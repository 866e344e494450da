------------------------- MODULE MaintenanceProofs -------------------------
(***************************************************************************)
(* Proofs about the maintenance loops, for any workers, rows, batch size   *)
(* and number of batches: the types, and that a batch still owns its rows  *)
(* when it changes them.                                                   *)
(***************************************************************************)
EXTENDS Maintenance, FiniteSetTheorems, TLAPS

Pass == [job : Nat, done : Nat, open : BOOLEAN, picked : SUBSET Rows]

(***************************************************************************)
(* The rows overdue for a job are finitely many, so that a batch can be    *)
(* counted, and every pass is within its jobs and batches.                 *)
(***************************************************************************)
TypeInv ==
    /\ overdue \in [Jobs -> SUBSET Rows]
    /\ \A job \in Jobs : IsFiniteSet(overdue[job])
    /\ pass \in [Loops -> Pass]
    /\ TypeOK

(***************************************************************************)
(* Rows are locked only while the transaction of a batch is open, which is *)
(* while a job runs.                                                       *)
(***************************************************************************)
LocksAreHeld ==
    \A p \in Loops :
        /\ pass[p].open => pass[p].job # 0
        /\ ~pass[p].open => pass[p].picked = {}

IndInv == TypeInv /\ LocksAreHeld /\ BatchOwnsItsRows

-----------------------------------------------------------------------------

\* The jobs of a loop, and the record of a loop that waits.
LEMMA LoopFacts ==
    /\ \A p \in Loops :
           /\ Len(JobsOf(p)) \in Nat \ {0}
           /\ \A n \in 1 .. Len(JobsOf(p)) : JobsOf(p)[n] \in Jobs
    /\ Waiting \in Pass
    /\ Waiting.job = 0 /\ Waiting.done = 0 /\ ~Waiting.open /\ Waiting.picked = {}
    /\ Cardinality({}) = 0
  <1>1. ASSUME NEW p \in Loops
        PROVE  /\ Len(JobsOf(p)) \in Nat \ {0}
               /\ \A n \in 1 .. Len(JobsOf(p)) : JobsOf(p)[n] \in Jobs
    BY DEF JobsOf, Jobs
  <1>2. Waiting \in Pass
    BY DEF Waiting, Pass
  <1>3. Waiting.job = 0 /\ Waiting.done = 0 /\ ~Waiting.open /\ Waiting.picked = {}
    BY DEF Waiting
  <1>4. Cardinality({}) = 0
    BY FS_EmptySet
  <1> QED
    BY <1>1, <1>2, <1>3, <1>4

\* A loop that holds rows is in one of the jobs.
LEMMA HoldersHaveAJob ==
    ASSUME IndInv, NEW p \in Loops, pass[p].open
    PROVE  JobOf(p) \in Jobs
  <1>1. pass[p].job \in 1 .. Len(JobsOf(p))
    BY LoopFacts DEF IndInv, LocksAreHeld, TypeInv, TypeOK
  <1> QED
    BY <1>1, LoopFacts DEF JobOf

(***************************************************************************)
(* What a statement of one loop may do: rows leave the tables that no      *)
(* other loop holds, and the loop itself goes on with no rows or with rows *)
(* that are overdue and that no other loop holds.                          *)
(***************************************************************************)
LEMMA LoopStepKeepsInv ==
    ASSUME IndInv, NEW p \in Loops, NEW S \in SUBSET Rows, NEW new \in Pass,
           \A q \in Loops \ {p} : pass[q].picked \cap S = {},
           overdue' = [job \in Jobs |-> overdue[job] \ S], older' \subseteq older,
           pass' = [pass EXCEPT ![p] = new],
           new.job \in 0 .. Len(JobsOf(p)), new.done \in 0 .. MaxBatches - 1,
           new.open => new.job # 0,
           ~new.open => new.picked = {},
           new.open => /\ new.picked \subseteq overdue'[JobsOf(p)[new.job]]
                       /\ Cardinality(new.picked) <= BatchSize
                       /\ \A q \in Loops \ {p} : pass[q].picked \cap new.picked = {}
    PROVE  IndInv'
  <1> USE DEF IndInv
  <1>1. /\ pass' \in [Loops -> Pass] /\ pass'[p] = new
        /\ \A q \in Loops : q # p => pass'[q] = pass[q]
    BY DEF TypeInv
  <1>2. \A job \in Jobs : overdue'[job] = overdue[job] \ S
    OBVIOUS
  <1>3. TypeInv'
    <2>1. overdue' \in [Jobs -> SUBSET Rows]
      BY DEF TypeInv
    <2>2. \A job \in Jobs : IsFiniteSet(overdue'[job])
      BY <1>2, FS_Subset DEF TypeInv
    <2>3. TypeOK'
      <3>1. \A job \in Jobs : overdue'[job] \subseteq RowsOf(job)
        BY <1>2 DEF TypeInv, TypeOK
      <3>2. older' \subseteq Rows \X Rows
        BY DEF TypeInv, TypeOK
      <3>3. ASSUME NEW q \in Loops
            PROVE  /\ pass'[q].job \in 0 .. Len(JobsOf(q))
                   /\ pass'[q].done \in 0 .. MaxBatches - 1
                   /\ pass'[q].open \in BOOLEAN
                   /\ pass'[q].picked \subseteq Rows
                   /\ Cardinality(pass'[q].picked) <= BatchSize
        <4>1. CASE q # p
          BY <1>1, <4>1 DEF TypeInv, TypeOK
        <4>2. CASE q = p
          <5>1. Cardinality(new.picked) <= BatchSize
            <6>1. CASE new.open
              BY <6>1
            <6>2. CASE ~new.open
              <7>1. Cardinality(new.picked) = 0
                BY <6>2, LoopFacts, Zenon
              <7> QED
                BY <7>1, MaintenanceAssumption
            <6> QED
              BY <6>1, <6>2
          <5>2. new.open \in BOOLEAN /\ new.picked \subseteq Rows
            BY DEF Pass
          <5> QED
            BY <1>1, <4>2, <5>1, <5>2
        <4> QED
          BY <4>1, <4>2
      <3> QED
        BY <3>1, <3>2, <3>3 DEF TypeOK
    <2> QED
      BY <1>1, <2>1, <2>2, <2>3 DEF TypeInv
  <1>4. LocksAreHeld'
    BY <1>1 DEF LocksAreHeld
  <1>5. BatchOwnsItsRows'
    <2>1. ASSUME NEW q \in Loops, NEW r \in Rows, r \in pass'[q].picked
          PROVE  r \in overdue'[JobOf(q)']
      <3>1. CASE q # p
        <4>1. pass[q].open /\ JobOf(q)' = JobOf(q) /\ r \in pass[q].picked
          BY <1>1, <2>1, <3>1 DEF LocksAreHeld, JobOf
        <4>2. JobOf(q) \in Jobs
          BY <4>1, HoldersHaveAJob
        <4>3. r \in overdue[JobOf(q)] /\ r \notin S
          BY <3>1, <4>1 DEF BatchOwnsItsRows
        <4> QED
          BY <1>2, <4>1, <4>2, <4>3
      <3>2. CASE q = p
        BY <1>1, <2>1, <3>2 DEF JobOf
      <3> QED
        BY <3>1, <3>2
    <2>2. ASSUME NEW q \in Loops, NEW s \in Loops, q # s
          PROVE  pass'[q].picked \cap pass'[s].picked = {}
      <3>1. \A l \in Loops \ {p} : pass[l].picked \cap new.picked = {}
        OBVIOUS
      <3> QED
        BY <1>1, <2>2, <3>1 DEF BatchOwnsItsRows
    <2> QED
      BY <2>1, <2>2 DEF BatchOwnsItsRows
  <1> QED
    BY <1>3, <1>4, <1>5

\* The same when nothing leaves the tables.
LEMMA QuietLoopStepKeepsInv ==
    ASSUME IndInv, NEW p \in Loops, NEW new \in Pass,
           UNCHANGED <<overdue, older>>,
           pass' = [pass EXCEPT ![p] = new],
           new.job \in 0 .. Len(JobsOf(p)), new.done \in 0 .. MaxBatches - 1,
           new.open => new.job # 0,
           ~new.open => new.picked = {},
           new.open => /\ new.picked \subseteq overdue[JobsOf(p)[new.job]]
                       /\ Cardinality(new.picked) <= BatchSize
                       /\ \A q \in Loops \ {p} : pass[q].picked \cap new.picked = {}
    PROVE  IndInv'
  <1>1. overdue' = [job \in Jobs |-> overdue[job] \ {}]
    BY DEF IndInv, TypeInv
  <1>2. \A q \in Loops \ {p} : pass[q].picked \cap {} = {}
    OBVIOUS
  <1> QED
    BY <1>1, <1>2, LoopStepKeepsInv, Zenon

LEMMA InitInv == Init => IndInv
  <1> SUFFICES ASSUME Init PROVE IndInv
    OBVIOUS
  <1>1. /\ \A p \in Loops : pass[p] = Waiting
        /\ \A job \in Jobs : overdue[job] = {}
        /\ overdue \in [Jobs -> SUBSET Rows] /\ pass \in [Loops -> Pass] /\ older = {}
    BY LoopFacts DEF Init
  <1>2. TypeInv
    <2>1. 0 \in 0 .. MaxBatches - 1 /\ 0 <= BatchSize /\ \A p \in Loops : 0 \in 0 .. Len(JobsOf(p))
      BY LoopFacts, MaintenanceAssumption
    <2>2. \A job \in Jobs : IsFiniteSet(overdue[job]) /\ overdue[job] \subseteq RowsOf(job)
      BY <1>1, FS_EmptySet
    <2>3. \A p \in Loops :
             /\ pass[p].job \in 0 .. Len(JobsOf(p)) /\ pass[p].done \in 0 .. MaxBatches - 1
             /\ pass[p].open \in BOOLEAN /\ pass[p].picked \subseteq Rows
             /\ Cardinality(pass[p].picked) <= BatchSize
      <3>1. Waiting.open \in BOOLEAN /\ Waiting.picked \subseteq Rows
        BY DEF Waiting
      <3>2. Cardinality(Waiting.picked) = 0 /\ Waiting.job = 0 /\ Waiting.done = 0
        BY LoopFacts
      <3> QED
        BY <1>1, <2>1, <3>1, <3>2
    <2> QED
      BY <1>1, <2>2, <2>3 DEF TypeInv, TypeOK
  <1>3. LocksAreHeld /\ BatchOwnsItsRows
    BY <1>1, LoopFacts DEF LocksAreHeld, BatchOwnsItsRows
  <1> QED
    BY <1>2, <1>3 DEF IndInv

\* A row becomes overdue: no batch has it.
LEMMA BecomesOverdueKeepsInv ==
    ASSUME IndInv, NEW r \in Rows, BecomesOverdue(r)
    PROVE  IndInv'
  <1> USE DEF IndInv
  <1>1. PICK job \in Jobs :
            /\ r \in RowsOf(job)
            /\ overdue' = [overdue EXCEPT ![job] = @ \cup {r}]
            /\ older' = older \cup (overdue[job] \X {r})
    BY Zenon DEF BecomesOverdue, AddAfter
  <1>2. pass' = pass
    BY DEF BecomesOverdue
  <1>3. /\ overdue' \in [Jobs -> SUBSET Rows]
        /\ overdue'[job] = overdue[job] \cup {r}
        /\ \A j \in Jobs : j # job => overdue'[j] = overdue[j]
    BY <1>1 DEF TypeInv
  <1>4. TypeInv'
    <2>1. \A j \in Jobs : IsFiniteSet(overdue'[j])
      BY <1>3, FS_AddElement DEF TypeInv
    <2>2. \A j \in Jobs : overdue'[j] \subseteq RowsOf(j)
      BY <1>1, <1>3 DEF TypeInv, TypeOK
    <2>3. older' \subseteq Rows \X Rows
      BY <1>1 DEF TypeInv, TypeOK
    <2> QED
      BY <1>2, <1>3, <2>1, <2>2, <2>3 DEF TypeInv, TypeOK
  <1>5. LocksAreHeld'
    BY <1>2 DEF LocksAreHeld
  <1>6. BatchOwnsItsRows'
    <2>1. ASSUME NEW p \in Loops, NEW s \in Rows, s \in pass'[p].picked
          PROVE  s \in overdue'[JobOf(p)']
      <3>1. pass[p].open /\ JobOf(p)' = JobOf(p) /\ s \in overdue[JobOf(p)]
        BY <1>2, <2>1 DEF LocksAreHeld, BatchOwnsItsRows, JobOf
      <3>2. JobOf(p) \in Jobs
        BY <3>1, HoldersHaveAJob
      <3> QED
        BY <1>3, <3>1, <3>2
    <2> QED
      BY <1>2, <2>1 DEF BatchOwnsItsRows
  <1> QED
    BY <1>4, <1>5, <1>6

\* A row leaves early: no batch has it, because the statement waits for its lock.
LEMMA LeavesEarlyKeepsInv ==
    ASSUME IndInv, NEW r \in Rows, LeavesEarly(r)
    PROVE  IndInv'
  <1> USE DEF IndInv
  <1>1. /\ overdue' = [job \in Jobs |-> overdue[job] \ {r}]
        /\ older' \subseteq older /\ pass' = pass
    BY DEF LeavesEarly, Leave, DropRows
  <1>2. \A job \in Jobs : overdue'[job] = overdue[job] \ {r}
    BY <1>1
  <1>3. \A p \in Loops : r \notin pass[p].picked
    BY DEF LeavesEarly, Locked
  <1>4. TypeInv'
    <2>1. overdue' \in [Jobs -> SUBSET Rows]
      BY <1>1 DEF TypeInv
    <2>2. \A j \in Jobs : IsFiniteSet(overdue'[j])
      BY <1>2, FS_Subset DEF TypeInv
    <2>3. \A j \in Jobs : overdue'[j] \subseteq RowsOf(j)
      BY <1>2 DEF TypeInv, TypeOK
    <2> QED
      BY <1>1, <2>1, <2>2, <2>3 DEF TypeInv, TypeOK
  <1>5. LocksAreHeld'
    BY <1>1 DEF LocksAreHeld
  <1>6. BatchOwnsItsRows'
    <2>1. ASSUME NEW p \in Loops, NEW s \in Rows, s \in pass'[p].picked
          PROVE  s \in overdue'[JobOf(p)']
      <3>1. pass[p].open /\ JobOf(p)' = JobOf(p) /\ s \in overdue[JobOf(p)] /\ s # r
        BY <1>1, <1>3, <2>1 DEF LocksAreHeld, BatchOwnsItsRows, JobOf
      <3>2. JobOf(p) \in Jobs
        BY <3>1, HoldersHaveAJob
      <3> QED
        BY <1>2, <3>1, <3>2
    <2> QED
      BY <1>1, <2>1 DEF BatchOwnsItsRows
  <1> QED
    BY <1>4, <1>5, <1>6

\* A pass starts, or a worker stops: its loop holds no row.
LEMMA BoundaryKeepsInv ==
    ASSUME IndInv, NEW p \in Loops, StartPass(p) \/ Stop(p)
    PROVE  IndInv'
  <1>1. CASE StartPass(p)
    <2> DEFINE new == [pass[p] EXCEPT !.job = 1]
    <2>1. UNCHANGED <<overdue, older>> /\ pass' = [pass EXCEPT ![p] = new]
      BY <1>1 DEF StartPass
    <2>2. pass[p] \in Pass /\ pass[p].done \in 0 .. MaxBatches - 1 /\ ~pass[p].open /\ pass[p].picked = {}
      BY <1>1 DEF StartPass, IndInv, TypeInv, TypeOK, LocksAreHeld
    <2>3. new \in Pass /\ new.job = 1 /\ new.done = pass[p].done /\ ~new.open /\ new.picked = {}
      BY <2>2 DEF Pass
    <2>4. new.job \in 0 .. Len(JobsOf(p))
      BY <2>3, LoopFacts
    <2> HIDE DEF new
    <2> QED
      BY <2>1, <2>2, <2>3, <2>4, QuietLoopStepKeepsInv, Zenon
  <1>2. CASE Stop(p)
    <2>1. UNCHANGED <<overdue, older>> /\ pass' = [pass EXCEPT ![p] = Waiting]
      BY <1>2 DEF Stop
    <2>2. 0 \in 0 .. Len(JobsOf(p)) /\ 0 \in 0 .. MaxBatches - 1
      BY LoopFacts, MaintenanceAssumption
    <2> QED
      BY <2>1, <2>2, LoopFacts, QuietLoopStepKeepsInv, Zenon
  <1> QED
    BY <1>1, <1>2

\* A batch picks overdue rows that no other loop has locked.
LEMMA PickBatchKeepsInv ==
    ASSUME IndInv, NEW p \in Loops, PickBatch(p)
    PROVE  IndInv'
  <1>1. PICK rows \in Picked(p) :
            pass' = [pass EXCEPT ![p].open = TRUE, ![p].picked = rows]
    BY Zenon DEF PickBatch
  <1> DEFINE new == [pass[p] EXCEPT !.open = TRUE, !.picked = rows]
  <1>2. pass' = [pass EXCEPT ![p] = new] /\ UNCHANGED <<overdue, older>>
    BY <1>1, Zenon DEF PickBatch, IndInv, TypeInv
  <1>3. rows \subseteq overdue[JobOf(p)] \ Locked /\ Cardinality(rows) <= BatchSize
    BY DEF Picked, Oldest
  <1>4. /\ pass[p] \in Pass /\ pass[p].job # 0
        /\ pass[p].job \in 0 .. Len(JobsOf(p)) /\ pass[p].done \in 0 .. MaxBatches - 1
    BY DEF PickBatch, IndInv, TypeInv, TypeOK
  <1>5. JobOf(p) \in Jobs
    BY <1>4, LoopFacts DEF JobOf
  <1>6. rows \subseteq Rows
    BY <1>3, <1>5 DEF IndInv, TypeInv
  <1>7. /\ new \in Pass /\ new.job = pass[p].job /\ new.done = pass[p].done
        /\ new.open /\ new.picked = rows
    BY <1>4, <1>6, Zenon DEF Pass
  <1>8. \A q \in Loops : pass[q].picked \cap rows = {}
    BY <1>3 DEF Locked
  <1> HIDE DEF new
  <1> QED
    BY <1>2, <1>3, <1>4, <1>7, <1>8, QuietLoopStepKeepsInv, Zenon DEF JobOf

\* A pass between two jobs.
LEMMA BetweenJobs ==
    ASSUME NEW w \in Pass, NEW n \in Nat
    PROVE  /\ [w EXCEPT !.job = n] \in Pass
           /\ [w EXCEPT !.job = n].job = n
           /\ [w EXCEPT !.job = n].done = w.done
           /\ [w EXCEPT !.job = n].open = w.open
           /\ [w EXCEPT !.job = n].picked = w.picked
  BY DEF Pass

\* What EndJob leaves in the pass.
LEMMA EndJobFacts ==
    ASSUME IndInv, NEW p \in Loops, EndJob(p)
    PROVE  \E new \in Pass :
               /\ pass' = [pass EXCEPT ![p] = new]
               /\ new.job \in 0 .. Len(JobsOf(p)) /\ new.done = 0 /\ ~new.open /\ new.picked = {}
  <1> DEFINE new == IF pass[p].job < Len(JobsOf(p))
                    THEN [Waiting EXCEPT !.job = pass[p].job + 1] ELSE Waiting
  <1>1. pass' = [pass EXCEPT ![p] = new]
    BY DEF EndJob
  <1>2. pass[p].job \in 0 .. Len(JobsOf(p)) /\ Len(JobsOf(p)) \in Nat
    BY LoopFacts DEF IndInv, TypeInv, TypeOK
  <1>3. CASE pass[p].job < Len(JobsOf(p))
    <2>1. new = [Waiting EXCEPT !.job = pass[p].job + 1]
      BY <1>3
    <2>a. pass[p].job + 1 \in Nat /\ 0 \in Nat
      BY <1>2
    <2>2. new \in Pass /\ new.job = pass[p].job + 1 /\ new.done = 0 /\ ~new.open /\ new.picked = {}
      <3> HIDE DEF new
      <3>1. /\ Waiting \in Pass /\ Waiting.done = 0 /\ ~Waiting.open /\ Waiting.picked = {}
        BY LoopFacts
      <3>2. /\ new \in Pass /\ new.job = pass[p].job + 1 /\ new.done = Waiting.done
            /\ new.open = Waiting.open /\ new.picked = Waiting.picked
        BY <2>1, <2>a, <3>1, BetweenJobs, Zenon
      <3> QED
        BY <3>1, <3>2
    <2>3. new.job \in 0 .. Len(JobsOf(p))
      BY <1>2, <1>3, <2>2
    <2> HIDE DEF new
    <2> QED
      BY <1>1, <2>2, <2>3, Zenon
  <1>4. CASE ~(pass[p].job < Len(JobsOf(p)))
    <2>1. new = Waiting
      BY <1>4
    <2>2. /\ new \in Pass /\ new.job = 0 /\ new.done = 0 /\ ~new.open /\ new.picked = {}
          /\ 0 \in 0 .. Len(JobsOf(p))
      <3> HIDE DEF new
      <3>1. 0 \in 0 .. Len(JobsOf(p))
        BY <1>2
      <3> QED
        BY <2>1, <3>1, LoopFacts, Zenon
    <2> HIDE DEF new
    <2> QED
      BY <1>1, <2>2, Zenon
  <1> QED
    BY <1>3, <1>4

\* The rows of a batch leave; no other loop has them.
LEMMA EndBatchKeepsInv ==
    ASSUME IndInv, NEW p \in Loops, NEW late \in BOOLEAN, NEW effect \in BOOLEAN,
           CommitBatch(p, late) \/ BatchFails(p, effect)
    PROVE  IndInv'
  <1> DEFINE S == pass[p].picked
  <1>1. S \in SUBSET Rows /\ \A q \in Loops \ {p} : pass[q].picked \cap S = {}
    BY DEF IndInv, TypeInv, TypeOK, BatchOwnsItsRows
  <1>2. 0 \in 0 .. MaxBatches - 1
    BY MaintenanceAssumption
  <1>3. ASSUME Leave(S), EndJob(p) PROVE IndInv'
    <2>1. overdue' = [job \in Jobs |-> overdue[job] \ S] /\ older' \subseteq older
      BY <1>3 DEF Leave, DropRows
    <2>2. PICK new \in Pass :
               /\ pass' = [pass EXCEPT ![p] = new]
               /\ new.job \in 0 .. Len(JobsOf(p)) /\ new.done = 0 /\ ~new.open /\ new.picked = {}
      BY <1>3, EndJobFacts
    <2> HIDE DEF S
    <2> QED
      BY <1>1, <1>2, <2>1, <2>2, LoopStepKeepsInv, Zenon
  <1>4. ASSUME UNCHANGED <<overdue, older>>, EndJob(p) PROVE IndInv'
    <2>1. PICK new \in Pass :
               /\ pass' = [pass EXCEPT ![p] = new]
               /\ new.job \in 0 .. Len(JobsOf(p)) /\ new.done = 0 /\ ~new.open /\ new.picked = {}
      BY <1>4, EndJobFacts
    <2> QED
      BY <1>2, <1>4, <2>1, QuietLoopStepKeepsInv, Zenon
  <1>5. CASE CommitBatch(p, late) /\ Continues(p, late)
    <2> DEFINE new == [Waiting EXCEPT !.job = pass[p].job, !.done = pass[p].done + 1]
    <2>1. Leave(S) /\ pass' = [pass EXCEPT ![p] = new]
      BY <1>5 DEF CommitBatch
    <2>2. overdue' = [job \in Jobs |-> overdue[job] \ S] /\ older' \subseteq older
      BY <2>1 DEF Leave, DropRows
    <2>3. /\ pass[p].job \in 0 .. Len(JobsOf(p)) /\ Len(JobsOf(p)) \in Nat
          /\ pass[p].done \in 0 .. MaxBatches - 1 /\ pass[p].done + 1 < MaxBatches
      BY <1>5, LoopFacts DEF Continues, IndInv, TypeInv, TypeOK
    <2>4. /\ new \in Pass /\ new.job = pass[p].job /\ new.done = pass[p].done + 1
          /\ ~new.open /\ new.picked = {}
      <3>1. pass[p].job \in Nat /\ pass[p].done + 1 \in Nat
        BY <2>3, MaintenanceAssumption
      <3>2. /\ Waiting \in Pass /\ ~Waiting.open /\ Waiting.picked = {}
        BY LoopFacts
      <3>3. /\ new \in Pass /\ new.job = pass[p].job /\ new.done = pass[p].done + 1
            /\ new.open = Waiting.open /\ new.picked = Waiting.picked
        BY <3>1, <3>2, Zenon DEF Pass
      <3> HIDE DEF new
      <3> QED
        BY <3>2, <3>3
    <2>5. new.done \in 0 .. MaxBatches - 1
      BY <2>3, <2>4, MaintenanceAssumption
    <2> HIDE DEF new, S
    <2> QED
      BY <1>1, <2>1, <2>2, <2>3, <2>4, <2>5, LoopStepKeepsInv, Zenon
  <1>6. CASE CommitBatch(p, late) /\ ~Continues(p, late)
    BY <1>3, <1>6 DEF CommitBatch
  <1>7. CASE BatchFails(p, effect)
    BY <1>3, <1>4, <1>7 DEF BatchFails
  <1> QED
    BY <1>5, <1>6, <1>7

-----------------------------------------------------------------------------

LEMMA NextKeepsInv == IndInv /\ [Next]_vars => IndInv'
  <1> SUFFICES ASSUME IndInv, [Next]_vars PROVE IndInv'
    OBVIOUS
  <1>1. CASE Clock
    BY <1>1, BecomesOverdueKeepsInv, LeavesEarlyKeepsInv DEF Clock
  <1>2. ASSUME NEW p \in Loops, Loop(p) \/ Stop(p) PROVE IndInv'
    BY <1>2, BoundaryKeepsInv, PickBatchKeepsInv, EndBatchKeepsInv DEF Loop
  <1>3. CASE UNCHANGED vars
    <2>1. overdue' = overdue /\ older' = older /\ pass' = pass
      BY <1>3 DEF vars
    <2>2. TypeInv'
      BY <2>1 DEF IndInv, TypeInv, TypeOK
    <2>3. LocksAreHeld'
      BY <2>1 DEF IndInv, LocksAreHeld
    <2>4. BatchOwnsItsRows'
      BY <2>1 DEF IndInv, BatchOwnsItsRows, JobOf
    <2> QED
      BY <2>2, <2>3, <2>4 DEF IndInv
  <1> QED
    BY <1>1, <1>2, <1>3 DEF Next

LEMMA Invariance == Spec => []IndInv
  BY InitInv, NextKeepsInv, PTL DEF Spec

(***************************************************************************)
(* A row is overdue for a job that handles it, and a pass stays within its *)
(* jobs, its batches and their size (maintenanceLoop, batches).            *)
(***************************************************************************)
THEOREM TypeTheorem == Spec => []TypeOK
  <1>1. IndInv => TypeOK
    BY DEF IndInv, TypeInv
  <1> QED
    BY <1>1, Invariance, PTL

(***************************************************************************)
(* What a batch is about to change is still overdue, and no other batch    *)
(* has it, however many workers run the loops (recoverLeases,              *)
(* promoteTimedOut, pruneEvents).                                          *)
(***************************************************************************)
THEOREM BatchTheorem == Spec => []BatchOwnsItsRows
  <1>1. IndInv => BatchOwnsItsRows
    BY DEF IndInv
  <1> QED
    BY <1>1, Invariance, PTL
=============================================================================
