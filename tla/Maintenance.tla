---------------------------- MODULE Maintenance ----------------------------
(***************************************************************************)
(* The background loops of a worker (worker.go: maintenanceLoop,           *)
(* retentionLoop, batches) over the rows whose time has passed: expired    *)
(* leases, overdue waits, expired events.  Several workers run the loops   *)
(* at the same time, new rows keep becoming overdue, and any batch may     *)
(* fail.  What a batch does to one row is in RunStore.                     *)
(***************************************************************************)
EXTENDS Naturals, Sequences, FiniteSets, Functions, RowOrder

CONSTANTS
    Workers,        \* workers that run the loops
    LeasedRuns,     \* runs whose lease may expire
    WaitingRuns,    \* runs whose wait may time out
    LoggedEvents,   \* events that may expire
    BatchSize,      \* maintenanceBatch, pruneBatch
    MaxBatches      \* batches of one pass: 8, or 64 for events

ASSUME MaintenanceAssumption == BatchSize \in Nat \ {0} /\ MaxBatches \in Nat \ {0}

VARIABLES
    overdue,    \* per job: the rows past its cutoff
    older,      \* their order, among the rows of a job
    pass        \* per loop: the pass it is in

vars == <<overdue, older, pass>>

Jobs == {"recover", "promote", "prune"}

RowsOf(job) ==
    CASE job = "recover" -> LeasedRuns
      [] job = "promote" -> WaitingRuns
      [] job = "prune"   -> LoggedEvents

Rows == LeasedRuns \cup WaitingRuns \cup LoggedEvents

\* The two loops of each worker, and what a tick of each runs.
Loops == Workers \X {"maintenance", "retention"}

JobsOf(p) == IF p[2] = "maintenance" THEN <<"recover", "promote">> ELSE <<"prune">>

(***************************************************************************)
(* A pass is at job number `job` of its loop (0: waiting for the ticker),  *)
(* has finished `done` batches of it, and in the transaction of the        *)
(* current batch holds the locks of the rows `picked`.                     *)
(***************************************************************************)
Waiting == [job |-> 0, done |-> 0, open |-> FALSE, picked |-> {}]

Init == overdue = [job \in Jobs |-> {}] /\ older = {} /\ pass = [p \in Loops |-> Waiting]

JobOf(p) == JobsOf(p)[pass[p].job]

Locked == UNION {pass[p].picked : p \in Loops}

IsOverdue(r) == \E job \in Jobs : r \in overdue[job]

Leave(S) ==
    /\ overdue' = [job \in Jobs |-> overdue[job] \ S]
    /\ older' = DropRows(older, S)

\* lease_until, waiting_deadline or expires_at passes; rows become overdue in its order.
BecomesOverdue(r) ==
    /\ ~IsOverdue(r)
    /\ \E job \in Jobs :
           /\ r \in RowsOf(job)
           /\ overdue' = [overdue EXCEPT ![job] = @ \cup {r}]
           /\ older' = AddAfter(older, overdue[job], r)
    /\ UNCHANGED pass

\* Cancel, or an event for an overdue wait; the statement waits for the row's lock.
LeavesEarly(r) ==
    /\ IsOverdue(r) /\ r \notin LoggedEvents \cup Locked
    /\ Leave({r})
    /\ UNCHANGED pass

\* The ticker fires, or the loop starts.
StartPass(p) ==
    /\ pass[p].job = 0
    /\ pass' = [pass EXCEPT ![p].job = 1]
    /\ UNCHANGED <<overdue, older>>

MutantPickLocked(p) == Oldest(overdue[JobOf(p)], BatchSize, older)

MutantPickNewest(p) ==
    Oldest(overdue[JobOf(p)] \ Locked, BatchSize, {<<pair[2], pair[1]>> : pair \in older})

\* ORDER BY the timestamp, LIMIT, FOR UPDATE SKIP LOCKED.
Picked(p) == Oldest(overdue[JobOf(p)] \ Locked, BatchSize, older)

PickBatch(p) ==
    /\ pass[p].job # 0 /\ ~pass[p].open
    /\ \E rows \in Picked(p) :
           pass' = [pass EXCEPT ![p].open = TRUE, ![p].picked = rows]
    /\ UNCHANGED <<overdue, older>>

\* A job returns; after an error, too, maintain goes on to the next one.
EndJob(p) ==
    pass' = [pass EXCEPT ![p] =
                IF pass[p].job < Len(JobsOf(p))
                THEN [Waiting EXCEPT !.job = pass[p].job + 1] ELSE Waiting]

MutantDrainAll(p, late) ==
    ~late /\ Cardinality(pass[p].picked) = BatchSize

\* batches goes on after a full batch, within its number and its second.
Continues(p, late) ==
    /\ Cardinality(pass[p].picked) = BatchSize
    /\ pass[p].done + 1 < MaxBatches
    /\ ~late

CommitBatch(p, late) ==
    /\ pass[p].open
    /\ Leave(pass[p].picked)
    /\ IF Continues(p, late)
       THEN pass' = [pass EXCEPT ![p] = [Waiting EXCEPT !.job = pass[p].job, !.done = pass[p].done + 1]]
       ELSE EndJob(p)

\* The statement fails; it may have taken effect although its reply was lost.
BatchFails(p, effect) ==
    /\ pass[p].open
    /\ IF effect THEN Leave(pass[p].picked) ELSE UNCHANGED <<overdue, older>>
    /\ EndJob(p)

\* The worker's context ends or its process dies; a later worker takes its place.
Stop(p) ==
    /\ pass[p].job # 0
    /\ pass' = [pass EXCEPT ![p] = Waiting]
    /\ UNCHANGED <<overdue, older>>

Clock == \E r \in Rows : BecomesOverdue(r) \/ LeavesEarly(r)

Loop(p) ==
    \/ StartPass(p)
    \/ PickBatch(p)
    \/ \E late \in BOOLEAN : CommitBatch(p, late)
    \/ \E effect \in BOOLEAN : BatchFails(p, effect)

Next == Clock \/ \E p \in Loops : Loop(p) \/ Stop(p)

Spec == Init /\ [][Next]_vars

-----------------------------------------------------------------------------

(***************************************************************************)
(* Types: a row is overdue for a job that handles it, and a pass stays     *)
(* within its jobs and batches.                                            *)
(***************************************************************************)
TypeOK ==
    /\ \A job \in Jobs : overdue[job] \subseteq RowsOf(job)
    /\ older \subseteq Rows \X Rows
    /\ \A p \in Loops :
           /\ pass[p].job \in 0 .. Len(JobsOf(p))
           /\ pass[p].done \in 0 .. MaxBatches - 1
           /\ pass[p].open \in BOOLEAN
           /\ pass[p].picked \subseteq Rows
           /\ Cardinality(pass[p].picked) <= BatchSize

(***************************************************************************)
(* What a batch is about to change is still overdue when it changes it,    *)
(* and no other worker's batch has it: one expiry is charged once, and a   *)
(* lease granted meanwhile is not taken away (FOR UPDATE SKIP LOCKED in    *)
(* recoverLeases, promoteTimedOut and pruneEvents).                        *)
(***************************************************************************)
BatchOwnsItsRows ==
    /\ \A p \in Loops, r \in Rows : r \in pass[p].picked => r \in overdue[JobOf(p)]
    /\ \A p, q \in Loops : p # q => pass[p].picked \cap pass[q].picked = {}

(***************************************************************************)
(* What a row of a job needs: some time its loops are not stopped any      *)
(* more, their tickers fire and their statements end, with a reply or an   *)
(* error, and the batches that hold a given row of the job do not all      *)
(* fail.                                                                   *)
(***************************************************************************)
Handles(r) == \E p \in Loops, late \in BOOLEAN : r \in pass[p].picked /\ CommitBatch(p, late)

JobGoesOn(job) ==
    /\ <>[][Clock \/ \E p \in Loops : Loop(p)]_vars
    /\ \A p \in {q \in Loops : job \in Range(JobsOf(q))} : WF_vars(Loop(p))
    /\ \A r \in RowsOf(job) : SF_vars(Handles(r))

(***************************************************************************)
(* An overdue row is handled, however many others become overdue meanwhile *)
(* and although a pass handles a bounded number: the oldest come first.    *)
(* Nothing is assumed of the other jobs: overdue waits are woken although  *)
(* every statement of lease recovery fails (maintain ignores its error)    *)
(* and although leases expire faster than they are recovered (batches      *)
(* ends).                                                                  *)
(***************************************************************************)
EveryOverdueRowIsHandled ==
    \A job \in Jobs : JobGoesOn(job) => \A r \in RowsOf(job) : IsOverdue(r) ~> ~IsOverdue(r)
=============================================================================
