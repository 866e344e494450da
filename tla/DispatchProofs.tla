--------------------------- MODULE DispatchProofs ---------------------------
(***************************************************************************)
(* Proofs about the dispatcher and WaitForIdle, for any set of runs, any   *)
(* MaxConcurrency and any number of callers: the types, the bound on the   *)
(* claims of a worker, that nothing announced is forgotten, and that       *)
(* WaitForIdle reports idleness only when there is some.                   *)
(***************************************************************************)
EXTENDS Dispatch, FiniteSetTheorems, TLAPS

(***************************************************************************)
(* The queue is finite, so that the rows of a claim can be counted.        *)
(***************************************************************************)
TypeInv == TypeOK /\ IsFiniteSet(ready)

(***************************************************************************)
(* Between the moment the free slots are read and the claim's return: the  *)
(* slots read are still free, and one that was freed since has signalled   *)
(* or is about to.  The second part is what a full claim leaves behind for *)
(* the runs beyond its LIMIT.                                              *)
(***************************************************************************)
SlotsAreFree ==
    pc = "claim" =>
        /\ available + InFlight <= MaxConcurrency
        /\ available + InFlight = MaxConcurrency \/ wake \/ own["decremented"] > 0

(***************************************************************************)
(* Without a worker the loop is off and has no claims of its own; a caller *)
(* of WaitForIdle is alone and keeps workers from starting.                *)
(***************************************************************************)
LockIsHeld ==
    /\ ~running => pc = "off" /\ own = NoClaims
    /\ locked <=> calling # {}
    /\ locked => ~running
    /\ \A c, d \in calling : c = d

IndInv ==
    TypeInv /\ SlotsAreFree /\ LockIsHeld /\ ConcurrencyIsBounded /\ QuietMeansDone /\ IdleMeansIdle

-----------------------------------------------------------------------------
(* What ORDER BY ... LIMIT says of the rows it returns.                    *)

\* At most n rows of S; with fewer than n, all of S.
LEMMA OldestIsLimited ==
    ASSUME NEW S, IsFiniteSet(S), NEW n \in Nat, NEW order, NEW rows \in Oldest(S, n, order)
    PROVE  /\ rows \subseteq S /\ IsFiniteSet(rows)
           /\ Cardinality(rows) \in 0 .. n
           /\ Cardinality(rows) < n => rows = S
  <1>1. /\ rows \subseteq S
        /\ Cardinality(rows) <= n
        /\ rows # S => Cardinality(rows) = n
    BY DEF Oldest
  <1>2. IsFiniteSet(rows)
    BY <1>1, FS_Subset
  <1>3. Cardinality(rows) \in Nat
    BY <1>2, FS_CardinalityType
  <1> QED
    BY <1>1, <1>2, <1>3

-----------------------------------------------------------------------------
(* The inductive steps, for the actions in the order of Dispatch.          *)

LEMMA InitInv == Init => IndInv
  <1> SUFFICES ASSUME Init PROVE IndInv
    OBVIOUS
  <1>1. TypeInv
    <2>1. available \in 0 .. MaxConcurrency /\ orphans \in Nat
      BY DispatchAssumption DEF Init
    <2>2. own \in [Phases -> Nat]
      BY DEF Init, NoClaims
    <2>3. /\ ready \subseteq Runs /\ older \subseteq ready \X ready
          /\ hinted \subseteq ready \cap Supported /\ IsFiniteSet(ready)
      BY FS_EmptySet DEF Init
    <2> QED
      BY <2>1, <2>2, <2>3, Zenon DEF Init, TypeInv, TypeOK
  <1>2. SlotsAreFree /\ LockIsHeld /\ QuietMeansDone /\ IdleMeansIdle
    BY DEF Init, SlotsAreFree, LockIsHeld, QuietMeansDone, IdleMeansIdle
  <1>3. ConcurrencyIsBounded
    BY DispatchAssumption DEF Init, ConcurrencyIsBounded, InFlight, NoClaims, Phases
  <1> QED
    BY <1>1, <1>2, <1>3 DEF IndInv

\* A run becomes due: it is announced on the connection, or there is none.
LEMMA BecomesDueKeepsInv ==
    ASSUME IndInv, NEW r \in Runs, NEW hint \in BOOLEAN, BecomesDue(r, hint)
    PROVE  IndInv'
  <1> USE DEF IndInv
  <1>1. /\ ready' = ready \cup {r}
        /\ hinted' = IF hint THEN hinted \cup ({r} \cap Supported) ELSE hinted
        /\ notified' = (notified \/ (hint /\ listener = "up"))
    BY DEF BecomesDue
  <1>2. UNCHANGED <<listener, wake, running, stop, pc, available, left, own, orphans, locked, calling, waiter>>
    BY DEF BecomesDue, loopVars, claimVars, idleVars
  <1>3. TypeInv'
    <2>1. ready' \subseteq Runs /\ hinted' \subseteq ready' \cap Supported
      BY <1>1 DEF TypeInv, TypeOK
    <2>2. older' \subseteq ready' \X ready'
      <3>1. PICK before \in SUBSET ready :
                older' = older \cup (before \X {r}) \cup ({r} \X (ready \ before))
        BY DEF BecomesDue, Places, AddBetween
      <3> QED
        BY <1>1, <3>1 DEF TypeInv, TypeOK
    <2>3. IsFiniteSet(ready')
      BY <1>1, FS_AddElement DEF TypeInv
    <2>4. notified' \in BOOLEAN
      BY <1>1 DEF TypeInv, TypeOK
    <2> QED
      BY <1>2, <2>1, <2>2, <2>3, <2>4 DEF TypeInv, TypeOK
  <1>4. SlotsAreFree' /\ LockIsHeld' /\ ConcurrencyIsBounded' /\ IdleMeansIdle'
    BY <1>2 DEF SlotsAreFree, LockIsHeld, ConcurrencyIsBounded, IdleMeansIdle, InFlight, ActiveClaims, OwnClaims
  <1>5. QuietMeansDone'
    BY <1>1, <1>2, Zenon DEF QuietMeansDone, InFlight
  <1> QED
    BY <1>3, <1>4, <1>5

\* Rows leave the queue, and nothing else about it changes.
LEMMA TakeKeepsTypes ==
    ASSUME TypeInv, NEW rows, Take(rows)
    PROVE  /\ ready' \subseteq Runs /\ older' \subseteq ready' \X ready'
           /\ hinted' \subseteq ready' \cap Supported
           /\ IsFiniteSet(ready') /\ hinted' = hinted \ rows
  <1>1. ready' = ready \ rows /\ hinted' = hinted \ rows
    BY DEF Take
  <1>2. older' = {pair \in older : pair[1] \notin rows /\ pair[2] \notin rows}
    BY DEF Take, DropRows
  <1>3. /\ ready' \subseteq Runs /\ older' \subseteq ready' \X ready'
        /\ hinted' \subseteq ready' \cap Supported
    BY <1>1, <1>2 DEF TypeInv, TypeOK
  <1>4. IsFiniteSet(ready')
    BY <1>1, FS_Subset DEF TypeInv
  <1> QED
    BY <1>1, <1>3, <1>4

LEMMA LeavesQueueKeepsInv ==
    ASSUME IndInv, NEW r \in Runs, LeavesQueue(r)
    PROVE  IndInv'
  <1> USE DEF IndInv
  <1>1. Take({r})
    BY DEF LeavesQueue
  <1>2. UNCHANGED <<listener, notified, wake, running, stop, pc, available, left, own, orphans,
                    locked, calling, waiter>>
    BY DEF LeavesQueue, signalVars, loopVars, claimVars, idleVars
  <1>3. TypeInv'
    BY <1>1, <1>2, TakeKeepsTypes DEF TypeInv, TypeOK
  <1>4. SlotsAreFree' /\ LockIsHeld' /\ ConcurrencyIsBounded' /\ IdleMeansIdle'
    BY <1>2 DEF SlotsAreFree, LockIsHeld, ConcurrencyIsBounded, IdleMeansIdle, InFlight, ActiveClaims, OwnClaims
  <1>5. QuietMeansDone'
    BY <1>1, <1>2, TakeKeepsTypes DEF QuietMeansDone, InFlight
  <1> QED
    BY <1>3, <1>4, <1>5

\* The listener only adds signals, but for the notification it turns into one.
LEMMA ListenKeepsInv ==
    ASSUME IndInv, Listen
    PROVE  IndInv'
  <1> USE DEF IndInv
  <1>1. /\ wake' = TRUE /\ listener' \in {"down", "up"} /\ notified' \in BOOLEAN
        /\ UNCHANGED <<queueVars, loopVars, claimVars, idleVars>>
    BY Zenon DEF Listen, Connect, Receive, Disconnect, TypeInv, TypeOK
  <1>2. UNCHANGED <<ready, older, hinted, running, stop, pc, available, left, own, orphans,
                    locked, calling, waiter>>
    BY <1>1 DEF queueVars, loopVars, claimVars, idleVars
  <1>3. TypeInv'
    BY <1>1, <1>2 DEF TypeInv, TypeOK
  <1>4. SlotsAreFree' /\ LockIsHeld' /\ ConcurrencyIsBounded' /\ IdleMeansIdle'
    BY <1>1, <1>2 DEF SlotsAreFree, LockIsHeld, ConcurrencyIsBounded, IdleMeansIdle, InFlight, ActiveClaims, OwnClaims
  <1>5. QuietMeansDone'
    BY <1>1 DEF QuietMeansDone
  <1> QED
    BY <1>3, <1>4, <1>5

\* StartWorker and Stop.
LEMMA StartKeepsInv ==
    ASSUME IndInv, StartWorker \/ Stop
    PROVE  IndInv'
  <1> USE DEF IndInv
  <1>1. CASE StartWorker
    <2>1. /\ ~locked /\ running' = TRUE /\ pc' = "dispatch" /\ wake' = TRUE
          /\ UNCHANGED <<ready, older, hinted, listener, notified, stop, available, left, own, orphans,
                         locked, calling, waiter>>
      BY <1>1 DEF StartWorker, queueVars, claimVars, idleVars
    <2>2. TypeInv'
      BY <2>1 DEF TypeInv, TypeOK
    <2>3. SlotsAreFree' /\ LockIsHeld' /\ QuietMeansDone'
      BY <2>1 DEF SlotsAreFree, LockIsHeld, QuietMeansDone
    <2>4. ConcurrencyIsBounded' /\ IdleMeansIdle'
      BY <2>1 DEF ConcurrencyIsBounded, IdleMeansIdle, InFlight, ActiveClaims, OwnClaims
    <2> QED
      BY <2>2, <2>3, <2>4
  <1>2. CASE Stop
    <2>1. /\ running /\ stop' = TRUE
          /\ UNCHANGED <<ready, older, hinted, listener, notified, wake, running, pc, available, left,
                         own, orphans, locked, calling, waiter>>
      BY <1>2 DEF Stop, queueVars, signalVars, claimVars, idleVars
    <2>2. TypeInv'
      BY <2>1 DEF TypeInv, TypeOK
    <2>3. SlotsAreFree' /\ LockIsHeld' /\ QuietMeansDone'
      BY <2>1 DEF SlotsAreFree, LockIsHeld, QuietMeansDone, InFlight
    <2>4. ConcurrencyIsBounded' /\ IdleMeansIdle'
      BY <2>1 DEF ConcurrencyIsBounded, IdleMeansIdle, InFlight, ActiveClaims, OwnClaims
    <2> QED
      BY <2>2, <2>3, <2>4
  <1> QED
    BY <1>1, <1>2

\* dispatch reads the free slots, or finds none.
LEMMA DispatchKeepsInv ==
    ASSUME IndInv, Dispatch
    PROVE  IndInv'
  <1> USE DEF IndInv
  <1>1. /\ pc = "dispatch"
        /\ UNCHANGED <<ready, older, hinted, listener, notified, wake, running, stop, left, own, orphans,
                       locked, calling, waiter>>
    BY DEF Dispatch, queueVars, signalVars, claimVars, idleVars
  <1>2. running /\ ~locked
    BY <1>1 DEF LockIsHeld
  <1>3. InFlight \in Nat /\ InFlight' = InFlight
    BY <1>1 DEF InFlight, TypeInv, TypeOK, Phases
  <1>4. \/ /\ stop \/ InFlight >= MaxConcurrency
           /\ pc' = "select" /\ available' = available
        \/ /\ InFlight < MaxConcurrency
           /\ pc' = "claim" /\ available' = MaxConcurrency - InFlight
    BY <1>3, DispatchAssumption DEF Dispatch
  <1>5. available' \in 0 .. MaxConcurrency
    BY <1>3, <1>4, DispatchAssumption DEF TypeInv, TypeOK
  <1>6. TypeInv'
    BY <1>1, <1>4, <1>5 DEF TypeInv, TypeOK
  <1>7. SlotsAreFree'
    BY <1>3, <1>4, DispatchAssumption DEF SlotsAreFree
  <1>8. QuietMeansDone'
    BY <1>1, <1>3, <1>4, DispatchAssumption DEF QuietMeansDone
  <1>9. LockIsHeld' /\ ConcurrencyIsBounded' /\ IdleMeansIdle'
    BY <1>1, <1>2 DEF LockIsHeld, ConcurrencyIsBounded, IdleMeansIdle, InFlight, ActiveClaims, OwnClaims
  <1> QED
    BY <1>6, <1>7, <1>8, <1>9

\* The other steps of the loop that start no claim.
LEMMA SelectKeepsInv ==
    ASSUME IndInv, Poll \/ Wake \/ BeginDrain \/ EndDrain
    PROVE  IndInv'
  <1> USE DEF IndInv
  <1>1. /\ pc \in {"select", "drain"} /\ pc' \in {"dispatch", "drain", "ended"} /\ wake' \in BOOLEAN
        /\ UNCHANGED <<ready, older, hinted, listener, notified, running, stop, available, left, own, orphans,
                       locked, calling, waiter>>
    BY Zenon DEF Poll, Wake, BeginDrain, EndDrain, queueVars, signalVars, claimVars, idleVars, TypeInv, TypeOK
  <1>2. TypeInv'
    BY <1>1 DEF TypeInv, TypeOK
  <1>3. SlotsAreFree' /\ LockIsHeld' /\ QuietMeansDone'
    BY <1>1 DEF SlotsAreFree, LockIsHeld, QuietMeansDone
  <1>4. ConcurrencyIsBounded' /\ IdleMeansIdle'
    BY <1>1 DEF ConcurrencyIsBounded, IdleMeansIdle, InFlight, ActiveClaims, OwnClaims
  <1> QED
    BY <1>2, <1>3, <1>4

(***************************************************************************)
(* The claim returns.  With fewer rows than slots it took every due run it *)
(* could lock, so what is announced and left was locked; with as many, the *)
(* slots are in use, or one freed meanwhile signals.                       *)
(***************************************************************************)
LEMMA ClaimKeepsInv ==
    ASSUME IndInv, NEW skipped \in SUBSET (ready \cap Supported), Claim(skipped)
    PROVE  IndInv'
  <1> USE DEF IndInv
  <1> DEFINE due == (ready \cap Supported) \ skipped
  <1>1. PICK rows \in Picked(skipped) :
            /\ Take(rows)
            /\ own' = [own EXCEPT !["working"] = @ + Cardinality(rows)]
    BY Zenon DEF Claim
  <1>2. /\ pc = "claim" /\ pc' = "select" /\ available' = 0
        /\ left' = (skipped \cap hinted # {})
        /\ UNCHANGED <<listener, notified, wake, running, stop, orphans, locked, calling, waiter>>
    BY DEF Claim, signalVars, idleVars
  <1>3. running /\ ~locked /\ calling = {}
    BY <1>2 DEF LockIsHeld
  <1>4. available \in Nat /\ IsFiniteSet(due)
    BY FS_Subset, DispatchAssumption DEF TypeInv, TypeOK
  <1>5. /\ Cardinality(rows) \in 0 .. available
        /\ Cardinality(rows) < available => rows = due
    BY <1>1, <1>4, OldestIsLimited DEF Picked
  <1> HIDE DEF due
  <1>6. own["working"] \in Nat /\ own["decremented"] \in Nat /\ own["signalled"] \in Nat
    BY DEF TypeInv, TypeOK, Phases
  <1>7. /\ own' \in [Phases -> Nat]
        /\ own'["working"] = own["working"] + Cardinality(rows)
        /\ own'["decremented"] = own["decremented"]
    BY <1>1, <1>4, <1>5, <1>6 DEF TypeInv, TypeOK, Phases
  <1>8. TypeInv'
    <2>1. /\ ready' \subseteq Runs /\ older' \subseteq ready' \X ready'
          /\ hinted' \subseteq ready' \cap Supported
          /\ IsFiniteSet(ready')
      BY <1>1, TakeKeepsTypes
    <2>2. available' \in 0 .. MaxConcurrency /\ left' \in BOOLEAN
      BY <1>2, DispatchAssumption
    <2> QED
      BY <1>2, <1>7, <2>1, <2>2 DEF TypeInv, TypeOK
  <1>9. ConcurrencyIsBounded'
    BY <1>2, <1>4, <1>5, <1>6, <1>7, DispatchAssumption DEF SlotsAreFree, ConcurrencyIsBounded, InFlight
  <1>10. SlotsAreFree' /\ LockIsHeld' /\ IdleMeansIdle'
    BY <1>2, <1>3 DEF SlotsAreFree, LockIsHeld, IdleMeansIdle
  <1>11. QuietMeansDone'
    <2>1. hinted' = hinted \ rows /\ hinted \subseteq ready \cap Supported
      BY <1>1, TakeKeepsTypes DEF TypeInv, TypeOK
    <2>2. CASE Cardinality(rows) < available
      BY <1>2, <1>5, <2>1, <2>2, Zenon DEF QuietMeansDone, due
    <2>3. CASE Cardinality(rows) = available
      <3>1. \/ own'["working"] = MaxConcurrency
            \/ wake'
            \/ own'["decremented"] > 0
        BY <1>2, <1>4, <1>6, <1>7, <2>3, DispatchAssumption DEF SlotsAreFree, InFlight
      <3> QED
        BY <1>6, <1>7, <3>1, DispatchAssumption DEF QuietMeansDone, InFlight
    <2> QED
      BY <1>4, <1>5, <2>2, <2>3
  <1> QED
    BY <1>8, <1>9, <1>10, <1>11

\* The claim fails: rows may be gone, and the loop knows something is left.
LEMMA ClaimFailsKeepsInv ==
    ASSUME IndInv, NEW effect \in BOOLEAN, ClaimFails(effect)
    PROVE  IndInv'
  <1> USE DEF IndInv
  <1>1. /\ pc = "claim" /\ pc' = "select" /\ available' = 0 /\ left' = TRUE
        /\ UNCHANGED <<listener, notified, wake, running, stop, own, orphans, locked, calling, waiter>>
    BY DEF ClaimFails, signalVars, claimVars, idleVars
  <1>2. /\ ready' \subseteq Runs /\ older' \subseteq ready' \X ready'
        /\ hinted' \subseteq ready' \cap Supported
        /\ IsFiniteSet(ready')
    <2>1. CASE effect
      BY <2>1, TakeKeepsTypes DEF ClaimFails
    <2>2. CASE ~effect
      BY <2>2 DEF ClaimFails, queueVars, TypeInv, TypeOK
    <2> QED
      BY <2>1, <2>2
  <1>3. TypeInv'
    BY <1>1, <1>2, DispatchAssumption DEF TypeInv, TypeOK
  <1>4. SlotsAreFree' /\ LockIsHeld' /\ QuietMeansDone'
    BY <1>1 DEF SlotsAreFree, LockIsHeld, QuietMeansDone
  <1>5. ConcurrencyIsBounded' /\ IdleMeansIdle'
    BY <1>1 DEF ConcurrencyIsBounded, IdleMeansIdle, InFlight, ActiveClaims, OwnClaims
  <1> QED
    BY <1>3, <1>4, <1>5

\* The worker returns; its claims become orphans.
LEMMA EndWorkerKeepsInv ==
    ASSUME IndInv, EndWorker
    PROVE  IndInv'
  <1> USE DEF IndInv
  <1>1. /\ pc = "ended" /\ ~locked
        /\ running' = FALSE /\ stop' = FALSE /\ pc' = "off" /\ available' = 0 /\ left' = FALSE
        /\ listener' = "down" /\ notified' = FALSE /\ wake' = FALSE
        /\ own' = NoClaims /\ orphans' = orphans + OwnClaims
        /\ UNCHANGED <<ready, older, hinted, locked, calling, waiter>>
    BY DEF EndWorker, WorkerIsOff, queueVars, idleVars
  <1>2. OwnClaims \in Nat /\ NoClaims \in [Phases -> Nat] /\ NoClaims["working"] = 0
    BY DEF OwnClaims, NoClaims, TypeInv, TypeOK, Phases
  <1>3. TypeInv'
    <2>1. available' \in 0 .. MaxConcurrency /\ own' \in [Phases -> Nat] /\ orphans' \in Nat
      BY <1>1, <1>2, DispatchAssumption DEF TypeInv, TypeOK
    <2> QED
      BY <1>1, <2>1, Zenon DEF TypeInv, TypeOK
  <1>4. SlotsAreFree' /\ LockIsHeld' /\ QuietMeansDone' /\ IdleMeansIdle'
    BY <1>1 DEF SlotsAreFree, LockIsHeld, QuietMeansDone, IdleMeansIdle
  <1>5. ConcurrencyIsBounded'
    BY <1>1, <1>2, DispatchAssumption DEF ConcurrencyIsBounded, InFlight
  <1> QED
    BY <1>3, <1>4, <1>5

\* The goroutine of a claim frees its slot first and signals afterwards.
LEMMA DecrementKeepsInv ==
    ASSUME IndInv, Decrement \/ Signal
    PROVE  IndInv'
  <1> USE DEF IndInv
  <1>1. UNCHANGED <<ready, older, hinted, listener, notified, running, stop, pc, available, left, orphans,
                    locked, calling, waiter>>
    BY DEF Decrement, Signal, queueVars, signalVars, loopVars, idleVars
  <1>2. own["working"] \in Nat /\ own["decremented"] \in Nat /\ own["signalled"] \in Nat
    BY DEF TypeInv, TypeOK, Phases
  <1>3. /\ own' \in [Phases -> Nat]
        /\ own'["working"] + own'["decremented"] + own'["signalled"]
             = own["working"] + own["decremented"] + own["signalled"]
        /\ own'["working"] <= own["working"]
        /\ running
    <2>1. own["working"] > 0 \/ own["decremented"] > 0
      BY DEF Decrement, Signal, Move
    <2>2. running
      BY <2>1 DEF LockIsHeld, NoClaims, Phases
    <2>3. CASE Decrement
      BY <1>2, <2>2, <2>3 DEF Decrement, Move, TypeInv, TypeOK, Phases
    <2>4. CASE Signal
      BY <1>2, <2>2, <2>4 DEF Signal, Move, TypeInv, TypeOK, Phases
    <2> QED
      BY <2>3, <2>4
  <1>4. \/ wake' = TRUE
        \/ wake' = wake /\ own'["decremented"] > 0
    <2>1. CASE Decrement
      BY <1>2, <2>1 DEF Decrement, Move, signalVars, TypeInv, TypeOK, Phases
    <2>2. CASE Signal
      BY <2>2 DEF Signal
    <2> QED
      BY <2>1, <2>2, Zenon
  <1>5. own'["working"] \in Nat /\ own'["decremented"] \in Nat /\ own'["signalled"] \in Nat
    BY <1>3 DEF Phases
  <1>6. TypeInv'
    BY <1>1, <1>3, <1>4, Zenon DEF TypeInv, TypeOK
  <1>7. ConcurrencyIsBounded'
    BY <1>2, <1>3, <1>5, DispatchAssumption DEF ConcurrencyIsBounded, InFlight
  <1>8. SlotsAreFree'
    <2>1. available \in Nat
      BY DispatchAssumption DEF TypeInv, TypeOK
    <2> QED
      BY <1>1, <1>2, <1>3, <1>4, <1>5, <2>1, DispatchAssumption DEF SlotsAreFree, InFlight
  <1>9. LockIsHeld'
    BY <1>1, <1>3 DEF LockIsHeld
  <1>10. QuietMeansDone'
    BY <1>4, <1>5 DEF QuietMeansDone
  <1>11. IdleMeansIdle'
    BY <1>1, <1>3 DEF LockIsHeld, IdleMeansIdle
  <1> QED
    BY <1>6, <1>7, <1>8, <1>9, <1>10, <1>11

\* A claim is counted down; waiters are released, none is closed.
LEMMA DoneKeepsInv ==
    ASSUME IndInv, Done \/ OrphanDone
    PROVE  IndInv'
  <1> USE DEF IndInv
  <1>1. /\ ReleaseWaiters
        /\ UNCHANGED <<ready, older, hinted, listener, notified, wake, running, stop, pc, available, left,
                       locked, calling>>
    BY DEF Done, OrphanDone, queueVars, signalVars, loopVars
  <1>2. own["working"] \in Nat /\ own["decremented"] \in Nat /\ own["signalled"] \in Nat /\ orphans \in Nat
    BY DEF TypeInv, TypeOK, Phases
  <1>3. /\ own' \in [Phases -> Nat] /\ orphans' \in Nat
        /\ own'["working"] = own["working"] /\ own'["decremented"] = own["decremented"]
        /\ ActiveClaims > 0
        /\ running \/ own' = own
    <2>1. CASE Done
      <3>1. own["signalled"] > 0 /\ own' = [own EXCEPT !["signalled"] = @ - 1] /\ orphans' = orphans
        BY <2>1 DEF Done
      <3>2. running
        BY <3>1 DEF LockIsHeld, NoClaims, Phases
      <3> QED
        BY <1>2, <3>1, <3>2 DEF ActiveClaims, OwnClaims, TypeInv, TypeOK, Phases
    <2>2. CASE OrphanDone
      BY <1>2, <2>2 DEF OrphanDone, ActiveClaims, OwnClaims, TypeInv, TypeOK
    <2> QED
      BY <2>1, <2>2
  <1>4. /\ waiter' \in [Waiters -> {"none", "blocked", "released", "closed"}]
        /\ \A c \in Waiters : waiter'[c] = "closed" => waiter[c] = "closed"
    BY <1>1 DEF ReleaseWaiters, TypeInv, TypeOK
  <1>5. TypeInv'
    BY <1>1, <1>3, <1>4 DEF TypeInv, TypeOK
  <1>6. SlotsAreFree' /\ ConcurrencyIsBounded' /\ QuietMeansDone'
    BY <1>1, <1>3 DEF SlotsAreFree, ConcurrencyIsBounded, QuietMeansDone, InFlight
  <1>7. LockIsHeld'
    BY <1>1, <1>3 DEF LockIsHeld
  <1>8. IdleMeansIdle'
    <2>1. \A c \in calling : waiter[c] # "closed"
      BY <1>2, <1>3 DEF IdleMeansIdle, ActiveClaims, OwnClaims
    <2> QED
      BY <1>1, <1>4, <2>1 DEF IdleMeansIdle, TypeInv, TypeOK
  <1> QED
    BY <1>5, <1>6, <1>7, <1>8

\* A call of WaitForIdle, and its goroutine.
LEMMA WaitKeepsInv ==
    ASSUME IndInv, NEW c \in Waiters,
           WaitForIdle(c) \/ WaiterReturns(c) \/ ReturnIdle(c) \/ ReturnExpired(c) \/ ForgetWaiter(c)
    PROVE  IndInv'
  <1> USE DEF IndInv
  <1>1. UNCHANGED <<ready, older, hinted, listener, notified, wake, running, stop, pc, available, left,
                    own, orphans>>
    BY DEF WaitForIdle, WaiterReturns, ReturnIdle, ReturnExpired, ForgetWaiter,
           queueVars, signalVars, loopVars, claimVars
  <1>2. /\ locked' \in BOOLEAN /\ calling' \subseteq Waiters
        /\ waiter' \in [Waiters -> {"none", "blocked", "released", "closed"}]
    BY Zenon DEF WaitForIdle, WaiterReturns, ReturnIdle, ReturnExpired, ForgetWaiter, TypeInv, TypeOK
  <1>3. TypeInv'
    BY <1>1, <1>2 DEF TypeInv, TypeOK
  <1>4. SlotsAreFree' /\ ConcurrencyIsBounded' /\ QuietMeansDone'
    BY <1>1 DEF SlotsAreFree, ConcurrencyIsBounded, QuietMeansDone, InFlight
  <1>5. LockIsHeld'
    BY <1>1 DEF LockIsHeld, WaitForIdle, WaiterReturns, ReturnIdle, ReturnExpired, ForgetWaiter
  <1>6. ActiveClaims' = ActiveClaims
    BY <1>1 DEF ActiveClaims, OwnClaims
  <1>7. IdleMeansIdle'
    <2> SUFFICES ASSUME NEW d \in calling', waiter'[d] = "closed"
                 PROVE  ActiveClaims = 0
      BY <1>6 DEF IdleMeansIdle
    <2>1. \/ d \in calling /\ waiter[d] = "closed"
          \/ ActiveClaims = 0
      BY DEF WaitForIdle, WaiterReturns, ReturnIdle, ReturnExpired, ForgetWaiter, TypeInv, TypeOK
    <2> QED
      BY <2>1 DEF IdleMeansIdle
  <1> QED
    BY <1>3, <1>4, <1>5, <1>7

\* The process ends in a panic.
LEMMA PanicKeepsInv ==
    ASSUME IndInv, NEW c \in Waiters, WaiterPanics(c)
    PROVE  IndInv'
  <1> USE DEF IndInv
  <1>1. /\ running' = FALSE /\ stop' = FALSE /\ pc' = "off" /\ available' = 0 /\ left' = FALSE
        /\ listener' = "down" /\ notified' = FALSE /\ wake' = FALSE
        /\ own' = NoClaims /\ orphans' = 0 /\ locked' = FALSE /\ calling' = {}
        /\ waiter' = [d \in Waiters |-> "none"]
        /\ UNCHANGED <<ready, older, hinted>>
    BY DEF WaiterPanics, WorkerIsOff, queueVars
  <1>2. NoClaims \in [Phases -> Nat] /\ NoClaims["working"] = 0
    BY DEF NoClaims, Phases
  <1>3. TypeInv'
    <2>1. available' \in 0 .. MaxConcurrency /\ own' \in [Phases -> Nat] /\ orphans' \in Nat
      BY <1>1, <1>2, DispatchAssumption DEF TypeInv, TypeOK
    <2> QED
      BY <1>1, <2>1, Zenon DEF TypeInv, TypeOK
  <1>4. SlotsAreFree' /\ LockIsHeld' /\ QuietMeansDone' /\ IdleMeansIdle'
    BY <1>1 DEF SlotsAreFree, LockIsHeld, QuietMeansDone, IdleMeansIdle
  <1>5. ConcurrencyIsBounded'
    BY <1>1, <1>2, DispatchAssumption DEF ConcurrencyIsBounded, InFlight
  <1> QED
    BY <1>3, <1>4, <1>5

-----------------------------------------------------------------------------

LEMMA NextKeepsInv == IndInv /\ [Next]_vars => IndInv'
  <1> SUFFICES ASSUME IndInv, [Next]_vars PROVE IndInv'
    OBVIOUS
  <1>1. CASE Queue
    BY <1>1, BecomesDueKeepsInv, LeavesQueueKeepsInv DEF Queue
  <1>2. CASE Listen
    BY <1>2, ListenKeepsInv
  <1>3. CASE Loop
    BY <1>3, DispatchKeepsInv, SelectKeepsInv, ClaimKeepsInv, ClaimFailsKeepsInv DEF Loop
  <1>4. CASE Goroutine
    BY <1>4, DecrementKeepsInv, DoneKeepsInv DEF Goroutine
  <1>5. CASE Idle
    BY <1>5, WaitKeepsInv, PanicKeepsInv DEF Idle
  <1>6. CASE StartWorker \/ Stop \/ EndWorker
    BY <1>6, StartKeepsInv, EndWorkerKeepsInv
  <1>7. CASE UNCHANGED vars
    <2>1. UNCHANGED <<ready, older, hinted, listener, notified, wake, running, stop, pc, available, left,
                      own, orphans, locked, calling, waiter>>
      BY <1>7 DEF vars, queueVars, signalVars, loopVars, claimVars, idleVars
    <2>2. TypeInv'
      BY <2>1 DEF IndInv, TypeInv, TypeOK
    <2>3. SlotsAreFree' /\ LockIsHeld' /\ ConcurrencyIsBounded' /\ QuietMeansDone' /\ IdleMeansIdle'
      BY <2>1 DEF IndInv, SlotsAreFree, LockIsHeld, ConcurrencyIsBounded, QuietMeansDone, IdleMeansIdle,
                  InFlight, ActiveClaims, OwnClaims
    <2> QED
      BY <2>2, <2>3 DEF IndInv
  <1> QED
    BY <1>1, <1>2, <1>3, <1>4, <1>5, <1>6, <1>7 DEF Next

LEMMA Invariance == Spec => []IndInv
  BY InitInv, NextKeepsInv, PTL DEF Spec

\* Every variable keeps its type; what is announced is in the queue.
THEOREM TypeTheorem == Spec => []TypeOK
  <1>1. IndInv => TypeOK
    BY DEF IndInv, TypeInv
  <1> QED
    BY <1>1, Invariance, PTL

(***************************************************************************)
(* A worker never runs more claims than MaxConcurrency, whatever claims    *)
(* end while a claim statement is under way (dispatch).                    *)
(***************************************************************************)
THEOREM ConcurrencyTheorem == Spec => []ConcurrencyIsBounded
  <1>1. IndInv => ConcurrencyIsBounded
    BY DEF IndInv
  <1> QED
    BY <1>1, Invariance, PTL

(***************************************************************************)
(* A dispatcher that waits with a free slot, no signal pending and its     *)
(* listener connected has left no announced run it supports, unless its    *)
(* last claim failed or met a locked row (dispatchLoop, listen).           *)
(***************************************************************************)
THEOREM QuietTheorem == Spec => []QuietMeansDone
  <1>1. IndInv => QuietMeansDone
    BY DEF IndInv
  <1> QED
    BY <1>1, Invariance, PTL

(***************************************************************************)
(* WaitForIdle returns nil only when no claim is running, although claims  *)
(* and other callers go on while it waits (Engine.WaitForIdle).            *)
(***************************************************************************)
THEOREM IdleTheorem == Spec => []IdleMeansIdle
  <1>1. IndInv => IdleMeansIdle
    BY DEF IndInv
  <1> QED
    BY <1>1, Invariance, PTL
=============================================================================
