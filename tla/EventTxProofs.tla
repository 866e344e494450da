--------------------------- MODULE EventTxProofs ---------------------------
(***************************************************************************)
(* Proofs about the transactions of EmitEvent and waitForEvent, for any    *)
(* number of emissions and waits and any retention and timeout.  The       *)
(* advisory lock makes the invariant inductive: what a lookup or an        *)
(* emission has read of the other side stays true until it commits.        *)
(***************************************************************************)
EXTENDS EventTx, TLAPS

EmitStates == {"idle", "begun", "locked", "written", "logged", "pruned", "failed"}

WaitStates ==
    {"idle", "begun", "locked", "deliver", "park", "parked", "received", "timed_out"}

Types ==
    /\ now \in Nat /\ last_id \in Nat
    /\ begun \in [Emitters \cup Waiters -> Nat]
    /\ emit \in [Emitters -> EmitStates] /\ wait \in [Waiters -> WaitStates]
    /\ found \in [Waiters -> Emitters \cup {Nobody}]
    /\ id \in [Emitters -> Nat]
    /\ woken \in [Emitters -> SUBSET Waiters]
    /\ before \in [Emitters -> SUBSET Emitters]

\* Who is past the lock statement holds the lock.
Locking ==
    /\ \A e \in Emitters : emit[e] \in {"locked", "written"} => holder = e
    /\ \A w \in Waiters : wait[w] \in {"locked", "deliver", "park"} => holder = w

\* A run about to park has seen that the log holds no event for it.
Parking ==
    \A w \in Waiters, e \in Logged : wait[w] = "park" => expires_at(e) <= begun[w]

\* An emission about to commit has the rows of all parked runs it may wake.
Waking ==
    /\ \A e \in Emitters : \A w \in woken[e] : emit[e] = "written" /\ wait[w] = "parked"
    /\ \A e \in Emitters, w \in Waiters :
          emit[e] = "written" /\ wait[w] = "parked" =>
              w \in woken[e] \/ waiting_deadline(w) <= begun[e]

\* Emissions that returned before another began precede it in the log's order.
Ordering ==
    /\ \A e \in Emitters : begun[e] <= now /\ id[e] <= last_id
    /\ \A e \in Emitters : emit[e] \in {"idle", "begun", "locked"} => id[e] = 0
    /\ \A f \in Emitters : \A e \in before[f] :
          /\ emit[f] # "idle" /\ emit[e] \in {"logged", "pruned"}
          /\ begun[e] <= begun[f]
          /\ emit[f] \in {"written", "logged", "pruned"} => id[e] < id[f]

\* A lookup has found the last retained event in the log's order.
Latest ==
    \A w \in Waiters : wait[w] = "deliver" =>
        found[w] \in Emitters /\ \A f \in Retained(w) : NotOlder(found[w], f)

IndInv ==
    Types /\ Locking /\ Parking /\ Waking /\ NoEventMissed /\ Ordering /\ Latest

USE EventTxAssumption

\* What a step that leaves the log alone must show of the lookups.
LEMMA LatestFrame ==
    ASSUME UNCHANGED <<begun, id, emit>>,
           \A w \in Waiters : wait'[w] = "deliver" =>
               found'[w] \in Emitters /\ \A f \in Retained(w) : NotOlder(found'[w], f)
    PROVE  Latest'
<1>1. \A w \in Waiters : Retained(w)' = Retained(w)
  BY DEF Retained, Logged, expires_at
<1> QED
  BY <1>1 DEF Latest, NotOlder, created_at

\* The invariant holds before the first transaction.
LEMMA InitInv == Init => IndInv
  BY DEF Init, IndInv, Types, EmitStates, WaitStates, Locking, Parking, Waking, NoEventMissed, Ordering, Latest, Logged

\* Every step keeps the types.
LEMMA NextKeepsTypes == Types /\ [Next]_vars => Types'
<1> SUFFICES ASSUME Types, [Next]_vars PROVE Types'
  OBVIOUS
<1>1. ASSUME NEW e \in Emitters,
             BeginEmit(e) \/ LockForEmit(e) \/ RollBackEmit(e) \/ PruneEvents(e)
      PROVE  Types'
  BY <1>1 DEF Types, EmitStates, WaitStates, BeginEmit, LockForEmit, RollBackEmit, PruneEvents
<1>2. ASSUME NEW e \in Emitters, EmitEvent(e) PROVE Types'
  BY <1>2 DEF Types, EmitStates, WaitStates, EmitEvent
<1>3. ASSUME NEW e \in Emitters, CommitEmit(e) PROVE Types'
  BY <1>3 DEF Types, EmitStates, WaitStates, CommitEmit
<1>4. ASSUME NEW w \in Waiters,
             BeginWait(w) \/ LockForWait(w) \/ CommitWait(w) \/ RollBackWait(w) \/ PromoteTimedOut(w)
      PROVE  Types'
  BY <1>4 DEF Types, EmitStates, WaitStates, BeginWait, LockForWait, CommitWait, RollBackWait, PromoteTimedOut
<1>5. ASSUME NEW w \in Waiters, LookupEvent(w) PROVE Types'
  BY <1>5 DEF Types, EmitStates, WaitStates, LookupEvent, Retained, Logged
<1>6. CASE Tick
  BY <1>6 DEF Types, EmitStates, WaitStates, Tick
<1>7. CASE UNCHANGED vars
  BY <1>7 DEF Types, EmitStates, WaitStates, vars
<1> QED
  BY <1>1, <1>2, <1>3, <1>4, <1>5, <1>6, <1>7 DEF Next, Emission, Waiting

\* Steps of an emission before its commit.
LEMMA EmitStepsKeepInv ==
    ASSUME NEW e \in Emitters, IndInv, Types',
           BeginEmit(e) \/ LockForEmit(e) \/ EmitEvent(e)
    PROVE  IndInv'
<1> USE DEF IndInv
<1>1. CASE BeginEmit(e)
  <2> USE <1>1 DEF BeginEmit
  <2>1. Logged' = Logged /\ e \notin Logged
    BY DEF Types, Logged
  <2>2. \A x \in Emitters \cup Waiters : x # e => begun'[x] = begun[x]
    BY DEF Types
  <2>3. \A w \in Waiters : begun'[w] = begun[w]
    BY <2>2
  <2>4. \A f \in Emitters : f # e => emit'[f] = emit[f] /\ begun'[f] = begun[f]
                                    /\ before'[f] = before[f]
    BY DEF Types
  <2>5. emit'[e] = "begun" /\ begun'[e] = now
    BY DEF Types
  <2>6. Locking'
    BY <2>4, <2>5 DEF Locking
  <2>7. Parking'
    BY <2>1, <2>3, <2>4 DEF Parking, expires_at, Logged
  <2>8. Waking'
    BY <2>3, <2>4, <2>5 DEF Waking, waiting_deadline, Types
  <2>9. NoEventMissed'
    BY <2>1, <2>3, <2>4 DEF NoEventMissed, expires_at, waiting_deadline
  <2>10. Ordering'
    BY <2>4, <2>5 DEF Ordering, Types
  <2>11. \A w \in Waiters : Retained(w)' = Retained(w) /\ e \notin Retained(w)
    BY <2>1, <2>3, <2>4 DEF Retained, Logged, expires_at
  <2>12. Latest'
    <3> SUFFICES ASSUME NEW w \in Waiters, wait[w] = "deliver", NEW f \in Retained(w)
                 PROVE  NotOlder(found[w], f)'
      BY <2>11 DEF Latest
    <3>1. found[w] \in Emitters /\ NotOlder(found[w], f)
      BY DEF Latest
    <3>2. f \in Emitters /\ f # e
      BY <2>11 DEF Retained, Logged
    <3> QED
      BY <3>1, <3>2, <2>4, <2>5 DEF NotOlder, created_at, Ordering, Types
  <2> QED
    BY <2>6, <2>7, <2>8, <2>9, <2>10, <2>12
<1>2. CASE LockForEmit(e)
  <2> USE <1>2 DEF LockForEmit
  <2>1. Logged' = Logged
    BY DEF Types, Logged
  <2>2. \A f \in Emitters : f # e => emit'[f] = emit[f]
    BY DEF Types
  <2>3. emit[e] = "begun" /\ emit'[e] = "locked"
    BY DEF Types
  <2>4. Locking'
    BY <2>2, <2>3 DEF Locking
  <2>5. Parking' /\ NoEventMissed'
    BY <2>1 DEF Parking, NoEventMissed, expires_at, waiting_deadline
  <2>6. Waking' /\ Ordering'
    BY <2>2, <2>3 DEF Waking, waiting_deadline, Ordering
  <2>7. Latest'
    BY <2>1 DEF Latest, Retained, expires_at, NotOlder, created_at
  <2> QED
    BY <2>4, <2>5, <2>6, <2>7
<1>3. CASE EmitEvent(e)
  <2> USE <1>3 DEF EmitEvent
  <2>1. Logged' = Logged /\ e \notin Logged
    BY DEF Types, Logged
  <2>2. \A f \in Emitters : f # e => emit'[f] = emit[f] /\ id'[f] = id[f] /\ woken'[f] = woken[f]
    BY DEF Types
  <2>3. /\ emit[e] = "locked" /\ emit'[e] = "written" /\ id'[e] = last_id + 1
        /\ woken'[e] = {w \in Waiters : wait[w] = "parked" /\ waiting_deadline(w) > begun[e]}
    BY DEF Types
  <2>4. Locking'
    BY <2>2, <2>3 DEF Locking
  <2>5. Parking' /\ NoEventMissed'
    BY <2>1 DEF Parking, NoEventMissed, expires_at, waiting_deadline
  <2>6. \A w \in Waiters : waiting_deadline(w) \in Nat /\ begun[e] \in Nat
    BY DEF Types, waiting_deadline
  <2>7. Waking'
    BY <2>2, <2>3, <2>6 DEF Waking, waiting_deadline
  <2>8. Ordering'
    BY <2>2, <2>3 DEF Ordering, Types
  <2>9. \A w \in Waiters : wait[w] # "deliver"
    BY <2>3 DEF Locking
  <2>10. Latest'
    BY <2>9 DEF Latest
  <2> QED
    BY <2>4, <2>5, <2>7, <2>8, <2>10
<1> QED
  BY <1>1, <1>2, <1>3

\* The end of an emission: its runs are woken, or nothing has happened.
LEMMA EmitEndsKeepInv ==
    ASSUME NEW e \in Emitters, IndInv, Types', CommitEmit(e) \/ RollBackEmit(e)
    PROVE  IndInv'
<1> USE DEF IndInv
<1>1. CASE CommitEmit(e)
  <2> USE <1>1 DEF CommitEmit
  <2>1. holder = e /\ holder' = Nobody
    BY DEF Locking, Release
  <2>2. \A f \in Emitters : f # e => emit'[f] = emit[f] /\ woken'[f] = woken[f]
                                    /\ emit[f] \notin {"locked", "written"}
    BY <2>1 DEF Types, Locking
  <2>3. emit[e] = "written" /\ emit'[e] = "logged" /\ woken'[e] = {}
    BY DEF Types
  <2>4. \A w \in Waiters : wait[w] \notin {"locked", "deliver", "park"}
    BY <2>1 DEF Locking
  <2>5. \A w \in Waiters : /\ wait'[w] \notin {"locked", "deliver", "park"}
                           /\ wait'[w] = "parked" => wait[w] = "parked" /\ w \notin woken[e]
    BY <2>4
  <2>6. Locking'
    BY <2>2, <2>3, <2>5 DEF Locking
  <2>7. Parking' /\ Latest'
    BY <2>5 DEF Parking, Latest
  <2>8. Waking'
    BY <2>2, <2>3 DEF Waking
  <2>9. NoEventMissed'
    <3> SUFFICES ASSUME NEW w \in Waiters, NEW f \in Emitters,
                        wait'[w] = "parked", emit'[f] = "logged"
                 PROVE  expires_at(f) <= begun[w] \/ waiting_deadline(w) <= begun[f]
      BY DEF NoEventMissed, Logged, expires_at, waiting_deadline
    <3>1. CASE f = e
      BY <3>1, <2>3, <2>5 DEF Waking
    <3>2. CASE f # e
      BY <3>2, <2>2, <2>5 DEF NoEventMissed, Logged
    <3> QED
      BY <3>1, <3>2
  <2>10. Ordering'
    BY <2>2, <2>3 DEF Ordering
  <2> QED
    BY <2>6, <2>7, <2>8, <2>9, <2>10
<1>2. CASE RollBackEmit(e)
  <2> USE <1>2 DEF RollBackEmit
  <2>1. Logged' = Logged
    BY DEF Types, Logged
  <2>2. \A f \in Emitters : f # e => emit'[f] = emit[f] /\ woken'[f] = woken[f]
    BY DEF Types
  <2>3. emit[e] \in {"begun", "locked", "written"} /\ emit'[e] = "failed" /\ woken'[e] = {}
    BY DEF Types
  <2>4. \A x \in Emitters \cup Waiters : x # e /\ holder = x => holder' = x
    BY DEF Release
  <2>5. Locking'
    BY <2>2, <2>3, <2>4 DEF Locking
  <2>6. Parking' /\ NoEventMissed'
    BY <2>1 DEF Parking, NoEventMissed, expires_at, waiting_deadline
  <2>7. Waking' /\ Ordering'
    BY <2>2, <2>3 DEF Waking, waiting_deadline, Ordering
  <2>8. Latest'
    BY <2>1 DEF Latest, Retained, expires_at, NotOlder, created_at
  <2> QED
    BY <2>5, <2>6, <2>7, <2>8
<1> QED
  BY <1>1, <1>2

\* Steps of a waiting run.
LEMMA WaitStepsKeepInv ==
    ASSUME NEW w \in Waiters, IndInv, Types',
           \/ BeginWait(w) \/ LockForWait(w) \/ LookupEvent(w)
           \/ CommitWait(w) \/ RollBackWait(w) \/ PromoteTimedOut(w)
    PROVE  IndInv'
<1> USE DEF IndInv
<1>1. CASE BeginWait(w)
  <2> USE <1>1 DEF BeginWait
  <2>1. \A x \in Emitters \cup Waiters : x # w => begun'[x] = begun[x]
    BY DEF Types
  <2>2. \A e \in Emitters : begun'[e] = begun[e]
    BY <2>1
  <2>3. \A v \in Waiters : v # w => wait'[v] = wait[v] /\ begun'[v] = begun[v]
    BY <2>1 DEF Types
  <2>4. wait[w] = "idle" /\ wait'[w] = "begun"
    BY DEF Types
  <2>5. Logged' = Logged
    BY DEF Logged
  <2>a. UNCHANGED <<now, holder, emit, found, id, last_id, woken, before>>
    OBVIOUS
  <2> HIDE <1>1
  <2> USE <2>a
  <2>6. Locking'
    BY <2>3, <2>4 DEF Locking
  <2>7. Parking'
    BY <2>2, <2>3, <2>4, <2>5 DEF Parking, expires_at, Logged
  <2>8. Waking'
    BY <2>2, <2>3, <2>4 DEF Waking, waiting_deadline, Types
  <2>9. NoEventMissed'
    BY <2>2, <2>3, <2>4, <2>5 DEF NoEventMissed, expires_at, waiting_deadline
  <2>10. Ordering'
    BY <2>2 DEF Ordering, Types
  <2>11. \A v \in Waiters : v # w => Retained(v)' = Retained(v)
    BY <2>2, <2>3, <2>5 DEF Retained, expires_at, Logged
  <2>12. Latest'
    BY <2>2, <2>3, <2>4, <2>11 DEF Latest, NotOlder, created_at, Retained, Logged
  <2> QED
    BY <2>6, <2>7, <2>8, <2>9, <2>10, <2>12
<1>2. CASE LockForWait(w)
  <2> USE <1>2 DEF LockForWait
  <2>1. \A v \in Waiters : v # w => wait'[v] = wait[v]
    BY DEF Types
  <2>2. wait[w] = "begun" /\ wait'[w] = "locked"
    BY DEF Types
  <2>3. Locking'
    BY <2>1, <2>2 DEF Locking
  <2>4. Parking' /\ NoEventMissed'
    BY <2>1, <2>2 DEF Parking, NoEventMissed, Logged, expires_at, waiting_deadline
  <2>5. Waking' /\ Ordering'
    <3>1. Waking'
      BY <2>1, <2>2 DEF Waking, waiting_deadline, Types
    <3>2. Ordering'
      BY DEF Ordering
    <3> QED
      BY <3>1, <3>2
  <2>6. Latest'
    BY <2>1, <2>2, LatestFrame DEF Latest
  <2> QED
    BY <2>3, <2>4, <2>5, <2>6
<1>3. CASE LookupEvent(w)
  <2> USE <1>3 DEF LookupEvent
  <2>1. \A v \in Waiters : v # w => wait'[v] = wait[v] /\ found'[v] = found[v]
    BY DEF Types
  <2>2. wait[w] = "locked" /\ wait'[w] \in {"deliver", "park"}
    BY DEF Types
  <2>3. Locking'
    BY <2>1, <2>2 DEF Locking
  <2>4. wait'[w] = "park" => Retained(w) = {}
    BY DEF Types
  <2>5. \A e \in Logged : wait'[w] = "park" => expires_at(e) <= begun[w]
    <3> SUFFICES ASSUME NEW e \in Logged, wait'[w] = "park" PROVE expires_at(e) <= begun[w]
      OBVIOUS
    <3>1. e \notin Retained(w)
      BY <2>4
    <3>a. begun[e] \in Nat /\ begun[w] \in Nat
      BY DEF Types, Logged
    <3>2. expires_at(e) \in Nat /\ begun[w] \in Nat
      BY <3>a DEF expires_at
    <3> QED
      BY <3>1, <3>2 DEF Retained
  <2>6. Parking'
    BY <2>1, <2>5, Zenon DEF Parking, Logged, expires_at
  <2>7. Waking' /\ NoEventMissed' /\ Ordering'
    <3>1. Waking'
      BY <2>1, <2>2 DEF Waking, waiting_deadline, Types
    <3>2. NoEventMissed'
      BY <2>1, <2>2, Zenon DEF NoEventMissed, Logged, expires_at, waiting_deadline
    <3>3. Ordering'
      BY DEF Ordering
    <3> QED
      BY <3>1, <3>2, <3>3
  <2>8. wait'[w] = "deliver" => /\ found'[w] \in Retained(w)
                                /\ \A f \in Retained(w) : NotOlder(found'[w], f)
    BY DEF Types
  <2>9. Latest'
    <3>1. UNCHANGED <<begun, id, emit>>
      OBVIOUS
    <3>2. ASSUME NEW v \in Waiters, wait'[v] = "deliver"
          PROVE  found'[v] \in Emitters /\ \A f \in Retained(v) : NotOlder(found'[v], f)
      <4>1. CASE v = w
        BY <2>8, <3>2, <4>1, Zenon DEF Retained, Logged
      <4>2. CASE v # w
        BY <2>1, <3>2, <4>2, Zenon DEF Latest
      <4> QED
        BY <4>1, <4>2
    <3> QED
      BY <3>1, <3>2, LatestFrame
  <2> QED
    BY <2>3, <2>6, <2>7, <2>9
<1>4. CASE CommitWait(w)
  <2> USE <1>4 DEF CommitWait
  <2>1. \A v \in Waiters : v # w => wait'[v] = wait[v]
    BY Zenon DEF Types
  <2>2. /\ wait[w] \in {"deliver", "park"} /\ wait'[w] \in {"received", "parked"}
        /\ wait'[w] = "parked" => wait[w] = "park"
    BY Zenon DEF Types
  <2>3. holder = w
    BY <2>2 DEF Locking
  <2>4. Locking'
    BY <2>1, <2>2, <2>3 DEF Locking
  <2>5. Parking' /\ NoEventMissed'
    BY <2>1, <2>2, Zenon DEF Parking, NoEventMissed, Logged, expires_at, waiting_deadline
  <2>6. \A e \in Emitters : emit[e] # "written"
    BY <2>3 DEF Locking
  <2>7. Waking' /\ Ordering'
    BY <2>6, Zenon DEF Waking, Ordering, Types
  <2>8. Latest'
    BY <2>1, <2>2, LatestFrame, Zenon DEF Latest
  <2> QED
    BY <2>4, <2>5, <2>7, <2>8
<1>5. CASE RollBackWait(w) \/ PromoteTimedOut(w)
  <2> USE <1>5 DEF RollBackWait, PromoteTimedOut
  <2>1. \A v \in Waiters : v # w => wait'[v] = wait[v] /\ found'[v] = found[v]
    BY DEF Types
  <2>2. wait'[w] \in {"idle", "timed_out"}
    BY DEF Types
  <2>3. \A x \in Emitters \cup Waiters : x # w /\ holder = x => holder' = x
    BY DEF Release
  <2>4. Locking'
    BY <2>1, <2>2, <2>3 DEF Locking
  <2>5. Parking' /\ NoEventMissed'
    BY <2>1, <2>2 DEF Parking, NoEventMissed, Logged, expires_at, waiting_deadline
  <2>6. \A e \in Emitters : w \notin woken[e]
    BY Zenon DEF Waking
  <2>7. Waking' /\ Ordering'
    <3>1. Waking'
      BY <2>1, <2>2, <2>6 DEF Waking, waiting_deadline, Types
    <3>2. Ordering'
      BY DEF Ordering
    <3> QED
      BY <3>1, <3>2
  <2>8. Latest'
    <3>1. UNCHANGED <<begun, id, emit>>
      OBVIOUS
    <3>2. \A v \in Waiters : wait'[v] = "deliver" =>
              found'[v] \in Emitters /\ \A f \in Retained(v) : NotOlder(found'[v], f)
      BY <2>1, <2>2 DEF Latest
    <3> QED
      BY <3>1, <3>2, LatestFrame, Zenon
  <2> QED
    BY <2>4, <2>5, <2>7, <2>8
<1> QED
  BY <1>1, <1>2, <1>3, <1>4, <1>5

\* Pruning and the passing of time.
LEMMA OtherStepsKeepInv ==
    ASSUME IndInv, Types', Tick \/ \E e \in Emitters : PruneEvents(e)
    PROVE  IndInv'
<1> USE DEF IndInv
<1>1. CASE Tick
  <2>1. UNCHANGED <<holder, begun, emit, wait, found, id, last_id, woken, before>>
    BY <1>1 DEF Tick
  <2>2. Locking' /\ Waking'
    BY <2>1, Zenon DEF Locking, Waking, waiting_deadline
  <2>3. Parking' /\ NoEventMissed'
    BY <2>1 DEF Parking, NoEventMissed, Logged, expires_at, waiting_deadline
  <2>4. Ordering'
    <3>1. now' = now + 1
      BY <1>1 DEF Tick
    <3>2. \A e \in Emitters : begun'[e] <= now' /\ id'[e] <= last_id'
      BY <2>1, <3>1 DEF Ordering, Types
    <3> QED
      BY <2>1, <3>2 DEF Ordering
  <2>5. Latest'
    BY <2>1, LatestFrame DEF Latest
  <2> QED
    BY <2>2, <2>3, <2>4, <2>5
<1>2. ASSUME NEW e \in Emitters, PruneEvents(e) PROVE IndInv'
  <2> USE <1>2 DEF PruneEvents
  <2>1. \A f \in Emitters : f # e => emit'[f] = emit[f]
    BY DEF Types
  <2>2. emit[e] = "logged" /\ emit'[e] = "pruned"
    BY DEF Types, Logged
  <2>3. Logged' \subseteq Logged
    BY <2>1, <2>2 DEF Logged
  <2>4. Locking' /\ Waking' /\ Ordering'
    <3>1. Locking'
      BY <2>1, <2>2 DEF Locking
    <3>2. Waking'
      BY <2>1, <2>2 DEF Waking, waiting_deadline
    <3>3. Ordering'
      BY <2>1, <2>2 DEF Ordering
    <3> QED
      BY <3>1, <3>2, <3>3
  <2>5. Parking' /\ NoEventMissed'
    BY <2>3 DEF Parking, NoEventMissed, expires_at, waiting_deadline
  <2>6. Latest'
    BY <2>3 DEF Latest, Retained, expires_at, NotOlder, created_at
  <2> QED
    BY <2>4, <2>5, <2>6
<1> QED
  BY <1>1, <1>2

\* Every step keeps the invariant.
LEMMA NextKeepsInv == IndInv /\ [Next]_vars => IndInv'
<1> SUFFICES ASSUME IndInv, [Next]_vars PROVE IndInv'
  OBVIOUS
<1>1. Types'
  BY NextKeepsTypes DEF IndInv
<1>2. CASE UNCHANGED vars
  <2> USE <1>2 DEF vars, IndInv
  <2>1. Locking' /\ Waking'
    BY DEF Locking, Waking, waiting_deadline
  <2>2. Parking' /\ NoEventMissed'
    BY DEF Parking, NoEventMissed, Logged, expires_at, waiting_deadline
  <2>3. Ordering'
    BY DEF Ordering
  <2>4. Latest'
    BY LatestFrame DEF Latest
  <2> QED
    BY <1>1, <2>1, <2>2, <2>3, <2>4
<1>3. CASE Next
  BY <1>1, <1>3, EmitStepsKeepInv, EmitEndsKeepInv, WaitStepsKeepInv, OtherStepsKeepInv
     DEF Next, Emission, Waiting
<1> QED
  BY <1>2, <1>3

\* The invariant always holds.
LEMMA InvHolds == Spec => []IndInv
  BY InitInv, NextKeepsInv, PTL DEF Spec

(***************************************************************************)
(* No event published while a run registers its wait is missed, however    *)
(* many emissions and waits compete for the key: no parked run stands      *)
(* beside a logged event that it should have been given (EmitEvent,        *)
(* waitForEvent).                                                          *)
(***************************************************************************)
THEOREM RegistrationTheorem == Spec => []NoEventMissed
<1>1. IndInv => NoEventMissed
  BY DEF IndInv
<1> QED
  BY <1>1, InvHolds, PTL

(***************************************************************************)
(* The event that a wait finds in the log is not older, in the order of    *)
(* the calls of EmitEvent, than another one it could have been given       *)
(* (latestEvent).                                                          *)
(***************************************************************************)
THEOREM RecencyTheorem == Spec => []MostRecentEvent
<1>1. IndInv => MostRecentEvent
  <2> SUFFICES ASSUME IndInv, NEW w \in Waiters, wait[w] = "deliver",
                      NEW f \in Retained(w), found[w] \in before[f]
               PROVE  FALSE
    BY DEF MostRecentEvent
  <2>1. f \in Emitters /\ emit[f] = "logged"
    BY DEF Retained, Logged
  <2>2. found[w] \in Emitters /\ NotOlder(found[w], f)
    BY DEF IndInv, Latest
  <2>3. begun[found[w]] <= begun[f] /\ id[found[w]] < id[f]
    BY <2>1 DEF IndInv, Ordering
  <2>4. /\ begun[found[w]] \in Nat /\ begun[f] \in Nat
        /\ id[found[w]] \in Nat /\ id[f] \in Nat
    BY <2>1, <2>2 DEF IndInv, Types
  <2>5. ~(begun[found[w]] > begun[f]) /\ ~(id[found[w]] >= id[f])
    BY <2>3, <2>4
  <2> QED
    BY <2>2, <2>5 DEF NotOlder, created_at
<1> QED
  BY <1>1, InvHolds, PTL

(***************************************************************************)
(* The outcome of a wait is decided once, although emissions and timeouts  *)
(* update the same rows (emitEvent, promoteTimedOut).                      *)
(***************************************************************************)
THEOREM OutcomeTheorem == Spec => OutcomeIsFinal
<1> DEFINE Final == \A w \in Waiters : wait[w] \in {"received", "timed_out"} =>
                        wait'[w] = wait[w] /\ found'[w] = found[w]
<1>1. IndInv /\ [Next]_vars => [Final]_vars
  <2> SUFFICES ASSUME IndInv, Next, NEW w \in Waiters,
                      wait[w] \in {"received", "timed_out"}
               PROVE  wait'[w] = wait[w] /\ found'[w] = found[w]
    OBVIOUS
  <2>1. ASSUME NEW e \in Emitters,
               \/ BeginEmit(e) \/ LockForEmit(e) \/ EmitEvent(e)
               \/ RollBackEmit(e) \/ PruneEvents(e)
        PROVE  wait' = wait /\ found' = found
    BY <2>1 DEF BeginEmit, LockForEmit, EmitEvent, RollBackEmit, PruneEvents
  <2>2. ASSUME NEW e \in Emitters, CommitEmit(e)
        PROVE  wait'[w] = wait[w] /\ found'[w] = found[w]
    <3>1. w \notin woken[e]
      BY DEF IndInv, Waking
    <3> QED
      BY <2>2, <3>1, Zenon DEF CommitEmit
  <2>3. ASSUME NEW v \in Waiters,
               \/ BeginWait(v) \/ LockForWait(v) \/ LookupEvent(v)
               \/ CommitWait(v) \/ RollBackWait(v) \/ PromoteTimedOut(v)
        PROVE  wait'[w] = wait[w] /\ found'[w] = found[w]
    <3>1. v # w
      BY <2>3 DEF BeginWait, LockForWait, LookupEvent, CommitWait, RollBackWait, PromoteTimedOut
    <3> QED
      BY <2>3, <3>1 DEF IndInv, Types, BeginWait, LockForWait, LookupEvent, CommitWait,
                        RollBackWait, PromoteTimedOut
  <2>4. CASE Tick
    BY <2>4 DEF Tick
  <2> QED
    BY <2>1, <2>2, <2>3, <2>4, Zenon DEF Next, Emission, Waiting
<1>2. Spec => [][Final]_vars
  BY <1>1, InvHolds, PTL DEF Spec
<1> QED
  BY <1>2 DEF OutcomeIsFinal
=============================================================================
