------------------------------ MODULE EventTx -------------------------------
(***************************************************************************)
(* The transactions of EmitEvent (engine.go) and waitForEvent (worker.go)  *)
(* on one event key, with the times at which they begin: created_at,       *)
(* expires_at and waiting_deadline are taken from now(), which is the      *)
(* start of the transaction, before the wait for the key's advisory lock.  *)
(* What a statement writes is seen by others when its transaction commits. *)
(*                                                                         *)
(* Worker has the same transactions with fences, lost replies and claims;  *)
(* it leaves times, and with them the order of events, open.               *)
(***************************************************************************)
EXTENDS Integers

CONSTANTS
    Emitters,   \* calls of EmitEvent
    Waiters,    \* runs that reach a wait on the key
    Nobody,
    EventTTL,   \* how long an event is retained
    Timeout,    \* how long a run waits
    LastBegin   \* bound: transactions begin until then

ASSUME EventTxAssumption ==
    /\ EventTTL \in Nat \ {0} /\ Timeout \in Nat \ {0} /\ LastBegin \in Nat
    /\ Nobody \notin Emitters \cup Waiters
    /\ Emitters \cap Waiters = {}

VARIABLES
    now,
    holder,  \* who holds the advisory lock of the key
    begun,   \* begun[x]: when the transaction of x began
    emit,    \* emit[e]: how far the emission is
    wait,    \* wait[w]: how far the run's wait is
    found,   \* found[w]: the event that latestEvent returned, or the run was woken with
    id,      \* id[e]: the event's number in the log
    last_id, \* the identity sequence of the log; a rollback does not reset it
    woken,   \* woken[e]: the runs that emission e has updated
    before   \* before[e]: the emissions that had returned when e began

vars == <<now, holder, begun, emit, wait, found, id, last_id, woken, before>>

Init ==
    /\ now = 0
    /\ holder = Nobody
    /\ begun = [x \in Emitters \cup Waiters |-> 0]
    /\ emit = [e \in Emitters |-> "idle"]
    /\ wait = [w \in Waiters |-> "idle"]
    /\ found = [w \in Waiters |-> Nobody]
    /\ id = [e \in Emitters |-> 0]
    /\ last_id = 0
    /\ woken = [e \in Emitters |-> {}]
    /\ before = [e \in Emitters |-> {}]

Logged == {e \in Emitters : emit[e] = "logged"}

created_at(e) == begun[e]

expires_at(e) == begun[e] + EventTTL

waiting_deadline(w) == begun[w] + Timeout

-----------------------------------------------------------------------------
(* EmitEvent: lockEventKey, emitEvent, Commit.                             *)

BeginEmit(e) ==
    /\ emit[e] = "idle" /\ now <= LastBegin
    /\ emit' = [emit EXCEPT ![e] = "begun"]
    /\ begun' = [begun EXCEPT ![e] = now]
    /\ before' = [before EXCEPT ![e] = {f \in Emitters : emit[f] \in {"logged", "pruned"}}]
    /\ UNCHANGED <<now, holder, wait, found, id, last_id, woken>>

\* The emission does not wait for the lock.
MutantEmitUnlocked(e) ==
    /\ emit[e] = "begun"
    /\ emit' = [emit EXCEPT ![e] = "locked"]
    /\ UNCHANGED <<now, holder, begun, wait, found, id, last_id, woken, before>>

LockForEmit(e) ==
    /\ emit[e] = "begun" /\ holder = Nobody
    /\ emit' = [emit EXCEPT ![e] = "locked"]
    /\ holder' = e
    /\ UNCHANGED <<now, begun, wait, found, id, last_id, woken, before>>

\* emitEvent: the event is inserted, and the parked runs that are not overdue
\* are updated, as far as they are committed.
EmitEvent(e) ==
    /\ emit[e] = "locked"
    /\ emit' = [emit EXCEPT ![e] = "written"]
    /\ last_id' = last_id + 1
    /\ id' = [id EXCEPT ![e] = last_id']
    /\ woken' = [woken EXCEPT ![e] =
          {w \in Waiters : wait[w] = "parked" /\ waiting_deadline(w) > begun[e]}]
    /\ UNCHANGED <<now, holder, begun, wait, found, before>>

\* The lock belongs to the session and survives the commit.
MutantSessionLock(x) == UNCHANGED holder

Release(x) == holder' = IF holder = x THEN Nobody ELSE holder

CommitEmit(e) ==
    /\ emit[e] = "written"
    /\ emit' = [emit EXCEPT ![e] = "logged"]
    /\ wait' = [w \in Waiters |-> IF w \in woken[e] THEN "received" ELSE wait[w]]
    /\ found' = [w \in Waiters |-> IF w \in woken[e] THEN e ELSE found[w]]
    /\ woken' = [woken EXCEPT ![e] = {}]
    /\ Release(e)
    /\ UNCHANGED <<now, begun, id, last_id, before>>

RollBackEmit(e) ==
    /\ emit[e] \in {"begun", "locked", "written"}
    /\ emit' = [emit EXCEPT ![e] = "failed"]
    /\ woken' = [woken EXCEPT ![e] = {}]
    /\ Release(e)
    /\ UNCHANGED <<now, begun, wait, found, id, last_id, before>>

-----------------------------------------------------------------------------
(* waitForEvent: lockEventKey, latestEvent, then commitStep or parkWait,   *)
(* and Commit.                                                             *)

BeginWait(w) ==
    /\ wait[w] = "idle" /\ now <= LastBegin
    /\ wait' = [wait EXCEPT ![w] = "begun"]
    /\ begun' = [begun EXCEPT ![w] = now]
    /\ UNCHANGED <<now, holder, emit, found, id, last_id, woken, before>>

LockForWait(w) ==
    /\ wait[w] = "begun" /\ holder = Nobody
    /\ wait' = [wait EXCEPT ![w] = "locked"]
    /\ holder' = w
    /\ UNCHANGED <<now, begun, emit, found, id, last_id, woken, before>>

\* The events that the lookup of w sees as unexpired.
Retained(w) == {e \in Logged : expires_at(e) > begun[w]}

\* ORDER BY created_at DESC
MutantIgnoreId(e, f) == created_at(e) >= created_at(f)

\* ORDER BY created_at DESC, id DESC
NotOlder(e, f) ==
    \/ created_at(e) > created_at(f)
    \/ created_at(e) = created_at(f) /\ id[e] >= id[f]

\* latestEvent
LookupEvent(w) ==
    /\ wait[w] = "locked"
    /\ \/ \E e \in Retained(w) :
             /\ \A f \in Retained(w) : NotOlder(e, f)
             /\ wait' = [wait EXCEPT ![w] = "deliver"]
             /\ found' = [found EXCEPT ![w] = e]
       \/ /\ Retained(w) = {}
          /\ wait' = [wait EXCEPT ![w] = "park"]
          /\ UNCHANGED found
    /\ UNCHANGED <<now, holder, begun, emit, id, last_id, woken, before>>

\* The checkpoint, or the registration of the wait, is committed.
CommitWait(w) ==
    /\ wait[w] \in {"deliver", "park"}
    /\ wait' = [wait EXCEPT ![w] = IF wait[w] = "deliver" THEN "received" ELSE "parked"]
    /\ Release(w)
    /\ UNCHANGED <<now, begun, emit, found, id, last_id, woken, before>>

\* The error path; the run is claimed again and comes back to its wait.
RollBackWait(w) ==
    /\ wait[w] \in {"begun", "locked", "deliver", "park"}
    /\ wait' = [wait EXCEPT ![w] = "idle"]
    /\ found' = [found EXCEPT ![w] = Nobody]
    /\ Release(w)
    /\ UNCHANGED <<now, begun, emit, id, last_id, woken, before>>

-----------------------------------------------------------------------------
(* Maintenance.                                                            *)

\* The timeout does not skip the rows that an emission has locked.
MutantPromoteLocked(w) ==
    /\ wait[w] = "parked" /\ waiting_deadline(w) <= now
    /\ wait' = [wait EXCEPT ![w] = "timed_out"]
    /\ UNCHANGED <<now, holder, begun, emit, found, id, last_id, woken, before>>

\* promoteTimedOut; it skips the rows that an emission has locked.
PromoteTimedOut(w) ==
    /\ wait[w] = "parked" /\ waiting_deadline(w) <= now
    /\ \A e \in Emitters : w \notin woken[e]
    /\ wait' = [wait EXCEPT ![w] = "timed_out"]
    /\ UNCHANGED <<now, holder, begun, emit, found, id, last_id, woken, before>>

\* pruneEvents
PruneEvents(e) ==
    /\ e \in Logged /\ expires_at(e) <= now
    /\ emit' = [emit EXCEPT ![e] = "pruned"]
    /\ UNCHANGED <<now, holder, begun, wait, found, id, last_id, woken, before>>

Tick ==
    /\ now < LastBegin + Timeout
    /\ now' = now + 1
    /\ UNCHANGED <<holder, begun, emit, wait, found, id, last_id, woken, before>>

-----------------------------------------------------------------------------

Emission(e) == LockForEmit(e) \/ EmitEvent(e) \/ CommitEmit(e)

Waiting(w) == BeginWait(w) \/ LockForWait(w) \/ LookupEvent(w) \/ CommitWait(w)

Next ==
    \/ \E e \in Emitters : BeginEmit(e) \/ Emission(e) \/ RollBackEmit(e) \/ PruneEvents(e)
    \/ \E w \in Waiters : Waiting(w) \/ RollBackWait(w) \/ PromoteTimedOut(w)
    \/ Tick

Spec == Init /\ [][Next]_vars

(***************************************************************************)
(* Time passes, begun transactions go on, the lock is granted in turn      *)
(* (PostgreSQL queues the requests), and maintenance comes around.         *)
(***************************************************************************)
FairSpec ==
    /\ Spec
    /\ WF_vars(Tick)
    /\ \A e \in Emitters : WF_vars(Emission(e)) /\ SF_vars(LockForEmit(e))
    /\ \A w \in Waiters : /\ WF_vars(LookupEvent(w) \/ CommitWait(w))
                          /\ SF_vars(LockForWait(w))
                          /\ WF_vars(PromoteTimedOut(w))

-----------------------------------------------------------------------------

(***************************************************************************)
(* An event published while a run registers its wait is never missed       *)
(* (README.md): no run stays parked beside an event of its key, except     *)
(* one that had expired when the wait began or one that was emitted after  *)
(* the deadline.                                                           *)
(***************************************************************************)
NoEventMissed ==
    \A w \in Waiters, e \in Emitters :
        wait[w] = "parked" /\ e \in Logged =>
            expires_at(e) <= begun[w] \/ waiting_deadline(w) <= begun[e]

(***************************************************************************)
(* A wait is satisfied with the most recent payload (README.md): of the    *)
(* retained events, none was emitted by a call that began after the call   *)
(* of the event found had returned, although the log is ordered by the     *)
(* start of transactions that commit in another order.                     *)
(***************************************************************************)
MostRecentEvent ==
    \A w \in Waiters : wait[w] = "deliver" =>
        \A f \in Retained(w) : found[w] \notin before[f]

(***************************************************************************)
(* The outcome of a wait is decided once: a run that is told of a timeout  *)
(* or of an event is not told otherwise (emitEvent and promoteTimedOut     *)
(* update the same row).                                                   *)
(***************************************************************************)
OutcomeIsFinal ==
    [][\A w \in Waiters : wait[w] \in {"received", "timed_out"} =>
          wait'[w] = wait[w] /\ found'[w] = found[w]]_vars

(***************************************************************************)
(* A wait that is committed or about to be ends: the run is told of an     *)
(* event or of the timeout, unless the transaction is rolled back, and     *)
(* whatever emissions and rollbacks compete for the key's lock.            *)
(***************************************************************************)
EveryWaitEnds ==
    \A w \in Waiters :
        wait[w] = "begun" ~> wait[w] \in {"received", "timed_out", "idle"}
=============================================================================
