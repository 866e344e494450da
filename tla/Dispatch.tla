------------------------------ MODULE Dispatch ------------------------------
(***************************************************************************)
(* The life of a worker: StartWorker, its listener for notifications, its  *)
(* dispatcher with a bounded number of claims, the drain at shutdown, and  *)
(* WaitForIdle, which joins the claims that outlived it.                   *)
(*                                                                         *)
(* What happens inside a claim is Worker's subject.  Here a claim is a     *)
(* goroutine that ends, or one that never does.  The due runs of the queue *)
(* are ordered by next_run_at.                                             *)
(***************************************************************************)
EXTENDS Integers, FiniteSets, RowOrder

CONSTANTS
    Runs,            \* runs that may become due
    Supported,       \* those whose name and version are registered here
    MaxConcurrency,  \* Config.MaxConcurrency
    Waiters,         \* calls of WaitForIdle, each with its goroutine
    MaxEnding,       \* bound on the claims of a worker inside their deferred function
    MaxOrphans       \* bound on the claims of earlier workers when one starts

ASSUME DispatchAssumption ==
    /\ Supported \subseteq Runs
    /\ MaxConcurrency \in Nat \ {0}
    /\ MaxEnding \in Nat \ {0}
    /\ MaxOrphans \in Nat

VARIABLES
    ready,      \* due runs of the queue
    older,      \* their order
    hinted,     \* those registered here that were announced with pg_notify
    listener,   \* the connection of listen
    notified,   \* a notification waits on that connection
    running,    \* Engine.workerRunning
    stop,       \* the context of StartWorker is cancelled
    pc,         \* dispatchLoop
    available,  \* free slots, as read before the claim
    wake,       \* the channel wake holds a signal
    left,       \* the last claim failed, or skipped a row that was locked
    own,        \* goroutines of this worker's claims, by the progress of their defer
    orphans,    \* goroutines left by earlier workers of this engine
    locked,     \* a WaitForIdle holds workerMu
    calling,    \* calls of WaitForIdle in their select
    waiter      \* waiter[c]: the goroutine in activeClaims.Wait

queueVars == <<ready, older, hinted>>
signalVars == <<listener, notified, wake>>
loopVars == <<running, stop, pc, available, left>>
claimVars == <<own, orphans>>
idleVars == <<locked, calling, waiter>>
vars == <<queueVars, signalVars, loopVars, claimVars, idleVars>>

\* How far the deferred function of a claim's goroutine is.
Phases == {"working", "decremented", "signalled"}

TypeOK ==
    /\ ready \subseteq Runs /\ older \subseteq ready \X ready /\ hinted \subseteq ready \cap Supported
    /\ listener \in {"down", "up"} /\ notified \in BOOLEAN /\ wake \in BOOLEAN
    /\ running \in BOOLEAN /\ stop \in BOOLEAN /\ left \in BOOLEAN
    /\ pc \in {"off", "dispatch", "claim", "select", "drain", "ended"}
    /\ available \in 0 .. MaxConcurrency
    /\ own \in [Phases -> Nat] /\ orphans \in Nat
    /\ locked \in BOOLEAN /\ calling \subseteq Waiters
    /\ waiter \in [Waiters -> {"none", "blocked", "released", "closed"}]

NoClaims == [p \in Phases |-> 0]

Init ==
    /\ ready = {} /\ older = {} /\ hinted = {}
    /\ running = FALSE /\ stop = FALSE /\ pc = "off" /\ available = 0 /\ left = FALSE
    /\ listener = "down" /\ notified = FALSE /\ wake = FALSE
    /\ own = NoClaims /\ orphans = 0
    /\ locked = FALSE /\ calling = {}
    /\ waiter = [c \in Waiters |-> "none"]

\* The atomic counter inFlight, and the counters of the two wait groups.
InFlight == own["working"]

OwnClaims == own["working"] + own["decremented"] + own["signalled"]

ActiveClaims == OwnClaims + orphans

-----------------------------------------------------------------------------
(* The queue, as producers, maintenance and other workers change it.       *)

(***************************************************************************)
(* A run becomes due: Enqueue, EmitEvent and a timeout notify, time does   *)
(* not.  It may be due before runs that already are: WithScheduledAt takes *)
(* past times, and the now() of a transaction is when it began.            *)
(***************************************************************************)
BecomesDue(r, hint) ==
    /\ r \notin ready
    /\ ready' = ready \cup {r}
    /\ \E before \in Places(older, ready) : older' = AddBetween(older, ready, before, r)
    /\ hinted' = IF hint THEN hinted \cup ({r} \cap Supported) ELSE hinted
    /\ notified' = (notified \/ (hint /\ listener = "up"))
    /\ UNCHANGED <<listener, wake, loopVars, claimVars, idleVars>>

Take(rows) ==
    /\ ready' = ready \ rows
    /\ older' = DropRows(older, rows)
    /\ hinted' = hinted \ rows

\* Another worker claims it, or it is cancelled.
LeavesQueue(r) ==
    /\ r \in ready
    /\ Take({r})
    /\ UNCHANGED <<signalVars, loopVars, claimVars, idleVars>>

-----------------------------------------------------------------------------
(* listenLoop.                                                             *)

Connect ==
    /\ running /\ ~stop /\ listener = "down"
    /\ listener' = "up"
    /\ wake' = TRUE
    /\ UNCHANGED <<notified, queueVars, loopVars, claimVars, idleVars>>

Receive ==
    /\ listener = "up" /\ notified
    /\ notified' = FALSE
    /\ wake' = TRUE
    /\ UNCHANGED <<listener, queueVars, loopVars, claimVars, idleVars>>

\* The connection breaks, with the notifications on it, or ctx ends.
Disconnect ==
    /\ listener = "up"
    /\ listener' = "down"
    /\ notified' = FALSE
    /\ wake' = TRUE
    /\ UNCHANGED <<queueVars, loopVars, claimVars, idleVars>>

-----------------------------------------------------------------------------
(* StartWorker and dispatchLoop.                                           *)

StartWorker ==
    /\ ~locked /\ ~running
    /\ orphans <= MaxOrphans
    /\ running' = TRUE
    /\ pc' = "dispatch"
    /\ wake' = TRUE
    /\ UNCHANGED <<queueVars, listener, notified, stop, available, left, claimVars, idleVars>>

\* The caller cancels the worker's context.
Stop ==
    /\ running /\ ~stop
    /\ stop' = TRUE
    /\ UNCHANGED <<queueVars, signalVars, running, pc, available, left, claimVars, idleVars>>

\* The slots in use are not subtracted.
MutantDispatchAll ==
    /\ pc = "dispatch"
    /\ IF stop THEN pc' = "select" /\ UNCHANGED available
               ELSE pc' = "claim" /\ available' = MaxConcurrency
    /\ UNCHANGED <<queueVars, signalVars, running, stop, left, claimVars, idleVars>>

\* dispatch, up to the claim statement.
Dispatch ==
    /\ pc = "dispatch"
    /\ IF stop \/ InFlight >= MaxConcurrency
       THEN pc' = "select" /\ UNCHANGED available
       ELSE pc' = "claim" /\ available' = MaxConcurrency - InFlight
    /\ UNCHANGED <<queueVars, signalVars, running, stop, left, claimVars, idleVars>>

\* The rows the claim statement leases when the rows skipped are locked.
Picked(skipped) == Oldest((ready \cap Supported) \ skipped, available, older)

\* The claim returns, and a goroutine starts for each row.
Claim(skipped) ==
    /\ pc = "claim"
    /\ \E rows \in Picked(skipped) :
           /\ Take(rows)
           /\ own' = [own EXCEPT !["working"] = @ + Cardinality(rows)]
    /\ left' = (skipped \cap hinted # {})
    /\ pc' = "select" /\ available' = 0
    /\ UNCHANGED <<signalVars, running, stop, orphans, idleVars>>

\* The claim returns an error; rows it leased wait for their lease to expire.
ClaimFails(effect) ==
    /\ pc = "claim"
    /\ IF effect THEN \E rows \in Picked({}) : Take(rows)
                 ELSE UNCHANGED queueVars
    /\ left' = TRUE
    /\ pc' = "select" /\ available' = 0
    /\ UNCHANGED <<signalVars, running, stop, claimVars, idleVars>>

\* Polling stops while notifications are received.
MutantPollWithoutListener ==
    /\ pc = "select" /\ listener = "down"
    /\ pc' = "dispatch"
    /\ UNCHANGED <<queueVars, signalVars, running, stop, available, left, claimVars, idleVars>>

Poll ==
    /\ pc = "select"
    /\ pc' = "dispatch"
    /\ UNCHANGED <<queueVars, signalVars, running, stop, available, left, claimVars, idleVars>>

Wake ==
    /\ pc = "select" /\ wake
    /\ wake' = FALSE
    /\ pc' = "dispatch"
    /\ UNCHANGED <<queueVars, listener, notified, running, stop, available, left, claimVars, idleVars>>

BeginDrain ==
    /\ pc = "select" /\ stop
    /\ pc' = "drain"
    /\ UNCHANGED <<queueVars, signalVars, running, stop, available, left, claimVars, idleVars>>

\* The drain has no time limit.
MutantDrainUnbounded ==
    /\ pc = "drain" /\ OwnClaims = 0
    /\ pc' = "ended"
    /\ UNCHANGED <<queueVars, signalVars, running, stop, available, left, claimVars, idleVars>>

\* All claims of this worker have returned, or the timer fires.
EndDrain ==
    /\ pc = "drain"
    /\ pc' = "ended"
    /\ UNCHANGED <<queueVars, signalVars, running, stop, available, left, claimVars, idleVars>>

\* Nothing of the worker is left but what its claims hold.
WorkerIsOff ==
    /\ running' = FALSE /\ stop' = FALSE /\ pc' = "off" /\ available' = 0 /\ left' = FALSE
    /\ listener' = "down" /\ notified' = FALSE /\ wake' = FALSE
    /\ own' = NoClaims

\* The group has returned; endWorker.
EndWorker ==
    /\ pc = "ended" /\ ~locked
    /\ WorkerIsOff
    /\ orphans' = orphans + OwnClaims
    /\ UNCHANGED <<queueVars, idleVars>>

-----------------------------------------------------------------------------
(* The goroutine of a claim.                                               *)

Move(from, to) ==
    /\ own[from] > 0
    /\ own' = [own EXCEPT ![from] = @ - 1, ![to] = @ + 1]

\* executeClaim returns; release and inFlight.Add(-1).
Decrement ==
    /\ own["decremented"] + own["signalled"] < MaxEnding
    /\ Move("working", "decremented")
    /\ UNCHANGED <<queueVars, signalVars, loopVars, orphans, idleVars>>

\* The channel has no buffer: the signal is lost unless the loop is waiting.
MutantUnbuffered ==
    /\ Move("decremented", "signalled")
    /\ wake' = (wake \/ pc = "select")
    /\ UNCHANGED <<queueVars, listener, notified, loopVars, orphans, idleVars>>

Signal ==
    /\ Move("decremented", "signalled")
    /\ wake' = TRUE
    /\ UNCHANGED <<queueVars, listener, notified, loopVars, orphans, idleVars>>

\* sync.WaitGroup: the counter that reaches zero releases whoever waits.
ReleaseWaiters ==
    waiter' = IF ActiveClaims = 1
              THEN [c \in Waiters |-> IF waiter[c] = "blocked" THEN "released" ELSE waiter[c]]
              ELSE waiter

\* activeClaims.Done is called twice.
MutantDoneTwice ==
    /\ own["signalled"] > 0
    /\ own' = [own EXCEPT !["signalled"] = @ - 2]
    /\ ReleaseWaiters
    /\ UNCHANGED <<queueVars, signalVars, loopVars, orphans, locked, calling>>

\* activeClaims.Done, and the end of the goroutine.
Done ==
    /\ own["signalled"] > 0
    /\ own' = [own EXCEPT !["signalled"] = @ - 1]
    /\ ReleaseWaiters
    /\ UNCHANGED <<queueVars, signalVars, loopVars, orphans, locked, calling>>

\* A claim that outlived its worker is not counted down.
MutantOrphanForgotten == orphans > 0 /\ UNCHANGED vars

\* The same for a claim whose worker has returned; its channel has no reader.
OrphanDone ==
    /\ orphans > 0
    /\ orphans' = orphans - 1
    /\ ReleaseWaiters
    /\ UNCHANGED <<queueVars, signalVars, loopVars, own, locked, calling>>

-----------------------------------------------------------------------------
(* WaitForIdle.                                                            *)

\* workerMu is unlocked before the wait.
MutantWaitUnlocked(c) ==
    /\ ~locked /\ ~running
    /\ c \notin calling /\ waiter[c] = "none"
    /\ calling' = calling \cup {c}
    /\ waiter' = [waiter EXCEPT ![c] = IF ActiveClaims = 0 THEN "closed" ELSE "blocked"]
    /\ UNCHANGED <<locked, queueVars, signalVars, loopVars, claimVars>>

\* The call enters its select; with a worker running it returns an error.
WaitForIdle(c) ==
    /\ ~locked /\ ~running
    /\ c \notin calling /\ waiter[c] = "none"
    /\ locked' = TRUE
    /\ calling' = calling \cup {c}
    /\ waiter' = [waiter EXCEPT ![c] = IF ActiveClaims = 0 THEN "closed" ELSE "blocked"]
    /\ UNCHANGED <<queueVars, signalVars, loopVars, claimVars>>

\* Wait returns and done is closed.
WaiterReturns(c) ==
    /\ waiter[c] = "released" /\ ActiveClaims = 0
    /\ waiter' = [waiter EXCEPT ![c] = "closed"]
    /\ UNCHANGED <<queueVars, signalVars, loopVars, claimVars, locked, calling>>

\* Wait finds the counter in use again: "WaitGroup is reused before previous
\* Wait has returned".  The process ends, with everything but the queue.
WaiterPanics(c) ==
    /\ waiter[c] = "released" /\ ActiveClaims > 0
    /\ WorkerIsOff /\ orphans' = 0
    /\ locked' = FALSE /\ calling' = {}
    /\ waiter' = [d \in Waiters |-> "none"]
    /\ UNCHANGED queueVars

\* The call returns nil, or its context's error.
ReturnIdle(c) ==
    /\ c \in calling /\ waiter[c] = "closed"
    /\ locked' = FALSE
    /\ calling' = calling \ {c}
    /\ waiter' = [waiter EXCEPT ![c] = "none"]
    /\ UNCHANGED <<queueVars, signalVars, loopVars, claimVars>>

ReturnExpired(c) ==
    /\ c \in calling
    /\ locked' = FALSE
    /\ calling' = calling \ {c}
    /\ UNCHANGED <<waiter, queueVars, signalVars, loopVars, claimVars>>

\* The goroutine of an expired call ends.
ForgetWaiter(c) ==
    /\ c \notin calling /\ waiter[c] = "closed"
    /\ waiter' = [waiter EXCEPT ![c] = "none"]
    /\ UNCHANGED <<locked, calling, queueVars, signalVars, loopVars, claimVars>>

-----------------------------------------------------------------------------

Queue ==
    \E r \in Runs : LeavesQueue(r) \/ \E hint \in BOOLEAN : BecomesDue(r, hint)

Listen == Connect \/ Receive \/ Disconnect

Loop ==
    \/ Dispatch \/ Poll \/ Wake \/ BeginDrain \/ EndDrain
    \/ \E skipped \in SUBSET (ready \cap Supported) : Claim(skipped)
    \/ \E effect \in BOOLEAN : ClaimFails(effect)

Goroutine == Decrement \/ Signal \/ Done \/ OrphanDone

Idle ==
    \E c \in Waiters :
        \/ WaitForIdle(c) \/ WaiterReturns(c) \/ WaiterPanics(c)
        \/ ReturnIdle(c) \/ ReturnExpired(c) \/ ForgetWaiter(c)

Next ==
    \/ Queue \/ Listen \/ Loop \/ Goroutine \/ Idle
    \/ StartWorker \/ Stop \/ EndWorker

Spec == Init /\ [][Next]_vars

(***************************************************************************)
(* The worker's goroutines are scheduled and statements return; of the     *)
(* cases of a select that stay ready Go picks each sooner or later; the    *)
(* ticker and the drain's timer fire.  Nothing is assumed of the claims.   *)
(***************************************************************************)
LoopFairness ==
    /\ WF_vars(Dispatch)
    /\ WF_vars(Poll)
    /\ WF_vars(\E skipped \in SUBSET (ready \cap Supported) : Claim(skipped))
    /\ SF_vars(BeginDrain)
    /\ WF_vars(EndDrain)
    /\ WF_vars(EndWorker)

FairSpec == Spec /\ LoopFairness

(***************************************************************************)
(* What some properties assume besides: claims return, as workflow code is *)
(* asked to once its context is cancelled.                                 *)
(***************************************************************************)
ClaimsReturn ==
    WF_vars(Decrement) /\ WF_vars(Signal) /\ WF_vars(Done) /\ WF_vars(OrphanDone)

-----------------------------------------------------------------------------

(***************************************************************************)
(* A worker never runs more claims than MaxConcurrency, though claims end  *)
(* and the count falls between the moment the free slots are read and the  *)
(* moment the claimed rows start (dispatch).                               *)
(***************************************************************************)
ConcurrencyIsBounded == InFlight <= MaxConcurrency

(***************************************************************************)
(* Nothing announced is forgotten: a dispatcher that waits with a free     *)
(* slot and no signal pending, while the listener is connected, has left   *)
(* no run it supports that was announced, unless its last claim failed or  *)
(* met a locked row.  It is the signal after LISTEN, the one on a lost     *)
(* connection, the channel's buffer and the signal after inFlight falls    *)
(* that make it so (listen, dispatchLoop).                                 *)
(***************************************************************************)
QuietMeansDone ==
    /\ pc = "select" /\ ~stop /\ ~wake /\ InFlight < MaxConcurrency
    /\ own["decremented"] = 0 /\ listener = "up" /\ ~notified /\ ~left
    => hinted = {}

(***************************************************************************)
(* When WaitForIdle finds the claims joined, none is running: no worker    *)
(* has started since (WaitForIdle holds workerMu while it waits).          *)
(***************************************************************************)
IdleMeansIdle ==
    \A c \in calling : waiter[c] = "closed" => ActiveClaims = 0

(***************************************************************************)
(* engine.go, WaitForIdle: "Prevent a new worker from adding claims during *)
(* Wait."  A goroutine that Wait releases finds no claim added since.      *)
(***************************************************************************)
NoClaimAddedDuringWait ==
    \A c \in Waiters : waiter[c] = "released" => ActiveClaims = 0

\* From some time on no run becomes due with an earlier next_run_at than that of r.
NoMoreInFront(r) ==
    <>[][\A s \in Runs : <<s, r>> \in older' => <<s, r>> \in older]_vars

(***************************************************************************)
(* A due run that the worker supports is claimed, or the worker stops,     *)
(* whatever notifications are lost, whatever runs become due behind it and *)
(* with runs of unregistered workflows in front of it (polling, the order  *)
(* and the filter of the claim statement).  If, that is, claims return, a  *)
(* claim statement retried for ever succeeds with no row locked again and  *)
(* again, and runs are not for ever scheduled in front of it.              *)
(***************************************************************************)
DueRunIsClaimed ==
    ClaimsReturn /\ SF_vars(Claim({})) => \A r \in Supported :
        NoMoreInFront(r) =>
            (running /\ r \in ready) ~> (r \notin ready \/ stop \/ ~running)

(***************************************************************************)
(* StartWorker returns once its context is cancelled, even if no claim     *)
(* ever returns (StartWorker, "then drains for up to max(LeaseTTL, 5s)").  *)
(***************************************************************************)
StartWorkerReturns == stop ~> ~running

(***************************************************************************)
(* WaitForIdle returns when the remaining claims do.                       *)
(***************************************************************************)
WaitForIdleReturns ==
    \A c \in Waiters :
        ClaimsReturn /\ WF_vars(WaiterReturns(c)) /\ WF_vars(ReturnIdle(c)) =>
            (c \in calling) ~> (c \notin calling)
=============================================================================
