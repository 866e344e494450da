----------------------------- MODULE Heartbeat -----------------------------
(***************************************************************************)
(* The lease table of one worker (leases.go), the heartbeat loop that      *)
(* renews its entries (worker.go) and the dispatcher that inserts them.    *)
(*                                                                         *)
(* A claim is its lease token.  Time is counted down: a deadline is the    *)
(* time left until it, Tick takes one unit from all of them, and a moment  *)
(* that the code keeps in order to add LeaseTTL to it later (started, now) *)
(* is kept as the countdown of that sum.  The clocks of the worker and of  *)
(* PostgreSQL run at the same rate.  A countdown that is not in use is 0,  *)
(* and one in use stops there: a claim that is inserted after its deadline *)
(* has a deadline of 0.                                                    *)
(***************************************************************************)
EXTENDS Integers, FiniteSetsExt

CONSTANTS
    Claims,          \* lease tokens
    LeaseTTL,        \* Config.LeaseTTL
    HeartbeatEvery,  \* Config.HeartbeatInterval
    Latency          \* longest statement of a healthy database (HealthySpec)

ASSUME HeartbeatAssumption ==
    /\ LeaseTTL \in Nat
    /\ HeartbeatEvery \in Nat \ {0}
    /\ HeartbeatEvery < LeaseTTL
    /\ Latency \in Nat
    /\ 2 * Latency + HeartbeatEvery < LeaseTTL
    /\ 3 * Latency < LeaseTTL

VARIABLES
    row,           \* tokens that a leased row of workflow_runs carries
    lease_until,   \* lease_until[t]: time left of that row's lease, 0 when expired
    table,         \* tokens with an entry in leaseTable.byToken
    deadline,      \* deadline[t]: time left until the entry's confirmed deadline
    cancelled,     \* entries whose context is cancelled
    working,       \* claims whose goroutine is in executeClaim
    claim_pc,      \* claimReadyRuns and the insertion of what it returned
    claim_left,    \* started + LeaseTTL
    fetched,       \* rows leased by the claim statement and not yet inserted
    pc,            \* heartbeatLoop
    next_renewal,  \* nextRenewal
    wake,          \* the loop's timer
    confirm,       \* now + LeaseTTL, with now taken before the renewal
    bound,         \* the deadline of renewCtx
    tokens,        \* tokens sent with the renewal
    renewed,       \* tokens it returned
    stray          \* tokens of a renewal given up that PostgreSQL may still execute

dbVars == <<row, lease_until, stray>>
tableVars == <<table, deadline, cancelled, working>>
claimVars == <<claim_pc, claim_left, fetched>>
beatVars == <<pc, next_renewal, wake, confirm, bound, tokens, renewed>>
vars == <<dbVars, tableVars, claimVars, beatVars>>

\* How long past its deadline an entry is followed.
Floor == -(LeaseTTL + 1)

TypeOK ==
    /\ row \subseteq Claims /\ stray \subseteq Claims
    /\ lease_until \in [Claims -> 0 .. LeaseTTL]
    /\ table \subseteq Claims /\ cancelled \subseteq table /\ working \subseteq table
    /\ deadline \in [Claims -> Floor .. LeaseTTL]
    /\ claim_pc \in {"idle", "sent", "reply", "insert"}
    /\ claim_left \in 0 .. LeaseTTL
    /\ fetched \subseteq Claims
    /\ pc \in {"top", "sleep", "snapshot", "sent", "reply", "stopped"}
    /\ {next_renewal, wake} \subseteq 0 .. HeartbeatEvery
    /\ {confirm, bound} \subseteq 0 .. LeaseTTL
    /\ tokens \subseteq Claims /\ renewed \subseteq tokens

Init ==
    /\ row = {} /\ lease_until = [t \in Claims |-> 0] /\ stray = {}
    /\ table = {} /\ deadline = [t \in Claims |-> 0]
    /\ cancelled = {} /\ working = {}
    /\ claim_pc = "idle" /\ claim_left = 0 /\ fetched = {}
    /\ pc = "top" /\ next_renewal = HeartbeatEvery /\ wake = 0
    /\ confirm = 0 /\ bound = 0 /\ tokens = {} /\ renewed = {}

-----------------------------------------------------------------------------
(* The dispatcher claims runs and inserts them one by one.                 *)

SendClaim ==
    /\ claim_pc = "idle" /\ pc # "stopped"
    /\ claim_pc' = "sent"
    /\ claim_left' = LeaseTTL
    /\ UNCHANGED <<dbVars, tableVars, fetched, beatVars>>

\* gen_random_uuid(): nothing refers to t any more.
Fresh(t) == t \notin row \cup stray \cup table \cup tokens

\* PostgreSQL executes the claim statement.
ClaimRows(S) ==
    /\ claim_pc = "sent"
    /\ \A t \in S : Fresh(t)
    /\ row' = row \cup S
    /\ lease_until' = [t \in Claims |-> IF t \in S THEN LeaseTTL ELSE lease_until[t]]
    /\ fetched' = S
    /\ IF S = {} THEN claim_pc' = "idle" /\ claim_left' = 0
                 ELSE claim_pc' = "reply" /\ UNCHANGED claim_left
    /\ UNCHANGED <<stray, tableVars, beatVars>>

\* claimReadyRuns returns an error: what was leased has no goroutine.
ClaimFails ==
    /\ claim_pc \in {"sent", "reply"}
    /\ claim_pc' = "idle" /\ claim_left' = 0 /\ fetched' = {}
    /\ UNCHANGED <<dbVars, tableVars, beatVars>>

InsertClaim(t) ==
    /\ claim_pc \in {"reply", "insert"} /\ t \in fetched
    /\ table' = table \cup {t}
    /\ deadline' = [deadline EXCEPT ![t] = claim_left]
    /\ working' = working \cup {t}
    /\ fetched' = fetched \ {t}
    /\ IF fetched = {t} THEN claim_pc' = "idle" /\ claim_left' = 0
                        ELSE claim_pc' = "insert" /\ UNCHANGED claim_left
    /\ UNCHANGED <<dbVars, cancelled, beatVars>>

\* The goroutine returns: release cancels the context ...
Finish(t) ==
    /\ t \in working
    /\ working' = working \ {t}
    /\ cancelled' = cancelled \cup {t}
    /\ UNCHANGED <<dbVars, table, deadline, claimVars, beatVars>>

\* ... and deletes the entry.
Delete(t) ==
    /\ t \in table \ working
    /\ table' = table \ {t}
    /\ cancelled' = cancelled \ {t}
    /\ deadline' = [deadline EXCEPT ![t] = 0]
    /\ UNCHANGED <<dbVars, working, claimVars, beatVars>>

-----------------------------------------------------------------------------
(* heartbeatLoop.                                                          *)

\* leaseTable.expire: the entries it cancels, and the ones left.
Overdue == {t \in table \ cancelled : deadline[t] <= 0}

Live == {t \in table \ cancelled : deadline[t] > 0}

Expire == cancelled' = cancelled \cup Overdue

\* The head of the loop: expire, then set the timer.
Sleep ==
    /\ pc = "top"
    /\ Expire
    /\ wake' = Min({next_renewal} \cup {deadline[t] : t \in Live})
    /\ pc' = "sleep"
    /\ UNCHANGED <<dbVars, table, deadline, working, claimVars,
                   next_renewal, confirm, bound, tokens, renewed>>

\* The timer fires for a deadline, before the next renewal is due.
WakeForDeadline ==
    /\ pc = "sleep" /\ wake = 0 /\ next_renewal > 0
    /\ pc' = "top"
    /\ UNCHANGED <<dbVars, tableVars, claimVars,
                   next_renewal, wake, confirm, bound, tokens, renewed>>

\* The renewal is not bounded by the deadlines of the claims.
MutantWakeUnbounded ==
    /\ pc = "sleep" /\ wake = 0 /\ next_renewal = 0
    /\ next_renewal' = HeartbeatEvery
    /\ confirm' = LeaseTTL
    /\ Expire
    /\ bound' = 2 * LeaseTTL
    /\ pc' = "snapshot"
    /\ UNCHANGED <<dbVars, table, deadline, working, claimVars, wake, tokens, renewed>>

\* The next renewal is due after the lease's duration.
MutantWakeEveryTTL ==
    /\ pc = "sleep" /\ wake = 0 /\ next_renewal = 0
    /\ next_renewal' = LeaseTTL
    /\ confirm' = LeaseTTL
    /\ Expire
    /\ bound' = IF Live = {} THEN LeaseTTL ELSE Min({deadline[t] : t \in Live})
    /\ pc' = "snapshot"
    /\ UNCHANGED <<dbVars, table, deadline, working, claimVars, wake, tokens, renewed>>

WakeForRenewal ==
    /\ pc = "sleep" /\ wake = 0 /\ next_renewal = 0
    /\ next_renewal' = HeartbeatEvery
    /\ confirm' = LeaseTTL
    /\ Expire
    /\ bound' = IF Live = {} THEN LeaseTTL ELSE Min({deadline[t] : t \in Live})
    /\ pc' = "snapshot"
    /\ UNCHANGED <<dbVars, table, deadline, working, claimVars, wake, tokens, renewed>>

\* What the loop forgets when it starts over.
ToTop ==
    /\ pc' = "top"
    /\ confirm' = 0 /\ bound' = 0 /\ tokens' = {} /\ renewed' = {}
    /\ UNCHANGED <<next_renewal, wake>>

\* leaseTable.snapshot takes the mutex again: entries may be new since expire.
Snapshot ==
    /\ pc = "snapshot"
    /\ IF table = cancelled
       THEN ToTop
       ELSE /\ tokens' = table \ cancelled
            /\ pc' = "sent"
            /\ UNCHANGED <<next_renewal, wake, confirm, bound, renewed>>
    /\ UNCHANGED <<dbVars, tableVars, claimVars>>

\* PostgreSQL executes renewLeases for the tokens S.
Renewable(S) == {t \in S \cap row : lease_until[t] > 0}

Extend(S) ==
    lease_until' = [t \in Claims |-> IF t \in Renewable(S) THEN LeaseTTL ELSE lease_until[t]]

Renew ==
    /\ pc = "sent"
    /\ Extend(tokens)
    /\ renewed' = Renewable(tokens)
    /\ pc' = "reply"
    /\ UNCHANGED <<row, stray, tableVars, claimVars,
                   next_renewal, wake, confirm, bound, tokens>>

(***************************************************************************)
(* renewLeases returns an error, at the latest when renewCtx expires.  The *)
(* statement has taken effect, or never will, or will later.               *)
(***************************************************************************)
RenewalFails(late) ==
    /\ pc \in {"sent", "reply"}
    /\ late => pc = "sent"
    /\ ToTop
    /\ stray' = IF late THEN tokens ELSE stray
    /\ UNCHANGED <<row, lease_until, tableVars, claimVars>>

StrayRenewal ==
    /\ stray # {}
    /\ Extend(stray)
    /\ stray' = {}
    /\ UNCHANGED <<row, tableVars, claimVars, beatVars>>

\* The new deadline counts from the reply, not from before the statement.
MutantConfirmFromReply ==
    /\ pc = "reply"
    /\ deadline' = [t \in Claims |-> IF t \in table \cap renewed THEN LeaseTTL ELSE deadline[t]]
    /\ cancelled' = cancelled \cup ((table \cap tokens) \ renewed)
    /\ ToTop
    /\ UNCHANGED <<dbVars, table, working, claimVars>>

\* Every token sent counts as renewed.
MutantConfirmAllSent ==
    /\ pc = "reply"
    /\ deadline' = [t \in Claims |-> IF t \in table \cap tokens THEN confirm ELSE deadline[t]]
    /\ UNCHANGED cancelled
    /\ ToTop
    /\ UNCHANGED <<dbVars, table, working, claimVars>>

\* A token without an entry is not skipped.
MutantApplyToDeleted ==
    /\ pc = "reply"
    /\ deadline' = [t \in Claims |-> IF t \in table \cap renewed THEN confirm ELSE deadline[t]]
    /\ cancelled' = cancelled \cup (tokens \ renewed)
    /\ ToTop
    /\ UNCHANGED <<dbVars, table, working, claimVars>>

ApplyRenewal ==
    /\ pc = "reply"
    /\ deadline' = [t \in Claims |-> IF t \in table \cap renewed THEN confirm ELSE deadline[t]]
    /\ cancelled' = cancelled \cup ((table \cap tokens) \ renewed)
    /\ ToTop
    /\ UNCHANGED <<dbVars, table, working, claimVars>>

\* The dispatcher has returned and cancelled workCtx, the parent of all contexts.
StopWork ==
    /\ claim_pc = "idle" /\ pc # "stopped"
    /\ cancelled' = table
    /\ pc' = "stopped"
    /\ next_renewal' = 0 /\ wake' = 0 /\ confirm' = 0 /\ bound' = 0
    /\ tokens' = {} /\ renewed' = {}
    /\ UNCHANGED <<dbVars, table, deadline, working, claimVars>>

-----------------------------------------------------------------------------
(* The row, and the clock.                                                 *)

RowLeaves(t) ==
    /\ row' = row \ {t}
    /\ lease_until' = [lease_until EXCEPT ![t] = 0]
    /\ UNCHANGED <<stray, tableVars, claimVars, beatVars>>

\* Cancel, or a statement of the claim that parks, retries or completes the run.
GiveUpRow(t) == t \in row /\ RowLeaves(t)

\* Maintenance takes an expired lease.
RecoverRow(t) == t \in row /\ lease_until[t] = 0 /\ RowLeaves(t)

Down(n) == IF n > 0 THEN n - 1 ELSE 0

Tick ==
    /\ lease_until' = [t \in Claims |-> Down(lease_until[t])]
    /\ deadline' = [t \in Claims |->
           IF t \in table /\ deadline[t] > Floor THEN deadline[t] - 1 ELSE deadline[t]]
    /\ claim_left' = Down(claim_left)
    /\ next_renewal' = Down(next_renewal)
    /\ wake' = Down(wake)
    /\ confirm' = Down(confirm)
    /\ bound' = Down(bound)
    /\ UNCHANGED <<row, stray, table, cancelled, working,
                   claim_pc, fetched, pc, tokens, renewed>>

-----------------------------------------------------------------------------

Loop == Sleep \/ WakeForDeadline \/ WakeForRenewal \/ Snapshot \/ ApplyRenewal

Failure ==
    \/ ClaimFails
    \/ \E late \in BOOLEAN : RenewalFails(late)
    \/ StrayRenewal

Work ==
    \/ SendClaim
    \/ \E S \in SUBSET Claims : ClaimRows(S)
    \/ \E t \in Claims : \/ InsertClaim(t) \/ Finish(t) \/ Delete(t)
                         \/ GiveUpRow(t) \/ RecoverRow(t)
    \/ Loop
    \/ Renew
    \/ StopWork

Next == Work \/ Failure \/ Tick

Spec == Init /\ [][Next]_vars

(***************************************************************************)
(* Go runs the loop as soon as its timer or renewCtx fires.                *)
(***************************************************************************)
LoopIsWaiting ==
    \/ pc = "sleep" /\ wake > 0
    \/ pc \in {"sent", "reply"} /\ bound > 0
    \/ pc = "stopped"

PromptSpec == Init /\ [][Work \/ Failure \/ (LoopIsWaiting /\ Tick)]_vars

(***************************************************************************)
(* Besides, no statement fails or takes longer than Latency, and what it   *)
(* returned is inserted at once.                                           *)
(***************************************************************************)
StatementsAreQuick ==
    /\ claim_pc \in {"sent", "reply"} => LeaseTTL - claim_left < Latency
    /\ claim_pc # "insert"
    /\ pc \in {"sent", "reply"} => LeaseTTL - confirm < Latency

HealthySpec ==
    Init /\ [][Work \/ (LoopIsWaiting /\ StatementsAreQuick /\ Tick)]_vars

(***************************************************************************)
(* A prompt worker: the heartbeat goroutine is scheduled, time passes, and *)
(* renewLeases returns once its context has expired.                       *)
(***************************************************************************)
FairSpec ==
    /\ PromptSpec
    /\ WF_vars(Loop)
    /\ WF_vars(LoopIsWaiting /\ Tick)
    /\ WF_vars(bound = 0 /\ RenewalFails(FALSE))

-----------------------------------------------------------------------------

(***************************************************************************)
(* A confirmed deadline is never later than the lease it stands for, as    *)
(* long as the row carries the claim's token, whatever was renewed, lost,  *)
(* answered late or inserted meanwhile: before its deadline a claim cannot *)
(* have been recovered by maintenance (insert, applyRenewal).              *)
(***************************************************************************)
ConfirmedDeadlineIsSafe ==
    \A t \in table \cap row : deadline[t] <= lease_until[t]

(***************************************************************************)
(* A worker whose timers fire on time lets no claim run longer than        *)
(* LeaseTTL past its confirmed deadline, or past its insertion when that   *)
(* came later, even when every renewal fails and the claim was inserted    *)
(* while the loop was asleep or waiting for another renewal                *)
(* (heartbeatLoop, "Never wait for a renewal past the earliest confirmed   *)
(* deadline").                                                             *)
(***************************************************************************)
LatenessIsBounded ==
    \A t \in table \ cancelled : deadline[t] >= -LeaseTTL

(***************************************************************************)
(* With a healthy database no claim loses its lease: until it ends, the    *)
(* worker stops or its row is given up, the lease is unexpired and the     *)
(* context not cancelled (New's check that the heartbeat interval is       *)
(* shorter than the lease, heartbeatLoop's nextRenewal).                   *)
(***************************************************************************)
HealthyWorkerKeepsItsLeases ==
    pc # "stopped" =>
        \A t \in row \cap (fetched \cup working) :
            lease_until[t] > 0 /\ t \notin cancelled

(***************************************************************************)
(* A claim that has lost its row, for instance to Cancel, is told:         *)
(* eventually its context is cancelled or it has returned, even when       *)
(* renewals fail (README.md, "the step's context is canceled at the next   *)
(* renewal").                                                              *)
(***************************************************************************)
LostClaimIsCancelled ==
    \A t \in Claims :
        (t \in working \ row) ~> (t \notin working \/ t \in cancelled)
=============================================================================
