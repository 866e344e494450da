------------------------------ MODULE RunStore ------------------------------
(***************************************************************************)
(* The PostgreSQL tables of durablepg (migrate.go) and its statements      *)
(* (queries.go).  A statement sees and changes the latest committed        *)
(* version of each run row it locks.  What the claim statement returns of  *)
(* step_checkpoints may be older than that: Worker has its two halves.     *)
(*                                                                         *)
(* Time is abstracted to what the statements compare: a stored timestamp   *)
(* is in the "future" or in the "past".  The clock moves it from "future"  *)
(* to "past" at any moment (the actions at the end of this module), so a   *)
(* behaviour of this module exists for every choice of durations.          *)
(*                                                                         *)
(* An operator whose name starts with Mutant is the definition after it    *)
(* with a plausible mistake.  No specification uses it: it shows that a    *)
(* property notices the mistake.                                           *)
(***************************************************************************)
EXTENDS Workflow

CONSTANTS
    Tokens,       \* lease tokens drawn by gen_random_uuid()
    MaxAttempts   \* MaxAttempts[r]: workflow_runs.max_attempts of run r

VARIABLES
    runs,         \* workflow_runs
    checkpoints,  \* step_checkpoints: Null where (run_id, step_index) has no row
    event_log     \* event_log

store == <<runs, checkpoints, event_log>>

ASSUME RunStoreAssumption ==
    /\ MaxAttempts \in [Runs -> Nat \ {0}]
    /\ Null \notin Tokens
    /\ Null \notin {"future", "past"}

Terminal == {"completed", "failed", "cancelled"}

Unfinished == {"ready", "leased", "waiting_event"}

Time == {"future", "past"}

(***************************************************************************)
(* The columns of workflow_runs that a statement reads or that a caller    *)
(* can act on.  State "absent" is a row that has not been inserted.        *)
(* last_error, created_at and updated_at are left out: nothing reads them. *)
(***************************************************************************)
Row ==
    [state : {"absent"} \cup Unfinished \cup Terminal,
     step_index : 0 .. MaxOps,
     attempt : Nat,
     lease_failures : Nat,
     next_run_at : Time,
     lease_token : Tokens \cup {Null},
     lease_until : Time \cup {Null},
     waiting_event_key : Keys \cup {Null},
     waiting_deadline : Time \cup {Null},
     output_json : Stored]

NewRow(state, due) ==
    [state |-> state, step_index |-> 0, attempt |-> 0, lease_failures |-> 0,
     next_run_at |-> due, lease_token |-> Null, lease_until |-> Null,
     waiting_event_key |-> Null, waiting_deadline |-> Null, output_json |-> Null]

Event == [key : Keys, payload : Payloads, expires_at : Time]

StoreTypeOK ==
    /\ runs \in [Runs -> Row]
    /\ checkpoints \in [Runs -> [Positions -> Stored]]
    /\ event_log \subseteq Event

StoreInit ==
    /\ runs = [r \in Runs |-> NewRow("absent", "past")]
    /\ checkpoints = [r \in Runs |-> [i \in Positions |-> Null]]
    /\ event_log = {}

-----------------------------------------------------------------------------
(* Statements issued for a claim.  Each requires the fence.                *)

MutantFenceIgnoresExpiry(r, t) == runs[r].state = "leased" /\ runs[r].lease_token = t

MutantFenceIgnoresToken(r, t) ==
    runs[r].state = "leased" /\ runs[r].lease_until = "future"

Fence(r, t) ==
    /\ runs[r].state = "leased"
    /\ runs[r].lease_token = t
    /\ runs[r].lease_until = "future"

\* The claim statement, for one of the rows it picks: token t is fresh.
ClaimRow(r, t) ==
    /\ runs[r].state = "ready"
    /\ runs[r].next_run_at = "past"
    /\ runs' = [runs EXCEPT ![r] = [@ EXCEPT !.state = "leased",
                                             !.lease_token = t,
                                             !.lease_until = "future"]]
    /\ UNCHANGED <<checkpoints, event_log>>

\* The value commitStep leaves at position i: an existing checkpoint wins.
StoredBy(r, i, v) == IF checkpoints[r][i] = Null THEN v ELSE checkpoints[r][i]

\* Whether commitStep finds its row.
Owned(r, t, i) == Fence(r, t) /\ runs[r].step_index <= i

\* The lease is given up and the run put into another state.
Released(row, state) ==
    [row EXCEPT !.state = state, !.lease_token = Null, !.lease_until = Null]

\* A plain upsert of the checkpoint, by whoever still executes the run.
MutantUpsertStep(r, t, i, v, complete) ==
    /\ runs[r].state = "leased"
    /\ checkpoints' = [checkpoints EXCEPT ![r] = [@ EXCEPT ![i] = v]]
    /\ runs' = [runs EXCEPT ![r] =
           IF complete
           THEN [Released(@, "completed") EXCEPT !.step_index = i + 1, !.output_json = v]
           ELSE [@ EXCEPT !.step_index = i + 1]]
    /\ UNCHANGED event_log

CommitStep(r, t, i, v, complete) ==
    /\ Owned(r, t, i)
    /\ checkpoints' = [checkpoints EXCEPT ![r] = [@ EXCEPT ![i] = StoredBy(r, i, v)]]
    /\ runs' = [runs EXCEPT ![r] =
           IF complete
           THEN [Released(@, "completed") EXCEPT !.step_index = i + 1,
                                                 !.lease_failures = 0,
                                                 !.output_json = StoredBy(r, i, v)]
           ELSE [@ EXCEPT !.step_index = i + 1,
                          !.lease_failures = 0,
                          !.output_json = Null]]
    /\ UNCHANGED event_log

MutantCompleteWithoutOutput(r, t, output) ==
    /\ Fence(r, t)
    /\ runs' = [runs EXCEPT ![r] = [Released(@, "completed") EXCEPT
                                        !.step_index = OpCount(r)]]
    /\ UNCHANGED <<checkpoints, event_log>>

CompleteRun(r, t, output) ==
    /\ Fence(r, t)
    /\ runs' = [runs EXCEPT ![r] = [Released(@, "completed") EXCEPT
                                        !.step_index = OpCount(r),
                                        !.output_json = output]]
    /\ UNCHANGED <<checkpoints, event_log>>

ParkSleep(r, t, next) ==
    /\ Fence(r, t)
    /\ runs' = [runs EXCEPT ![r] = [Released(@, "ready") EXCEPT
                                        !.step_index = next,
                                        !.next_run_at = "future",
                                        !.lease_failures = 0]]
    /\ UNCHANGED <<checkpoints, event_log>>

\* The cursor moves past the wait, as parkSleep's does.
MutantParkPastWait(r, t, i, k) ==
    /\ Fence(r, t)
    /\ runs' = [runs EXCEPT ![r] = [Released(@, "waiting_event") EXCEPT
                                        !.step_index = i + 1,
                                        !.waiting_event_key = k,
                                        !.waiting_deadline = "future",
                                        !.lease_failures = 0]]
    /\ UNCHANGED <<checkpoints, event_log>>

\* The cursor stays on the wait.
ParkWait(r, t, i, k) ==
    /\ Fence(r, t)
    /\ runs' = [runs EXCEPT ![r] = [Released(@, "waiting_event") EXCEPT
                                        !.step_index = i,
                                        !.waiting_event_key = k,
                                        !.waiting_deadline = "future",
                                        !.lease_failures = 0]]
    /\ UNCHANGED <<checkpoints, event_log>>

MutantOneRetryMore(r, t, attempt) ==
    /\ Fence(r, t)
    /\ runs' = [runs EXCEPT ![r] =
           [Released(@, IF attempt > MaxAttempts[r] THEN "failed" ELSE "ready") EXCEPT
                !.attempt = attempt,
                !.next_run_at = "future"]]
    /\ UNCHANGED <<checkpoints, event_log>>

FailOrRetry(r, t, attempt) ==
    /\ Fence(r, t)
    /\ runs' = [runs EXCEPT ![r] =
           [Released(@, IF attempt >= MaxAttempts[r] THEN "failed" ELSE "ready") EXCEPT
                !.attempt = attempt,
                !.next_run_at = "future"]]
    /\ UNCHANGED <<checkpoints, event_log>>

-----------------------------------------------------------------------------
(* Statements issued by producers: Enqueue, Cancel and EmitEvent.          *)

\* COALESCE($6, now()): due at once, or scheduled for later.
InsertRun(r, due) ==
    /\ runs[r].state = "absent"
    /\ runs' = [runs EXCEPT ![r] = NewRow("ready", due)]
    /\ UNCHANGED <<checkpoints, event_log>>

MutantCancelAnyRun(r) ==
    /\ runs[r].state # "absent"
    /\ runs' = [runs EXCEPT ![r] = [Released(@, "cancelled") EXCEPT
                                        !.waiting_event_key = Null,
                                        !.waiting_deadline = Null]]
    /\ UNCHANGED <<checkpoints, event_log>>

CancelRun(r) ==
    /\ runs[r].state \in Unfinished
    /\ runs' = [runs EXCEPT ![r] = [Released(@, "cancelled") EXCEPT
                                        !.waiting_event_key = Null,
                                        !.waiting_deadline = Null]]
    /\ UNCHANGED <<checkpoints, event_log>>

\* A waiting run made ready again; the cursor is still on the wait.
Resumed(row) ==
    [row EXCEPT !.state = "ready", !.next_run_at = "past",
                !.waiting_event_key = Null, !.waiting_deadline = Null]

WaitingOn(k) ==
    {r \in Runs : runs[r].state = "waiting_event" /\ runs[r].waiting_event_key = k}

MutantOutcomeOverwrites(r, v) == [checkpoints[r] EXCEPT ![runs[r].step_index] = v]

\* The outcome of the wait that run r is parked on, unless one is stored.
WithOutcome(r, v) ==
    [checkpoints[r] EXCEPT ![runs[r].step_index] = StoredBy(r, runs[r].step_index, v)]

(***************************************************************************)
(* emitEvent compares waiting_deadline with now(), the time at which its   *)
(* transaction began.  It wakes every waiter whose deadline lies ahead,    *)
(* and may wake one (in late) whose deadline passed since it began.        *)
(***************************************************************************)
EmitEvent(k, p) ==
    \E late \in SUBSET {r \in WaitingOn(k) : runs[r].waiting_deadline = "past"} :
        LET woken == {r \in WaitingOn(k) : runs[r].waiting_deadline = "future"} \cup late
        IN  /\ runs' = [r \in Runs |-> IF r \in woken THEN Resumed(runs[r]) ELSE runs[r]]
            /\ checkpoints' = [r \in Runs |-> IF r \in woken
                                              THEN WithOutcome(r, Received(p))
                                              ELSE checkpoints[r]]
            /\ event_log' = event_log \cup {[key |-> k, payload |-> p, expires_at |-> "future"]}

\* Events of key k that latestEvent sees as unexpired whenever its transaction began.
LiveEvents(k) == {e \in event_log : e.key = k /\ e.expires_at = "future"}

(***************************************************************************)
(* What latestEvent may return.  It also compares with the time at which   *)
(* its transaction began, so it may see an event that has expired since,   *)
(* but not in place of a newer, unexpired one.  Which of several unexpired *)
(* events is the most recent is left open.                                 *)
(***************************************************************************)
LatestEvents(k) ==
    IF LiveEvents(k) # {} THEN LiveEvents(k) ELSE {e \in event_log : e.key = k}

-----------------------------------------------------------------------------
(* Maintenance statements, for one of the rows they pick.                  *)

\* An expired lease is not counted as a failure.
MutantRecoverForFree(r) ==
    /\ runs[r].state = "leased"
    /\ runs[r].lease_until = "past"
    /\ runs' = [runs EXCEPT ![r] = [Released(@, "ready") EXCEPT !.next_run_at = "future"]]
    /\ UNCHANGED <<checkpoints, event_log>>

RecoverLease(r) ==
    /\ runs[r].state = "leased"
    /\ runs[r].lease_until = "past"
    /\ LET failures == runs[r].lease_failures + 1 IN
       runs' = [runs EXCEPT ![r] =
           [Released(@, IF failures >= MaxAttempts[r] THEN "failed" ELSE "ready") EXCEPT
                !.lease_failures = failures,
                !.next_run_at = "future"]]
    /\ UNCHANGED <<checkpoints, event_log>>

PromoteTimedOut(r) ==
    /\ runs[r].state = "waiting_event"
    /\ runs[r].waiting_deadline = "past"
    /\ runs' = [runs EXCEPT ![r] = Resumed(runs[r])]
    /\ checkpoints' = [checkpoints EXCEPT ![r] = WithOutcome(r, TimedOut)]
    /\ UNCHANGED event_log

PruneEvent(e) ==
    /\ e \in event_log
    /\ e.expires_at = "past"
    /\ event_log' = event_log \ {e}
    /\ UNCHANGED <<runs, checkpoints>>

-----------------------------------------------------------------------------
(* The clock passes a stored timestamp.                                    *)

RunBecomesDue(r) ==
    /\ runs[r].state = "ready"
    /\ runs[r].next_run_at = "future"
    /\ runs' = [runs EXCEPT ![r] = [@ EXCEPT !.next_run_at = "past"]]
    /\ UNCHANGED <<checkpoints, event_log>>

LeaseExpires(r) ==
    /\ runs[r].lease_until = "future"
    /\ runs' = [runs EXCEPT ![r] = [@ EXCEPT !.lease_until = "past"]]
    /\ UNCHANGED <<checkpoints, event_log>>

DeadlinePasses(r) ==
    /\ runs[r].waiting_deadline = "future"
    /\ runs' = [runs EXCEPT ![r] = [@ EXCEPT !.waiting_deadline = "past"]]
    /\ UNCHANGED <<checkpoints, event_log>>

EventExpires(e) ==
    /\ e \in event_log
    /\ e.expires_at = "future"
    /\ event_log' = (event_log \ {e}) \cup {[e EXCEPT !.expires_at = "past"]}
    /\ UNCHANGED <<runs, checkpoints>>
=============================================================================
