------------------------------- MODULE Worker -------------------------------
(***************************************************************************)
(* Claims being executed by workers (worker.go) against the tables of      *)
(* RunStore, with the producers, the maintenance loops and the clock       *)
(* around them.                                                            *)
(*                                                                         *)
(* A claim is identified by its lease token.  Its goroutine holds a copy   *)
(* of what the claim statement returned and issues one statement at a      *)
(* time; anything may happen in the database between two of them.  A       *)
(* statement's reply may be lost after it took effect (ack = FALSE).       *)
(* Workers are not named: no statement depends on which worker issues it.  *)
(*                                                                         *)
(* The claim statement is the one that is not atomic.  At READ COMMITTED   *)
(* it chooses rows, and reads step_checkpoints, in the snapshot taken when *)
(* it starts; a row changed since is locked and compared again in its      *)
(* latest version, and that version is updated and returned.  Between the  *)
(* snapshot and the lock another worker may have executed the run.         *)
(***************************************************************************)
EXTENDS RunStore

CONSTANT
    Claimers  \* rows that claim statements in progress have chosen, over all workers

VARIABLES
    claims,    \* claims[t]: the goroutine executing the claim with token t
    key_lock,  \* key_lock[k]: who holds the advisory lock of event key k
    snap       \* snap[c]: what the claim statement c has seen of its row, or Null

work == <<store, claims, key_lock>>

vars == <<work, snap>>

(***************************************************************************)
(* pc of a claim:                                                          *)
(*   "idle"     no goroutine: the token is not in use by any worker        *)
(*   "drive"    at the head of drive's loop, or in the operation at index  *)
(*   "commit"   a step function has returned: commitStep comes next        *)
(*   "lookup"   waitForEvent holds the key lock: latestEvent comes next    *)
(*   "deliver"  an event was found: commitStep and Commit come next        *)
(*   "park"     no event was found: parkWait and Commit come next          *)
(*   "fail"     drive returned an error: failOrRetry comes next            *)
(***************************************************************************)
InWaitTx == {"lookup", "deliver", "park"}

PC == {"idle", "drive", "commit", "fail"} \cup InWaitTx

Claim ==
    [pc : PC,
     run : Runs \cup {Null},
     index : 0 .. MaxOps,
     values : [Positions -> Stored],
     attempt : Nat,
     result : Stored]

NoValues == [i \in Positions |-> Null]

IdleClaim ==
    [pc |-> "idle", run |-> Null, index |-> 0, values |-> NoValues,
     attempt |-> 0, result |-> Null]

(***************************************************************************)
(* A claim statement between its snapshot and the lock of its row:         *)
(*   run    the row it has chosen                                          *)
(*   saved  that run's checkpoints in the snapshot                         *)
(*   due    whether next_run_at <= now() holds for the latest version,     *)
(*          now() being the time at which the statement began              *)
(***************************************************************************)
Snapshot == [run : Runs, saved : [Positions -> Stored], due : BOOLEAN]

\* An emission in progress is identified with its payload.
Holders == Tokens \cup Payloads

ASSUME HoldersAssumption ==
    /\ Tokens \cap Payloads = {}
    /\ Null \notin Payloads \cup Runs

TypeOK ==
    /\ StoreTypeOK
    /\ claims \in [Tokens -> Claim]
    /\ key_lock \in [Keys -> Holders \cup {Null}]
    /\ snap \in [Claimers -> Snapshot \cup {Null}]

Init ==
    /\ StoreInit
    /\ claims = [t \in Tokens |-> IdleClaim]
    /\ key_lock = [k \in Keys |-> Null]
    /\ snap = [c \in Claimers |-> Null]

-----------------------------------------------------------------------------
(* Where a claim is.                                                       *)

Active(t) == claims[t].pc # "idle"

RunOf(t) == claims[t].run

IndexOf(t) == claims[t].index

\* The loop has reached an operation for which no value is stored yet.
AtOp(t, kind) ==
    /\ claims[t].pc = "drive"
    /\ IndexOf(t) < OpCount(RunOf(t))
    /\ claims[t].values[IndexOf(t)] = Null
    /\ OpAt(RunOf(t), IndexOf(t)).kind = kind

AtEnd(t) == claims[t].pc = "drive" /\ IndexOf(t) = OpCount(RunOf(t))

IsLast(t) == IndexOf(t) = OpCount(RunOf(t)) - 1

KeyOf(t) == OpAt(RunOf(t), IndexOf(t)).key

(* The goroutine returns, or goes on with another pc.                      *)

Exit(t) == claims' = [claims EXCEPT ![t] = IdleClaim]

Goto(t, pc) == claims' = [claims EXCEPT ![t] = [@ EXCEPT !.pc = pc, !.result = Null]]

\* A transaction ends, by commit or by rollback: its key lock is released.
ReleaseLock(t) ==
    key_lock' = [k \in Keys |-> IF key_lock[k] = t THEN Null ELSE key_lock[k]]

-----------------------------------------------------------------------------
(* The dispatcher claims a due run.                                        *)

\* gen_random_uuid(): no row and no goroutine uses t.
Fresh(t) == ~Active(t) /\ \A r \in Runs : runs[r].lease_token # t

\* The latest version is compared by its state alone.
MutantRecheckState(c, early) ==
    IF snap[c] = Null \/ runs'[snap[c].run] = runs[snap[c].run] THEN snap[c]
    ELSE IF runs'[snap[c].run].state \in Terminal THEN Null
    ELSE [snap[c] EXCEPT !.due = runs'[snap[c].run].state = "ready"]

(***************************************************************************)
(* The snapshot of statement c after a step that changes rows.  A row made *)
(* ready since the snapshot is due later than the statement's now(),       *)
(* because the statement that did it began after the snapshot.  Except     *)
(* emitEvent: its now() is when its transaction began, maybe long before   *)
(* it got the lock of the event key, and maybe earlier than that of c.  A  *)
(* run that has ended cannot match again, and c is done with it.           *)
(***************************************************************************)
Rechecked(c, early) ==
    IF snap[c] = Null \/ runs'[snap[c].run] = runs[snap[c].run] THEN snap[c]
    ELSE IF runs'[snap[c].run].state \in Terminal THEN Null
    ELSE [snap[c] EXCEPT !.due = early /\ runs'[snap[c].run].state = "ready"]

\* Statements in early began after the emitEvent that takes the step.
Recheck(early) == snap' = [c \in Claimers |-> Rechecked(c, c \in early)]

TakeSnapshot(c, r) ==
    /\ snap[c] = Null
    /\ runs[r].state = "ready" /\ runs[r].next_run_at = "past"
    /\ snap' = [snap EXCEPT ![c] = [run |-> r, saved |-> checkpoints[r], due |-> TRUE]]
    /\ UNCHANGED work

(***************************************************************************)
(* FOR UPDATE and the update, of the row's latest version.  The statement  *)
(* returns that version's cursor and attempt counter and the checkpoints   *)
(* of its snapshot; drive starts from them.  When the reply is lost, or    *)
(* cannot be decoded, the row stays leased and nobody executes it.         *)
(***************************************************************************)
ClaimReadyRun(c, t, ack) ==
    /\ snap[c] # Null /\ snap[c].due
    /\ Fresh(t)
    /\ ClaimRow(snap[c].run, t)
    /\ LET row == runs[snap[c].run] IN
       claims' = IF ack
                 THEN [claims EXCEPT ![t] =
                           [pc |-> "drive", run |-> snap[c].run, index |-> row.step_index,
                            values |-> snap[c].saved, attempt |-> row.attempt,
                            result |-> Null]]
                 ELSE claims
    /\ snap' = [d \in Claimers |-> IF d = c THEN Null ELSE Rechecked(d, FALSE)]
    /\ UNCHANGED key_lock

\* The row is locked, or its latest version does not match, or the statement fails.
SkipRow(c) ==
    /\ snap[c] # Null
    /\ snap' = [snap EXCEPT ![c] = Null]
    /\ UNCHANGED work

-----------------------------------------------------------------------------
(* drive, one operation after the other.                                   *)

\* A value is stored already: move on in memory.
ReplayValue(t) ==
    /\ claims[t].pc = "drive"
    /\ IndexOf(t) < OpCount(RunOf(t))
    /\ claims[t].values[IndexOf(t)] # Null
    /\ claims' = [claims EXCEPT ![t] = [@ EXCEPT !.index = IndexOf(t) + 1]]
    /\ UNCHANGED <<store, key_lock, snap>>

\* The step function is called and returns d.
RunStep(t, d) ==
    /\ AtOp(t, "step")
    /\ claims' = [claims EXCEPT ![t] = [@ EXCEPT !.pc = "commit", !.result = StepValue(d)]]
    /\ UNCHANGED <<store, key_lock, snap>>

\* What drive does with the reply to the commitStep of its current result.
AfterCommit(t, ack) ==
    IF ~ack THEN Goto(t, "fail")
    ELSE IF IsLast(t) THEN Exit(t)
    ELSE claims' = [claims EXCEPT ![t] =
             [@ EXCEPT !.pc = "drive", !.index = IndexOf(t) + 1, !.result = Null,
                       !.values[IndexOf(t)] =
                           StoredBy(RunOf(t), IndexOf(t), claims[t].result)]]

CommitResult(t, ack) ==
    /\ claims[t].pc = "commit"
    /\ CommitStep(RunOf(t), t, IndexOf(t), claims[t].result, IsLast(t))
    /\ AfterCommit(t, ack)
    /\ UNCHANGED key_lock
    /\ Recheck({})

ParkForSleep(t, ack) ==
    /\ AtOp(t, "sleep")
    /\ ParkSleep(RunOf(t), t, IndexOf(t) + 1)
    /\ IF ack THEN Exit(t) ELSE Goto(t, "fail")
    /\ UNCHANGED key_lock
    /\ Recheck({})

\* The log is read without the key's advisory lock.
MutantLookupUnlocked(t) ==
    /\ AtOp(t, "wait_event")
    /\ Goto(t, "lookup")
    /\ UNCHANGED <<store, key_lock, snap>>

\* waitForEvent begins its transaction and gets the key's advisory lock.
LockEventKey(t) ==
    /\ AtOp(t, "wait_event")
    /\ key_lock[KeyOf(t)] = Null
    /\ key_lock' = [key_lock EXCEPT ![KeyOf(t)] = t]
    /\ Goto(t, "lookup")
    /\ UNCHANGED <<store, snap>>

LookupEvent(t) ==
    /\ claims[t].pc = "lookup"
    /\ \/ \E e \in LatestEvents(KeyOf(t)) :
              claims' = [claims EXCEPT ![t] = [@ EXCEPT !.pc = "deliver",
                                                        !.result = Received(e.payload)]]
       \/ LiveEvents(KeyOf(t)) = {} /\ Goto(t, "park")
    /\ UNCHANGED <<store, key_lock, snap>>

DeliverEvent(t, ack) ==
    /\ claims[t].pc = "deliver"
    /\ CommitStep(RunOf(t), t, IndexOf(t), claims[t].result, IsLast(t))
    /\ AfterCommit(t, ack)
    /\ ReleaseLock(t)
    /\ Recheck({})

ParkForEvent(t, ack) ==
    /\ claims[t].pc = "park"
    /\ ParkWait(RunOf(t), t, IndexOf(t), KeyOf(t))
    /\ IF ack THEN Exit(t) ELSE Goto(t, "fail")
    /\ ReleaseLock(t)
    /\ Recheck({})

\* No operation remains: completeRun stores the output.
FinishRun(t, ack) ==
    /\ AtEnd(t)
    /\ CompleteRun(RunOf(t), t, Output(RunOf(t), claims[t].values))
    /\ IF ack THEN Exit(t) ELSE Goto(t, "fail")
    /\ UNCHANGED key_lock
    /\ Recheck({})

(***************************************************************************)
(* drive returns an error: a step function or key resolver fails or        *)
(* panics, or a statement fails without taking effect.  waitForEvent's     *)
(* transaction is rolled back.                                             *)
(***************************************************************************)
DriveFails(t) ==
    /\ \/ \E kind \in OpKind : AtOp(t, kind)
       \/ AtEnd(t)
       \/ claims[t].pc \in {"commit"} \cup InWaitTx
    /\ Goto(t, "fail")
    /\ ReleaseLock(t)
    /\ UNCHANGED <<store, snap>>

\* executeClaim records the failure, with the attempt the claim read.
RecordFailure(t) ==
    /\ claims[t].pc = "fail"
    /\ FailOrRetry(RunOf(t), t, claims[t].attempt + 1)
    /\ Exit(t)
    /\ UNCHANGED key_lock
    /\ Recheck({})

\* The next statement finds no row (errLostLease): the goroutine returns.
LostLease(t) ==
    /\ \/ /\ AtOp(t, "sleep") \/ AtEnd(t) \/ claims[t].pc \in {"park", "fail"}
          /\ ~Fence(RunOf(t), t)
       \/ /\ claims[t].pc \in {"commit", "deliver"}
          /\ ~Owned(RunOf(t), t, IndexOf(t))
    /\ Exit(t)
    /\ ReleaseLock(t)
    /\ UNCHANGED <<store, snap>>

(***************************************************************************)
(* The goroutine ends without recording anything: its context was          *)
(* cancelled (lost lease, passed deadline, end of the drain), failOrRetry  *)
(* itself failed, or the process crashed.                                  *)
(***************************************************************************)
Abandon(t) ==
    /\ Active(t)
    /\ Exit(t)
    /\ ReleaseLock(t)
    /\ UNCHANGED <<store, snap>>

-----------------------------------------------------------------------------
(* Producers, maintenance and the clock.                                   *)

Enqueue(r, due) == InsertRun(r, due) /\ Recheck({}) /\ UNCHANGED <<claims, key_lock>>

Cancel(r) == CancelRun(r) /\ Recheck({}) /\ UNCHANGED <<claims, key_lock>>

\* EmitEvent begins its transaction and gets the key's advisory lock.
LockForEmit(k, p) ==
    /\ key_lock[k] = Null
    /\ \A other \in Keys : key_lock[other] # p
    /\ key_lock' = [key_lock EXCEPT ![k] = p]
    /\ UNCHANGED <<store, claims, snap>>

\* Its transaction began before the claim statements in early.
Emit(k, early) ==
    /\ key_lock[k] \in Payloads
    /\ EmitEvent(k, key_lock[k])
    /\ Recheck(early)
    /\ key_lock' = [key_lock EXCEPT ![k] = Null]
    /\ UNCHANGED claims

EmitRollsBack(k) ==
    /\ key_lock[k] \in Payloads
    /\ key_lock' = [key_lock EXCEPT ![k] = Null]
    /\ UNCHANGED <<store, claims, snap>>

Recover(r) == RecoverLease(r) /\ Recheck({}) /\ UNCHANGED <<claims, key_lock>>

Promote(r) == PromoteTimedOut(r) /\ Recheck({}) /\ UNCHANGED <<claims, key_lock>>

Prune(e) == PruneEvent(e) /\ UNCHANGED <<claims, key_lock, snap>>

ClockTick ==
    /\ \/ \E r \in Runs : RunBecomesDue(r) \/ LeaseExpires(r) \/ DeadlinePasses(r)
       \/ \E e \in event_log : EventExpires(e)
    /\ Recheck({})
    /\ UNCHANGED <<claims, key_lock>>

-----------------------------------------------------------------------------

\* drive and executeClaim go on.
Proceed(t) ==
    \/ ReplayValue(t)
    \/ \E d \in Results : RunStep(t, d)
    \/ \E ack \in BOOLEAN : \/ CommitResult(t, ack)
                            \/ ParkForSleep(t, ack)
                            \/ DeliverEvent(t, ack)
                            \/ ParkForEvent(t, ack)
                            \/ FinishRun(t, ack)
    \/ LockEventKey(t)
    \/ LookupEvent(t)
    \/ RecordFailure(t)
    \/ LostLease(t)

ClaimStep(t) == Proceed(t) \/ DriveFails(t) \/ Abandon(t)

Producer ==
    \/ \E r \in Runs : Cancel(r) \/ \E due \in Time : Enqueue(r, due)
    \/ \E k \in Keys : \/ \E p \in Payloads : LockForEmit(k, p)
                       \/ \E early \in SUBSET Claimers : Emit(k, early)
                       \/ EmitRollsBack(k)

Maintenance ==
    \/ \E r \in Runs : Recover(r) \/ Promote(r)
    \/ \E e \in event_log : Prune(e)

\* A step of the claim statement for one row.
ClaimStatement(c) ==
    \/ \E r \in Runs : TakeSnapshot(c, r)
    \/ \E t \in Tokens, ack \in BOOLEAN : ClaimReadyRun(c, t, ack)
    \/ SkipRow(c)

Next ==
    \/ \E c \in Claimers : ClaimStatement(c)
    \/ \E t \in Tokens : ClaimStep(t)
    \/ Producer
    \/ Maintenance
    \/ ClockTick

Spec == Init /\ [][Next]_vars

-----------------------------------------------------------------------------
(* Safety.                                                                 *)

\* The row of run r says that the claim with token t holds its lease.
Holds(t, r) == runs[r].state = "leased" /\ runs[r].lease_token = t

(***************************************************************************)
(* Operation i of run r precedes a wait that the run has reached when a    *)
(* claim of it is at position n, or is the wait that the claim is at.      *)
(***************************************************************************)
BeforeWait(r, i, n) ==
    \E j \in 0 .. OpCount(r) - 1 :
        /\ OpAt(r, j).kind = "wait_event"
        /\ (i < j /\ j <= n) \/ (i = j /\ j = n)

\* What a claim at position n of run r knows of the checkpoints saved for r.
Knows(r, n, values, saved) ==
    \A i \in Positions :
        /\ values[i] # Null => values[i] = saved[i]
        /\ values[i] = Null /\ saved[i] # Null => BeforeWait(r, i, n)

(***************************************************************************)
(* While a claim holds the lease of its run, even an expired one, the      *)
(* values it replays are the stored ones, its cursor is not behind the     *)
(* stored one, and the attempt it will charge follows the stored one       *)
(* (drive, worker.go).  It need not have all stored values, because the    *)
(* claim statement read them in its snapshot: it may lack those from       *)
(* before a wait and the outcome of the wait it is at, nothing after the   *)
(* last wait.  Until a reply is lost: then only failOrRetry is left.       *)
(***************************************************************************)
OwnerReplaysStoredValues ==
    \A t \in Tokens, r \in Runs :
        Active(t) /\ Holds(t, r) =>
            /\ RunOf(t) = r
            /\ claims[t].attempt = runs[r].attempt
            /\ claims[t].pc # "fail" =>
                  /\ Knows(r, IndexOf(t), claims[t].values, checkpoints[r])
                  /\ runs[r].step_index <= IndexOf(t)

\* Whether a row's cursor fits the checkpoints saved for it.
CursorMatches(r, row, saved) ==
    /\ \A i \in 0 .. OpCount(r) - 1 :
          i < row.step_index => (saved[i] # Null <=> OpAt(r, i).kind # "sleep")
    /\ \A i \in Positions : saved[i] # Null => i <= row.step_index
    /\ row.step_index \in Positions /\ saved[row.step_index] # Null =>
          /\ row.step_index < OpCount(r)
          /\ OpAt(r, row.step_index).kind = "wait_event"

(***************************************************************************)
(* The cursor and the checkpoints agree: every step and wait behind the    *)
(* cursor has its value, nothing is stored ahead of it, and only a wait    *)
(* that has its outcome may have a value at the cursor itself, also while  *)
(* the run is parked on it again (commitStep, parkSleep, parkWait,         *)
(* emitEvent, promoteTimedOut).                                            *)
(***************************************************************************)
CursorMatchesCheckpoints ==
    \A r \in Runs : CursorMatches(r, runs[r], checkpoints[r])

\* Whether a row's output fits its state and the checkpoints saved for it.
OutputMatches(r, row, saved) ==
    IF row.state = "completed"
    THEN row.step_index = OpCount(r) /\ row.output_json = Output(r, saved)
    ELSE row.output_json = Null

(***************************************************************************)
(* A completed run has gone through all its operations, and its output is  *)
(* the value of its last step or wait, whichever of commitStep and         *)
(* completeRun completed it (ARCHITECTURE.md, "The run's output").         *)
(***************************************************************************)
CompletedRunHasItsOutput ==
    \A r \in Runs : OutputMatches(r, runs[r], checkpoints[r])

(***************************************************************************)
(* A run whose wait is registered and not overdue has missed no event: no  *)
(* unexpired event of its key is in the log (README.md, "an event          *)
(* published while a run registers its wait is never missed").             *)
(***************************************************************************)
NoMissedEvent ==
    \A r \in Runs :
        runs[r].state = "waiting_event" /\ runs[r].waiting_deadline = "future" =>
            LiveEvents(runs[r].waiting_event_key) = {}

\* Whether a row's counters fit its state.
BudgetMatches(r, row) ==
    /\ row.attempt <= MaxAttempts[r] /\ row.lease_failures <= MaxAttempts[r]
    /\ row.state \in Unfinished =>
          row.attempt < MaxAttempts[r] /\ row.lease_failures < MaxAttempts[r]
    /\ row.state = "failed" =>
          row.attempt = MaxAttempts[r] \/ row.lease_failures = MaxAttempts[r]

(***************************************************************************)
(* Both failure budgets are exact: an unfinished run has used up neither,  *)
(* and a failed run has used up one of them and overdrawn none             *)
(* (failOrRetry, recoverLeases).                                           *)
(***************************************************************************)
FailureBudgets == \A r \in Runs : BudgetMatches(r, runs[r])

(***************************************************************************)
(* A saved value is never replaced or removed: the first completed result  *)
(* of an operation is the one every later claim replays (step_checkpoints, *)
(* ON CONFLICT).                                                           *)
(***************************************************************************)
CheckpointsAreFinal ==
    [][\A r \in Runs : \A i \in Positions :
          checkpoints[r][i] # Null => checkpoints'[r][i] = checkpoints[r][i]]_vars

(***************************************************************************)
(* A completed, failed or cancelled run never changes again, whatever      *)
(* claims of it are still executing (types.go, Terminal: "the run can no   *)
(* longer change state").                                                  *)
(***************************************************************************)
TerminalIsFinal ==
    [][\A r \in Runs : runs[r].state \in Terminal =>
          runs'[r] = runs[r] /\ checkpoints'[r] = checkpoints[r]]_vars

(***************************************************************************)
(* Progress needs a live lease: the cursor, the attempt counter and the    *)
(* output change only while the run is leased and its lease unexpired, the *)
(* cursor never moves back and an error is charged once (fence).           *)
(***************************************************************************)
ProgressIsFenced ==
    [][\A r \in Runs :
          LET row == runs[r]
              new == runs'[r]
              progress == <<new.step_index, new.attempt, new.output_json>>
                              # <<row.step_index, row.attempt, row.output_json>>
          IN  progress /\ row.state # "absent" =>
                  /\ row.state = "leased" /\ row.lease_until = "future"
                  /\ new.step_index >= row.step_index
                  /\ new.attempt \in {row.attempt, row.attempt + 1}]_vars

-----------------------------------------------------------------------------
(* The inductive invariant: the safety invariants above need these.        *)

\* Lease and wait columns are set exactly in the states that use them.
RowShape(r, row) ==
    /\ row.state = "leased" <=> row.lease_token # Null
    /\ row.state = "leased" <=> row.lease_until # Null
    /\ row.state = "waiting_event" <=> row.waiting_event_key # Null
    /\ row.state = "waiting_event" <=> row.waiting_deadline # Null
    /\ row.step_index <= OpCount(r)
    /\ row.state = "waiting_event" =>
          /\ row.step_index < OpCount(r)
          /\ OpAt(r, row.step_index).kind = "wait_event"
          /\ OpAt(r, row.step_index).key = row.waiting_event_key
    /\ row.state = "absent" => row = NewRow("absent", "past")

\* A goroutine's pc tells which operation it is in and what it has in hand.
ClaimShape(t) ==
    Active(t) =>
        /\ RunOf(t) \in Runs
        /\ IndexOf(t) <= OpCount(RunOf(t))
        /\ claims[t].pc = "commit" =>
              /\ IndexOf(t) < OpCount(RunOf(t))
              /\ OpAt(RunOf(t), IndexOf(t)).kind = "step"
        /\ claims[t].pc \in InWaitTx =>
              /\ IndexOf(t) < OpCount(RunOf(t))
              /\ OpAt(RunOf(t), IndexOf(t)).kind = "wait_event"
              /\ key_lock[KeyOf(t)] = t
        /\ claims[t].pc \in {"commit"} \cup InWaitTx =>
              claims[t].values[IndexOf(t)] = Null
        /\ claims[t].pc \in {"commit", "deliver"} => claims[t].result # Null

\* A lease token is in at most one row.
TokensAreUnique ==
    \A r, s \in Runs :
        runs[r].lease_token = runs[s].lease_token /\ runs[r].lease_token # Null => r = s

\* The lease holder is at the cursor, or has replayed the outcome stored there.
OwnerIsAtCursor ==
    \A t \in Tokens, r \in Runs :
        Active(t) /\ Holds(t, r) /\ claims[t].pc # "fail" =>
            \/ IndexOf(t) = runs[r].step_index
            \/ /\ IndexOf(t) = runs[r].step_index + 1
               /\ checkpoints[r][runs[r].step_index] # Null

\* A claim about to park has seen the log, and the key lock keeps it as it was.
NothingToDeliver ==
    \A t \in Tokens : claims[t].pc = "park" => LiveEvents(KeyOf(t)) = {}

\* The row's cursor is on a wait.
OnWait(r, row) ==
    row.step_index < OpCount(r) /\ OpAt(r, row.step_index).kind = "wait_event"

\* What a claim statement has read is still stored, and is all there is unless the
\* row's latest version, still due, is on a wait.
SnapshotInv(c) ==
    LET seen == snap[c] IN
    seen # Null =>
        /\ \A i \in Positions :
               seen.saved[i] # Null => seen.saved[i] = checkpoints[seen.run][i]
        /\ seen.due => \/ seen.saved = checkpoints[seen.run]
                       \/ OnWait(seen.run, runs[seen.run])

ShapeInv ==
    /\ TypeOK
    /\ \A r \in Runs : RowShape(r, runs[r])
    /\ \A t \in Tokens : ClaimShape(t)
    /\ TokensAreUnique

(***************************************************************************)
(* The conjunction of everything above, which every step of Next preserves *)
(* (Worker as a whole).                                                    *)
(***************************************************************************)
IndInv ==
    /\ ShapeInv
    /\ \A c \in Claimers : SnapshotInv(c)
    /\ OwnerReplaysStoredValues
    /\ OwnerIsAtCursor
    /\ CursorMatchesCheckpoints
    /\ CompletedRunHasItsOutput
    /\ NothingToDeliver
    /\ NoMissedEvent
    /\ FailureBudgets

-----------------------------------------------------------------------------
(* Refinement.                                                             *)

Lifecycle ==
    INSTANCE RunLifecycle WITH state <- [r \in Runs |-> runs[r].state],
                               results <- checkpoints,
                               output <- [r \in Runs |-> runs[r].output_json]

(***************************************************************************)
(* Leases, fences, retries, lost replies and the event registration race   *)
(* are invisible: whatever claims, producers and maintenance do, each run  *)
(* only moves along the edges of ARCHITECTURE.md's state diagram and saves *)
(* its values once and in order.  The one thing to be seen of them is that *)
(* a run may be parked again on a wait whose outcome it has, an outcome    *)
(* that the next event or timeout does not replace.                        *)
(***************************************************************************)
ImplementsLifecycle == Lifecycle!Spec

-----------------------------------------------------------------------------
(* A divergence.                                                           *)

(***************************************************************************)
(* types.go: "StepContext exposes workflow input and completed step        *)
(* values."  A step about to be called, by a claim that holds the lease,   *)
(* is given the stored value of every earlier step and wait (stepContext). *)
(***************************************************************************)
StepSeesCompletedValues ==
    \A t \in Tokens :
        AtOp(t, "step") /\ Holds(t, RunOf(t)) =>
            \A i \in 0 .. IndexOf(t) - 1 : claims[t].values[i] = checkpoints[RunOf(t)][i]

-----------------------------------------------------------------------------
(* Liveness.                                                               *)

\* The time of a run comes, a deadline passes, a lease that no goroutine renews runs out.
TimePasses(r) ==
    /\ \/ RunBecomesDue(r)
       \/ DeadlinePasses(r)
       \/ LeaseExpires(r) /\ \A t \in Tokens : Holds(t, r) => ~Active(t)
    /\ Recheck({})
    /\ UNCHANGED <<claims, key_lock>>

\* A statement that has chosen a row claims it or leaves it.
StatementEnds(c) ==
    SkipRow(c) \/ \E t \in Tokens, ack \in BOOLEAN : ClaimReadyRun(c, t, ack)

\* A statement that has chosen run r claims it.
ClaimsRun(r) ==
    \E c \in Claimers, t \in Tokens, ack \in BOOLEAN :
        snap[c] # Null /\ snap[c].run = r /\ ClaimReadyRun(c, t, ack)

(***************************************************************************)
(* The dispatcher polls and the maintenance loop runs (ticker loops); a    *)
(* claim statement ends, and one that is repeated for ever with a chance   *)
(* to claim the run does not fail or find the row locked every time; the   *)
(* clock advances; a goroutine goes on until it returns, in particular a   *)
(* step function returns; EmitEvent's transaction ends; and a request for  *)
(* an advisory lock is served when the lock is free often enough           *)
(* (PostgreSQL queues lock requests).  A claim that is being executed may  *)
(* keep its lease for ever: nothing forces LeaseExpires for it, and        *)
(* nothing forces a claim to fail or to be abandoned.                      *)
(***************************************************************************)
Fairness ==
    /\ \A c \in Claimers : WF_vars(StatementEnds(c))
    /\ \A r \in Runs :
          /\ WF_vars(\E c \in Claimers : TakeSnapshot(c, r))
          /\ SF_vars(ClaimsRun(r))
          /\ WF_vars(Recover(r) \/ Promote(r))
          /\ WF_vars(TimePasses(r))
    /\ \A t \in Tokens : WF_vars(Proceed(t)) /\ SF_vars(LockEventKey(t))
    /\ \A k \in Keys : WF_vars(EmitRollsBack(k) \/ Emit(k, {}))

FairSpec == Spec /\ Fairness

(***************************************************************************)
(* Every inserted run ends: however often claims crash, lose their lease   *)
(* or their replies, and whether or not an event arrives, the run reaches  *)
(* a terminal state, because every claim either makes progress or uses up  *)
(* one of the two failure budgets (drive, failOrRetry, recoverLeases,      *)
(* promoteTimedOut).                                                       *)
(***************************************************************************)
EveryRunEnds ==
    \A r \in Runs : runs[r].state # "absent" ~> runs[r].state \in Terminal
=============================================================================
