-------------------------- MODULE WorkerStepProofs --------------------------
(***************************************************************************)
(* Proofs about Worker, for all runs, definitions, tokens and limits and   *)
(* any number of claim statements in progress: what no step may do to a    *)
(* run, what a claim statement has seen of it, hence that the invariant is *)
(* inductive, and that each step is a step of RunLifecycle or none.        *)
(***************************************************************************)
EXTENDS WorkerProofs

-----------------------------------------------------------------------------
(* Action properties: every statement is shown to change a run only in     *)
(* ways that GoodStep allows.                                              *)

Progress(row) == <<row.step_index, row.attempt, row.output_json>>

\* A row and its checkpoints may become new and kept.
GoodStep(row, saved, new, kept) ==
    \/ new = row /\ kept = saved
    \/ /\ row.state \notin Terminal
       /\ \A i \in Positions : saved[i] # Null => kept[i] = saved[i]
       /\ kept = saved \/ new # row
       /\ \/ row.state = "absent"
          \/ Progress(new) = Progress(row)
          \/ /\ row.state = "leased" /\ row.lease_until = "future"
             /\ new.step_index >= row.step_index
             /\ new.attempt \in {row.attempt, row.attempt + 1}

AllGood == \A r \in Runs : GoodStep(runs[r], checkpoints[r], runs'[r], checkpoints'[r])

\* A statement that updates one row changes no other run.
LEMMA OneRow ==
    ASSUME StoreTypeOK, NEW r \in Runs, NEW new, runs' = [runs EXCEPT ![r] = new],
           NEW kept, checkpoints' = [checkpoints EXCEPT ![r] = kept],
           GoodStep(runs[r], checkpoints[r], new, kept)
    PROVE  AllGood
<1> SUFFICES ASSUME NEW s \in Runs
             PROVE  GoodStep(runs[s], checkpoints[s], runs'[s], checkpoints'[s])
  BY DEF AllGood
<1>1. CASE s = r
  BY <1>1 DEF StoreTypeOK
<1>2. CASE s # r
  BY <1>2 DEF StoreTypeOK, GoodStep
<1> QED
  BY <1>1, <1>2

\* The same for a statement that writes no checkpoint.
LEMMA OneRowOnly ==
    ASSUME StoreTypeOK, NEW r \in Runs, NEW new, runs' = [runs EXCEPT ![r] = new],
           checkpoints' = checkpoints, GoodStep(runs[r], checkpoints[r], new, checkpoints[r])
    PROVE  AllGood
<1> DEFINE kept == checkpoints[r]
<1>1. checkpoints' = [checkpoints EXCEPT ![r] = kept]
  BY DEF StoreTypeOK
<1>2. GoodStep(runs[r], checkpoints[r], new, kept)
  OBVIOUS
<1> HIDE DEF kept
<1> QED
  BY <1>1, <1>2, OneRow, Zenon

\* The statements of producers, maintenance and the clock, and the claim statement.
LEMMA RowStatements ==
    ASSUME WorkerInv, NEW r \in Runs, NEW t, NEW due,
           \/ ClaimRow(r, t) \/ InsertRun(r, due) \/ CancelRun(r) \/ RecoverLease(r)
           \/ RunBecomesDue(r) \/ LeaseExpires(r) \/ DeadlinePasses(r)
    PROVE  AllGood
<1>0. StoreTypeOK /\ RowShape(r, runs[r]) /\ runs[r] \in Row
  BY DEF WorkerInv, StoreInv, RunInv, StoreTypeOK
<1>1. runs[r].state \notin Terminal
  BY <1>0, RunStoreAssumption
     DEF ClaimRow, InsertRun, CancelRun, RecoverLease, RunBecomesDue, LeaseExpires,
         DeadlinePasses, Terminal, Unfinished, RowShape
<1>2. CASE ClaimRow(r, t)
  <2> DEFINE new == [runs[r] EXCEPT !.state = "leased", !.lease_token = t, !.lease_until = "future"]
  <2>1. runs' = [runs EXCEPT ![r] = new] /\ checkpoints' = checkpoints
    BY <1>2 DEF ClaimRow
  <2>2. Progress(new) = Progress(runs[r])
    BY <1>0 DEF Progress, Row
  <2> QED
    BY <1>0, <1>1, <2>1, <2>2, OneRowOnly, Zenon DEF GoodStep
<1>3. CASE InsertRun(r, due)
  BY <1>0, <1>1, <1>3, OneRowOnly, Zenon DEF GoodStep, InsertRun
<1>4. CASE CancelRun(r)
  <2> DEFINE new == [Released(runs[r], "cancelled") EXCEPT
                         !.waiting_event_key = Null, !.waiting_deadline = Null]
  <2>1. runs' = [runs EXCEPT ![r] = new] /\ checkpoints' = checkpoints
    BY <1>4 DEF CancelRun
  <2>2. Progress(new) = Progress(runs[r])
    BY <1>0 DEF Progress, Row, Released
  <2> QED
    BY <1>0, <1>1, <2>1, <2>2, OneRowOnly, Zenon DEF GoodStep
<1>5. CASE RecoverLease(r)
  <2> DEFINE n == runs[r].lease_failures + 1
             new == [Released(runs[r], IF n >= MaxAttempts[r] THEN "failed" ELSE "ready") EXCEPT
                         !.lease_failures = n, !.next_run_at = "future"]
  <2>1. runs' = [runs EXCEPT ![r] = new] /\ checkpoints' = checkpoints
    BY <1>5 DEF RecoverLease
  <2>2. Progress(new) = Progress(runs[r])
    BY <1>0 DEF Progress, Row, Released
  <2> QED
    BY <1>0, <1>1, <2>1, <2>2, OneRowOnly, Zenon DEF GoodStep
<1>6. CASE RunBecomesDue(r)
  <2> DEFINE new == [runs[r] EXCEPT !.next_run_at = "past"]
  <2>1. runs' = [runs EXCEPT ![r] = new] /\ checkpoints' = checkpoints
    BY <1>6 DEF RunBecomesDue
  <2>2. Progress(new) = Progress(runs[r])
    BY <1>0 DEF Progress, Row
  <2> QED
    BY <1>0, <1>1, <2>1, <2>2, OneRowOnly, Zenon DEF GoodStep
<1>7. CASE LeaseExpires(r)
  <2> DEFINE new == [runs[r] EXCEPT !.lease_until = "past"]
  <2>1. runs' = [runs EXCEPT ![r] = new] /\ checkpoints' = checkpoints
    BY <1>7 DEF LeaseExpires
  <2>2. Progress(new) = Progress(runs[r])
    BY <1>0 DEF Progress, Row
  <2> QED
    BY <1>0, <1>1, <2>1, <2>2, OneRowOnly, Zenon DEF GoodStep
<1>8. CASE DeadlinePasses(r)
  <2> DEFINE new == [runs[r] EXCEPT !.waiting_deadline = "past"]
  <2>1. runs' = [runs EXCEPT ![r] = new] /\ checkpoints' = checkpoints
    BY <1>8 DEF DeadlinePasses
  <2>2. Progress(new) = Progress(runs[r])
    BY <1>0 DEF Progress, Row
  <2> QED
    BY <1>0, <1>1, <2>1, <2>2, OneRowOnly, Zenon DEF GoodStep
<1> QED
  BY <1>2, <1>3, <1>4, <1>5, <1>6, <1>7, <1>8

\* A wait that ends leaves its cursor where it is and keeps a stored outcome.
LEMMA ResumeIsGood ==
    ASSUME WorkerInv, NEW r \in Runs, NEW v,
           runs[r].state = "waiting_event"
    PROVE  GoodStep(runs[r], checkpoints[r], Resumed(runs[r]), WithOutcome(r, v))
<1>1. runs[r] \in Row /\ checkpoints[r] \in [Positions -> Stored]
  BY DEF WorkerInv, StoreInv, StoreTypeOK
<1>2. Progress(Resumed(runs[r])) = Progress(runs[r]) /\ Resumed(runs[r]).state = "ready"
  BY <1>1 DEF Progress, Row, Resumed
<1>3. \A i \in Positions : checkpoints[r][i] # Null => WithOutcome(r, v)[i] = checkpoints[r][i]
  BY <1>1 DEF WithOutcome, StoredBy
<1> QED
  BY <1>2, <1>3 DEF GoodStep, Terminal

\* A timeout and an event.
LEMMA WakingStatements ==
    ASSUME WorkerInv,
           \/ \E r \in Runs : PromoteTimedOut(r)
           \/ \E k \in Keys, p \in Payloads : EmitEvent(k, p)
    PROVE  AllGood
<1>1. ASSUME NEW r \in Runs, PromoteTimedOut(r) PROVE AllGood
  <2> DEFINE new == Resumed(runs[r])
             kept == WithOutcome(r, TimedOut)
  <2>1. GoodStep(runs[r], checkpoints[r], new, kept)
    BY <1>1, ResumeIsGood DEF PromoteTimedOut
  <2>2. runs' = [runs EXCEPT ![r] = new] /\ checkpoints' = [checkpoints EXCEPT ![r] = kept]
    BY <1>1 DEF PromoteTimedOut
  <2> HIDE DEF new, kept
  <2>3. StoreTypeOK
    BY DEF WorkerInv, StoreInv
  <2> QED
    BY <2>1, <2>2, <2>3, OneRow, Zenon
<1>2. ASSUME NEW k \in Keys, NEW p \in Payloads, EmitEvent(k, p) PROVE AllGood
  <2>1. PICK late \in SUBSET {r \in WaitingOn(k) : runs[r].waiting_deadline = "past"} :
          LET woken == {r \in WaitingOn(k) : runs[r].waiting_deadline = "future"} \cup late
          IN  /\ runs' = [r \in Runs |-> IF r \in woken THEN Resumed(runs[r]) ELSE runs[r]]
              /\ checkpoints' = [r \in Runs |-> IF r \in woken
                                                THEN WithOutcome(r, Received(p))
                                                ELSE checkpoints[r]]
    BY <1>2 DEF EmitEvent
  <2> DEFINE woken == {r \in WaitingOn(k) : runs[r].waiting_deadline = "future"} \cup late
  <2>2. \A r \in woken : r \in Runs /\ runs[r].state = "waiting_event"
    BY Zenon DEF WaitingOn
  <2>3. ASSUME NEW r \in Runs
        PROVE  GoodStep(runs[r], checkpoints[r], runs'[r], checkpoints'[r])
    <3>1. CASE r \in woken
      <4>1. runs'[r] = Resumed(runs[r]) /\ checkpoints'[r] = WithOutcome(r, Received(p))
        BY <2>1, <3>1
      <4> QED
        BY <2>2, <3>1, <4>1, ResumeIsGood
    <3>2. CASE r \notin woken
      BY <2>1, <3>2 DEF GoodStep
    <3> QED
      BY <3>1, <3>2
  <2> QED
    BY <2>3 DEF AllGood
<1> QED
  BY <1>1, <1>2

\* A statement that passes the fence, moves the cursor forward, charges at most one
\* attempt and writes no checkpoint.
LEMMA FencedStep ==
    ASSUME WorkerInv, NEW t \in Tokens, Active(t), Fence(RunOf(t), t),
           NEW new, runs' = [runs EXCEPT ![RunOf(t)] = new], checkpoints' = checkpoints,
           new.step_index >= runs[RunOf(t)].step_index,
           new.attempt \in {runs[RunOf(t)].attempt, runs[RunOf(t)].attempt + 1}
    PROVE  AllGood
<1>1. StoreTypeOK /\ RunOf(t) \in Runs
  BY Fenced DEF WorkerInv, StoreInv
<1>2. GoodStep(runs[RunOf(t)], checkpoints[RunOf(t)], new, checkpoints[RunOf(t)])
  BY DEF GoodStep, Fence, Terminal
<1> QED
  BY <1>1, <1>2, OneRowOnly, Zenon

\* commitStep, from runStep or from waitForEvent.
LEMMA CommitIsGood ==
    ASSUME WorkerInv, NEW t \in Tokens, NEW ack \in BOOLEAN,
           CommitResult(t, ack) \/ DeliverEvent(t, ack)
    PROVE  AllGood
<1> DEFINE r == RunOf(t)
           i == IndexOf(t)
           v == claims[t].result
           kept == [checkpoints[r] EXCEPT ![i] = StoredBy(r, i, v)]
           last == [Released(runs[r], "completed") EXCEPT
                        !.step_index = i + 1, !.lease_failures = 0, !.output_json = StoredBy(r, i, v)]
           next == [runs[r] EXCEPT !.step_index = i + 1, !.lease_failures = 0, !.output_json = Null]
           new == IF IsLast(t) THEN last ELSE next
<1>1. /\ Active(t) /\ CommitStep(r, t, i, v, IsLast(t))
  BY DEF CommitResult, DeliverEvent, Active
<1>2. Fence(r, t) /\ runs[r].step_index <= i
  BY <1>1 DEF CommitStep, Owned
<1>3. /\ r \in Runs /\ i \in 0 .. OpCount(r) /\ runs[r] \in Row
      /\ checkpoints[r] \in [Positions -> Stored]
  BY <1>1, <1>2, Fenced DEF GoodRun
<1>4. runs' = [runs EXCEPT ![r] = new] /\ checkpoints' = [checkpoints EXCEPT ![r] = kept]
  BY <1>1 DEF CommitStep
<1>5. \A j \in Positions : checkpoints[r][j] # Null => kept[j] = checkpoints[r][j]
  BY <1>3 DEF StoredBy
<1>6. last.step_index = i + 1 /\ last.attempt = runs[r].attempt
  BY <1>3 DEF Row, Released
<1>7. next.step_index = i + 1 /\ next.attempt = runs[r].attempt
  BY <1>3 DEF Row
<1>8. runs[r].step_index \in Nat /\ i \in Nat
  BY <1>3, WorkflowAssumption, CountIsNat DEF Row
<1> HIDE DEF last, next, kept
<1>9. new.step_index > runs[r].step_index /\ new.attempt = runs[r].attempt
  BY <1>2, <1>6, <1>7, <1>8
<1> HIDE DEF new
<1>10. StoreTypeOK
  BY DEF WorkerInv, StoreInv
<1>11. new # runs[r] /\ new.step_index >= runs[r].step_index
  <2>1. new.step_index \in Nat
    BY <1>6, <1>7, <1>8 DEF new
  <2> QED
    BY <1>8, <1>9, <2>1
<1>12. GoodStep(runs[r], checkpoints[r], new, kept)
  BY <1>2, <1>5, <1>9, <1>11 DEF GoodStep, Fence, Terminal
<1> QED
  BY <1>3, <1>4, <1>10, <1>12, OneRow, Zenon

\* The statements with which a claim gives up its lease.
LEMMA LeavingIsGood ==
    ASSUME WorkerInv, NEW t \in Tokens, NEW ack \in BOOLEAN,
           \/ ParkForSleep(t, ack) \/ ParkForEvent(t, ack) \/ FinishRun(t, ack)
           \/ RecordFailure(t)
    PROVE  AllGood
<1> DEFINE r == RunOf(t)
           i == IndexOf(t)
<1>a. Active(t)
  BY DEF ParkForSleep, ParkForEvent, FinishRun, RecordFailure, Active, AtOp, AtEnd
<1>b. Fence(r, t)
  BY DEF ParkForSleep, ParkForEvent, FinishRun, RecordFailure,
         ParkSleep, ParkWait, CompleteRun, FailOrRetry
<1>1. Active(t) /\ Fence(r, t)
  BY <1>a, <1>b
<1>2. /\ r \in Runs /\ i \in 0 .. OpCount(r) /\ runs[r] \in Row
      /\ RowShape(r, runs[r])
      /\ claims[t].attempt = runs[r].attempt
      /\ claims[t].pc # "fail" => AtCursor(runs[r], checkpoints[r], i)
  BY <1>1, Fenced, Zenon DEF GoodRun, RunInv
<1>3. /\ runs[r].step_index \in Nat /\ i \in Nat /\ OpCount(r) \in Nat
      /\ runs[r].step_index <= OpCount(r)
      /\ claims[t].pc # "fail" => runs[r].step_index <= i
  <2>1. runs[r].step_index \in Nat /\ OpCount(r) \in Nat
    BY <1>2, RowFacts, CountIsNat
  <2>2. i \in Nat
    BY <1>2, <2>1
  <2>3. runs[r].step_index <= OpCount(r)
    BY <1>2 DEF RowShape
  <2>4. claims[t].pc # "fail" => i = runs[r].step_index \/ i = runs[r].step_index + 1
    BY <1>2 DEF AtCursor
  <2> QED
    BY <2>1, <2>2, <2>3, <2>4
<1>4. checkpoints' = checkpoints
  BY DEF ParkForSleep, ParkForEvent, FinishRun, RecordFailure,
         ParkSleep, ParkWait, CompleteRun, FailOrRetry
<1>5. CASE ParkForSleep(t, ack)
  <2> DEFINE new == [Released(runs[r], "ready") EXCEPT
                         !.step_index = i + 1, !.next_run_at = "future", !.lease_failures = 0]
  <2>1. runs' = [runs EXCEPT ![r] = new]
    BY <1>5 DEF ParkForSleep, ParkSleep
  <2>2. new.step_index = i + 1 /\ new.attempt = runs[r].attempt
    BY <1>2 DEF Row, Released
  <2>3. new.step_index >= runs[r].step_index
    BY <1>3, <1>5, <2>2 DEF ParkForSleep, AtOp
  <2> HIDE DEF new
  <2> QED
    BY <1>1, <1>4, <2>1, <2>2, <2>3, FencedStep, Zenon
<1>6. CASE ParkForEvent(t, ack)
  <2> DEFINE new == [Released(runs[r], "waiting_event") EXCEPT
                         !.step_index = i, !.waiting_event_key = KeyOf(t),
                         !.waiting_deadline = "future", !.lease_failures = 0]
  <2>1. runs' = [runs EXCEPT ![r] = new]
    BY <1>6 DEF ParkForEvent, ParkWait
  <2>2. new.step_index = i /\ new.attempt = runs[r].attempt
    BY <1>2 DEF Row, Released
  <2>3. new.step_index >= runs[r].step_index
    BY <1>3, <1>6, <2>2 DEF ParkForEvent
  <2> HIDE DEF new
  <2> QED
    BY <1>1, <1>4, <2>1, <2>2, <2>3, FencedStep, Zenon
<1>7. CASE FinishRun(t, ack)
  <2> DEFINE new == [Released(runs[r], "completed") EXCEPT
                         !.step_index = OpCount(r), !.output_json = Output(r, claims[t].values)]
  <2>1. runs' = [runs EXCEPT ![r] = new]
    BY <1>7 DEF FinishRun, CompleteRun
  <2>2. new.step_index = OpCount(r) /\ new.attempt = runs[r].attempt
    BY <1>2 DEF Row, Released
  <2>3. new.step_index >= runs[r].step_index
    BY <1>3, <2>2
  <2> HIDE DEF new
  <2> QED
    BY <1>1, <1>4, <2>1, <2>2, <2>3, FencedStep, Zenon
<1>8. CASE RecordFailure(t)
  <2> DEFINE n == claims[t].attempt + 1
             new == [Released(runs[r], IF n >= MaxAttempts[r] THEN "failed" ELSE "ready") EXCEPT
                         !.attempt = n, !.next_run_at = "future"]
  <2>1. runs' = [runs EXCEPT ![r] = new]
    BY <1>8 DEF RecordFailure, FailOrRetry
  <2>2. new.step_index = runs[r].step_index /\ new.attempt = runs[r].attempt + 1
    BY <1>2 DEF Row, Released
  <2>3. new.step_index >= runs[r].step_index
    BY <1>3, <2>2
  <2> HIDE DEF new
  <2> QED
    BY <1>1, <1>4, <2>1, <2>2, <2>3, FencedStep, Zenon
<1> QED
  BY <1>5, <1>6, <1>7, <1>8

\* Every step of these changes every run as GoodStep allows.
LEMMA OtherIsGood ==
    ASSUME WorkerInv, OtherStep
    PROVE  AllGood
<1>1. ASSUME UNCHANGED <<runs, checkpoints>> PROVE AllGood
  BY <1>1 DEF AllGood, GoodStep
<1>3. ASSUME NEW t \in Tokens, ClaimStep(t) PROVE AllGood
  <2>1. CASE \/ ReplayValue(t) \/ LockEventKey(t) \/ LookupEvent(t) \/ LostLease(t)
             \/ DriveFails(t) \/ Abandon(t) \/ \E d \in Results : RunStep(t, d)
    <3>1. UNCHANGED <<runs, checkpoints>>
      BY <2>1, Zenon DEF ReplayValue, LockEventKey, LookupEvent, LostLease, DriveFails, Abandon,
                  RunStep, store
    <3> QED
      BY <1>1, <3>1
  <2>2. ASSUME NEW ack \in BOOLEAN, CommitResult(t, ack) \/ DeliverEvent(t, ack)
        PROVE  AllGood
    BY <2>2, CommitIsGood
  <2>3. ASSUME NEW ack \in BOOLEAN,
               ParkForSleep(t, ack) \/ ParkForEvent(t, ack) \/ FinishRun(t, ack)
        PROVE  AllGood
    BY <2>3, LeavingIsGood
  <2>4. CASE RecordFailure(t)
    BY <2>4, LeavingIsGood, Zenon
  <2> QED
    BY <1>3, <2>1, <2>2, <2>3, <2>4 DEF ClaimStep, Proceed
<1>4. CASE Producer
  <2>1. ASSUME NEW r \in Runs, NEW due \in Time, Cancel(r) \/ Enqueue(r, due) PROVE AllGood
    BY <2>1, RowStatements DEF Cancel, Enqueue
  <2>2. ASSUME NEW k \in Keys, NEW early, Emit(k, early) PROVE AllGood
    BY <2>2, WakingStatements DEF Emit
  <2>3. ASSUME NEW k \in Keys, EmitRollsBack(k) \/ \E p \in Payloads : LockForEmit(k, p)
        PROVE  AllGood
    BY <1>1, <2>3 DEF EmitRollsBack, LockForEmit, store
  <2>4. "past" \in Time
    BY DEF Time
  <2> QED
    BY <1>4, <2>1, <2>2, <2>3, <2>4 DEF Producer
<1>5. CASE Maintenance
  <2>1. ASSUME NEW r \in Runs, Recover(r) PROVE AllGood
    BY <2>1, RowStatements DEF Recover
  <2>2. ASSUME NEW r \in Runs, Promote(r) PROVE AllGood
    BY <2>2, WakingStatements DEF Promote
  <2>3. ASSUME NEW e \in event_log, Prune(e) PROVE AllGood
    BY <1>1, <2>3 DEF Prune, PruneEvent
  <2> QED
    BY <1>5, <2>1, <2>2, <2>3 DEF Maintenance
<1>6. CASE ClockTick
  <2>1. ASSUME NEW r \in Runs, RunBecomesDue(r) \/ LeaseExpires(r) \/ DeadlinePasses(r)
        PROVE  AllGood
    BY <2>1, RowStatements
  <2>2. ASSUME NEW e \in event_log, EventExpires(e) PROVE AllGood
    BY <1>1, <2>2 DEF EventExpires
  <2> QED
    BY <1>6, <2>1, <2>2 DEF ClockTick
<1> QED
  BY <1>3, <1>4, <1>5, <1>6 DEF OtherStep

-----------------------------------------------------------------------------
(* Claim statements in progress.  What one returns may lack the outcome of *)
(* a wait and what was saved before it, nothing else.                      *)

SnapInv ==
    /\ snap \in [Claimers -> Snapshot \cup {Null}]
    /\ \A c \in Claimers : SnapshotInv(c)

FullInv == WorkerInv /\ SnapInv

(***************************************************************************)
(* What a claim statement gives to the worker: when the row's latest       *)
(* version is on a wait, all that may be missing is at or before it.       *)
(***************************************************************************)
LEMMA SnapshotIsKnown ==
    ASSUME FullInv, NEW c \in Claimers, snap[c] # Null, snap[c].due
    PROVE  LET r == snap[c].run IN
           /\ r \in Runs /\ snap[c].saved \in [Positions -> Stored]
           /\ Knows(r, runs[r].step_index, snap[c].saved, checkpoints[r])
<1> DEFINE r == snap[c].run
           seen == snap[c].saved
           n == runs[r].step_index
<1>1. r \in Runs /\ seen \in [Positions -> Stored]
  BY DEF FullInv, SnapInv, Snapshot
<1>2. /\ \A i \in Positions : seen[i] # Null => seen[i] = checkpoints[r][i]
      /\ seen = checkpoints[r] \/ OnWait(r, runs[r])
  BY Zenon DEF FullInv, SnapInv, SnapshotInv
<1>3. runs[r] \in Row /\ CursorMatches(r, runs[r], checkpoints[r])
  BY <1>1, Zenon DEF FullInv, WorkerInv, StoreInv, StoreTypeOK, RunInv
<1> HIDE DEF r, seen
<1>4. CASE seen = checkpoints[r]
  BY <1>1, <1>4, Zenon DEF r, seen, Knows
<1>5. CASE OnWait(r, runs[r])
  <2>1. /\ n \in Nat /\ n < OpCount(r) /\ OpCount(r) \in Nat
        /\ OpAt(r, n).kind = "wait_event"
    BY <1>1, <1>3, <1>5, CountIsNat, RowFacts DEF OnWait
  <2>2. \A i \in Positions : checkpoints[r][i] # Null => i <= n
    BY <1>3, Zenon DEF CursorMatches
  <2> HIDE DEF n
  <2>3. ASSUME NEW i \in Positions, i <= n PROVE BeforeWait(r, i, n)
    <3>1. i \in Nat
      BY WorkflowAssumption DEF Positions
    <3>2. n \in 0 .. OpCount(r) - 1
      BY <2>1
    <3>3. (i < n /\ n <= n) \/ (i = n /\ n = n)
      BY <2>1, <2>3, <3>1
    <3> QED
      BY <2>1, <3>2, <3>3, Zenon DEF BeforeWait
  <2>4. Knows(r, n, seen, checkpoints[r])
    BY <1>2, <2>2, <2>3, Zenon DEF Knows
  <2> QED
    BY <1>1, <2>4, Zenon DEF r, seen, n
<1> QED
  BY <1>2, <1>4, <1>5

(***************************************************************************)
(* A snapshot through a step of others: a row that changed is due only     *)
(* when an emitEvent that began earlier ended its wait.                    *)
(***************************************************************************)
LEMMA RecheckedInv ==
    ASSUME SnapInv, AllGood, NEW c \in Claimers, NEW early \in BOOLEAN,
           early => \A r \in Runs : runs'[r] # runs[r] => OnWait(r, runs'[r]),
           snap'[c] = Rechecked(c, early)
    PROVE  snap'[c] \in Snapshot \cup {Null} /\ SnapshotInv(c)'
<1>1. CASE snap[c] = Null
  BY <1>1 DEF Rechecked, SnapshotInv
<1>2. CASE snap[c] # Null
  <2> DEFINE r == snap[c].run
  <2>1. /\ snap[c] \in Snapshot /\ r \in Runs
        /\ \A i \in Positions : snap[c].saved[i] # Null => snap[c].saved[i] = checkpoints[r][i]
        /\ snap[c].due => snap[c].saved = checkpoints[r] \/ OnWait(r, runs[r])
    <3>1. snap[c] \in Snapshot /\ SnapshotInv(c)
      BY <1>2, Zenon DEF SnapInv
    <3> QED
      BY <1>2, <3>1 DEF SnapshotInv, Snapshot
  <2>2. /\ \A i \in Positions :
               checkpoints[r][i] # Null => checkpoints'[r][i] = checkpoints[r][i]
        /\ runs'[r] = runs[r] => checkpoints'[r] = checkpoints[r]
    BY <2>1, Zenon DEF AllGood, GoodStep
  <2>3. \A i \in Positions : snap[c].saved[i] # Null => snap[c].saved[i] = checkpoints'[r][i]
    BY <2>1, <2>2, Zenon
  <2>4. CASE runs'[r] = runs[r]
    <3>1. snap'[c] = snap[c]
      BY <2>4 DEF Rechecked
    <3> QED
      BY <2>1, <2>2, <2>4, <3>1, Zenon DEF SnapshotInv
  <2>5. CASE runs'[r] # runs[r] /\ runs'[r].state \in Terminal
    <3>1. snap'[c] = Null
      BY <1>2, <2>5 DEF Rechecked
    <3> QED
      BY <3>1 DEF SnapshotInv
  <2>6. CASE runs'[r] # runs[r] /\ runs'[r].state \notin Terminal
    <3> DEFINE due == early /\ runs'[r].state = "ready"
    <3>1. snap'[c] = [snap[c] EXCEPT !.due = due]
      BY <1>2, <2>6 DEF Rechecked
    <3>2. due \in BOOLEAN /\ (due => OnWait(r, runs'[r]))
      BY <2>1, <2>6
    <3> HIDE DEF due
    <3>3. /\ snap'[c] \in Snapshot
          /\ snap'[c].run = r /\ snap'[c].saved = snap[c].saved /\ snap'[c].due = due
      BY <2>1, <3>1, <3>2 DEF Snapshot
    <3> QED
      BY <2>1, <2>3, <3>2, <3>3, Zenon DEF SnapshotInv
  <2> QED
    BY <2>4, <2>5, <2>6
<1> QED
  BY <1>1, <1>2

\* A statement in progress for which neither its row nor the snapshot changes.
LEMMA SnapshotStays ==
    ASSUME SnapInv, UNCHANGED <<runs, checkpoints>>, NEW c \in Claimers, snap'[c] = snap[c]
    PROVE  snap'[c] \in Snapshot \cup {Null} /\ SnapshotInv(c)'
<1>1. runs' = runs /\ checkpoints' = checkpoints
  OBVIOUS
<1> QED
  BY <1>1, Zenon DEF SnapInv, SnapshotInv, OnWait

(***************************************************************************)
(* The claim statement leases the latest version of its row.               *)
(***************************************************************************)
LEMMA ClaimReadyRunInv ==
    ASSUME FullInv, NEW c \in Claimers, NEW t \in Tokens, NEW ack \in BOOLEAN,
           ClaimReadyRun(c, t, ack)
    PROVE  FullInv' /\ AllGood
<1> DEFINE r == snap[c].run
           values == snap[c].saved
<1>1. snap[c] # Null /\ snap[c].due
  BY Zenon DEF ClaimReadyRun
<1>2. /\ WorkerInv /\ r \in Runs /\ values \in [Positions -> Stored]
      /\ Knows(r, runs[r].step_index, values, checkpoints[r])
  BY <1>1, SnapshotIsKnown DEF FullInv
<1>3. /\ Fresh(t) /\ ClaimRow(r, t) /\ key_lock' = key_lock
      /\ claims' = IF ack
                   THEN [claims EXCEPT ![t] =
                             [pc |-> "drive", run |-> r, index |-> runs[r].step_index,
                              values |-> values, attempt |-> runs[r].attempt,
                              result |-> Null]]
                   ELSE claims
  BY Zenon DEF ClaimReadyRun
<1>4. snap' = [d \in Claimers |-> IF d = c THEN Null ELSE Rechecked(d, FALSE)]
  BY Zenon DEF ClaimReadyRun
<1> HIDE DEF r, values
<1>5. WorkerInv'
  BY <1>2, <1>3, ClaimingStep, Zenon
<1>6. AllGood
  BY <1>2, <1>3, RowStatements
<1>7. ASSUME NEW d \in Claimers PROVE snap'[d] \in Snapshot \cup {Null} /\ SnapshotInv(d)'
  <2>1. CASE d = c
    <3>1. snap'[d] = Null
      BY <1>4, <2>1
    <3> QED
      BY <3>1 DEF SnapshotInv
  <2>2. CASE d # c
    <3>1. snap'[d] = Rechecked(d, FALSE)
      BY <1>4, <2>2
    <3> QED
      BY <1>6, <3>1, RecheckedInv, Zenon DEF FullInv
  <2> QED
    BY <2>1, <2>2
<1>8. snap' \in [Claimers -> Snapshot \cup {Null}]
  BY <1>4, <1>7
<1> QED
  BY <1>5, <1>6, <1>7, <1>8 DEF FullInv, SnapInv

\* A row that emitEvent changes is on the wait that it ends.
LEMMA EmitEndsWaits ==
    ASSUME WorkerInv, NEW k \in Keys, NEW early, Emit(k, early),
           NEW r \in Runs, runs'[r] # runs[r]
    PROVE  OnWait(r, runs'[r])
<1>1. EmitEvent(k, key_lock[k])
  BY DEF Emit
<1>2. /\ runs'[r] = Resumed(runs[r]) /\ runs[r].state = "waiting_event"
  BY <1>1, Zenon DEF EmitEvent, WaitingOn
<1>3. runs[r] \in Row /\ RowShape(r, runs[r])
  BY DEF WorkerInv, StoreInv, RunInv, StoreTypeOK
<1>4. Resumed(runs[r]).step_index = runs[r].step_index
  BY <1>3 DEF Resumed, Row
<1> QED
  BY <1>2, <1>3, <1>4, Zenon DEF OnWait, RowShape

\* What the steps of others do to claim statements in progress.
LEMMA SnapshotMoves ==
    ASSUME OtherStep
    PROVE  \/ UNCHANGED <<runs, checkpoints, snap>>
           \/ Recheck({})
           \/ \E k \in Keys, early \in SUBSET Claimers : Emit(k, early)
<1>1. ASSUME NEW t \in Tokens, ClaimStep(t)
      PROVE  UNCHANGED <<runs, checkpoints, snap>> \/ Recheck({})
  BY <1>1 DEF ClaimStep, Proceed, ReplayValue, RunStep, CommitResult, ParkForSleep,
      DeliverEvent, ParkForEvent, FinishRun, LockEventKey, LookupEvent, RecordFailure,
      LostLease, DriveFails, Abandon, store
<1>2. CASE Producer
  BY <1>2 DEF Producer, Cancel, Enqueue, LockForEmit, EmitRollsBack, store
<1>3. CASE Maintenance
  BY <1>3 DEF Maintenance, Recover, Promote, Prune, PruneEvent
<1>4. CASE ClockTick
  BY <1>4 DEF ClockTick
<1> QED
  BY <1>1, <1>2, <1>3, <1>4 DEF OtherStep

(***************************************************************************)
(* The invariant is kept, and every step changes every run as GoodStep     *)
(* allows.                                                                 *)
(***************************************************************************)
LEMMA NextInv ==
    ASSUME FullInv, Next
    PROVE  FullInv' /\ AllGood
<1>0. WorkerInv /\ SnapInv
  BY DEF FullInv
<1>1. ASSUME UNCHANGED work PROVE WorkerInv' /\ AllGood /\ UNCHANGED <<runs, checkpoints>>
  <2>1. WorkerInv'
    BY <1>0, <1>1, OtherStepInv
  <2> QED
    BY <1>1, <2>1 DEF work, store, AllGood, GoodStep
<1>2. ASSUME NEW c \in Claimers, NEW seen \in Snapshot \cup {Null}, UNCHANGED work,
             snap' = [snap EXCEPT ![c] = seen],
             seen # Null => seen.saved = checkpoints[seen.run]
      PROVE  FullInv' /\ AllGood
  <2>1. WorkerInv' /\ AllGood /\ UNCHANGED <<runs, checkpoints>>
    BY <1>1, <1>2
  <2>2. snap' \in [Claimers -> Snapshot \cup {Null}]
    BY <1>0, <1>2 DEF SnapInv
  <2>3. ASSUME NEW d \in Claimers PROVE SnapshotInv(d)'
    <3>1. CASE d = c
      <4>1. snap'[d] = seen /\ checkpoints' = checkpoints
        BY <1>0, <1>2, <2>1, <3>1 DEF SnapInv
      <4> QED
        BY <1>2, <4>1, Zenon DEF SnapshotInv
    <3>2. CASE d # c
      <4>1. snap'[d] = snap[d]
        BY <1>0, <1>2, <3>2 DEF SnapInv
      <4> QED
        BY <1>0, <2>1, <4>1, SnapshotStays
    <3> QED
      BY <3>1, <3>2
  <2> QED
    BY <2>1, <2>2, <2>3 DEF FullInv, SnapInv
<1>3. ASSUME NEW c \in Claimers, NEW r \in Runs, TakeSnapshot(c, r) PROVE FullInv' /\ AllGood
  <2> DEFINE seen == [run |-> r, saved |-> checkpoints[r], due |-> TRUE]
  <2>1. UNCHANGED work /\ snap' = [snap EXCEPT ![c] = seen]
    BY <1>3 DEF TakeSnapshot
  <2>2. seen \in Snapshot /\ seen.saved = checkpoints[seen.run]
    BY <1>0 DEF WorkerInv, StoreInv, StoreTypeOK, Snapshot
  <2> HIDE DEF seen
  <2> QED
    BY <1>2, <2>1, <2>2
<1>4. ASSUME NEW c \in Claimers, SkipRow(c) PROVE FullInv' /\ AllGood
  BY <1>2, <1>4 DEF SkipRow
<1>5. ASSUME OtherStep PROVE FullInv' /\ AllGood
  <2>1. WorkerInv' /\ AllGood
    BY <1>0, <1>5, OtherStepInv, OtherIsGood
  <2>2. CASE UNCHANGED <<runs, checkpoints, snap>>
    BY <1>0, <2>1, <2>2, SnapshotStays DEF FullInv, SnapInv
  <2>3. ASSUME NEW early, Recheck(early),
               \/ early = {}
               \/ \A r \in Runs : runs'[r] # runs[r] => OnWait(r, runs'[r])
        PROVE  SnapInv'
    <3>1. snap' = [c \in Claimers |-> Rechecked(c, c \in early)]
      BY <2>3 DEF Recheck
    <3>2. ASSUME NEW c \in Claimers
          PROVE  snap'[c] \in Snapshot \cup {Null} /\ SnapshotInv(c)'
      <4> DEFINE e == c \in early
      <4>1. e \in BOOLEAN /\ snap'[c] = Rechecked(c, e)
        BY <3>1
      <4>2. e => \A r \in Runs : runs'[r] # runs[r] => OnWait(r, runs'[r])
        BY <2>3
      <4> HIDE DEF e
      <4> QED
        BY <1>0, <2>1, <4>1, <4>2, RecheckedInv, Zenon
    <3>3. snap' \in [Claimers -> Snapshot \cup {Null}]
      BY <3>1, <3>2
    <3> QED
      BY <3>2, <3>3 DEF SnapInv
  <2>4. ASSUME NEW k \in Keys, NEW early \in SUBSET Claimers, Emit(k, early) PROVE SnapInv'
    BY <1>0, <2>3, <2>4, EmitEndsWaits DEF Emit
  <2>5. CASE Recheck({})
    BY <2>1, <2>3, <2>5 DEF FullInv
  <2> QED
    BY <1>5, <2>1, <2>2, <2>4, <2>5, SnapshotMoves DEF FullInv
<1>6. ASSUME NEW c \in Claimers, ClaimStatement(c) PROVE FullInv' /\ AllGood
  BY <1>3, <1>4, <1>6, ClaimReadyRunInv DEF ClaimStatement
<1> QED
  BY <1>5, <1>6 DEF Next, OtherStep

(***************************************************************************)
(* FullInv is IndInv in another order.                                     *)
(***************************************************************************)
LEMMA Regroup == FullInv <=> IndInv
<1>1. ASSUME FullInv PROVE IndInv
  <2>1. /\ TypeOK /\ TokensAreUnique /\ NoMissedEvent
        /\ \A c \in Claimers : SnapshotInv(c)
    BY <1>1 DEF FullInv, SnapInv, WorkerInv, StoreInv, TypeOK
  <2>2. /\ \A r \in Runs : RowShape(r, runs[r])
        /\ CursorMatchesCheckpoints
        /\ CompletedRunHasItsOutput
        /\ FailureBudgets
    BY <1>1 DEF FullInv, WorkerInv, StoreInv, RunInv, CursorMatchesCheckpoints,
        CompletedRunHasItsOutput, FailureBudgets
  <2>3. (\A t \in Tokens : ClaimShape(t)) /\ NothingToDeliver
    BY <1>1 DEF FullInv, WorkerInv, ClaimInv, NothingToDeliver
  <2>4. OwnerReplaysStoredValues
    <3> SUFFICES ASSUME NEW t \in Tokens, NEW r \in Runs, Active(t), Holds(t, r)
                 PROVE  /\ RunOf(t) = r
                        /\ claims[t].attempt = runs[r].attempt
                        /\ claims[t].pc # "fail" =>
                              /\ Knows(r, IndexOf(t), claims[t].values, checkpoints[r])
                              /\ runs[r].step_index <= IndexOf(t)
      BY DEF OwnerReplaysStoredValues
    <3>1. ClaimInv(t) /\ runs[r] \in Row
      BY <1>1 DEF FullInv, WorkerInv, StoreInv, StoreTypeOK
    <3>2. /\ RunOf(t) = r /\ claims[t].attempt = runs[r].attempt
          /\ claims[t].pc # "fail" =>
                /\ Knows(r, IndexOf(t), claims[t].values, checkpoints[r])
                /\ AtCursor(runs[r], checkpoints[r], IndexOf(t))
      BY <3>1 DEF ClaimInv
    <3>3. runs[r].step_index \in Nat
      BY <3>1, RowFacts
    <3> QED
      BY <3>2, <3>3 DEF AtCursor
  <2>5. OwnerIsAtCursor
    BY <1>1 DEF FullInv, WorkerInv, ClaimInv, OwnerIsAtCursor, AtCursor
  <2> QED
    BY <2>1, <2>2, <2>3, <2>4, <2>5 DEF IndInv, ShapeInv
<1>2. ASSUME IndInv PROVE FullInv
  <2>1. StoreInv
    BY <1>2 DEF IndInv, ShapeInv, StoreInv, RunInv, TypeOK, CursorMatchesCheckpoints,
        CompletedRunHasItsOutput, FailureBudgets
  <2>2. \A t \in Tokens : ClaimInv(t)
    BY <1>2 DEF IndInv, ShapeInv, ClaimInv, NothingToDeliver, OwnerReplaysStoredValues,
        OwnerIsAtCursor, AtCursor
  <2> QED
    BY <1>2, <2>1, <2>2 DEF FullInv, SnapInv, WorkerInv, IndInv, ShapeInv, TypeOK
<1> QED
  BY <1>1, <1>2

(***************************************************************************)
(* The inductive invariant holds in every state of every behaviour, for    *)
(* any runs, definitions, tokens, keys and limits and any number of claim  *)
(* statements in progress (worker.go, queries.go).                         *)
(***************************************************************************)
THEOREM Invariance == Spec => []IndInv
<1>1. Init => IndInv
  <2>1. Init => SnapInv
    BY DEF Init, SnapInv, SnapshotInv
  <2> QED
    BY <2>1, InitInv, Regroup DEF FullInv
<1>2. ASSUME FullInv, UNCHANGED vars PROVE FullInv'
  <2>1. UNCHANGED work /\ snap' = snap /\ UNCHANGED <<runs, checkpoints>>
    BY <1>2 DEF vars, work, store
  <2>2. WorkerInv'
    BY <1>2, <2>1, OtherStepInv DEF FullInv
  <2>3. SnapInv'
    BY <1>2, <2>1, SnapshotStays DEF FullInv, SnapInv
  <2> QED
    BY <2>2, <2>3 DEF FullInv
<1>3. IndInv /\ [Next]_vars => IndInv'
  <2>1. FullInv' <=> IndInv'
    BY Regroup, PTL
  <2> QED
    BY <1>2, <2>1, NextInv, Regroup
<1> QED
  BY <1>1, <1>3, PTL DEF Spec

(***************************************************************************)
(* Every state is well typed.                                              *)
(***************************************************************************)
THEOREM TypeCorrect == Spec => []TypeOK
<1>1. IndInv => TypeOK
  BY DEF IndInv, ShapeInv
<1> QED
  BY <1>1, Invariance, PTL

(***************************************************************************)
(* A claim that still holds its run's lease replays what the tables say,   *)
(* and lacks of it only what the claim statement's snapshot may lack       *)
(* (drive, worker.go): the fence needs no version column.                  *)
(***************************************************************************)
THEOREM LeaseHolderReplaysStoredValues == Spec => []OwnerReplaysStoredValues
<1>1. IndInv => OwnerReplaysStoredValues
  BY DEF IndInv
<1> QED
  BY <1>1, Invariance, PTL

(***************************************************************************)
(* Cursor and checkpoints agree (commitStep, parkSleep, parkWait,          *)
(* emitEvent, promoteTimedOut).                                            *)
(***************************************************************************)
THEOREM ProgressIsRecorded == Spec => []CursorMatchesCheckpoints
<1>1. IndInv => CursorMatchesCheckpoints
  BY DEF IndInv
<1> QED
  BY <1>1, Invariance, PTL

(***************************************************************************)
(* A completed run has gone through all its operations and has the output  *)
(* of its last step or wait (commitStep, completeRun).                     *)
(***************************************************************************)
THEOREM OutputIsRecorded == Spec => []CompletedRunHasItsOutput
<1>1. IndInv => CompletedRunHasItsOutput
  BY DEF IndInv
<1> QED
  BY <1>1, Invariance, PTL

(***************************************************************************)
(* No event is missed between a look at the log and the registration of    *)
(* the wait (waitForEvent, EmitEvent).                                     *)
(***************************************************************************)
THEOREM EventsAreNotMissed == Spec => []NoMissedEvent
<1>1. IndInv => NoMissedEvent
  BY DEF IndInv
<1> QED
  BY <1>1, Invariance, PTL

(***************************************************************************)
(* A run fails exactly when one of its budgets is used up (failOrRetry,    *)
(* recoverLeases).                                                         *)
(***************************************************************************)
THEOREM BudgetsAreExact == Spec => []FailureBudgets
<1>1. IndInv => FailureBudgets
  BY DEF IndInv
<1> QED
  BY <1>1, Invariance, PTL

-----------------------------------------------------------------------------

\* What the action properties say of one step.
Kept ==
    \A r \in Runs : \A i \in Positions :
        checkpoints[r][i] # Null => checkpoints'[r][i] = checkpoints[r][i]

Final ==
    \A r \in Runs : runs[r].state \in Terminal =>
        runs'[r] = runs[r] /\ checkpoints'[r] = checkpoints[r]

Allowed(row, new) ==
    Progress(new) # Progress(row) /\ row.state # "absent" =>
        /\ row.state = "leased" /\ row.lease_until = "future"
        /\ new.step_index >= row.step_index
        /\ new.attempt \in {row.attempt, row.attempt + 1}

Forward == \A r \in Runs : Allowed(runs[r], runs'[r])

LEMMA GoodMeans == AllGood => Kept /\ Final /\ Forward
<1>1. AllGood => Kept
  BY DEF AllGood, GoodStep, Kept
<1>2. AllGood => Final
  BY DEF AllGood, GoodStep, Final
<1>3. AllGood => Forward
  BY DEF AllGood, GoodStep, Forward, Allowed, Progress
<1> QED
  BY <1>1, <1>2, <1>3

LEMMA StepMeans == IndInv /\ [Next]_vars => [Kept /\ Final /\ Forward]_vars
  BY NextInv, GoodMeans, Regroup

(***************************************************************************)
(* A checkpoint, once written, is never overwritten, by no claim, event or *)
(* timeout (the ON CONFLICT clauses of commitStep, emitEvent and           *)
(* promoteTimedOut).                                                       *)
(***************************************************************************)
THEOREM CheckpointTheorem == Spec => CheckpointsAreFinal
<1>1. Spec => [][Kept]_vars
  BY StepMeans, Invariance, PTL DEF Spec
<1> QED
  BY <1>1 DEF CheckpointsAreFinal, Kept

(***************************************************************************)
(* A completed, failed or cancelled run never changes again, whoever still *)
(* executes it (fence, cancelRun, recoverLeases, promoteTimedOut).         *)
(***************************************************************************)
THEOREM TerminalTheorem == Spec => TerminalIsFinal
<1>1. Spec => [][Final]_vars
  BY StepMeans, Invariance, PTL DEF Spec
<1> QED
  BY <1>1 DEF TerminalIsFinal, Final

(***************************************************************************)
(* Progress is made only under a live lease, never backwards, and charges  *)
(* an error once (fence, failOrRetry).                                     *)
(***************************************************************************)
THEOREM ProgressTheorem == Spec => ProgressIsFenced
<1>1. Spec => [][Forward]_vars
  BY StepMeans, Invariance, PTL DEF Spec
<1> QED
  BY <1>1 DEF ProgressIsFenced, Forward, Allowed, Progress

-----------------------------------------------------------------------------
(* Refinement: under the mapping of Worker (the state and output columns,  *)
(* and the checkpoints) every step is a step of the state diagram of       *)
(* ARCHITECTURE.md, or none.                                               *)

\* The state and output columns, as Lifecycle sees them.
States == [r \in Runs |-> runs[r].state]

Outputs == [r \in Runs |-> runs[r].output_json]

\* Both modules extend Workflow: the same definitions.
LEMMA SameWorkflow ==
    /\ \A r : Lifecycle!OpCount(r) = OpCount(r)
    /\ \A r, i : Lifecycle!OpAt(r, i) = OpAt(r, i)
    /\ Lifecycle!Positions = Positions
    /\ Lifecycle!Value = Value
    /\ \A r, values : Lifecycle!Output(r, values) = Output(r, values)
<1>1. \A r : Lifecycle!OpCount(r) = OpCount(r)
  BY DEF Lifecycle!OpCount, OpCount
<1>2. \A r, i : Lifecycle!OpAt(r, i) = OpAt(r, i)
  BY DEF Lifecycle!OpAt, OpAt
<1>3. Lifecycle!Positions = Positions
  BY DEF Lifecycle!Positions, Positions
<1>4. Lifecycle!Value = Value
  BY DEF Lifecycle!Value, Value, Lifecycle!StepValue, StepValue, Lifecycle!Received, Received,
         Lifecycle!TimedOut, TimedOut
<1>5. \A r, values : Lifecycle!Output(r, values) = Output(r, values)
  BY DEF Lifecycle!Output, Output, Lifecycle!IsOutputIndex, IsOutputIndex,
         Lifecycle!OpCount, OpCount, Lifecycle!OpAt, OpAt
<1> QED
  BY <1>1, <1>2, <1>3, <1>4, <1>5

\* The statement of one run seen through the mapping.
LEMMA MapRow ==
    ASSUME StoreTypeOK, NEW r \in Runs, NEW new, runs' = [runs EXCEPT ![r] = new]
    PROVE  /\ States' = [States EXCEPT ![r] = new.state]
           /\ Outputs' = [Outputs EXCEPT ![r] = new.output_json]
           /\ new.state = runs[r].state => States' = States
           /\ new.output_json = runs[r].output_json => Outputs' = Outputs
<1>1. /\ runs'[r] = new
      /\ \A s \in Runs : s # r => runs'[s] = runs[s]
  BY DEF StoreTypeOK
<1>2. States' = [States EXCEPT ![r] = new.state]
  <2>1. \A s \in Runs : runs'[s].state = IF s = r THEN new.state ELSE runs[s].state
    BY <1>1
  <2>2. [States EXCEPT ![r] = new.state] =
            [s \in Runs |-> IF s = r THEN new.state ELSE runs[s].state]
    BY Zenon DEF States
  <2>3. States' = [s \in Runs |-> IF s = r THEN new.state ELSE runs[s].state]
    BY <2>1 DEF States
  <2> QED
    BY <2>2, <2>3
<1>3. Outputs' = [Outputs EXCEPT ![r] = new.output_json]
  <2>1. \A s \in Runs : runs'[s].output_json = IF s = r THEN new.output_json ELSE runs[s].output_json
    BY <1>1
  <2>2. [Outputs EXCEPT ![r] = new.output_json] =
            [s \in Runs |-> IF s = r THEN new.output_json ELSE runs[s].output_json]
    BY Zenon DEF Outputs
  <2>3. Outputs' = [s \in Runs |-> IF s = r THEN new.output_json ELSE runs[s].output_json]
    BY <2>1 DEF Outputs
  <2> QED
    BY <2>2, <2>3
<1>4. ASSUME new.state = runs[r].state PROVE States' = States
  <2>1. \A s \in Runs : runs'[s].state = runs[s].state
    BY <1>1, <1>4
  <2> QED
    BY <2>1 DEF States
<1>5. ASSUME new.output_json = runs[r].output_json PROVE Outputs' = Outputs
  <2>1. \A s \in Runs : runs'[s].output_json = runs[s].output_json
    BY <1>1, <1>5
  <2> QED
    BY <2>1 DEF Outputs
<1> QED
  BY <1>2, <1>3, <1>4, <1>5

\* The operation at which the lease holder of a run is, is the next to be saved.
LEMMA CursorIsNext ==
    ASSUME NEW r \in Runs, NEW row, NEW saved, GoodRun(r, row, saved),
           NEW i \in 0 .. OpCount(r) - 1, OpAt(r, i).kind # "sleep",
           AtCursor(row, saved, i), saved[i] = Null,
           NEW j \in 0 .. OpCount(r) - 1, OpAt(r, j).kind # "sleep"
    PROVE  saved[j] = Null <=> j >= i
<1>0. OpCount(r) \in Nat /\ i \in Positions /\ j \in Positions
  BY OpFacts
<1>1. row.step_index \in Nat
  BY WorkflowAssumption DEF GoodRun, Row
<1>2. /\ j < row.step_index => saved[j] # Null
      /\ saved[j] # Null => j <= row.step_index
      /\ i < row.step_index => saved[i] # Null
  BY <1>0 DEF GoodRun, RunInv, CursorMatches
<1>3. CASE i = row.step_index
  BY <1>0, <1>1, <1>2, <1>3
<1>4. CASE i = row.step_index + 1 /\ saved[row.step_index] # Null
  <2>1. CASE j = row.step_index
    BY <1>0, <1>1, <1>4, <2>1
  <2>2. CASE j # row.step_index
    BY <1>0, <1>1, <1>2, <1>4, <2>2
  <2> QED
    BY <2>1, <2>2
<1> QED
  BY <1>3, <1>4 DEF AtCursor

\* A lease holder is at an operation that has a value only if the cursor is there too.
LEMMA StoredIsAtCursor ==
    ASSUME NEW r \in Runs, GoodRun(r, runs[r], checkpoints[r]),
           NEW i \in 0 .. OpCount(r) - 1, AtCursor(runs[r], checkpoints[r], i),
           checkpoints[r][i] # Null
    PROVE  i = runs[r].step_index /\ i \in Positions /\ OpAt(r, i).kind = "wait_event"
<1>1. runs[r].step_index \in Nat /\ OpCount(r) \in Nat /\ i \in Positions
  BY RowFacts, OpFacts, CountIsNat DEF GoodRun
<1>2. i <= runs[r].step_index
  BY <1>1, Zenon DEF GoodRun, RunInv, CursorMatches
<1>3. i = runs[r].step_index
  BY <1>1, <1>2 DEF AtCursor
<1> QED
  BY <1>1, <1>3, Zenon DEF GoodRun, RunInv, CursorMatches

\* In the terms of Lifecycle.
LEMMA NextIsToSave ==
    ASSUME NEW r \in Runs, GoodRun(r, runs[r], checkpoints[r]),
           NEW i \in 0 .. OpCount(r) - 1, OpAt(r, i).kind # "sleep",
           AtCursor(runs[r], checkpoints[r], i), checkpoints[r][i] = Null
    PROVE  i \in Lifecycle!Valued(r) /\ Lifecycle!NextToSave(r, i)
<1>1. Lifecycle!Valued(r) = {j \in 0 .. OpCount(r) - 1 : OpAt(r, j).kind # "sleep"}
  BY SameWorkflow DEF Lifecycle!Valued
<1>2. \A j \in Lifecycle!Valued(r) : checkpoints[r][j] = Null <=> j >= i
  BY <1>1, CursorIsNext
<1> QED
  BY <1>1, <1>2 DEF Lifecycle!NextToSave

\* A stored value at the cursor is a wait's outcome, and the value saved last.
LEMMA CursorHasEnded ==
    ASSUME NEW r \in Runs, GoodRun(r, runs[r], checkpoints[r]),
           runs[r].step_index \in Positions, checkpoints[r][runs[r].step_index] # Null
    PROVE  Lifecycle!WaitEnded(r)
<1> DEFINE i == runs[r].step_index
<1>1. /\ i \in Nat /\ OpCount(r) \in Nat
  BY RowFacts, CountIsNat, Zenon DEF GoodRun
<1>2. i < OpCount(r) /\ OpAt(r, i).kind = "wait_event"
  BY Zenon DEF GoodRun, RunInv, CursorMatches
<1>3. i \in 0 .. OpCount(r) - 1
  BY <1>1, <1>2
<1>4. ASSUME NEW j \in 0 .. OpCount(r) - 1, OpAt(r, j).kind # "sleep"
      PROVE  checkpoints[r][j] = Null <=> j > i
  <2>1. j \in Positions /\ j \in Nat
    BY OpFacts, <1>1
  <2>2. /\ j < i => checkpoints[r][j] # Null
        /\ checkpoints[r][j] # Null => j <= i
    BY <1>4, <2>1, Zenon DEF GoodRun, RunInv, CursorMatches
  <2>3. CASE j = i
    BY <1>1, <2>3
  <2>4. CASE j # i
    BY <1>1, <2>1, <2>2, <2>4
  <2> QED
    BY <2>3, <2>4
<1>5. /\ i \in Lifecycle!Valued(r) /\ Lifecycle!OpAt(r, i).kind = "wait_event"
      /\ \A j \in Lifecycle!Valued(r) : checkpoints[r][j] = Null <=> j > i
  BY <1>2, <1>3, <1>4, SameWorkflow DEF Lifecycle!Valued
<1> QED
  BY <1>5, Zenon DEF Lifecycle!WaitEnded

-----------------------------------------------------------------------------

\* A step of the state diagram, or none.
Mapped ==
    \/ Lifecycle!Next
    \/ States' = States /\ checkpoints' = checkpoints /\ Outputs' = Outputs

\* A statement that only moves a run from one state to another.
LEMMA MapMove ==
    ASSUME StoreTypeOK, NEW r \in Runs, NEW new, runs' = [runs EXCEPT ![r] = new],
           checkpoints' = checkpoints, new.output_json = runs[r].output_json
    PROVE  /\ \A from : runs[r].state \in from => Lifecycle!Move(r, from, new.state)
           /\ Outputs' = Outputs
<1>1. States' = [States EXCEPT ![r] = new.state] /\ Outputs' = Outputs
  BY MapRow, Zenon
<1>2. States[r] = runs[r].state
  BY DEF States
<1> QED
  BY <1>1, <1>2, Zenon DEF Lifecycle!Move, States

\* The states between which such a statement may move a run.
LEMMA MapEdge ==
    ASSUME StoreTypeOK, NEW r \in Runs, NEW new, runs' = [runs EXCEPT ![r] = new],
           checkpoints' = checkpoints, new.output_json = runs[r].output_json,
           \/ runs[r].state = "absent" /\ new.state = "ready"
           \/ runs[r].state = "ready" /\ new.state = "leased"
           \/ runs[r].state = "leased" /\ new.state \in {"ready", "failed"}
           \/ runs[r].state \in Unfinished /\ new.state = "cancelled"
           \/ runs[r].state = new.state
    PROVE  Mapped
<1>1. /\ \A from : runs[r].state \in from => Lifecycle!Move(r, from, new.state)
      /\ Outputs' = Outputs
  BY MapMove, Zenon
<1>2. CASE runs[r].state = "absent" /\ new.state = "ready"
  <2>1. Lifecycle!Insert(r)
    BY <1>1, <1>2 DEF Lifecycle!Insert, Outputs
  <2> QED
    BY <2>1 DEF Lifecycle!Next, Mapped
<1>3. CASE runs[r].state = "ready" /\ new.state = "leased"
  <2>1. Lifecycle!Claim(r)
    BY <1>1, <1>3 DEF Lifecycle!Claim, Outputs
  <2> QED
    BY <2>1 DEF Lifecycle!Next, Mapped
<1>4. CASE runs[r].state = "leased" /\ new.state = "ready"
  <2>1. Lifecycle!Release(r)
    BY <1>1, <1>4 DEF Lifecycle!Release, Outputs
  <2> QED
    BY <2>1 DEF Lifecycle!Next, Mapped
<1>5. CASE runs[r].state = "leased" /\ new.state = "failed"
  <2>1. Lifecycle!Fail(r)
    BY <1>1, <1>5 DEF Lifecycle!Fail, Outputs
  <2> QED
    BY <2>1 DEF Lifecycle!Next, Mapped
<1>6. CASE runs[r].state \in Unfinished /\ new.state = "cancelled"
  <2>1. Lifecycle!Cancel(r)
    BY <1>1, <1>6 DEF Lifecycle!Cancel, Outputs, Unfinished
  <2> QED
    BY <2>1 DEF Lifecycle!Next, Mapped
<1>7. CASE runs[r].state = new.state
  BY <1>1, <1>7, MapRow, Zenon DEF Mapped
<1> QED
  BY <1>2, <1>3, <1>4, <1>5, <1>6, <1>7

\* The statements of producers, maintenance and the clock, and the claim statement.
LEMMA MapRowStatements ==
    ASSUME WorkerInv, NEW r \in Runs, NEW t, NEW due,
           \/ ClaimRow(r, t) \/ InsertRun(r, due) \/ CancelRun(r) \/ RecoverLease(r)
           \/ RunBecomesDue(r) \/ LeaseExpires(r) \/ DeadlinePasses(r)
    PROVE  Mapped
<1>0. StoreTypeOK /\ RowShape(r, runs[r]) /\ runs[r] \in Row
  BY DEF WorkerInv, StoreInv, RunInv, StoreTypeOK
<1>1. checkpoints' = checkpoints
  BY DEF ClaimRow, InsertRun, CancelRun, RecoverLease, RunBecomesDue, LeaseExpires, DeadlinePasses
<1>2. CASE ClaimRow(r, t)
  <2> DEFINE new == [runs[r] EXCEPT !.state = "leased", !.lease_token = t, !.lease_until = "future"]
  <2>1. runs' = [runs EXCEPT ![r] = new] /\ runs[r].state = "ready"
    BY <1>2 DEF ClaimRow
  <2>2. new.state = "leased" /\ new.output_json = runs[r].output_json
    BY <1>0 DEF Row
  <2> HIDE DEF new
  <2> QED
    BY <1>0, <1>1, <2>1, <2>2, MapEdge, Zenon
<1>3. CASE InsertRun(r, due)
  <2> DEFINE new == NewRow("ready", due)
  <2>1. runs' = [runs EXCEPT ![r] = new] /\ runs[r].state = "absent"
    BY <1>3 DEF InsertRun
  <2>2. runs[r].output_json = Null
    <3>1. runs[r] = NewRow("absent", "past")
      BY <1>0, <2>1 DEF RowShape
    <3> QED
      BY <3>1, NewRowFacts
  <2>3. new.state = "ready" /\ new.output_json = Null
    BY NewRowFacts
  <2> HIDE DEF new
  <2> QED
    BY <1>0, <1>1, <2>1, <2>2, <2>3, MapEdge, Zenon
<1>4. CASE CancelRun(r)
  <2> DEFINE new == [Released(runs[r], "cancelled") EXCEPT
                         !.waiting_event_key = Null, !.waiting_deadline = Null]
  <2>1. runs' = [runs EXCEPT ![r] = new] /\ runs[r].state \in Unfinished
    BY <1>4 DEF CancelRun
  <2>2. new.state = "cancelled" /\ new.output_json = runs[r].output_json
    BY <1>0 DEF Row, Released
  <2> HIDE DEF new
  <2> QED
    BY <1>0, <1>1, <2>1, <2>2, MapEdge, Zenon
<1>5. CASE RecoverLease(r)
  <2> DEFINE n == runs[r].lease_failures + 1
             to == IF n >= MaxAttempts[r] THEN "failed" ELSE "ready"
             new == [Released(runs[r], to) EXCEPT !.lease_failures = n, !.next_run_at = "future"]
  <2>1. runs' = [runs EXCEPT ![r] = new] /\ runs[r].state = "leased"
    BY <1>5 DEF RecoverLease
  <2>2. to \in {"ready", "failed"}
    OBVIOUS
  <2> HIDE DEF to
  <2>3. new.state = to /\ new.output_json = runs[r].output_json
    BY <1>0 DEF Row, Released
  <2> HIDE DEF new
  <2> QED
    BY <1>0, <1>1, <2>1, <2>2, <2>3, MapEdge, Zenon
<1>6. CASE RunBecomesDue(r)
  <2> DEFINE new == [runs[r] EXCEPT !.next_run_at = "past"]
  <2>1. runs' = [runs EXCEPT ![r] = new]
    BY <1>6 DEF RunBecomesDue
  <2>2. new.state = runs[r].state /\ new.output_json = runs[r].output_json
    BY <1>0 DEF Row
  <2> HIDE DEF new
  <2> QED
    BY <1>0, <1>1, <2>1, <2>2, MapEdge, Zenon
<1>7. CASE LeaseExpires(r)
  <2> DEFINE new == [runs[r] EXCEPT !.lease_until = "past"]
  <2>1. runs' = [runs EXCEPT ![r] = new]
    BY <1>7 DEF LeaseExpires
  <2>2. new.state = runs[r].state /\ new.output_json = runs[r].output_json
    BY <1>0 DEF Row
  <2> HIDE DEF new
  <2> QED
    BY <1>0, <1>1, <2>1, <2>2, MapEdge, Zenon
<1>8. CASE DeadlinePasses(r)
  <2> DEFINE new == [runs[r] EXCEPT !.waiting_deadline = "past"]
  <2>1. runs' = [runs EXCEPT ![r] = new]
    BY <1>8 DEF DeadlinePasses
  <2>2. new.state = runs[r].state /\ new.output_json = runs[r].output_json
    BY <1>0 DEF Row
  <2> HIDE DEF new
  <2> QED
    BY <1>0, <1>1, <2>1, <2>2, MapEdge, Zenon
<1> QED
  BY <1>2, <1>3, <1>4, <1>5, <1>6, <1>7, <1>8

\* The statements with which a claim gives up its lease for a sleep or after an error.
LEMMA MapReleases ==
    ASSUME WorkerInv, NEW t \in Tokens, NEW ack \in BOOLEAN,
           ParkForSleep(t, ack) \/ RecordFailure(t)
    PROVE  Mapped
<1> DEFINE r == RunOf(t)
<1>1. Active(t)
  BY DEF ParkForSleep, RecordFailure, Active, AtOp
<1>2. Fence(r, t)
  BY DEF ParkForSleep, RecordFailure, ParkSleep, FailOrRetry
<1>3. r \in Runs /\ runs[r] \in Row /\ runs[r].state = "leased" /\ StoreTypeOK
  BY <1>1, <1>2, Fenced, Zenon DEF GoodRun, WorkerInv, StoreInv
<1>4. CASE ParkForSleep(t, ack)
  <2> DEFINE new == [Released(runs[r], "ready") EXCEPT
                         !.step_index = IndexOf(t) + 1, !.next_run_at = "future",
                         !.lease_failures = 0]
  <2>1. runs' = [runs EXCEPT ![r] = new] /\ checkpoints' = checkpoints
    BY <1>4 DEF ParkForSleep, ParkSleep
  <2>2. new.state = "ready" /\ new.output_json = runs[r].output_json
    BY <1>3 DEF Row, Released
  <2> HIDE DEF new, r
  <2> QED
    BY <1>3, <2>1, <2>2, MapEdge, Zenon
<1>5. CASE RecordFailure(t)
  <2> DEFINE n == claims[t].attempt + 1
             to == IF n >= MaxAttempts[r] THEN "failed" ELSE "ready"
             new == [Released(runs[r], to) EXCEPT !.attempt = n, !.next_run_at = "future"]
  <2>1. runs' = [runs EXCEPT ![r] = new] /\ checkpoints' = checkpoints
    BY <1>5 DEF RecordFailure, FailOrRetry
  <2>2. to \in {"ready", "failed"}
    OBVIOUS
  <2> HIDE DEF to
  <2>3. new.state = to /\ new.output_json = runs[r].output_json
    BY <1>3 DEF Row, Released
  <2> HIDE DEF new, r
  <2> QED
    BY <1>3, <2>1, <2>2, <2>3, MapEdge, Zenon
<1> QED
  BY <1>4, <1>5

\* parkWait: the wait is the next operation to get a value, or it has one that the
\* claim does not know.
LEMMA MapPark ==
    ASSUME WorkerInv, NEW t \in Tokens, NEW ack \in BOOLEAN,
           ParkForEvent(t, ack)
    PROVE  Mapped
<1>r. PICK r : r = RunOf(t)
  OBVIOUS
<1>i. PICK i : i = IndexOf(t)
  OBVIOUS
<1> DEFINE new == [Released(runs[r], "waiting_event") EXCEPT
                       !.step_index = i, !.waiting_event_key = KeyOf(t),
                       !.waiting_deadline = "future", !.lease_failures = 0]
<1>1. claims[t].pc = "park" /\ Active(t) /\ Fence(r, t)
  BY <1>r DEF ParkForEvent, ParkWait, Active
<1>2. /\ r \in Runs /\ GoodRun(r, runs[r], checkpoints[r]) /\ runs[r].state = "leased"
      /\ Knows(r, i, claims[t].values, checkpoints[r]) /\ ClaimShape(t)
      /\ AtCursor(runs[r], checkpoints[r], i) /\ i \in 0 .. OpCount(r)
  BY <1>1, <1>r, <1>i, Fenced, Zenon DEF ClaimInv
<1>3. i < OpCount(r) /\ OpAt(r, i).kind = "wait_event" /\ claims[t].values[i] = Null
  BY <1>1, <1>2, <1>r, <1>i, Zenon DEF ClaimShape, InWaitTx
<1>4. i \in 0 .. OpCount(r) - 1
  <2>1. i \in 0 .. OpCount(r) /\ i < OpCount(r) /\ OpCount(r) \in Nat
    BY <1>2, <1>3, CountIsNat
  <2> QED
    BY <2>1
<1>5. runs' = [runs EXCEPT ![r] = new] /\ checkpoints' = checkpoints
  BY <1>r, <1>i DEF ParkForEvent, ParkWait
<1>6. new.state = "waiting_event" /\ new.output_json = runs[r].output_json
  BY <1>2 DEF GoodRun, Row, Released
<1>7. StoreTypeOK
  BY DEF WorkerInv, StoreInv
<1>8. Lifecycle!OpAt(r, i).kind = "wait_event"
  BY <1>3, SameWorkflow
<1> HIDE DEF new
<1>9. Lifecycle!Move(r, {"leased"}, "waiting_event") /\ Outputs' = Outputs
  BY <1>2, <1>5, <1>6, <1>7, MapMove, Zenon
<1>10. CASE checkpoints[r][i] = Null
  <2>1. i \in Lifecycle!Valued(r) /\ Lifecycle!NextToSave(r, i)
    BY <1>2, <1>3, <1>4, <1>10, NextIsToSave, Zenon
  <2>2. Lifecycle!Wait(r)
    BY <1>5, <1>8, <1>9, <2>1 DEF Lifecycle!Wait, Outputs
  <2> QED
    BY <1>2, <2>2, Zenon DEF Mapped, Lifecycle!Next
<1>11. CASE checkpoints[r][i] # Null
  <2>1. Lifecycle!WaitEnded(r)
    <3>1. i = runs[r].step_index /\ i \in Positions
      BY <1>2, <1>4, <1>11, StoredIsAtCursor, Zenon
    <3> QED
      BY <1>2, <1>11, <3>1, CursorHasEnded
  <2>2. Lifecycle!WaitAgain(r)
    BY <1>5, <1>9, <2>1 DEF Lifecycle!WaitAgain, Outputs
  <2> QED
    BY <1>2, <2>2, Zenon DEF Mapped, Lifecycle!Next
<1> QED
  BY <1>10, <1>11

\* completeRun: every step and wait has its value.
LEMMA MapFinish ==
    ASSUME WorkerInv, NEW t \in Tokens, NEW ack \in BOOLEAN, FinishRun(t, ack)
    PROVE  Mapped
<1>r. PICK r : r = RunOf(t)
  OBVIOUS
<1>v. PICK v : v = Output(r, claims[t].values)
  OBVIOUS
<1> DEFINE new == [Released(runs[r], "completed") EXCEPT
                       !.step_index = OpCount(r), !.output_json = v]
<1>1. claims[t].pc = "drive" /\ IndexOf(t) = OpCount(r) /\ Active(t) /\ Fence(r, t)
  BY <1>r DEF FinishRun, CompleteRun, AtEnd, Active
<1>2. /\ r \in Runs /\ GoodRun(r, runs[r], checkpoints[r]) /\ runs[r].state = "leased"
      /\ Knows(r, OpCount(r), claims[t].values, checkpoints[r])
      /\ AtCursor(runs[r], checkpoints[r], OpCount(r))
  <2>1. claims[t].pc # "fail"
    BY <1>1
  <2>2. /\ r \in Runs /\ GoodRun(r, runs[r], checkpoints[r]) /\ runs[r].state = "leased"
        /\ Knows(r, IndexOf(t), claims[t].values, checkpoints[r])
        /\ AtCursor(runs[r], checkpoints[r], IndexOf(t))
    BY <1>1, <1>r, <2>1, Fenced, Zenon
  <2> QED
    BY <1>1, <2>2
<1>3. ASSUME NEW j \in 0 .. OpCount(r) - 1, OpAt(r, j).kind # "sleep"
      PROVE  checkpoints[r][j] # Null
  <2>1. runs[r].step_index \in Nat /\ OpCount(r) \in Nat
    BY <1>2, RowFacts, CountIsNat, Zenon DEF GoodRun
  <2>2. j < runs[r].step_index => checkpoints[r][j] # Null
    BY <1>2, <1>3, Zenon DEF GoodRun, RunInv, CursorMatches
  <2>3. \/ OpCount(r) = runs[r].step_index
        \/ OpCount(r) = runs[r].step_index + 1 /\ checkpoints[r][runs[r].step_index] # Null
    BY <1>2, Zenon DEF AtCursor
  <2>4. \/ j < runs[r].step_index
        \/ j = runs[r].step_index /\ checkpoints[r][runs[r].step_index] # Null
    BY <2>1, <2>3
  <2> QED
    BY <2>2, <2>4, Zenon
<1>4. \A j \in Lifecycle!Valued(r) : checkpoints[r][j] # Null
  BY <1>3, SameWorkflow DEF Lifecycle!Valued
<1>5. runs' = [runs EXCEPT ![r] = new] /\ checkpoints' = checkpoints
  BY <1>r, <1>v DEF FinishRun, CompleteRun
<1>6. new.state = "completed" /\ new.output_json = v
  BY <1>2 DEF GoodRun, Row, Released
<1>7. StoreTypeOK
  BY DEF WorkerInv, StoreInv
<1>8. v = Lifecycle!Output(r, checkpoints[r])
  <2>1. v = Output(r, checkpoints[r])
    BY <1>2, <1>v, OutputIsKnown, Zenon
  <2> QED
    BY <2>1, SameWorkflow
<1> HIDE DEF new
<1>9. States' = [States EXCEPT ![r] = "completed"] /\ Outputs' = [Outputs EXCEPT ![r] = v]
  <2>1. /\ States' = [States EXCEPT ![r] = new.state]
        /\ Outputs' = [Outputs EXCEPT ![r] = new.output_json]
    BY <1>2, <1>5, <1>7, MapRow, Zenon
  <2> QED
    BY <1>6, <2>1
<1>10. Lifecycle!Move(r, {"leased"}, "completed")
  BY <1>2, <1>9, Zenon DEF Lifecycle!Move, States
<1>11. Lifecycle!Complete(r)
  BY <1>4, <1>5, <1>8, <1>9, <1>10 DEF Lifecycle!Complete, Outputs
<1> QED
  BY <1>2, <1>11, Zenon DEF Mapped, Lifecycle!Next

\* commitStep: the operation at the cursor gets its value, or it keeps the one that
\* the claim does not know.
LEMMA MapCommit ==
    ASSUME WorkerInv, NEW t \in Tokens, NEW ack \in BOOLEAN,
           CommitResult(t, ack) \/ DeliverEvent(t, ack)
    PROVE  Mapped
<1>r. PICK r : r = RunOf(t)
  OBVIOUS
<1>i. PICK i : i = IndexOf(t)
  OBVIOUS
<1>v. PICK v : v = claims[t].result
  OBVIOUS
<1>1. claims[t].pc \in {"commit", "deliver"} /\ CommitStep(r, t, i, v, IsLast(t))
  BY <1>r, <1>i, <1>v DEF CommitResult, DeliverEvent
<1>2. Active(t) /\ Fence(r, t)
  BY <1>1 DEF Active, CommitStep, Owned
<1>3. /\ r \in Runs /\ GoodRun(r, runs[r], checkpoints[r]) /\ runs[r].state = "leased"
      /\ ClaimShape(t) /\ claims[t] \in Claim
      /\ AtCursor(runs[r], checkpoints[r], i) /\ i \in 0 .. OpCount(r)
  <2>1. /\ r \in Runs /\ GoodRun(r, runs[r], checkpoints[r])
        /\ runs[r].state = "leased" /\ claims[t] \in Claim /\ ClaimInv(t)
        /\ i \in 0 .. OpCount(r)
        /\ claims[t].pc # "fail" => AtCursor(runs[r], checkpoints[r], i)
    BY <1>2, <1>r, <1>i, Fenced, Zenon
  <2>2. claims[t].pc # "fail"
    BY <1>1, Zenon
  <2> QED
    BY <2>1, <2>2, Zenon DEF ClaimInv
<1>4. i < OpCount(r) /\ OpAt(r, i).kind # "sleep" /\ v # Null
  BY <1>1, <1>2, <1>3, <1>r, <1>i, <1>v, Zenon DEF ClaimShape, InWaitTx
<1>5. i \in 0 .. OpCount(r) - 1 /\ i \in Positions
  <2>1. i \in 0 .. OpCount(r) /\ i < OpCount(r) /\ OpCount(r) \in Nat
    BY <1>3, <1>4, CountIsNat
  <2>2. i \in 0 .. OpCount(r) - 1
    BY <2>1
  <2> QED
    BY <1>3, <2>2, OpFacts
<1>6. v \in Value
  BY <1>3, <1>4, <1>v, Zenon DEF Claim, Stored
<1>7. v \in Lifecycle!Value /\ i \in Lifecycle!Positions
  BY <1>5, <1>6, SameWorkflow
<1>8. StoreTypeOK /\ runs[r] \in Row
  BY <1>3 DEF WorkerInv, StoreInv, GoodRun
<1>9. PICK kept : kept = StoredBy(r, i, v)
  OBVIOUS
<1>10. /\ checkpoints' = [checkpoints EXCEPT ![r] = [checkpoints[r] EXCEPT ![i] = kept]]
       /\ IF checkpoints[r][i] = Null THEN kept = v ELSE checkpoints' = checkpoints
  <2>1. checkpoints' = [checkpoints EXCEPT ![r] = [checkpoints[r] EXCEPT ![i] = kept]]
    BY <1>1, <1>9 DEF CommitStep
  <2>2. kept = IF checkpoints[r][i] = Null THEN v ELSE checkpoints[r][i]
    BY <1>9 DEF StoredBy
  <2>3. checkpoints[r] \in [Positions -> Stored] /\ checkpoints \in [Runs -> [Positions -> Stored]]
    BY <1>3, <1>8 DEF StoreTypeOK
  <2> QED
    BY <1>3, <1>5, <2>1, <2>2, <2>3
<1>11. ASSUME checkpoints[r][i] = Null PROVE Lifecycle!Save(r, i, v)
  <2>1. i \in Lifecycle!Valued(r) /\ Lifecycle!NextToSave(r, i)
    BY <1>3, <1>4, <1>5, <1>11, NextIsToSave
  <2> QED
    BY <1>7, <1>10, <1>11, <2>1 DEF Lifecycle!Save
<1>12. CASE IsLast(t)
  <2> DEFINE new == [Released(runs[r], "completed") EXCEPT
                         !.step_index = i + 1, !.lease_failures = 0, !.output_json = kept]
  <2>1. runs' = [runs EXCEPT ![r] = new]
    BY <1>1, <1>9, <1>12 DEF CommitStep
  <2>2. new.state = "completed" /\ new.output_json = kept
    BY <1>8 DEF Row, Released
  <2> HIDE DEF new
  <2>3. /\ States' = [States EXCEPT ![r] = new.state]
        /\ Outputs' = [Outputs EXCEPT ![r] = new.output_json]
    BY <1>3, <1>8, <2>1, MapRow, Zenon
  <2>4. Lifecycle!Move(r, {"leased"}, "completed")
    BY <1>3, <2>2, <2>3, Zenon DEF Lifecycle!Move, States
  <2>5. i = OpCount(r) - 1 /\ i = Lifecycle!OpCount(r) - 1
    BY <1>12, <1>r, <1>i, SameWorkflow DEF IsLast
  <2>6. CASE checkpoints[r][i] = Null
    <3>1. Lifecycle!Save(r, Lifecycle!OpCount(r) - 1, v) /\ kept = v
      BY <1>10, <1>11, <2>5, <2>6
    <3>2. Lifecycle!SaveLast(r, v)
      BY <2>2, <2>3, <2>4, <3>1 DEF Lifecycle!SaveLast, Outputs
    <3> QED
      BY <1>3, <1>7, <3>2, Zenon DEF Mapped, Lifecycle!Next
  <2>7. CASE checkpoints[r][i] # Null
    <3>1. checkpoints' = checkpoints /\ kept = checkpoints[r][i]
      BY <1>9, <1>10, <2>7 DEF StoredBy
    <3>2. kept = Lifecycle!Output(r, checkpoints[r])
      BY <1>3, <1>4, <2>5, <3>1, LastIsOutput, SameWorkflow
    <3>3. \A j \in Lifecycle!Valued(r) : checkpoints[r][j] # Null
      <4>1. i = runs[r].step_index /\ OpCount(r) \in Nat
        BY <1>3, <1>5, <2>7, StoredIsAtCursor, CountIsNat, Zenon
      <4>2. ASSUME NEW j \in 0 .. OpCount(r) - 1, OpAt(r, j).kind # "sleep"
            PROVE  checkpoints[r][j] # Null
        <5>1. j < runs[r].step_index => checkpoints[r][j] # Null
          BY <1>3, <4>2, Zenon DEF GoodRun, RunInv, CursorMatches
        <5>2. j < runs[r].step_index \/ j = i
          BY <2>5, <4>1
        <5> QED
          BY <2>7, <5>1, <5>2
      <4> QED
        BY <4>2, SameWorkflow DEF Lifecycle!Valued
    <3>4. Lifecycle!Complete(r)
      BY <2>2, <2>3, <2>4, <3>1, <3>2, <3>3 DEF Lifecycle!Complete, Outputs
    <3> QED
      BY <1>3, <3>4, Zenon DEF Mapped, Lifecycle!Next
  <2> QED
    BY <2>6, <2>7
<1>13. CASE ~IsLast(t)
  <2> DEFINE new == [runs[r] EXCEPT !.step_index = i + 1, !.lease_failures = 0,
                                    !.output_json = Null]
  <2>1. runs' = [runs EXCEPT ![r] = new]
    BY <1>1, <1>13 DEF CommitStep
  <2>2. runs[r].output_json = Null
    BY <1>3, Zenon DEF GoodRun, RunInv, OutputMatches
  <2>3. new.state = runs[r].state /\ new.output_json = runs[r].output_json
    BY <1>8, <2>2 DEF Row
  <2> HIDE DEF new
  <2>4. States' = States /\ Outputs' = Outputs
    BY <1>3, <1>8, <2>1, <2>3, MapRow, Zenon
  <2>5. States[r] = "leased"
    BY <1>3, Zenon DEF States
  <2>6. CASE checkpoints[r][i] = Null
    <3>1. Lifecycle!Advance(r, i, v)
      BY <1>11, <2>4, <2>5, <2>6 DEF Lifecycle!Advance, States, Outputs
    <3> QED
      BY <1>3, <1>7, <3>1, Zenon DEF Mapped, Lifecycle!Next
  <2>7. CASE checkpoints[r][i] # Null
    BY <1>10, <2>4, <2>7 DEF Mapped
  <2> QED
    BY <2>6, <2>7
<1> QED
  BY <1>12, <1>13

\* An event or a timeout ends waits: of the runs that have an outcome already, in again.
LEMMA MapWake ==
    ASSUME WorkerInv, NEW woken \in SUBSET Runs, NEW v \in Value,
           \A d \in Results : v # StepValue(d),
           \A r \in woken : runs[r].state = "waiting_event",
           runs' = [r \in Runs |-> IF r \in woken THEN Resumed(runs[r]) ELSE runs[r]],
           checkpoints' = [r \in Runs |-> IF r \in woken THEN WithOutcome(r, v)
                                                        ELSE checkpoints[r]]
    PROVE  Mapped
<1>again. PICK again : again = {r \in woken : checkpoints[r][runs[r].step_index] # Null}
  BY Zenon
<1>fresh. PICK fresh : fresh = woken \ again
  BY Zenon
<1>at. PICK at : at = [r \in fresh |-> runs[r].step_index]
  BY Zenon
<1>1. ASSUME NEW r \in woken
      PROVE  /\ runs[r].step_index \in 0 .. OpCount(r) - 1 /\ runs[r].step_index \in Positions
             /\ GoodRun(r, runs[r], checkpoints[r])
             /\ OpAt(r, runs[r].step_index).kind = "wait_event"
  <2>1. r \in Runs /\ runs[r].state = "waiting_event"
    OBVIOUS
  <2>2. GoodRun(r, runs[r], checkpoints[r])
    BY <2>1 DEF WorkerInv, StoreInv, StoreTypeOK, GoodRun
  <2>3. /\ runs[r].step_index \in Nat /\ runs[r].step_index < OpCount(r)
        /\ OpAt(r, runs[r].step_index).kind = "wait_event"
    <3>1. runs[r] \in Row /\ RowShape(r, runs[r])
      BY <2>2, Zenon DEF GoodRun, RunInv
    <3> QED
      BY <2>1, <3>1, RowFacts, Zenon DEF RowShape
  <2>4. runs[r].step_index \in 0 .. OpCount(r) - 1
    <3>1. OpCount(r) \in Nat
      BY <2>1, CountIsNat
    <3> QED
      BY <2>3, <3>1
  <2> QED
    BY <2>1, <2>2, <2>3, <2>4, OpFacts
<1>2. ASSUME NEW r \in fresh
      PROVE  /\ at[r] \in Positions
             /\ Lifecycle!NextToSave(r, at[r])
             /\ WithOutcome(r, v) = [checkpoints[r] EXCEPT ![at[r]] = v]
  <2>1. r \in woken /\ r \in Runs /\ at[r] = runs[r].step_index /\ checkpoints[r][at[r]] = Null
    BY <1>again, <1>fresh, <1>at
  <2>2. AtCursor(runs[r], checkpoints[r], at[r])
    BY <2>1 DEF AtCursor
  <2>3. Lifecycle!NextToSave(r, at[r])
    <3>1. at[r] \in 0 .. OpCount(r) - 1 /\ OpAt(r, at[r]).kind # "sleep"
      BY <1>1, <2>1
    <3> QED
      BY <1>1, <2>1, <2>2, <3>1, NextIsToSave, Zenon
  <2>4. WithOutcome(r, v) = [checkpoints[r] EXCEPT ![at[r]] = v]
    BY <2>1 DEF WithOutcome, StoredBy
  <2> QED
    BY <1>1, <2>1, <2>3, <2>4
<1>3. ASSUME NEW r \in again
      PROVE  Lifecycle!WaitEnded(r) /\ WithOutcome(r, v) = checkpoints[r]
  <2>1. r \in woken /\ r \in Runs /\ checkpoints[r][runs[r].step_index] # Null
    BY <1>again
  <2>2. Lifecycle!WaitEnded(r)
    BY <1>1, <2>1, CursorHasEnded, Zenon
  <2>3. checkpoints[r] \in [Positions -> Stored]
    BY <1>1, <2>1 DEF GoodRun
  <2>4. WithOutcome(r, v) = checkpoints[r]
    BY <1>1, <2>1, <2>3 DEF WithOutcome, StoredBy
  <2> QED
    BY <2>2, <2>4
<1>4. at \in [fresh -> Lifecycle!Positions]
  BY <1>at, <1>2, SameWorkflow
<1>5. checkpoints' = [r \in Runs |-> IF r \in fresh
                                    THEN [checkpoints[r] EXCEPT ![at[r]] = v]
                                    ELSE checkpoints[r]]
  <2>1. \A r \in Runs : (IF r \in woken THEN WithOutcome(r, v) ELSE checkpoints[r]) =
                        (IF r \in fresh THEN [checkpoints[r] EXCEPT ![at[r]] = v]
                                        ELSE checkpoints[r])
    BY <1>fresh, <1>2, <1>3, Zenon
  <2> QED
    BY <2>1, Zenon
<1>6. \A r \in Runs : runs[r] \in Row
  BY DEF WorkerInv, StoreInv, StoreTypeOK
<1>7. \A r \in Runs : /\ Resumed(runs[r]).state = "ready"
                      /\ Resumed(runs[r]).output_json = runs[r].output_json
  BY <1>6, Zenon DEF Resumed, Row
<1>8. fresh \cup again = woken /\ fresh \in SUBSET Lifecycle!Waiting
      /\ again \in SUBSET Lifecycle!Waiting
  BY <1>again, <1>fresh DEF Lifecycle!Waiting
<1>9. \A r \in Runs : /\ runs'[r].state = IF r \in fresh \cup again THEN "ready" ELSE States[r]
                      /\ runs'[r].output_json = runs[r].output_json
  BY <1>7, <1>8 DEF States
<1>10. States' = [r \in Runs |-> IF r \in fresh \cup again THEN "ready" ELSE States[r]]
  BY <1>9 DEF States
<1>11. Outputs' = Outputs
  BY <1>9 DEF Outputs
<1>12. v \in Lifecycle!Value \ {Lifecycle!StepValue(d) : d \in Results}
  BY SameWorkflow DEF Lifecycle!StepValue, StepValue
<1>13. \A r \in fresh : Lifecycle!NextToSave(r, at[r])
  BY <1>2
<1>14. \A r \in again : Lifecycle!WaitEnded(r)
  BY <1>3
<1>15. \E w \in Lifecycle!Value \ {Lifecycle!StepValue(d) : d \in Results},
           to \in [fresh -> Lifecycle!Positions] :
          /\ \A r \in fresh : Lifecycle!NextToSave(r, to[r])
          /\ checkpoints' = [r \in Runs |-> IF r \in fresh
                                            THEN [checkpoints[r] EXCEPT ![to[r]] = w]
                                            ELSE checkpoints[r]]
  <2> HIDE DEF Lifecycle!NextToSave, Lifecycle!Value, Lifecycle!Positions
  <2> QED
    BY <1>4, <1>5, <1>12, <1>13, Zenon
<1>16. Lifecycle!Wake(fresh, again)
  BY <1>10, <1>11, <1>14, <1>15, Zenon DEF Lifecycle!Wake, States, Outputs
<1> QED
  BY <1>8, <1>16, Zenon DEF Mapped, Lifecycle!Next

\* The outcomes of waits are values, and not those of steps.
LEMMA Outcomes ==
    /\ TimedOut \in Value /\ \A d \in Results : TimedOut # StepValue(d)
    /\ \A p \in Payloads : /\ Received(p) \in Value
                            /\ \A d \in Results : Received(p) # StepValue(d)
<1>1. TimedOut.kind = "timed_out" /\ \A d \in Results : StepValue(d).kind = "result"
  BY DEF TimedOut, StepValue
<1>2. \A p \in Payloads : Received(p).kind = "received"
  BY DEF Received
<1>3. TimedOut \in Value /\ \A p \in Payloads : Received(p) \in Value
  BY DEF Value
<1> QED
  BY <1>1, <1>2, <1>3

\* A timeout and an event.
LEMMA MapWakingStatements ==
    ASSUME WorkerInv,
           \/ \E r \in Runs : PromoteTimedOut(r)
           \/ \E k \in Keys, p \in Payloads : EmitEvent(k, p)
    PROVE  Mapped
<1>1. ASSUME NEW r \in Runs, PromoteTimedOut(r) PROVE Mapped
  <2>1. /\ runs[r].state = "waiting_event"
        /\ runs' = [runs EXCEPT ![r] = Resumed(runs[r])]
        /\ checkpoints' = [checkpoints EXCEPT ![r] = WithOutcome(r, TimedOut)]
    BY <1>1 DEF PromoteTimedOut
  <2>2. runs' = [s \in Runs |-> IF s \in {r} THEN Resumed(runs[s]) ELSE runs[s]]
    BY <2>1, Zenon DEF WorkerInv, StoreInv, StoreTypeOK
  <2>3. checkpoints' = [s \in Runs |-> IF s \in {r} THEN WithOutcome(s, TimedOut)
                                                    ELSE checkpoints[s]]
    BY <2>1, Zenon DEF WorkerInv, StoreInv, StoreTypeOK
  <2>4. {r} \in SUBSET Runs /\ \A s \in {r} : runs[s].state = "waiting_event"
    BY <2>1
  <2> QED
    BY <2>2, <2>3, <2>4, MapWake, Outcomes, Zenon
<1>2. ASSUME NEW k \in Keys, NEW p \in Payloads, EmitEvent(k, p) PROVE Mapped
  <2>1. PICK late \in SUBSET {r \in WaitingOn(k) : runs[r].waiting_deadline = "past"} :
          LET woken == {r \in WaitingOn(k) : runs[r].waiting_deadline = "future"} \cup late
          IN  /\ runs' = [r \in Runs |-> IF r \in woken THEN Resumed(runs[r]) ELSE runs[r]]
              /\ checkpoints' = [r \in Runs |-> IF r \in woken
                                                THEN WithOutcome(r, Received(p))
                                                ELSE checkpoints[r]]
    BY <1>2, Zenon DEF EmitEvent
  <2>2. PICK woken : woken = {r \in WaitingOn(k) : runs[r].waiting_deadline = "future"} \cup late
    BY Zenon
  <2>3. woken \in SUBSET Runs /\ \A r \in woken : runs[r].state = "waiting_event"
    BY <2>2 DEF WaitingOn
  <2>4. /\ runs' = [r \in Runs |-> IF r \in woken THEN Resumed(runs[r]) ELSE runs[r]]
        /\ checkpoints' = [r \in Runs |-> IF r \in woken THEN WithOutcome(r, Received(p))
                                                        ELSE checkpoints[r]]
    BY <2>1, <2>2, Zenon
  <2>5. PICK v : v = Received(p)
    OBVIOUS
  <2> QED
    BY <2>3, <2>4, <2>5, MapWake, Outcomes, Zenon
<1> QED
  BY <1>1, <1>2

-----------------------------------------------------------------------------

\* The initial states are initial states of Lifecycle.
LEMMA MapInit == Init => Lifecycle!Init
<1> SUFFICES ASSUME Init PROVE Lifecycle!Init
  OBVIOUS
<1>1. /\ \A r \in Runs : runs[r].state = "absent" /\ runs[r].output_json = Null
      /\ checkpoints = [r \in Runs |-> [i \in Positions |-> Null]]
  BY DEF Init, StoreInit, NewRow
<1> QED
  BY <1>1, SameWorkflow, Zenon DEF Lifecycle!Init

\* Every step is mapped to a step of Lifecycle or to none.
LEMMA MapNext ==
    ASSUME FullInv, Next
    PROVE  Mapped
<1>0. WorkerInv
  BY DEF FullInv
<1>1. ASSUME UNCHANGED <<runs, checkpoints>> PROVE Mapped
  BY <1>1 DEF Mapped, States, Outputs
<1>2. ASSUME NEW c \in Claimers, ClaimStatement(c) PROVE Mapped
  <2>1. ASSUME NEW t \in Tokens, NEW ack \in BOOLEAN, ClaimReadyRun(c, t, ack) PROVE Mapped
    <3>1. snap[c].run \in Runs /\ ClaimRow(snap[c].run, t)
      BY <2>1, SnapshotIsKnown DEF ClaimReadyRun
    <3> QED
      BY <1>0, <3>1, MapRowStatements
  <2>2. ASSUME SkipRow(c) \/ \E r \in Runs : TakeSnapshot(c, r) PROVE Mapped
    BY <1>1, <2>2 DEF SkipRow, TakeSnapshot, work, store
  <2> QED
    BY <1>2, <2>1, <2>2 DEF ClaimStatement
<1>3. ASSUME NEW t \in Tokens, ClaimStep(t) PROVE Mapped
  <2>1. CASE \/ ReplayValue(t) \/ LockEventKey(t) \/ LookupEvent(t) \/ LostLease(t)
             \/ DriveFails(t) \/ Abandon(t) \/ \E d \in Results : RunStep(t, d)
    <3>1. UNCHANGED <<runs, checkpoints>>
      BY <2>1, Zenon DEF ReplayValue, LockEventKey, LookupEvent, LostLease, DriveFails, Abandon,
                  RunStep, store
    <3> QED
      BY <1>1, <3>1
  <2>2. ASSUME NEW ack \in BOOLEAN, CommitResult(t, ack) \/ DeliverEvent(t, ack)
        PROVE  Mapped
    BY <1>0, <2>2, MapCommit
  <2>3. ASSUME NEW ack \in BOOLEAN,
               ParkForSleep(t, ack) \/ ParkForEvent(t, ack) \/ FinishRun(t, ack)
        PROVE  Mapped
    BY <1>0, <2>3, MapReleases, MapPark, MapFinish
  <2>4. CASE RecordFailure(t)
    BY <1>0, <2>4, MapReleases, Zenon
  <2> QED
    BY <1>3, <2>1, <2>2, <2>3, <2>4 DEF ClaimStep, Proceed
<1>4. CASE Producer
  <2>1. ASSUME NEW r \in Runs, NEW due \in Time, Cancel(r) \/ Enqueue(r, due) PROVE Mapped
    BY <1>0, <2>1, MapRowStatements DEF Cancel, Enqueue
  <2>2. ASSUME NEW k \in Keys, NEW early, Emit(k, early) PROVE Mapped
    <3>1. PICK p \in Payloads : EmitEvent(k, p)
      BY <2>2 DEF Emit
    <3> QED
      BY <1>0, <3>1, MapWakingStatements
  <2>3. ASSUME NEW k \in Keys, EmitRollsBack(k) \/ \E p \in Payloads : LockForEmit(k, p)
        PROVE  Mapped
    BY <1>1, <2>3 DEF EmitRollsBack, LockForEmit, store
  <2>4. "past" \in Time
    BY DEF Time
  <2> QED
    BY <1>4, <2>1, <2>2, <2>3, <2>4 DEF Producer
<1>5. CASE Maintenance
  <2>1. ASSUME NEW r \in Runs, Recover(r) PROVE Mapped
    BY <1>0, <2>1, MapRowStatements DEF Recover
  <2>2. ASSUME NEW r \in Runs, Promote(r) PROVE Mapped
    BY <1>0, <2>2, MapWakingStatements DEF Promote
  <2>3. ASSUME NEW e \in event_log, Prune(e) PROVE Mapped
    BY <1>1, <2>3 DEF Prune, PruneEvent
  <2> QED
    BY <1>5, <2>1, <2>2, <2>3 DEF Maintenance
<1>6. CASE ClockTick
  <2>1. ASSUME NEW r \in Runs, RunBecomesDue(r) \/ LeaseExpires(r) \/ DeadlinePasses(r)
        PROVE  Mapped
    BY <1>0, <2>1, MapRowStatements
  <2>2. ASSUME NEW e \in event_log, EventExpires(e) PROVE Mapped
    BY <1>1, <2>2 DEF EventExpires
  <2> QED
    BY <1>6, <2>1, <2>2 DEF ClockTick
<1> QED
  BY <1>2, <1>3, <1>4, <1>5, <1>6 DEF Next

(***************************************************************************)
(* Worker implements RunLifecycle: whatever claims, producers, maintenance *)
(* and the clock do, and however slow claim statements are, each run moves *)
(* along the state diagram, and its values are saved once and in order,    *)
(* for all runs, definitions, tokens and limits (worker.go, queries.go).   *)
(* A worker that was given too few checkpoints may park its run again on a *)
(* wait that has an outcome, which stays, and no more.                     *)
(***************************************************************************)
THEOREM Refinement == Spec => ImplementsLifecycle
<1>1. IndInv /\ [Next]_vars => [Lifecycle!Next]_(Lifecycle!vars)
  <2>1. ASSUME IndInv, Next PROVE [Lifecycle!Next]_(Lifecycle!vars)
    <3>1. Mapped
      BY <2>1, Regroup, MapNext
    <3> QED
      BY <3>1 DEF Mapped, Lifecycle!vars, States, Outputs
  <2>2. ASSUME UNCHANGED vars PROVE UNCHANGED Lifecycle!vars
    BY <2>2 DEF vars, work, store, Lifecycle!vars
  <2> QED
    BY <2>1, <2>2
<1>2. Spec => Lifecycle!Spec
  BY <1>1, MapInit, Invariance, PTL DEF Spec, Lifecycle!Spec
<1> QED
  BY <1>2 DEF ImplementsLifecycle
=============================================================================
