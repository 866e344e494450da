---------------------------- MODULE WorkerProofs ----------------------------
(***************************************************************************)
(* The part of Worker's inductive invariant that concerns the tables and   *)
(* the claims is kept by every action, for all runs, definitions, tokens   *)
(* and limits.  WorkerStepProofs adds what claim statements in progress    *)
(* have seen, and draws the conclusions.                                   *)
(***************************************************************************)
EXTENDS Worker, TLAPS

(***************************************************************************)
(* Definitions have an operation at every position before their length     *)
(* (compileWorkflow), and limits are positive (Enqueue).                   *)
(***************************************************************************)
LEMMA OpFacts ==
    ASSUME NEW r \in Runs
    PROVE  /\ OpCount(r) \in 1 .. MaxOps
           /\ MaxOps \in Nat
           /\ \A i \in 0 .. OpCount(r) - 1 :
                 /\ i \in Positions
                 /\ i + 1 \in 0 .. MaxOps
                 /\ OpAt(r, i).kind = "wait_event" => OpAt(r, i).key \in Keys
           /\ MaxAttempts[r] \in Nat \ {0}
    BY WorkflowAssumption, RunStoreAssumption DEF OpCount, OpAt, Positions, Operation

-----------------------------------------------------------------------------
(* What one row and its checkpoints satisfy, and how a statement that      *)
(* updates them preserves it.                                              *)

\* The part of the invariant that concerns one run.
RunInv(r, row, saved) ==
    /\ RowShape(r, row)
    /\ CursorMatches(r, row, saved)
    /\ OutputMatches(r, row, saved)
    /\ BudgetMatches(r, row)

\* A row and its checkpoints as the tables may hold them.
GoodRun(r, row, saved) ==
    /\ row \in Row
    /\ saved \in [Positions -> Stored]
    /\ RunInv(r, row, saved)

\* A lease holder that executes operation i is at the cursor, or one past a stored outcome.
AtCursor(row, saved, i) ==
    \/ i = row.step_index
    \/ i = row.step_index + 1 /\ saved[row.step_index] # Null

(***************************************************************************)
(* The length of a definition is a number (compileWorkflow).               *)
(***************************************************************************)
LEMMA CountIsNat ==
    ASSUME NEW r \in Runs
    PROVE  OpCount(r) \in Nat
    BY OpFacts

(***************************************************************************)
(* The columns of a row that statements compare (workflow_runs).           *)
(***************************************************************************)
LEMMA RowFacts ==
    ASSUME NEW row \in Row
    PROVE  /\ row.step_index \in 0 .. MaxOps
           /\ row.step_index \in Nat
           /\ row.waiting_event_key \in Keys \cup {Null}
<1>1. row.step_index \in 0 .. MaxOps /\ row.waiting_event_key \in Keys \cup {Null}
    BY DEF Row
<1>2. MaxOps \in Nat
    BY WorkflowAssumption
<1> QED
    BY <1>1, <1>2

(***************************************************************************)
(* A row as it is inserted has no output.                                  *)
(***************************************************************************)
LEMMA NewRowFacts ==
    ASSUME NEW state, NEW due
    PROVE  NewRow(state, due).state = state /\ NewRow(state, due).output_json = Null
    BY DEF NewRow

(***************************************************************************)
(* The claim statement leases a ready row.                                 *)
(***************************************************************************)
LEMMA LeasedRow ==
    ASSUME NEW r \in Runs, NEW row, NEW saved, GoodRun(r, row, saved),
           row.state = "ready", NEW t \in Tokens
    PROVE  GoodRun(r, [row EXCEPT !.state = "leased", !.lease_token = t,
                                        !.lease_until = "future"], saved)
<1> DEFINE new == [row EXCEPT !.state = "leased", !.lease_token = t, !.lease_until = "future"]
<1>1. new \in Row
    BY Zenon DEF GoodRun, Row, Time, Unfinished, Terminal
<1>2. RowShape(r, new)
    BY RunStoreAssumption DEF GoodRun, RunInv, RowShape, Row
<1>3. CursorMatches(r, new, saved)
    BY DEF GoodRun, RunInv, CursorMatches, Row
<1>4. OutputMatches(r, new, saved)
    BY DEF GoodRun, RunInv, OutputMatches, Row
<1>5. BudgetMatches(r, new)
    BY DEF GoodRun, RunInv, BudgetMatches, Row, Unfinished
<1> QED
    BY <1>1, <1>2, <1>3, <1>4, <1>5 DEF GoodRun, RunInv

(***************************************************************************)
(* The cursor moves from the operation a claim executes to the next one;   *)
(* a value is stored for that operation unless it is a sleep (commitStep,  *)
(* parkSleep).                                                             *)
(***************************************************************************)
LEMMA CursorAdvances ==
    ASSUME NEW r \in Runs, NEW row, NEW saved, GoodRun(r, row, saved),
           NEW i \in 0 .. OpCount(r) - 1, AtCursor(row, saved, i),
           NEW new, NEW kept, new.step_index = i + 1,
           \A j \in Positions : j # i => kept[j] = saved[j],
           kept[i] # Null <=> OpAt(r, i).kind # "sleep"
    PROVE  CursorMatches(r, new, kept)
<1>0. OpCount(r) \in Nat /\ \A j \in 0 .. OpCount(r) - 1 : j \in Positions
    BY OpFacts
<1>1. row.step_index \in Nat
    BY WorkflowAssumption DEF GoodRun, Row
<1>2. /\ \A j \in 0 .. OpCount(r) - 1 :
            j < row.step_index => (saved[j] # Null <=> OpAt(r, j).kind # "sleep")
      /\ \A j \in Positions : saved[j] # Null => j <= row.step_index
    BY DEF GoodRun, RunInv, CursorMatches
<1>3. row.step_index \in Positions /\ saved[row.step_index] # Null =>
          OpAt(r, row.step_index).kind = "wait_event"
    BY DEF GoodRun, RunInv, CursorMatches
<1>4. row.step_index <= i
    BY <1>1 DEF AtCursor
<1>5. ASSUME NEW j \in 0 .. OpCount(r) - 1, j < i + 1
      PROVE  kept[j] # Null <=> OpAt(r, j).kind # "sleep"
  <2>1. CASE j = i
    BY <2>1
  <2>2. CASE j < row.step_index
    BY <1>0, <1>1, <1>2, <1>4, <2>2
  <2>3. CASE j # i /\ ~(j < row.step_index)
    <3>1. j = row.step_index /\ saved[row.step_index] # Null
        BY <1>1, <1>5, <2>3 DEF AtCursor
    <3> QED
        BY <1>0, <1>3, <2>3, <3>1
  <2> QED
    BY <2>1, <2>2, <2>3
<1>6. ASSUME NEW j \in Positions, kept[j] # Null
      PROVE  j <= i
  <2>1. CASE j = i
    BY <2>1
  <2>2. CASE j # i
    <3>1. j <= row.step_index
        BY <1>2, <1>6, <2>2
    <3> QED
        BY <1>1, <1>4, <3>1 DEF Positions
  <2> QED
    BY <2>1, <2>2
<1>7. \A j \in Positions : kept[j] # Null => j <= i + 1
    BY <1>6, WorkflowAssumption DEF Positions
<1>8. ~(i + 1 \in Positions /\ kept[i + 1] # Null)
    BY <1>6
<1> QED
    BY <1>5, <1>7, <1>8 DEF CursorMatches

(***************************************************************************)
(* commitStep records a value for operation i and moves the cursor past it *)
(***************************************************************************)
LEMMA AdvancedRow ==
    ASSUME NEW r \in Runs, NEW row, NEW saved, GoodRun(r, row, saved),
           row.state = "leased", NEW i \in 0 .. OpCount(r) - 1, AtCursor(row, saved, i),
           OpAt(r, i).kind # "sleep", NEW v \in Value
    PROVE  GoodRun(r, [row EXCEPT !.step_index = i + 1, !.lease_failures = 0,
                                        !.output_json = Null],
                   [saved EXCEPT ![i] = v])
<1> DEFINE new == [row EXCEPT !.step_index = i + 1, !.lease_failures = 0, !.output_json = Null]
           kept == [saved EXCEPT ![i] = v]
<1>0. i \in Positions /\ i + 1 \in 0 .. MaxOps /\ v # Null
    BY OpFacts, NullAssumption
<1>1. new \in Row /\ kept \in [Positions -> Stored]
    BY <1>0, Zenon DEF GoodRun, Row, Stored
<1>2. RowShape(r, new)
    BY OpFacts DEF GoodRun, RunInv, RowShape, Row
<1>3. CursorMatches(r, new, kept)
  <2>1. new.step_index = i + 1
    BY DEF GoodRun, Row
  <2>2. kept[i] = v /\ \A j \in Positions : j # i => kept[j] = saved[j]
    BY <1>0 DEF GoodRun
  <2> HIDE DEF new, kept
  <2> QED
    BY <1>0, <2>1, <2>2, CursorAdvances
<1>4. OutputMatches(r, new, kept)
    BY DEF GoodRun, RunInv, OutputMatches, Row
<1>5. BudgetMatches(r, new)
    BY OpFacts DEF GoodRun, RunInv, BudgetMatches, Row, Unfinished
<1> QED
    BY <1>1, <1>2, <1>3, <1>4, <1>5 DEF GoodRun, RunInv

(***************************************************************************)
(* The last operation, when it is a step or a wait, is the output          *)
(* (compileWorkflow).                                                      *)
(***************************************************************************)
LEMMA LastIsOutput ==
    ASSUME NEW r \in Runs, NEW saved, OpAt(r, OpCount(r) - 1).kind # "sleep"
    PROVE  Output(r, saved) = saved[OpCount(r) - 1]
<1> DEFINE last == OpCount(r) - 1
           I == 0 .. OpCount(r) - 1
<1>1. last \in I /\ last \in Nat
    BY OpFacts
<1>2. IsOutputIndex(r, last)
    BY <1>1 DEF IsOutputIndex
<1>3. ASSUME NEW i \in I, IsOutputIndex(r, i)
      PROVE  i = last
    BY <1>1, <1>3 DEF IsOutputIndex
<1>4. (CHOOSE i \in I : IsOutputIndex(r, i)) = last
    BY <1>1, <1>2, <1>3
<1> QED
    BY <1>1, <1>2, <1>4, Zenon DEF Output

(***************************************************************************)
(* Giving up the lease leaves every other column of the row alone.         *)
(***************************************************************************)
LEMMA ReleasedRow ==
    ASSUME NEW row \in Row, NEW state \in {"ready", "waiting_event"} \cup Terminal
    PROVE  /\ Released(row, state) \in Row
           /\ Released(row, state).state = state
           /\ Released(row, state).lease_token = Null
           /\ Released(row, state).lease_until = Null
           /\ Released(row, state).step_index = row.step_index
           /\ Released(row, state).attempt = row.attempt
           /\ Released(row, state).lease_failures = row.lease_failures
           /\ Released(row, state).waiting_event_key = row.waiting_event_key
           /\ Released(row, state).waiting_deadline = row.waiting_deadline
           /\ Released(row, state).output_json = row.output_json
    BY Zenon DEF Released, Row, Unfinished, Terminal

(***************************************************************************)
(* The columns that commitStep writes next to the lease stay typed.        *)
(***************************************************************************)
LEMMA AdvancedIsRow ==
    ASSUME NEW row \in Row, NEW i \in 0 .. MaxOps, NEW v \in Stored
    PROVE  [row EXCEPT !.step_index = i, !.lease_failures = 0, !.output_json = v] \in Row
    BY Zenon DEF Row

(***************************************************************************)
(* The columns that parkSleep writes next to the lease stay typed.         *)
(***************************************************************************)
LEMMA SleepingIsRow ==
    ASSUME NEW row \in Row, NEW i \in 0 .. MaxOps
    PROVE  [row EXCEPT !.step_index = i, !.next_run_at = "future", !.lease_failures = 0] \in Row
<1>1. "future" \in Time
    BY DEF Time
<1> QED
    BY <1>1, Zenon DEF Row

(***************************************************************************)
(* commitStep records the value of the last operation and completes.       *)
(***************************************************************************)
LEMMA CommittedRow ==
    ASSUME NEW r \in Runs, NEW row, NEW saved, GoodRun(r, row, saved),
           row.state = "leased", NEW i \in 0 .. OpCount(r) - 1, i = OpCount(r) - 1,
           AtCursor(row, saved, i),
           OpAt(r, i).kind # "sleep", NEW v \in Value
    PROVE  GoodRun(r, [Released(row, "completed") EXCEPT !.step_index = i + 1,
                                                               !.lease_failures = 0,
                                                               !.output_json = v],
                   [saved EXCEPT ![i] = v])
<1> DEFINE new == [Released(row, "completed") EXCEPT !.step_index = i + 1,
                                                     !.lease_failures = 0,
                                                     !.output_json = v]
           kept == [saved EXCEPT ![i] = v]
<1>0. i \in Positions /\ i + 1 \in 0 .. MaxOps /\ v # Null /\ i + 1 = OpCount(r)
    BY OpFacts, NullAssumption
<1>a. Released(row, "completed") \in Row
    BY ReleasedRow DEF GoodRun, Terminal
<1>b. /\ new.state = "completed" /\ new.lease_token = Null /\ new.lease_until = Null
      /\ new.step_index = i + 1 /\ new.lease_failures = 0 /\ new.output_json = v
      /\ new.attempt = row.attempt
      /\ new.waiting_event_key = row.waiting_event_key
      /\ new.waiting_deadline = row.waiting_deadline
    BY ReleasedRow DEF GoodRun, Terminal, Row
<1>d. v \in Stored
    BY DEF Stored
<1>c. new \in Row
    BY <1>0, <1>a, <1>d, AdvancedIsRow, Zenon
<1>1. new \in Row /\ kept \in [Positions -> Stored] /\ kept[i] = v
    BY <1>0, <1>c DEF GoodRun, Stored
<1> HIDE DEF new
<1>2. RowShape(r, new)
    BY <1>0, <1>b, OpFacts DEF GoodRun, RunInv, RowShape, Row
<1>3. CursorMatches(r, new, kept)
  <2>1. \A j \in Positions : j # i => kept[j] = saved[j]
    BY DEF GoodRun
  <2> HIDE DEF kept
  <2> QED
    BY <1>0, <1>1, <1>b, <2>1, CursorAdvances
<1>4. OutputMatches(r, new, kept)
  <2>1. Output(r, kept) = kept[i]
    BY LastIsOutput, Zenon
  <2> QED
    BY <2>1, <1>0, <1>1, <1>b DEF OutputMatches
<1>5. BudgetMatches(r, new)
    BY <1>b, OpFacts DEF GoodRun, RunInv, BudgetMatches, Row, Unfinished
<1> QED
    BY <1>1, <1>2, <1>3, <1>4, <1>5 DEF GoodRun, RunInv, new

(***************************************************************************)
(* completeRun finishes a run that has no operation left.                  *)
(***************************************************************************)
LEMMA CompletedRow ==
    ASSUME NEW r \in Runs, NEW row, NEW saved, GoodRun(r, row, saved),
           row.state = "leased", AtCursor(row, saved, OpCount(r))
    PROVE  GoodRun(r, [Released(row, "completed") EXCEPT !.step_index = OpCount(r),
                                                               !.output_json = Output(r, saved)],
                   saved)
<1> DEFINE new == [Released(row, "completed") EXCEPT !.step_index = OpCount(r),
                                                     !.output_json = Output(r, saved)]
<1>0. OpCount(r) \in 0 .. MaxOps
    BY OpFacts
<1>a. Released(row, "completed") \in Row
    BY ReleasedRow DEF GoodRun, Terminal
<1>b. /\ new.state = "completed" /\ new.lease_token = Null /\ new.lease_until = Null
      /\ new.step_index = OpCount(r) /\ new.output_json = Output(r, saved)
      /\ new.attempt = row.attempt /\ new.lease_failures = row.lease_failures
      /\ new.waiting_event_key = row.waiting_event_key
      /\ new.waiting_deadline = row.waiting_deadline
    BY ReleasedRow DEF GoodRun, Terminal, Row
<1>c. Output(r, saved) \in Stored
  <2> DEFINE I == 0 .. OpCount(r) - 1
  <2>1. CASE \E i \in I : IsOutputIndex(r, i)
    <3>1. (CHOOSE i \in I : IsOutputIndex(r, i)) \in I
        BY <2>1
    <3> QED
        BY <2>1, <3>1, OpFacts DEF Output, GoodRun
  <2>2. CASE ~ \E i \in I : IsOutputIndex(r, i)
    BY <2>2 DEF Output, Stored
  <2> QED
    BY <2>1, <2>2
<1>1. new \in Row
    BY <1>0, <1>a, <1>c, Zenon DEF Row
<1> HIDE DEF new
<1>2. RowShape(r, new)
    BY <1>0, <1>b, OpFacts DEF GoodRun, RunInv, RowShape, Row
<1>3. CursorMatches(r, new, saved)
  <2> DEFINE n == row.step_index
  <2>1. /\ n \in Nat /\ OpCount(r) \in Nat /\ MaxOps \in Nat
        /\ OpCount(r) = n \/ (OpCount(r) = n + 1 /\ saved[n] # Null)
    BY RowFacts, OpFacts, CountIsNat DEF GoodRun, AtCursor
  <2>2. /\ \A i \in 0 .. OpCount(r) - 1 : i < n => (saved[i] # Null <=> OpAt(r, i).kind # "sleep")
        /\ \A i \in Positions : saved[i] # Null => i <= n
        /\ n \in Positions /\ saved[n] # Null => n < OpCount(r) /\ OpAt(r, n).kind = "wait_event"
    BY Zenon DEF GoodRun, RunInv, CursorMatches
  <2> HIDE DEF n
  <2>3. ASSUME NEW i \in 0 .. OpCount(r) - 1
        PROVE  saved[i] # Null <=> OpAt(r, i).kind # "sleep"
    <3>1. i < n \/ (i = n /\ saved[n] # Null)
      BY <2>1
    <3>2. i \in Positions
      BY OpFacts
    <3> QED
      BY <2>2, <3>1, <3>2, Zenon
  <2>4. ASSUME NEW i \in Positions, saved[i] # Null PROVE i < OpCount(r)
    <3>1. i \in Nat /\ i <= n
      BY <2>1, <2>2, <2>4 DEF Positions
    <3>2. CASE i = n
      BY <2>2, <2>4, <3>2
    <3>3. CASE i # n
      BY <2>1, <3>1, <3>3
    <3> QED
      BY <3>2, <3>3
  <2>5. \A i \in Positions : i \in Nat
    BY <2>1 DEF Positions
  <2> QED
    BY <1>b, <2>1, <2>3, <2>4, <2>5 DEF CursorMatches
<1>4. OutputMatches(r, new, saved)
    BY <1>b DEF OutputMatches
<1>5. BudgetMatches(r, new)
    BY <1>b, OpFacts DEF GoodRun, RunInv, BudgetMatches, Row, Unfinished
<1> QED
    BY <1>1, <1>2, <1>3, <1>4, <1>5 DEF GoodRun, RunInv, new

(***************************************************************************)
(* parkSleep moves the cursor past the sleep at position i.                *)
(***************************************************************************)
LEMMA SleepingRow ==
    ASSUME NEW r \in Runs, NEW row, NEW saved, GoodRun(r, row, saved),
           row.state = "leased", NEW i \in 0 .. OpCount(r) - 1, AtCursor(row, saved, i),
           OpAt(r, i).kind = "sleep"
    PROVE  GoodRun(r, [Released(row, "ready") EXCEPT !.step_index = i + 1,
                                                           !.next_run_at = "future",
                                                           !.lease_failures = 0], saved)
<1> DEFINE new == [Released(row, "ready") EXCEPT !.step_index = i + 1,
                                                 !.next_run_at = "future",
                                                 !.lease_failures = 0]
<1>0. i \in Positions /\ i + 1 \in 0 .. MaxOps
    BY OpFacts
<1>a. Released(row, "ready") \in Row
    BY ReleasedRow DEF GoodRun
<1>b. /\ new.state = "ready" /\ new.lease_token = Null /\ new.lease_until = Null
      /\ new.step_index = i + 1 /\ new.lease_failures = 0
      /\ new.output_json = row.output_json /\ new.attempt = row.attempt
      /\ new.waiting_event_key = row.waiting_event_key
      /\ new.waiting_deadline = row.waiting_deadline
    BY ReleasedRow DEF GoodRun, Row
<1>1. new \in Row
    BY <1>0, <1>a, SleepingIsRow, Zenon
<1> HIDE DEF new
<1>2. RowShape(r, new)
    BY <1>0, <1>b, OpFacts DEF GoodRun, RunInv, RowShape, Row
<1>3. CursorMatches(r, new, saved)
  <2>1. saved[i] = Null
    BY <1>0, WorkflowAssumption DEF GoodRun, RunInv, CursorMatches, AtCursor, Row
  <2> QED
    BY <1>b, <2>1, CursorAdvances
<1>4. OutputMatches(r, new, saved)
    BY <1>b DEF GoodRun, RunInv, OutputMatches
<1>5. BudgetMatches(r, new)
    BY <1>b, OpFacts DEF GoodRun, RunInv, BudgetMatches, Row, Unfinished
<1> QED
    BY <1>1, <1>2, <1>3, <1>4, <1>5 DEF GoodRun, RunInv, new

(***************************************************************************)
(* parkWait leaves the cursor on the wait at position i.                   *)
(***************************************************************************)
LEMMA WaitingRow ==
    ASSUME NEW r \in Runs, NEW row, NEW saved, GoodRun(r, row, saved),
           row.state = "leased", NEW i \in 0 .. OpCount(r) - 1, AtCursor(row, saved, i),
           OpAt(r, i).kind = "wait_event"
    PROVE  GoodRun(r, [Released(row, "waiting_event") EXCEPT
                                 !.step_index = i, !.waiting_event_key = OpAt(r, i).key,
                                 !.waiting_deadline = "future", !.lease_failures = 0], saved)
<1> DEFINE new == [Released(row, "waiting_event") EXCEPT
                       !.step_index = i, !.waiting_event_key = OpAt(r, i).key,
                       !.waiting_deadline = "future", !.lease_failures = 0]
<1>0. /\ i \in Positions /\ i \in 0 .. MaxOps /\ OpAt(r, i).key \in Keys
      /\ OpAt(r, i).key # Null
    BY OpFacts, NullAssumption
<1>a. Released(row, "waiting_event") \in Row
    BY ReleasedRow DEF GoodRun
<1>b. /\ new.state = "waiting_event" /\ new.lease_token = Null /\ new.lease_until = Null
      /\ new.step_index = i /\ new.lease_failures = 0
      /\ new.output_json = row.output_json /\ new.attempt = row.attempt
      /\ new.waiting_event_key = OpAt(r, i).key
      /\ new.waiting_deadline = "future"
    BY ReleasedRow DEF GoodRun, Row
<1>1. new \in Row
    BY <1>0, <1>a, Zenon DEF Row, Time
<1> HIDE DEF new
<1>2. RowShape(r, new)
    BY <1>0, <1>b, OpFacts, RunStoreAssumption DEF RowShape
<1>3. CursorMatches(r, new, saved)
    BY <1>0, <1>b, OpFacts DEF GoodRun, RunInv, RowShape, CursorMatches, Row, AtCursor,
        Positions
<1>4. OutputMatches(r, new, saved)
    BY <1>b DEF GoodRun, RunInv, OutputMatches
<1>5. BudgetMatches(r, new)
    BY <1>b, OpFacts DEF GoodRun, RunInv, BudgetMatches, Row, Unfinished
<1> QED
    BY <1>1, <1>2, <1>3, <1>4, <1>5 DEF GoodRun, RunInv, new

(***************************************************************************)
(* failOrRetry charges one attempt.                                        *)
(***************************************************************************)
LEMMA FailedRow ==
    ASSUME NEW r \in Runs, NEW row, NEW saved, GoodRun(r, row, saved),
           row.state = "leased"
    PROVE  GoodRun(r, [Released(row, IF row.attempt + 1 >= MaxAttempts[r]
                                           THEN "failed" ELSE "ready") EXCEPT
                                 !.attempt = row.attempt + 1, !.next_run_at = "future"], saved)
<1> DEFINE state == IF row.attempt + 1 >= MaxAttempts[r] THEN "failed" ELSE "ready"
           new == [Released(row, state) EXCEPT
                       !.attempt = row.attempt + 1, !.next_run_at = "future"]
<1>0. row.attempt + 1 \in Nat /\ state \in {"failed", "ready"}
    BY DEF GoodRun, Row
<1>s. state = "failed" <=> row.attempt + 1 >= MaxAttempts[r]
    OBVIOUS
<1> HIDE DEF state
<1>a. Released(row, state) \in Row
    BY <1>0, ReleasedRow DEF GoodRun, Terminal
<1>b. /\ new.state = state /\ new.lease_token = Null /\ new.lease_until = Null
      /\ new.step_index = row.step_index /\ new.lease_failures = row.lease_failures
      /\ new.output_json = row.output_json /\ new.attempt = row.attempt + 1
      /\ new.waiting_event_key = row.waiting_event_key
      /\ new.waiting_deadline = row.waiting_deadline
    BY <1>0, ReleasedRow DEF GoodRun, Terminal, Row
<1>1. new \in Row
    BY <1>0, <1>a, Zenon DEF Row, Time
<1> HIDE DEF new
<1>2. RowShape(r, new)
    BY <1>0, <1>b DEF GoodRun, RunInv, RowShape
<1>3. CursorMatches(r, new, saved)
    BY <1>0, <1>b DEF GoodRun, RunInv, CursorMatches
<1>4. OutputMatches(r, new, saved)
    BY <1>0, <1>b DEF GoodRun, RunInv, OutputMatches
<1>5. BudgetMatches(r, new)
    BY <1>0, <1>b, <1>s, OpFacts DEF GoodRun, RunInv, BudgetMatches, Row, Unfinished
<1> QED
    BY <1>1, <1>2, <1>3, <1>4, <1>5 DEF GoodRun, RunInv, new, state

(***************************************************************************)
(* recoverLeases charges one lease failure.                                *)
(***************************************************************************)
LEMMA RecoveredRow ==
    ASSUME NEW r \in Runs, NEW row, NEW saved, GoodRun(r, row, saved),
           row.state = "leased"
    PROVE  GoodRun(r, [Released(row, IF row.lease_failures + 1 >= MaxAttempts[r]
                                           THEN "failed" ELSE "ready") EXCEPT
                                 !.lease_failures = row.lease_failures + 1,
                                 !.next_run_at = "future"], saved)
<1> DEFINE state == IF row.lease_failures + 1 >= MaxAttempts[r] THEN "failed" ELSE "ready"
           new == [Released(row, state) EXCEPT
                       !.lease_failures = row.lease_failures + 1, !.next_run_at = "future"]
<1>0. row.lease_failures + 1 \in Nat /\ state \in {"failed", "ready"}
    BY DEF GoodRun, Row
<1>s. state = "failed" <=> row.lease_failures + 1 >= MaxAttempts[r]
    OBVIOUS
<1> HIDE DEF state
<1>a. Released(row, state) \in Row
    BY <1>0, ReleasedRow DEF GoodRun, Terminal
<1>b. /\ new.state = state /\ new.lease_token = Null /\ new.lease_until = Null
      /\ new.step_index = row.step_index /\ new.lease_failures = row.lease_failures + 1
      /\ new.output_json = row.output_json /\ new.attempt = row.attempt
      /\ new.waiting_event_key = row.waiting_event_key
      /\ new.waiting_deadline = row.waiting_deadline
    BY <1>0, ReleasedRow DEF GoodRun, Terminal, Row
<1>1. new \in Row
    BY <1>0, <1>a, Zenon DEF Row, Time
<1> HIDE DEF new
<1>2. RowShape(r, new)
    BY <1>0, <1>b DEF GoodRun, RunInv, RowShape
<1>3. CursorMatches(r, new, saved)
    BY <1>0, <1>b DEF GoodRun, RunInv, CursorMatches
<1>4. OutputMatches(r, new, saved)
    BY <1>0, <1>b DEF GoodRun, RunInv, OutputMatches
<1>5. BudgetMatches(r, new)
    BY <1>0, <1>b, <1>s, OpFacts DEF GoodRun, RunInv, BudgetMatches, Row, Unfinished
<1> QED
    BY <1>1, <1>2, <1>3, <1>4, <1>5 DEF GoodRun, RunInv, new, state

(***************************************************************************)
(* Cancel ends an unfinished run.                                          *)
(***************************************************************************)
LEMMA CancelledRow ==
    ASSUME NEW r \in Runs, NEW row, NEW saved, GoodRun(r, row, saved),
           row.state \in Unfinished
    PROVE  GoodRun(r, [Released(row, "cancelled") EXCEPT !.waiting_event_key = Null,
                                                               !.waiting_deadline = Null], saved)
<1> DEFINE new == [Released(row, "cancelled") EXCEPT !.waiting_event_key = Null,
                                                     !.waiting_deadline = Null]
<1>a. Released(row, "cancelled") \in Row
    BY ReleasedRow DEF GoodRun, Terminal
<1>b. /\ new.state = "cancelled" /\ new.lease_token = Null /\ new.lease_until = Null
      /\ new.step_index = row.step_index /\ new.lease_failures = row.lease_failures
      /\ new.output_json = row.output_json /\ new.attempt = row.attempt
      /\ new.waiting_event_key = Null /\ new.waiting_deadline = Null
    BY ReleasedRow DEF GoodRun, Terminal, Row
<1>1. new \in Row
    BY <1>a, Zenon DEF Row
<1> HIDE DEF new
<1>2. RowShape(r, new)
    BY <1>b DEF GoodRun, RunInv, RowShape
<1>3. CursorMatches(r, new, saved)
    BY <1>b DEF GoodRun, RunInv, CursorMatches
<1>4. OutputMatches(r, new, saved)
    BY <1>b DEF GoodRun, RunInv, OutputMatches, Unfinished
<1>5. BudgetMatches(r, new)
    BY <1>b DEF GoodRun, RunInv, BudgetMatches, Unfinished
<1> QED
    BY <1>1, <1>2, <1>3, <1>4, <1>5 DEF GoodRun, RunInv, new

(***************************************************************************)
(* insertRun creates a row; an absent run has no checkpoints.              *)
(***************************************************************************)
LEMMA InsertedRow ==
    ASSUME NEW r \in Runs, NEW row, NEW saved, GoodRun(r, row, saved),
           row.state = "absent", NEW due \in Time
    PROVE  GoodRun(r, NewRow("ready", due), saved)
<1> DEFINE new == NewRow("ready", due)
<1>0. row.step_index = 0 /\ row.output_json = Null
    BY DEF GoodRun, RunInv, RowShape, NewRow
<1>1. new \in Row
    BY OpFacts DEF Row, NewRow, Unfinished, Stored
<1>2. RowShape(r, new)
    BY OpFacts DEF RowShape, NewRow
<1>3. CursorMatches(r, new, saved)
    BY <1>0 DEF GoodRun, RunInv, CursorMatches, NewRow
<1>4. OutputMatches(r, new, saved)
    BY DEF OutputMatches, NewRow
<1>5. BudgetMatches(r, new)
    BY OpFacts DEF BudgetMatches, NewRow
<1> QED
    BY <1>1, <1>2, <1>3, <1>4, <1>5 DEF GoodRun, RunInv

(***************************************************************************)
(* emitEvent and promoteTimedOut resume a waiting run and store the        *)
(* outcome of its wait at the cursor.                                      *)
(***************************************************************************)
LEMMA ResumedRow ==
    ASSUME NEW r \in Runs, NEW row, NEW saved, GoodRun(r, row, saved),
           row.state = "waiting_event", NEW v \in Value
    PROVE  /\ GoodRun(r, Resumed(row), [saved EXCEPT ![row.step_index] = v])
           /\ row.step_index \in Positions
           /\ Resumed(row).state = "ready"
           /\ Resumed(row).lease_token = Null
           /\ Resumed(row).attempt = row.attempt
           /\ Resumed(row).step_index = row.step_index
           /\ Resumed(row).output_json = row.output_json
<1> DEFINE new == Resumed(row)
           i == row.step_index
           kept == [saved EXCEPT ![i] = v]
<1>0. /\ i \in 0 .. OpCount(r) - 1 /\ i \in Positions
      /\ OpAt(r, i).kind = "wait_event" /\ v # Null
  <2>1. row \in Row /\ i < OpCount(r) /\ OpAt(r, i).kind = "wait_event"
    BY DEF GoodRun, RunInv, RowShape
  <2>2. i \in Nat /\ OpCount(r) \in Nat
    BY <2>1, RowFacts, OpFacts
  <2>3. i \in 0 .. OpCount(r) - 1
    BY <2>1, <2>2
  <2> QED
    BY <2>1, <2>3, OpFacts, NullAssumption
<1>b. /\ new.state = "ready" /\ new.lease_token = Null /\ new.lease_until = Null
      /\ new.step_index = row.step_index /\ new.lease_failures = row.lease_failures
      /\ new.output_json = row.output_json /\ new.attempt = row.attempt
      /\ new.waiting_event_key = Null /\ new.waiting_deadline = Null
    BY DEF GoodRun, RunInv, RowShape, Resumed, Row
<1>1. new \in Row
    BY Zenon DEF GoodRun, Resumed, Row, Unfinished, Time
<1>c. kept \in [Positions -> Stored] /\ kept[i] = v
    BY <1>0 DEF GoodRun, Stored
<1> HIDE DEF new
<1>2. RowShape(r, new)
    BY <1>b DEF GoodRun, RunInv, RowShape
<1>3. CursorMatches(r, new, kept)
  <2>1. \A j \in Positions : j # i => kept[j] = saved[j]
    BY DEF GoodRun
  <2>2. CursorMatches(r, row, saved)
    BY DEF GoodRun, RunInv
  <2> HIDE DEF kept
  <2>3. \A j \in 0 .. OpCount(r) - 1 :
           j < i => (kept[j] # Null <=> OpAt(r, j).kind # "sleep")
    BY <2>1, <2>2, <1>0, OpFacts DEF CursorMatches
  <2>4. \A j \in Positions : kept[j] # Null => j <= i
    BY <2>1, <2>2, <1>0 DEF CursorMatches, Positions
  <2> QED
    BY <2>3, <2>4, <1>0, <1>b, OpFacts DEF CursorMatches
<1>4. OutputMatches(r, new, kept)
    BY <1>b DEF GoodRun, RunInv, OutputMatches
<1>5. BudgetMatches(r, new)
    BY <1>b DEF GoodRun, RunInv, BudgetMatches, Unfinished
<1> QED
    BY <1>0, <1>b, <1>c, <1>1, <1>2, <1>3, <1>4, <1>5, Zenon DEF GoodRun, RunInv, new

(***************************************************************************)
(* The clock passes a due time, a lease or a deadline.                     *)
(***************************************************************************)
LEMMA ClockedRow ==
    ASSUME NEW r \in Runs, NEW row, NEW saved, GoodRun(r, row, saved)
    PROVE  /\ row.state = "ready" =>
                 GoodRun(r, [row EXCEPT !.next_run_at = "past"], saved)
           /\ row.lease_until = "future" =>
                 GoodRun(r, [row EXCEPT !.lease_until = "past"], saved)
           /\ row.waiting_deadline = "future" =>
                 GoodRun(r, [row EXCEPT !.waiting_deadline = "past"], saved)
<1>1. ASSUME row.state = "ready"
      PROVE  GoodRun(r, [row EXCEPT !.next_run_at = "past"], saved)
    BY <1>1 DEF GoodRun, RunInv, Row, Time, RowShape, CursorMatches, OutputMatches,
        BudgetMatches
<1>2. ASSUME row.lease_until = "future"
      PROVE  GoodRun(r, [row EXCEPT !.lease_until = "past"], saved)
    BY <1>2, RunStoreAssumption DEF GoodRun, RunInv, Row, Time, RowShape, CursorMatches,
        OutputMatches, BudgetMatches, NewRow
<1>3. ASSUME row.waiting_deadline = "future"
      PROVE  GoodRun(r, [row EXCEPT !.waiting_deadline = "past"], saved)
    BY <1>3, RunStoreAssumption DEF GoodRun, RunInv, Row, Time, RowShape, CursorMatches,
        OutputMatches, BudgetMatches, NewRow
<1> QED
    BY <1>1, <1>2, <1>3

-----------------------------------------------------------------------------
(* The invariant, grouped by what a step changes: one row, one claim.      *)

\* The part of the invariant that concerns the tables.
StoreInv ==
    /\ StoreTypeOK
    /\ \A r \in Runs : RunInv(r, runs[r], checkpoints[r])
    /\ TokensAreUnique
    /\ NoMissedEvent

\* The part of the invariant that concerns the claim with token t.
ClaimInv(t) ==
    /\ ClaimShape(t)
    /\ claims[t].pc = "park" => LiveEvents(KeyOf(t)) = {}
    /\ \A r \in Runs :
          Active(t) /\ Holds(t, r) =>
              /\ RunOf(t) = r
              /\ claims[t].attempt = runs[r].attempt
              /\ claims[t].pc # "fail" =>
                    /\ Knows(r, IndexOf(t), claims[t].values, checkpoints[r])
                    /\ AtCursor(runs[r], checkpoints[r], IndexOf(t))

\* IndInv in another order, but for the snapshots of claim statements.
WorkerInv ==
    /\ StoreInv
    /\ claims \in [Tokens -> Claim]
    /\ key_lock \in [Keys -> Holders \cup {Null}]
    /\ \A t \in Tokens : ClaimInv(t)

(***************************************************************************)
(* A statement that updates one row and its checkpoints.                   *)
(***************************************************************************)
LEMMA RowChange ==
    ASSUME StoreInv, NEW r \in Runs, NEW row, NEW saved,
           GoodRun(r, row, saved),
           runs' = [runs EXCEPT ![r] = row],
           checkpoints' = [checkpoints EXCEPT ![r] = saved],
           event_log' = event_log,
           \/ row.lease_token = Null
           \/ \A s \in Runs \ {r} : runs[s].lease_token # row.lease_token,
           row.state = "waiting_event" /\ row.waiting_deadline = "future" =>
               LiveEvents(row.waiting_event_key) = {}
    PROVE  StoreInv'
<1>0. /\ runs'[r] = row /\ checkpoints'[r] = saved
      /\ \A s \in Runs \ {r} : runs'[s] = runs[s] /\ checkpoints'[s] = checkpoints[s]
    BY DEF StoreInv, StoreTypeOK
<1>1. StoreTypeOK'
    BY DEF StoreInv, StoreTypeOK, GoodRun
<1>2. \A s \in Runs : RunInv(s, runs'[s], checkpoints'[s])
    BY <1>0 DEF StoreInv, GoodRun
<1>3. TokensAreUnique'
    BY <1>0 DEF StoreInv, TokensAreUnique
<1>4. NoMissedEvent'
    BY <1>0 DEF StoreInv, NoMissedEvent, LiveEvents
<1> QED
    BY <1>1, <1>2, <1>3, <1>4, Zenon DEF StoreInv, RunInv, RowShape, CursorMatches, OutputMatches,
        BudgetMatches

(***************************************************************************)
(* Inside waitForEvent's transaction a claim is at a wait.                 *)
(***************************************************************************)
LEMMA WaitKey ==
    ASSUME NEW t \in Tokens, claims \in [Tokens -> Claim], ClaimShape(t),
           claims[t].pc \in InWaitTx
    PROVE  /\ RunOf(t) \in Runs
           /\ IndexOf(t) \in 0 .. OpCount(RunOf(t)) - 1
           /\ KeyOf(t) \in Keys
           /\ key_lock[KeyOf(t)] = t
<1>1. /\ RunOf(t) \in Runs /\ IndexOf(t) \in Nat /\ IndexOf(t) < OpCount(RunOf(t))
      /\ OpAt(RunOf(t), IndexOf(t)).kind = "wait_event"
      /\ key_lock[KeyOf(t)] = t
    BY DEF ClaimShape, Active, InWaitTx, Claim, IndexOf
<1>2. IndexOf(t) \in 0 .. OpCount(RunOf(t)) - 1
    BY <1>1, OpFacts
<1> QED
    BY <1>1, <1>2, OpFacts DEF KeyOf

(***************************************************************************)
(* A claim that does not take the step keeps its part of the invariant, as *)
(* long as nobody takes its key lock or touches a run it holds.            *)
(***************************************************************************)
LEMMA ClaimFrame ==
    ASSUME NEW t \in Tokens, claims \in [Tokens -> Claim], ClaimInv(t),
           claims'[t] = claims[t],
           \A k \in Keys : key_lock[k] = t => key_lock'[k] = t,
           claims[t].pc = "park" => LiveEvents(KeyOf(t))' \subseteq LiveEvents(KeyOf(t)),
           \A r \in Runs : Holds(t, r)' =>
               /\ Holds(t, r)
               /\ runs'[r].attempt = runs[r].attempt
               /\ runs'[r].step_index = runs[r].step_index
               /\ checkpoints'[r] = checkpoints[r]
    PROVE  ClaimInv(t)'
<1>1. Active(t)' = Active(t) /\ RunOf(t)' = RunOf(t) /\ IndexOf(t)' = IndexOf(t)
      /\ KeyOf(t)' = KeyOf(t)
    BY Zenon DEF Active, RunOf, IndexOf, KeyOf
<1>2. ClaimShape(t)'
    BY <1>1, WaitKey, Zenon DEF ClaimInv, ClaimShape
<1>3. claims'[t].pc = "park" => LiveEvents(KeyOf(t))' = {}
    BY Zenon DEF ClaimInv
<1>4. \A r \in Runs : Active(t)' /\ Holds(t, r)' =>
              /\ RunOf(t)' = r
              /\ claims'[t].attempt = runs'[r].attempt
              /\ claims'[t].pc # "fail" =>
                    /\ Knows(r, IndexOf(t)', claims'[t].values, checkpoints'[r])
                    /\ AtCursor(runs'[r], checkpoints'[r], IndexOf(t)')
  <2> SUFFICES ASSUME NEW r \in Runs, Active(t)', Holds(t, r)'
               PROVE  /\ RunOf(t)' = r
                      /\ claims'[t].attempt = runs'[r].attempt
                      /\ claims'[t].pc # "fail" =>
                            /\ Knows(r, IndexOf(t)', claims'[t].values,
                                     checkpoints'[r])
                            /\ AtCursor(runs'[r], checkpoints'[r], IndexOf(t)')
    BY Zenon
  <2>1. /\ Holds(t, r) /\ runs'[r].attempt = runs[r].attempt
        /\ runs'[r].step_index = runs[r].step_index /\ checkpoints'[r] = checkpoints[r]
    OBVIOUS
  <2>2. /\ RunOf(t) = r /\ claims[t].attempt = runs[r].attempt
        /\ claims[t].pc # "fail" =>
              /\ Knows(r, IndexOf(t), claims[t].values, checkpoints[r])
              /\ AtCursor(runs[r], checkpoints[r], IndexOf(t))
    BY <1>1, <2>1, Zenon DEF ClaimInv
  <2> QED
    BY <1>1, <2>1, <2>2, Zenon DEF AtCursor
<1> QED
    BY <1>2, <1>3, <1>4, Zenon DEF ClaimInv, AtCursor, Knows

(***************************************************************************)
(* Only the fields of an exiting goroutine's entry change.                 *)
(***************************************************************************)
LEMMA ExitClaim ==
    ASSUME NEW t \in Tokens, claims'[t] = IdleClaim
    PROVE  ClaimInv(t)' /\ IdleClaim \in Claim
<1>1. claims'[t].pc = "idle"
    BY DEF IdleClaim
<1>2. IdleClaim \in Claim
    BY WorkflowAssumption DEF IdleClaim, Claim, NoValues, PC, Stored
<1> QED
    BY <1>1, <1>2, Zenon DEF ClaimInv, ClaimShape, Active

(***************************************************************************)
(* A goroutine whose drive returned an error only needs to know its run    *)
(* and the attempt it charges.                                             *)
(***************************************************************************)
LEMMA FailingClaim ==
    ASSUME NEW t \in Tokens, claims \in [Tokens -> Claim], ClaimInv(t),
           Active(t), Goto(t, "fail"),
           \A r \in Runs : Holds(t, r)' => Holds(t, r) /\ runs'[r].attempt = runs[r].attempt
    PROVE  ClaimInv(t)' /\ claims' \in [Tokens -> Claim]
<1> DEFINE c == [claims[t] EXCEPT !.pc = "fail", !.result = Null]
<1>1. claims' = [claims EXCEPT ![t] = c] /\ claims'[t] = c
    BY DEF Goto
<1>2. c \in Claim
    BY Zenon DEF Claim, PC, Stored
<1>3. /\ claims'[t].pc = "fail" /\ claims'[t].run = claims[t].run
      /\ claims'[t].index = claims[t].index /\ claims'[t].attempt = claims[t].attempt
    BY <1>1 DEF Claim
<1>4. ClaimShape(t)'
    BY <1>3, Zenon DEF ClaimInv, ClaimShape, Active, RunOf, IndexOf, InWaitTx
<1> QED
    BY <1>1, <1>2, <1>3, <1>4 DEF ClaimInv, RunOf

(***************************************************************************)
(* A step of claim t that does not touch the tables.                       *)
(***************************************************************************)
LEMMA LocalStep ==
    ASSUME WorkerInv, NEW t \in Tokens, UNCHANGED store,
           claims' \in [Tokens -> Claim],
           \A u \in Tokens \ {t} : claims'[u] = claims[u],
           key_lock' \in [Keys -> Holders \cup {Null}],
           \A k \in Keys, u \in Tokens \ {t} : key_lock[k] = u => key_lock'[k] = u,
           ClaimInv(t)'
    PROVE  WorkerInv'
<1>1. StoreInv'
  <2>1. StoreInv /\ runs' = runs /\ checkpoints' = checkpoints /\ event_log' = event_log
    BY DEF WorkerInv, store
  <2>2. StoreTypeOK' /\ TokensAreUnique' /\ NoMissedEvent'
    BY <2>1, Zenon DEF StoreInv, StoreTypeOK, TokensAreUnique, NoMissedEvent, LiveEvents
  <2>3. \A r \in Runs : RunInv(r, runs[r], checkpoints[r])'
    <3> SUFFICES ASSUME NEW r \in Runs PROVE RunInv(r, runs[r], checkpoints[r])'
      OBVIOUS
    <3>1. RunInv(r, runs[r], checkpoints[r])
      BY <2>1 DEF StoreInv
    <3>2. RowShape(r, runs[r])' /\ BudgetMatches(r, runs[r])'
      BY <2>1, <3>1, Zenon DEF RunInv, RowShape, BudgetMatches
    <3>3. CursorMatches(r, runs[r], checkpoints[r])'
      BY <2>1, <3>1, Zenon DEF RunInv, CursorMatches
    <3>4. OutputMatches(r, runs[r], checkpoints[r])'
      BY <2>1, <3>1, Zenon DEF RunInv, OutputMatches
    <3> QED
      BY <3>2, <3>3, <3>4, Zenon DEF RunInv
  <2> QED
    BY <2>2, <2>3, Zenon DEF StoreInv
<1>2. ASSUME NEW u \in Tokens \ {t} PROVE ClaimInv(u)'
    BY ClaimFrame, Zenon DEF WorkerInv, Holds, LiveEvents, store, KeyOf, RunOf, IndexOf
<1> QED
    BY <1>1, <1>2 DEF WorkerInv

(***************************************************************************)
(* A statement of claim t that changes row r, and keeps the lease for t or *)
(* gives it up.                                                            *)
(***************************************************************************)
LEMMA StatementStep ==
    ASSUME WorkerInv, NEW t \in Tokens, NEW r \in Runs, NEW row, NEW saved,
           GoodRun(r, row, saved),
           runs' = [runs EXCEPT ![r] = row],
           checkpoints' = [checkpoints EXCEPT ![r] = saved],
           event_log' = event_log,
           \/ row.lease_token = Null
           \/ /\ row.lease_token = t
              /\ \A s \in Runs \ {r} : runs[s].lease_token # t,
           row.state = "waiting_event" /\ row.waiting_deadline = "future" =>
               LiveEvents(row.waiting_event_key) = {},
           claims' \in [Tokens -> Claim],
           \A u \in Tokens \ {t} : claims'[u] = claims[u],
           key_lock' \in [Keys -> Holders \cup {Null}],
           \A k \in Keys, u \in Tokens \ {t} : key_lock[k] = u => key_lock'[k] = u,
           ClaimInv(t)'
    PROVE  WorkerInv'
<1>0. StoreInv /\ claims \in [Tokens -> Claim] /\ \A u \in Tokens : ClaimInv(u)
    BY DEF WorkerInv
<1>1. StoreInv'
    BY <1>0, RowChange, Zenon
<1>2. ASSUME NEW u \in Tokens \ {t} PROVE ClaimInv(u)'
  <2>1. /\ runs'[r] = row
        /\ \A s \in Runs \ {r} : runs'[s] = runs[s] /\ checkpoints'[s] = checkpoints[s]
    BY <1>0, Zenon DEF StoreInv, StoreTypeOK
  <2>2. ~Holds(u, r)'
    BY <2>1, RunStoreAssumption DEF Holds
  <2>3. \A s \in Runs : Holds(u, s)' =>
            /\ Holds(u, s) /\ runs'[s].attempt = runs[s].attempt
            /\ runs'[s].step_index = runs[s].step_index
            /\ checkpoints'[s] = checkpoints[s]
    BY <2>1, <2>2, Zenon DEF Holds
  <2>4. LiveEvents(KeyOf(u))' = LiveEvents(KeyOf(u))
    BY Zenon DEF LiveEvents, KeyOf, RunOf, IndexOf
  <2>5. /\ claims'[u] = claims[u] /\ ClaimInv(u)
        /\ \A k \in Keys : key_lock[k] = u => key_lock'[k] = u
    BY <1>0, Zenon
  <2> QED
    <3>1. u \in Tokens /\ claims \in [Tokens -> Claim]
      BY <1>0, Zenon
    <3>2. LiveEvents(KeyOf(u))' \subseteq LiveEvents(KeyOf(u))
      BY <2>4, Zenon
    <3> QED
      BY <2>3, <2>5, <3>1, <3>2, ClaimFrame, ZenonT(60)
<1> QED
    BY <1>0, <1>1, <1>2 DEF WorkerInv

(***************************************************************************)
(* A statement that gives up row r's lease, if it has one, and leaves      *)
(* claims and locks alone (producers and maintenance).                     *)
(***************************************************************************)
LEMMA OutsideStep ==
    ASSUME WorkerInv, NEW r \in Runs, NEW row, NEW saved,
           GoodRun(r, row, saved),
           runs' = [runs EXCEPT ![r] = row],
           checkpoints' = [checkpoints EXCEPT ![r] = saved],
           row.lease_token = Null,
           row.state # "waiting_event",
           UNCHANGED <<event_log, claims, key_lock>>
    PROVE  WorkerInv'
<1>0. StoreInv /\ claims \in [Tokens -> Claim] /\ \A u \in Tokens : ClaimInv(u)
    BY DEF WorkerInv
<1>1. StoreInv'
    BY <1>0, RowChange, Zenon
<1>2. ASSUME NEW u \in Tokens PROVE ClaimInv(u)'
  <2>1. /\ runs'[r] = row
        /\ \A s \in Runs \ {r} : runs'[s] = runs[s] /\ checkpoints'[s] = checkpoints[s]
    BY <1>0 DEF StoreInv, StoreTypeOK
  <2>2. ~Holds(u, r)'
    BY <2>1, RunStoreAssumption DEF Holds
  <2>3. \A s \in Runs : Holds(u, s)' =>
            /\ Holds(u, s) /\ runs'[s].attempt = runs[s].attempt
            /\ runs'[s].step_index = runs[s].step_index
            /\ checkpoints'[s] = checkpoints[s]
    BY <2>1, <2>2 DEF Holds
  <2>4. LiveEvents(KeyOf(u))' = LiveEvents(KeyOf(u))
    BY DEF LiveEvents, KeyOf, RunOf, IndexOf
  <2>5. /\ claims'[u] = claims[u] /\ ClaimInv(u)
        /\ \A k \in Keys : key_lock[k] = u => key_lock'[k] = u
    BY <1>0
  <2> QED
    <3>1. u \in Tokens /\ claims \in [Tokens -> Claim]
      BY <1>0
    <3>2. LiveEvents(KeyOf(u))' \subseteq LiveEvents(KeyOf(u))
      BY <2>4
    <3> QED
      BY <2>3, <2>5, <3>1, <3>2, ClaimFrame, ZenonT(60)
<1> QED
    BY <1>0, <1>1, <1>2 DEF WorkerInv

-----------------------------------------------------------------------------
(* One lemma per action.                                                   *)

(***************************************************************************)
(* The empty tables satisfy the invariant.                                 *)
(***************************************************************************)
LEMMA InitInv ==
    ASSUME Init
    PROVE  WorkerInv
<1> DEFINE none == [i \in Positions |-> Null]
           absent == NewRow("absent", "past")
<1>1. /\ \A r \in Runs : runs[r] = absent /\ checkpoints[r] = none
      /\ event_log = {}
      /\ \A t \in Tokens : claims[t] = IdleClaim /\ claims[t].pc = "idle"
    BY DEF Init, StoreInit, IdleClaim
<1>2. /\ absent \in Row /\ absent.state = "absent" /\ absent.step_index = 0
      /\ absent.attempt = 0 /\ absent.lease_failures = 0
      /\ absent.lease_token = Null /\ absent.lease_until = Null
      /\ absent.waiting_event_key = Null /\ absent.waiting_deadline = Null
      /\ absent.output_json = Null
  <2>1. 0 \in 0 .. MaxOps
    BY WorkflowAssumption
  <2>2. absent \in Row
    BY <2>1 DEF NewRow, Row, Time, Unfinished, Stored
  <2> QED
    BY <2>2 DEF NewRow
<1> HIDE DEF absent
<1>3. StoreTypeOK
  <2>1. none \in [Positions -> Stored]
    BY DEF Stored
  <2>2. runs \in [Runs -> Row]
    BY <1>2 DEF Init, StoreInit, absent
  <2> QED
    BY <2>1, <2>2 DEF Init, StoreInit, StoreTypeOK
<1>4. ASSUME NEW r \in Runs PROVE RunInv(r, absent, none)
  <2>1. RowShape(r, absent)
    <3>1. absent.step_index <= OpCount(r)
      BY <1>2, OpFacts
    <3> QED
      BY <1>2, <3>1, Zenon DEF RowShape, absent
  <2>2. CursorMatches(r, absent, none)
    BY <1>2, OpFacts DEF CursorMatches
  <2>3. OutputMatches(r, absent, none) /\ BudgetMatches(r, absent)
    BY <1>2, OpFacts DEF OutputMatches, BudgetMatches, Unfinished
  <2> QED
    BY <2>1, <2>2, <2>3 DEF RunInv
<1>5. StoreInv
    BY <1>1, <1>2, <1>3, <1>4 DEF StoreInv, TokensAreUnique, NoMissedEvent
<1>6. IdleClaim \in Claim
    BY WorkflowAssumption DEF IdleClaim, Claim, NoValues, PC, Stored
<1>7. claims \in [Tokens -> Claim] /\ key_lock \in [Keys -> Holders \cup {Null}]
    BY <1>6 DEF Init
<1>8. \A t \in Tokens : ClaimInv(t)
    BY <1>1, Zenon DEF ClaimInv, ClaimShape, Active
<1> QED
    BY <1>5, <1>7, <1>8 DEF WorkerInv

(***************************************************************************)
(* The position in drive's loop is a number.                               *)
(***************************************************************************)
LEMMA IndexIsNat ==
    ASSUME NEW t \in Tokens, claims[t] \in Claim
    PROVE  IndexOf(t) \in Nat
<1>1. IndexOf(t) \in 0 .. MaxOps
    BY DEF IndexOf, Claim
<1> QED
    BY <1>1, WorkflowAssumption

(***************************************************************************)
(* What a claim knows when its statement passes the fence.                 *)
(***************************************************************************)
LEMMA Fenced ==
    ASSUME WorkerInv, NEW t \in Tokens, Active(t), Fence(RunOf(t), t)
    PROVE  /\ RunOf(t) \in Runs
           /\ IndexOf(t) \in 0 .. OpCount(RunOf(t))
           /\ GoodRun(RunOf(t), runs[RunOf(t)], checkpoints[RunOf(t)])
           /\ runs[RunOf(t)].state = "leased"
           /\ runs[RunOf(t)].lease_token = t
           /\ Holds(t, RunOf(t))
           /\ claims[t] \in Claim
           /\ ClaimInv(t)
           /\ \A s \in Runs \ {RunOf(t)} : runs[s].lease_token # t
           /\ claims[t].attempt = runs[RunOf(t)].attempt
           /\ claims[t].pc # "fail" =>
                 /\ Knows(RunOf(t), IndexOf(t), claims[t].values,
                          checkpoints[RunOf(t)])
                 /\ AtCursor(runs[RunOf(t)], checkpoints[RunOf(t)], IndexOf(t))
<1>1. ClaimInv(t) /\ claims[t] \in Claim /\ RunOf(t) \in Runs
    BY Zenon DEF WorkerInv, ClaimInv, ClaimShape
<1>2. IndexOf(t) \in 0 .. OpCount(RunOf(t))
  <2>1. IndexOf(t) \in Nat /\ OpCount(RunOf(t)) \in Nat
    BY <1>1, IndexIsNat, CountIsNat
  <2>2. IndexOf(t) <= OpCount(RunOf(t))
    BY <1>1, Zenon DEF ClaimInv, ClaimShape
  <2> QED
    BY <2>1, <2>2
<1>3. GoodRun(RunOf(t), runs[RunOf(t)], checkpoints[RunOf(t)])
    BY <1>1 DEF WorkerInv, StoreInv, StoreTypeOK, GoodRun
<1>4. Holds(t, RunOf(t))
    BY DEF Fence, Holds
<1>5. \A s \in Runs \ {RunOf(t)} : runs[s].lease_token # t
    BY <1>1, RunStoreAssumption, Zenon DEF Fence, WorkerInv, StoreInv, TokensAreUnique
<1> QED
    BY <1>1, <1>2, <1>3, <1>4, <1>5, Zenon DEF Fence, ClaimInv

(***************************************************************************)
(* Ending a transaction frees the key locks of its own claim only.         *)
(***************************************************************************)
LEMMA LocksKept ==
    ASSUME WorkerInv, NEW t \in Tokens, ReleaseLock(t) \/ UNCHANGED key_lock
    PROVE  /\ key_lock' \in [Keys -> Holders \cup {Null}]
           /\ \A k \in Keys, u \in Tokens \ {t} : key_lock[k] = u => key_lock'[k] = u
    BY DEF WorkerInv, ReleaseLock, Holders

(***************************************************************************)
(* A claim that knows its run's checkpoints up to position n, and comes to *)
(* have the value at n, knows them up to the next position.                *)
(***************************************************************************)
LEMMA KnowsAdvances ==
    ASSUME NEW r \in Runs, NEW n \in Nat, NEW values, NEW saved, Knows(r, n, values, saved),
           NEW held, NEW kept, held[n] # Null, held[n] = kept[n],
           \A i \in Positions : i # n => held[i] = values[i] /\ kept[i] = saved[i]
    PROVE  Knows(r, n + 1, held, kept)
<1> SUFFICES ASSUME NEW i \in Positions
             PROVE  /\ held[i] # Null => held[i] = kept[i]
                    /\ held[i] = Null /\ kept[i] # Null => BeforeWait(r, i, n + 1)
    BY DEF Knows
<1>1. CASE i = n
    BY <1>1
<1>2. CASE i # n
  <2>1. /\ held[i] # Null => held[i] = kept[i]
        /\ held[i] = Null /\ kept[i] # Null => BeforeWait(r, i, n)
    BY <1>2, Zenon DEF Knows
  <2>2. ASSUME BeforeWait(r, i, n) PROVE BeforeWait(r, i, n + 1)
    <3>1. PICK j \in 0 .. OpCount(r) - 1 : OpAt(r, j).kind = "wait_event" /\ i < j /\ j <= n
      BY <1>2, <2>2, Zenon DEF BeforeWait
    <3>2. j <= n + 1
      BY <3>1, CountIsNat
    <3> QED
      BY <3>1, <3>2, Zenon DEF BeforeWait
  <2> QED
    BY <2>1, <2>2, Zenon
<1> QED
    BY <1>1, <1>2

(***************************************************************************)
(* The claim statement hands its token to one goroutine, or to none.       *)
(***************************************************************************)
LEMMA ClaimingStep ==
    ASSUME WorkerInv, NEW t \in Tokens, NEW r \in Runs, NEW ack \in BOOLEAN,
           NEW values \in [Positions -> Stored],
           Knows(r, runs[r].step_index, values, checkpoints[r]),
           Fresh(t), ClaimRow(r, t),
           claims' = IF ack
                     THEN [claims EXCEPT ![t] =
                               [pc |-> "drive", run |-> r, index |-> runs[r].step_index,
                                values |-> values, attempt |-> runs[r].attempt,
                                result |-> Null]]
                     ELSE claims,
           UNCHANGED key_lock
    PROVE  WorkerInv'
<1> DEFINE row == [runs[r] EXCEPT !.state = "leased", !.lease_token = t,
                                  !.lease_until = "future"]
<1>0. GoodRun(r, runs[r], checkpoints[r])
    BY DEF WorkerInv, StoreInv, StoreTypeOK, GoodRun
<1>1. GoodRun(r, row, checkpoints[r])
    BY <1>0, LeasedRow, Zenon DEF ClaimRow
<1>2. /\ runs' = [runs EXCEPT ![r] = row] /\ event_log' = event_log
      /\ checkpoints' = [checkpoints EXCEPT ![r] = checkpoints[r]]
      /\ key_lock' = key_lock
    BY DEF ClaimRow, WorkerInv, StoreInv, StoreTypeOK
<1>3. /\ row.lease_token = t /\ row.state = "leased"
      /\ row.step_index = runs[r].step_index /\ row.attempt = runs[r].attempt
    BY <1>0 DEF GoodRun, Row
<1>4. \A s \in Runs : runs[s].lease_token # t
    BY Zenon DEF Fresh
<1>r. runs'[r] = row /\ checkpoints'[r] = checkpoints[r]
      /\ \A s \in Runs \ {r} : runs'[s] = runs[s]
    BY <1>2 DEF WorkerInv, StoreInv, StoreTypeOK
<1> DEFINE c == [pc |-> "drive", run |-> r, index |-> runs[r].step_index,
                 values |-> values, attempt |-> runs[r].attempt, result |-> Null]
<1>5. c \in Claim
    BY <1>0, Zenon DEF GoodRun, Row, Claim, PC, Stored
<1>6. claims' \in [Tokens -> Claim] /\ \A u \in Tokens \ {t} : claims'[u] = claims[u]
    BY <1>5, Zenon DEF WorkerInv
<1>7. ClaimInv(t)'
  <2>1. CASE ack
    <3>1. claims'[t] = c
        BY <2>1, Zenon DEF WorkerInv
    <3>2. ClaimShape(t)'
      <4>1. runs[r].step_index <= OpCount(r)
        BY <1>0, Zenon DEF GoodRun, RunInv, RowShape
      <4>2. claims'[t].pc = "drive" /\ RunOf(t)' = r /\ IndexOf(t)' = runs[r].step_index
        <5>1. c.pc = "drive" /\ c.run = r /\ c.index = runs[r].step_index
          BY Zenon
        <5> HIDE DEF c
        <5> QED
          BY <3>1, <5>1, Zenon DEF RunOf, IndexOf
      <4> HIDE DEF c
      <4> QED
        BY <4>1, <4>2, Zenon DEF ClaimShape, InWaitTx
    <3>3. \A s \in Runs : Holds(t, s)' => s = r
        BY <1>r, <1>4 DEF Holds
    <3>4. /\ RunOf(t)' = r /\ claims'[t].attempt = runs'[r].attempt
          /\ Knows(r, IndexOf(t), claims[t].values, checkpoints[r])'
          /\ claims'[t].pc = "drive"
          /\ AtCursor(runs[r], checkpoints[r], IndexOf(t))'
        BY <3>1, <1>3, <1>r DEF AtCursor, IndexOf, RunOf, Knows
    <3> QED
        BY <3>2, <3>3, <3>4, Zenon DEF ClaimInv
  <2>2. CASE ~ack
    <3>1. claims'[t].pc = "idle"
        BY <2>2, Zenon DEF Fresh, Active
    <3> QED
        BY <3>1, Zenon DEF ClaimInv, ClaimShape, Active
  <2> QED
    BY <2>1, <2>2, Zenon
<1>8. /\ key_lock' \in [Keys -> Holders \cup {Null}]
      /\ \A k \in Keys, u \in Tokens \ {t} : key_lock[k] = u => key_lock'[k] = u
    BY <1>2, LocksKept
<1> HIDE DEF row
<1> QED
    BY <1>1, <1>2, <1>3, <1>4, <1>6, <1>7, <1>8, StatementStep, Zenon

(***************************************************************************)
(* drive replays a stored value only at the cursor.                        *)
(***************************************************************************)
LEMMA ReplayValueInv ==
    ASSUME WorkerInv, NEW t \in Tokens, ReplayValue(t)
    PROVE  WorkerInv'
<1> DEFINE c == [claims[t] EXCEPT !.index = IndexOf(t) + 1]
<1>0. /\ claims' = [claims EXCEPT ![t] = c] /\ claims[t].pc = "drive"
      /\ UNCHANGED store /\ key_lock' = key_lock
    BY DEF ReplayValue
<1>1. claims \in [Tokens -> Claim] /\ ClaimInv(t) /\ Active(t)
    BY <1>0 DEF WorkerInv, Active
<1>2. RunOf(t) \in Runs /\ IndexOf(t) \in 0 .. OpCount(RunOf(t)) - 1
  <2>1. RunOf(t) \in Runs
    BY <1>1, Zenon DEF ClaimInv, ClaimShape
  <2>2. IndexOf(t) \in Nat /\ OpCount(RunOf(t)) \in Nat
    BY <1>1, <2>1, IndexIsNat, CountIsNat
  <2>3. IndexOf(t) < OpCount(RunOf(t))
    BY DEF ReplayValue
  <2> QED
    BY <2>1, <2>2, <2>3
<1>3. c \in Claim
    BY <1>1, <1>2, OpFacts DEF Claim
<1>4. /\ claims' \in [Tokens -> Claim] /\ claims'[t] = c
      /\ \A u \in Tokens \ {t} : claims'[u] = claims[u]
    BY <1>0, <1>1, <1>3
<1>5. /\ c.pc = "drive" /\ c.run = claims[t].run /\ c.index = IndexOf(t) + 1
      /\ c.values = claims[t].values /\ c.attempt = claims[t].attempt
    BY <1>0, <1>1 DEF Claim
<1> HIDE DEF c
<1>6. RunOf(t)' = RunOf(t) /\ IndexOf(t)' = IndexOf(t) + 1 /\ Active(t)'
    BY <1>4, <1>5 DEF RunOf, IndexOf, Active
<1>7. ClaimInv(t)'
  <2>1. ClaimShape(t)'
    <3>1. IndexOf(t) + 1 <= OpCount(RunOf(t))
      <4> HIDE DEF c
      <4>1. IndexOf(t) \in 0 .. OpCount(RunOf(t)) - 1 /\ OpCount(RunOf(t)) \in Nat
        BY <1>2, CountIsNat
      <4> QED
        BY <4>1
    <3>2. claims'[t].pc = "drive"
        BY <1>4, <1>5
    <3> QED
        BY <1>2, <1>6, <3>1, <3>2, Zenon DEF ClaimShape, InWaitTx
  <2>2. ASSUME NEW r \in Runs, Holds(t, r)'
        PROVE  /\ RunOf(t)' = r /\ claims'[t].attempt = runs'[r].attempt
               /\ Knows(r, IndexOf(t), claims[t].values, checkpoints[r])'
               /\ AtCursor(runs[r], checkpoints[r], IndexOf(t))'
    <3>1. runs' = runs /\ checkpoints' = checkpoints /\ Holds(t, r)
        BY <1>0, <2>2 DEF store, Holds
    <3>2. /\ RunOf(t) = r /\ claims[t].attempt = runs[r].attempt
          /\ Knows(r, IndexOf(t), claims[t].values, checkpoints[r])
          /\ AtCursor(runs[r], checkpoints[r], IndexOf(t))
        BY <1>0, <1>1, <3>1, Zenon DEF ClaimInv
    <3>p. IndexOf(t) \in Positions
        BY <1>2, OpFacts
    <3>3. /\ checkpoints[r][IndexOf(t)] # Null
          /\ claims[t].values[IndexOf(t)] = checkpoints[r][IndexOf(t)]
        BY <3>2, <3>p DEF ReplayValue, Knows
    <3>4. CursorMatches(r, runs[r], checkpoints[r]) /\ runs[r].step_index \in Nat
        BY DEF WorkerInv, StoreInv, RunInv, StoreTypeOK, Row
    <3>5. IndexOf(t) = runs[r].step_index
      <4>2. IndexOf(t) <= runs[r].step_index
        BY <3>3, <3>4, <3>p, Zenon DEF CursorMatches
      <4>3. \/ IndexOf(t) = runs[r].step_index
            \/ IndexOf(t) = runs[r].step_index + 1
        BY <3>2, Zenon DEF AtCursor
      <4>4. runs[r].step_index \in Nat
        BY <3>4
      <4> QED
        BY <4>2, <4>3, <4>4
    <3>6. Knows(r, IndexOf(t) + 1, claims[t].values, checkpoints[r])
      <4>1. IndexOf(t) \in Nat
        BY <1>1, IndexIsNat
      <4> QED
        BY <3>2, <3>3, <4>1, KnowsAdvances, Zenon
    <3> QED
        BY <3>1, <3>2, <3>3, <3>5, <3>6, <1>4, <1>5, <1>6, Zenon DEF AtCursor, Knows
  <2> QED
    BY <2>1, <2>2, <1>4, <1>5, Zenon DEF ClaimInv
<1>8. /\ key_lock' \in [Keys -> Holders \cup {Null}]
      /\ \A k \in Keys, u \in Tokens \ {t} : key_lock[k] = u => key_lock'[k] = u
    BY <1>0, LocksKept
<1> QED
    BY <1>0, <1>4, <1>7, <1>8, LocalStep

(***************************************************************************)
(* A step of claim t that changes only its pc and the result in hand keeps *)
(* what the claim knows about its row.                                     *)
(***************************************************************************)
LEMMA SameKnowledge ==
    ASSUME WorkerInv, NEW t \in Tokens, UNCHANGED store, Active(t),
           claims[t].pc # "fail",
           claims'[t].run = claims[t].run, claims'[t].index = claims[t].index,
           claims'[t].values = claims[t].values, claims'[t].attempt = claims[t].attempt,
           ClaimShape(t)',
           claims'[t].pc = "park" => LiveEvents(KeyOf(t)) = {}
    PROVE  ClaimInv(t)'
<1>1. /\ RunOf(t)' = RunOf(t) /\ IndexOf(t)' = IndexOf(t) /\ KeyOf(t)' = KeyOf(t)
      /\ runs' = runs /\ checkpoints' = checkpoints /\ event_log' = event_log
    BY Zenon DEF RunOf, IndexOf, KeyOf, store
<1>2. LiveEvents(KeyOf(t))' = LiveEvents(KeyOf(t))
    BY <1>1, Zenon DEF LiveEvents
<1>3. ASSUME NEW r \in Runs, Holds(t, r)'
      PROVE  /\ RunOf(t)' = r /\ claims'[t].attempt = runs'[r].attempt
             /\ Knows(r, IndexOf(t), claims[t].values, checkpoints[r])'
             /\ AtCursor(runs[r], checkpoints[r], IndexOf(t))'
  <2>1. Holds(t, r)
    BY <1>1, <1>3, Zenon DEF Holds
  <2>2. /\ RunOf(t) = r /\ claims[t].attempt = runs[r].attempt
        /\ Knows(r, IndexOf(t), claims[t].values, checkpoints[r])
        /\ AtCursor(runs[r], checkpoints[r], IndexOf(t))
    BY <2>1, Zenon DEF WorkerInv, ClaimInv
  <2> QED
    BY <1>1, <2>2, Zenon DEF AtCursor, Knows
<1> QED
    BY <1>2, <1>3, Zenon DEF ClaimInv

(***************************************************************************)
(* A step function returns.                                                *)
(***************************************************************************)
LEMMA RunStepInv ==
    ASSUME WorkerInv, NEW t \in Tokens, NEW d \in Results, RunStep(t, d)
    PROVE  WorkerInv'
<1> DEFINE c == [claims[t] EXCEPT !.pc = "commit", !.result = StepValue(d)]
<1>0. /\ claims' = [claims EXCEPT ![t] = c] /\ claims[t].pc = "drive"
      /\ UNCHANGED store /\ key_lock' = key_lock /\ AtOp(t, "step")
    BY DEF RunStep, AtOp
<1>1. claims \in [Tokens -> Claim] /\ ClaimInv(t) /\ Active(t)
    BY <1>0 DEF WorkerInv, Active
<1>2. StepValue(d) \in Stored /\ StepValue(d) # Null
    BY NullAssumption DEF Stored, Value
<1>3. c \in Claim
    BY <1>1, <1>2, Zenon DEF Claim, PC
<1>4. /\ claims' \in [Tokens -> Claim] /\ claims'[t] = c
      /\ \A u \in Tokens \ {t} : claims'[u] = claims[u]
    BY <1>0, <1>1, <1>3
<1>5. /\ c.pc = "commit" /\ c.run = claims[t].run /\ c.index = claims[t].index
      /\ c.values = claims[t].values /\ c.attempt = claims[t].attempt
      /\ c.result = StepValue(d)
    BY <1>1 DEF Claim
<1> HIDE DEF c
<1>6. RunOf(t)' = RunOf(t) /\ IndexOf(t)' = IndexOf(t) /\ Active(t)'
    BY <1>4, <1>5, Zenon DEF RunOf, IndexOf, Active
<1>7. ClaimShape(t)'
    BY <1>0, <1>1, <1>2, <1>4, <1>5, <1>6, Zenon DEF ClaimInv, ClaimShape, InWaitTx, AtOp
<1>8. ClaimInv(t)'
    BY <1>0, <1>1, <1>4, <1>5, <1>7, SameKnowledge
<1>9. /\ key_lock' \in [Keys -> Holders \cup {Null}]
      /\ \A k \in Keys, u \in Tokens \ {t} : key_lock[k] = u => key_lock'[k] = u
    BY <1>0, LocksKept
<1> QED
    BY <1>0, <1>4, <1>8, <1>9, LocalStep

(***************************************************************************)
(* Goto changes the pc and drops the result in hand.                       *)
(***************************************************************************)
LEMMA GotoFacts ==
    ASSUME claims \in [Tokens -> Claim], NEW t \in Tokens, NEW pc \in PC, Goto(t, pc)
    PROVE  /\ claims' \in [Tokens -> Claim]
           /\ \A u \in Tokens \ {t} : claims'[u] = claims[u]
           /\ claims'[t].pc = pc
           /\ claims'[t].run = claims[t].run /\ claims'[t].index = claims[t].index
           /\ claims'[t].values = claims[t].values
           /\ claims'[t].attempt = claims[t].attempt
<1> DEFINE c == [claims[t] EXCEPT !.pc = pc, !.result = Null]
<1>1. c \in Claim
    BY Zenon DEF Claim, Stored
<1>2. claims' = [claims EXCEPT ![t] = c] /\ claims'[t] = c
    BY DEF Goto
<1>3. /\ c.pc = pc /\ c.run = claims[t].run /\ c.index = claims[t].index
      /\ c.values = claims[t].values /\ c.attempt = claims[t].attempt
    BY DEF Claim
<1> QED
    BY <1>1, <1>2, <1>3

(***************************************************************************)
(* waitForEvent takes a free key lock.                                     *)
(***************************************************************************)
LEMMA LockEventKeyInv ==
    ASSUME WorkerInv, NEW t \in Tokens, LockEventKey(t)
    PROVE  WorkerInv'
<1>0. /\ Goto(t, "lookup") /\ UNCHANGED store /\ AtOp(t, "wait_event")
      /\ key_lock[KeyOf(t)] = Null /\ key_lock' = [key_lock EXCEPT ![KeyOf(t)] = t]
    BY DEF LockEventKey
<1>1. claims \in [Tokens -> Claim] /\ ClaimInv(t) /\ Active(t) /\ claims[t].pc = "drive"
    BY <1>0, Zenon DEF WorkerInv, Active, AtOp
<1>2. /\ claims' \in [Tokens -> Claim]
      /\ \A u \in Tokens \ {t} : claims'[u] = claims[u]
      /\ claims'[t].pc = "lookup"
      /\ claims'[t].run = claims[t].run /\ claims'[t].index = claims[t].index
      /\ claims'[t].values = claims[t].values /\ claims'[t].attempt = claims[t].attempt
    BY <1>0, <1>1, GotoFacts, Zenon DEF PC, InWaitTx
<1>3. /\ RunOf(t)' = RunOf(t) /\ IndexOf(t)' = IndexOf(t) /\ KeyOf(t)' = KeyOf(t)
      /\ Active(t)'
    BY <1>2 DEF RunOf, IndexOf, KeyOf, Active
<1>4. KeyOf(t) \in Keys
  <2>1. RunOf(t) \in Runs
    BY <1>1, Zenon DEF ClaimInv, ClaimShape
  <2>2. IndexOf(t) \in Nat /\ OpCount(RunOf(t)) \in Nat
    BY <1>1, <2>1, IndexIsNat, CountIsNat
  <2>3. IndexOf(t) \in 0 .. OpCount(RunOf(t)) - 1
    <3>1. IndexOf(t) < OpCount(RunOf(t))
      BY <1>0, Zenon DEF AtOp
    <3> QED
      BY <2>2, <3>1
  <2> QED
    BY <1>0, <2>1, <2>3, OpFacts, Zenon DEF AtOp, KeyOf
<1>5. /\ key_lock' \in [Keys -> Holders \cup {Null}] /\ key_lock'[KeyOf(t)] = t
      /\ \A k \in Keys, u \in Tokens \ {t} : key_lock[k] = u => key_lock'[k] = u
    BY <1>0, <1>4, RunStoreAssumption DEF WorkerInv, Holders
<1>6. ClaimShape(t)'
    BY <1>0, <1>1, <1>2, <1>3, <1>5, Zenon DEF ClaimInv, ClaimShape, AtOp
<1>7. ClaimInv(t)'
    BY <1>0, <1>1, <1>2, <1>6, SameKnowledge
<1> QED
    BY <1>0, <1>2, <1>5, <1>7, LocalStep, Zenon

(***************************************************************************)
(* latestEvent finds an event, or finds none.                              *)
(***************************************************************************)
LEMMA LookupEventInv ==
    ASSUME WorkerInv, NEW t \in Tokens, LookupEvent(t)
    PROVE  WorkerInv'
<1>0. UNCHANGED store /\ key_lock' = key_lock /\ claims[t].pc = "lookup"
    BY Zenon DEF LookupEvent
<1>1. claims \in [Tokens -> Claim] /\ ClaimInv(t) /\ Active(t)
    BY <1>0 DEF WorkerInv, Active
<1>9. /\ key_lock' \in [Keys -> Holders \cup {Null}]
      /\ \A k \in Keys, u \in Tokens \ {t} : key_lock[k] = u => key_lock'[k] = u
    BY <1>0, LocksKept, Zenon
<1>2. CASE \E e \in LatestEvents(KeyOf(t)) :
              claims' = [claims EXCEPT ![t] = [@ EXCEPT !.pc = "deliver",
                                                        !.result = Received(e.payload)]]
  <2>1. PICK e \in LatestEvents(KeyOf(t)) :
              claims' = [claims EXCEPT ![t] = [claims[t] EXCEPT !.pc = "deliver",
                                                        !.result = Received(e.payload)]]
    BY <1>2, Zenon
  <2> DEFINE c == [claims[t] EXCEPT !.pc = "deliver", !.result = Received(e.payload)]
  <2>2. e.payload \in Payloads
    BY DEF LatestEvents, LiveEvents, WorkerInv, StoreInv, StoreTypeOK, Event
  <2>3. Received(e.payload) \in Stored /\ Received(e.payload) # Null
    BY <2>2, NullAssumption DEF Stored, Value
  <2>4. c \in Claim
    BY <1>1, <2>3, Zenon DEF Claim, PC, InWaitTx
  <2>5. /\ claims' \in [Tokens -> Claim] /\ claims'[t] = c
        /\ \A u \in Tokens \ {t} : claims'[u] = claims[u]
    BY <1>1, <2>1, <2>4
  <2>6. /\ c.pc = "deliver" /\ c.run = claims[t].run /\ c.index = claims[t].index
        /\ c.values = claims[t].values /\ c.attempt = claims[t].attempt
        /\ c.result = Received(e.payload)
    BY <1>1 DEF Claim
  <2> HIDE DEF c
  <2>7. /\ RunOf(t)' = RunOf(t) /\ IndexOf(t)' = IndexOf(t) /\ Active(t)'
        /\ KeyOf(t)' = KeyOf(t)
    BY <2>5, <2>6, Zenon DEF RunOf, IndexOf, Active, KeyOf
  <2>8. ClaimShape(t)'
    BY <1>0, <1>1, <2>3, <2>5, <2>6, <2>7, Zenon DEF ClaimInv, ClaimShape, InWaitTx
  <2>9. ClaimInv(t)'
    BY <1>0, <1>1, <2>5, <2>6, <2>8, SameKnowledge
  <2> QED
    BY <1>0, <1>9, <2>5, <2>9, LocalStep, Zenon
<1>3. CASE LiveEvents(KeyOf(t)) = {} /\ Goto(t, "park")
  <2>1. /\ claims' \in [Tokens -> Claim]
        /\ \A u \in Tokens \ {t} : claims'[u] = claims[u]
        /\ claims'[t].pc = "park"
        /\ claims'[t].run = claims[t].run /\ claims'[t].index = claims[t].index
        /\ claims'[t].values = claims[t].values /\ claims'[t].attempt = claims[t].attempt
    BY <1>1, <1>3, GotoFacts DEF PC, InWaitTx
  <2>2. /\ RunOf(t)' = RunOf(t) /\ IndexOf(t)' = IndexOf(t) /\ KeyOf(t)' = KeyOf(t)
        /\ Active(t)'
    BY <2>1, Zenon DEF RunOf, IndexOf, KeyOf, Active
  <2>3. ClaimShape(t)'
    BY <1>0, <1>1, <2>1, <2>2, Zenon DEF ClaimInv, ClaimShape, InWaitTx
  <2>4. ClaimInv(t)'
    BY <1>0, <1>1, <1>3, <2>1, <2>3, SameKnowledge
  <2> QED
    BY <1>0, <1>9, <2>1, <2>4, LocalStep, Zenon
<1> QED
    BY <1>2, <1>3, Zenon DEF LookupEvent

(***************************************************************************)
(* A claim that stops, or goes on to record an error, leaves the tables.   *)
(***************************************************************************)
LEMMA LeavingInv ==
    ASSUME WorkerInv, NEW t \in Tokens,
           DriveFails(t) \/ LostLease(t) \/ Abandon(t)
    PROVE  WorkerInv'
<1>0. UNCHANGED store /\ ReleaseLock(t) /\ claims \in [Tokens -> Claim] /\ ClaimInv(t)
    BY DEF DriveFails, LostLease, Abandon, WorkerInv
<1>1. /\ key_lock' \in [Keys -> Holders \cup {Null}]
      /\ \A k \in Keys, u \in Tokens \ {t} : key_lock[k] = u => key_lock'[k] = u
    BY <1>0, LocksKept
<1>2. CASE DriveFails(t)
  <2>1. Active(t) /\ Goto(t, "fail")
    BY <1>2, Zenon DEF DriveFails, AtOp, AtEnd, Active, InWaitTx
  <2>2. \A r \in Runs : Holds(t, r)' => Holds(t, r) /\ runs'[r].attempt = runs[r].attempt
    BY <1>0 DEF store, Holds
  <2>3. ClaimInv(t)' /\ claims' \in [Tokens -> Claim]
    BY <1>0, <2>1, <2>2, FailingClaim, Zenon
  <2>4. \A u \in Tokens \ {t} : claims'[u] = claims[u]
    BY <1>0, <2>1, GotoFacts DEF PC
  <2> QED
    BY <1>0, <1>1, <2>3, <2>4, LocalStep
<1>3. CASE LostLease(t) \/ Abandon(t)
  <2>1. claims' = [claims EXCEPT ![t] = IdleClaim]
    BY <1>3 DEF LostLease, Abandon, Exit
  <2>2. claims'[t] = IdleClaim /\ \A u \in Tokens \ {t} : claims'[u] = claims[u]
    BY <1>0, <2>1
  <2>3. ClaimInv(t)' /\ IdleClaim \in Claim
    BY <2>2, ExitClaim
  <2>4. claims' \in [Tokens -> Claim]
    BY <1>0, <2>1, <2>3
  <2> QED
    BY <1>0, <1>1, <2>2, <2>3, <2>4, LocalStep
<1> QED
    BY <1>2, <1>3

(***************************************************************************)
(* A fenced statement that gives up the lease, after which the goroutine   *)
(* returns or, when the reply is lost, goes on to record an error.         *)
(***************************************************************************)
LEMMA ReleasingStep ==
    ASSUME WorkerInv, NEW t \in Tokens, NEW r \in Runs, NEW row, NEW saved,
           Active(t), GoodRun(r, row, saved), row.lease_token = Null,
           runs' = [runs EXCEPT ![r] = row],
           checkpoints' = [checkpoints EXCEPT ![r] = saved],
           event_log' = event_log,
           row.state = "waiting_event" /\ row.waiting_deadline = "future" =>
               LiveEvents(row.waiting_event_key) = {},
           Exit(t) \/ Goto(t, "fail"),
           ReleaseLock(t) \/ UNCHANGED key_lock
    PROVE  WorkerInv'
<1>0. claims \in [Tokens -> Claim] /\ ClaimInv(t)
    BY DEF WorkerInv
<1>1. /\ key_lock' \in [Keys -> Holders \cup {Null}]
      /\ \A k \in Keys, u \in Tokens \ {t} : key_lock[k] = u => key_lock'[k] = u
    BY LocksKept
<1>2. CASE Goto(t, "fail")
  <2>1. runs'[r] = row /\ \A s \in Runs \ {r} : runs'[s] = runs[s]
    BY DEF WorkerInv, StoreInv, StoreTypeOK
  <2>2. \A s \in Runs : Holds(t, s)' => Holds(t, s) /\ runs'[s].attempt = runs[s].attempt
    BY <2>1, RunStoreAssumption DEF Holds
  <2>3. ClaimInv(t)' /\ claims' \in [Tokens -> Claim]
    BY <1>0, <1>2, <2>2, FailingClaim
  <2>4. \A u \in Tokens \ {t} : claims'[u] = claims[u]
    BY <1>0, <1>2, GotoFacts, Zenon DEF PC
  <2> QED
    BY <1>1, <2>3, <2>4, StatementStep, Zenon
<1>3. CASE Exit(t)
  <2>1. claims' = [claims EXCEPT ![t] = IdleClaim]
    BY <1>3 DEF Exit
  <2>2. claims'[t] = IdleClaim /\ \A u \in Tokens \ {t} : claims'[u] = claims[u]
    BY <1>0, <2>1
  <2>3. ClaimInv(t)' /\ IdleClaim \in Claim
    BY <2>2, ExitClaim, Zenon
  <2>4. claims' \in [Tokens -> Claim]
    BY <1>0, <2>1, <2>3
  <2> QED
    BY <1>1, <2>2, <2>3, <2>4, StatementStep, Zenon
<1> QED
    BY <1>2, <1>3

(***************************************************************************)
(* parkSleep.                                                              *)
(***************************************************************************)
LEMMA ParkForSleepInv ==
    ASSUME WorkerInv, NEW t \in Tokens, NEW ack \in BOOLEAN,
           ParkForSleep(t, ack)
    PROVE  WorkerInv'
<1> DEFINE r == RunOf(t)
           row == [Released(runs[r], "ready") EXCEPT !.step_index = IndexOf(t) + 1,
                                                     !.next_run_at = "future",
                                                     !.lease_failures = 0]
<1>0. AtOp(t, "sleep") /\ Active(t) /\ Fence(r, t) /\ claims[t].pc = "drive"
    BY DEF ParkForSleep, AtOp, Active, ParkSleep
<1>1. /\ r \in Runs /\ GoodRun(r, runs[r], checkpoints[r]) /\ runs[r].state = "leased"
      /\ AtCursor(runs[r], checkpoints[r], IndexOf(t))
      /\ IndexOf(t) \in 0 .. OpCount(r)
    BY <1>0, Fenced, Zenon
<1>2. IndexOf(t) \in 0 .. OpCount(r) - 1 /\ OpAt(r, IndexOf(t)).kind = "sleep"
  <2>1. IndexOf(t) < OpCount(r) /\ OpAt(r, IndexOf(t)).kind = "sleep"
    BY <1>0, Zenon DEF AtOp
  <2>a. r \in Runs /\ IndexOf(t) \in 0 .. OpCount(r) /\ IndexOf(t) < OpCount(r)
    BY <1>1, <2>1, Zenon
  <2>2. IndexOf(t) \in 0 .. OpCount(r) - 1
    BY <2>a, CountIsNat
  <2> QED
    BY <2>1, <2>2
<1>3. GoodRun(r, row, checkpoints[r])
    BY <1>1, <1>2, SleepingRow, Zenon
<1>4. Released(runs[r], "ready") \in Row /\ Released(runs[r], "ready").state = "ready"
      /\ Released(runs[r], "ready").lease_token = Null
    BY <1>1, ReleasedRow, Zenon DEF GoodRun
<1>5. row.lease_token = Null /\ row.state = "ready"
    BY <1>4 DEF Row
<1>6. /\ runs' = [runs EXCEPT ![r] = row] /\ event_log' = event_log
      /\ checkpoints' = [checkpoints EXCEPT ![r] = checkpoints[r]]
    BY <1>1 DEF ParkForSleep, ParkSleep, WorkerInv, StoreInv, StoreTypeOK
<1>7. (Exit(t) \/ Goto(t, "fail")) /\ UNCHANGED key_lock
    BY DEF ParkForSleep
<1> HIDE DEF row, r
<1> QED
    BY <1>0, <1>1, <1>3, <1>5, <1>6, <1>7, ReleasingStep, Zenon

(***************************************************************************)
(* parkWait: the key lock has kept the log free of live events.            *)
(***************************************************************************)
LEMMA ParkForEventInv ==
    ASSUME WorkerInv, NEW t \in Tokens, NEW ack \in BOOLEAN,
           ParkForEvent(t, ack)
    PROVE  WorkerInv'
<1> DEFINE r == RunOf(t)
           i == IndexOf(t)
           row == [Released(runs[r], "waiting_event") EXCEPT
                       !.step_index = i, !.waiting_event_key = OpAt(r, i).key,
                       !.waiting_deadline = "future", !.lease_failures = 0]
<1>0. claims[t].pc = "park" /\ Active(t) /\ Fence(r, t)
    BY DEF ParkForEvent, Active, ParkWait
<1>1. /\ r \in Runs /\ GoodRun(r, runs[r], checkpoints[r]) /\ runs[r].state = "leased"
      /\ Knows(r, i, claims[t].values, checkpoints[r]) /\ ClaimInv(t)
      /\ AtCursor(runs[r], checkpoints[r], i)
      /\ i \in 0 .. OpCount(r)
    BY <1>0, Fenced, Zenon
<1>2. /\ i \in 0 .. OpCount(r) - 1 /\ OpAt(r, i).kind = "wait_event"
  <2>1. /\ i < OpCount(r) /\ OpAt(r, i).kind = "wait_event"
    BY <1>0, <1>1, Zenon DEF ClaimInv, ClaimShape, InWaitTx
  <2>a. r \in Runs /\ i \in 0 .. OpCount(r) /\ i < OpCount(r)
    BY <1>1, <2>1, Zenon
  <2>2. i \in 0 .. OpCount(r) - 1
    BY <2>a, CountIsNat
  <2> QED
    BY <2>1, <2>2, Zenon
<1>3. GoodRun(r, row, checkpoints[r])
    BY <1>1, <1>2, WaitingRow, Zenon
<1>4. /\ Released(runs[r], "waiting_event") \in Row
      /\ Released(runs[r], "waiting_event").lease_token = Null
    BY <1>1, ReleasedRow, Zenon DEF GoodRun
<1>5. row.lease_token = Null /\ row.waiting_event_key = KeyOf(t)
    BY <1>4 DEF Row, KeyOf
<1>6. /\ runs' = [runs EXCEPT ![r] = row] /\ event_log' = event_log
      /\ checkpoints' = [checkpoints EXCEPT ![r] = checkpoints[r]]
    BY <1>1 DEF ParkForEvent, ParkWait, KeyOf, WorkerInv, StoreInv, StoreTypeOK
<1>7. (Exit(t) \/ Goto(t, "fail")) /\ ReleaseLock(t)
    BY Zenon DEF ParkForEvent
<1>8. LiveEvents(KeyOf(t)) = {}
    BY <1>0, <1>1, Zenon DEF ClaimInv
<1> HIDE DEF row, r, i
<1> QED
    BY <1>0, <1>1, <1>3, <1>5, <1>6, <1>7, <1>8, ReleasingStep, Zenon

(***************************************************************************)
(* A claim past its run's last operation knows the run's output.           *)
(***************************************************************************)
LEMMA OutputIsKnown ==
    ASSUME NEW r \in Runs, NEW values, NEW saved,
           Knows(r, OpCount(r), values, saved)
    PROVE  Output(r, values) = Output(r, saved)
<1> DEFINE I == 0 .. OpCount(r) - 1
           i == CHOOSE j \in I : IsOutputIndex(r, j)
<1>1. CASE \E j \in I : IsOutputIndex(r, j)
  <2>1. i \in I /\ IsOutputIndex(r, i)
    BY <1>1
  <2>2. i \in Positions /\ i < OpCount(r)
    BY <2>1, OpFacts
  <2>3. values[i] = saved[i]
    <3> HIDE DEF i
    <3>1. ~BeforeWait(r, i, OpCount(r))
      <4>1. ASSUME NEW j \in 0 .. OpCount(r) - 1, OpAt(r, j).kind = "wait_event", i < j
            PROVE  FALSE
        BY <2>1, <4>1, CountIsNat DEF IsOutputIndex
      <4>2. ~(i = OpCount(r))
        BY <2>2, CountIsNat
      <4> QED
        BY <4>1, <4>2, Zenon DEF BeforeWait
    <3> QED
      BY <2>2, <3>1, Zenon DEF Knows
  <2> QED
    BY <1>1, <2>3, Zenon DEF Output
<1>2. CASE ~ \E j \in I : IsOutputIndex(r, j)
    BY <1>2 DEF Output
<1> QED
    BY <1>1, <1>2

(***************************************************************************)
(* completeRun.                                                            *)
(***************************************************************************)
LEMMA FinishRunInv ==
    ASSUME WorkerInv, NEW t \in Tokens, NEW ack \in BOOLEAN,
           FinishRun(t, ack)
    PROVE  WorkerInv'
<1> DEFINE r == RunOf(t)
           row == [Released(runs[r], "completed") EXCEPT
                       !.step_index = OpCount(r),
                       !.output_json = Output(r, checkpoints[r])]
<1>0. /\ AtEnd(t) /\ Active(t) /\ Fence(r, t) /\ claims[t].pc = "drive"
      /\ IndexOf(t) = OpCount(r)
    BY DEF FinishRun, AtEnd, Active, CompleteRun
<1>1. /\ r \in Runs /\ GoodRun(r, runs[r], checkpoints[r]) /\ runs[r].state = "leased"
      /\ Knows(r, IndexOf(t), claims[t].values, checkpoints[r])
      /\ AtCursor(runs[r], checkpoints[r], IndexOf(t))
    BY <1>0, Fenced, Zenon
<1>2. Output(r, claims[t].values) = Output(r, checkpoints[r])
    BY <1>0, <1>1, OutputIsKnown, Zenon
<1>3. GoodRun(r, row, checkpoints[r])
    BY <1>0, <1>1, CompletedRow, Zenon
<1>4. /\ Released(runs[r], "completed") \in Row
      /\ Released(runs[r], "completed").lease_token = Null
      /\ Released(runs[r], "completed").state = "completed"
    BY <1>1, ReleasedRow, Zenon DEF GoodRun, Terminal
<1>5. row.lease_token = Null /\ row.state = "completed"
    BY <1>4 DEF Row
<1>6. /\ runs' = [runs EXCEPT ![r] = row] /\ event_log' = event_log
      /\ checkpoints' = [checkpoints EXCEPT ![r] = checkpoints[r]]
    BY <1>1, <1>2 DEF FinishRun, CompleteRun, WorkerInv, StoreInv, StoreTypeOK
<1>7. (Exit(t) \/ Goto(t, "fail")) /\ UNCHANGED key_lock
    BY DEF FinishRun
<1> HIDE DEF row, r
<1> QED
    BY <1>0, <1>1, <1>3, <1>5, <1>6, <1>7, ReleasingStep, Zenon

(***************************************************************************)
(* failOrRetry charges the attempt the claim read, which is the stored one *)
(***************************************************************************)
LEMMA RecordFailureInv ==
    ASSUME WorkerInv, NEW t \in Tokens, RecordFailure(t)
    PROVE  WorkerInv'
<1> DEFINE r == RunOf(t)
           state == IF runs[r].attempt + 1 >= MaxAttempts[r] THEN "failed" ELSE "ready"
           row == [Released(runs[r], state) EXCEPT !.attempt = runs[r].attempt + 1,
                                                   !.next_run_at = "future"]
<1>0. claims[t].pc = "fail" /\ Active(t) /\ Fence(r, t)
    BY DEF RecordFailure, Active, FailOrRetry
<1>1. /\ r \in Runs /\ GoodRun(r, runs[r], checkpoints[r]) /\ runs[r].state = "leased"
      /\ claims[t].attempt = runs[r].attempt
    BY <1>0, Fenced, Zenon
<1>3. GoodRun(r, row, checkpoints[r])
    BY <1>1, FailedRow, Zenon
<1>s. state \in {"failed", "ready"}
    OBVIOUS
<1>6. /\ runs' = [runs EXCEPT ![r] = row] /\ event_log' = event_log
      /\ checkpoints' = [checkpoints EXCEPT ![r] = checkpoints[r]]
    BY <1>1 DEF RecordFailure, FailOrRetry, WorkerInv, StoreInv, StoreTypeOK
<1> HIDE DEF state
<1>4. /\ Released(runs[r], state) \in Row
      /\ Released(runs[r], state).lease_token = Null
      /\ Released(runs[r], state).state = state
    BY <1>1, <1>s, ReleasedRow, Zenon DEF GoodRun, Terminal
<1>5. row.lease_token = Null /\ row.state # "waiting_event"
    BY <1>4, <1>s DEF Row
<1>7. Exit(t) /\ UNCHANGED key_lock
    BY DEF RecordFailure
<1> HIDE DEF row, r
<1> QED
    BY <1>0, <1>1, <1>3, <1>5, <1>6, <1>7, ReleasingStep, Zenon

(***************************************************************************)
(* commitStep, from runStep or from waitForEvent.                          *)
(***************************************************************************)
LEMMA CommitInv ==
    ASSUME WorkerInv, NEW t \in Tokens, NEW ack \in BOOLEAN,
           CommitResult(t, ack) \/ DeliverEvent(t, ack)
    PROVE  WorkerInv'
<1> DEFINE r == RunOf(t)
           i == IndexOf(t)
           v == StoredBy(r, i, claims[t].result)
           saved == [checkpoints[r] EXCEPT ![i] = v]
<1>0. /\ claims[t].pc \in {"commit", "deliver"} /\ Active(t)
      /\ CommitStep(r, t, i, claims[t].result, IsLast(t)) /\ AfterCommit(t, ack)
      /\ ReleaseLock(t) \/ UNCHANGED key_lock
    BY Zenon DEF CommitResult, DeliverEvent, Active
<1>1. Fence(r, t) /\ claims[t].pc # "fail"
    BY <1>0 DEF CommitStep, Owned
<1>2. /\ r \in Runs /\ GoodRun(r, runs[r], checkpoints[r]) /\ runs[r].state = "leased"
      /\ runs[r].lease_token = t
      /\ Knows(r, i, claims[t].values, checkpoints[r])
      /\ ClaimInv(t) /\ claims[t] \in Claim
      /\ claims[t].attempt = runs[r].attempt
      /\ \A s \in Runs \ {r} : runs[s].lease_token # t
      /\ AtCursor(runs[r], checkpoints[r], i)
      /\ i \in 0 .. OpCount(r)
    BY <1>0, <1>1, Fenced, Zenon
<1>3. /\ i \in 0 .. OpCount(r) - 1 /\ OpAt(r, i).kind # "sleep"
      /\ claims[t].result # Null
  <2>1. ClaimShape(t)
    BY <1>2, Zenon DEF ClaimInv
  <2>2. i < OpCount(r) /\ OpAt(r, i).kind # "sleep" /\ claims[t].result # Null
    BY <1>0, <2>1, Zenon DEF ClaimShape, InWaitTx
  <2>a. r \in Runs /\ i \in 0 .. OpCount(r) /\ i < OpCount(r)
    BY <1>2, <2>2, Zenon
  <2>3. i \in 0 .. OpCount(r) - 1
    BY <2>a, CountIsNat
  <2> QED
    BY <2>2, <2>3
<1>4. v \in Value
  <2>1. i \in Positions /\ claims[t].result \in Value
    BY <1>2, <1>3, OpFacts, Zenon DEF Claim, Stored
  <2>2. checkpoints[r][i] \in Stored
    BY <1>2, <2>1, Zenon DEF GoodRun
  <2> QED
    BY <2>1, <2>2, Zenon DEF StoredBy, Stored
<1>6. checkpoints' = [checkpoints EXCEPT ![r] = saved] /\ event_log' = event_log
    BY <1>0 DEF CommitStep
<1>7. claims \in [Tokens -> Claim]
    BY DEF WorkerInv
<1>8. CASE IsLast(t)
  <2> DEFINE row == [Released(runs[r], "completed") EXCEPT !.step_index = i + 1,
                                                           !.lease_failures = 0,
                                                           !.output_json = v]
  <2>1. runs' = [runs EXCEPT ![r] = row]
    BY <1>0, <1>8 DEF CommitStep
  <2>2. GoodRun(r, row, saved)
    BY <1>2, <1>3, <1>4, <1>8, CommittedRow, Zenon DEF IsLast
  <2>3. /\ Released(runs[r], "completed") \in Row
        /\ Released(runs[r], "completed").lease_token = Null
        /\ Released(runs[r], "completed").state = "completed"
    BY <1>2, ReleasedRow, Zenon DEF GoodRun, Terminal
  <2>4. row.lease_token = Null /\ row.state = "completed"
    BY <2>3 DEF Row
  <2>5. Exit(t) \/ Goto(t, "fail")
    BY <1>0, <1>8 DEF AfterCommit
  <2> HIDE DEF row, saved, r, i, v
  <2> QED
    BY <1>0, <1>2, <1>6, <2>1, <2>2, <2>4, <2>5, ReleasingStep, Zenon
<1>9. CASE ~IsLast(t)
  <2> DEFINE row == [runs[r] EXCEPT !.step_index = i + 1, !.lease_failures = 0,
                                    !.output_json = Null]
  <2>1. runs' = [runs EXCEPT ![r] = row]
    BY <1>0, <1>9 DEF CommitStep
  <2>2. GoodRun(r, row, saved)
    BY <1>2, <1>3, <1>4, AdvancedRow, Zenon
  <2>3. /\ row.lease_token = t /\ row.state = "leased" /\ row.attempt = runs[r].attempt
        /\ row.step_index = i + 1
    BY <1>2 DEF GoodRun, Row
  <2>4. /\ runs'[r] = row /\ checkpoints'[r] = saved
        /\ \A s \in Runs \ {r} : runs'[s] = runs[s]
    BY <1>2, <1>6, <2>1 DEF WorkerInv, StoreInv, StoreTypeOK
  <2>5. /\ key_lock' \in [Keys -> Holders \cup {Null}]
        /\ \A k \in Keys, u \in Tokens \ {t} : key_lock[k] = u => key_lock'[k] = u
    BY <1>0, LocksKept
  <2>6. CASE ~ack
    <3>1. Goto(t, "fail")
        BY <1>0, <2>6 DEF AfterCommit
    <3>2. Holds(t, r)
        BY <1>2, Zenon DEF Holds
    <3>3. \A s \in Runs : Holds(t, s)' => Holds(t, s) /\ runs'[s].attempt = runs[s].attempt
        BY <2>3, <2>4, <3>2, Zenon DEF Holds
    <3>4. ClaimInv(t)' /\ claims' \in [Tokens -> Claim]
        BY <1>0, <1>2, <1>7, <3>1, <3>3, FailingClaim, Zenon
    <3>5. \A u \in Tokens \ {t} : claims'[u] = claims[u]
        BY <1>7, <3>1, GotoFacts DEF PC
    <3> HIDE DEF row, saved, r, i, v
    <3> QED
        BY <1>2, <1>6, <2>1, <2>2, <2>3, <2>5, <3>4, <3>5, StatementStep, Zenon
  <2>7. CASE ack
    <3> DEFINE c == [claims[t] EXCEPT !.pc = "drive", !.index = i + 1, !.result = Null,
                                      !.values = [claims[t].values EXCEPT ![i] = v]]
    <3>1. claims' = [claims EXCEPT ![t] = c]
        BY <1>0, <1>9, <2>7 DEF AfterCommit
    <3>2. i + 1 \in 0 .. MaxOps /\ i \in Positions
        BY <1>2, <1>3, OpFacts, Zenon
    <3>k. /\ [claims[t].values EXCEPT ![i] = v] \in [Positions -> Stored]
          /\ Knows(r, i + 1, [claims[t].values EXCEPT ![i] = v], saved)
      <4> HIDE DEF r, i, v
      <4>1. claims[t].values \in [Positions -> Stored] /\ checkpoints[r] \in [Positions -> Stored]
        BY <1>2, Zenon DEF Claim, GoodRun
      <4> DEFINE held == [claims[t].values EXCEPT ![i] = v]
      <4>2. /\ held \in [Positions -> Stored] /\ held[i] = v /\ saved[i] = v /\ v # Null
            /\ \A j \in Positions : j # i => held[j] = claims[t].values[j]
                                             /\ saved[j] = checkpoints[r][j]
        BY <1>4, <3>2, <4>1, NullAssumption DEF Stored
      <4>3. i \in Nat
        BY <1>2, IndexIsNat DEF i
      <4> HIDE DEF held, saved
      <4>4. r \in Runs /\ Knows(r, i, claims[t].values, checkpoints[r])
        BY <1>2, Zenon
      <4>5. /\ held[i] # Null /\ held[i] = saved[i]
            /\ \A j \in Positions : j # i => held[j] = claims[t].values[j]
                                             /\ saved[j] = checkpoints[r][j]
        BY <4>2, Zenon
      <4> HIDE DEF c, row
      <4>6. Knows(r, i + 1, held, saved)
        BY <4>3, <4>4, <4>5, KnowsAdvances
      <4> QED
        BY <4>2, <4>6 DEF held
    <3> HIDE DEF saved
    <3>3. c \in Claim
        BY <1>2, <3>2, <3>k, Zenon DEF Claim, PC, Stored
    <3>4. /\ claims' \in [Tokens -> Claim] /\ claims'[t] = c
          /\ \A u \in Tokens \ {t} : claims'[u] = claims[u]
        BY <1>7, <3>1, <3>3
    <3>5. /\ c.pc = "drive" /\ c.run = r /\ c.index = i + 1
          /\ c.values = [claims[t].values EXCEPT ![i] = v]
          /\ c.attempt = claims[t].attempt
        BY <1>2 DEF Claim, RunOf
    <3> HIDE DEF c, row
    <3>6. RunOf(t)' = r /\ IndexOf(t)' = i + 1 /\ Active(t)'
        BY <3>4, <3>5, Zenon DEF RunOf, IndexOf, Active
    <3>7. ClaimShape(t)'
      <4>a. r \in Runs /\ i \in 0 .. OpCount(r) - 1
        BY <1>2, <1>3, Zenon
      <4>1. r \in Runs /\ i + 1 <= OpCount(r)
        BY <4>a, CountIsNat
      <4>2. claims'[t].pc = "drive"
        BY <3>4, <3>5, Zenon
      <4> HIDE DEF r, i
      <4> QED
        BY <3>6, <4>1, <4>2, Zenon DEF ClaimShape, InWaitTx
    <3>8. \A s \in Runs : Holds(t, s)' => s = r
        BY <1>2, <2>4, Zenon DEF Holds
    <3>9. /\ claims'[t].attempt = runs'[r].attempt
          /\ Knows(r, IndexOf(t)', claims'[t].values, checkpoints'[r])
          /\ AtCursor(runs[r], checkpoints[r], IndexOf(t))'
      <4>1. runs'[r].step_index = i + 1 /\ runs'[r].attempt = claims[t].attempt
        BY <2>3, <2>4, <1>2, Zenon
      <4>2. r' = r
        BY <3>6
      <4> QED
        BY <4>1, <4>2, <3>k, <3>4, <3>5, <3>6, <2>4, Zenon DEF AtCursor
    <3>10. ClaimInv(t)'
        BY <3>4, <3>5, <3>6, <3>7, <3>8, <3>9, Zenon DEF ClaimInv, Knows
    <3> HIDE DEF r, i, v
    <3> QED
        BY <1>2, <1>6, <2>1, <2>2, <2>3, <2>5, <3>4, <3>10, StatementStep, Zenon
  <2> QED
    BY <2>6, <2>7
<1> QED
    BY <1>8, <1>9

(***************************************************************************)
(* Every step of a claim keeps the invariant.                              *)
(***************************************************************************)
LEMMA ClaimStepInv ==
    ASSUME WorkerInv, NEW t \in Tokens, ClaimStep(t)
    PROVE  WorkerInv'
    BY ReplayValueInv, RunStepInv, CommitInv, ParkForSleepInv, ParkForEventInv, FinishRunInv,
        LockEventKeyInv, LookupEventInv, LeavingInv, RecordFailureInv, Zenon DEF ClaimStep, Proceed

(***************************************************************************)
(* Enqueue, Cancel and the recovery of an expired lease.                   *)
(***************************************************************************)
LEMMA RowStatementInv ==
    ASSUME WorkerInv, NEW r \in Runs,
           \/ \E due \in Time : Enqueue(r, due)
           \/ Cancel(r)
           \/ Recover(r)
    PROVE  WorkerInv'
<1>0. GoodRun(r, runs[r], checkpoints[r]) /\ runs[r] \in Row
    BY DEF WorkerInv, StoreInv, StoreTypeOK, GoodRun
<1>c. checkpoints = [checkpoints EXCEPT ![r] = checkpoints[r]]
    BY DEF WorkerInv, StoreInv, StoreTypeOK
<1>1. ASSUME NEW due \in Time, Enqueue(r, due) PROVE WorkerInv'
  <2> DEFINE row == NewRow("ready", due)
  <2>1. /\ runs[r].state = "absent" /\ runs' = [runs EXCEPT ![r] = row]
        /\ checkpoints' = [checkpoints EXCEPT ![r] = checkpoints[r]]
        /\ UNCHANGED <<event_log, claims, key_lock>>
    BY <1>1, <1>c DEF Enqueue, InsertRun
  <2>2. row.lease_token = Null /\ row.state = "ready"
    BY Zenon DEF NewRow
  <2>3. GoodRun(r, row, checkpoints[r])
    BY <1>0, <2>1, InsertedRow
  <2> HIDE DEF row
  <2> QED
    BY <2>1, <2>2, <2>3, OutsideStep, Zenon
<1>2. ASSUME Cancel(r) PROVE WorkerInv'
  <2> DEFINE row == [Released(runs[r], "cancelled") EXCEPT !.waiting_event_key = Null,
                                                           !.waiting_deadline = Null]
  <2>1. /\ runs[r].state \in Unfinished /\ runs' = [runs EXCEPT ![r] = row]
        /\ checkpoints' = [checkpoints EXCEPT ![r] = checkpoints[r]]
        /\ UNCHANGED <<event_log, claims, key_lock>>
    BY <1>2, <1>c DEF Cancel, CancelRun
  <2>2. /\ Released(runs[r], "cancelled") \in Row
        /\ Released(runs[r], "cancelled").lease_token = Null
        /\ Released(runs[r], "cancelled").state = "cancelled"
    BY <1>0, ReleasedRow, Zenon DEF Terminal
  <2>3. row.lease_token = Null /\ row.state = "cancelled"
    BY <2>2 DEF Row
  <2>4. GoodRun(r, row, checkpoints[r])
    BY <1>0, <2>1, CancelledRow, Zenon
  <2> HIDE DEF row
  <2> QED
    BY <2>1, <2>3, <2>4, OutsideStep, Zenon
<1>3. ASSUME Recover(r) PROVE WorkerInv'
  <2> DEFINE state == IF runs[r].lease_failures + 1 >= MaxAttempts[r]
                      THEN "failed" ELSE "ready"
             row == [Released(runs[r], state) EXCEPT
                         !.lease_failures = runs[r].lease_failures + 1,
                         !.next_run_at = "future"]
  <2>1. /\ runs[r].state = "leased" /\ runs' = [runs EXCEPT ![r] = row]
        /\ checkpoints' = [checkpoints EXCEPT ![r] = checkpoints[r]]
        /\ UNCHANGED <<event_log, claims, key_lock>>
    BY <1>3, <1>c DEF Recover, RecoverLease
  <2>2. GoodRun(r, row, checkpoints[r])
    BY <1>0, <2>1, RecoveredRow, Zenon
  <2>3. state \in {"failed", "ready"}
    BY Zenon
  <2> HIDE DEF state
  <2>4. /\ Released(runs[r], state) \in Row
        /\ Released(runs[r], state).lease_token = Null
        /\ Released(runs[r], state).state = state
    BY <1>0, <2>3, ReleasedRow, Zenon DEF Terminal
  <2>5. row.lease_token = Null /\ row.state # "waiting_event"
    BY <2>3, <2>4 DEF Row
  <2> HIDE DEF row
  <2> QED
    BY <2>1, <2>2, <2>5, OutsideStep, Zenon
<1> QED
    BY <1>1, <1>2, <1>3

(***************************************************************************)
(* What is stored as the outcome of a wait, new or old, is a value.        *)
(***************************************************************************)
LEMMA OutcomeIsValue ==
    ASSUME NEW r \in Runs, GoodRun(r, runs[r], checkpoints[r]),
           runs[r].state = "waiting_event", NEW v \in Value
    PROVE  StoredBy(r, runs[r].step_index, v) \in Value
<1>1. runs[r].step_index \in Positions
    BY ResumedRow, Zenon
<1>2. checkpoints[r][runs[r].step_index] \in Stored
    BY <1>1 DEF GoodRun
<1> QED
    BY <1>2 DEF StoredBy, Stored

(***************************************************************************)
(* A wait whose deadline has passed is promoted.                           *)
(***************************************************************************)
LEMMA PromoteInv ==
    ASSUME WorkerInv, NEW r \in Runs, Promote(r)
    PROVE  WorkerInv'
<1> DEFINE row == Resumed(runs[r])
           v == StoredBy(r, runs[r].step_index, TimedOut)
           saved == [checkpoints[r] EXCEPT ![runs[r].step_index] = v]
<1>0. GoodRun(r, runs[r], checkpoints[r]) /\ runs[r].state = "waiting_event"
    BY DEF WorkerInv, StoreInv, StoreTypeOK, GoodRun, Promote, PromoteTimedOut
<1>1. v \in Value
    BY <1>0, OutcomeIsValue, Zenon DEF Value
<1>2. GoodRun(r, row, saved) /\ row.state = "ready" /\ row.lease_token = Null
  <2> HIDE DEF v
  <2>1. /\ GoodRun(r, Resumed(runs[r]), [checkpoints[r] EXCEPT ![runs[r].step_index] = v])
        /\ Resumed(runs[r]).state = "ready" /\ Resumed(runs[r]).lease_token = Null
    BY <1>0, <1>1, ResumedRow, Zenon
  <2> QED
    BY <2>1, Zenon
<1>3. /\ runs' = [runs EXCEPT ![r] = row]
      /\ checkpoints' = [checkpoints EXCEPT ![r] = saved]
      /\ UNCHANGED <<event_log, claims, key_lock>>
    BY DEF Promote, PromoteTimedOut, WithOutcome
<1> HIDE DEF row, saved
<1> QED
    BY <1>2, <1>3, OutsideStep, Zenon

(***************************************************************************)
(* emitEvent wakes the waiters of its key.  It holds the key's lock, so no *)
(* claim is between its look at the log and its registration.              *)
(***************************************************************************)
LEMMA EmitInv ==
    ASSUME WorkerInv, NEW k \in Keys, NEW early, Emit(k, early)
    PROVE  WorkerInv'
<1> DEFINE p == key_lock[k]
           v == Received(p)
           new == [key |-> k, payload |-> p, expires_at |-> "future"]
           outcome(r) == [checkpoints[r] EXCEPT
                              ![runs[r].step_index] = StoredBy(r, runs[r].step_index, v)]
<1>0. p \in Payloads /\ claims' = claims /\ key_lock' = [key_lock EXCEPT ![k] = Null]
    BY DEF Emit
<1>1. PICK late \in SUBSET {r \in WaitingOn(k) : runs[r].waiting_deadline = "past"} :
        LET woken == {r \in WaitingOn(k) : runs[r].waiting_deadline = "future"} \cup late
        IN  /\ runs' = [r \in Runs |-> IF r \in woken THEN Resumed(runs[r]) ELSE runs[r]]
            /\ checkpoints' = [r \in Runs |-> IF r \in woken
                                              THEN WithOutcome(r, v)
                                              ELSE checkpoints[r]]
            /\ event_log' = event_log \cup {new}
    BY Zenon DEF Emit, EmitEvent
<1> DEFINE woken == {r \in WaitingOn(k) : runs[r].waiting_deadline = "future"} \cup late
<1>2. v \in Value /\ StoreInv
    BY <1>0 DEF Value, WorkerInv
<1>3. \A r \in Runs : GoodRun(r, runs[r], checkpoints[r])
    BY <1>2, Zenon DEF StoreInv, StoreTypeOK, GoodRun
<1>4. ASSUME NEW r \in Runs, r \in woken
      PROVE  /\ runs'[r] = Resumed(runs[r]) /\ checkpoints'[r] = outcome(r)
             /\ GoodRun(r, runs'[r], checkpoints'[r])
             /\ runs'[r].state = "ready" /\ runs'[r].lease_token = Null
  <2>1. runs[r].state = "waiting_event"
    BY <1>4, Zenon DEF WaitingOn
  <2>v. StoredBy(r, runs[r].step_index, v) \in Value
    BY <1>2, <1>3, <2>1, OutcomeIsValue, Zenon
  <2>2. /\ GoodRun(r, Resumed(runs[r]), outcome(r))
        /\ Resumed(runs[r]).state = "ready" /\ Resumed(runs[r]).lease_token = Null
    <3>1. PICK s : s = StoredBy(r, runs[r].step_index, v)
      OBVIOUS
    <3>2. GoodRun(r, runs[r], checkpoints[r]) /\ s \in Value
      BY <1>3, <2>v, <3>1, Zenon
    <3> HIDE DEF v, outcome, new, woken
    <3>3. /\ GoodRun(r, Resumed(runs[r]),
                      [checkpoints[r] EXCEPT ![runs[r].step_index] = s])
          /\ Resumed(runs[r]).state = "ready" /\ Resumed(runs[r]).lease_token = Null
      BY <2>1, <3>2, ResumedRow, ZenonT(60)
    <3>4. outcome(r) = [checkpoints[r] EXCEPT ![runs[r].step_index] = s]
      BY <3>1, Zenon DEF outcome
    <3> QED
      BY <3>3, <3>4, Zenon
  <2>3. WithOutcome(r, v) = outcome(r)
    BY Zenon DEF WithOutcome
  <2> HIDE DEF v, outcome, new
  <2>4. runs'[r] = Resumed(runs[r]) /\ checkpoints'[r] = WithOutcome(r, v)
    BY <1>1, <1>4, Zenon
  <2> QED
    BY <2>2, <2>3, <2>4, Zenon
<1>5. ASSUME NEW r \in Runs, r \notin woken
      PROVE  runs'[r] = runs[r] /\ checkpoints'[r] = checkpoints[r]
  <2> HIDE DEF v, new
  <2> QED
    BY <1>1, <1>5, Zenon
<1> HIDE DEF outcome
<1>6. \A r \in Runs : GoodRun(r, runs'[r], checkpoints'[r])
    BY <1>3, <1>4, <1>5, Zenon
<1>w. \A r \in WaitingOn(k) : runs[r].waiting_deadline = "future" => r \in woken
    OBVIOUS
<1>e. event_log' = event_log \cup {new}
    BY <1>1, Zenon
<1>f. runs' = [r \in Runs |-> runs'[r]] /\ checkpoints' = [r \in Runs |-> checkpoints'[r]]
  <2> HIDE DEF v, new, woken
  <2> QED
    BY <1>1, Zenon
<1> HIDE DEF woken
<1>7. StoreInv'
  <2>1. StoreTypeOK'
    <3>1. runs' \in [Runs -> Row] /\ checkpoints' \in [Runs -> [Positions -> Stored]]
        BY <1>f, <1>6 DEF GoodRun
    <3>2. event_log' \subseteq Event
      <4>1. new \in Event
        BY <1>0, Zenon DEF Event, Time
      <4>2. event_log \subseteq Event
        BY <1>2 DEF StoreInv, StoreTypeOK
      <4> HIDE DEF new
      <4> QED
        BY <1>e, <4>1, <4>2, Zenon
    <3> QED
        BY <3>1, <3>2, Zenon DEF StoreTypeOK
  <2>2. TokensAreUnique'
    <3> SUFFICES ASSUME NEW r \in Runs, NEW s \in Runs, runs'[r].lease_token # Null,
                        runs'[r].lease_token = runs'[s].lease_token
                 PROVE  r = s
        BY Zenon DEF TokensAreUnique
    <3>1. r \notin woken /\ s \notin woken
        BY <1>4, Zenon
    <3>2. runs'[r] = runs[r] /\ runs'[s] = runs[s]
        BY <1>5, <3>1
    <3> QED
        BY <1>2, <3>2, Zenon DEF StoreInv, TokensAreUnique
  <2>3. NoMissedEvent'
    <3> SUFFICES ASSUME NEW r \in Runs, runs'[r].state = "waiting_event",
                        runs'[r].waiting_deadline = "future"
                 PROVE  LiveEvents(runs[r].waiting_event_key)' = {}
        BY DEF NoMissedEvent
    <3>1. r \notin woken /\ runs'[r] = runs[r]
        BY <1>4, <1>5, Zenon
    <3>2. runs[r].waiting_event_key # k
        BY <3>1, <1>w DEF WaitingOn
    <3>3. LiveEvents(runs[r].waiting_event_key) = {}
        BY <1>2, <3>1, Zenon DEF StoreInv, NoMissedEvent
    <3> QED
      <4>1. runs'[r].waiting_event_key = runs[r].waiting_event_key
        BY <3>1
      <4>2. new.key # runs[r].waiting_event_key
        BY <3>2
      <4> HIDE DEF new
      <4> QED
        BY <1>e, <3>3, <4>1, <4>2 DEF LiveEvents
  <2> QED
    BY <1>6, <2>1, <2>2, <2>3, Zenon DEF StoreInv, GoodRun, RunInv, RowShape, CursorMatches,
        OutputMatches, BudgetMatches
<1>8. ASSUME NEW u \in Tokens PROVE ClaimInv(u)'
  <2>1. claims \in [Tokens -> Claim] /\ ClaimInv(u) /\ claims'[u] = claims[u]
    BY <1>0, Zenon DEF WorkerInv
  <2>2. \A j \in Keys : key_lock[j] = u => key_lock'[j] = u
    BY <1>0, HoldersAssumption, Zenon DEF WorkerInv
  <2>3. claims[u].pc = "park" => LiveEvents(KeyOf(u))' \subseteq LiveEvents(KeyOf(u))
    <3> SUFFICES ASSUME claims[u].pc = "park"
                 PROVE  LiveEvents(KeyOf(u))' \subseteq LiveEvents(KeyOf(u))
        BY Zenon
    <3>1. key_lock[KeyOf(u)] = u
        BY <2>1, WaitKey, Zenon DEF ClaimInv, InWaitTx
    <3>2. KeyOf(u) # k /\ KeyOf(u)' = KeyOf(u)
        BY <1>0, <3>1, HoldersAssumption, Zenon DEF KeyOf, RunOf, IndexOf
    <3> QED
      <4>1. new.key # KeyOf(u)
        BY <3>2
      <4>2. KeyOf(u)' = KeyOf(u)
        BY <3>2
      <4> HIDE DEF new
      <4> QED
        BY <1>e, <4>1, <4>2 DEF LiveEvents
  <2>4. \A r \in Runs : Holds(u, r)' =>
            /\ Holds(u, r) /\ runs'[r].attempt = runs[r].attempt
            /\ runs'[r].step_index = runs[r].step_index
            /\ checkpoints'[r] = checkpoints[r]
    BY <1>4, <1>5, Zenon DEF Holds
  <2> QED
    BY <2>1, <2>2, <2>3, <2>4, ClaimFrame, Zenon
<1>9. claims' \in [Tokens -> Claim] /\ key_lock' \in [Keys -> Holders \cup {Null}]
    BY <1>0 DEF WorkerInv
<1> QED
    BY <1>7, <1>8, <1>9, Zenon DEF WorkerInv

(***************************************************************************)
(* A step that leaves rows, checkpoints and claims alone, adds no live     *)
(* event and takes no claim's key lock.                                    *)
(***************************************************************************)
LEMMA QuietStep ==
    ASSUME WorkerInv, UNCHANGED <<runs, checkpoints, claims>>,
           event_log' \subseteq Event,
           \A k \in Keys : LiveEvents(k)' \subseteq LiveEvents(k),
           key_lock' \in [Keys -> Holders \cup {Null}],
           \A k \in Keys, u \in Tokens : key_lock[k] = u => key_lock'[k] = u
    PROVE  WorkerInv'
<1>0. StoreInv /\ claims \in [Tokens -> Claim] /\ \A u \in Tokens : ClaimInv(u)
    BY DEF WorkerInv
<1>1. NoMissedEvent'
  <2> SUFFICES ASSUME NEW r \in Runs, runs[r].state = "waiting_event",
                      runs[r].waiting_deadline = "future"
               PROVE  LiveEvents(runs[r].waiting_event_key)' = {}
    BY Zenon DEF NoMissedEvent
  <2>1. runs[r].waiting_event_key \in Keys
    <3>1. runs[r] \in Row /\ RowShape(r, runs[r])
      BY <1>0 DEF StoreInv, StoreTypeOK, RunInv
    <3> QED
      BY <3>1, RowFacts, Zenon DEF RowShape
  <2>2. LiveEvents(runs[r].waiting_event_key) = {}
    BY <1>0, Zenon DEF StoreInv, NoMissedEvent
  <2>3. runs'[r].waiting_event_key = runs[r].waiting_event_key
    BY Zenon
  <2> QED
    BY <2>1, <2>2, <2>3, Zenon DEF LiveEvents
<1>2. StoreInv'
  <2>1. StoreTypeOK' /\ TokensAreUnique'
    BY <1>0, Zenon DEF StoreInv, StoreTypeOK, TokensAreUnique
  <2>2. ASSUME NEW r \in Runs PROVE RunInv(r, runs[r], checkpoints[r])'
    <3>1. RunInv(r, runs[r], checkpoints[r])
        BY <1>0, Zenon DEF StoreInv
    <3>2. runs' = runs /\ checkpoints' = checkpoints
        OBVIOUS
    <3> QED
        BY <3>1, <3>2, Zenon DEF RunInv, RowShape, CursorMatches, OutputMatches, BudgetMatches
  <2> QED
    BY <1>1, <2>1, <2>2, Zenon DEF StoreInv
<1>3. ASSUME NEW u \in Tokens PROVE ClaimInv(u)'
  <2>1. claims[u].pc = "park" => LiveEvents(KeyOf(u))' \subseteq LiveEvents(KeyOf(u))
    <3> SUFFICES ASSUME claims[u].pc = "park"
                 PROVE  LiveEvents(KeyOf(u))' \subseteq LiveEvents(KeyOf(u))
        BY Zenon
    <3>1. KeyOf(u) \in Keys /\ KeyOf(u)' = KeyOf(u)
        BY <1>0, WaitKey, Zenon DEF ClaimInv, InWaitTx, KeyOf, RunOf, IndexOf
    <3> QED
        BY <3>1, Zenon DEF LiveEvents
  <2>2. \A r \in Runs : Holds(u, r)' => Holds(u, r)
    BY Zenon DEF Holds
  <2> QED
    BY <1>0, <2>1, <2>2, ClaimFrame, Zenon
<1> QED
    BY <1>0, <1>2, <1>3 DEF WorkerInv

(***************************************************************************)
(* An emission begins or is rolled back; an expired event is pruned; an    *)
(* event expires.                                                          *)
(***************************************************************************)
LEMMA EventInv ==
    ASSUME WorkerInv,
           \/ \E k \in Keys : EmitRollsBack(k) \/ \E p \in Payloads : LockForEmit(k, p)
           \/ \E e \in event_log : Prune(e)
           \/ \E e \in event_log : EventExpires(e) /\ UNCHANGED <<claims, key_lock>>
    PROVE  WorkerInv'
<1>0. event_log \subseteq Event /\ key_lock \in [Keys -> Holders \cup {Null}]
    BY DEF WorkerInv, StoreInv, StoreTypeOK
<1>1. ASSUME NEW k \in Keys, EmitRollsBack(k) \/ \E p \in Payloads : LockForEmit(k, p)
      PROVE  WorkerInv'
  <2>1. UNCHANGED <<runs, checkpoints, claims>> /\ event_log' = event_log
    BY <1>1, Zenon DEF EmitRollsBack, LockForEmit, store
  <2>2. /\ key_lock' \in [Keys -> Holders \cup {Null}]
        /\ \A j \in Keys, u \in Tokens : key_lock[j] = u => key_lock'[j] = u
    BY <1>0, <1>1, HoldersAssumption, RunStoreAssumption, Zenon DEF EmitRollsBack, LockForEmit, Holders
  <2>3. \A j \in Keys : LiveEvents(j)' \subseteq LiveEvents(j)
    BY <2>1 DEF LiveEvents
  <2> QED
    BY <1>0, <2>1, <2>2, <2>3, QuietStep
<1>2. ASSUME NEW e \in event_log, Prune(e) PROVE WorkerInv'
  <2>1. UNCHANGED <<runs, checkpoints, claims>> /\ key_lock' = key_lock
        /\ event_log' \subseteq event_log
    BY <1>2 DEF Prune, PruneEvent
  <2>2. \A j \in Keys : LiveEvents(j)' \subseteq LiveEvents(j)
    BY <2>1 DEF LiveEvents
  <2> QED
    BY <1>0, <2>1, <2>2, QuietStep
<1>3. ASSUME NEW e \in event_log, EventExpires(e), UNCHANGED <<claims, key_lock>>
      PROVE  WorkerInv'
  <2> DEFINE old == [e EXCEPT !.expires_at = "past"]
  <2>1. /\ UNCHANGED <<runs, checkpoints, claims>> /\ key_lock' = key_lock
        /\ event_log' = (event_log \ {e}) \cup {old}
    BY <1>3 DEF EventExpires
  <2>2. old \in Event /\ old.expires_at = "past"
    BY <1>0 DEF Event, Time
  <2> HIDE DEF old
  <2>3. \A j \in Keys : LiveEvents(j)' \subseteq LiveEvents(j)
    BY <2>1, <2>2 DEF LiveEvents
  <2> QED
    BY <1>0, <2>1, <2>2, <2>3, QuietStep, Zenon
<1> QED
    BY <1>1, <1>2, <1>3

(***************************************************************************)
(* The clock passes a row's timestamp: every column the claims rely on     *)
(* stays.                                                                  *)
(***************************************************************************)
LEMMA ClockInv ==
    ASSUME WorkerInv, NEW r \in Runs,
           RunBecomesDue(r) \/ LeaseExpires(r) \/ DeadlinePasses(r),
           UNCHANGED <<claims, key_lock>>
    PROVE  WorkerInv'
<1>0. /\ StoreInv /\ claims \in [Tokens -> Claim] /\ \A u \in Tokens : ClaimInv(u)
      /\ GoodRun(r, runs[r], checkpoints[r]) /\ runs[r] \in Row
    BY Zenon DEF WorkerInv, StoreInv, StoreTypeOK, GoodRun
<1>1. PICK row : /\ runs' = [runs EXCEPT ![r] = row]
                 /\ \/ runs[r].state = "ready" /\ row = [runs[r] EXCEPT !.next_run_at = "past"]
                    \/ /\ runs[r].lease_until = "future"
                       /\ row = [runs[r] EXCEPT !.lease_until = "past"]
                    \/ /\ runs[r].waiting_deadline = "future"
                       /\ row = [runs[r] EXCEPT !.waiting_deadline = "past"]
    BY Zenon DEF RunBecomesDue, LeaseExpires, DeadlinePasses
<1>2. GoodRun(r, row, checkpoints[r])
  <2> DEFINE old == runs[r]
             saved == checkpoints[r]
  <2>1. /\ old.state = "ready" => GoodRun(r, [old EXCEPT !.next_run_at = "past"], saved)
        /\ old.lease_until = "future" =>
              GoodRun(r, [old EXCEPT !.lease_until = "past"], saved)
        /\ old.waiting_deadline = "future" =>
              GoodRun(r, [old EXCEPT !.waiting_deadline = "past"], saved)
    BY <1>0, ClockedRow
  <2> QED
    BY <1>1, <2>1
<1>3. /\ row.state = runs[r].state /\ row.lease_token = runs[r].lease_token
      /\ row.attempt = runs[r].attempt /\ row.step_index = runs[r].step_index
      /\ row.waiting_event_key = runs[r].waiting_event_key
      /\ row.waiting_deadline = "future" => runs[r].waiting_deadline = "future"
    BY <1>0, <1>1 DEF Row
<1>4. checkpoints' = checkpoints /\ event_log' = event_log
    BY DEF RunBecomesDue, LeaseExpires, DeadlinePasses
<1>5. checkpoints' = [checkpoints EXCEPT ![r] = checkpoints[r]]
    BY <1>0, <1>4 DEF StoreInv, StoreTypeOK
<1>6. \/ row.lease_token = Null
      \/ \A s \in Runs \ {r} : runs[s].lease_token # row.lease_token
    BY <1>0, <1>3, Zenon DEF StoreInv, TokensAreUnique
<1>7. row.state = "waiting_event" /\ row.waiting_deadline = "future" =>
          LiveEvents(row.waiting_event_key) = {}
    BY <1>0, <1>3, Zenon DEF StoreInv, NoMissedEvent
<1>8. StoreInv'
    BY <1>0, <1>1, <1>2, <1>4, <1>5, <1>6, <1>7, RowChange, Zenon
<1>9. ASSUME NEW u \in Tokens PROVE ClaimInv(u)'
  <2>1. runs'[r] = row /\ \A s \in Runs \ {r} : runs'[s] = runs[s]
    BY <1>0, <1>1 DEF StoreInv, StoreTypeOK
  <2>2. \A s \in Runs : Holds(u, s)' =>
            /\ Holds(u, s) /\ runs'[s].attempt = runs[s].attempt
            /\ runs'[s].step_index = runs[s].step_index
            /\ checkpoints'[s] = checkpoints[s]
    BY <1>3, <1>4, <2>1, Zenon DEF Holds
  <2>3. LiveEvents(KeyOf(u))' = LiveEvents(KeyOf(u))
    BY <1>4, Zenon DEF LiveEvents, KeyOf, RunOf, IndexOf
  <2> QED
    BY <1>0, <2>2, <2>3, ClaimFrame, Zenon
<1> QED
    BY <1>0, <1>8, <1>9, Zenon DEF WorkerInv

-----------------------------------------------------------------------------

\* A step of anything but a claim statement.
OtherStep ==
    \/ \E t \in Tokens : ClaimStep(t)
    \/ Producer
    \/ Maintenance
    \/ ClockTick

(***************************************************************************)
(* Every step of claims, producers, maintenance and the clock keeps this   *)
(* part of the invariant.                                                  *)
(***************************************************************************)
LEMMA OtherStepInv ==
    ASSUME WorkerInv, OtherStep \/ UNCHANGED work
    PROVE  WorkerInv'
<1>1. ASSUME NEW t \in Tokens, ClaimStep(t) PROVE WorkerInv'
    BY <1>1, ClaimStepInv
<1>2. CASE Producer
    BY <1>2, RowStatementInv, EmitInv, EventInv DEF Producer
<1>3. CASE Maintenance
    BY <1>3, RowStatementInv, PromoteInv, EventInv DEF Maintenance
<1>4. CASE ClockTick
    BY <1>4, ClockInv, EventInv DEF ClockTick
<1>5. CASE UNCHANGED work
  <2>1. UNCHANGED <<runs, checkpoints, claims>> /\ event_log' = event_log /\ key_lock' = key_lock
    BY <1>5 DEF work, store
  <2>2. \A k \in Keys : LiveEvents(k)' \subseteq LiveEvents(k)
    BY <2>1 DEF LiveEvents
  <2> QED
    BY <2>1, <2>2, QuietStep, Zenon DEF WorkerInv, StoreInv, StoreTypeOK
<1> QED
    BY <1>1, <1>2, <1>3, <1>4, <1>5 DEF OtherStep
=============================================================================
