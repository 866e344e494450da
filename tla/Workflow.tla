------------------------------ MODULE Workflow ------------------------------
(***************************************************************************)
(* Compiled workflow definitions (builder.go) and the JSON values a run    *)
(* stores for its operations.  A run's definition is the list of           *)
(* operations that its (workflow_name, workflow_version) pair compiled to; *)
(* positions are counted from 0, as in the source.                         *)
(***************************************************************************)
EXTENDS Naturals, Sequences

CONSTANTS
    Runs,       \* identities of workflow runs
    MaxOps,     \* bound on the length of a definition
    Ops,        \* Ops[r]: the compiled operations of run r's definition
    Keys,       \* event keys
    Results,    \* what a step function may return, encoded as JSON
    Payloads,   \* payloads of emitted events
    Null        \* SQL NULL, and Go's nil json.RawMessage

(***************************************************************************)
(* An operation keeps its kind and, for a wait, the event key it resolves  *)
(* to.  Functions, durations and timeouts are abstracted: a function may   *)
(* return anything, and a deadline passes at an arbitrary later time.      *)
(***************************************************************************)
OpKind == {"step", "sleep", "wait_event"}

Operation ==
    [kind : {"step", "sleep"}, key : {Null}] \cup [kind : {"wait_event"}, key : Keys]

Positions == 0 .. MaxOps - 1

OpCount(r) == Len(Ops[r])

OpAt(r, i) == Ops[r][i + 1]

ASSUME WorkflowAssumption ==
    /\ MaxOps \in Nat \ {0}
    /\ \A r \in Runs : /\ Ops[r] \in Seq(Operation)
                       /\ Len(Ops[r]) \in 1 .. MaxOps

(***************************************************************************)
(* Stored JSON.  A step stores its result, a wait {"received": payload} or *)
(* "timed_out"; the three cannot be confused.                              *)
(***************************************************************************)
StepValue(d) == [kind |-> "result", data |-> d]

Received(p) == [kind |-> "received", data |-> p]

TimedOut == [kind |-> "timed_out", data |-> Null]

Value ==
    {StepValue(d) : d \in Results} \cup {Received(p) : p \in Payloads} \cup {TimedOut}

Stored == Value \cup {Null}

ASSUME NullAssumption == Null \notin Value /\ Null \notin Keys

(***************************************************************************)
(* compileWorkflow's outputIndex is the last step or wait, -1 if there is  *)
(* none; the run's output is the value stored there.                       *)
(***************************************************************************)
IsOutputIndex(r, i) ==
    /\ OpAt(r, i).kind # "sleep"
    /\ \A j \in i + 1 .. OpCount(r) - 1 : OpAt(r, j).kind = "sleep"

Output(r, values) ==
    IF \E i \in 0 .. OpCount(r) - 1 : IsOutputIndex(r, i)
    THEN values[CHOOSE i \in 0 .. OpCount(r) - 1 : IsOutputIndex(r, i)]
    ELSE Null
=============================================================================
