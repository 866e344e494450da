----------------------------- MODULE Definition -----------------------------
(***************************************************************************)
(* A workflow from its builder calls (builder.go) to what its steps can    *)
(* read of the operations before them (StepContext in types.go).  Worker   *)
(* starts from compiled operations and opaque values; here are the names,  *)
(* the compilation, the encoding of wait outcomes and its decoding.        *)
(***************************************************************************)
EXTENDS Naturals, Sequences

CONSTANTS
    Names,      \* step and wait names, trimmed and not empty
    MaxOps,     \* bound on the number of operations
    Texts,      \* JSON scalars that users' code may produce
    Null        \* nil

(***************************************************************************)
(* JSON as far as decoding tells it apart: a scalar <<t>>, or an object    *)
(* whose field "received" holds a JSON value.                              *)
(***************************************************************************)
TimedOut == <<"timed_out">>

Received(v) == <<"received">> \o v

\* What step functions return and events carry, wait outcomes included.
UserJson == {<<t>> : t \in Texts} \cup {TimedOut, Received(TimedOut)}

ASSUME DefinitionAssumption ==
    /\ MaxOps \in Nat \ {0}
    /\ Texts \cap {"timed_out", "received"} = {}
    /\ Null \notin Names \cup Nat \cup UserJson \cup {Received(v) : v \in UserJson}

VARIABLES
    ops,        \* the builder's operations
    stepNames,  \* the builder's names
    wf,         \* the compiled workflow, or Null
    values,     \* drive's values, one per operation
    index,      \* the operation drive is at
    happened    \* what the operations before it did, as users see it

defVars == <<ops, stepNames, wf, values, index, happened>>

DefInit ==
    /\ ops = <<>> /\ stepNames = {} /\ wf = Null
    /\ values = <<>> /\ index = 0 /\ happened = <<>>

Building == wf = Null /\ Len(ops) < MaxOps /\ UNCHANGED <<wf, values, index, happened>>

\* addName panics on a name that is taken.
addName(n) == n \notin stepNames /\ stepNames' = stepNames \cup {n}

Step(n) == Building /\ addName(n) /\ ops' = Append(ops, [kind |-> "step", name |-> n])

Sleep == Building /\ ops' = Append(ops, [kind |-> "sleep", name |-> Null]) /\ UNCHANGED stepNames

\* WaitEvent and WaitEventFunc differ in the key only.
WaitEvent(n) ==
    Building /\ addName(n) /\ ops' = Append(ops, [kind |-> "wait_event", name |-> n])

MutantOutputOfSteps(o) ==
    LET last[i \in 0 .. Len(o)] ==
            IF i = 0 THEN Null ELSE IF o[i].kind = "step" THEN i - 1 ELSE last[i - 1]
    IN  last[Len(o)]

\* The loop of compileWorkflow, after i operations; -1 is Null here.
outputIndex(o) ==
    LET last[i \in 0 .. Len(o)] ==
            IF i = 0 THEN Null ELSE IF o[i].kind = "sleep" THEN last[i - 1] ELSE i - 1
    IN  last[Len(o)]

\* The map the same loop builds: a later operation overwrites an earlier one.
names(o) ==
    LET map[i \in 0 .. Len(o)] ==
            IF i = 0 THEN [n \in Names |-> Null]
            ELSE IF o[i].kind = "sleep" THEN map[i - 1]
            ELSE [map[i - 1] EXCEPT ![o[i].name] = i - 1]
    IN  map[Len(o)]

compileWorkflow ==
    /\ wf = Null /\ ops # <<>>
    /\ wf' = [ops |-> ops, names |-> names(ops), outputIndex |-> outputIndex(ops)]
    /\ values' = [i \in DOMAIN ops |-> Null]
    /\ UNCHANGED <<ops, stepNames, index, happened>>

At(kind) == wf # Null /\ index < Len(wf.ops) /\ wf.ops[index + 1].kind = kind

Advance(raw, what) ==
    /\ values' = [values EXCEPT ![index + 1] = raw]
    /\ happened' = Append(happened, what)
    /\ index' = index + 1
    /\ UNCHANGED <<ops, stepNames, wf>>

Returns(v) == At("step") /\ Advance(v, <<"returned", v>>)

Sleeps == At("sleep") /\ Advance(Null, <<"slept">>)

MutantStorePayload(p) == At("wait_event") /\ Advance(p, <<"received", p>>)

\* waitForEvent wraps the payload, as emitEvent does for a parked run.
Delivers(p) == At("wait_event") /\ Advance(Received(p), <<"received", p>>)

\* promoteTimedOut.
TimesOut == At("wait_event") /\ Advance(TimedOut, <<"timed out">>)

DefNext ==
    \/ \E n \in Names : Step(n) \/ WaitEvent(n)
    \/ Sleep
    \/ compileWorkflow
    \/ \E v \in UserJson : Returns(v) \/ Delivers(v)
    \/ Sleeps
    \/ TimesOut

DefSpec == DefInit /\ [][DefNext]_defVars

(***************************************************************************)
(* The context of the operation at index: stepContext copies the values    *)
(* before it.                                                              *)
(***************************************************************************)
scValues == SubSeq(values, 1, index)

raw(n) ==
    LET i == wf.names[n]
    IN  IF i = Null \/ i >= Len(scValues) THEN Null ELSE scValues[i + 1]

\* Value and StepResult, which differ in how they say that there is none.
Value(n) == IF raw(n) = Null THEN <<"absent">> ELSE <<"returned", raw(n)>>

Event(n) ==
    CASE raw(n) = Null     -> <<"absent">>
      [] raw(n) = TimedOut -> <<"timed out">>
      [] raw(n) # Null /\ Len(raw(n)) > 1 -> <<"received", Tail(raw(n))>>
      [] OTHER             -> <<"not an event">>

-----------------------------------------------------------------------------

(***************************************************************************)
(* A step that asks for an earlier operation by name gets what that very   *)
(* operation did: a step's own result, and for a wait whether it timed out *)
(* or else the payload, even if the payload itself reads "timed_out" or is *)
(* a wait's outcome.  A name that is not behind it has no value.           *)
(***************************************************************************)
ContextTellsWhatHappened ==
    wf # Null =>
        \A i \in DOMAIN ops : ops[i].kind # "sleep" =>
            LET n == ops[i].name
            IN  /\ i > index => Value(n) = <<"absent">> /\ Event(n) = <<"absent">>
                /\ i <= index /\ ops[i].kind = "step" => Value(n) = happened[i]
                /\ i <= index /\ ops[i].kind = "wait_event" => Event(n) = happened[i]

(***************************************************************************)
(* The output of the finished run is what its last step or wait stored,    *)
(* and a run of sleeps alone has none (compileWorkflow's outputIndex).     *)
(***************************************************************************)
OutputIsTheLastValue ==
    (wf # Null /\ index = Len(ops)) =>
        IF wf.outputIndex = Null THEN \A i \in DOMAIN values : values[i] = Null
        ELSE /\ values[wf.outputIndex + 1] # Null
             /\ \A i \in DOMAIN values : i > wf.outputIndex + 1 => values[i] = Null
=============================================================================
