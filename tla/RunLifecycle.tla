---------------------------- MODULE RunLifecycle ----------------------------
(***************************************************************************)
(* What durablepg promises about a run, without leases, claims, locks or   *)
(* clocks: the state diagram of ARCHITECTURE.md, together with the values  *)
(* that are durable.  Values are saved one by one, in the order of the     *)
(* operations, by the run's worker or, for a wait, by the event or timeout *)
(* that ends it; a saved value stays; a run completes exactly when it has  *)
(* a value for every step and wait, with the last one as its output.  A    *)
(* run may be parked again on a wait that has its outcome, because its     *)
(* worker may not know it; it is then woken with the outcome it has.       *)
(***************************************************************************)
EXTENDS Workflow

VARIABLES
    state,    \* state[r]: the state of run r, "absent" before it is inserted
    results,  \* results[r][i]: the saved value of operation i, or Null
    output    \* output[r]: the output of a completed run

vars == <<state, results, output>>

Init ==
    /\ state = [r \in Runs |-> "absent"]
    /\ results = [r \in Runs |-> [i \in Positions |-> Null]]
    /\ output = [r \in Runs |-> Null]

\* The operations of r that must have a value before r can complete.
Valued(r) == {i \in 0 .. OpCount(r) - 1 : OpAt(r, i).kind # "sleep"}

\* Operation i is the next of r to get a value.
NextToSave(r, i) ==
    /\ i \in Valued(r)
    /\ \A j \in Valued(r) : results[r][j] = Null <=> j >= i

\* The value saved last is the outcome of a wait.
WaitEnded(r) ==
    \E i \in Valued(r) : /\ OpAt(r, i).kind = "wait_event"
                         /\ \A j \in Valued(r) : results[r][j] = Null <=> j > i

Move(r, from, to) ==
    /\ state[r] \in from
    /\ state' = [state EXCEPT ![r] = to]

Save(r, i, v) ==
    /\ NextToSave(r, i)
    /\ v \in Value
    /\ results' = [results EXCEPT ![r] = [@ EXCEPT ![i] = v]]

-----------------------------------------------------------------------------

Insert(r) == Move(r, {"absent"}, "ready") /\ UNCHANGED <<results, output>>

Claim(r) == Move(r, {"ready"}, "leased") /\ UNCHANGED <<results, output>>

\* A sleep, an error, or an expired lease.
Release(r) == Move(r, {"leased"}, "ready") /\ UNCHANGED <<results, output>>

Advance(r, i, v) ==
    /\ state[r] = "leased"
    /\ UNCHANGED <<state, output>>
    /\ Save(r, i, v)

Wait(r) ==
    /\ Move(r, {"leased"}, "waiting_event")
    /\ \E i \in Valued(r) : NextToSave(r, i) /\ OpAt(r, i).kind = "wait_event"
    /\ UNCHANGED <<results, output>>

Waiting == {r \in Runs : state[r] = "waiting_event"}

\* One event, or a timeout, ends the waits of the runs in woken with outcome v, and
\* those of the runs in again, which keep the outcome they have.
Wake(woken, again) ==
    /\ state' = [r \in Runs |-> IF r \in woken \cup again THEN "ready" ELSE state[r]]
    /\ \A r \in again : WaitEnded(r)
    /\ \E v \in Value \ {StepValue(d) : d \in Results}, at \in [woken -> Positions] :
          /\ \A r \in woken : NextToSave(r, at[r])
          /\ results' = [r \in Runs |-> IF r \in woken
                                        THEN [results[r] EXCEPT ![at[r]] = v]
                                        ELSE results[r]]
    /\ UNCHANGED output

WaitAgain(r) ==
    /\ Move(r, {"leased"}, "waiting_event")
    /\ WaitEnded(r)
    /\ UNCHANGED <<results, output>>

\* The value of the last operation is saved and the run completes with it.
SaveLast(r, v) ==
    /\ Move(r, {"leased"}, "completed")
    /\ Save(r, OpCount(r) - 1, v)
    /\ output' = [output EXCEPT ![r] = v]

Complete(r) ==
    /\ Move(r, {"leased"}, "completed")
    /\ \A i \in Valued(r) : results[r][i] # Null
    /\ output' = [output EXCEPT ![r] = Output(r, results[r])]
    /\ UNCHANGED results

Fail(r) == Move(r, {"leased"}, "failed") /\ UNCHANGED <<results, output>>

Cancel(r) ==
    /\ Move(r, {"ready", "leased", "waiting_event"}, "cancelled")
    /\ UNCHANGED <<results, output>>

Next ==
    \/ \E woken, again \in SUBSET Waiting : Wake(woken, again)
    \/ \E r \in Runs :
          \/ Insert(r) \/ Claim(r) \/ Release(r) \/ Wait(r) \/ WaitAgain(r)
          \/ Complete(r) \/ Fail(r) \/ Cancel(r)
          \/ \E v \in Value : SaveLast(r, v)
          \/ \E i \in Positions, v \in Value : Advance(r, i, v)

Spec == Init /\ [][Next]_vars
=============================================================================
