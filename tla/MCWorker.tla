------------------------------ MODULE MCWorker ------------------------------
(***************************************************************************)
(* Instances of Worker for TLC.                                            *)
(***************************************************************************)
EXTENDS Worker, TLC

CONSTANTS r1, r2, k1

Step == [kind |-> "step", key |-> Null]

Sleep == [kind |-> "sleep", key |-> Null]

Wait(k) == [kind |-> "wait_event", key |-> k]

\* A run that waits, and goes on with what it received.
OpsOne == r1 :> <<Wait(k1), Step>>

\* Two runs waiting for one key: one ends with the wait, one with a sleep.
OpsShared == r1 :> <<Step, Wait(k1)>> @@ r2 :> <<Wait(k1), Sleep>>

\* A run with a step on either side of its wait.
OpsWaitBetween == r1 :> <<Step, Wait(k1), Step>>

OneAttempt == [r \in Runs |-> 1]

TwoAttempts == [r \in Runs |-> 2]

Symmetry == Permutations(Tokens) \cup Permutations(Claimers)
=============================================================================
