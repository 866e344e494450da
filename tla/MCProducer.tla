----------------------------- MODULE MCProducer -----------------------------
(***************************************************************************)
(* Producer for TLC: run ids, names and calls are interchangeable.         *)
(***************************************************************************)
EXTENDS Producer, TLC

Symmetry == Permutations(Ids) \cup Permutations(Names) \cup Permutations(Calls)
=============================================================================
