------------------------------ MODULE RowOrder ------------------------------
(***************************************************************************)
(* Rows whose timestamp has passed, in its order: what the claim and the   *)
(* maintenance statements select with ORDER BY ... LIMIT.  An order is a   *)
(* set of pairs of rows, the older one first.                              *)
(***************************************************************************)
EXTENDS Naturals, FiniteSets

\* The timestamp of r passes after those of the rows S.
AddAfter(older, S, r) == older \cup (S \X {r})

\* The sets of rows of S behind which a new row can be: with every row, the older ones.
Places(older, S) ==
    {before \in SUBSET S : \A r \in before, s \in S \ before : <<r, s>> \in older}

\* The timestamp of r has passed, and is between those of before and of the rest of S.
AddBetween(older, S, before, r) ==
    older \cup (before \X {r}) \cup ({r} \X (S \ before))

\* The rows S are gone.
DropRows(older, S) == {pair \in older : pair[1] \notin S /\ pair[2] \notin S}

\* ORDER BY the timestamp, LIMIT n: the n oldest rows of S, or all if there are fewer.
Oldest(S, n, older) ==
    {rows \in SUBSET S :
        /\ \A r \in rows, s \in S \ rows : <<r, s>> \in older
        /\ Cardinality(rows) <= n
        /\ rows # S => Cardinality(rows) = n}
=============================================================================
