---------------------------- MODULE SetupProofs ----------------------------
(***************************************************************************)
(* What a program does before it starts a worker: it defines its workflows *)
(* (Definition) and brings the schema up to date (SchemaMigration).  The   *)
(* two have no variable in common, and their proofs no lemma.              *)
(***************************************************************************)
EXTENDS Definition, SchemaMigration, TLAPS, WellFoundedInduction, NaturalsInduction

-----------------------------------------------------------------------------
(***************************************************************************)
(* What a step can read of the operations before it, and which value a run *)
(* ends with, for every number of operations, every set of names and every *)
(* set of JSON scalars.                                                    *)
(*                                                                         *)
(* compileWorkflow fills the names and the output index in one loop over   *)
(* the operations.  What the loop computes is shown by giving each of its  *)
(* results a closed form, LastBefore and NamesBefore, that satisfies the   *)
(* loop's equation; two solutions of that equation agree, for at the least *)
(* number of iterations where they differ the step before would differ.    *)
(***************************************************************************)

\* A set of numbers that is not empty has a least one.
LEMMA LeastNat ==
  ASSUME NEW S \in SUBSET Nat, S # {}
  PROVE  \E m \in S : \A n \in S : m <= n
<1> DEFINE R == OpToRel(<, Nat)
<1>1. IsWellFoundedOn(R, Nat)
  BY NatLessThanWellFounded, Zenon
<1>2. \A m, n \in Nat : n < m => <<n, m>> \in R
  BY Zenon DEF OpToRel
<1> HIDE DEF R
<1>3. PICK m \in S : \A n \in S : <<n, m>> \notin R
  BY <1>1, WFMin, Zenon
<1>4. \A n \in S : m <= n
  <2>1. \A n \in S : ~(n < m)
    BY <1>2, <1>3, Zenon
  <2> QED
    BY <2>1
<1> QED
  BY <1>4

\* Operation i stores a value when it is done: a sleep does not.
Valued(o, i) == o[i].kind # "sleep"

\* Of the operations up to n that store a value, if there are any, one is the last.
LEMMA LastValued ==
  ASSUME NEW o, NEW n \in Nat, \E j \in 1 .. n : Valued(o, j)
  PROVE  \E k \in 1 .. n : Valued(o, k) /\ \A j \in k + 1 .. n : ~Valued(o, j)
<1> DEFINE S == {m \in Nat : m < n /\ Valued(o, n - m)}
<1>1. PICK j \in 1 .. n : Valued(o, j)
  OBVIOUS
<1>2. n - j \in S
  <2>1. n - j \in Nat /\ n - j < n /\ n - (n - j) = j
    OBVIOUS
  <2> QED
    BY <1>1, <2>1
<1>3. PICK m \in S : \A l \in S : m <= l
  <2>1. S \in SUBSET Nat /\ S # {}
    BY <1>2
  <2> HIDE DEF S
  <2> QED
    BY <2>1, LeastNat, Zenon
<1>4. n - m \in 1 .. n /\ Valued(o, n - m)
  BY <1>3
<1>5. ASSUME NEW i \in n - m + 1 .. n PROVE ~Valued(o, i)
  <2>1. n - i \in Nat /\ n - i < m /\ n - i < n /\ n - (n - i) = i
    BY <1>3
  <2>2. n - i \notin S
    BY <1>3, <2>1
  <2> QED
    BY <2>1, <2>2
<1> QED
  BY <1>4, <1>5

\* What outputIndex is after n operations.
LastBefore(o, n) ==
  IF \E j \in 1 .. n : Valued(o, j)
  THEN (CHOOSE k \in 1 .. n : Valued(o, k) /\ \A j \in k + 1 .. n : ~Valued(o, j)) - 1
  ELSE Null

\* What the definition of LastBefore chooses.
LEMMA LastBeforeFacts ==
  ASSUME NEW o, NEW n \in Nat
  PROVE  \/ LastBefore(o, n) = Null /\ \A j \in 1 .. n : ~Valued(o, j)
         \/ \E k \in 1 .. n : /\ LastBefore(o, n) = k - 1 /\ Valued(o, k)
                              /\ \A j \in k + 1 .. n : ~Valued(o, j)
<1>1. CASE \E j \in 1 .. n : Valued(o, j)
  <2> DEFINE k == CHOOSE k \in 1 .. n : Valued(o, k) /\ \A j \in k + 1 .. n : ~Valued(o, j)
  <2>1. k \in 1 .. n /\ Valued(o, k) /\ \A j \in k + 1 .. n : ~Valued(o, j)
    BY <1>1, LastValued
  <2>2. LastBefore(o, n) = k - 1
    BY <1>1 DEF LastBefore
  <2> QED
    BY <2>1, <2>2
<1>2. CASE ~ \E j \in 1 .. n : Valued(o, j)
  BY <1>2 DEF LastBefore
<1> QED
  BY <1>1, <1>2

\* LastBefore satisfies the equation of the loop's output index.
LEMMA LastBeforeStep ==
  ASSUME NEW o, NEW n \in Nat \ {0}
  PROVE  LastBefore(o, n) = IF o[n].kind = "sleep" THEN LastBefore(o, n - 1) ELSE n - 1
<1>1. CASE Valued(o, n)
  <2>1. n \in 1 .. n
    OBVIOUS
  <2>2. PICK k \in 1 .. n : /\ LastBefore(o, n) = k - 1 /\ Valued(o, k)
                            /\ \A j \in k + 1 .. n : ~Valued(o, j)
    BY <1>1, <2>1, LastBeforeFacts
  <2>3. k = n
    BY <1>1, <2>1, <2>2
  <2> QED
    BY <1>1, <2>2, <2>3 DEF Valued
<1>2. CASE ~Valued(o, n)
  <2>1. n - 1 \in Nat /\ n \in 1 .. n
    OBVIOUS
  <2>2. \A j : j \in 1 .. n /\ Valued(o, j) <=> j \in 1 .. n - 1 /\ Valued(o, j)
    <3>1. \A j \in 1 .. n : j # n => j \in 1 .. n - 1
      OBVIOUS
    <3>2. 1 .. n - 1 \subseteq 1 .. n
      OBVIOUS
    <3> QED
      BY <1>2, <3>1, <3>2
  <2>3. CASE LastBefore(o, n) = Null /\ \A j \in 1 .. n : ~Valued(o, j)
    <3>1. LastBefore(o, n - 1) = Null
      BY <2>2, <2>3 DEF LastBefore
    <3> QED
      BY <1>2, <2>3, <3>1 DEF Valued
  <2>4. ASSUME NEW k \in 1 .. n, LastBefore(o, n) = k - 1, Valued(o, k),
               \A j \in k + 1 .. n : ~Valued(o, j)
        PROVE  LastBefore(o, n) = LastBefore(o, n - 1)
    <3>1. PICK l \in 1 .. n - 1 : /\ LastBefore(o, n - 1) = l - 1 /\ Valued(o, l)
                                  /\ \A j \in l + 1 .. n - 1 : ~Valued(o, j)
      BY <2>1, <2>2, <2>4, LastBeforeFacts
    <3>2. k \in 1 .. n - 1 /\ l \in 1 .. n
      BY <2>2, <2>4, <3>1
    <3>3. ~(l < k) /\ ~(k < l)
      <4>1. ASSUME l < k PROVE FALSE
        <5>1. k \in l + 1 .. n - 1
          BY <3>2, <4>1
        <5> QED
          BY <2>4, <3>1, <5>1
      <4>2. ASSUME k < l PROVE FALSE
        <5>1. l \in k + 1 .. n
          BY <3>2, <4>2
        <5> QED
          BY <2>4, <3>1, <5>1
      <4> QED
        BY <4>1, <4>2
    <3>4. k = l
      BY <3>2, <3>3
    <3> QED
      BY <2>4, <3>1, <3>4
  <2>5. LastBefore(o, n) = LastBefore(o, n - 1)
    BY <1>2, <2>3, <2>4, LastBeforeFacts DEF Valued
  <2> QED
    BY <1>2, <2>5 DEF Valued
<1> QED
  BY <1>1, <1>2

\* The loop of compileWorkflow computes it.
LEMMA OutputIndexIsLast ==
  ASSUME NEW o, Len(o) \in Nat
  PROVE  outputIndex(o) = LastBefore(o, Len(o))
<1> DEFINE N == Len(o)
           After(g) == [i \in 0 .. N |-> IF i = 0 THEN Null ELSE
                                         IF o[i].kind = "sleep" THEN g[i - 1] ELSE i - 1]
           last == CHOOSE g : g = After(g)
           W == [i \in 0 .. N |-> LastBefore(o, i)]
<1>1. outputIndex(o) = last[N]
  BY DEF outputIndex
<1>2. \A i \in 0 .. N : i # 0 => i - 1 \in 0 .. N /\ i \in Nat \ {0}
  OBVIOUS
<1>3. W = After(W)
  <2>1. ASSUME NEW i \in 0 .. N PROVE W[i] = After(W)[i]
    <3>1. CASE i = 0
      <4>1. \A j \in 1 .. 0 : FALSE
        OBVIOUS
      <4> QED
        BY <3>1, <4>1 DEF LastBefore
    <3>2. CASE i # 0
      <4>1. i - 1 \in 0 .. N /\ i \in Nat \ {0}
        BY <1>2, <3>2
      <4> QED
        BY <3>2, <4>1, LastBeforeStep
    <3> QED
      BY <3>1, <3>2
  <2> QED
    BY <2>1
<1>4. last = After(last)
  <2>1. \E g : g = After(g)
    BY <1>3, Zenon
  <2> QED
    BY <2>1, Zenon
<1>w. W[N] = LastBefore(o, N) /\ N \in 0 .. N /\ 0 \in 0 .. N
  OBVIOUS
<1> HIDE DEF last, W
<1>5. ASSUME NEW i \in 0 .. N, last[i] # W[i] PROVE FALSE
  <2> DEFINE S == {j \in 0 .. N : last[j] # W[j]}
  <2>1. S \in SUBSET Nat /\ S # {}
    <3>1. i \in S
      BY <1>5, Zenon
    <3>2. S \subseteq 0 .. N
      BY Zenon
    <3> HIDE DEF S
    <3> QED
      BY <3>1, <3>2
  <2>2. PICK m \in S : \A j \in S : m <= j
    <3> HIDE DEF S
    <3> QED
      BY <2>1, LeastNat, Zenon
  <2>3. m # 0
    <3>1. last[0] = Null /\ W[0] = Null
      BY <1>3, <1>4, <1>w
    <3> QED
      BY <2>2, <3>1
  <2>4. m - 1 \in 0 .. N /\ m - 1 \notin S
    BY <2>2, <2>3
  <2>5. last[m - 1] = W[m - 1]
    BY <2>4
  <2>6. After(last)[m] = After(W)[m]
    BY <2>2, <2>3, <2>4, <2>5
  <2> QED
    BY <1>3, <1>4, <2>2, <2>6
<1>6. last[N] = LastBefore(o, N)
  BY <1>5, <1>w, Zenon
<1> QED
  BY <1>1, <1>6

\* The names of a workflow's steps and waits differ (addName).
WellNamed(o) ==
  /\ Len(o) \in Nat
  /\ \A i \in 1 .. Len(o) : Valued(o, i) => o[i].name \in Names
  /\ \A i, j \in 1 .. Len(o) :
        Valued(o, i) /\ Valued(o, j) /\ o[i].name = o[j].name => i = j

\* Where the operation named x is.
PositionOf(o, x) == CHOOSE j \in 1 .. Len(o) : Valued(o, j) /\ o[j].name = x

\* addName lets no name be taken twice, so a name has one position.
LEMMA PositionIsUnique ==
  ASSUME NEW o, WellNamed(o), NEW i \in 1 .. Len(o), Valued(o, i)
  PROVE  PositionOf(o, o[i].name) = i
<1> DEFINE p == PositionOf(o, o[i].name)
<1>1. p \in 1 .. Len(o) /\ Valued(o, p) /\ o[p].name = o[i].name
  BY Zenon DEF PositionOf
<1> HIDE DEF p
<1>2. p = i
  BY <1>1, Zenon DEF WellNamed
<1> QED
  BY <1>2 DEF p

\* What the map of names is after n operations.
NamesBefore(o, n) ==
  [x \in Names |-> IF \E j \in 1 .. n : Valued(o, j) /\ o[j].name = x
                   THEN PositionOf(o, x) - 1 ELSE Null]

\* NamesBefore satisfies the equation of the loop's map.
LEMMA NamesBeforeStep ==
  ASSUME NEW o, WellNamed(o), NEW n \in 1 .. Len(o)
  PROVE  NamesBefore(o, n) = IF o[n].kind = "sleep" THEN NamesBefore(o, n - 1)
                             ELSE [NamesBefore(o, n - 1) EXCEPT ![o[n].name] = n - 1]
<1>0. /\ Len(o) \in Nat /\ n \in 1 .. n /\ 1 .. n - 1 \subseteq 1 .. n
      /\ \A j \in 1 .. n : j # n => j \in 1 .. n - 1
  BY DEF WellNamed
<1>1. CASE ~Valued(o, n)
  <2>1. ASSUME NEW x \in Names
        PROVE  (\E j \in 1 .. n : Valued(o, j) /\ o[j].name = x) <=>
               (\E j \in 1 .. n - 1 : Valued(o, j) /\ o[j].name = x)
    BY <1>0, <1>1, Zenon
  <2>2. NamesBefore(o, n) = NamesBefore(o, n - 1)
    BY <2>1 DEF NamesBefore
  <2> QED
    BY <1>1, <2>2 DEF Valued
<1>2. CASE Valued(o, n)
  <2> DEFINE old == NamesBefore(o, n - 1)
  <2>1. o[n].name \in Names /\ PositionOf(o, o[n].name) = n
    BY <1>2, PositionIsUnique DEF WellNamed
  <2>2. ASSUME NEW x \in Names, x # o[n].name
        PROVE  (\E j \in 1 .. n : Valued(o, j) /\ o[j].name = x) <=>
               (\E j \in 1 .. n - 1 : Valued(o, j) /\ o[j].name = x)
    BY <1>0, <2>2, Zenon
  <2>3. ASSUME NEW x \in Names
        PROVE  NamesBefore(o, n)[x] = [old EXCEPT ![o[n].name] = n - 1][x]
    <3>1. CASE x = o[n].name
      <4>1. \E j \in 1 .. n : Valued(o, j) /\ o[j].name = x
        BY <1>0, <1>2, <3>1
      <4>2. NamesBefore(o, n)[x] = n - 1
        BY <2>1, <3>1, <4>1 DEF NamesBefore
      <4>3. DOMAIN old = Names
        BY DEF NamesBefore
      <4> HIDE DEF old
      <4> QED
        BY <2>1, <3>1, <4>2, <4>3
    <3>2. CASE x # o[n].name
      <4>1. NamesBefore(o, n)[x] = old[x]
        BY <2>2, <3>2 DEF NamesBefore
      <4>2. DOMAIN old = Names
        BY DEF NamesBefore
      <4> HIDE DEF old
      <4> QED
        BY <3>2, <4>1, <4>2
    <3> QED
      BY <3>1, <3>2
  <2>4. NamesBefore(o, n) = [x \in Names |-> NamesBefore(o, n)[x]]
    BY DEF NamesBefore
  <2>5. [old EXCEPT ![o[n].name] = n - 1] =
            [x \in Names |-> [old EXCEPT ![o[n].name] = n - 1][x]]
    <3>1. old = [x \in Names |-> old[x]]
      BY DEF NamesBefore
    <3> HIDE DEF old
    <3> QED
      BY <3>1
  <2>6. NamesBefore(o, n) = [old EXCEPT ![o[n].name] = n - 1]
    <3> HIDE DEF old
    <3> QED
      BY <2>3, <2>4, <2>5
  <2> QED
    BY <1>2, <2>6 DEF Valued
<1> QED
  BY <1>1, <1>2

\* The loop of compileWorkflow computes it.
LEMMA NamesAreIndices ==
  ASSUME NEW o, WellNamed(o)
  PROVE  names(o) = NamesBefore(o, Len(o))
<1> DEFINE N == Len(o)
           After(g) == [i \in 0 .. N |->
                           IF i = 0 THEN [n \in Names |-> Null]
                           ELSE IF o[i].kind = "sleep" THEN g[i - 1]
                           ELSE [g[i - 1] EXCEPT ![o[i].name] = i - 1]]
           map == CHOOSE g : g = After(g)
           W == [i \in 0 .. N |-> NamesBefore(o, i)]
<1>0. N \in Nat
  BY DEF WellNamed
<1>1. names(o) = map[N]
  BY DEF names
<1>2. \A i \in 0 .. N : i # 0 => i - 1 \in 0 .. N /\ i \in 1 .. N
  BY <1>0
<1>3. W = After(W)
  <2>1. ASSUME NEW i \in 0 .. N PROVE W[i] = After(W)[i]
    <3>1. CASE i = 0
      <4>1. \A j \in 1 .. 0 : FALSE
        OBVIOUS
      <4>2. NamesBefore(o, 0) = [n \in Names |-> Null]
        BY <4>1 DEF NamesBefore
      <4> QED
        BY <3>1, <4>2
    <3>2. CASE i # 0
      <4>1. i - 1 \in 0 .. N /\ i \in 1 .. N
        BY <1>2, <3>2
      <4>2. NamesBefore(o, i) = IF o[i].kind = "sleep" THEN NamesBefore(o, i - 1)
                                ELSE [NamesBefore(o, i - 1) EXCEPT ![o[i].name] = i - 1]
        BY <4>1, NamesBeforeStep, Zenon
      <4>3. W[i] = NamesBefore(o, i) /\ W[i - 1] = NamesBefore(o, i - 1)
        BY <4>1
      <4> HIDE DEF W
      <4> QED
        BY <3>2, <4>2, <4>3
    <3> QED
      BY <3>1, <3>2
  <2> QED
    BY <2>1
<1>4. map = After(map)
  <2>1. \E g : g = After(g)
    BY <1>3, Zenon
  <2> QED
    BY <2>1, Zenon
<1>w. W[N] = NamesBefore(o, N) /\ N \in 0 .. N /\ 0 \in 0 .. N
  BY <1>0
<1> HIDE DEF map, W
<1>5. ASSUME NEW i \in 0 .. N, map[i] # W[i] PROVE FALSE
  <2> DEFINE S == {j \in 0 .. N : map[j] # W[j]}
  <2>1. S \in SUBSET Nat /\ S # {}
    <3>1. i \in S
      BY <1>5, Zenon
    <3>2. S \subseteq 0 .. N
      BY Zenon
    <3> HIDE DEF S
    <3> QED
      BY <1>0, <3>1, <3>2
  <2>2. PICK m \in S : \A j \in S : m <= j
    <3> HIDE DEF S
    <3> QED
      BY <2>1, LeastNat, Zenon
  <2>3. m # 0
    <3>1. map[0] = W[0]
      BY <1>3, <1>4, <1>w
    <3> QED
      BY <2>2, <3>1
  <2>4. m - 1 \in 0 .. N /\ m - 1 \notin S
    BY <1>0, <2>2, <2>3
  <2>5. map[m - 1] = W[m - 1]
    BY <2>4
  <2>6. After(map)[m] = After(W)[m]
    BY <2>2, <2>3, <2>4, <2>5
  <2> QED
    BY <1>3, <1>4, <2>2, <2>6
<1>6. map[N] = NamesBefore(o, N)
  BY <1>5, <1>w, Zenon
<1> QED
  BY <1>1, <1>6

\* A name leads to the operation that has it.
LEMMA NameLeadsToItsOperation ==
  ASSUME NEW o, WellNamed(o), NEW i \in 1 .. Len(o), Valued(o, i)
  PROVE  names(o)[o[i].name] = i - 1
<1>1. o[i].name \in Names /\ PositionOf(o, o[i].name) = i
  BY PositionIsUnique DEF WellNamed
<1>2. NamesBefore(o, Len(o))[o[i].name] = i - 1
  BY <1>1 DEF NamesBefore
<1> QED
  BY <1>2, NamesAreIndices

-----------------------------------------------------------------------------

Operation == [kind : {"step", "sleep", "wait_event"}, name : Names \cup {Null}]

Outcome == {Received(p) : p \in UserJson}

Stored == UserJson \cup Outcome \cup {Null}

What == {<<"slept">>, <<"timed out">>} \cup {<<"returned", v>> : v \in UserJson}
                                      \cup {<<"received", p>> : p \in UserJson}

\* What is stored for an operation of this kind tells what it did.
Recorded(kind, v, h) ==
  \/ kind = "sleep" /\ v = Null
  \/ kind = "step" /\ v \in UserJson /\ h = <<"returned", v>>
  \/ kind = "wait_event" /\ v = TimedOut /\ h = <<"timed out">>
  \/ kind = "wait_event" /\ \E p \in UserJson : v = Received(p) /\ h = <<"received", p>>

\* The builder: names differ, and each is among those taken.
Built ==
  /\ ops \in Seq(Operation)
  /\ WellNamed(ops)
  /\ \A i \in 1 .. Len(ops) : Valued(ops, i) => ops[i].name \in stepNames
  /\ wf = Null => index = 0

\* The workflow is what compileWorkflow made of the operations.
Compiled ==
  wf # Null => wf.ops = ops /\ wf.names = names(ops) /\ wf.outputIndex = outputIndex(ops)

\* Values and happenings agree up to index, and nothing is stored beyond it.
Driven ==
  /\ index \in Nat /\ happened \in Seq(What) /\ Len(happened) = index
  /\ wf # Null =>
        /\ index <= Len(ops)
        /\ values \in [1 .. Len(ops) -> Stored]
        /\ \A i \in 1 .. Len(ops) : IF i <= index THEN Recorded(ops[i].kind, values[i], happened[i])
                                    ELSE values[i] = Null

DefInv == Built /\ Compiled /\ Driven

\* A builder starts empty.
LEMMA DefInitInv == DefInit => DefInv
<1> SUFFICES ASSUME DefInit PROVE DefInv
  OBVIOUS
<1>1. Built
  BY DEF DefInit, Built, WellNamed
<1>2. Compiled /\ Driven
  BY DEF DefInit, Compiled, Driven
<1> QED
  BY <1>1, <1>2 DEF DefInv

\* A builder call appends an operation, whose name is new if it has one.
LEMMA BuildingKeepsInv ==
  ASSUME DefInv, Building, NEW op \in Operation, ops' = Append(ops, op),
         stepNames \subseteq stepNames',
         op.kind # "sleep" => op.name \in Names /\ op.name \notin stepNames
                              /\ op.name \in stepNames'
  PROVE  DefInv'
<1>1. /\ ops \in Seq(Operation) /\ Len(ops) \in Nat /\ wf = Null
      /\ UNCHANGED <<wf, values, index, happened>>
  BY DEF DefInv, Built, WellNamed, Building
<1>2. /\ ops' \in Seq(Operation) /\ Len(ops') = Len(ops) + 1 /\ Len(ops') \in Nat
      /\ \A i \in 1 .. Len(ops) : ops'[i] = ops[i]
      /\ ops'[Len(ops) + 1] = op
  BY <1>1
<1>3. \A i \in 1 .. Len(ops') : i \in 1 .. Len(ops) \/ i = Len(ops')
  BY <1>1, <1>2
<1>4. /\ \A i \in 1 .. Len(ops) : Valued(ops', i) <=> Valued(ops, i)
      /\ Valued(ops', Len(ops')) <=> op.kind # "sleep"
  BY <1>2 DEF Valued
<1>5. ASSUME NEW i \in 1 .. Len(ops'), Valued(ops', i)
      PROVE  /\ ops'[i].name \in Names /\ ops'[i].name \in stepNames'
             /\ i # Len(ops') => ops'[i].name \in stepNames
  <2>1. CASE i \in 1 .. Len(ops)
    BY <1>2, <1>4, <1>5, <2>1 DEF DefInv, Built, WellNamed
  <2>2. CASE i = Len(ops')
    BY <1>2, <1>4, <1>5, <2>2
  <2> QED
    BY <1>3, <2>1, <2>2
<1>6. ASSUME NEW i \in 1 .. Len(ops'), NEW j \in 1 .. Len(ops'),
             Valued(ops', i), Valued(ops', j), ops'[i].name = ops'[j].name
      PROVE  i = j
  <2>1. CASE i \in 1 .. Len(ops) /\ j \in 1 .. Len(ops)
    BY <1>2, <1>4, <1>6, <2>1 DEF DefInv, Built, WellNamed
  <2>2. CASE i = Len(ops') /\ j # Len(ops')
    BY <1>2, <1>4, <1>5, <1>6, <2>2
  <2>3. CASE j = Len(ops') /\ i # Len(ops')
    BY <1>2, <1>4, <1>5, <1>6, <2>3
  <2> QED
    BY <1>3, <2>1, <2>2, <2>3
<1>7. WellNamed(ops')
  BY <1>2, <1>5, <1>6 DEF WellNamed
<1>8. Built'
  BY <1>1, <1>2, <1>5, <1>7 DEF DefInv, Built
<1>9. Compiled' /\ Driven'
  BY <1>1 DEF DefInv, Compiled, Driven
<1> QED
  BY <1>8, <1>9 DEF DefInv

\* compileWorkflow keeps the operations and starts with no value stored.
LEMMA CompileKeepsInv ==
  ASSUME DefInv, compileWorkflow
  PROVE  DefInv'
<1>1. /\ wf = Null /\ index = 0 /\ UNCHANGED <<ops, stepNames, index, happened>>
      /\ wf' = [ops |-> ops, names |-> names(ops), outputIndex |-> outputIndex(ops)]
      /\ values' = [i \in DOMAIN ops |-> Null]
  BY DEF compileWorkflow, DefInv, Built
<1>2. Built'
  BY <1>1 DEF DefInv, Built
<1>3. Compiled'
  BY <1>1 DEF Compiled
<1>4. Driven'
  <2>1. ops \in Seq(Operation) /\ DOMAIN ops = 1 .. Len(ops) /\ Len(ops) \in Nat
    BY DEF DefInv, Built
  <2>2. values' \in [1 .. Len(ops) -> Stored] /\ \A i \in 1 .. Len(ops) : values'[i] = Null
    BY <1>1, <2>1 DEF Stored
  <2>3. \A i \in 1 .. Len(ops) : ~(i <= index')
    BY <1>1, <2>1
  <2> QED
    BY <1>1, <2>1, <2>2, <2>3 DEF DefInv, Driven
<1> QED
  BY <1>2, <1>3, <1>4 DEF DefInv

\* drive stores a value for the operation at index and goes on.
LEMMA AdvanceKeepsInv ==
  ASSUME DefInv, NEW kind, At(kind), NEW v \in Stored, NEW h \in What,
         Recorded(kind, v, h), Advance(v, h)
  PROVE  DefInv'
<1>1. /\ wf # Null /\ index \in Nat /\ Len(ops) \in Nat /\ index < Len(ops)
      /\ ops[index + 1].kind = kind
      /\ UNCHANGED <<ops, stepNames, wf>> /\ index' = index + 1
      /\ values' = [values EXCEPT ![index + 1] = v] /\ happened' = Append(happened, h)
  BY DEF DefInv, Built, WellNamed, Compiled, Driven, At, Advance
<1>2. Built' /\ Compiled'
  BY <1>1 DEF DefInv, Built, Compiled
<1>3. /\ happened' \in Seq(What) /\ Len(happened') = index + 1
      /\ \A i \in 1 .. index : happened'[i] = happened[i]
      /\ happened'[index + 1] = h
  BY <1>1 DEF DefInv, Driven
<1>4. /\ values' \in [1 .. Len(ops) -> Stored] /\ values'[index + 1] = v
      /\ \A i \in 1 .. Len(ops) : i # index + 1 => values'[i] = values[i]
  BY <1>1 DEF DefInv, Driven
<1>5. ASSUME NEW i \in 1 .. Len(ops)
      PROVE  IF i <= index + 1 THEN Recorded(ops[i].kind, values'[i], happened'[i])
             ELSE values'[i] = Null
  <2>1. CASE i = index + 1
    BY <1>1, <1>3, <1>4, <2>1
  <2>2. CASE i < index + 1
    <3>1. i <= index /\ i \in 1 .. index /\ i # index + 1 /\ i <= index + 1
      BY <1>1, <2>2
    <3>2. Recorded(ops[i].kind, values[i], happened[i])
      BY <1>1, <3>1 DEF DefInv, Driven
    <3> QED
      BY <1>3, <1>4, <3>1, <3>2
  <2>3. CASE i > index + 1
    <3>1. ~(i <= index) /\ ~(i <= index + 1) /\ i # index + 1
      BY <1>1, <2>3
    <3> QED
      BY <1>1, <1>4, <3>1 DEF DefInv, Driven
  <2>4. i = index + 1 \/ i < index + 1 \/ i > index + 1
    BY <1>1
  <2> QED
    BY <2>1, <2>2, <2>3, <2>4, Zenon
<1>6. index' \in Nat /\ index' <= Len(ops) /\ Len(happened') = index'
  BY <1>1, <1>3
<1>7. \A i \in 1 .. Len(ops') : IF i <= index' THEN Recorded(ops'[i].kind, values'[i], happened'[i])
                               ELSE values'[i] = Null
  BY <1>1, <1>5, Zenon
<1>8. Driven'
  BY <1>1, <1>3, <1>4, <1>6, <1>7, Zenon DEF Driven
<1> QED
  BY <1>2, <1>8 DEF DefInv

\* One case for each builder call, the compilation and each way drive goes on.
LEMMA DefNextInv == DefInv /\ [DefNext]_defVars => DefInv'
<1> SUFFICES ASSUME DefInv, [DefNext]_defVars PROVE DefInv'
  OBVIOUS
<1>1. ASSUME NEW n \in Names, Step(n) \/ WaitEvent(n) PROVE DefInv'
  <2>1. PICK k \in {"step", "wait_event"} :
            /\ Building /\ addName(n) /\ ops' = Append(ops, [kind |-> k, name |-> n])
    BY <1>1 DEF Step, WaitEvent
  <2>2. [kind |-> k, name |-> n] \in Operation
    BY DEF Operation
  <2>3. stepNames \subseteq stepNames' /\ n \notin stepNames /\ n \in stepNames'
    BY <2>1 DEF addName
  <2> QED
    BY <2>1, <2>2, <2>3, BuildingKeepsInv
<1>2. CASE Sleep
  <2>1. [kind |-> "sleep", name |-> Null] \in Operation
    BY DEF Operation
  <2> QED
    BY <1>2, <2>1, BuildingKeepsInv DEF Sleep
<1>3. CASE compileWorkflow
  BY <1>3, CompileKeepsInv
<1>4. ASSUME NEW v \in UserJson, Returns(v) PROVE DefInv'
  <2>1. v \in Stored /\ <<"returned", v>> \in What /\ Recorded("step", v, <<"returned", v>>)
    BY DEF Stored, What, Recorded
  <2> QED
    BY <1>4, <2>1, AdvanceKeepsInv DEF Returns
<1>5. ASSUME NEW p \in UserJson, Delivers(p) PROVE DefInv'
  <2>1. /\ Received(p) \in Stored /\ <<"received", p>> \in What
        /\ Recorded("wait_event", Received(p), <<"received", p>>)
    BY DEF Stored, Outcome, What, Recorded
  <2> QED
    BY <1>5, <2>1, AdvanceKeepsInv DEF Delivers
<1>6. CASE Sleeps
  <2>1. Null \in Stored /\ <<"slept">> \in What /\ Recorded("sleep", Null, <<"slept">>)
    BY DEF Stored, What, Recorded
  <2> QED
    BY <1>6, <2>1, AdvanceKeepsInv DEF Sleeps
<1>7. CASE TimesOut
  <2>1. /\ TimedOut \in Stored /\ <<"timed out">> \in What
        /\ Recorded("wait_event", TimedOut, <<"timed out">>)
    BY DEF Stored, UserJson, What, Recorded
  <2> QED
    BY <1>7, <2>1, AdvanceKeepsInv DEF TimesOut
<1>8. CASE UNCHANGED defVars
  BY <1>8 DEF defVars, DefInv, Built, Compiled, Driven
<1> QED
  BY <1>1, <1>2, <1>3, <1>4, <1>5, <1>6, <1>7, <1>8 DEF DefNext

(***************************************************************************)
(* The names of the builder stay distinct, the compiled workflow has the   *)
(* operations, names and output index of the builder's calls, and what     *)
(* drive has stored for an operation tells what the operation did.         *)
(***************************************************************************)
THEOREM DefInvariance == DefSpec => []DefInv
  BY DefInitInv, DefNextInv, PTL DEF DefSpec

\* A JSON value has at least one token, and wrapping it can be undone.
LEMMA WrappingCanBeUndone ==
  ASSUME NEW p \in UserJson
  PROVE  /\ Len(Received(p)) > 1 /\ Tail(Received(p)) = p
         /\ Received(p) # TimedOut /\ Received(p) # Null /\ p # Null
<1>1. p \in Seq(Texts \cup {"timed_out", "received"}) /\ Len(p) > 0
  BY DEF UserJson, TimedOut, Received
<1>2. Len(Received(p)) > 1 /\ Tail(Received(p)) = p
  BY <1>1 DEF Received
<1>3. Len(TimedOut) = 1
  BY DEF TimedOut
<1>4. Received(p) # TimedOut
  BY <1>2, <1>3
<1>5. Received(p) # Null /\ p # Null
  BY DefinitionAssumption
<1> QED
  BY <1>2, <1>4, <1>5

\* What a step reads under the name of operation i: its value, once it is behind the step.
LEMMA RawIsTheValue ==
  ASSUME DefInv, wf # Null, NEW i \in 1 .. Len(ops), Valued(ops, i)
  PROVE  raw(ops[i].name) = IF i <= index THEN values[i] ELSE Null
<1>1. /\ wf.names[ops[i].name] = i - 1 /\ i - 1 \in Nat /\ i - 1 # Null
      /\ index \in Nat /\ Len(ops) \in Nat /\ index <= Len(ops)
  <2>1. wf.names[ops[i].name] = i - 1
    BY NameLeadsToItsOperation DEF DefInv, Built, Compiled
  <2>2. i - 1 \in Nat
    OBVIOUS
  <2>3. i - 1 # Null
    BY <2>2, DefinitionAssumption
  <2> QED
    BY <2>1, <2>2, <2>3 DEF DefInv, Built, WellNamed, Driven
<1>2. values \in Seq(Stored) /\ Len(values) = Len(ops)
  BY <1>1 DEF DefInv, Driven
<1>3. Len(scValues) = index /\ \A j \in 1 .. index : scValues[j] = values[j]
  BY <1>1, <1>2 DEF scValues
<1>4. CASE i <= index
  <2>1. ~(i - 1 >= Len(scValues)) /\ i - 1 + 1 \in 1 .. index /\ i - 1 + 1 = i
    BY <1>1, <1>3, <1>4
  <2>2. scValues[i - 1 + 1] = values[i]
    BY <1>3, <2>1
  <2> QED
    BY <1>1, <1>4, <2>1, <2>2 DEF raw
<1>5. CASE ~(i <= index)
  <2>1. i - 1 >= Len(scValues)
    BY <1>1, <1>3, <1>5
  <2> QED
    BY <1>1, <1>5, <2>1 DEF raw
<1> QED
  BY <1>4, <1>5

(***************************************************************************)
(* StepContext's Value, StepResult and Event tell under a name what the    *)
(* operation of that name did, and nothing of one that is still ahead: the *)
(* name leads to its operation, its value is in the copy that stepContext  *)
(* made, and the wrapping of a wait's outcome can be undone.               *)
(***************************************************************************)
THEOREM ContextTheorem == DefSpec => []ContextTellsWhatHappened
<1>1. DefInv => ContextTellsWhatHappened
  <2> SUFFICES ASSUME DefInv, wf # Null, NEW i \in DOMAIN ops, ops[i].kind # "sleep"
               PROVE  /\ i > index => /\ Value(ops[i].name) = <<"absent">>
                                      /\ Event(ops[i].name) = <<"absent">>
                      /\ i <= index /\ ops[i].kind = "step" => Value(ops[i].name) = happened[i]
                      /\ i <= index /\ ops[i].kind = "wait_event" =>
                            Event(ops[i].name) = happened[i]
    BY DEF ContextTellsWhatHappened
  <2> DEFINE n == ops[i].name
  <2>1. i \in 1 .. Len(ops) /\ Valued(ops, i) /\ index \in Nat /\ Len(ops) \in Nat
    BY DEF DefInv, Built, WellNamed, Driven, Valued
  <2>2. raw(n) = IF i <= index THEN values[i] ELSE Null
    BY <2>1, RawIsTheValue, Zenon
  <2>3. TimedOut # Null /\ ~(Len(TimedOut) > 1)
    <3>1. TimedOut \in UserJson
      BY DEF UserJson
    <3>2. Len(TimedOut) = 1
      BY DEF TimedOut
    <3> QED
      BY <3>1, <3>2, WrappingCanBeUndone
  <2> HIDE DEF n
  <2>4. CASE i > index
    <3>1. ~(i <= index)
      BY <2>1, <2>4
    <3>2. raw(n) = Null
      BY <2>2, <3>1
    <3>3. Value(n) = <<"absent">> /\ Event(n) = <<"absent">>
      BY <2>3, <3>2 DEF Value, Event
    <3> QED
      BY <3>1, <3>3 DEF n
  <2>5. CASE i <= index
    <3>1. raw(n) = values[i] /\ Recorded(ops[i].kind, values[i], happened[i]) /\ ~(i > index)
      <4>1. ~(i > index)
        BY <2>1, <2>5
      <4>2. Recorded(ops[i].kind, values[i], happened[i])
        BY <2>1, <2>5, Zenon DEF DefInv, Driven
      <4> QED
        BY <2>2, <2>5, <4>1, <4>2, Zenon
    <3>2. CASE ops[i].kind = "step"
      <4>1. values[i] \in UserJson /\ happened[i] = <<"returned", values[i]>>
        BY <3>1, <3>2 DEF Recorded
      <4>2. values[i] # Null
        BY <4>1, WrappingCanBeUndone
      <4>3. Value(n) = happened[i]
        BY <3>1, <4>1, <4>2 DEF Value
      <4> QED
        BY <3>1, <3>2, <4>3 DEF n
    <3>3. CASE ops[i].kind = "wait_event"
      <4>1. CASE values[i] = TimedOut /\ happened[i] = <<"timed out">>
        <5>1. raw(n) = TimedOut
          BY <3>1, <4>1
        <5>2. Event(n) = <<"timed out">>
          BY <2>3, <5>1 DEF Event
        <5> QED
          BY <3>1, <3>3, <4>1, <5>2 DEF n
      <4>2. ASSUME NEW p \in UserJson, values[i] = Received(p), happened[i] = <<"received", p>>
            PROVE  Event(n) = happened[i]
        <5>1. /\ Len(values[i]) > 1 /\ Tail(values[i]) = p
              /\ values[i] # TimedOut /\ values[i] # Null
          BY <4>2, WrappingCanBeUndone
        <5> QED
          BY <3>1, <4>2, <5>1 DEF Event
      <4> QED
        BY <3>1, <3>3, <4>1, <4>2 DEF Recorded, n
    <3> QED
      BY <3>1, <3>2, <3>3 DEF Recorded
  <2> QED
    BY <2>1, <2>4, <2>5
<1> QED
  BY <1>1, DefInvariance, PTL

(***************************************************************************)
(* The value at compileWorkflow's output index is the last one a finished  *)
(* run stored, and there is no output only if nothing was stored.          *)
(***************************************************************************)
THEOREM OutputTheorem == DefSpec => []OutputIsTheLastValue
<1>1. DefInv => OutputIsTheLastValue
  <2> SUFFICES ASSUME DefInv, wf # Null, index = Len(ops)
               PROVE  IF wf.outputIndex = Null THEN \A i \in DOMAIN values : values[i] = Null
                      ELSE /\ values[wf.outputIndex + 1] # Null
                           /\ \A i \in DOMAIN values :
                                 i > wf.outputIndex + 1 => values[i] = Null
    BY DEF OutputIsTheLastValue
  <2>1. DOMAIN values = 1 .. Len(ops) /\ Len(ops) \in Nat /\ wf.outputIndex = outputIndex(ops)
    BY DEF DefInv, Built, WellNamed, Compiled, Driven
  <2>2. \A i \in 1 .. Len(ops) : values[i] = Null <=> ~Valued(ops, i)
    <3> SUFFICES ASSUME NEW i \in 1 .. Len(ops) PROVE values[i] = Null <=> ~Valued(ops, i)
      OBVIOUS
    <3>1. Recorded(ops[i].kind, values[i], happened[i])
      BY <2>1 DEF DefInv, Driven
    <3>2. TimedOut \in UserJson
      BY DEF UserJson
    <3> QED
      BY <3>1, <3>2, WrappingCanBeUndone DEF Recorded, Valued
  <2>3. \/ outputIndex(ops) = Null /\ \A j \in 1 .. Len(ops) : ~Valued(ops, j)
        \/ \E k \in 1 .. Len(ops) : /\ outputIndex(ops) = k - 1 /\ Valued(ops, k)
                                    /\ \A j \in k + 1 .. Len(ops) : ~Valued(ops, j)
    BY <2>1, OutputIndexIsLast, LastBeforeFacts
  <2>4. CASE outputIndex(ops) = Null /\ \A j \in 1 .. Len(ops) : ~Valued(ops, j)
    BY <2>1, <2>2, <2>4
  <2>5. ASSUME NEW k \in 1 .. Len(ops), outputIndex(ops) = k - 1, Valued(ops, k),
               \A j \in k + 1 .. Len(ops) : ~Valued(ops, j)
        PROVE  /\ wf.outputIndex # Null /\ values[wf.outputIndex + 1] # Null
               /\ \A i \in DOMAIN values : i > wf.outputIndex + 1 => values[i] = Null
    <3>1. k - 1 \in Nat /\ k - 1 + 1 = k
      BY <2>1
    <3>2. k - 1 # Null
      BY <3>1, DefinitionAssumption
    <3>3. \A i \in 1 .. Len(ops) : i > k => i \in k + 1 .. Len(ops)
      BY <2>1
    <3> QED
      BY <2>1, <2>2, <2>5, <3>1, <3>2, <3>3
  <2> QED
    BY <2>3, <2>4, <2>5
<1> QED
  BY <1>1, DefInvariance, PTL

-----------------------------------------------------------------------------
(***************************************************************************)
(* ApplySchema for any number of callers, any mix of library versions and  *)
(* any mix of isolation levels.  The advisory lock makes the version that  *)
(* a call has read stay true until the call ends: what its transaction has *)
(* executed and recorded starts right after the committed history.  A call *)
(* that read an old snapshot has executed nothing and will execute nothing *)
(* that lasts; only a call at REPEATABLE READ can be in that position.     *)
(***************************************************************************)

InTx(c) == pc[c] \in {"read", "apply"}

\* The transaction has extended the committed history.
Current(c) ==
    /\ Latest(history) <= version[c]
    /\ ddl[c] = Latest(history) + 1 .. version[c]
    /\ recorded[c] = Latest(history) + 1 .. version[c]

\* It has read a version that others had passed before it got the lock.
Stale(c) ==
    /\ Isolation[c] # "read_committed"
    /\ version[c] < Latest(history)
    /\ ddl[c] = {} /\ recorded[c] = {}

\* Where the open transaction of a call stands.
TxInv(c) ==
    /\ InTx(c) => lock = c
    /\ pc[c] = "apply" => version[c] <= Supports[c] /\ (Current(c) \/ Stale(c))
    /\ pc[c] # "apply" => ddl[c] = {} /\ recorded[c] = {}

\* A snapshot is an earlier history.
SeenInv(c) == \E k \in Nat : k <= Latest(history) /\ seen[c] = 1 .. k

IndInv ==
    /\ TypeOK
    /\ installed = history
    /\ \E n \in Nat : history = 1 .. n
    /\ ConcurrentCallsAreSafe
    /\ \A c \in Callers : TxInv(c) /\ SeenInv(c)

\* Intervals of versions.
LEMMA EmptyInterval == \A n \in Nat : n + 1 .. n = {}
  OBVIOUS

LEMMA IntervalOfNats == \A m, n \in Nat : m .. n \subseteq Nat
  OBVIOUS

LEMMA ExtendInterval ==
  ASSUME NEW l \in Nat, NEW v \in Nat, l <= v
  PROVE  (l + 1 .. v) \cup {v + 1} = l + 1 .. v + 1
<1>1. ASSUME NEW x \in l + 1 .. v + 1 PROVE x \in (l + 1 .. v) \cup {v + 1}
  OBVIOUS
<1>2. ASSUME NEW x \in (l + 1 .. v) \cup {v + 1} PROVE x \in l + 1 .. v + 1
  OBVIOUS
<1> QED
  BY <1>1, <1>2

LEMMA JoinIntervals ==
  ASSUME NEW l \in Nat, NEW v \in Nat, l <= v
  PROVE  (1 .. l) \cup (l + 1 .. v) = 1 .. v
<1>1. ASSUME NEW x \in 1 .. v PROVE x \in (1 .. l) \cup (l + 1 .. v)
  OBVIOUS
<1>2. ASSUME NEW x \in (1 .. l) \cup (l + 1 .. v) PROVE x \in 1 .. v
  OBVIOUS
<1> QED
  BY <1>1, <1>2

\* The greatest element of an interval from 1.
LEMMA LatestOfInterval == \A n \in Nat : Latest(1 .. n) = n
<1> SUFFICES ASSUME NEW n \in Nat PROVE Latest(1 .. n) = n
  OBVIOUS
<1>1. CASE n = 0
  <2>1. 1 .. n = {}
    BY <1>1
  <2> QED
    BY <1>1, <2>1 DEF Latest
<1>2. CASE n # 0
  <2>1. n \in 1 .. n /\ \A w \in 1 .. n : w <= n
    BY <1>2
  <2>2. \A v \in 1 .. n : (\A w \in 1 .. n : w <= v) => v = n
    BY <2>1
  <2> QED
    BY <2>1, <2>2 DEF Latest
<1> QED
  BY <1>1, <1>2

\* The version of the committed history.
LEMMA LatestFacts ==
  ASSUME IndInv
  PROVE  Latest(history) \in Nat /\ history = 1 .. Latest(history) /\ installed = history
<1>1. PICK n \in Nat : history = 1 .. n
  BY DEF IndInv
<1> QED
  BY <1>1, LatestOfInterval DEF IndInv

USE SchemaAssumption

\* An empty snapshot is an earlier history of any other.
LEMMA EmptyIsSeen ==
  ASSUME NEW n \in Nat
  PROVE  \E k \in Nat : k <= n /\ {} = 1 .. k
<1>1. 0 \in Nat /\ 0 <= n /\ {} = 1 .. 0
  OBVIOUS
<1> QED
  BY <1>1

\* The invariant holds in an empty database.
LEMMA InitInv == Init => IndInv
<1> SUFFICES ASSUME Init PROVE IndInv
  OBVIOUS
<1>1. TypeOK /\ ConcurrentCallsAreSafe /\ \A c \in Callers : TxInv(c)
  BY DEF Init, TypeOK, ConcurrentCallsAreSafe, TxInv, InTx
<1>2. history = 1 .. 0 /\ installed = history
  BY DEF Init
<1>3. Latest(history) = 0
  BY <1>2, LatestOfInterval
<1>4. ASSUME NEW c \in Callers PROVE SeenInv(c)
  <2>1. seen[c] = {} /\ 0 \in Nat
    BY DEF Init
  <2> QED
    BY <1>3, <2>1, EmptyIsSeen DEF SeenInv
<1> QED
  BY <1>1, <1>2, <1>4 DEF IndInv

\* A call that ends without committing changes nothing.
LEMMA ReturnKeepsInv ==
  ASSUME IndInv, NEW c \in Callers,
         NEW res \in {"none", "ok", "unsupported", "conflict", "error"},
         res = "conflict" => Isolation[c] # "read_committed",
         Return(c, res), UNCHANGED <<installed, history>>
  PROVE  IndInv'
<1>1. TypeOK'
  BY DEF IndInv, TypeOK, Return
<1>2. ConcurrentCallsAreSafe'
  BY DEF IndInv, TypeOK, ConcurrentCallsAreSafe, Return
<1>3. ASSUME NEW d \in Callers PROVE TxInv(d)'
  BY DEF IndInv, TypeOK, TxInv, Current, Stale, InTx, Return
<1>4. ASSUME NEW d \in Callers PROVE SeenInv(d)'
  <2>1. CASE d = c
    <3>1. seen'[d] = {} /\ history' = history
      BY <2>1 DEF IndInv, TypeOK, Return
    <3> QED
      BY <3>1, LatestFacts, EmptyIsSeen DEF SeenInv
  <2>2. CASE d # c
    BY <2>2 DEF IndInv, TypeOK, SeenInv, Return
  <2> QED
    BY <2>1, <2>2
<1> QED
  BY <1>1, <1>2, <1>3, <1>4 DEF IndInv

\* A step that leaves the database and the snapshots alone.
LEMMA SeenUnchanged ==
  ASSUME IndInv, UNCHANGED <<history, seen>>
  PROVE  \A c \in Callers : SeenInv(c)'
BY DEF IndInv, SeenInv

\* What a call reads is the history, or at REPEATABLE READ an earlier one.
LEMMA VisibleFacts ==
  ASSUME IndInv, NEW c \in Callers
  PROVE  /\ Latest(Visible(c)) \in Nat /\ Latest(Visible(c)) <= Latest(history)
         /\ Isolation[c] = "read_committed" => Latest(Visible(c)) = Latest(history)
<1>1. PICK k \in Nat : k <= Latest(history) /\ seen[c] = 1 .. k
  BY DEF IndInv, SeenInv
<1>2. Latest(seen[c]) = k
  BY <1>1, LatestOfInterval
<1>3. Latest(history) \in Nat
  BY LatestFacts
<1>4. CASE Isolation[c] = "read_committed"
  BY <1>3, <1>4 DEF Visible
<1>5. CASE Isolation[c] # "read_committed"
  BY <1>1, <1>2, <1>5 DEF Visible
<1> QED
  BY <1>4, <1>5

\* The version is read: it is the history's, or it is behind.
LEMMA ReadKeepsInv ==
  ASSUME IndInv, NEW c \in Callers, ReadVersion(c)
  PROVE  IndInv'
<1> DEFINE v == Latest(Visible(c))
           l == Latest(history)
<1>0. /\ l \in Nat /\ v \in Nat /\ v <= l
      /\ Isolation[c] = "read_committed" => v = l
  BY LatestFacts, VisibleFacts
<1>1. CASE v > Supports[c]
  BY <1>1, ReturnKeepsInv DEF ReadVersion
<1>2. CASE ~(v > Supports[c])
  <2>1. /\ version' = [version EXCEPT ![c] = v]
        /\ pc' = [pc EXCEPT ![c] = "apply"]
        /\ UNCHANGED <<installed, history, lock, seen, ddl, recorded, result>>
    BY <1>2 DEF ReadVersion
  <2>2. TypeOK' /\ ConcurrentCallsAreSafe'
    BY <1>0, <2>1 DEF IndInv, TypeOK, ConcurrentCallsAreSafe
  <2>3. TxInv(c)'
    <3>1. lock = c /\ ddl[c] = {} /\ recorded[c] = {}
      BY DEF IndInv, TxInv, InTx, ReadVersion
    <3>2. /\ lock' = c /\ history' = history /\ version'[c] = v
          /\ pc'[c] = "apply" /\ ddl'[c] = {} /\ recorded'[c] = {}
      BY <2>1, <3>1 DEF IndInv, TypeOK
    <3>3. v <= Supports[c]
      BY <1>0, <1>2
    <3>4. CASE v = l
      <4>1. l + 1 .. l = {}
        BY <1>0, EmptyInterval
      <4>2. Current(c)'
        BY <1>0, <3>2, <3>4, <4>1 DEF Current
      <4> QED
        BY <3>2, <3>3, <4>2 DEF TxInv, InTx
    <3>5. CASE v # l
      <4>1. Stale(c)'
        BY <1>0, <3>2, <3>5 DEF Stale
      <4> QED
        BY <3>2, <3>3, <4>1 DEF TxInv, InTx
    <3> QED
      BY <3>4, <3>5
  <2>4. ASSUME NEW d \in Callers, d # c PROVE TxInv(d)'
    BY <2>1, <2>4 DEF IndInv, TypeOK, TxInv, Current, Stale, InTx
  <2> QED
    BY <2>1, <2>2, <2>3, <2>4, SeenUnchanged DEF IndInv
<1> QED
  BY <1>1, <1>2

\* A transaction with a next migration to execute has read the latest version.
LEMMA MigrateKeepsInv ==
  ASSUME IndInv, NEW c \in Callers, Migrate(c)
  PROVE  IndInv'
<1> DEFINE v == version[c]
           l == Latest(history)
<1>0. l \in Nat /\ history = 1 .. l /\ installed = history /\ v \in Nat
  BY LatestFacts, Zenon DEF IndInv, TypeOK
<1>1. TypeOK' /\ ConcurrentCallsAreSafe'
  <2>1. v + 1 \in Nat /\ {v + 1} \subseteq Nat
    BY <1>0
  <2>2. version' \in [Callers -> Nat]
    BY <2>1 DEF IndInv, TypeOK, Migrate
  <2>3. ddl' \in [Callers -> SUBSET Nat] /\ recorded' \in [Callers -> SUBSET Nat]
    BY <2>1 DEF IndInv, TypeOK, Migrate
  <2> QED
    BY <2>2, <2>3 DEF IndInv, TypeOK, ConcurrentCallsAreSafe, Migrate
<1>2. TxInv(c)'
  <2>1. lock = c /\ v < Supports[c] /\ Supports[c] \in Nat /\ (Current(c) \/ Stale(c))
    BY DEF IndInv, TxInv, InTx, Migrate
  <2>2. v + 1 \notin 1 .. l
    BY <1>0 DEF Migrate
  <2>3. l <= v
    BY <1>0, <2>2
  <2>4. l <= v /\ ddl[c] = l + 1 .. v /\ recorded[c] = l + 1 .. v
    BY <1>0, <2>1, <2>3 DEF Current, Stale
  <2>5. (l + 1 .. v) \cup {v + 1} = l + 1 .. v + 1
    BY <1>0, <2>4, ExtendInterval
  <2>6. /\ ddl'[c] = ddl[c] \cup {v + 1} /\ recorded'[c] = recorded[c] \cup {v + 1}
        /\ version'[c] = v + 1 /\ pc'[c] = "apply" /\ lock' = lock /\ history' = history
    BY DEF IndInv, TypeOK, Migrate
  <2>7. l <= v + 1 /\ v + 1 <= Supports[c]
    BY <1>0, <2>1, <2>4
  <2>8. ddl'[c] = l + 1 .. v + 1 /\ recorded'[c] = l + 1 .. v + 1
    BY <2>4, <2>5, <2>6
  <2> QED
    BY <2>1, <2>6, <2>7, <2>8, Zenon DEF TxInv, Current, InTx
<1>3. ASSUME NEW d \in Callers, d # c PROVE TxInv(d)'
  BY <1>3 DEF IndInv, TypeOK, TxInv, Current, Stale, InTx, Migrate
<1> QED
  BY <1>1, <1>2, <1>3, SeenUnchanged, Zenon DEF IndInv, Migrate

\* Only a call that has read an old snapshot meets an installed migration.
LEMMA ConflictKeepsInv ==
  ASSUME IndInv, NEW c \in Callers, MigrateConflicts(c)
  PROVE  IndInv'
<1>1. /\ version[c] + 1 \in 1 .. Latest(history) /\ Latest(history) \in Nat
      /\ version[c] \in Nat /\ (Current(c) \/ Stale(c))
  BY LatestFacts, Zenon DEF IndInv, TypeOK, TxInv, MigrateConflicts
<1>2. version[c] < Latest(history)
  BY <1>1
<1>3. Isolation[c] # "read_committed"
  BY <1>1, <1>2 DEF Current, Stale
<1> QED
  BY <1>3, ReturnKeepsInv DEF MigrateConflicts

\* A commit extends the history by what the transaction did, maybe nothing.
LEMMA CommitExtends ==
  ASSUME IndInv, NEW c \in Callers, NEW res \in {"ok", "error"}, Commit(c, res)
  PROVE  \E n \in Nat : /\ Latest(history) <= n /\ history' = 1 .. n /\ installed' = 1 .. n
                        /\ Isolation[c] = "read_committed" => n = Supports[c]
<1> DEFINE v == version[c]
           l == Latest(history)
<1>0. l \in Nat /\ history = 1 .. l /\ installed = history /\ v \in Nat
  BY LatestFacts, Zenon DEF IndInv, TypeOK
<1>1. /\ v <= Supports[c] /\ v >= Supports[c] /\ Supports[c] \in Nat
      /\ Current(c) \/ Stale(c)
  BY DEF IndInv, TxInv, Commit
<1>2. v = Supports[c]
  BY <1>0, <1>1
<1>3. CASE Current(c)
  <2>1. l <= v /\ ddl[c] = l + 1 .. v /\ recorded[c] = l + 1 .. v
    BY <1>3 DEF Current
  <2>2. (1 .. l) \cup (l + 1 .. v) = 1 .. v
    BY <1>0, <2>1, JoinIntervals
  <2>3. history' = 1 .. v /\ installed' = 1 .. v
    BY <1>0, <2>1, <2>2 DEF Commit
  <2> QED
    BY <1>0, <1>2, <2>1, <2>3
<1>4. CASE Stale(c)
  <2>1. history' = 1 .. l /\ installed' = 1 .. l
    BY <1>0, <1>4 DEF Stale, Commit
  <2> QED
    BY <1>0, <1>4, <2>1 DEF Stale
<1> QED
  BY <1>1, <1>3, <1>4

\* The lock keeps the others out while the history changes.
LEMMA CommitKeepsInv ==
  ASSUME IndInv, NEW c \in Callers, NEW res \in {"ok", "error"}, Commit(c, res)
  PROVE  IndInv'
<1>1. PICK n \in Nat : Latest(history) <= n /\ history' = 1 .. n /\ installed' = 1 .. n
  BY CommitExtends
<1>2. Latest(history)' = n
  BY <1>1, LatestOfInterval DEF Latest
<1>3. TypeOK'
  <2>1. history' \subseteq Nat /\ installed' \subseteq Nat
    BY <1>1, IntervalOfNats
  <2> QED
    BY <2>1 DEF IndInv, TypeOK, Commit, Return
<1>4. ConcurrentCallsAreSafe'
  BY DEF IndInv, TypeOK, ConcurrentCallsAreSafe, Commit, Return
<1>5. lock = c
  BY DEF IndInv, TxInv, InTx, Commit
<1>6. ASSUME NEW d \in Callers PROVE TxInv(d)'
  <2>1. CASE d = c
    BY <2>1 DEF IndInv, TypeOK, TxInv, InTx, Commit, Return
  <2>2. CASE d # c
    <3>1. ~InTx(d)
      BY <1>5, <2>2 DEF IndInv, TxInv
    <3> QED
      BY <2>2, <3>1 DEF IndInv, TypeOK, TxInv, InTx, Commit, Return
  <2> QED
    BY <2>1, <2>2
<1>7. ASSUME NEW d \in Callers PROVE SeenInv(d)'
  <2>1. CASE d = c
    <3>1. seen'[d] = {}
      BY <2>1 DEF IndInv, TypeOK, Commit, Return
    <3> QED
      BY <1>2, <3>1, EmptyIsSeen DEF SeenInv
  <2>2. CASE d # c
    <3>1. seen'[d] = seen[d]
      BY <2>2 DEF IndInv, TypeOK, Commit, Return
    <3>2. PICK k \in Nat : k <= Latest(history) /\ seen[d] = 1 .. k
      BY DEF IndInv, SeenInv
    <3>3. k <= n
      BY <1>1, <3>2, LatestFacts
    <3> QED
      BY <1>2, <3>1, <3>2, <3>3 DEF SeenInv
  <2> QED
    BY <2>1, <2>2
<1> QED
  BY <1>1, <1>3, <1>4, <1>6, <1>7 DEF IndInv

\* The invariant is inductive.
LEMMA NextKeepsInv == IndInv /\ [Next]_vars => IndInv'
<1> SUFFICES ASSUME IndInv, [Next]_vars PROVE IndInv'
  OBVIOUS
<1>1. CASE UNCHANGED vars
  BY <1>1, Zenon DEF vars, IndInv, TypeOK, ConcurrentCallsAreSafe, TxInv, Current, Stale, InTx,
              SeenInv
<1>2. ASSUME NEW c \in Callers, ApplySchema(c) PROVE IndInv'
  <2>1. TypeOK' /\ ConcurrentCallsAreSafe'
    BY <1>2 DEF IndInv, TypeOK, ConcurrentCallsAreSafe, ApplySchema
  <2>2. ASSUME NEW d \in Callers PROVE TxInv(d)'
    BY <1>2 DEF IndInv, TypeOK, TxInv, Current, Stale, InTx, ApplySchema
  <2>3. ASSUME NEW d \in Callers PROVE SeenInv(d)'
    <3>1. CASE d = c
      <4>1. seen'[d] = history /\ history' = history
        BY <1>2, <3>1 DEF IndInv, TypeOK, ApplySchema
      <4>2. Latest(history) \in Nat /\ Latest(history) <= Latest(history)
            /\ history = 1 .. Latest(history)
        BY LatestFacts
      <4> QED
        BY <4>1, <4>2 DEF SeenInv
    <3>2. CASE d # c
      BY <1>2, <3>2 DEF IndInv, TypeOK, SeenInv, ApplySchema
    <3> QED
      BY <3>1, <3>2
  <2> QED
    BY <1>2, <2>1, <2>2, <2>3 DEF IndInv, ApplySchema
<1>3. ASSUME NEW c \in Callers, GetLock(c) PROVE IndInv'
  <2>1. TypeOK' /\ ConcurrentCallsAreSafe'
    BY <1>3 DEF IndInv, TypeOK, ConcurrentCallsAreSafe, GetLock
  <2>2. ASSUME NEW d \in Callers PROVE TxInv(d)'
    BY <1>3 DEF IndInv, TypeOK, TxInv, Current, Stale, InTx, GetLock
  <2> QED
    BY <1>3, <2>1, <2>2, SeenUnchanged DEF IndInv, GetLock
<1>4. ASSUME NEW c \in Callers, RollBack(c) PROVE IndInv'
  BY <1>4, ReturnKeepsInv DEF RollBack
<1> QED
  BY <1>1, <1>2, <1>3, <1>4, ReadKeepsInv, MigrateKeepsInv, ConflictKeepsInv,
     CommitKeepsInv DEF Next, Proceed

(***************************************************************************)
(* The history is the list of installed migrations, without a gap, at      *)
(* every isolation level.                                                  *)
(***************************************************************************)
THEOREM HistoryTheorem == Spec => []HistoryIsTrue
<1>1. IndInv => HistoryIsTrue
  BY LatestFacts DEF HistoryIsTrue
<1> QED
  BY <1>1, InitInv, NextKeepsInv, PTL DEF Spec

(***************************************************************************)
(* Concurrent calls of ApplySchema do not make one at READ COMMITTED fail. *)
(***************************************************************************)
THEOREM ConcurrencyTheorem == Spec => []ConcurrentCallsAreSafe
<1>1. IndInv => ConcurrentCallsAreSafe
  BY DEF IndInv
<1> QED
  BY <1>1, InitInv, NextKeepsInv, PTL DEF Spec

(***************************************************************************)
(* A call at READ COMMITTED succeeds only on exactly the schema that its   *)
(* library knows.                                                          *)
(***************************************************************************)
THEOREM SuccessTheorem == Spec => SuccessIsExact
<1> DEFINE Exact ==
      \A c \in {d \in Callers : Isolation[d] = "read_committed"} :
          result'[c] = "ok" /\ result[c] # "ok" => installed' = 1 .. Supports[c]
<1>1. ASSUME IndInv, Next PROVE Exact
  <2> SUFFICES ASSUME NEW c \in Callers, Isolation[c] = "read_committed",
                      result'[c] = "ok", result[c] # "ok"
               PROVE  installed' = 1 .. Supports[c]
    OBVIOUS
  <2>1. Commit(c, "ok")
    <3>0. DOMAIN result = Callers
      BY <1>1 DEF IndInv, TypeOK
    <3>1. ASSUME NEW d \in Callers, NEW res \in {"unsupported", "conflict", "error"},
                 Return(d, res)
          PROVE  FALSE
      BY <3>0, <3>1 DEF Return
    <3>2. ASSUME NEW d \in Callers, d # c, NEW res, Return(d, res) PROVE FALSE
      BY <3>0, <3>2 DEF Return
    <3>3. ASSUME NEW d \in Callers, ApplySchema(d) \/ GetLock(d) \/ Migrate(d) PROVE FALSE
      BY <3>0, <3>3 DEF ApplySchema, GetLock, Migrate
    <3>4. ASSUME NEW d \in Callers, ReadVersion(d) PROVE FALSE
      BY <1>1, <3>1, <3>4 DEF ReadVersion
    <3>5. ASSUME NEW d \in Callers, MigrateConflicts(d) \/ RollBack(d) PROVE FALSE
      BY <3>1, <3>5 DEF MigrateConflicts, RollBack
    <3>6. ASSUME NEW d \in Callers, NEW res \in {"ok", "error"}, Commit(d, res)
          PROVE  d = c /\ res = "ok"
      BY <3>1, <3>2, <3>6 DEF Commit
    <3> QED
      BY <1>1, <3>3, <3>4, <3>5, <3>6 DEF Next, Proceed
  <2> QED
    BY <1>1, <2>1, CommitExtends
<1>2. IndInv /\ [Next]_vars => [Exact]_vars
  BY <1>1
<1> QED
  BY <1>2, InitInv, NextKeepsInv, PTL DEF Spec, SuccessIsExact
=============================================================================
