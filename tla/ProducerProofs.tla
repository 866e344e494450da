--------------------------- MODULE ProducerProofs ---------------------------
(***************************************************************************)
(* Proofs about Producer, for any number of runs, workflows, versions,     *)
(* deduplication keys and overlapping calls.                               *)
(***************************************************************************)
EXTENDS Producer, TLAPS

-----------------------------------------------------------------------------
(* The inductive invariant.                                                *)

\* Every registered workflow has a latest version (latestWorkflow).
LatestExists ==
    \A n \in Names, v \in Versions : <<n, v>> \in registered =>
        \E m \in Versions : /\ <<n, m>> \in registered
                            /\ \A w \in Versions : <<n, w>> \in registered => w <= m

InsertCall ==
    [op : {"insert"}, id : Ids, name : Names, version : Versions, key : Keys \cup {Null}]

CancelCall == [op : {"cancel", "reread"}, id : Ids]

EnqueueReply == [op : {"enqueue"}, id : Ids, name : Names, key : Keys \cup {Null}]

CancelReply == [op : {"cancel"}, id : Ids, state : {"unfinished"} \cup Terminal]

TypeInv ==
    /\ rows \in [Ids -> Row \cup {Null}]
    /\ call \in [Calls -> {Idle} \cup InsertCall \cup CancelCall]
    /\ reply \in [Calls -> {NoReply} \cup EnqueueReply \cup CancelReply]

\* A run has a definition to be executed with, and so has one about to be inserted.
RunsAreRegistered ==
    /\ \A i \in Ids : rows[i] # Null => <<rows[i].name, rows[i].version>> \in registered
    /\ \A c \in Calls : call[c].op = "insert" =>
          <<call[c].name, call[c].version>> \in registered

\* The unique index on workflow_name and dedup_key.
KeysAreUnique ==
    \A i, j \in Ids :
        /\ rows[i] # Null /\ rows[j] # Null
        /\ rows[i].name = rows[j].name /\ rows[i].key = rows[j].key /\ rows[i].key # Null
        => i = j

\* What a call was told is what the table says, as far as it can no longer change.
ReplyIsTrue(r) ==
    /\ r.op = "enqueue" =>
          rows[r.id] # Null /\ rows[r.id].name = r.name /\ rows[r.id].key = r.key
    /\ r.op = "cancel" =>
          rows[r.id] # Null /\ (r.state \in Terminal => rows[r.id].state = r.state)

RepliesAreTrue == \A c \in Calls : ReplyIsTrue(reply[c])

IndInv ==
    /\ TypeInv
    /\ LatestExists
    /\ RunsAreRegistered
    /\ KeysAreUnique
    /\ RepliesAreTrue

-----------------------------------------------------------------------------

\* latestWorkflow returns a registered version.
LEMMA LatestIsRegistered ==
    ASSUME LatestExists, NEW n \in Names, NEW asked \in Versions \cup {Null},
           \E v \in Versions : <<n, v>> \in registered /\ asked \in {Null, v}
    PROVE  VersionFor(n, asked) \in Versions /\ <<n, VersionFor(n, asked)>> \in registered
<1> DEFINE S == {v \in Versions : <<n, v>> \in registered}
<1>1. CASE asked = Null
  <2>1. \E m \in S : \A w \in S : w <= m
    BY DEF LatestExists
  <2>2. Max(S) \in S
    BY <2>1, ProducerAssumption, Zenon DEF Max
  <2>. QED  BY <1>1, <2>2 DEF VersionFor
<1>2. CASE asked # Null
  BY <1>2 DEF VersionFor
<1>. QED  BY <1>1, <1>2

LEMMA InitInv == Init => IndInv
<1>. QED
  BY DEF Init, IndInv, TypeInv, LatestExists, RunsAreRegistered, KeysAreUnique,
         RepliesAreTrue, ReplyIsTrue, Idle, NoReply

\* Register adds a version and forgets none.
LEMMA RegisterKeepsInv ==
    ASSUME IndInv, NEW n \in Names, NEW v \in Versions, Register(n, v)
    PROVE  IndInv'
<1>1. LatestExists'
  <2> SUFFICES ASSUME NEW n2 \in Names, NEW v2 \in Versions, <<n2, v2>> \in registered'
               PROVE  \E m \in Versions :
                          /\ <<n2, m>> \in registered'
                          /\ \A w \in Versions : <<n2, w>> \in registered' => w <= m
    BY DEF LatestExists
  <2>1. \A w \in Versions : <<n2, w>> \in registered' <=>
            <<n2, w>> \in registered \/ (n2 = n /\ w = v)
    BY DEF Register
  <2>2. CASE \E w \in Versions : <<n2, w>> \in registered
    <3>1. PICK m \in Versions :
              /\ <<n2, m>> \in registered
              /\ \A w \in Versions : <<n2, w>> \in registered => w <= m
      BY <2>2 DEF IndInv, LatestExists
    <3>2. CASE n2 = n /\ m < v
      BY <2>1, <3>1, <3>2, ProducerAssumption
    <3>3. CASE ~(n2 = n /\ m < v)
      BY <2>1, <3>1, <3>3, ProducerAssumption
    <3>. QED  BY <3>2, <3>3
  <2>3. CASE ~\E w \in Versions : <<n2, w>> \in registered
    BY <2>1, <2>3, ProducerAssumption
  <2>. QED  BY <2>2, <2>3, Zenon
<1>2. TypeInv' /\ RunsAreRegistered' /\ KeysAreUnique' /\ RepliesAreTrue'
  BY DEF IndInv, TypeInv, RunsAreRegistered, KeysAreUnique, RepliesAreTrue, ReplyIsTrue,
         Register
<1>. QED  BY <1>1, <1>2 DEF IndInv
\* Enqueue and Cancel begin: no row changes.
LEMMA CallBegins ==
    ASSUME IndInv, NEW c \in Calls, NEW i \in Ids,
           \/ Cancel(c, i)
           \/ \E n \in Names, v \in Versions \cup {Null}, k \in Keys \cup {Null} :
                 Enqueue(c, i, n, v, k)
    PROVE  IndInv'
<1> USE DEF IndInv
<1>1. /\ UNCHANGED <<registered, rows>>
      /\ reply' = [reply EXCEPT ![c] = NoReply]
      /\ \E new \in InsertCall \cup CancelCall :
            /\ call' = [call EXCEPT ![c] = new]
            /\ new.op = "insert" => <<new.name, new.version>> \in registered
  <2>1. CASE Cancel(c, i)
    <3> DEFINE new == [op |-> "cancel", id |-> i]
    <3>1. new \in CancelCall /\ new.op # "insert"
      BY DEF CancelCall
    <3>. QED  BY <2>1, <3>1, Zenon DEF Cancel
  <2>2. CASE \E n \in Names, v \in Versions \cup {Null}, k \in Keys \cup {Null} :
                Enqueue(c, i, n, v, k)
    <3>1. PICK n \in Names, v \in Versions \cup {Null}, k \in Keys \cup {Null} :
              Enqueue(c, i, n, v, k)
      BY <2>2
    <3> DEFINE new == [op |-> "insert", id |-> i, name |-> n,
                       version |-> VersionFor(n, v), key |-> k]
    <3>2. VersionFor(n, v) \in Versions /\ <<n, VersionFor(n, v)>> \in registered
      BY <3>1, LatestIsRegistered DEF Enqueue
    <3>3. new \in InsertCall /\ <<new.name, new.version>> \in registered
      BY <3>2 DEF InsertCall
    <3>. QED  BY <3>1, <3>3, Zenon DEF Enqueue
  <2>. QED  BY <2>1, <2>2
<1>2. TypeInv'
  BY <1>1 DEF TypeInv
<1>3. LatestExists' /\ KeysAreUnique'
  BY <1>1, Zenon DEF LatestExists, KeysAreUnique
<1>4. RunsAreRegistered'
  BY <1>1 DEF RunsAreRegistered, TypeInv
<1>5. RepliesAreTrue'
  BY <1>1 DEF RepliesAreTrue, ReplyIsTrue, TypeInv, NoReply
<1>. QED  BY <1>2, <1>3, <1>4, <1>5

\* A call returns r, which is true, and the table is as it was.
LEMMA TrueReplyKeepsInv ==
    ASSUME IndInv, NEW c \in Calls, NEW r \in {NoReply} \cup EnqueueReply \cup CancelReply,
           ReplyIsTrue(r), Return(c, r), UNCHANGED rows
    PROVE  IndInv'
<1> USE DEF IndInv, Return
<1>1. TypeInv'
  BY DEF TypeInv
<1>2. LatestExists' /\ KeysAreUnique'
  BY Zenon DEF LatestExists, KeysAreUnique
<1>3. RunsAreRegistered'
  BY DEF RunsAreRegistered, TypeInv, Idle
<1>4. RepliesAreTrue'
  BY DEF RepliesAreTrue, ReplyIsTrue, TypeInv
<1>. QED  BY <1>1, <1>2, <1>3, <1>4

LEMMA NoReplyIsTrue == ReplyIsTrue(NoReply)
<1>. QED  BY DEF ReplyIsTrue, NoReply

\* A duplicate is given the id of the row it conflicts with.
LEMMA InsertConflictsKeepsInv ==
    ASSUME IndInv, NEW c \in Calls, InsertConflicts(c)
    PROVE  IndInv'
<1>1. call[c] \in InsertCall
  BY DEF InsertConflicts, IndInv, TypeInv, Idle, CancelCall
<1>2. PICK i \in Conflicting(call[c].name, call[c].version, call[c].key) :
          Return(c, [op |-> "enqueue", id |-> i, name |-> call[c].name, key |-> call[c].key])
  BY DEF InsertConflicts
<1> DEFINE r == [op |-> "enqueue", id |-> i, name |-> call[c].name, key |-> call[c].key]
<1>3. r \in EnqueueReply /\ ReplyIsTrue(r)
  BY <1>1, <1>2 DEF EnqueueReply, InsertCall, Conflicting, ReplyIsTrue
<1>. QED  BY <1>2, <1>3, TrueReplyKeepsInv DEF InsertConflicts

\* The new row takes a free id and a free key, so no reply becomes false.
LEMMA InsertRunKeepsInv ==
    ASSUME IndInv, NEW c \in Calls, NEW acknowledged \in BOOLEAN,
           InsertRun(c, acknowledged)
    PROVE  IndInv'
<1> USE DEF IndInv
<1> DEFINE new == call[c]
           row == [name |-> new.name, version |-> new.version, key |-> new.key,
                   state |-> "unfinished"]
           r == IF acknowledged
                THEN [op |-> "enqueue", id |-> new.id, name |-> new.name, key |-> new.key]
                ELSE NoReply
<1>1. new \in InsertCall
  BY DEF InsertRun, TypeInv, Idle, CancelCall
<1>2. /\ rows[new.id] = Null /\ rows' = [rows EXCEPT ![new.id] = row]
      /\ Conflicting(new.name, new.version, new.key) = {}
      /\ Return(c, r)
  BY DEF InsertRun
<1>3. row \in Row /\ row # Null /\ new.id \in Ids
  BY <1>1, ProducerAssumption DEF InsertCall, Row
<1>4. r \in {NoReply} \cup EnqueueReply
  BY <1>1 DEF InsertCall, EnqueueReply
<1>5. TypeInv'
  BY <1>2, <1>3, <1>4 DEF TypeInv, Return
<1>6. LatestExists'
  BY <1>2, Zenon DEF LatestExists, Return
<1>7. RunsAreRegistered'
  BY <1>1, <1>2, <1>3 DEF RunsAreRegistered, TypeInv, Return, Idle, InsertRun
<1>8. KeysAreUnique'
  BY <1>1, <1>2, <1>3 DEF KeysAreUnique, TypeInv, Conflicting
<1>9. RepliesAreTrue'
  <2> SUFFICES ASSUME NEW d \in Calls PROVE ReplyIsTrue(reply[d])'
    BY DEF RepliesAreTrue
  <2>1. CASE d = c
    BY <1>1, <1>2, <1>3, <2>1 DEF ReplyIsTrue, TypeInv, Return, NoReply, InsertCall
  <2>2. CASE d # c
    BY <1>2, <1>3, <2>2 DEF ReplyIsTrue, RepliesAreTrue, TypeInv, Return, NoReply,
       EnqueueReply, CancelReply
  <2>. QED  BY <2>1, <2>2
<1>. QED  BY <1>5, <1>6, <1>7, <1>8, <1>9

\* Only an unfinished run changes its state, and no reply holds on to that state.
LEMMA RunEndingKeepsInv ==
    ASSUME IndInv, NEW i \in Ids, NEW s \in Terminal, Cancellable(i),
           rows' = [rows EXCEPT ![i].state = s]
    PROVE  /\ rows' \in [Ids -> Row \cup {Null}]
           /\ KeysAreUnique'
           /\ \A j \in Ids : /\ rows'[j] # Null <=> rows[j] # Null
                             /\ rows[j] # Null => /\ rows'[j].name = rows[j].name
                                                  /\ rows'[j].version = rows[j].version
           /\ \A r \in {NoReply} \cup EnqueueReply \cup CancelReply :
                 ReplyIsTrue(r) => ReplyIsTrue(r)'
           /\ rows'[i].state = s
<1> USE DEF IndInv
<1>1. rows[i] \in Row /\ rows[i].state = "unfinished"
  BY DEF Cancellable, TypeInv
<1> DEFINE row == [rows[i] EXCEPT !.state = s]
<1>2. /\ row \in Row /\ row # Null /\ row.state = s
      /\ row.name = rows[i].name /\ row.version = rows[i].version /\ row.key = rows[i].key
  BY <1>1, ProducerAssumption DEF Row
<1>3. rows' = [rows EXCEPT ![i] = row]
  OBVIOUS
<1> HIDE DEF row
<1>4. rows' \in [Ids -> Row \cup {Null}]
  BY <1>2, <1>3 DEF TypeInv
<1>5. \A j \in Ids : /\ rows'[j] # Null <=> rows[j] # Null
                     /\ rows[j] # Null => /\ rows'[j].name = rows[j].name
                                          /\ rows'[j].version = rows[j].version
                                          /\ rows'[j].key = rows[j].key
                                          /\ j # i => rows'[j].state = rows[j].state
  BY <1>1, <1>2, <1>3, ProducerAssumption DEF TypeInv
<1>6. KeysAreUnique'
  BY <1>5 DEF KeysAreUnique
<1>7. \A r \in {NoReply} \cup EnqueueReply \cup CancelReply : ReplyIsTrue(r) => ReplyIsTrue(r)'
  BY <1>1, <1>5 DEF ReplyIsTrue, NoReply, EnqueueReply, CancelReply, Terminal
<1>8. rows'[i].state = s
  BY <1>2, <1>3 DEF TypeInv
<1>. QED  BY <1>4, <1>5, <1>6, <1>7, <1>8

LEMMA CancelRunKeepsInv ==
    ASSUME IndInv, NEW c \in Calls, NEW acknowledged \in BOOLEAN,
           CancelRun(c, acknowledged)
    PROVE  IndInv'
<1> USE DEF IndInv
<1> DEFINE i == call[c].id
           r == IF acknowledged
                THEN [op |-> "cancel", id |-> i, state |-> "cancelled"]
                ELSE NoReply
<1>1. call[c] \in CancelCall /\ i \in Ids /\ Cancellable(i)
  BY DEF CancelRun, TypeInv, Idle, InsertCall, CancelCall
<1>2. rows' = [rows EXCEPT ![i].state = "cancelled"] /\ Return(c, r)
  BY DEF CancelRun
<1>3. r \in {NoReply} \cup CancelReply
  BY <1>1 DEF CancelReply, Terminal
<1> HIDE DEF i
<1>4. /\ rows' \in [Ids -> Row \cup {Null}]
      /\ KeysAreUnique'
      /\ \A j \in Ids : /\ rows'[j] # Null <=> rows[j] # Null
                        /\ rows[j] # Null => /\ rows'[j].name = rows[j].name
                                             /\ rows'[j].version = rows[j].version
      /\ \A q \in {NoReply} \cup EnqueueReply \cup CancelReply :
            ReplyIsTrue(q) => ReplyIsTrue(q)'
      /\ rows'[i].state = "cancelled"
  BY <1>1, <1>2, RunEndingKeepsInv, Zenon DEF Terminal
<1>5. TypeInv'
  BY <1>2, <1>3, <1>4 DEF TypeInv, Return
<1>6. LatestExists' /\ RunsAreRegistered'
  <2>1. registered' = registered
    BY <1>2 DEF Return
  <2>2. \A d \in Calls : call'[d] = IF d = c THEN Idle ELSE call[d]
    BY <1>2 DEF Return, TypeInv
  <2>3. LatestExists'
    BY <2>1, Zenon DEF LatestExists
  <2>4. ASSUME NEW j \in Ids, rows'[j] # Null
        PROVE  <<rows'[j].name, rows'[j].version>> \in registered'
    BY <1>4, <2>1, <2>4 DEF RunsAreRegistered
  <2>5. ASSUME NEW d \in Calls, call'[d].op = "insert"
        PROVE  <<call'[d].name, call'[d].version>> \in registered'
    <3>1. d # c /\ call'[d] = call[d]
      BY <2>2, <2>5 DEF Idle
    <3>. QED  BY <2>1, <2>5, <3>1 DEF RunsAreRegistered
  <2>. QED  BY <2>3, <2>4, <2>5 DEF RunsAreRegistered
<1>7. ReplyIsTrue(reply[c])'
  <2>1. reply'[c] = r
    BY <1>2 DEF Return, TypeInv
  <2>2. rows'[i] # Null /\ rows'[i].state = "cancelled"
    BY <1>1, <1>4 DEF Cancellable
  <2>3. CASE acknowledged
    BY <2>1, <2>2, <2>3 DEF ReplyIsTrue
  <2>4. CASE ~acknowledged
    BY <2>1, <2>4 DEF ReplyIsTrue, NoReply
  <2>. QED  BY <2>3, <2>4
<1>8. RepliesAreTrue'
  <2> SUFFICES ASSUME NEW d \in Calls PROVE ReplyIsTrue(reply[d])'
    BY DEF RepliesAreTrue
  <2>1. CASE d = c
    BY <1>7, <2>1
  <2>2. CASE d # c
    <3>1. reply'[d] = reply[d] /\ reply[d] \in {NoReply} \cup EnqueueReply \cup CancelReply
      BY <1>2, <2>2 DEF TypeInv, Return
    <3>2. ReplyIsTrue(reply[d])
      BY DEF RepliesAreTrue
    <3>. QED  BY <1>4, <3>1, <3>2 DEF ReplyIsTrue
  <2>. QED  BY <2>1, <2>2
<1>. QED  BY <1>4, <1>5, <1>6, <1>8

LEMMA RunEndsKeepsInv ==
    ASSUME IndInv, NEW i \in Ids, NEW s \in {"completed", "failed"}, RunEnds(i, s)
    PROVE  IndInv'
<1> USE DEF IndInv
<1>1. /\ Cancellable(i) /\ rows' = [rows EXCEPT ![i].state = s]
      /\ UNCHANGED <<registered, call, reply>>
  BY DEF RunEnds, Cancellable
<1>2. /\ rows' \in [Ids -> Row \cup {Null}]
      /\ KeysAreUnique'
      /\ \A j \in Ids : /\ rows'[j] # Null <=> rows[j] # Null
                        /\ rows[j] # Null => /\ rows'[j].name = rows[j].name
                                             /\ rows'[j].version = rows[j].version
      /\ \A r \in {NoReply} \cup EnqueueReply \cup CancelReply :
            ReplyIsTrue(r) => ReplyIsTrue(r)'
  BY <1>1, RunEndingKeepsInv, Zenon DEF Terminal
<1>3. TypeInv'
  <2>1. call' = call /\ reply' = reply
    BY <1>1
  <2>. QED  BY <1>2, <2>1 DEF TypeInv
<1>5. LatestExists' /\ RunsAreRegistered'
  <2>1. registered' = registered /\ call' = call
    BY <1>1
  <2>. QED  BY <1>2, <2>1, Zenon DEF LatestExists, RunsAreRegistered
<1>4. RepliesAreTrue'
  <2> SUFFICES ASSUME NEW d \in Calls PROVE ReplyIsTrue(reply[d])'
    BY DEF RepliesAreTrue
  <2>1. reply'[d] = reply[d] /\ reply[d] \in {NoReply} \cup EnqueueReply \cup CancelReply
    BY <1>1 DEF TypeInv
  <2>2. ReplyIsTrue(reply[d])
    BY DEF RepliesAreTrue
  <2>. QED  BY <1>2, <2>1, <2>2 DEF ReplyIsTrue
<1>. QED  BY <1>2, <1>3, <1>4, <1>5

\* Cancel's second read, and the calls that return without a statement's effect.
LEMMA ReadsKeepInv ==
    ASSUME IndInv, NEW c \in Calls, CancelMisses(c) \/ ReadState(c) \/ CallFails(c)
    PROVE  IndInv'
<1> USE DEF IndInv
<1>1. CASE CancelMisses(c)
  <2>1. call[c] \in CancelCall
    BY <1>1 DEF CancelMisses, TypeInv, Idle, InsertCall
  <2> DEFINE new == [call[c] EXCEPT !.op = "reread"]
  <2>2. new \in CancelCall /\ new.op # "insert"
    BY <2>1 DEF CancelCall
  <2>3. call' = [call EXCEPT ![c] = new] /\ UNCHANGED <<registered, rows, reply>>
    BY <1>1 DEF CancelMisses
  <2> HIDE DEF new
  <2>4. TypeInv'
    BY <2>2, <2>3 DEF TypeInv
  <2>5. LatestExists' /\ KeysAreUnique' /\ RepliesAreTrue'
    BY <2>3 DEF LatestExists, KeysAreUnique, RepliesAreTrue, ReplyIsTrue
  <2>6. RunsAreRegistered'
    BY <2>2, <2>3 DEF RunsAreRegistered, TypeInv
  <2>. QED  BY <2>4, <2>5, <2>6
<1>2. CASE ReadState(c)
  <2> DEFINE row == rows[call[c].id]
             r == IF row = Null
                  THEN NoReply
                  ELSE [op |-> "cancel", id |-> call[c].id, state |-> row.state]
  <2>1. call[c] \in CancelCall /\ call[c].id \in Ids
    BY <1>2 DEF ReadState, TypeInv, Idle, InsertCall, CancelCall
  <2>2. row \in Row \cup {Null}
    BY <2>1 DEF TypeInv
  <2>3. r \in {NoReply} \cup CancelReply
    BY <2>1, <2>2 DEF CancelReply, Row
  <2>4. ReplyIsTrue(r)
    BY <2>1 DEF ReplyIsTrue, NoReply
  <2>5. Return(c, r) /\ UNCHANGED rows
    BY <1>2 DEF ReadState
  <2> HIDE DEF r
  <2>. QED  BY <2>3, <2>4, <2>5, TrueReplyKeepsInv
<1>3. CASE CallFails(c)
  BY <1>3, TrueReplyKeepsInv, NoReplyIsTrue DEF CallFails
<1>. QED  BY <1>1, <1>2, <1>3

LEMMA NextKeepsInv == IndInv /\ [Next]_vars => IndInv'
<1> SUFFICES ASSUME IndInv, [Next]_vars PROVE IndInv'
  OBVIOUS
<1>1. ASSUME NEW n \in Names, NEW v \in Versions, Register(n, v) PROVE IndInv'
  BY <1>1, RegisterKeepsInv
<1>2. ASSUME NEW c \in Calls, NEW i \in Ids,
             \/ Cancel(c, i)
             \/ \E n \in Names, v \in Versions \cup {Null}, k \in Keys \cup {Null} :
                   Enqueue(c, i, n, v, k)
      PROVE  IndInv'
  BY <1>2, CallBegins
<1>3. ASSUME NEW c \in Calls, NEW acknowledged \in BOOLEAN,
             InsertRun(c, acknowledged) \/ CancelRun(c, acknowledged)
      PROVE  IndInv'
  BY <1>3, InsertRunKeepsInv, CancelRunKeepsInv
<1>4. ASSUME NEW c \in Calls,
             InsertConflicts(c) \/ CancelMisses(c) \/ ReadState(c) \/ CallFails(c)
      PROVE  IndInv'
  BY <1>4, InsertConflictsKeepsInv, ReadsKeepInv
<1>5. ASSUME NEW i \in Ids, NEW s \in {"completed", "failed"}, RunEnds(i, s) PROVE IndInv'
  BY <1>5, RunEndsKeepsInv
<1>6. CASE UNCHANGED vars
  BY <1>6 DEF vars, IndInv, TypeInv, LatestExists, RunsAreRegistered, KeysAreUnique,
     RepliesAreTrue, ReplyIsTrue
<1>. QED  BY <1>1, <1>2, <1>3, <1>4, <1>5, <1>6 DEF Next

LEMMA Invariance == Spec => []IndInv
<1>. QED  BY InitInv, NextKeepsInv, PTL DEF Spec

-----------------------------------------------------------------------------

(***************************************************************************)
(* Of all rows exactly the one whose id Enqueue returned has that name and *)
(* key, for any number of overlapping and repeated calls (insertRun's      *)
(* unique index and ON CONFLICT).                                          *)
(***************************************************************************)
THEOREM DeduplicationTheorem == Spec => []SameKeySameRun
<1>1. IndInv => SameKeySameRun
  <2> SUFFICES ASSUME IndInv, NEW c \in Calls, reply[c].op = "enqueue", reply[c].key # Null
               PROVE  {reply[c].id} = {i \in Ids : /\ rows[i] # Null
                                                   /\ rows[i].name = reply[c].name
                                                   /\ rows[i].key = reply[c].key}
    BY DEF SameKeySameRun
  <2>1. reply[c] \in EnqueueReply
    BY DEF IndInv, TypeInv, NoReply, CancelReply
  <2>2. reply[c].id \in Ids
    BY <2>1 DEF EnqueueReply
  <2>3. /\ rows[reply[c].id] # Null /\ rows[reply[c].id].name = reply[c].name
        /\ rows[reply[c].id].key = reply[c].key
    BY DEF IndInv, RepliesAreTrue, ReplyIsTrue
  <2>. QED  BY <2>2, <2>3 DEF IndInv, KeysAreUnique
<1>. QED  BY <1>1, Invariance, PTL

(***************************************************************************)
(* The terminal state that Cancel reported is the run's state ever after,  *)
(* whichever of its two statements found it (cancelRun, runState).         *)
(***************************************************************************)
THEOREM CancelTheorem == Spec => []CancelIsTruthful
<1>1. IndInv => CancelIsTruthful
  BY DEF IndInv, RepliesAreTrue, ReplyIsTrue, CancelIsTruthful
<1>. QED  BY <1>1, Invariance, PTL

(***************************************************************************)
(* Whatever is registered while a call is under way, every run in the      *)
(* table is of a version that was registered when it was enqueued and      *)
(* still is (Enqueue, latestWorkflow).                                     *)
(***************************************************************************)
THEOREM VersionTheorem == Spec => []RunsAreRegistered
<1>. QED  BY Invariance, PTL DEF IndInv

(***************************************************************************)
(* No step removes a run or changes the version or the key that it was     *)
(* inserted with (insertRun, ON CONFLICT DO UPDATE).                       *)
(***************************************************************************)
THEOREM PinningTheorem == Spec => RunIsPinned
<1> DEFINE Pinned == \A i \in Ids : rows[i] # Null =>
               /\ rows'[i] # Null
               /\ rows'[i].version = rows[i].version /\ rows'[i].key = rows[i].key
<1>1. IndInv /\ [Next]_vars => Pinned
  <2> SUFFICES ASSUME IndInv, [Next]_vars, NEW i \in Ids, rows[i] # Null
               PROVE  /\ rows'[i] # Null
                      /\ rows'[i].version = rows[i].version /\ rows'[i].key = rows[i].key
    OBVIOUS
  <2>1. rows[i] \in Row /\ rows \in [Ids -> Row \cup {Null}]
    BY DEF IndInv, TypeInv
  <2>2. CASE rows' = rows
    BY <2>2
  <2>3. ASSUME NEW c \in Calls, NEW acknowledged \in BOOLEAN, InsertRun(c, acknowledged)
        PROVE  rows'[i] = rows[i]
    BY <2>1, <2>3 DEF InsertRun
  <2>4. ASSUME NEW j \in Ids, NEW s \in Terminal, rows[j] # Null,
               rows' = [rows EXCEPT ![j].state = s]
        PROVE  /\ rows'[i] # Null
               /\ rows'[i].version = rows[i].version /\ rows'[i].key = rows[i].key
    <3> DEFINE row == [rows[j] EXCEPT !.state = s]
    <3>1. rows[j] \in Row
      BY <2>1, <2>4
    <3>2. /\ row \in Row
          /\ row.version = rows[j].version /\ row.key = rows[j].key
      BY <3>1 DEF Row
    <3>3. row # Null
      BY <3>2, ProducerAssumption
    <3>4. rows' = [rows EXCEPT ![j] = row]
      BY <2>4
    <3> HIDE DEF row
    <3>. QED  BY <2>1, <3>2, <3>3, <3>4
  <2>5. ASSUME NEW c \in Calls, NEW acknowledged \in BOOLEAN, CancelRun(c, acknowledged)
        PROVE  \E j \in Ids : rows[j] # Null /\ rows' = [rows EXCEPT ![j].state = "cancelled"]
    <3>1. call[c].id \in Ids
      BY <2>5 DEF CancelRun, IndInv, TypeInv, Idle, InsertCall, CancelCall
    <3>. QED  BY <2>5, <3>1, Zenon DEF CancelRun, Cancellable
  <2>6. CASE \E n \in Names, v \in Versions : Register(n, v)
    BY <2>2, <2>6 DEF Register
  <2>7. ASSUME NEW c \in Calls,
               \/ \E j \in Ids :
                     \/ Cancel(c, j)
                     \/ \E n \in Names, v \in Versions \cup {Null}, k \in Keys \cup {Null} :
                           Enqueue(c, j, n, v, k)
               \/ InsertConflicts(c) \/ CancelMisses(c) \/ ReadState(c) \/ CallFails(c)
        PROVE  rows' = rows
    BY <2>7 DEF Cancel, Enqueue, InsertConflicts, CancelMisses, ReadState, CallFails
  <2>8. ASSUME NEW j \in Ids, NEW s \in {"completed", "failed"}, RunEnds(j, s)
        PROVE  rows[j] # Null /\ rows' = [rows EXCEPT ![j].state = s]
    BY <2>8 DEF RunEnds
  <2>9. CASE UNCHANGED vars
    BY <2>2, <2>9 DEF vars
  <2>. QED  BY <2>2, <2>3, <2>4, <2>5, <2>6, <2>7, <2>8, <2>9 DEF Next, Terminal
<1>2. RunIsPinned <=> [][Pinned]_vars
  BY DEF RunIsPinned
<1>. QED  BY <1>1, <1>2, Invariance, PTL DEF Spec

=============================================================================
