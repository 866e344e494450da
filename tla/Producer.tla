------------------------------ MODULE Producer ------------------------------
(***************************************************************************)
(* The producer side of the API (engine.go): the registry of workflow      *)
(* versions, Enqueue with run ids and deduplication keys, and Cancel with  *)
(* its second read.  Calls overlap, and the reply of a statement may be    *)
(* lost, after which the caller may call again.                            *)
(*                                                                         *)
(* How a run is executed is Worker's subject; here an unfinished run ends  *)
(* at any moment.                                                          *)
(***************************************************************************)
EXTENDS Integers, FiniteSetsExt

CONSTANTS
    Ids,       \* run ids
    Names,     \* workflow names
    Versions,  \* workflow versions
    Keys,      \* deduplication keys
    Calls,     \* calls in progress
    Null       \* no key, no row

Terminal == {"completed", "failed", "cancelled"}

\* The columns of workflow_runs that a producer writes or reads.
Row ==
    [name : Names, version : Versions, key : Keys \cup {Null},
     state : {"unfinished"} \cup Terminal]

ASSUME ProducerAssumption ==
    /\ Versions \subseteq Nat \ {0}
    /\ Null \notin Keys /\ Null \notin Row

VARIABLES
    registered,  \* Engine.workflows: pairs of name and version
    rows,        \* workflow_runs: name, version, key and state
    call,        \* call[c]: the statement that call c issues next
    reply        \* reply[c]: what call c returned last

vars == <<registered, rows, call, reply>>

Idle == [op |-> "idle"]

NoReply == [op |-> "none"]

Init ==
    /\ registered = {}
    /\ rows = [i \in Ids |-> Null]
    /\ call = [c \in Calls |-> Idle]
    /\ reply = [c \in Calls |-> NoReply]

-----------------------------------------------------------------------------

\* Register; a version that is registered already makes it panic.
Register(n, v) ==
    /\ <<n, v>> \notin registered
    /\ registered' = registered \cup {<<n, v>>}
    /\ UNCHANGED <<rows, call, reply>>

\* latestWorkflow, or the version asked for.
VersionFor(n, asked) ==
    IF asked = Null THEN Max({v \in Versions : <<n, v>> \in registered}) ELSE asked

\* The definition is looked up; an unknown one is refused.
Enqueue(c, i, n, asked, k) ==
    /\ call[c] = Idle
    /\ \E v \in Versions : <<n, v>> \in registered /\ asked \in {Null, v}
    /\ call' = [call EXCEPT ![c] = [op |-> "insert", id |-> i, name |-> n,
                                    version |-> VersionFor(n, asked), key |-> k]]
    /\ reply' = [reply EXCEPT ![c] = NoReply]
    /\ UNCHANGED <<registered, rows>>

Return(c, r) ==
    /\ call' = [call EXCEPT ![c] = Idle]
    /\ reply' = [reply EXCEPT ![c] = r]
    /\ UNCHANGED registered

\* The unique index includes the version.
MutantDedupPerVersion(n, v, k) ==
    {i \in Ids : rows[i] # Null /\ rows[i].name = n /\ rows[i].version = v
                 /\ rows[i].key = k /\ k # Null}

\* The row that the index on workflow_name and dedup_key finds.
Conflicting(n, v, k) ==
    {i \in Ids : rows[i] # Null /\ rows[i].name = n /\ rows[i].key = k /\ k # Null}

\* The duplicate overwrites the row.
MutantConflictUpdates(c) ==
    LET new == call[c] IN
    /\ new.op = "insert"
    /\ \E i \in Conflicting(new.name, new.version, new.key) :
          /\ rows' = [rows EXCEPT ![i] = [@ EXCEPT !.version = new.version]]
          /\ Return(c, [op |-> "enqueue", id |-> i, name |-> new.name, key |-> new.key])

\* DO UPDATE: the row stays what it is and its id is returned.
InsertConflicts(c) ==
    LET new == call[c] IN
    /\ new.op = "insert"
    /\ \E i \in Conflicting(new.name, new.version, new.key) :
          Return(c, [op |-> "enqueue", id |-> i, name |-> new.name, key |-> new.key])
    /\ UNCHANGED rows

\* The row is inserted, unless its id is taken; the caller may not learn of it.
InsertRun(c, acknowledged) ==
    LET new == call[c] IN
    /\ new.op = "insert"
    /\ Conflicting(new.name, new.version, new.key) = {}
    /\ rows[new.id] = Null
    /\ rows' = [rows EXCEPT ![new.id] =
          [name |-> new.name, version |-> new.version, key |-> new.key,
           state |-> "unfinished"]]
    /\ Return(c, IF acknowledged
                 THEN [op |-> "enqueue", id |-> new.id, name |-> new.name, key |-> new.key]
                 ELSE NoReply)

Cancel(c, i) ==
    /\ call[c] = Idle
    /\ call' = [call EXCEPT ![c] = [op |-> "cancel", id |-> i]]
    /\ reply' = [reply EXCEPT ![c] = NoReply]
    /\ UNCHANGED <<registered, rows>>

MutantCancelAnyState(i) == rows[i] # Null

\* WHERE id = $1 AND state IN ('ready', 'leased', 'waiting_event')
Cancellable(i) == rows[i] # Null /\ rows[i].state = "unfinished"

CancelRun(c, acknowledged) ==
    /\ call[c].op = "cancel"
    /\ Cancellable(call[c].id)
    /\ rows' = [rows EXCEPT ![call[c].id].state = "cancelled"]
    /\ Return(c, IF acknowledged
                 THEN [op |-> "cancel", id |-> call[c].id, state |-> "cancelled"]
                 ELSE NoReply)

\* The UPDATE returns no row.
CancelMisses(c) ==
    /\ call[c].op = "cancel"
    /\ ~Cancellable(call[c].id)
    /\ call' = [call EXCEPT ![c].op = "reread"]
    /\ UNCHANGED <<registered, rows, reply>>

\* runState; without a row the call returns ErrRunNotFound.
ReadState(c) ==
    /\ call[c].op = "reread"
    /\ Return(c, IF rows[call[c].id] = Null
                 THEN NoReply
                 ELSE [op |-> "cancel", id |-> call[c].id,
                       state |-> rows[call[c].id].state])
    /\ UNCHANGED rows

\* A statement fails without effect, an INSERT for one because its id is taken.
CallFails(c) ==
    /\ call[c] # Idle
    /\ Return(c, NoReply)
    /\ UNCHANGED rows

\* A worker, or maintenance, ends the run.
RunEnds(i, s) ==
    /\ rows[i] # Null /\ rows[i].state = "unfinished"
    /\ rows' = [rows EXCEPT ![i].state = s]
    /\ UNCHANGED <<registered, call, reply>>

Next ==
    \/ \E n \in Names, v \in Versions : Register(n, v)
    \/ \E c \in Calls :
          \/ \E i \in Ids : \/ Cancel(c, i)
                            \/ \E n \in Names, v \in Versions \cup {Null},
                                  k \in Keys \cup {Null} : Enqueue(c, i, n, v, k)
          \/ \E acknowledged \in BOOLEAN : \/ InsertRun(c, acknowledged)
                                         \/ CancelRun(c, acknowledged)
          \/ InsertConflicts(c) \/ CancelMisses(c) \/ ReadState(c) \/ CallFails(c)
    \/ \E i \in Ids, s \in {"completed", "failed"} : RunEnds(i, s)

Spec == Init /\ [][Next]_vars

-----------------------------------------------------------------------------

(***************************************************************************)
(* Whoever enqueues the same workflow with the same deduplication key, at  *)
(* once, later, after a lost reply or after an upgrade, is given the same  *)
(* run (README.md, "reusing it after an upgrade returns the original run   *)
(* ID").                                                                   *)
(***************************************************************************)
SameKeySameRun ==
    \A c \in Calls : reply[c].op = "enqueue" /\ reply[c].key # Null =>
        {reply[c].id} = {i \in Ids : rows[i] # Null /\ rows[i].name = reply[c].name
                                                    /\ rows[i].key = reply[c].key}

(***************************************************************************)
(* A run keeps the version it was inserted with, and its key, whatever is  *)
(* registered or enqueued later (insertRun, ON CONFLICT).                  *)
(***************************************************************************)
RunIsPinned ==
    [][\A i \in Ids : rows[i] # Null =>
          /\ rows'[i] # Null
          /\ rows'[i].version = rows[i].version /\ rows'[i].key = rows[i].key]_vars

(***************************************************************************)
(* What Cancel has reported stays true: a run it reports as cancelled is   *)
(* never completed, and one it reports as completed or failed is never     *)
(* cancelled, though the two statements of Cancel see different states     *)
(* (Cancel, "the UPDATE's snapshot can predate a concurrent completion").  *)
(***************************************************************************)
CancelIsTruthful ==
    \A c \in Calls : reply[c].op = "cancel" /\ reply[c].state \in Terminal =>
        rows[reply[c].id].state = reply[c].state
=============================================================================
