-------------------------- MODULE SchemaMigration --------------------------
(***************************************************************************)
(* ApplySchema (migrate.go), called by several processes at once, with     *)
(* libraries of different ages: an old library knows a prefix of the       *)
(* migrations of a newer one.  A call is one transaction; what it does     *)
(* becomes visible when it commits and vanishes when it does not.          *)
(***************************************************************************)
EXTENDS Naturals

CONSTANTS
    Callers,     \* concurrent calls of ApplySchema
    Supports,    \* Supports[c]: how many migrations the caller's library has
    Isolation,   \* Isolation[c]: the caller's default_transaction_isolation
    Nobody       \* the advisory lock is free

ASSUME SchemaAssumption ==
    /\ Supports \in [Callers -> Nat]
    /\ Nobody \notin Callers
    /\ Isolation \in [Callers -> {"read_committed", "repeatable_read"}]

VARIABLES
    installed,  \* migrations whose DDL is committed
    history,    \* schema_migrations.version, committed
    lock,       \* who holds the schema's advisory lock
    pc,         \* pc[c]: how far the call is
    seen,       \* seen[c]: history, as the transaction's first snapshot has it
    version,    \* version[c]: the local variable
    ddl,        \* ddl[c]: migrations the open transaction has executed
    recorded,   \* recorded[c]: versions it has inserted
    result      \* result[c]: what the last call returned

vars == <<installed, history, lock, pc, seen, version, ddl, recorded, result>>

TypeOK ==
    /\ installed \subseteq Nat /\ history \subseteq Nat
    /\ lock \in Callers \cup {Nobody}
    /\ pc \in [Callers -> {"idle", "lock", "read", "apply"}]
    /\ seen \in [Callers -> SUBSET Nat]
    /\ version \in [Callers -> Nat]
    /\ ddl \in [Callers -> SUBSET Nat] /\ recorded \in [Callers -> SUBSET Nat]
    /\ result \in [Callers -> {"none", "ok", "unsupported", "conflict", "error"}]

Init ==
    /\ installed = {} /\ history = {}
    /\ lock = Nobody
    /\ pc = [c \in Callers |-> "idle"]
    /\ seen = [c \in Callers |-> {}]
    /\ version = [c \in Callers |-> 0]
    /\ ddl = [c \in Callers |-> {}] /\ recorded = [c \in Callers |-> {}]
    /\ result = [c \in Callers |-> "none"]

\* COALESCE(max(version), 0)
Latest(versions) ==
    IF versions = {} THEN 0 ELSE CHOOSE v \in versions : \A w \in versions : w <= v

\* Begin, and the statement that asks for the lock has its snapshot.
ApplySchema(c) ==
    /\ pc[c] = "idle"
    /\ pc' = [pc EXCEPT ![c] = "lock"]
    /\ seen' = [seen EXCEPT ![c] = history]
    /\ result' = [result EXCEPT ![c] = "none"]
    /\ UNCHANGED <<installed, history, lock, version, ddl, recorded>>

\* The version is read without the lock.
MutantNoLock(c) ==
    /\ pc[c] = "lock"
    /\ pc' = [pc EXCEPT ![c] = "read"]
    /\ UNCHANGED <<installed, history, lock, seen, version, ddl, recorded, result>>

\* The lock is granted; the history table is created if it is missing.
GetLock(c) ==
    /\ pc[c] = "lock" /\ lock = Nobody
    /\ lock' = c
    /\ pc' = [pc EXCEPT ![c] = "read"]
    /\ UNCHANGED <<installed, history, seen, version, ddl, recorded, result>>

\* The call returns res and its transaction is over.
Return(c, res) ==
    /\ pc' = [pc EXCEPT ![c] = "idle"]
    /\ lock' = IF lock = c THEN Nobody ELSE lock
    /\ seen' = [seen EXCEPT ![c] = {}]
    /\ version' = [version EXCEPT ![c] = 0]
    /\ ddl' = [ddl EXCEPT ![c] = {}] /\ recorded' = [recorded EXCEPT ![c] = {}]
    /\ result' = [result EXCEPT ![c] = res]

\* What a statement after the lock reads from the history.
Visible(c) == IF Isolation[c] = "read_committed" THEN history ELSE seen[c]

\* A newer schema is not refused.
MutantReadAnyVersion(c) ==
    /\ pc[c] = "read"
    /\ version' = [version EXCEPT ![c] = Latest(Visible(c))]
    /\ pc' = [pc EXCEPT ![c] = "apply"]
    /\ UNCHANGED <<installed, history, lock, seen, ddl, recorded, result>>

\* A refused call does not end its transaction.
MutantRefuseKeepsLock(c) ==
    /\ pc[c] = "read"
    /\ IF Latest(Visible(c)) > Supports[c]
       THEN /\ pc' = [pc EXCEPT ![c] = "idle"]
            /\ result' = [result EXCEPT ![c] = "unsupported"]
            /\ UNCHANGED version
       ELSE /\ version' = [version EXCEPT ![c] = Latest(Visible(c))]
            /\ pc' = [pc EXCEPT ![c] = "apply"]
            /\ UNCHANGED result
    /\ UNCHANGED <<installed, history, lock, seen, ddl, recorded>>

ReadVersion(c) ==
    /\ pc[c] = "read"
    /\ IF Latest(Visible(c)) > Supports[c]
       THEN Return(c, "unsupported")
       ELSE /\ version' = [version EXCEPT ![c] = Latest(Visible(c))]
            /\ pc' = [pc EXCEPT ![c] = "apply"]
            /\ UNCHANGED <<lock, seen, ddl, recorded, result>>
    /\ UNCHANGED <<installed, history>>

\* The version before the migration is recorded.
MutantRecordBefore(c) ==
    /\ pc[c] = "apply" /\ version[c] < Supports[c]
    /\ version[c] + 1 \notin installed
    /\ ddl' = [ddl EXCEPT ![c] = @ \cup {version[c] + 1}]
    /\ recorded' = [recorded EXCEPT ![c] = @ \cup {version[c]}]
    /\ version' = [version EXCEPT ![c] = @ + 1]
    /\ UNCHANGED <<installed, history, lock, pc, seen, result>>

\* The next migration is executed and recorded.
Migrate(c) ==
    /\ pc[c] = "apply" /\ version[c] < Supports[c]
    /\ version[c] + 1 \notin installed
    /\ ddl' = [ddl EXCEPT ![c] = @ \cup {version[c] + 1}]
    /\ recorded' = [recorded EXCEPT ![c] = @ \cup {version[c] + 1}]
    /\ version' = [version EXCEPT ![c] = @ + 1]
    /\ UNCHANGED <<installed, history, lock, pc, seen, result>>

\* CREATE TABLE finds the table.
MigrateConflicts(c) ==
    /\ pc[c] = "apply" /\ version[c] < Supports[c]
    /\ version[c] + 1 \in installed
    /\ Return(c, "conflict")
    /\ UNCHANGED <<installed, history>>

\* Commit; its reply may be lost.
Commit(c, res) ==
    /\ pc[c] = "apply" /\ version[c] >= Supports[c]
    /\ installed' = installed \cup ddl[c]
    /\ history' = history \cup recorded[c]
    /\ Return(c, res)

\* A statement fails, the context is cancelled, or the process dies.
RollBack(c) ==
    /\ pc[c] # "idle"
    /\ Return(c, "error")
    /\ UNCHANGED <<installed, history>>

Proceed(c) ==
    \/ GetLock(c) \/ ReadVersion(c) \/ Migrate(c) \/ MigrateConflicts(c)
    \/ \E res \in {"ok", "error"} : Commit(c, res)

Next == \E c \in Callers : ApplySchema(c) \/ Proceed(c) \/ RollBack(c)

Spec == Init /\ [][Next]_vars

(***************************************************************************)
(* A call goes on, and PostgreSQL serves the queue of a lock.              *)
(***************************************************************************)
FairSpec == Spec /\ \A c \in Callers : WF_vars(Proceed(c)) /\ SF_vars(GetLock(c))

-----------------------------------------------------------------------------

(***************************************************************************)
(* The history tells what the schema is: the versions recorded are the     *)
(* migrations installed, without a gap, whatever calls overlap or fail     *)
(* half-way (ApplySchema records each version in the same transaction).    *)
(***************************************************************************)
HistoryIsTrue ==
    history = installed /\ history = 1 .. Latest(history)

(***************************************************************************)
(* migrate.go: "safe to call concurrently and on every start".  No call at *)
(* READ COMMITTED, PostgreSQL's default, tries to install what another one *)
(* has installed, whatever level the others have.                          *)
(***************************************************************************)
ConcurrentCallsAreSafe ==
    \A c \in Callers : Isolation[c] = "read_committed" => result[c] # "conflict"

(***************************************************************************)
(* A call that succeeds leaves exactly the schema its library knows: at    *)
(* READ COMMITTED an older library never accepts a schema that a newer one *)
(* has upgraded before it got the lock (ErrUnsupportedSchema).             *)
(***************************************************************************)
SuccessIsExact ==
    [][\A c \in {d \in Callers : Isolation[d] = "read_committed"} :
          result'[c] = "ok" /\ result[c] # "ok" => installed' = 1 .. Supports[c]]_vars

(***************************************************************************)
(* Every call returns: none is left waiting for the lock.                  *)
(***************************************************************************)
EveryCallReturns == \A c \in Callers : pc[c] # "idle" ~> pc[c] = "idle"
=============================================================================
