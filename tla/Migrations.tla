----------------------------- MODULE Migrations -----------------------------
(***************************************************************************)
(* Schema migrations at startup (internal/database/postgres/migrations.go).*)
(* Every process migrates the shared database before it serves commands,   *)
(* on one reserved connection, under a PostgreSQL advisory lock.  A client *)
(* may be killed or lose its connection at any statement; the server       *)
(* session of that connection then lives on for a while, may still execute *)
(* the statement it was sent, keeps its lock, and finally ends with its    *)
(* transaction rolled back.                                                *)
(***************************************************************************)
EXTENDS Naturals

CONSTANTS
    Processes,
    Files,      \* Files[p]: versions of the migrations embedded in the binary of p
    Conns,      \* server sessions
    NoConn

ASSUME NoConnAssumption == NoConn \notin Conns
ASSUME FilesAssumption == /\ Files \in [Processes -> SUBSET (Nat \ {0})]
                          /\ \A p \in Processes : Files[p] # {}

\* Releases only append migrations: an older binary has the lower versions.
ASSUME AppendAssumption ==
    \A p, q \in Processes : \A v \in Files[p], w \in Files[q] : w < v => w \in Files[p]

VARIABLES
    pc,         \* the statement each process is about to send
    conn,       \* its reserved connection
    todo,       \* versions its loop has not come to
    item,       \* the version it is applying
    backend,    \* server sessions: free, serving a client, or lost by it
    sent,       \* the statement a lost session may still execute
    lockHolder, \* the session that holds the advisory lock
    txTables,   \* versions whose SQL ran in the open transaction of a session
    txRecords,  \* versions recorded in it
    ledger,     \* the table schema_migrations exists
    tables,     \* versions whose SQL is committed
    records     \* versions recorded in schema_migrations

clientVars == <<pc, conn, todo, item>>
serverVars == <<backend, sent, lockHolder, txTables, txRecords>>
schemaVars == <<ledger, tables, records>>
migVars    == <<clientVars, serverVars, schemaVars>>

Versions == UNION {Files[p] : p \in Processes}

MigInit == /\ pc = [p \in Processes |-> "down"]
           /\ conn = [p \in Processes |-> NoConn]
           /\ todo = [p \in Processes |-> {}]
           /\ item = [p \in Processes |-> 0]
           /\ backend = [c \in Conns |-> "free"]
           /\ sent = [c \in Conns |-> "none"]
           /\ lockHolder = NoConn
           /\ txTables = [c \in Conns |-> {}]
           /\ txRecords = [c \in Conns |-> {}]
           /\ ledger = FALSE
           /\ tables = {}
           /\ records = {}

Migrating == {"lock", "schema", "check", "apply", "record", "commit", "unlock"}

To(p, label) == pc' = [pc EXCEPT ![p] = label]

\* db.Conn reserves a connection.
Begin(p) ==
    /\ pc[p] = "down"
    /\ \E c \in Conns : /\ backend[c] = "free"
                        /\ backend' = [backend EXCEPT ![c] = "serving"]
                        /\ conn' = [conn EXCEPT ![p] = c]
    /\ To(p, "lock")
    /\ UNCHANGED <<todo, item, sent, lockHolder, txTables, txRecords, schemaVars>>

\* Mutant: the answer of the lock is not waited for.
LockAnyway(p) ==
    /\ pc[p] = "lock"
    /\ lockHolder' = IF lockHolder = NoConn THEN conn[p] ELSE lockHolder
    /\ To(p, "schema")
    /\ UNCHANGED <<conn, todo, item, backend, sent, txTables, txRecords, schemaVars>>

\* SELECT pg_advisory_lock returns when the lock is free.
Lock(p) ==
    /\ pc[p] = "lock"
    /\ lockHolder = NoConn
    /\ lockHolder' = conn[p]
    /\ To(p, "schema")
    /\ UNCHANGED <<conn, todo, item, backend, sent, txTables, txRecords, schemaVars>>

\* CREATE TABLE IF NOT EXISTS schema_migrations, then the loop over the files starts.
CreateLedger(p) ==
    /\ pc[p] = "schema"
    /\ ledger' = TRUE
    /\ todo' = [todo EXCEPT ![p] = Files[p]]
    /\ To(p, "check")
    /\ UNCHANGED <<conn, item, serverVars, tables, records>>

\* The loop goes on with the versions in rest, or is over.
Continue(p, rest) == To(p, IF rest = {} THEN "unlock" ELSE "check")

\* Mutant: the files are not sorted by version.
CheckUnsorted(p) ==
    /\ pc[p] = "check"
    /\ \E v \in todo[p] :
          /\ todo' = [todo EXCEPT ![p] = @ \ {v}]
          /\ item' = [item EXCEPT ![p] = v]
          /\ IF v \in records THEN Continue(p, todo[p] \ {v}) ELSE To(p, "apply")
    /\ UNCHANGED <<conn, serverVars, schemaVars>>

\* SELECT EXISTS for the lowest version left: it is skipped, or applied next.
Check(p) ==
    /\ pc[p] = "check"
    /\ \E v \in todo[p] :
          /\ \A w \in todo[p] : v <= w
          /\ todo' = [todo EXCEPT ![p] = @ \ {v}]
          /\ item' = [item EXCEPT ![p] = v]
          /\ IF v \in records THEN Continue(p, todo[p] \ {v}) ELSE To(p, "apply")
    /\ UNCHANGED <<conn, serverVars, schemaVars>>

\* Mutant: the SQL is sent outside the transaction.
ApplyOutside(p) ==
    /\ pc[p] = "apply"
    /\ item[p] \notin tables
    /\ tables' = tables \cup {item[p]}
    /\ To(p, "record")
    /\ UNCHANGED <<conn, todo, item, serverVars, ledger, records>>

\* Mutant: a migration that fails is rolled back and tried again.
ApplyRetrying(p) ==
    /\ pc[p] = "apply"
    /\ \/ /\ txTables' = [txTables EXCEPT ![conn[p]] = @ \cup {item[p]}]
          /\ To(p, "record")
          /\ UNCHANGED todo
       \/ /\ todo' = [todo EXCEPT ![p] = @ \cup {item[p]}]
          /\ To(p, "check")
          /\ UNCHANGED txTables
    /\ UNCHANGED <<conn, item, backend, sent, lockHolder, txRecords, schemaVars>>

\* BeginTx and the SQL of the migration; PostgreSQL refuses it when it was run before.
Apply(p) ==
    /\ pc[p] = "apply"
    /\ item[p] \notin tables
    /\ txTables' = [txTables EXCEPT ![conn[p]] = @ \cup {item[p]}]
    /\ To(p, "record")
    /\ UNCHANGED <<conn, todo, item, backend, sent, lockHolder, txRecords, schemaVars>>

\* INSERT INTO schema_migrations, whose primary key is the version.
Record(p) ==
    /\ pc[p] = "record"
    /\ item[p] \notin records
    /\ txRecords' = [txRecords EXCEPT ![conn[p]] = @ \cup {item[p]}]
    /\ To(p, "commit")
    /\ UNCHANGED <<conn, todo, item, backend, sent, lockHolder, txTables, schemaVars>>

\* The server makes the transaction of session c permanent.
CommitTx(c) == /\ tables' = tables \cup txTables[c]
               /\ records' = records \cup txRecords[c]
               /\ txTables' = [txTables EXCEPT ![c] = {}]
               /\ txRecords' = [txRecords EXCEPT ![c] = {}]

Commit(p) ==
    /\ pc[p] = "commit"
    /\ CommitTx(conn[p])
    /\ Continue(p, todo[p])
    /\ UNCHANGED <<conn, todo, item, backend, sent, lockHolder, ledger>>

\* The connection of p is gone; the server may not have noticed yet, and may
\* have been sent statement s.
Lose(p, s) == /\ backend' = [backend EXCEPT ![conn[p]] = "lost"]
              /\ sent' = [sent EXCEPT ![conn[p]] = s]
              /\ conn' = [conn EXCEPT ![p] = NoConn]
              /\ UNCHANGED <<lockHolder, txTables, txRecords>>

(***************************************************************************)
(* A statement fails, the context is cancelled, or the process is killed.  *)
(* Migrate gives up: its deferred calls roll back and unlock, run returns  *)
(* the error and the process exits.  All of that ends the server session,  *)
(* at once or when the server notices; a statement sent before may run.    *)
(***************************************************************************)
GiveUp(p) ==
    /\ pc[p] \in Migrating
    /\ To(p, "down")
    /\ Lose(p, pc[p])
    /\ UNCHANGED <<todo, item, schemaVars>>

\* SELECT pg_advisory_unlock; conn.Close returns the connection to the pool.
Unlock(p) ==
    /\ pc[p] = "unlock"
    /\ lockHolder' = NoConn
    /\ backend' = [backend EXCEPT ![conn[p]] = "free"]
    /\ conn' = [conn EXCEPT ![p] = NoConn]
    /\ To(p, "serving")
    /\ UNCHANGED <<todo, item, sent, txTables, txRecords, schemaVars>>

\* An error of the unlock is discarded: the process goes on without the
\* connection, or with a connection in its pool that still holds the lock.
UnlockFails(p) ==
    /\ pc[p] = "unlock"
    /\ To(p, "serving")
    /\ \/ Lose(p, "none")
       \/ UNCHANGED <<conn, serverVars>>
    /\ UNCHANGED <<todo, item, schemaVars>>

\* The process ends; the pool closes its connections.
End(p) ==
    /\ pc[p] = "serving"
    /\ To(p, "down")
    /\ IF conn[p] = NoConn THEN UNCHANGED <<conn, serverVars>> ELSE Lose(p, "none")
    /\ UNCHANGED <<todo, item, schemaVars>>

\* A lost session executes the statement it was sent.  What is not listed
\* has no effect that outlives the session.
LostRuns(c) ==
    /\ backend[c] = "lost"
    /\ \/ /\ sent[c] = "lock"
          /\ lockHolder = NoConn
          /\ lockHolder' = c
          /\ UNCHANGED <<txTables, txRecords, schemaVars>>
       \/ /\ sent[c] = "schema"
          /\ ledger' = TRUE
          /\ UNCHANGED <<lockHolder, txTables, txRecords, tables, records>>
       \/ /\ sent[c] = "commit"
          /\ CommitTx(c)
          /\ UNCHANGED <<lockHolder, ledger>>
    /\ sent' = [sent EXCEPT ![c] = "none"]
    /\ UNCHANGED <<clientVars, backend>>

\* A lost session ends: its transaction is rolled back, its lock released.
LostEnds(c) ==
    /\ backend[c] = "lost"
    /\ backend' = [backend EXCEPT ![c] = "free"]
    /\ sent' = [sent EXCEPT ![c] = "none"]
    /\ lockHolder' = IF lockHolder = c THEN NoConn ELSE lockHolder
    /\ txTables' = [txTables EXCEPT ![c] = {}]
    /\ txRecords' = [txRecords EXCEPT ![c] = {}]
    /\ UNCHANGED <<clientVars, schemaVars>>

\* PostgreSQL restarts: every session ends, every startup in progress fails.
ServerRestarts ==
    /\ pc' = [p \in Processes |-> IF pc[p] \in Migrating THEN "down" ELSE pc[p]]
    /\ conn' = [p \in Processes |-> NoConn]
    /\ backend' = [c \in Conns |-> "free"]
    /\ sent' = [c \in Conns |-> "none"]
    /\ lockHolder' = NoConn
    /\ txTables' = [c \in Conns |-> {}]
    /\ txRecords' = [c \in Conns |-> {}]
    /\ UNCHANGED <<todo, item, schemaVars>>

\* The next statement of a startup in progress, or its failure.
Statement(p) == \/ CreateLedger(p) \/ Check(p) \/ Apply(p) \/ Record(p) \/ Commit(p)
                \/ Unlock(p) \/ UnlockFails(p)
                \/ GiveUp(p)

MigNext == \/ \E p \in Processes : Begin(p) \/ Lock(p) \/ Statement(p) \/ End(p)
           \/ \E c \in Conns : LostRuns(c) \/ LostEnds(c)
           \/ ServerRestarts

MigSpec == MigInit /\ [][MigNext]_migVars

(***************************************************************************)
(* Fairness: a statement other than the lock returns or fails; PostgreSQL  *)
(* grants the advisory lock in the order of the requests, so a request     *)
(* does not wait for ever while the lock is freed again and again; and a   *)
(* session whose client is gone ends.                                      *)
(***************************************************************************)
MigFairness ==
    /\ \A p \in Processes : /\ SF_migVars(Lock(p))
                            /\ WF_migVars(pc[p] # "lock" /\ Statement(p))
    /\ \A c \in Conns : WF_migVars(LostEnds(c))

MigFairSpec == MigSpec /\ MigFairness
-----------------------------------------------------------------------------
\* Types of the clients, the server sessions and the schema.
MigTypeOK ==
    /\ pc \in [Processes -> Migrating \cup {"down", "serving"}]
    /\ conn \in [Processes -> Conns \cup {NoConn}]
    /\ todo \in [Processes -> SUBSET Versions]
    /\ item \in [Processes -> Versions \cup {0}]
    /\ backend \in [Conns -> {"free", "serving", "lost"}]
    /\ sent \in [Conns -> Migrating \cup {"none"}]
    /\ lockHolder \in Conns \cup {NoConn}
    /\ txTables \in [Conns -> SUBSET Versions]
    /\ txRecords \in [Conns -> SUBSET Versions]
    /\ ledger \in BOOLEAN
    /\ tables \subseteq Versions
    /\ records \subseteq Versions

(***************************************************************************)
(* A migration is recorded exactly when its SQL is committed, whichever    *)
(* process, connection or server died in between, and then the ledger      *)
(* exists.                                                                 *)
(***************************************************************************)
LedgerExact == tables = records /\ (records # {} => ledger)

(***************************************************************************)
(* No startup runs the SQL of a migration that another one, or a lost      *)
(* session that got its COMMIT late, has applied since the check.          *)
(***************************************************************************)
NeverAppliedTwice ==
    \A p \in Processes : pc[p] \in {"apply", "record", "commit"} => item[p] \notin tables

(***************************************************************************)
(* Startups apply migrations as SchemaHistory promises.                    *)
(***************************************************************************)
SH == INSTANCE SchemaHistory WITH schema <- tables,
                                  serving <- {p \in Processes : pc[p] = "serving"}

SchemaHistoryImplemented == SH!SHSpec

\* A serving process keeps a connection that still holds the lock.
LockKept == \E p \in Processes : pc[p] = "serving" /\ conn[p] # NoConn

(***************************************************************************)
(* Every startup ends: it comes to serve commands or fails, whatever other *)
(* startups do and however they die while they hold or await the lock.     *)
(* The exception is a lock kept because its release failed.                *)
(***************************************************************************)
StartupEnds ==
    \A p \in Processes : pc[p] \in Migrating ~> pc[p] \notin Migrating \/ LockKept
=============================================================================
