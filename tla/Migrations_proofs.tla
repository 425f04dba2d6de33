------------------------- MODULE Migrations_proofs -------------------------
(***************************************************************************)
(* Proofs about the migrations at startup, for any number of processes and *)
(* server sessions and any releases that only append migrations: each      *)
(* migration is applied once, in order, and recorded exactly when it is    *)
(* committed, although clients are killed and sessions execute late what   *)
(* they were sent.  All of it rests on who holds the advisory lock.        *)
(***************************************************************************)
EXTENDS Migrations, TLAPS

USE NoConnAssumption, FilesAssumption

Holding  == Migrating \ {"lock"}
Applying == {"apply", "record", "commit"}
Looping  == {"check", "unlock"} \cup Applying

\* A connection belongs to one process and its session serves it.
ConnsSound ==
    /\ \A p \in Processes : /\ conn[p] # NoConn => backend[conn[p]] = "serving"
                            /\ pc[p] \in Migrating => conn[p] # NoConn
                            /\ pc[p] = "down" => conn[p] = NoConn
    /\ \A p, q \in Processes : p # q /\ conn[p] # NoConn => conn[p] # conn[q]

\* Only the session that holds the lock has a transaction, or a COMMIT to execute.
SessionsSound ==
    /\ lockHolder # NoConn => backend[lockHolder] # "free"
    /\ \A c \in Conns :
          /\ backend[c] # "lost" => sent[c] = "none"
          /\ lockHolder # c => txTables[c] = {} /\ txRecords[c] = {} /\ sent[c] # "commit"

\* From the answer of the lock on, a startup holds it.
LockSound == \A p \in Processes : pc[p] \in Holding => lockHolder = conn[p]

\* The transaction of a client holds what it sent since BeginTx.
TxSound ==
    \A p \in Processes : conn[p] # NoConn =>
        /\ pc[p] \in {"record", "commit"} => txTables[conn[p]] = {item[p]}
        /\ pc[p] \notin {"record", "commit"} => txTables[conn[p]] = {}
        /\ pc[p] = "commit" => txRecords[conn[p]] = {item[p]}
        /\ pc[p] # "commit" => txRecords[conn[p]] = {}

\* v is the next migration of the schema.
Due(v) == /\ v \in Versions \ tables
          /\ \A w \in Versions : w < v => w \in tables

\* What the loop over the files has dealt with is in the schema.
LoopSound ==
    \A p \in Processes :
        /\ pc[p] \in Applying => Due(item[p])
        /\ pc[p] \in Looping =>
              /\ ledger
              /\ todo[p] \subseteq Files[p]
              /\ \A v \in Files[p] \ todo[p] :
                    v \in tables \/ (pc[p] \in Applying /\ v = item[p])
        /\ pc[p] = "unlock" => todo[p] = {}
        /\ pc[p] = "serving" => Files[p] \subseteq tables

\* A COMMIT that a lost session may still execute is as good as any.
LostSound ==
    \A c \in Conns : sent[c] = "commit" =>
        ledger /\ \E v \in Versions : Due(v) /\ txTables[c] = {v} /\ txRecords[c] = {v}

IInv == /\ MigTypeOK /\ ConnsSound /\ SessionsSound /\ LockSound
        /\ TxSound /\ LoopSound /\ LostSound /\ LedgerExact
-----------------------------------------------------------------------------
\* A startup takes a free session, which holds no lock and no transaction.
LEMMA BeginStep ==
    ASSUME IInv, NEW p \in Processes, Begin(p)
    PROVE  IInv'
<1> USE DEF IInv, MigTypeOK, Migrating, ConnsSound, Begin, To, schemaVars
<1>1. MigTypeOK'
    OBVIOUS
<1>2. ConnsSound'
    OBVIOUS
<1>3. SessionsSound'
    BY DEF SessionsSound
<1>4. LockSound'
    BY DEF LockSound, Holding
<1>5. TxSound'
    BY DEF TxSound, SessionsSound
<1>6. LoopSound'
    BY DEF LoopSound, Looping, Applying, Due
<1>7. LostSound'
    BY DEF LostSound, Due
<1>8. LedgerExact'
    BY DEF LedgerExact
<1> QED BY <1>1, <1>2, <1>3, <1>4, <1>5, <1>6, <1>7, <1>8

\* The lock is granted to one session when no other holds it.
LEMMA LockStep ==
    ASSUME IInv, NEW p \in Processes, Lock(p)
    PROVE  IInv'
<1> USE DEF IInv, MigTypeOK, Migrating, ConnsSound, Lock, To, schemaVars
<1>1. MigTypeOK'
    OBVIOUS
<1>2. ConnsSound'
    OBVIOUS
<1>3. SessionsSound'
    BY DEF SessionsSound
<1>4. LockSound'
    BY DEF LockSound, Holding
<1>5. TxSound'
    BY DEF TxSound
<1>6. LoopSound'
    BY DEF LoopSound, Looping, Applying, LockSound, Holding
<1>7. LostSound'
    BY DEF LostSound, SessionsSound
<1>8. LedgerExact'
    BY DEF LedgerExact
<1> QED BY <1>1, <1>2, <1>3, <1>4, <1>5, <1>6, <1>7, <1>8

\* The holder of the lock creates the ledger and starts its loop.
LEMMA CreateLedgerStep ==
    ASSUME IInv, NEW p \in Processes, CreateLedger(p)
    PROVE  IInv'
<1> USE DEF IInv, MigTypeOK, Migrating, ConnsSound, CreateLedger, To, serverVars, Versions
<1>1. MigTypeOK'
    OBVIOUS
<1>2. ConnsSound'
    OBVIOUS
<1>3. SessionsSound'
    BY DEF SessionsSound
<1>4. LockSound'
    BY DEF LockSound, Holding
<1>5. TxSound'
    BY DEF TxSound
<1>6. LoopSound'
    BY DEF LoopSound, Applying, LockSound, Holding
<1>7. LostSound'
    BY DEF LostSound, LockSound, Holding, SessionsSound
<1>8. LedgerExact'
    BY DEF LedgerExact
<1> QED BY <1>1, <1>2, <1>3, <1>4, <1>5, <1>6, <1>7, <1>8

\* The lowest version left is next, because older releases have all lower ones.
LEMMA CheckStep ==
    ASSUME IInv, NEW p \in Processes, Check(p)
    PROVE  IInv'
<1> USE DEF IInv, MigTypeOK, Migrating, ConnsSound, Check, To, Continue, serverVars, schemaVars
<1>1. MigTypeOK'
    OBVIOUS
<1>2. ConnsSound'
    OBVIOUS
<1>3. SessionsSound'
    BY DEF SessionsSound
<1>4. LockSound'
    BY DEF LockSound, Holding
<1>5. TxSound'
    BY DEF TxSound
<1>6. LoopSound'
  <2>1. PICK v \in todo[p] :
            /\ \A w \in todo[p] : v <= w
            /\ todo' = [todo EXCEPT ![p] = @ \ {v}]
            /\ item' = [item EXCEPT ![p] = v]
            /\ IF v \in records THEN Continue(p, todo[p] \ {v}) ELSE To(p, "apply")
      BY DEF Check
  <2>2. /\ ledger /\ todo[p] \subseteq Files[p]
        /\ \A w \in Files[p] \ todo[p] : w \in tables
      BY DEF LoopSound, Looping, Applying
  <2>3. ASSUME v \notin records
        PROVE  Due(v)
    <3>1. v \in Versions \ tables
        BY <2>2, <2>3 DEF LedgerExact
    <3>2. ASSUME NEW w \in Versions, w < v
          PROVE  w \in tables
      <4>1. PICK q \in Processes : w \in Files[q]
          BY DEF Versions
      <4>2. w \in Files[p]
          BY <2>2, <3>2, <4>1, AppendAssumption
      <4>3. v \in Nat /\ w \in Nat
          BY <2>2, <4>1
      <4>4. w \notin todo[p]
          BY <2>1, <3>2, <4>3
      <4> QED BY <2>2, <4>2, <4>4
    <3> QED BY <3>1, <3>2 DEF Due
  <2>4. ASSUME NEW q \in Processes
        PROVE  /\ (pc[q] \in Applying => Due(item[q]))'
               /\ (pc[q] \in Looping =>
                      /\ ledger
                      /\ todo[q] \subseteq Files[q]
                      /\ \A w \in Files[q] \ todo[q] :
                            w \in tables \/ (pc[q] \in Applying /\ w = item[q]))'
               /\ (pc[q] = "unlock" => todo[q] = {})'
               /\ (pc[q] = "serving" => Files[q] \subseteq tables)'
    <3>1. CASE q # p
        BY <2>1, <3>1 DEF LoopSound, Due
    <3>2. CASE q = p
        BY <2>1, <2>2, <2>3, <3>2 DEF Applying, Due, LedgerExact
    <3> QED BY <3>1, <3>2
  <2> QED BY <2>4 DEF LoopSound
<1>7. LostSound'
    BY DEF LostSound, LockSound, Holding, SessionsSound
<1>8. LedgerExact'
    BY DEF LedgerExact
<1> QED BY <1>1, <1>2, <1>3, <1>4, <1>5, <1>6, <1>7, <1>8

\* The SQL of a migration runs in the transaction of the holder.
LEMMA ApplyStep ==
    ASSUME IInv, NEW p \in Processes, Apply(p)
    PROVE  IInv'
<1> USE DEF IInv, MigTypeOK, Migrating, ConnsSound, Apply, To, schemaVars
<1>1. MigTypeOK'
    BY DEF LoopSound, Applying, Due
<1>2. ConnsSound'
    OBVIOUS
<1>3. SessionsSound'
    BY DEF SessionsSound, LockSound, Holding
<1>4. LockSound'
    BY DEF LockSound, Holding
<1>5. TxSound'
    BY DEF TxSound
<1>6. LoopSound'
    BY DEF LoopSound, Looping, Applying, Due
<1>7. LostSound'
    BY DEF LostSound, LockSound, Holding, SessionsSound
<1>8. LedgerExact'
    BY DEF LedgerExact
<1> QED BY <1>1, <1>2, <1>3, <1>4, <1>5, <1>6, <1>7, <1>8

\* The record joins the SQL in the same transaction.
LEMMA RecordStep ==
    ASSUME IInv, NEW p \in Processes, Record(p)
    PROVE  IInv'
<1> USE DEF IInv, MigTypeOK, Migrating, ConnsSound, Record, To, schemaVars
<1>1. MigTypeOK'
    BY DEF LoopSound, Applying, Due
<1>2. ConnsSound'
    OBVIOUS
<1>3. SessionsSound'
    BY DEF SessionsSound, LockSound, Holding
<1>4. LockSound'
    BY DEF LockSound, Holding
<1>5. TxSound'
    BY DEF TxSound
<1>6. LoopSound'
    BY DEF LoopSound, Looping, Applying, Due
<1>7. LostSound'
    BY DEF LostSound, LockSound, Holding, SessionsSound
<1>8. LedgerExact'
    BY DEF LedgerExact
<1> QED BY <1>1, <1>2, <1>3, <1>4, <1>5, <1>6, <1>7, <1>8

\* A COMMIT makes the next migration and its record permanent at once.
LEMMA CommitStep ==
    ASSUME IInv, NEW p \in Processes, Commit(p)
    PROVE  IInv'
<1> USE DEF IInv, MigTypeOK, Migrating, ConnsSound, Commit, CommitTx, To, Continue
<1>1. MigTypeOK'
    OBVIOUS
<1>2. ConnsSound'
    OBVIOUS
<1>3. SessionsSound'
    BY DEF SessionsSound
<1>4. LockSound'
    BY DEF LockSound, Holding
<1>5. TxSound'
    BY DEF TxSound
<1>6. LoopSound'
    BY DEF LoopSound, Looping, Applying, LockSound, Holding, TxSound
<1>7. LostSound'
    BY DEF LostSound, LockSound, Holding, SessionsSound
<1>8. LedgerExact'
    BY DEF LedgerExact, TxSound, LoopSound, Looping, Applying
<1> QED BY <1>1, <1>2, <1>3, <1>4, <1>5, <1>6, <1>7, <1>8

\* A client that dies leaves behind a session that is still good for its statement.
LEMMA GiveUpStep ==
    ASSUME IInv, NEW p \in Processes, GiveUp(p)
    PROVE  IInv'
<1> USE DEF IInv, MigTypeOK, Migrating, ConnsSound, GiveUp, Lose, To, schemaVars
<1>1. MigTypeOK'
    OBVIOUS
<1>2. ConnsSound'
    OBVIOUS
<1>3. SessionsSound'
    BY DEF SessionsSound, LockSound, Holding
<1>4. LockSound'
    BY DEF LockSound, Holding
<1>5. TxSound'
    BY DEF TxSound
<1>6. LoopSound'
    BY DEF LoopSound, Looping, Applying, Due
<1>7. LostSound'
    BY DEF LostSound, Due, TxSound, LoopSound, Looping, Applying
<1>8. LedgerExact'
    BY DEF LedgerExact
<1> QED BY <1>1, <1>2, <1>3, <1>4, <1>5, <1>6, <1>7, <1>8

\* The lock is released when the loop is over.
LEMMA UnlockStep ==
    ASSUME IInv, NEW p \in Processes, Unlock(p)
    PROVE  IInv'
<1> USE DEF IInv, MigTypeOK, Migrating, ConnsSound, Unlock, To, schemaVars
<1>1. MigTypeOK'
    OBVIOUS
<1>2. ConnsSound'
    OBVIOUS
<1>3. SessionsSound'
    BY DEF SessionsSound, LockSound, Holding, TxSound
<1>4. LockSound'
    BY DEF LockSound, Holding
<1>5. TxSound'
    BY DEF TxSound
<1>6. LoopSound'
    BY DEF LoopSound, Looping, Applying, LockSound, Holding
<1>7. LostSound'
    BY DEF LostSound, LockSound, Holding, SessionsSound
<1>8. LedgerExact'
    BY DEF LedgerExact
<1> QED BY <1>1, <1>2, <1>3, <1>4, <1>5, <1>6, <1>7, <1>8

\* A failed release leaves the lock with a session, and nothing else.
LEMMA UnlockFailsStep ==
    ASSUME IInv, NEW p \in Processes, UnlockFails(p)
    PROVE  IInv'
<1> USE DEF IInv, MigTypeOK, Migrating, ConnsSound, UnlockFails, Lose, To, schemaVars, serverVars
<1>1. MigTypeOK'
    BY DEF TxSound
<1>2. ConnsSound'
    OBVIOUS
<1>3. SessionsSound'
    BY DEF SessionsSound
<1>4. LockSound'
    BY DEF LockSound, Holding
<1>5. TxSound'
    BY DEF TxSound
<1>6. LoopSound'
    BY DEF LoopSound, Looping, Applying, LockSound, Holding
<1>7. LostSound'
    BY DEF LostSound, LockSound, Holding, SessionsSound
<1>8. LedgerExact'
    BY DEF LedgerExact
<1> QED BY <1>1, <1>2, <1>3, <1>4, <1>5, <1>6, <1>7, <1>8

\* A process that ends leaves nothing but its session.
LEMMA EndStep ==
    ASSUME IInv, NEW p \in Processes, End(p)
    PROVE  IInv'
<1> USE DEF IInv, MigTypeOK, Migrating, ConnsSound, End, Lose, To, schemaVars, serverVars
<1>1. MigTypeOK'
    OBVIOUS
<1>2. ConnsSound'
    OBVIOUS
<1>3. SessionsSound'
    BY DEF SessionsSound
<1>4. LockSound'
    BY DEF LockSound, Holding
<1>5. TxSound'
    BY DEF TxSound
<1>6. LoopSound'
    BY DEF LoopSound, Looping, Applying, Due
<1>7. LostSound'
    BY DEF LostSound, Due
<1>8. LedgerExact'
    BY DEF LedgerExact
<1> QED BY <1>1, <1>2, <1>3, <1>4, <1>5, <1>6, <1>7, <1>8

\* A lost session that executes its COMMIT held the lock all the time.
LEMMA LostRunsStep ==
    ASSUME IInv, NEW c \in Conns, LostRuns(c)
    PROVE  IInv'
<1> USE DEF IInv, MigTypeOK, Migrating, ConnsSound, LostRuns, CommitTx, clientVars, schemaVars
<1>1. MigTypeOK'
    BY DEF TxSound, LoopSound, LostSound, LedgerExact, Looping, Applying, Due
<1>2. ConnsSound'
    OBVIOUS
<1>3. SessionsSound'
    BY DEF SessionsSound
<1>4. LockSound'
    BY DEF LockSound, Holding
<1>5. TxSound'
    BY DEF TxSound
<1>6. LoopSound'
    BY DEF LoopSound, Applying, Due, LockSound, Holding, SessionsSound
<1>7. LostSound'
    BY DEF LostSound, Due, SessionsSound
<1>8. LedgerExact'
  <2>1. CASE sent[c] = "commit"
    <3>1. PICK v \in Versions : txTables[c] = {v} /\ txRecords[c] = {v} /\ ledger
        BY <2>1 DEF LostSound
    <3> QED BY <2>1, <3>1 DEF LedgerExact
  <2>2. CASE sent[c] # "commit"
      BY <2>2 DEF LedgerExact
  <2> QED BY <2>1, <2>2
<1> QED BY <1>1, <1>2, <1>3, <1>4, <1>5, <1>6, <1>7, <1>8

\* A session that ends takes its transaction and its lock with it.
LEMMA LostEndsStep ==
    ASSUME IInv, NEW c \in Conns, LostEnds(c)
    PROVE  IInv'
<1> USE DEF IInv, MigTypeOK, Migrating, ConnsSound, LostEnds, clientVars, schemaVars
<1>1. MigTypeOK'
    OBVIOUS
<1>2. ConnsSound'
    OBVIOUS
<1>3. SessionsSound'
    BY DEF SessionsSound
<1>4. LockSound'
    BY DEF LockSound
<1>5. TxSound'
    BY DEF TxSound
<1>6. LoopSound'
    BY DEF LoopSound, Due
<1>7. LostSound'
    BY DEF LostSound, Due
<1>8. LedgerExact'
    BY DEF LedgerExact
<1> QED BY <1>1, <1>2, <1>3, <1>4, <1>5, <1>6, <1>7, <1>8

\* A restart of PostgreSQL ends every session, and every startup fails.
LEMMA RestartStep ==
    ASSUME IInv, ServerRestarts
    PROVE  IInv'
<1> USE DEF IInv, MigTypeOK, Migrating, ServerRestarts, schemaVars
<1>1. MigTypeOK'
    OBVIOUS
<1>2. ConnsSound' /\ SessionsSound' /\ LockSound' /\ TxSound' /\ LostSound'
    BY DEF ConnsSound, SessionsSound, LockSound, Holding, TxSound, LostSound
<1>3. LoopSound' /\ LedgerExact'
    BY DEF LoopSound, Looping, Applying, LedgerExact
<1> QED BY <1>1, <1>2, <1>3

LEMMA StutterStep == IInv /\ UNCHANGED migVars => IInv'
  BY DEF migVars, clientVars, serverVars, schemaVars, IInv, MigTypeOK, ConnsSound,
         SessionsSound, LockSound, TxSound, LoopSound, Due, LostSound, LedgerExact

LEMMA InvStep == IInv /\ [MigNext]_migVars => IInv'
  BY BeginStep, LockStep, CreateLedgerStep, CheckStep, ApplyStep, RecordStep, CommitStep,
     GiveUpStep, UnlockStep, UnlockFailsStep, EndStep, LostRunsStep, LostEndsStep,
     RestartStep, StutterStep
     DEF MigNext, Statement

LEMMA InvInit == MigInit => IInv
<1> SUFFICES ASSUME MigInit
             PROVE  IInv
    OBVIOUS
<1> USE DEF MigInit
<1>1. MigTypeOK
    BY DEF MigTypeOK, Migrating
<1>2. ConnsSound /\ SessionsSound /\ LockSound /\ TxSound
    BY DEF ConnsSound, SessionsSound, LockSound, Holding, TxSound, Migrating
<1>3. LoopSound /\ LostSound /\ LedgerExact
    BY DEF LoopSound, Looping, Applying, LostSound, LedgerExact
<1> QED BY <1>1, <1>2, <1>3 DEF IInv

\* The inductive invariant of migrations.
THEOREM Invariant == MigSpec => []IInv
  BY InvInit, InvStep, PTL DEF MigSpec

\* Types of the clients, the server sessions and the schema.
THEOREM TypeCorrect == MigSpec => []MigTypeOK
  BY Invariant, PTL DEF IInv

\* A migration is recorded exactly when its SQL is committed, whoever dies when.
THEOREM LedgerCorrect == MigSpec => []LedgerExact
  BY Invariant, PTL DEF IInv

\* No startup runs the SQL of a migration another one has applied since its check.
THEOREM AppliedOnce == MigSpec => []NeverAppliedTwice
<1>1. IInv => NeverAppliedTwice
    BY DEF IInv, LoopSound, Applying, Due, NeverAppliedTwice
<1> QED BY <1>1, Invariant, PTL

-----------------------------------------------------------------------------
\* A COMMIT, in time or late, is one step of the abstract history: the next migration.
LEMMA CommitImplements ==
    ASSUME IInv, NEW c \in Conns, NEW v \in Versions, Due(v), txTables[c] = {v}, CommitTx(c),
           {p \in Processes : pc[p] = "serving"}' = {p \in Processes : pc[p] = "serving"}
    PROVE  SH!SHNext
<1>1. PICK p \in Processes : v \in Files[p]
    BY DEF Versions
<1>2. tables' = tables \cup {v}
    BY DEF CommitTx
<1>3. \A q \in Processes : \A w \in Files[q] : w < v => w \in tables
    BY DEF Due, Versions
<1>4. SH!ApplyNext(v)
    BY <1>2, <1>3 DEF SH!ApplyNext, Due
<1> QED BY <1>1, <1>4 DEF SH!SHNext

\* Steps that neither touch the schema nor begin or end the serving of a process.
LEMMA Invisible ==
    ASSUME UNCHANGED tables,
           \A p \in Processes : pc'[p] = "serving" <=> pc[p] = "serving"
    PROVE  UNCHANGED SH!shVars
  BY DEF SH!shVars

\* Whatever dies or runs late, startups apply migrations as SchemaHistory promises.
THEOREM SchemaHistoryCorrect == MigSpec => SchemaHistoryImplemented
<1>1. MigInit => SH!SHInit
    BY DEF MigInit, SH!SHInit
<1>2. ASSUME IInv, [MigNext]_migVars
      PROVE  [SH!SHNext]_(SH!shVars)
  <2>0. pc \in [Processes -> Migrating \cup {"down", "serving"}]
      BY <1>2 DEF IInv, MigTypeOK
  <2> USE DEF To, schemaVars
  <2>1. ASSUME NEW p \in Processes,
               \/ Begin(p) \/ Lock(p) \/ CreateLedger(p) \/ Check(p) \/ Apply(p) \/ Record(p)
               \/ GiveUp(p)
        PROVE  UNCHANGED SH!shVars
    <3>1. UNCHANGED tables
        BY <2>1 DEF Begin, Lock, CreateLedger, Check, Apply, Record, GiveUp
    <3>2. pc[p] # "serving" /\ \E l \in Migrating \cup {"down"} : pc' = [pc EXCEPT ![p] = l]
        BY <2>1 DEF Begin, Lock, CreateLedger, Check, Continue, Apply, Record, GiveUp, Migrating
    <3>3. "serving" \notin Migrating \cup {"down"}
        BY DEF Migrating
    <3> QED BY <2>0, <3>1, <3>2, <3>3, Invisible
  <2>2. ASSUME NEW p \in Processes, Commit(p)
        PROVE  SH!SHNext
    <3>1. conn[p] \in Conns /\ Due(item[p]) /\ txTables[conn[p]] = {item[p]}
        BY <1>2, <2>2 DEF Commit, IInv, MigTypeOK, ConnsSound, Migrating, LoopSound, Applying, TxSound
    <3>2. {q \in Processes : pc[q] = "serving"}' = {q \in Processes : pc[q] = "serving"}
        BY <2>0, <2>2 DEF Commit, Continue
    <3>3. item[p] \in Versions
        BY <3>1 DEF Due
    <3> QED BY <1>2, <2>2, <3>1, <3>2, <3>3, CommitImplements DEF Commit
  <2>3. ASSUME NEW p \in Processes, Unlock(p) \/ UnlockFails(p)
        PROVE  SH!SHNext
    <3>1. Files[p] \subseteq tables
        BY <1>2, <2>3 DEF Unlock, UnlockFails, IInv, LoopSound, Looping, Applying
    <3>2. UNCHANGED tables /\ pc' = [pc EXCEPT ![p] = "serving"]
        BY <2>3 DEF Unlock, UnlockFails
    <3>3. SH!Serve(p)
        BY <2>0, <3>1, <3>2 DEF SH!Serve
    <3> QED BY <3>3 DEF SH!SHNext
  <2>4. ASSUME NEW p \in Processes, End(p)
        PROVE  SH!SHNext
    <3>1. SH!Leave(p)
        BY <2>0, <2>4 DEF End, SH!Leave
    <3> QED BY <3>1 DEF SH!SHNext
  <2>5. ASSUME NEW c \in Conns, LostRuns(c)
        PROVE  [SH!SHNext]_(SH!shVars)
    <3>1. CASE sent[c] = "commit"
      <4>1. PICK v \in Versions : Due(v) /\ txTables[c] = {v}
          BY <1>2, <3>1 DEF IInv, LostSound
      <4>2. CommitTx(c) /\ UNCHANGED pc
          BY <2>5, <3>1 DEF LostRuns, clientVars
      <4> QED BY <1>2, <4>1, <4>2, CommitImplements
    <3>2. CASE sent[c] # "commit"
        BY <2>5, <3>2, Invisible DEF LostRuns, clientVars
    <3> QED BY <3>1, <3>2
  <2>6. CASE (\E c \in Conns : LostEnds(c)) \/ ServerRestarts \/ UNCHANGED migVars
      BY <2>6, Invisible DEF LostEnds, ServerRestarts, Migrating, migVars, clientVars
  <2> QED BY <1>2, <2>1, <2>2, <2>3, <2>4, <2>5, <2>6 DEF MigNext, Statement
<1>3. IInv /\ [MigNext]_migVars => [SH!SHNext]_(SH!shVars)
    BY <1>2
<1> QED BY <1>1, <1>3, Invariant, PTL DEF MigSpec, SchemaHistoryImplemented, SH!SHSpec

=============================================================================
