---------------------- MODULE LoginTransaction_proofs ----------------------
(***************************************************************************)
(* Proofs about the transactions of logins, for any number of logins and   *)
(* accounts: their types and locks, what "Previous login" may show, and    *)
(* that they have the effect LoginHistory promises.                        *)
(***************************************************************************)
EXTENDS LoginTransaction, TLAPS

USE OwnerAssumption, NoLoginAssumption DEF Statements

\* How far a login is decides what its transaction holds and what it has read.
Progress(a) ==
    /\ stmt[a] = "new" <=> at[a] = 0
    /\ at[a] <= now
    /\ a \in lost => stmt[a] \in Statements
    /\ stmt[a] \in {"insert", "commit"} <=> a \in updated
    /\ stmt[a] = "commit" <=> a \in inserted
    /\ a \in rows => stmt[a] = "done"
    /\ a \in reported => a \in rows

\* The time m may stand for the last login of account u: it is that of one of
\* the others, and logins among the first n of the log that are later than m
\* were overtaken by one with an older clock that overlapped them.
Explains(m, u, n, others, clock, log, start) ==
    /\ m = 0 \/ \E b \in others : Owner[b] = u /\ m = clock[b]
    /\ \A i \in 1 .. n : Owner[log[i]] = u =>
          \/ m >= clock[log[i]]
          \/ \E j \in i + 1 .. Len(log) :
                Owner[log[j]] = u /\ start[log[j]] < i /\ clock[log[j]] < clock[log[i]]

\* Logins that had committed when a began have older clocks.
ClocksOrdered(a) ==
    /\ began[a] <= Len(commits)
    /\ stmt[a] # "new" => \A i \in 1 .. began[a] : at[commits[i]] <= at[a]

\* What the table and the answers of FindByID say of the logins committed so far.
HistorySound ==
    /\ \A i \in 1 .. Len(commits) : commits[i] \in rows
    /\ \A a \in Logins : ClocksOrdered(a)
    /\ \A u \in Users : Explains(lastLogin[u], u, Len(commits), rows, at, commits, began)
    /\ \A a \in rows :
           Explains(shown[a], Owner[a], began[a], rows \ {a}, at, commits, began)
    /\ \A a \in Logins : stmt[a] \in {"update", "insert", "commit"} =>
           Explains(shown[a], Owner[a], began[a], rows, at, commits, began)

IInv == /\ LTTypeOK
        /\ now > 0
        /\ \A a \in Logins : Progress(a)
        /\ HistorySound
-----------------------------------------------------------------------------
TypesAndProgress == LTTypeOK /\ now > 0 /\ \A a \in Logins : Progress(a)

\* A transaction that ends, committed or not, gives up its writes and its lock.
LEMMA TxEnds ==
    ASSUME TypesAndProgress, NEW a \in Logins, stmt[a] \in Statements,
           EndTx(a), To(a, "done"), UNCHANGED <<now, at, shown, began>>,
           lost' = lost \ {a}, rows' = rows \/ rows' = rows \cup {a},
           reported' = reported \/ (reported' = reported \cup {a} /\ a \in rows'),
           lastLogin' \in [Users -> Nat], commits' \in Seq(Logins)
    PROVE  TypesAndProgress'
<1> USE DEF TypesAndProgress, LTTypeOK, EndTx, To
<1>1. /\ locked' \in [Users -> Logins \cup {NoLogin}]
      /\ updated' \subseteq Logins /\ inserted' \subseteq Logins
      /\ stmt' \in [Logins -> Statements \cup {"new", "done"}]
    OBVIOUS
<1>2. ASSUME NEW b \in Logins
      PROVE  /\ (locked[Owner[b]] = b <=> b \in updated)'
             /\ (b \in updated => stmt[b] \in {"insert", "commit"})'
    BY DEF Progress
<1>3. ASSUME NEW b \in Logins
      PROVE  Progress(b)'
  <2>1. CASE b = a
      BY <2>1 DEF Progress
  <2>2. CASE b # a
      BY <2>2 DEF Progress
  <2> QED BY <2>1, <2>2
<1>4. rows' \subseteq Logins /\ reported' \subseteq Logins /\ lost' \subseteq Logins
    OBVIOUS
<1> QED BY <1>1, <1>2, <1>3, <1>4

\* A COMMIT appends the login to the table and to the history.
LEMMA CommitWrites ==
    ASSUME TypesAndProgress, NEW a \in Logins, stmt[a] = "commit", CommitTx(a)
    PROVE  /\ rows' = rows \cup {a}
           /\ lastLogin' = [lastLogin EXCEPT ![Owner[a]] = at[a]]
           /\ lastLogin' \in [Users -> Nat]
           /\ commits' = Append(commits, a) /\ commits' \in Seq(Logins)
           /\ EndTx(a)
<1>1. a \in updated /\ a \in inserted
    BY DEF TypesAndProgress, Progress
<1> QED BY <1>1 DEF CommitTx, TypesAndProgress, LTTypeOK

\* An UPDATE that is executed takes the lock of a row nobody has.
LEMMA UpdateLocks ==
    ASSUME TypesAndProgress, NEW a \in Logins, stmt[a] = "update", Update(a), To(a, "insert"),
           UNCHANGED <<now, at, shown, lost, tableVars, reported, commits, began>>
    PROVE  TypesAndProgress'
<1> USE DEF TypesAndProgress, LTTypeOK, Update, To, tableVars
<1>1. ASSUME NEW b \in Logins
      PROVE  /\ (locked[Owner[b]] = b <=> b \in updated)'
             /\ (b \in updated => stmt[b] \in {"insert", "commit"})'
    BY DEF Progress
<1>2. ASSUME NEW b \in Logins
      PROVE  Progress(b)'
    BY DEF Progress
<1> QED BY <1>1, <1>2

\* The INSERT joins the transaction that holds the lock.
LEMMA InsertJoins ==
    ASSUME TypesAndProgress, NEW a \in Logins, stmt[a] = "insert", To(a, "commit"),
           inserted' = inserted \cup {a},
           UNCHANGED <<now, at, shown, updated, locked, lost, tableVars, reported, commits, began>>
    PROVE  TypesAndProgress'
<1> USE DEF TypesAndProgress, LTTypeOK, To, tableVars
<1>1. ASSUME NEW b \in Logins
      PROVE  /\ (locked[Owner[b]] = b <=> b \in updated)'
             /\ (b \in updated => stmt[b] \in {"insert", "commit"})'
    OBVIOUS
<1>2. ASSUME NEW b \in Logins
      PROVE  Progress(b)'
    BY DEF Progress
<1> QED BY <1>1, <1>2

\* A statement of login a, its failure, and what PostgreSQL does for a lost session.
LEMMA ProgressStep ==
    ASSUME TypesAndProgress, [LTNext]_ltVars
    PROVE  TypesAndProgress'
<1> USE DEF txVars, tableVars
<1>1. CASE LTTick
    BY <1>1 DEF LTTick, Advance, TypesAndProgress, LTTypeOK, Progress
<1>2. ASSUME NEW a \in Logins, FinalizeLogin(a)
      PROVE  TypesAndProgress'
  <2>1. Len(commits) \in Nat
      BY DEF TypesAndProgress, LTTypeOK
  <2> QED BY <1>2, <2>1 DEF FinalizeLogin, To, TypesAndProgress, LTTypeOK, Progress
<1>3. ASSUME NEW a \in Logins, FindByID(a)
      PROVE  TypesAndProgress'
    BY <1>3 DEF FindByID, To, TypesAndProgress, LTTypeOK, Progress
<1>4. ASSUME NEW a \in Logins, UpdateLastLogin(a)
      PROVE  TypesAndProgress'
    BY <1>4, UpdateLocks DEF UpdateLastLogin
<1>5. ASSUME NEW a \in Logins, CreateSession(a)
      PROVE  TypesAndProgress'
    BY <1>5, InsertJoins DEF CreateSession
<1>6. ASSUME NEW a \in Logins, Commit(a)
      PROVE  TypesAndProgress'
    BY <1>6, CommitWrites, TxEnds DEF Commit
<1>7. ASSUME NEW a \in Logins, Rollback(a)
      PROVE  TypesAndProgress'
  <2>1. lost' = lost \ {a} /\ rows' = rows /\ reported' = reported
      BY <1>7 DEF Rollback
  <2>2. lastLogin' \in [Users -> Nat] /\ commits' \in Seq(Logins)
      BY <1>7 DEF Rollback, TypesAndProgress, LTTypeOK
  <2> QED BY <1>7, <2>1, <2>2, TxEnds DEF Rollback
<1>8. ASSUME NEW a \in Logins, Lose(a)
      PROVE  TypesAndProgress'
    BY <1>8 DEF Lose, TypesAndProgress, LTTypeOK, Progress
<1>9. ASSUME NEW a \in Logins, LostRuns(a)
      PROVE  TypesAndProgress'
  <2>1. CASE stmt[a] = "update"
      BY <1>9, <2>1, UpdateLocks DEF LostRuns
  <2>2. CASE stmt[a] = "commit"
      BY <1>9, <2>2, CommitWrites, TxEnds DEF LostRuns
  <2> QED BY <1>9, <2>1, <2>2 DEF LostRuns
<1>10. ASSUME NEW a \in Logins, LostEnds(a)
       PROVE  TypesAndProgress'
  <2>1. stmt[a] \in Statements
      BY <1>10 DEF LostEnds, TypesAndProgress, Progress
  <2> QED BY <1>10, <2>1, TxEnds DEF LostEnds, TypesAndProgress, LTTypeOK
<1>11. CASE UNCHANGED ltVars
    BY <1>11 DEF ltVars, TypesAndProgress, LTTypeOK, Progress
<1> QED BY <1>1, <1>2, <1>3, <1>4, <1>5, <1>6, <1>7, <1>8, <1>9, <1>10, <1>11
        DEF LTNext, Statement

-----------------------------------------------------------------------------
\* Explains is kept while the log is only appended to and the others only grow.
LEMMA ExplainsKept ==
    ASSUME NEW m, NEW u, NEW n \in Nat, NEW others, NEW others2, NEW clock, NEW clock2,
           NEW log \in Seq(Logins), NEW log2 \in Seq(Logins), NEW start, NEW start2,
           n <= Len(log), Len(log) <= Len(log2), others \subseteq others2,
           \A b \in others : clock2[b] = clock[b],
           \A i \in 1 .. Len(log) : /\ log2[i] = log[i]
                                    /\ clock2[log[i]] = clock[log[i]]
                                    /\ start2[log[i]] = start[log[i]],
           Explains(m, u, n, others, clock, log, start)
    PROVE  Explains(m, u, n, others2, clock2, log2, start2)
<1>1. m = 0 \/ \E b \in others2 : Owner[b] = u /\ m = clock2[b]
    BY DEF Explains
<1>2. ASSUME NEW i \in 1 .. n, Owner[log2[i]] = u
      PROVE  \/ m >= clock2[log2[i]]
             \/ \E j \in i + 1 .. Len(log2) : /\ Owner[log2[j]] = u /\ start2[log2[j]] < i
                                               /\ clock2[log2[j]] < clock2[log2[i]]
  <2>1. i \in 1 .. Len(log) /\ Owner[log[i]] = u
      BY <1>2
  <2>2. CASE m >= clock[log[i]]
      BY <2>1, <2>2
  <2>3. ASSUME NEW j \in i + 1 .. Len(log), Owner[log[j]] = u, start[log[j]] < i,
               clock[log[j]] < clock[log[i]]
        PROVE  \E k \in i + 1 .. Len(log2) : /\ Owner[log2[k]] = u /\ start2[log2[k]] < i
                                              /\ clock2[log2[k]] < clock2[log2[i]]
      BY <2>1, <2>3
  <2> QED BY <1>2, <2>1, <2>2, <2>3 DEF Explains
<1> QED BY <1>1, <1>2 DEF Explains

\* Steps that neither read the row, nor commit, nor begin.
LEMMA HistoryKept ==
    ASSUME HistorySound, UNCHANGED <<at, shown, tableVars, commits, began>>,
           \A b \in Logins : /\ stmt'[b] # "new" => stmt[b] # "new"
                             /\ stmt'[b] \in {"update", "insert", "commit"} =>
                                    stmt[b] \in {"update", "insert", "commit"}
    PROVE  HistorySound'
  BY DEF HistorySound, ClocksOrdered, tableVars

\* A login that begins reads a clock no login committed so far was ahead of.
LEMMA BeginStep ==
    ASSUME TypesAndProgress, HistorySound, NEW a \in Logins, FinalizeLogin(a)
    PROVE  HistorySound'
<1>0. /\ a \notin rows /\ rows \subseteq Logins /\ commits \in Seq(Logins) /\ Len(commits) \in Nat
      /\ \A b \in Logins : b # a => /\ at'[b] = at[b] /\ began'[b] = began[b]
                                    /\ stmt'[b] = stmt[b]
      /\ at'[a] = now /\ began'[a] = Len(commits) /\ stmt'[a] = "find"
      /\ UNCHANGED <<shown, lastLogin, rows, commits>>
    BY DEF FinalizeLogin, To, TypesAndProgress, LTTypeOK, Progress, tableVars
<1>1. \A i \in 1 .. Len(commits) : commits[i] \in rows \ {a}
    BY <1>0 DEF HistorySound
<1>2. ASSUME NEW m, NEW u, NEW n \in Nat, n <= Len(commits), NEW others \in SUBSET rows,
             Explains(m, u, n, others, at, commits, began)
      PROVE  Explains(m, u, n, others, at', commits, began')
  <2>1. \A b \in others : at'[b] = at[b]
      BY <1>0
  <2>2. \A i \in 1 .. Len(commits) : /\ at'[commits[i]] = at[commits[i]]
                                     /\ began'[commits[i]] = began[commits[i]]
      BY <1>0, <1>1
  <2> QED BY <1>0, <1>2, <2>1, <2>2, ExplainsKept
<1>3. ASSUME NEW b \in Logins
      PROVE  ClocksOrdered(b)'
  <2>1. \A i \in 1 .. Len(commits) : at'[commits[i]] <= now /\ at'[commits[i]] = at[commits[i]]
      BY <1>0, <1>1 DEF TypesAndProgress, Progress
  <2>2. CASE b = a
      BY <1>0, <2>1, <2>2 DEF ClocksOrdered
  <2>3. CASE b # a
    <3>1. began[b] <= Len(commits) /\ began[b] \in Nat
        BY DEF HistorySound, ClocksOrdered, TypesAndProgress, LTTypeOK
    <3> QED BY <1>0, <2>1, <2>3, <3>1 DEF HistorySound, ClocksOrdered
  <2> QED BY <2>2, <2>3
<1>4. ASSUME NEW u \in Users
      PROVE  Explains(lastLogin[u], u, Len(commits), rows, at, commits, began)'
    BY <1>0, <1>2 DEF HistorySound
<1>5. \A b \in Logins : b # a => began'[b] = began[b] /\ began[b] \in Nat /\ began[b] <= Len(commits)
    BY <1>0 DEF HistorySound, ClocksOrdered, TypesAndProgress, LTTypeOK
<1>6. ASSUME NEW b \in rows
      PROVE  Explains(shown[b], Owner[b], began[b], rows \ {b}, at, commits, began)'
    BY <1>0, <1>2, <1>5 DEF HistorySound
<1>7. ASSUME NEW b \in Logins, stmt'[b] \in {"update", "insert", "commit"}
      PROVE  Explains(shown[b], Owner[b], began[b], rows, at, commits, began)'
    BY <1>0, <1>2, <1>5, <1>7 DEF HistorySound
<1> QED BY <1>0, <1>1, <1>3, <1>4, <1>6, <1>7 DEF HistorySound

\* FindByID reads what the table says, which explains it.
LEMMA ReadStep ==
    ASSUME TypesAndProgress, HistorySound, NEW a \in Logins, FindByID(a)
    PROVE  HistorySound'
<1>0. /\ a \notin rows /\ rows \subseteq Logins /\ commits \in Seq(Logins)
      /\ \A b \in Logins : b # a => shown'[b] = shown[b] /\ stmt'[b] = stmt[b]
      /\ shown'[a] = lastLogin[Owner[a]] /\ stmt'[a] = "update" /\ stmt[a] = "find"
      /\ UNCHANGED <<at, lastLogin, rows, commits, began>>
    BY DEF FindByID, To, TypesAndProgress, LTTypeOK, Progress, tableVars
<1>1. Explains(lastLogin[Owner[a]], Owner[a], began[a], rows, at, commits, began)
  <2>1. Explains(lastLogin[Owner[a]], Owner[a], Len(commits), rows, at, commits, began)
      BY DEF HistorySound
  <2>2. began[a] \in Nat /\ began[a] <= Len(commits) /\ Len(commits) \in Nat
      BY <1>0 DEF HistorySound, ClocksOrdered, TypesAndProgress, LTTypeOK
  <2> QED BY <2>1, <2>2 DEF Explains
<1>2. \A b \in Logins : ClocksOrdered(b)'
    BY <1>0 DEF HistorySound, ClocksOrdered
<1>3. \A b \in Logins : stmt'[b] \in {"update", "insert", "commit"} =>
          Explains(shown[b], Owner[b], began[b], rows, at, commits, began)'
    BY <1>0, <1>1 DEF HistorySound
<1>4. \A b \in rows : shown'[b] = shown[b]
    BY <1>0
<1> QED BY <1>0, <1>2, <1>3, <1>4 DEF HistorySound

\* A COMMIT overwrites a later time only with that of a login that overlapped it.
LEMMA CommitStep ==
    ASSUME TypesAndProgress, HistorySound, NEW a \in Logins, stmt[a] = "commit",
           CommitTx(a), To(a, "done"), UNCHANGED <<at, shown, began>>
    PROVE  HistorySound'
<1> DEFINE n == Len(commits)
<1>0. /\ commits \in Seq(Logins) /\ n \in Nat /\ rows \subseteq Logins /\ a \notin rows
      /\ rows' = rows \cup {a} /\ lastLogin' = [lastLogin EXCEPT ![Owner[a]] = at[a]]
      /\ commits' \in Seq(Logins) /\ Len(commits') = n + 1 /\ commits'[n + 1] = a
      /\ \A i \in 1 .. n : commits'[i] = commits[i]
      /\ \A b \in Logins : b # a => stmt'[b] = stmt[b]
      /\ stmt'[a] = "done"
  <2>1. /\ commits \in Seq(Logins) /\ rows \subseteq Logins /\ a \notin rows
        /\ stmt \in [Logins -> Statements \cup {"new", "done"}]
      BY DEF TypesAndProgress, LTTypeOK, Progress
  <2>2. /\ rows' = rows \cup {a} /\ lastLogin' = [lastLogin EXCEPT ![Owner[a]] = at[a]]
        /\ commits' = Append(commits, a) /\ commits' \in Seq(Logins)
      BY CommitWrites
  <2>3. /\ n \in Nat /\ Len(commits') = n + 1 /\ commits'[n + 1] = a
        /\ \A i \in 1 .. n : commits'[i] = commits[i]
      BY <2>1, <2>2
  <2> QED BY <2>1, <2>2, <2>3 DEF To
<1>1. \A b \in Logins : at[b] \in Nat /\ began[b] \in Nat /\ began[b] <= n
    BY DEF TypesAndProgress, LTTypeOK, HistorySound, ClocksOrdered
<1>2. ASSUME NEW m, NEW u, NEW k \in Nat, k <= n, NEW others, NEW others2,
             others \subseteq others2, Explains(m, u, k, others, at, commits, began)
      PROVE  Explains(m, u, k, others2, at', commits', began')
    BY <1>0, <1>2, ExplainsKept
<1>3. \A i \in 1 .. Len(commits') : commits'[i] \in rows'
    BY <1>0 DEF HistorySound
<1>4. ASSUME NEW b \in Logins
      PROVE  ClocksOrdered(b)'
  <2>1. stmt'[b] # "new" => stmt[b] # "new"
      BY <1>0
  <2>2. began[b] <= Len(commits')
      BY <1>0, <1>1
  <2>3. ASSUME stmt'[b] # "new", NEW i \in 1 .. began[b]
        PROVE  at[commits'[i]] <= at[b]
    <3>1. i \in 1 .. n
        BY <1>0, <1>1
    <3> QED BY <1>0, <2>1, <2>3, <3>1 DEF HistorySound, ClocksOrdered
  <2> QED BY <2>2, <2>3 DEF ClocksOrdered
<1>5. ASSUME NEW u \in Users
      PROVE  Explains(lastLogin[u], u, Len(commits), rows, at, commits, began)'
  <2>1. CASE u # Owner[a]
    <3>1. lastLogin'[u] = lastLogin[u]
        BY <1>0, <2>1
    <3>2. Explains(lastLogin[u], u, n, rows', at', commits', began')
        BY <1>0, <1>2 DEF HistorySound
    <3> QED BY <1>0, <2>1, <3>1, <3>2 DEF Explains
  <2>2. CASE u = Owner[a]
    <3>1. lastLogin'[u] = at[a]
        BY <1>0, <2>2 DEF TypesAndProgress, LTTypeOK
    <3>2. ASSUME NEW i \in 1 .. n + 1, Owner[commits'[i]] = u
          PROVE  \/ at[a] >= at[commits'[i]]
                 \/ \E j \in i + 1 .. n + 1 : /\ Owner[commits'[j]] = u /\ began[commits'[j]] < i
                                               /\ at[commits'[j]] < at[commits'[i]]
      <4>1. CASE i = n + 1
          BY <1>0, <1>1, <4>1
      <4>2. CASE i <= began[a]
        <5>1. i \in 1 .. began[a] /\ i \in 1 .. n
            BY <1>0, <1>1, <4>2
        <5>2. at[commits[i]] <= at[a] /\ commits'[i] = commits[i] /\ commits[i] \in Logins
            BY <1>0, <5>1 DEF HistorySound, ClocksOrdered
        <5> QED BY <1>1, <5>2
      <4>3. CASE i # n + 1 /\ ~(i <= began[a])
        <5>1. n + 1 \in i + 1 .. n + 1 /\ began[commits'[n + 1]] < i
            BY <1>0, <1>1, <4>3
        <5>2. at[a] >= at[commits'[i]] \/ at[a] < at[commits'[i]]
          <6>1. commits'[i] \in Logins
              BY <1>0, <3>2
          <6> QED BY <1>1, <6>1
        <5>3. Owner[commits'[n + 1]] = u /\ at[commits'[n + 1]] = at[a]
            BY <1>0, <2>2
        <5> QED BY <5>1, <5>2, <5>3
      <4> QED BY <4>1, <4>2, <4>3
    <3> QED BY <1>0, <2>2, <3>1, <3>2 DEF Explains
  <2> QED BY <2>1, <2>2
<1>6. ASSUME NEW b \in rows'
      PROVE  Explains(shown[b], Owner[b], began[b], rows \ {b}, at, commits, began)'
  <2>1. CASE b = a
    <3>1. Explains(shown[a], Owner[a], began[a], rows, at, commits, began)
        BY DEF HistorySound
    <3>2. rows \subseteq rows' \ {a}
        BY <1>0
    <3>3. Explains(shown[a], Owner[a], began[a], rows' \ {a}, at', commits', began')
        BY <1>1, <1>2, <3>1, <3>2
    <3> QED BY <2>1, <3>3
  <2>2. CASE b \in rows
    <3>1. Explains(shown[b], Owner[b], began[b], rows \ {b}, at, commits, began)
        BY <2>2 DEF HistorySound
    <3>2. rows \ {b} \subseteq rows' \ {b}
        BY <1>0
    <3>3. Explains(shown[b], Owner[b], began[b], rows' \ {b}, at', commits', began')
        BY <1>0, <1>1, <1>2, <2>2, <3>1, <3>2
    <3> QED BY <3>3
  <2> QED BY <1>0, <2>1, <2>2
<1>7. ASSUME NEW b \in Logins, stmt'[b] \in {"update", "insert", "commit"}
      PROVE  Explains(shown[b], Owner[b], began[b], rows, at, commits, began)'
  <2>1. Explains(shown[b], Owner[b], began[b], rows, at, commits, began)
      BY <1>0, <1>7 DEF HistorySound
  <2>2. Explains(shown[b], Owner[b], began[b], rows', at', commits', began')
      BY <1>0, <1>1, <1>2, <2>1
  <2> QED BY <2>2
<1> QED BY <1>3, <1>4, <1>5, <1>6, <1>7 DEF HistorySound

LEMMA HistoryStep ==
    ASSUME TypesAndProgress, HistorySound, [LTNext]_ltVars
    PROVE  HistorySound'
<1> USE DEF txVars
<1>1. CASE LTTick
    BY <1>1, HistoryKept DEF LTTick
<1>2. ASSUME NEW a \in Logins, UpdateLastLogin(a) \/ CreateSession(a) \/ Rollback(a) \/ Lose(a)
      PROVE  HistorySound'
    BY <1>2, HistoryKept
       DEF UpdateLastLogin, Update, CreateSession, Rollback, Lose, To, TypesAndProgress, LTTypeOK
<1>3. ASSUME NEW a \in Logins, Commit(a)
      PROVE  HistorySound'
    BY <1>3, CommitStep DEF Commit
<1>4. ASSUME NEW a \in Logins, LostRuns(a)
      PROVE  HistorySound'
  <2>1. CASE stmt[a] = "update"
      BY <1>4, <2>1, HistoryKept DEF LostRuns, Update, To, TypesAndProgress, LTTypeOK
  <2>2. CASE stmt[a] = "commit"
      BY <1>4, <2>2, CommitStep DEF LostRuns
  <2> QED BY <1>4, <2>1, <2>2 DEF LostRuns
<1>5. ASSUME NEW a \in Logins, LostEnds(a)
      PROVE  HistorySound'
  <2>1. stmt[a] # "new" /\ \A b \in Logins : stmt'[b] = IF b = a THEN "done" ELSE stmt[b]
      BY <1>5 DEF LostEnds, To, TypesAndProgress, LTTypeOK, Progress
  <2> QED BY <1>5, <2>1, HistoryKept DEF LostEnds
<1>6. CASE UNCHANGED ltVars
    BY <1>6, HistoryKept DEF ltVars
<1> QED BY <1>1, <1>2, <1>3, <1>4, <1>5, <1>6, BeginStep, ReadStep DEF LTNext, Statement

\* The inductive invariant: how far each login is, and why the times read are what they are.
THEOREM Invariant == LTSpec => []IInv
<1>1. LTInit => IInv
  <2> SUFFICES ASSUME LTInit
               PROVE  IInv
      OBVIOUS
  <2>1. TypesAndProgress
      BY DEF LTInit, ClockInit, TypesAndProgress, LTTypeOK, Progress
  <2>2. HistorySound
      BY DEF LTInit, HistorySound, ClocksOrdered, Explains
  <2> QED BY <2>1, <2>2 DEF IInv, TypesAndProgress
<1>2. IInv /\ [LTNext]_ltVars => IInv'
    BY ProgressStep, HistoryStep DEF IInv, TypesAndProgress
<1> QED BY <1>1, <1>2, PTL DEF LTSpec

\* Types, and the lock of a row belongs to the transaction that updated it.
THEOREM TypeCorrect == LTSpec => []LTTypeOK
  BY Invariant, PTL DEF IInv

\* "Previous login" is a login of the account that had committed, and misses
\* only logins overtaken by one with an older clock that overlapped them.
THEOREM PreviousLoginCorrect == LTSpec => []PreviousLoginShown
<1>1. IInv => PreviousLoginShown
  <2> SUFFICES ASSUME IInv, NEW a \in reported
               PROVE  /\ \/ shown[a] = 0
                         \/ \E b \in rows \ {a} : Owner[b] = Owner[a] /\ shown[a] = at[b]
                      /\ \A i \in 1 .. Len(commits) : Before(i, a) =>
                            \/ shown[a] >= at[commits[i]]
                            \/ \E j \in i + 1 .. Len(commits) : /\ Owner[commits[j]] = Owner[a]
                                                                /\ began[commits[j]] < i
                                                                /\ at[commits[j]] < at[commits[i]]
      BY DEF PreviousLoginShown
  <2>1. a \in rows /\ began[a] \in Nat
      BY DEF IInv, LTTypeOK, Progress
  <2>2. Explains(shown[a], Owner[a], began[a], rows \ {a}, at, commits, began)
      BY <2>1 DEF IInv, HistorySound
  <2> QED BY <2>1, <2>2 DEF Explains, Before
<1> QED BY <1>1, Invariant, PTL

-----------------------------------------------------------------------------
\* The statement that commits a login, wherever its client is, is the moment it happens.
LEMMA CommitHappens ==
    ASSUME TypesAndProgress, NEW a \in Logins, stmt[a] = "commit", CommitTx(a),
           UNCHANGED <<now, at>>, reported' = reported \/ reported' = reported \cup {a}
    PROVE  LH!LHNext
<1>1. at[a] # 0 /\ a \notin rows
    BY DEF TypesAndProgress, LTTypeOK, Progress
<1>2. LH!Happen(a)
    BY <1>1, CommitWrites DEF LH!Happen
<1> QED BY <1>2 DEF LH!LHNext

\* Logins have the effect LoginHistory promises, whichever statements fail,
\* run late or wait for a lock.
THEOREM HistoryCorrect == LTSpec => LoginHistoryImplemented
<1>1. LTInit => LH!LHInit
    BY DEF LTInit, ClockInit, LH!LHInit
<1>2. ASSUME TypesAndProgress, [LTNext]_ltVars
      PROVE  [LH!LHNext]_(LH!lhVars)
  <2> USE DEF txVars, tableVars
  <2>1. CASE LTTick
      BY <2>1 DEF LTTick, Advance, LH!LHNext, LH!LHPass
  <2>2. ASSUME NEW a \in Logins, FinalizeLogin(a)
        PROVE  LH!LHNext
    <3>1. at[a] = 0
        BY <1>2, <2>2 DEF FinalizeLogin, TypesAndProgress, Progress
    <3>2. LH!Start(a)
        BY <2>2, <3>1 DEF FinalizeLogin, LH!Start
    <3> QED BY <3>2 DEF LH!LHNext
  <2>3. ASSUME NEW a \in Logins, Commit(a)
        PROVE  LH!LHNext
      BY <1>2, <2>3, CommitHappens DEF Commit
  <2>4. ASSUME NEW a \in Logins, LostRuns(a), stmt[a] = "commit"
        PROVE  LH!LHNext
      BY <1>2, <2>4, CommitHappens DEF LostRuns
  <2>5. ASSUME NEW a \in Logins,
               \/ FindByID(a) \/ UpdateLastLogin(a) \/ CreateSession(a) \/ Rollback(a) \/ Lose(a)
               \/ (LostRuns(a) /\ stmt[a] # "commit") \/ LostEnds(a)
        PROVE  UNCHANGED LH!lhVars
      BY <2>5 DEF FindByID, UpdateLastLogin, CreateSession, Rollback, Lose, LostRuns, LostEnds,
                  LH!lhVars
  <2>6. CASE UNCHANGED ltVars
      BY <2>6 DEF ltVars, LH!lhVars
  <2> QED BY <1>2, <2>1, <2>2, <2>3, <2>4, <2>5, <2>6 DEF LTNext, Statement
<1>3. IInv /\ [LTNext]_ltVars => [LH!LHNext]_(LH!lhVars)
    BY <1>2 DEF IInv, TypesAndProgress
<1> QED BY <1>1, <1>3, Invariant, PTL DEF LTSpec, LoginHistoryImplemented, LH!LHSpec
=============================================================================
