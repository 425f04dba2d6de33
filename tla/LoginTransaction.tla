-------------------------- MODULE LoginTransaction --------------------------
(***************************************************************************)
(* FinalizeLogin statement by statement                                    *)
(* (internal/service/session/service.go,                                   *)
(* internal/repository/transaction/postgres.go): in a READ COMMITTED       *)
(* transaction it reads the user's row, updates last_login_at, which locks *)
(* the row, inserts the session and commits.  The clock and the token are  *)
(* read before the transaction.  A client may lose its connection at any   *)
(* statement; PostgreSQL may still execute that statement, and ends the    *)
(* session some time later.                                                *)
(*                                                                         *)
(* A login is one call of FinalizeLogin; its token, and so its row, is its *)
(* own.  AuthCLI takes the transaction as one step.                        *)
(***************************************************************************)
EXTENDS Sequences, AccountsAndClock

CONSTANTS
    Logins,     \* calls of FinalizeLogin, by any terminal
    Owner,      \* Owner[a]: the account that logs in
    NoLogin

ASSUME OwnerAssumption == Owner \in [Logins -> Users]
ASSUME NoLoginAssumption == NoLogin \notin Logins

VARIABLES
    stmt,       \* the statement each login is about to send
    at,         \* the clock it read
    shown,      \* the last_login_at its FindByID returned
    updated,    \* its transaction has updated the user's row
    inserted,   \* its transaction has inserted the session
    lost,       \* logins whose client is gone while the server session lives
    locked,     \* locked[u]: the login whose transaction holds the row of u
    lastLogin,  \* users.last_login_at, 0 for NULL
    rows,       \* the logins whose session row is committed
    reported,   \* the logins reported as successful
    commits,    \* history: the logins in the order of their commits
    began       \* history: how many commits there were when a login began

txVars == <<updated, inserted, locked>>
tableVars == <<lastLogin, rows>>
ltVars == <<now, stmt, at, shown, txVars, lost, tableVars, reported, commits, began>>

LTInit == /\ ClockInit
          /\ stmt = [a \in Logins |-> "new"]
          /\ at = [a \in Logins |-> 0]
          /\ shown = [a \in Logins |-> 0]
          /\ updated = {}
          /\ inserted = {}
          /\ lost = {}
          /\ locked = [u \in Users |-> NoLogin]
          /\ lastLogin = [u \in Users |-> 0]
          /\ rows = {}
          /\ reported = {}
          /\ commits = <<>>
          /\ began = [a \in Logins |-> 0]

Statements == {"find", "update", "insert", "commit"}

To(a, s) == stmt' = [stmt EXCEPT ![a] = s]

\* The token is generated and the clock read; then WithinTransaction begins.
FinalizeLogin(a) ==
    /\ stmt[a] = "new"
    /\ To(a, "find")
    /\ at' = [at EXCEPT ![a] = now]
    /\ began' = [began EXCEPT ![a] = Len(commits)]
    /\ UNCHANGED <<now, shown, txVars, lost, tableVars, reported, commits>>

\* Mutant: the row is read after it was updated.
FindByIDLate(a) ==
    /\ stmt[a] = "find"
    /\ To(a, "update")
    /\ shown' = [shown EXCEPT ![a] = at[a]]
    /\ UNCHANGED <<now, at, txVars, lost, tableVars, reported, commits, began>>

FindByID(a) ==
    /\ stmt[a] = "find"
    /\ To(a, "update")
    /\ shown' = [shown EXCEPT ![a] = lastLogin[Owner[a]]]
    /\ UNCHANGED <<now, at, txVars, lost, tableVars, reported, commits, began>>

\* The UPDATE of a executes: it waits for the lock of the row.
Update(a) ==
    /\ locked[Owner[a]] = NoLogin
    /\ locked' = [locked EXCEPT ![Owner[a]] = a]
    /\ updated' = updated \cup {a}
    /\ UNCHANGED inserted

\* Mutant: the repository writes through the pool and not through the transaction.
UpdateOutside(a) ==
    /\ stmt[a] = "update" /\ a \notin lost
    /\ locked[Owner[a]] = NoLogin
    /\ lastLogin' = [lastLogin EXCEPT ![Owner[a]] = at[a]]
    /\ To(a, "insert")
    /\ UNCHANGED <<now, at, shown, txVars, lost, rows, reported, commits, began>>

UpdateLastLogin(a) ==
    /\ stmt[a] = "update" /\ a \notin lost
    /\ Update(a)
    /\ To(a, "insert")
    /\ UNCHANGED <<now, at, shown, lost, tableVars, reported, commits, began>>

CreateSession(a) ==
    /\ stmt[a] = "insert" /\ a \notin lost
    /\ inserted' = inserted \cup {a}
    /\ To(a, "commit")
    /\ UNCHANGED <<now, at, shown, updated, locked, lost, tableVars, reported, commits, began>>

\* The transaction of a is over: its writes are gone from it, its lock is free.
EndTx(a) == /\ updated' = updated \ {a}
            /\ inserted' = inserted \ {a}
            /\ locked' = [u \in Users |-> IF locked[u] = a THEN NoLogin ELSE locked[u]]

\* PostgreSQL makes what the transaction wrote permanent.
CommitTx(a) ==
    /\ lastLogin' = [lastLogin EXCEPT ![Owner[a]] = IF a \in updated THEN at[a] ELSE @]
    /\ rows' = rows \cup (inserted \cap {a})
    /\ commits' = Append(commits, a)
    /\ EndTx(a)

Commit(a) ==
    /\ stmt[a] = "commit" /\ a \notin lost
    /\ CommitTx(a)
    /\ To(a, "done")
    /\ reported' = reported \cup {a}
    /\ UNCHANGED <<now, at, shown, lost, began>>

\* Mutant: the transaction of a failed login is neither rolled back nor closed.
RollbackForgotten(a) ==
    /\ stmt[a] \in Statements /\ a \notin lost
    /\ To(a, "done")
    /\ UNCHANGED <<now, at, shown, txVars, lost, tableVars, reported, commits, began>>

\* A statement fails: the deferred Rollback ends the transaction.
Rollback(a) ==
    /\ stmt[a] \in Statements /\ a \notin lost
    /\ EndTx(a)
    /\ To(a, "done")
    /\ UNCHANGED <<now, at, shown, lost, tableVars, reported, commits, began>>

\* The connection is lost, or the process killed; the login has failed for its user.
Lose(a) ==
    /\ stmt[a] \in Statements /\ a \notin lost
    /\ lost' = lost \cup {a}
    /\ UNCHANGED <<now, stmt, at, shown, txVars, tableVars, reported, commits, began>>

\* A lost session executes the statement it was sent, if that has an effect on others.
LostRuns(a) ==
    /\ a \in lost
    /\ \/ /\ stmt[a] = "update"
          /\ Update(a)
          /\ To(a, "insert")
          /\ UNCHANGED <<lost, tableVars, commits>>
       \/ /\ stmt[a] = "commit"
          /\ CommitTx(a)
          /\ To(a, "done")
          /\ lost' = lost \ {a}
    /\ UNCHANGED <<now, at, shown, reported, began>>

\* A lost session ends, with its transaction rolled back.
LostEnds(a) ==
    /\ a \in lost
    /\ lost' = lost \ {a}
    /\ EndTx(a)
    /\ To(a, "done")
    /\ UNCHANGED <<now, at, shown, tableVars, reported, commits, began>>

LTTick == Advance /\ UNCHANGED <<stmt, at, shown, txVars, lost, tableVars, reported, commits, began>>

\* The next statement of a login that has a client, or its failure.
Statement(a) == \/ FindByID(a) \/ UpdateLastLogin(a) \/ CreateSession(a) \/ Commit(a)
                \/ Rollback(a) \/ Lose(a)

LTNext == \/ LTTick
          \/ \E a \in Logins : \/ FinalizeLogin(a) \/ Statement(a)
                               \/ LostRuns(a) \/ LostEnds(a)

LTSpec == LTInit /\ [][LTNext]_ltVars

(***************************************************************************)
(* Fairness: a statement that does not wait for a lock returns or fails;   *)
(* waiters for a row get its lock in turn; a session whose client is gone  *)
(* ends.                                                                   *)
(***************************************************************************)
LTFairness ==
    \A a \in Logins : /\ SF_ltVars(UpdateLastLogin(a))
                      /\ WF_ltVars(stmt[a] # "update" /\ Statement(a))
                      /\ WF_ltVars(LostEnds(a))

LTFairSpec == LTSpec /\ LTFairness
-----------------------------------------------------------------------------
\* Types of the logins, their transactions, the tables and the history; a row is
\* locked by the transaction that updated it, while that transaction lives.
LTTypeOK ==
    /\ now \in Nat
    /\ stmt \in [Logins -> Statements \cup {"new", "done"}]
    /\ at \in [Logins -> Nat]
    /\ shown \in [Logins -> Nat]
    /\ updated \subseteq Logins
    /\ inserted \subseteq Logins
    /\ lost \subseteq Logins
    /\ locked \in [Users -> Logins \cup {NoLogin}]
    /\ lastLogin \in [Users -> Nat]
    /\ rows \subseteq Logins
    /\ reported \subseteq Logins
    /\ commits \in Seq(Logins)
    /\ began \in [Logins -> Nat]
    /\ \A a \in Logins : /\ locked[Owner[a]] = a <=> a \in updated
                         /\ a \in updated => stmt[a] \in {"insert", "commit"}

\* The i-th commit was one of a's account, and before a began.
Before(i, a) == i <= began[a] /\ Owner[commits[i]] = Owner[a]

(***************************************************************************)
(* "Previous login" of a successful login a is Never or the time of a      *)
(* login of the account that had committed; and it is not earlier than     *)
(* any login b that was over when a began, unless some login c that        *)
(* overlapped b committed after it with an older clock.                    *)
(***************************************************************************)
PreviousLoginShown ==
    \A a \in reported :
        /\ \/ shown[a] = 0
           \/ \E b \in rows \ {a} : Owner[b] = Owner[a] /\ shown[a] = at[b]
        /\ \A i \in 1 .. Len(commits) : Before(i, a) =>
              \/ shown[a] >= at[commits[i]]
              \/ \E j \in i + 1 .. Len(commits) : /\ Owner[commits[j]] = Owner[a]
                                                  /\ began[commits[j]] < i
                                                  /\ at[commits[j]] < at[commits[i]]

(***************************************************************************)
(* The transactions of logins, lost or not, have the effect LoginHistory   *)
(* promises.                                                               *)
(***************************************************************************)
LH == INSTANCE LoginHistory

LoginHistoryImplemented == LH!LHSpec

(***************************************************************************)
(* A login that waits for the row of its account, which another terminal   *)
(* or a lost session has locked, comes to an end.                          *)
(***************************************************************************)
FinalizeLoginEnds == \A a \in Logins : stmt[a] \in Statements ~> stmt[a] = "done" \/ a \in lost
=============================================================================
