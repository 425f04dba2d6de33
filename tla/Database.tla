------------------------------ MODULE Database ------------------------------
(***************************************************************************)
(* The PostgreSQL tables users and sessions, and the statements the user   *)
(* and session repositories send (internal/repository/user/postgres.go,    *)
(* internal/repository/session/postgres.go).  A statement is one atomic    *)
(* step; FinalizeLogin commits two of them in one transaction.             *)
(*                                                                         *)
(* A session is identified by its token: rows are found by the token hash, *)
(* and ids and tokens are fresh random values.  Accounts exist throughout; *)
(* no operation of the program deletes one.                                *)
(***************************************************************************)
EXTENDS AccountsAndClock

CONSTANTS
    Tokens,     \* session tokens
    Secrets,    \* TOTP secrets
    NoUser, NoToken, NoSecret

ASSUME NullsAssumption == /\ NoUser \notin Users
                          /\ NoToken \notin Tokens
                          /\ NoSecret \notin Secrets

VARIABLES
    totp,        \* users.totp_secret_encrypted, NoSecret while totp_enabled is false
    lastLogin,   \* users.last_login_at, 0 for NULL
    sessions,    \* the rows of sessions
    enrolledAt   \* history: when EnableTOTP last enrolled the user

dbVars == <<totp, lastLogin, sessions, enrolledAt>>

NoRow == [status |-> "absent", user |-> NoUser, expires |-> 0]

Row(status, u, e) == [status |-> status, user |-> u, expires |-> e]

\* Accounts may have been enrolled before; there are no sessions yet.
DBInit == /\ totp \in [Users -> Secrets \cup {NoSecret}]
          /\ lastLogin = [u \in Users |-> 0]
          /\ sessions = [k \in Tokens |-> NoRow]
          /\ enrolledAt = [u \in Users |-> 0]

TOTPEnabled(u) == totp[u] # NoSecret

\* The row would still authenticate its holder: not revoked, not expired.
Live(k) == sessions[k].status = "active" /\ now < sessions[k].expires

UpdateLastLogin(u, at) == lastLogin' = [lastLogin EXCEPT ![u] = at]

CreateSession(k, u, expires) ==
    sessions' = [sessions EXCEPT ![k] = Row("active", u, expires)]

\* UPDATE ... WHERE id = $2 AND revoked_at IS NULL
Revoke(k) ==
    sessions' = [sessions EXCEPT ![k].status = IF @ = "active" THEN "revoked" ELSE @]

\* Mutant: revoked rows are purged before they expire.
DeleteExpiredOrRevoked ==
    sessions' = [k \in Tokens |->
        IF sessions[k].expires <= now \/ sessions[k].status = "revoked" THEN NoRow ELSE sessions[k]]

DeleteExpired ==
    sessions' = [k \in Tokens |-> IF sessions[k].expires <= now THEN NoRow ELSE sessions[k]]

\* Mutant: no test of totp_enabled in the WHERE clause.
EnableTOTPAgain(u, s) == /\ totp' = [totp EXCEPT ![u] = s]
                         /\ enrolledAt' = [enrolledAt EXCEPT ![u] = now]

\* UPDATE ... WHERE id = $3 AND totp_enabled = FALSE
EnableTOTP(u, s) ==
    /\ totp' = [totp EXCEPT ![u] = IF @ = NoSecret THEN s ELSE @]
    /\ enrolledAt' = [enrolledAt EXCEPT ![u] = IF totp[u] = NoSecret THEN now ELSE @]

\* UPDATE ... WHERE id = $2 AND totp_enabled = TRUE
DisableTOTP(u) ==
    /\ totp' = [totp EXCEPT ![u] = NoSecret]
    /\ UNCHANGED enrolledAt
-----------------------------------------------------------------------------
Rows == [status : {"absent", "active", "revoked"}, user : Users \cup {NoUser}, expires : Nat]

DBTypeOK == /\ totp \in [Users -> Secrets \cup {NoSecret}]
            /\ lastLogin \in [Users -> Nat]
            /\ sessions \in [Tokens -> Rows]
            /\ enrolledAt \in [Users -> Nat]
=============================================================================
