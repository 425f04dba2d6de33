--------------------------- MODULE SessionService ---------------------------
(***************************************************************************)
(* The session service and the handler of whoami and logout                *)
(* (internal/service/session/service.go, internal/handler/session).        *)
(* ValidateSession reads the session row in one step and the user's row in *)
(* a later one; what follows depends on the caller in frame[t].call.       *)
(***************************************************************************)
EXTENDS Terminals

CONSTANT SessionTimeout     \* SESSION_TIMEOUT

ASSUME SessionTimeoutAssumption == SessionTimeout \in Nat \ {0}

\* The transaction of FinalizeLogin: both statements commit together.
CommitLogin(u, at, k) == /\ UpdateLastLogin(u, at)
                         /\ CreateSession(k, u, at + SessionTimeout)
                         /\ UNCHANGED <<totp, enrolledAt>>

\* Mutant: a failing store logs the terminal out.
ValidateSessionOrClear(t, f) ==
    /\ \/ /\ Live(token[t])
          /\ Goto(t, "FindUser", [f EXCEPT !.user = sessions[token[t]].user])
          /\ UNCHANGED token
       \/ /\ ~Live(token[t]) \/ Fails("postgres")
          /\ Return(t)
          /\ ClearSession(t)
    /\ UNCHANGED <<now, lsVars, dbVars>>

(***************************************************************************)
(* ValidateSession up to FindByTokenHash.  Every caller's handler clears   *)
(* the local token when the row is missing, revoked or expired, and keeps  *)
(* it when the store fails.                                                *)
(***************************************************************************)
ValidateSession(t, f) ==
    /\ \/ /\ Live(token[t])
          /\ Goto(t, "FindUser", [f EXCEPT !.user = sessions[token[t]].user])
          /\ UNCHANGED token
       \/ /\ ~Live(token[t])
          /\ Return(t)
          /\ ClearSession(t)
       \/ /\ Fails("postgres")
          /\ Return(t)
          /\ UNCHANGED token
    /\ UNCHANGED <<now, lsVars, dbVars>>

\* FindByID of ValidateSession fails: every caller gives up and keeps the token.
SessionUserUnavailable(t) ==
    /\ pc[t] = "FindUser"
    /\ Fails("postgres")
    /\ Return(t)
    /\ UNCHANGED <<now, lsVars, dbVars, token>>

WhoAmI(t) ==
    /\ Dispatch(t, "whoami")
    /\ ValidateSession(t, [Idle EXCEPT !.call = "WhoAmI"])

\* The user's row arrives and is printed.
WhoAmIUser(t) ==
    /\ pc[t] = "FindUser"
    /\ frame[t].call = "WhoAmI"
    /\ Return(t)
    /\ UNCHANGED <<now, lsVars, dbVars, token>>

\* Logout up to FindByTokenHash; the handler clears the token whatever happens.
Logout(t) ==
    /\ Dispatch(t, "logout")
    /\ \/ /\ Live(token[t])
          /\ Goto(t, "Revoke", [Idle EXCEPT !.call = "Logout"])
          /\ UNCHANGED token
       \/ /\ ~Live(token[t]) \/ Fails("postgres")
          /\ Return(t)
          /\ ClearSession(t)
    /\ UNCHANGED <<now, lsVars, dbVars>>

\* Mutant: the token is cleared only after a reply.
LogoutRevokeKeepsToken(t) ==
    /\ pc[t] = "Revoke"
    /\ \/ Revoke(token[t]) /\ ClearSession(t)
       \/ Fails("postgres") /\ (Revoke(token[t]) \/ UNCHANGED sessions) /\ UNCHANGED token
    /\ Return(t)
    /\ UNCHANGED <<now, lsVars, totp, lastLogin, enrolledAt>>

\* Revoke answers, finds no row left to revoke, or fails.
LogoutRevoke(t) ==
    /\ pc[t] = "Revoke"
    /\ \/ Revoke(token[t])
       \/ Fails("postgres") /\ UNCHANGED sessions
    /\ Return(t)
    /\ ClearSession(t)
    /\ UNCHANGED <<now, lsVars, totp, lastLogin, enrolledAt>>
=============================================================================
