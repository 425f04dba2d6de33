---------------------------- MODULE AuthService ----------------------------
(***************************************************************************)
(* Login: LoginWithPassword, the dialog for the authenticator code and     *)
(* CompleteTOTPLogin (internal/service/auth/service.go and                 *)
(* internal/handler/auth/handler.go).  The user's row, the block in Redis, *)
(* the failure counter, and the session are read and written by separate   *)
(* calls.  Each process keeps its pending TOTP logins in memory.           *)
(***************************************************************************)
EXTENDS SessionService

CONSTANT ChallengeTimeout   \* TOTP_CHALLENGE_TIMEOUT

ASSUME ChallengeTimeoutAssumption == ChallengeTimeout \in Nat \ {0}

VARIABLE challenges     \* challenges[t][c]: the pending login c of process t

NoPending == [user |-> NoUser, expires |-> 0]

AuthInit == challenges = [t \in Terminals |-> [c \in ChallengeIds |-> NoPending]]

DropChallenge(t, c) ==
    challenges' = [challenges EXCEPT ![t] =
        [i \in ChallengeIds |-> IF i = c THEN NoPending ELSE @[i]]]

\* ClearTOTPLoginChallenges
ClearChallenges(t) ==
    challenges' = [challenges EXCEPT ![t] = [c \in ChallengeIds |-> NoPending]]

(***************************************************************************)
(* Login ends without a session, or with one the caller has stored.  The   *)
(* challenge of the dialog, if any, is gone: CompleteTOTPLogin deletes it, *)
(* or the handler calls CancelTOTPLogin on the errors it does not name.    *)
(***************************************************************************)
EndLogin(t) == /\ Return(t)
               /\ DropChallenge(t, frame[t].challenge)

\* login is typed; FindByUsername answers.  For an unknown name nothing changes.
LoginWithPassword(t, u) ==
    /\ Dispatch(t, "login")
    /\ Goto(t, "IsBlocked", [Idle EXCEPT !.call = "LoginWithPassword", !.user = u,
                                         !.secret = totp[u], !.read = now])
    /\ UNCHANGED <<now, lsVars, dbVars, token, challenges>>

\* IsBlocked says yes, or Redis fails: either stage of login is over.
LoginBlocked(t) ==
    /\ pc[t] = "IsBlocked"
    /\ IsBlocked(frame[t].user) \/ Fails("redis")
    /\ EndLogin(t)
    /\ UNCHANGED <<now, lsVars, dbVars, token>>

\* The dialog's prompt: the state a process keeps between two codes.
AskCode(t, u, c) ==
    Goto(t, "EnterLoginCode",
         [Idle EXCEPT !.call = "CompleteTOTPLogin", !.user = u, !.challenge = c])

\* beginTOTPLogin also forgets the process's expired challenges.
BeginTOTPLogin(t) ==
    \E c \in ChallengeIds :
        /\ challenges[t][c] = NoPending
        /\ challenges' = [challenges EXCEPT ![t] =
             [i \in ChallengeIds |->
                IF i = c THEN [user |-> frame[t].user, expires |-> now + ChallengeTimeout]
                ELSE IF now >= @[i].expires THEN NoPending ELSE @[i]]]
        /\ AskCode(t, frame[t].user, c)

\* Mutant: the password alone finishes the login.
VerifyPasswordOnly(t) ==
    LET f == [frame[t] EXCEPT !.checked = now] IN
    /\ pc[t] = "IsBlocked"
    /\ frame[t].call = "LoginWithPassword"
    /\ ~IsBlocked(frame[t].user)
    /\ Goto(t, "RecordFailure", f) \/ Goto(t, "Reset", f)
    /\ UNCHANGED <<now, lsVars, dbVars, token, challenges>>

(***************************************************************************)
(* LoginWithPassword after IsBlocked said no: the password is compared     *)
(* with the hash, and the TOTP flag looked up in the row, that             *)
(* FindByUsername returned.                                                *)
(***************************************************************************)
VerifyPassword(t) ==
    LET f == [frame[t] EXCEPT !.checked = now] IN
    /\ pc[t] = "IsBlocked"
    /\ frame[t].call = "LoginWithPassword"
    /\ ~IsBlocked(frame[t].user)
    /\ \/ \* wrong password
          Goto(t, "RecordFailure", f) /\ UNCHANGED challenges
       \/ /\ frame[t].secret # NoSecret
          /\ \/ BeginTOTPLogin(t)
             \/ Fails("crypto") /\ EndLogin(t)
       \/ /\ frame[t].secret = NoSecret
          /\ Goto(t, "Reset", f)
          /\ UNCHANGED challenges
    /\ UNCHANGED <<now, lsVars, dbVars, token>>

\* A blank code, end of input or an interrupt at the prompt.
CancelTOTPLogin(t) ==
    /\ pc[t] = "EnterLoginCode"
    /\ EndLogin(t)
    /\ UNCHANGED <<now, lsVars, dbVars, token>>

\* Mutant: challenges do not expire.
CompleteTOTPLoginLate(t, code) ==
    LET pending == challenges[t][frame[t].challenge] IN
    /\ pc[t] = "EnterLoginCode"
    /\ Goto(t, "IsBlocked", [frame[t] EXCEPT !.user = pending.user, !.code = code,
                                 !.secret = totp[pending.user], !.read = now])
    /\ UNCHANGED <<now, lsVars, dbVars, token, challenges>>

(***************************************************************************)
(* CompleteTOTPLogin up to FindByID.  A challenge that is missing or has   *)
(* expired ends the dialog, and so does a failing FindByID.                *)
(***************************************************************************)
CompleteTOTPLogin(t, code) ==
    LET pending == challenges[t][frame[t].challenge] IN
    /\ pc[t] = "EnterLoginCode"
    /\ \/ /\ now < pending.expires
          /\ Goto(t, "IsBlocked", [frame[t] EXCEPT !.user = pending.user, !.code = code,
                                       !.secret = totp[pending.user], !.read = now])
          /\ UNCHANGED challenges
       \/ /\ now >= pending.expires \/ Fails("postgres")
          /\ EndLogin(t)
    /\ UNCHANGED <<now, lsVars, dbVars, token>>

\* Mutant: the block is not looked at again for the code.
VerifyLoginCodeBlocked(t) ==
    LET f == [frame[t] EXCEPT !.checked = now] IN
    /\ pc[t] = "IsBlocked"
    /\ frame[t].call = "CompleteTOTPLogin"
    /\ frame[t].secret # NoSecret
    /\ Goto(t, IF frame[t].code = frame[t].secret THEN "Reset" ELSE "RecordFailure", f)
    /\ UNCHANGED <<now, lsVars, dbVars, token, challenges>>

\* Mutant: the code is not compared with the secret.
VerifyLoginCodeAny(t) ==
    /\ pc[t] = "IsBlocked"
    /\ frame[t].call = "CompleteTOTPLogin"
    /\ ~IsBlocked(frame[t].user)
    /\ Goto(t, "Reset", frame[t])
    /\ UNCHANGED <<now, lsVars, dbVars, token, challenges>>

\* CompleteTOTPLogin after IsBlocked said no, with the row FindByID returned:
\* not enrolled any more, a secret that cannot be decrypted, or a code to compare.
VerifyLoginCode(t) ==
    LET f == [frame[t] EXCEPT !.checked = now] IN
    /\ pc[t] = "IsBlocked"
    /\ frame[t].call = "CompleteTOTPLogin"
    /\ ~IsBlocked(frame[t].user)
    /\ \/ /\ frame[t].secret = NoSecret \/ Fails("crypto")
          /\ EndLogin(t)
       \/ /\ frame[t].secret # NoSecret
          /\ Goto(t, IF frame[t].code = frame[t].secret THEN "Reset" ELSE "RecordFailure", f)
          /\ UNCHANGED challenges
    /\ UNCHANGED <<now, lsVars, dbVars, token>>

\* Mutant: the challenge outlives a dialog that ends with a locked account.
AfterFailureKeeps(t, reply) ==
    IF reply = "counted" /\ frame[t].challenge # NoChallenge
    THEN AskCode(t, frame[t].user, frame[t].challenge) /\ UNCHANGED challenges
    ELSE Return(t) /\ UNCHANGED challenges

\* Only a wrong code that does not block the account keeps the dialog open.
AfterFailure(t, reply) ==
    IF reply = "counted" /\ frame[t].challenge # NoChallenge
    THEN AskCode(t, frame[t].user, frame[t].challenge) /\ UNCHANGED challenges
    ELSE EndLogin(t)

\* failedLogin: RecordFailure answers, or its call or its reply is lost.
FailedLogin(t) ==
    LET u == frame[t].user IN
    /\ pc[t] = "RecordFailure"
    /\ \/ RecordFailure(u) /\ AfterFailure(t, RecordFailureReply(u))
       \/ /\ Fails("redis")
          /\ RecordFailure(u) \/ UNCHANGED lsVars
          /\ AfterFailure(t, "error")
    /\ UNCHANGED <<now, dbVars, token>>

\* Mutant: the login ends the block but keeps the count of failures.
FinishLoginKeepsCount(t) ==
    LET u == frame[t].user IN
    /\ pc[t] = "Reset"
    /\ blockedUntil' = [blockedUntil EXCEPT ![u] = 0]
    /\ strikes' = [strikes EXCEPT ![u] = 0]
    /\ Goto(t, "FinalizeLogin", [frame[t] EXCEPT !.checked = 0, !.at = now])
    /\ UNCHANGED <<now, failures, dbVars, token, challenges>>

\* finishLogin: Reset, then FinalizeLogin reads the clock.
FinishLogin(t) ==
    LET u == frame[t].user IN
    /\ pc[t] = "Reset"
    /\ \/ /\ Reset(u)
          /\ Goto(t, "FinalizeLogin", [frame[t] EXCEPT !.checked = 0, !.at = now])
          /\ UNCHANGED challenges
       \/ /\ Fails("redis")
          /\ Reset(u) \/ UNCHANGED lsVars
          /\ EndLogin(t)
    /\ UNCHANGED <<now, dbVars, token>>

(***************************************************************************)
(* FinalizeLogin commits, rolls back, or commits without this process      *)
(* learning of it.  Only the first stores the new token k.                 *)
(***************************************************************************)
FinalizeLogin(t, k) ==
    /\ pc[t] = "FinalizeLogin"
    /\ \/ CommitLogin(frame[t].user, frame[t].at, k) /\ SetSession(t, k)
       \/ /\ Fails("postgres")
          /\ CommitLogin(frame[t].user, frame[t].at, k) \/ UNCHANGED dbVars
          /\ UNCHANGED token
    /\ EndLogin(t)
    /\ UNCHANGED <<now, lsVars>>
-----------------------------------------------------------------------------
Pendings == [user : Users \cup {NoUser}, expires : Nat]

AuthTypeOK == challenges \in [Terminals -> [ChallengeIds -> Pendings]]
=============================================================================
