---------------------------- MODULE TOTPService ----------------------------
(***************************************************************************)
(* Enabling and disabling two-factor authentication                        *)
(* (internal/service/totp/service.go, internal/handler/totp/handler.go).   *)
(* A process keeps its pending setups in two maps: byUser, and bySession   *)
(* from the hash of the session that began the setup to its user.          *)
(***************************************************************************)
EXTENDS SessionService

CONSTANT SetupTimeout       \* TOTP_SETUP_TIMEOUT

ASSUME SetupTimeoutAssumption == SetupTimeout \in Nat \ {0}

VARIABLES byUser, bySession

totpVars == <<byUser, bySession>>

NoSetup == [secret |-> NoSecret, expires |-> 0, session |-> NoToken]

TOTPInit == /\ byUser = [t \in Terminals |-> [u \in Users |-> NoSetup]]
            /\ bySession = [t \in Terminals |-> [k \in Tokens |-> NoUser]]

\* removeSetup, for the pending setup of user u
RemoveSetup(t, u) ==
    /\ byUser' = [byUser EXCEPT ![t] = [v \in Users |-> IF v = u THEN NoSetup ELSE @[v]]]
    /\ bySession' = [bySession EXCEPT ![t] =
         [k \in Tokens |-> IF k = byUser[t][u].session THEN NoUser ELSE @[k]]]

ClearPendingSetups(t) ==
    /\ byUser' = [byUser EXCEPT ![t] = [u \in Users |-> NoSetup]]
    /\ bySession' = [bySession EXCEPT ![t] = [k \in Tokens |-> NoUser]]

BeginSetup(t) ==
    /\ Dispatch(t, "enable-2fa")
    /\ ValidateSession(t, [Idle EXCEPT !.call = "BeginSetup"])
    /\ UNCHANGED totpVars

AskSetupCode(t) == Goto(t, "EnterSetupCode", [Idle EXCEPT !.call = "ConfirmSetup"])

\* BeginSetup after ValidateSession: the user is enrolled already, or no key is generated.
RefuseSetup(t) ==
    /\ pc[t] = "FindUser"
    /\ frame[t].call = "BeginSetup"
    /\ TOTPEnabled(frame[t].user) \/ Fails("crypto")
    /\ Return(t)
    /\ UNCHANGED <<now, lsVars, dbVars, token, totpVars>>

\* Mutant: the session of a replaced setup stays in bySession.
StoreSetupKeepsIndex(t, s) ==
    LET u == frame[t].user  k == token[t] IN
    /\ pc[t] = "FindUser" /\ frame[t].call = "BeginSetup" /\ ~TOTPEnabled(u)
    /\ byUser' = [byUser EXCEPT ![t] = [v \in Users |->
         IF v = u THEN [secret |-> s, expires |-> now + SetupTimeout, session |-> k] ELSE @[v]]]
    /\ bySession' = [bySession EXCEPT ![t] = [j \in Tokens |-> IF j = k THEN u ELSE @[j]]]
    /\ AskSetupCode(t)
    /\ UNCHANGED <<now, lsVars, dbVars, token>>

\* Mutant: a setup that is already pending is kept.
StoreSetupOnce(t, s) ==
    LET u == frame[t].user  k == token[t] IN
    /\ pc[t] = "FindUser" /\ frame[t].call = "BeginSetup" /\ ~TOTPEnabled(u)
    /\ IF byUser[t][u] # NoSetup THEN UNCHANGED totpVars
       ELSE /\ byUser' = [byUser EXCEPT ![t] = [v \in Users |->
                 IF v = u THEN [secret |-> s, expires |-> now + SetupTimeout, session |-> k] ELSE @[v]]]
            /\ bySession' = [bySession EXCEPT ![t] = [j \in Tokens |-> IF j = k THEN u ELSE @[j]]]
    /\ AskSetupCode(t)
    /\ UNCHANGED <<now, lsVars, dbVars, token>>

(***************************************************************************)
(* BeginSetup after ValidateSession: s is the generated secret.  A setup   *)
(* an earlier session left behind is replaced in both maps.                *)
(***************************************************************************)
StoreSetup(t, s) ==
    LET u == frame[t].user  k == token[t] IN
    /\ pc[t] = "FindUser"
    /\ frame[t].call = "BeginSetup"
    /\ ~TOTPEnabled(u)
    /\ byUser' = [byUser EXCEPT ![t] = [v \in Users |->
         IF v = u THEN [secret |-> s, expires |-> now + SetupTimeout, session |-> k]
         ELSE @[v]]]
    /\ bySession' = [bySession EXCEPT ![t] = [j \in Tokens |->
         IF j = k THEN u ELSE IF j = byUser[t][u].session THEN NoUser ELSE @[j]]]
    /\ AskSetupCode(t)
    /\ UNCHANGED <<now, lsVars, dbVars, token>>

\* A blank code, end of input or an interrupt at the prompt.
CancelSetup(t) ==
    LET u == bySession[t][token[t]] IN
    /\ pc[t] = "EnterSetupCode"
    /\ Return(t)
    /\ IF u # NoUser /\ byUser[t][u].session = token[t]
       THEN RemoveSetup(t, u)
       ELSE UNCHANGED totpVars
    /\ UNCHANGED <<now, lsVars, dbVars, token>>

\* A code is entered.  When ValidateSession fails the pending setup stays.
ConfirmSetup(t, code) ==
    /\ pc[t] = "EnterSetupCode"
    /\ ValidateSession(t, [Idle EXCEPT !.call = "ConfirmSetup", !.code = code])
    /\ UNCHANGED totpVars

\* Mutant: pending setups do not expire.
CheckSetupCodeLate(t) ==
    LET u == frame[t].user  setup == byUser[t][u]  IN
    /\ pc[t] = "FindUser" /\ frame[t].call = "ConfirmSetup"
    /\ IF frame[t].code = setup.secret
       THEN Goto(t, "EnableTOTP", [frame[t] EXCEPT !.secret = setup.secret])
       ELSE AskSetupCode(t)
    /\ UNCHANGED <<now, lsVars, dbVars, token, totpVars>>

\* ConfirmSetup after ValidateSession: the user's row arrives.  The setup
\* stays when its secret cannot be encrypted.
CheckSetupCode(t) ==
    LET u == frame[t].user  setup == byUser[t][u]  IN
    /\ pc[t] = "FindUser"
    /\ frame[t].call = "ConfirmSetup"
    /\ \/ /\ now >= setup.expires \/ TOTPEnabled(u)
          /\ Return(t)
          /\ RemoveSetup(t, u)
       \/ /\ now < setup.expires /\ ~TOTPEnabled(u)
          /\ \/ /\ frame[t].code = setup.secret
                /\ \/ Goto(t, "EnableTOTP", [frame[t] EXCEPT !.secret = setup.secret])
                   \/ Fails("crypto") /\ Return(t)
             \/ frame[t].code # setup.secret /\ AskSetupCode(t)
          /\ UNCHANGED totpVars
    /\ UNCHANGED <<now, lsVars, dbVars, token>>

\* The setup is removed once the row is written or found enrolled already,
\* and stays when the store fails, whether or not the row was written.
ConfirmEnrollment(t) ==
    LET u == frame[t].user  enrol == EnableTOTP(u, frame[t].secret) IN
    /\ pc[t] = "EnableTOTP"
    /\ Return(t)
    /\ \/ enrol /\ RemoveSetup(t, u)
       \/ /\ Fails("postgres")
          /\ enrol \/ UNCHANGED <<totp, enrolledAt>>
          /\ UNCHANGED totpVars
    /\ UNCHANGED <<now, lsVars, lastLogin, sessions, token>>

\* disable-2fa: password and code are typed before the session is validated.
Disable(t, code) ==
    /\ Dispatch(t, "disable-2fa")
    /\ ValidateSession(t, [Idle EXCEPT !.call = "Disable", !.code = code])
    /\ UNCHANGED totpVars

DisableSessionUser(t) ==
    /\ pc[t] = "FindUser"
    /\ frame[t].call = "Disable"
    /\ Goto(t, "DisableFindUser", frame[t])
    /\ UNCHANGED <<now, lsVars, dbVars, token, totpVars>>

\* Mutant: the code is not validated.
CheckDisableAny(t) ==
    LET u == frame[t].user IN
    /\ pc[t] = "DisableFindUser"
    /\ IF TOTPEnabled(u) THEN Goto(t, "DisableTOTP", [frame[t] EXCEPT !.secret = totp[u], !.read = now])
                         ELSE Return(t)
    /\ UNCHANGED <<now, lsVars, dbVars, token, totpVars>>

(***************************************************************************)
(* Disable reads the user's row again; password and code are checked       *)
(* against that row.  It gives up when the user is not enrolled, when      *)
(* either is wrong, or when the read fails.                                *)
(***************************************************************************)
CheckDisable(t) ==
    LET u == frame[t].user IN
    /\ pc[t] = "DisableFindUser"
    /\ \/ /\ TOTPEnabled(u) /\ frame[t].code = totp[u]
          /\ Goto(t, "DisableTOTP", [frame[t] EXCEPT !.secret = totp[u], !.read = now])
       \/ Return(t)
    /\ UNCHANGED <<now, lsVars, dbVars, token, totpVars>>

CommitDisable(t) ==
    /\ pc[t] = "DisableTOTP"
    /\ \/ DisableTOTP(frame[t].user)
       \/ Fails("postgres") /\ UNCHANGED <<totp, enrolledAt>>
    /\ Return(t)
    /\ UNCHANGED <<now, lsVars, lastLogin, sessions, token, totpVars>>
-----------------------------------------------------------------------------
Setups == [secret : Codes, expires : Nat, session : Tokens \cup {NoToken}]

TOTPTypeOK == /\ byUser \in [Terminals -> [Users -> Setups]]
              /\ bySession \in [Terminals -> [Tokens -> Users \cup {NoUser}]]
=============================================================================
