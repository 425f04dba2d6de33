--------------------------- MODULE AuthCLI_steps ---------------------------
(***************************************************************************)
(* Proofs about the steps of the composed system.  It implements its two   *)
(* abstractions: Redis is used as LoginSecurity specifies, so that what is *)
(* proved of LoginSecurity alone holds of the whole system, and sessions   *)
(* live as SessionTable promises.  And its action properties: who may open *)
(* a session, enrol, disable, clear a count, end a block or lose a token.  *)
(***************************************************************************)
EXTENDS AuthCLI_proofs

\* Steps other than those of login leave Redis, and time, alone.
LEMMA OthersLeaveRedis ==
    ASSUME NEW t \in Terminals, Process(t), ~LoginStep(t)
    PROVE  UNCHANGED <<now, lsVars>>
<1>1. CASE Start(t) \/ Stop(t) \/ StartLogin(t)
    BY <1>1 DEF Start, StartProcess, Stop, StopProcess, StartLogin, LoginWithPassword
<1>2. CASE SessionStep(t)
    BY <1>2 DEF SessionStep, WhoAmI, WhoAmIUser, Logout, LogoutRevoke,
                SessionUserUnavailable, ValidateSession
<1>3. CASE StartSetup(t) \/ SetupStep(t)
    BY <1>3 DEF StartSetup, BeginSetup, SetupStep, RefuseSetup, StoreSetup, CancelSetup,
                ConfirmSetup, CheckSetupCode, ConfirmEnrollment, ValidateSession
<1>4. CASE DisableStep(t)
    BY <1>4 DEF DisableStep, Disable, DisableSessionUser, CheckDisable, CommitDisable,
                ValidateSession
<1> QED BY <1>1, <1>2, <1>3, <1>4 DEF Process

\* A step leaves Redis alone, lets time pass, records a failure, or is the
\* Reset of a login.
LEMMA RedisChange ==
    ASSUME IInv, [Next]_vars
    PROVE  \/ LSTick
           \/ UNCHANGED <<now, lsVars>>
           \/ \E t \in Terminals : /\ UNCHANGED now
                                   /\ frame[t].user \in Users
                                   /\ \/ RecordFailure(frame[t].user)
                                      \/ pc[t] = "Reset" /\ Reset(frame[t].user)
<1>1. CASE Tick \/ UNCHANGED vars
    BY <1>1 DEF Tick, vars
<1>2. ASSUME NEW t \in Terminals, LoginStep(t)
      PROVE  \/ UNCHANGED <<now, lsVars>>
             \/ /\ UNCHANGED now
                /\ frame[t].user \in Users
                /\ \/ RecordFailure(frame[t].user)
                   \/ pc[t] = "Reset" /\ Reset(frame[t].user)
  <2>1. CASE FailedLogin(t)
    <3>1. frame[t].user \in Users
        BY <2>1, LoginFacts DEF FailedLogin, LoginLabels
    <3> QED BY <2>1, <3>1 DEF FailedLogin
  <2>2. CASE FinishLogin(t)
    <3>1. frame[t].user \in Users
        BY <2>2, LoginFacts DEF FinishLogin, LoginLabels
    <3> QED BY <2>2, <3>1 DEF FinishLogin
  <2> QED BY <1>2, <2>1, <2>2
          DEF LoginStep, LoginBlocked, VerifyPassword, CancelTOTPLogin, CompleteTOTPLogin,
              VerifyLoginCode, FinalizeLogin
<1> QED BY <1>1, <1>2, OthersLeaveRedis DEF Next

LEMMA LSStep == IInv /\ [Next]_vars => [LSNext]_<<now, lsVars>>
<1> SUFFICES ASSUME IInv, [Next]_vars
             PROVE  [LSNext]_<<now, lsVars>>
    OBVIOUS
<1> QED BY RedisChange DEF LSNext, LSCall

\* Whatever the terminals do, and whatever fails, Redis sees the calls of LSSpec.
THEOREM LockoutCorrect == Spec => LockoutImplemented
<1>1. Init => LSInit
    BY DEF Init
<1> QED BY <1>1, LSStep, Invariant, PTL DEF Spec, LockoutImplemented, LSSpec

\* In the whole system the failure that reaches the limit blocks the account,
\* whichever terminals the failures came from.
THEOREM SystemBlocksAtLimit ==
    ASSUME LockoutMicros >= 1000
    PROVE  Spec => []MaxAttemptsBlocks
  BY LockoutCorrect, MaxAttemptsBlocksCorrect, PTL DEF LockoutImplemented

\* Nor does it block an account for which fewer failures were recorded.
THEOREM SystemBlocksOnlyAtLimit ==
    ASSUME LockoutMicros >= 1000
    PROVE  Spec => []BlockedOnlyAtLimit
  BY LockoutCorrect, LimitCorrect, PTL DEF LockoutImplemented

-----------------------------------------------------------------------------
(***************************************************************************)
(* What a command carries from one store call to the next: readings of the *)
(* clock, the user's row as it read it, and the code it was shown.         *)
(***************************************************************************)

\* The labels at which a command acts on the row it read earlier, and those
\* it reaches only after the second factor.
RowLabels == {"IsBlocked", "Reset", "FinalizeLogin", "DisableTOTP"}
VerifiedLabels == {"Reset", "FinalizeLogin", "DisableTOTP", "EnableTOTP"}

\* No clock reading a command keeps lies in the future.
ClocksPast == \A t \in Terminals : /\ frame[t].at <= now
                                   /\ frame[t].read <= now
                                   /\ frame[t].checked <= now

\* The secret a command read is the one stored, unless TOTP was disabled
\* since, or enabled at or after the read.
RowRemembered ==
    \A t \in Terminals :
        pc[t] \in RowLabels => \/ totp[frame[t].user] \in {NoSecret, frame[t].secret}
                               \/ enrolledAt[frame[t].user] >= frame[t].read

\* Past the second factor, the code shown was that of the secret read.
CodeVerified ==
    \A t \in Terminals :
        pc[t] \in VerifiedLabels => frame[t].secret \in {NoSecret, frame[t].code}

\* A block met by a Reset began after the login last looked for one.
BlockUnseen ==
    \A t \in Terminals :
        pc[t] = "Reset" /\ IsBlocked(frame[t].user) =>
            frame[t].checked + LockoutMillis <= blockedUntil[frame[t].user]

EvidenceInv == ClocksPast /\ RowRemembered /\ CodeVerified /\ BlockUnseen

\* The command of t may go on to label l with frame f: its clock readings are
\* the ones it had, none, or the present; a row is the one it had or has just
\* been read; a code was compared, and the block looked at.
ClocksKept(t, f) == /\ f.at \in {frame[t].at, 0, now}
                    /\ f.read \in {frame[t].read, 0, now}
                    /\ f.checked \in {frame[t].checked, 0, now}

RowKept(t, l, f) ==
    l \in RowLabels => \/ f.secret = totp[f.user] /\ f.read = now
                       \/ /\ pc[t] \in RowLabels
                          /\ f.user = frame[t].user
                          /\ f.secret = frame[t].secret
                          /\ f.read = frame[t].read

Evidence(t, l, f) == /\ ClocksKept(t, f)
                     /\ RowKept(t, l, f)
                     /\ l \in VerifiedLabels => f.secret \in {NoSecret, f.code}
                     /\ l = "Reset" => ~IsBlocked(f.user) /\ f.checked = now

Stays(t) == pc'[t] = pc[t] /\ frame'[t] = frame[t]

EvidenceKept == \A o \in Terminals : Stays(o) \/ Evidence(o, pc'[o], frame'[o])

LEMMA GotoKeeps ==
    ASSUME IInv, NEW t \in Terminals, NEW l, NEW f, Goto(t, l, f), Evidence(t, l, f)
    PROVE  EvidenceKept
<1>1. /\ pc'[t] = l /\ frame'[t] = f
      /\ \A o \in Terminals \ {t} : Stays(o)
    BY GotoMoves DEF IInv, TypeOK, Stays
<1> QED BY <1>1 DEF EvidenceKept

\* A frame without readings, at a label that needs no evidence.
LEMMA PlainEvidence ==
    ASSUME NEW t, NEW l, NEW f, l \notin RowLabels \cup VerifiedLabels,
           f.at = 0, f.read = 0, f.checked = 0
    PROVE  Evidence(t, l, f)
  BY DEF Evidence, ClocksKept, RowKept, RowLabels, VerifiedLabels

LEMMA ReturnKeeps ==
    ASSUME IInv, NEW t \in Terminals, Return(t)
    PROVE  EvidenceKept
<1>1. Idle.at = 0 /\ Idle.read = 0 /\ Idle.checked = 0
    BY DEF Idle
<1>2. Evidence(t, "ready", Idle)
    BY <1>1, PlainEvidence DEF RowLabels, VerifiedLabels
<1> QED BY <1>2, GotoKeeps DEF Return

\* The fields of the frame of a login whose block was looked at.
LEMMA CheckedFrame ==
    ASSUME IInv, NEW t \in Terminals
    PROVE  LET g == [frame[t] EXCEPT !.checked = now]
           IN  /\ g.checked = now /\ g.at = frame[t].at /\ g.read = frame[t].read
               /\ g.user = frame[t].user /\ g.secret = frame[t].secret /\ g.code = frame[t].code
  BY DEF IInv, TypeOK, TermTypeOK, Frames

LEMMA LoginKeeps ==
    ASSUME IInv, CodeVerified, NEW t \in Terminals, LoginStep(t)
    PROVE  EvidenceKept
<1>0. frame[t] \in Frames
    BY DEF IInv, TypeOK, TermTypeOK
<1>1. ASSUME NEW u, NEW c, AskCode(t, u, c)
      PROVE  EvidenceKept
  <2> DEFINE f == [Idle EXCEPT !.call = "CompleteTOTPLogin", !.user = u, !.challenge = c]
  <2>1. f.at = 0 /\ f.read = 0 /\ f.checked = 0
      BY DEF Idle
  <2>2. Goto(t, "EnterLoginCode", f)
      BY <1>1 DEF AskCode
  <2> HIDE DEF f
  <2>3. Evidence(t, "EnterLoginCode", f)
      BY <2>1, PlainEvidence DEF RowLabels, VerifiedLabels
  <2> QED BY <2>2, <2>3, GotoKeeps
<1>2. CASE EndLogin(t)
    BY <1>2, ReturnKeeps DEF EndLogin
<1>3. CASE LoginBlocked(t) \/ CancelTOTPLogin(t) \/ \E k \in FreshTokens : FinalizeLogin(t, k)
    BY <1>2, <1>3 DEF LoginBlocked, CancelTOTPLogin, FinalizeLogin
<1> DEFINE g == [frame[t] EXCEPT !.checked = now]
<1>4. /\ g.checked = now /\ g.at = frame[t].at /\ g.read = frame[t].read
      /\ g.user = frame[t].user /\ g.secret = frame[t].secret /\ g.code = frame[t].code
    BY CheckedFrame
<1>5. ASSUME Goto(t, "RecordFailure", g)
      PROVE  EvidenceKept
  <2> HIDE DEF g
  <2>1. Evidence(t, "RecordFailure", g)
      BY <1>4 DEF Evidence, ClocksKept, RowKept, RowLabels, VerifiedLabels
  <2> QED BY <1>5, <2>1, GotoKeeps
<1>6. ASSUME pc[t] = "IsBlocked", ~IsBlocked(frame[t].user),
             frame[t].secret \in {NoSecret, frame[t].code}, Goto(t, "Reset", g)
      PROVE  EvidenceKept
  <2> HIDE DEF g
  <2>1. Evidence(t, "Reset", g)
      BY <1>4, <1>6 DEF Evidence, ClocksKept, RowKept, RowLabels
  <2> QED BY <1>6, <2>1, GotoKeeps
<1>7. CASE VerifyPassword(t)
  <2>1. \/ Goto(t, "RecordFailure", g)
        \/ BeginTOTPLogin(t)
        \/ EndLogin(t)
        \/ frame[t].secret = NoSecret /\ Goto(t, "Reset", g)
      BY <1>7 DEF VerifyPassword
  <2>2. CASE BeginTOTPLogin(t)
      BY <1>1, <2>2 DEF BeginTOTPLogin
  <2>3. pc[t] = "IsBlocked" /\ ~IsBlocked(frame[t].user)
      BY <1>7 DEF VerifyPassword
  <2> HIDE DEF g
  <2> QED BY <1>2, <1>5, <1>6, <2>1, <2>2, <2>3
<1>8. CASE VerifyLoginCode(t)
  <2>1. \/ EndLogin(t)
        \/ Goto(t, "RecordFailure", g)
        \/ frame[t].code = frame[t].secret /\ Goto(t, "Reset", g)
      BY <1>8 DEF VerifyLoginCode
  <2>2. pc[t] = "IsBlocked" /\ ~IsBlocked(frame[t].user)
      BY <1>8 DEF VerifyLoginCode
  <2> HIDE DEF g
  <2> QED BY <1>2, <1>5, <1>6, <2>1, <2>2
<1>9. ASSUME NEW code \in Codes, CompleteTOTPLogin(t, code)
      PROVE  EvidenceKept
  <2> DEFINE u == challenges[t][frame[t].challenge].user
             f == [frame[t] EXCEPT !.user = u, !.code = code, !.secret = totp[u], !.read = now]
  <2>1. /\ f.at = frame[t].at /\ f.checked = frame[t].checked
        /\ f.user = u /\ f.secret = totp[u] /\ f.read = now
      BY <1>0 DEF Frames
  <2>2. EndLogin(t) \/ Goto(t, "IsBlocked", f)
      BY <1>9 DEF CompleteTOTPLogin
  <2> HIDE DEF f
  <2>3. Evidence(t, "IsBlocked", f)
      BY <2>1 DEF Evidence, ClocksKept, RowKept, VerifiedLabels
  <2> QED BY <1>2, <2>2, <2>3, GotoKeeps
<1>10. CASE FailedLogin(t)
  <2>1. EndLogin(t) \/ \E u, c : AskCode(t, u, c)
      BY <1>10 DEF FailedLogin, AfterFailure
  <2> QED BY <1>1, <1>2, <2>1
<1>11. CASE FinishLogin(t)
  <2> DEFINE f == [frame[t] EXCEPT !.checked = 0, !.at = now]
  <2>1. /\ f.at = now /\ f.checked = 0 /\ f.read = frame[t].read
        /\ f.user = frame[t].user /\ f.secret = frame[t].secret /\ f.code = frame[t].code
      BY <1>0 DEF Frames
  <2>2. EndLogin(t) \/ Goto(t, "FinalizeLogin", f)
      BY <1>11 DEF FinishLogin
  <2>3. pc[t] = "Reset" /\ frame[t].secret \in {NoSecret, frame[t].code}
      BY <1>11 DEF FinishLogin, CodeVerified, VerifiedLabels
  <2> HIDE DEF f
  <2>4. Evidence(t, "FinalizeLogin", f)
      BY <2>1, <2>3 DEF Evidence, ClocksKept, RowKept, RowLabels
  <2> QED BY <1>2, <2>2, <2>4, GotoKeeps
<1> QED BY <1>3, <1>7, <1>8, <1>9, <1>10, <1>11 DEF LoginStep

LEMMA ValidateSessionKeeps ==
    ASSUME IInv, NEW t \in Terminals, NEW f \in Frames,
           f.at = 0, f.read = 0, f.checked = 0, ValidateSession(t, f)
    PROVE  EvidenceKept
<1> DEFINE g == [f EXCEPT !.user = sessions[token[t]].user]
<1>1. g.at = 0 /\ g.read = 0 /\ g.checked = 0
    BY DEF Frames
<1>2. Return(t) \/ Goto(t, "FindUser", g)
    BY DEF ValidateSession
<1> HIDE DEF g
<1>3. Evidence(t, "FindUser", g)
    BY <1>1, PlainEvidence DEF RowLabels, VerifiedLabels
<1> QED BY <1>2, <1>3, GotoKeeps, ReturnKeeps

LEMMA CallFrameClocks ==
    ASSUME NEW call \in Calls, NEW code \in Codes
    PROVE  LET f == [Idle EXCEPT !.call = call]
               g == [Idle EXCEPT !.call = call, !.code = code]
           IN  /\ f.at = 0 /\ f.read = 0 /\ f.checked = 0
               /\ g.at = 0 /\ g.read = 0 /\ g.checked = 0
  BY DEF Idle

LEMMA OtherKeeps ==
    ASSUME IInv, NEW t \in Terminals, Process(t), ~LoginStep(t)
    PROVE  EvidenceKept
<1>0. frame[t] \in Frames
    BY DEF IInv, TypeOK, TermTypeOK
<1>1. CASE UNCHANGED <<pc, frame>> \/ Return(t)
    BY <1>1, ReturnKeeps DEF EvidenceKept, Stays
<1>2. CASE Start(t) \/ Stop(t)
  <2>1. Return(t) \/ UNCHANGED <<pc, frame>> \/ Goto(t, "down", Idle)
      BY <1>2 DEF Start, StartProcess, Stop, StopProcess
  <2>2. Idle.at = 0 /\ Idle.read = 0 /\ Idle.checked = 0
      BY DEF Idle
  <2>3. Evidence(t, "down", Idle)
      BY <2>2, PlainEvidence DEF RowLabels, VerifiedLabels
  <2> QED BY <1>1, <2>1, <2>3, GotoKeeps
<1>3. CASE StartLogin(t)
  <2> PICK u \in Users : LoginWithPassword(t, u)
      BY <1>3 DEF StartLogin
  <2> DEFINE f == [Idle EXCEPT !.call = "LoginWithPassword", !.user = u,
                               !.secret = totp[u], !.read = now]
  <2>1. /\ Goto(t, "IsBlocked", f)
        /\ f.at = 0 /\ f.checked = 0 /\ f.read = now /\ f.user = u /\ f.secret = totp[u]
      BY DEF LoginWithPassword, Idle
  <2> HIDE DEF f
  <2>2. Evidence(t, "IsBlocked", f)
      BY <2>1 DEF Evidence, ClocksKept, RowKept, VerifiedLabels
  <2> QED BY <2>1, <2>2, GotoKeeps
<1>4. ASSUME NEW call \in Calls, ValidateSession(t, [Idle EXCEPT !.call = call])
      PROVE  EvidenceKept
    BY <1>4, CallFrame, CallFrameClocks, ValidateSessionKeeps DEF Codes
<1>5. ASSUME NEW call \in Calls, NEW code \in Codes,
             ValidateSession(t, [Idle EXCEPT !.call = call, !.code = code])
      PROVE  EvidenceKept
    BY <1>5, CallFrame, CallFrameClocks, ValidateSessionKeeps
<1>6. ASSUME NEW l, NEW call \in Calls, Goto(t, l, [Idle EXCEPT !.call = call]),
             l \notin RowLabels \cup VerifiedLabels
      PROVE  EvidenceKept
    BY <1>6, CallFrameClocks, PlainEvidence, GotoKeeps DEF Codes
<1>7. CASE SessionStep(t)
  <2>1. \/ Return(t)
        \/ ValidateSession(t, [Idle EXCEPT !.call = "WhoAmI"])
        \/ Goto(t, "Revoke", [Idle EXCEPT !.call = "Logout"])
      BY <1>7 DEF SessionStep, WhoAmI, WhoAmIUser, Logout, LogoutRevoke, SessionUserUnavailable
  <2> QED BY <1>1, <1>4, <1>6, <2>1 DEF Calls, RowLabels, VerifiedLabels
<1>8. CASE StartSetup(t)
    BY <1>4, <1>8 DEF StartSetup, BeginSetup, Calls
<1>9. CASE SetupStep(t)
  <2> DEFINE s == byUser[t][frame[t].user].secret
             f == [frame[t] EXCEPT !.secret = s]
  <2>1. /\ f.at = frame[t].at /\ f.read = frame[t].read /\ f.checked = frame[t].checked
        /\ f.secret = s /\ f.code = frame[t].code
      BY <1>0 DEF Frames
  <2>2. \/ Return(t)
        \/ Goto(t, "EnterSetupCode", [Idle EXCEPT !.call = "ConfirmSetup"])
        \/ frame[t].code = s /\ Goto(t, "EnableTOTP", f)
        \/ \E code \in Codes :
              ValidateSession(t, [Idle EXCEPT !.call = "ConfirmSetup", !.code = code])
      BY <1>9 DEF SetupStep, RefuseSetup, StoreSetup, AskSetupCode, CancelSetup, ConfirmSetup,
                  CheckSetupCode, ConfirmEnrollment
  <2> HIDE DEF f
  <2>3. CASE frame[t].code = s /\ Goto(t, "EnableTOTP", f)
    <3>1. Evidence(t, "EnableTOTP", f)
        BY <2>1, <2>3 DEF Evidence, ClocksKept, RowKept, RowLabels
    <3> QED BY <2>3, <3>1, GotoKeeps
  <2> QED BY <1>1, <1>5, <1>6, <2>2, <2>3 DEF Calls, RowLabels, VerifiedLabels
<1>10. CASE DisableStep(t)
  <2> DEFINE f == [frame[t] EXCEPT !.secret = totp[frame[t].user], !.read = now]
  <2>1. /\ f.at = frame[t].at /\ f.checked = frame[t].checked /\ f.read = now
        /\ f.user = frame[t].user /\ f.secret = totp[frame[t].user] /\ f.code = frame[t].code
      BY <1>0 DEF Frames
  <2>2. \/ Return(t)
        \/ Goto(t, "DisableFindUser", frame[t])
        \/ frame[t].code = totp[frame[t].user] /\ Goto(t, "DisableTOTP", f)
        \/ \E code \in Codes :
              ValidateSession(t, [Idle EXCEPT !.call = "Disable", !.code = code])
      BY <1>10 DEF DisableStep, Disable, DisableSessionUser, CheckDisable, CommitDisable
  <2> HIDE DEF f
  <2>3. CASE Goto(t, "DisableFindUser", frame[t])
    <3>1. Evidence(t, "DisableFindUser", frame[t])
        BY DEF Evidence, ClocksKept, RowKept, RowLabels, VerifiedLabels
    <3> QED BY <2>3, <3>1, GotoKeeps
  <2>4. CASE frame[t].code = totp[frame[t].user] /\ Goto(t, "DisableTOTP", f)
    <3>1. Evidence(t, "DisableTOTP", f)
        BY <2>1, <2>4 DEF Evidence, ClocksKept, RowKept
    <3> QED BY <2>4, <3>1, GotoKeeps
  <2> QED BY <1>1, <1>5, <2>2, <2>3, <2>4 DEF Calls
<1> QED BY <1>2, <1>3, <1>7, <1>8, <1>9, <1>10 DEF Process

\* The rows of users change by EnableTOTP and DisableTOTP alone.
LEMMA RowChange ==
    ASSUME [Next]_vars
    PROVE  \/ UNCHANGED <<totp, enrolledAt>>
           \/ \E t \in Terminals : ConfirmEnrollment(t) \/ CommitDisable(t)
<1>1. CASE Tick \/ UNCHANGED vars
    BY <1>1 DEF Tick, vars, dbVars
<1>2. ASSUME NEW t \in Terminals, Start(t) \/ Stop(t) \/ StartLogin(t) \/ LoginStep(t)
      PROVE  UNCHANGED <<totp, enrolledAt>>
    BY <1>2 DEF Start, StartProcess, Stop, StopProcess, StartLogin, LoginWithPassword, LoginStep,
                LoginBlocked, VerifyPassword, CancelTOTPLogin, CompleteTOTPLogin, VerifyLoginCode,
                FailedLogin, FinishLogin, FinalizeLogin, CommitLogin, dbVars
<1>3. ASSUME NEW t \in Terminals, SessionStep(t) \/ StartSetup(t)
      PROVE  UNCHANGED <<totp, enrolledAt>>
    BY <1>3 DEF SessionStep, WhoAmI, WhoAmIUser, Logout, LogoutRevoke, SessionUserUnavailable,
                ValidateSession, StartSetup, BeginSetup, dbVars
<1>4. ASSUME NEW t \in Terminals, SetupStep(t) \/ DisableStep(t)
      PROVE  \/ UNCHANGED <<totp, enrolledAt>>
             \/ ConfirmEnrollment(t) \/ CommitDisable(t)
    BY <1>4 DEF SetupStep, RefuseSetup, StoreSetup, CancelSetup, ConfirmSetup, CheckSetupCode,
                DisableStep, Disable, DisableSessionUser, CheckDisable, ValidateSession, dbVars
<1> QED BY <1>1, <1>2, <1>3, <1>4 DEF Next, Process

\* A secret is removed, kept, or stored together with the time.
LEMMA RowEffect ==
    ASSUME IInv, [Next]_vars, NEW u \in Users
    PROVE  /\ totp'[u] \in {totp[u], NoSecret} \/ enrolledAt'[u] = now
           /\ enrolledAt'[u] \in {enrolledAt[u], now}
<1>1. totp \in [Users -> Secrets \cup {NoSecret}] /\ enrolledAt \in [Users -> Nat]
    BY DEF IInv, TypeOK, DBTypeOK
<1>2. ASSUME NEW t \in Terminals, ConfirmEnrollment(t)
      PROVE  /\ totp'[u] \in {totp[u], NoSecret} \/ enrolledAt'[u] = now
             /\ enrolledAt'[u] \in {enrolledAt[u], now}
    BY <1>1, <1>2 DEF ConfirmEnrollment, EnableTOTP
<1>3. ASSUME NEW t \in Terminals, CommitDisable(t)
      PROVE  /\ totp'[u] \in {totp[u], NoSecret} \/ enrolledAt'[u] = now
             /\ enrolledAt'[u] \in {enrolledAt[u], now}
    BY <1>1, <1>3 DEF CommitDisable, DisableTOTP
<1> QED BY <1>2, <1>3, RowChange

\* Time does not go back, and a block that is new ends one lockout from now.
LEMMA BlockEffect ==
    ASSUME IInv, [Next]_vars
    PROVE  /\ now \in Nat /\ now' \in Nat /\ now <= now'
           /\ \A u \in Users : \/ ~IsBlocked(u)'
                               \/ UNCHANGED blockedUntil[u] /\ IsBlocked(u)
                               \/ blockedUntil'[u] = now + LockoutMillis
<1> DEFINE Effect(u) == \/ ~IsBlocked(u)'
                        \/ UNCHANGED blockedUntil[u] /\ IsBlocked(u)
                        \/ blockedUntil'[u] = now + LockoutMillis
<1>1. now \in Nat /\ blockedUntil \in [Users -> Nat]
    BY DEF IInv, TypeOK, LSTypeOK
<1>2. [LSNext]_<<now, lsVars>>
    BY LSStep
<1>3. now' \in Nat /\ now <= now'
    BY <1>1, <1>2 DEF LSNext, LSTick, Advance
<1>4. ASSUME NEW u \in Users
      PROVE  Effect(u)
  <2>1. CASE LSTick
      BY <1>1, <2>1 DEF LSTick, IsBlocked
  <2>2. ASSUME NEW v \in Users, RecordFailure(v)
        PROVE  Effect(u)
      BY <1>1, <2>2 DEF RecordFailure, IsBlocked, lsVars
  <2>3. ASSUME NEW v \in Users, Reset(v)
        PROVE  Effect(u)
      BY <1>1, <2>3 DEF Reset, IsBlocked
  <2>4. CASE UNCHANGED lsVars
      BY <2>4 DEF IsBlocked, lsVars
  <2> QED BY <1>2, <2>1, <2>2, <2>3, <2>4 DEF LSNext, LSCall
<1> QED BY <1>1, <1>3, <1>4

LEMMA EvidenceStep == IInv /\ EvidenceInv /\ [Next]_vars => EvidenceInv'
<1> SUFFICES ASSUME IInv, EvidenceInv, [Next]_vars
             PROVE  EvidenceInv'
    OBVIOUS
<1>1. /\ now \in Nat /\ now' \in Nat /\ now <= now'
      /\ \A u \in Users : \/ ~IsBlocked(u)'
                          \/ UNCHANGED blockedUntil[u] /\ IsBlocked(u)
                          \/ blockedUntil'[u] = now + LockoutMillis
    BY BlockEffect
<1>2. EvidenceKept
  <2>1. CASE Tick \/ UNCHANGED vars
      BY <2>1 DEF Tick, vars, termVars, EvidenceKept, Stays
  <2> QED BY <2>1, LoginKeeps, OtherKeeps DEF Next, EvidenceInv
<1>3. IInv' /\ enrolledAt \in [Users -> Nat] /\ blockedUntil \in [Users -> Nat]
    BY NextInv DEF IInv, TypeOK, DBTypeOK, LSTypeOK
<1>4. ASSUME NEW o \in Terminals
      PROVE  /\ frame[o].at \in Nat /\ frame[o].read \in Nat /\ frame[o].checked \in Nat
             /\ frame'[o].read \in Nat /\ frame'[o].checked \in Nat
    BY <1>3 DEF IInv, TypeOK, TermTypeOK, Frames
<1>5. ClocksPast'
    BY <1>1, <1>2, <1>4 DEF EvidenceKept, Stays, Evidence, ClocksKept, EvidenceInv, ClocksPast
<1>6. ASSUME NEW o \in Terminals, pc'[o] \in RowLabels
      PROVE  frame'[o].user \in Users
    BY <1>3, <1>6 DEF IInv, CommandContext, Fits, RowLabels, LoginLabels, SessionUserLabels
<1>7. RowRemembered'
  <2> SUFFICES ASSUME NEW o \in Terminals, pc'[o] \in RowLabels
               PROVE  \/ totp'[frame'[o].user] \in {NoSecret, frame'[o].secret}
                      \/ enrolledAt'[frame'[o].user] >= frame'[o].read
      BY DEF RowRemembered
  <2> DEFINE u == frame'[o].user
  <2>1. /\ u \in Users
        /\ totp'[u] \in {totp[u], NoSecret} \/ enrolledAt'[u] = now
        /\ enrolledAt'[u] \in {enrolledAt[u], now}
      BY <1>6, RowEffect
  <2>2. frame'[o].read <= now
      BY <1>1, <1>2, <1>4 DEF EvidenceKept, Stays, Evidence, ClocksKept, EvidenceInv, ClocksPast
  <2>3. \/ totp[u] \in {NoSecret, frame'[o].secret}
        \/ enrolledAt[u] >= frame'[o].read
      BY <1>2 DEF EvidenceKept, Stays, Evidence, RowKept, EvidenceInv, RowRemembered
  <2>4. enrolledAt[u] \in Nat /\ frame'[o].read \in Nat
      BY <1>3, <1>4, <2>1
  <2> HIDE DEF u
  <2>5. totp'[u] \in {NoSecret, frame'[o].secret} \/ enrolledAt'[u] >= frame'[o].read
      BY <1>1, <2>1, <2>2, <2>3, <2>4
  <2> QED BY <2>5 DEF u
<1>8. CodeVerified'
    BY <1>2 DEF EvidenceKept, Stays, Evidence, EvidenceInv, CodeVerified
<1>9. BlockUnseen'
  <2> SUFFICES ASSUME NEW o \in Terminals, pc'[o] = "Reset", IsBlocked(frame[o].user)'
               PROVE  frame'[o].checked + LockoutMillis <= blockedUntil'[frame'[o].user]
      BY DEF BlockUnseen
  <2> DEFINE u == frame'[o].user
  <2>1. /\ u \in Users
        /\ \/ blockedUntil'[u] = blockedUntil[u] /\ blockedUntil[u] # 0
           \/ blockedUntil'[u] = now + LockoutMillis
      BY <1>1, <1>6 DEF RowLabels, IsBlocked
  <2>2. \/ pc[o] = "Reset" /\ frame'[o] = frame[o]
        \/ blockedUntil[u] = 0 /\ frame'[o].checked = now
      BY <1>2 DEF EvidenceKept, Stays, Evidence, IsBlocked
  <2>3. frame'[o].checked <= now
      BY <1>1, <2>2 DEF EvidenceInv, ClocksPast
  <2>4. LockoutMillis \in Nat /\ frame'[o].checked \in Nat
      BY <1>4, LockoutMillisNat
  <2>5. CASE blockedUntil'[u] = blockedUntil[u] /\ blockedUntil[u] # 0
      BY <2>2, <2>5 DEF EvidenceInv, BlockUnseen, IsBlocked
  <2> HIDE DEF u
  <2>6. CASE blockedUntil'[u] = now + LockoutMillis
      BY <1>1, <2>3, <2>4, <2>6 DEF u
  <2> QED BY <2>1, <2>5, <2>6 DEF u
<1> QED BY <1>5, <1>7, <1>8, <1>9 DEF EvidenceInv

LEMMA EvidenceInitially == Init => EvidenceInv
<1> SUFFICES ASSUME Init
             PROVE  EvidenceInv
    OBVIOUS
<1>1. /\ now = 1
      /\ \A t \in Terminals : /\ pc[t] = "down" /\ frame[t].at = 0
                              /\ frame[t].read = 0 /\ frame[t].checked = 0
    BY DEF Init, TermInit, LSInit, ClockInit, Idle
<1> QED BY <1>1 DEF EvidenceInv, ClocksPast, RowRemembered, CodeVerified, BlockUnseen,
                    RowLabels, VerifiedLabels

\* What commands carry from one store call to the next stays true: each
\* acts on evidence that is at most as old as its last read.
THEOREM EvidenceCorrect == Spec => []EvidenceInv
  BY EvidenceInitially, EvidenceStep, Invariant, PTL DEF Spec

-----------------------------------------------------------------------------
\* A command at a label past the second factor has shown it for its user.
LEMMA VerifiedShown ==
    ASSUME EvidenceInv, NEW t \in Terminals, pc[t] \in RowLabels \cap VerifiedLabels
    PROVE  SecondFactorShown(t, frame[t].user)
  BY DEF EvidenceInv, RowRemembered, CodeVerified, SecondFactorShown

\* An enrolment stores a secret whose code was confirmed, and replaces none.
THEOREM EnrolmentConfirmed == Spec => EnrolledSecretConfirmed
<1> DEFINE Step ==
        \A u \in Users :
            totp'[u] \notin {totp[u], NoSecret} =>
                /\ totp[u] = NoSecret
                /\ \E t \in Terminals : /\ pc[t] = "EnableTOTP"
                                        /\ frame[t].user = u
                                        /\ frame[t].code = totp'[u]
<1>1. ASSUME IInv, EvidenceInv, [Next]_vars
      PROVE  Step
  <2> SUFFICES ASSUME NEW u \in Users, totp'[u] \notin {totp[u], NoSecret}
               PROVE  /\ totp[u] = NoSecret
                      /\ \E t \in Terminals : /\ pc[t] = "EnableTOTP"
                                              /\ frame[t].user = u
                                              /\ frame[t].code = totp'[u]
      OBVIOUS
  <2>1. totp \in [Users -> Secrets \cup {NoSecret}]
      BY <1>1 DEF IInv, TypeOK, DBTypeOK
  <2>2. ~\E t \in Terminals : CommitDisable(t)
      BY <2>1 DEF CommitDisable, DisableTOTP
  <2>3. PICK t \in Terminals : ConfirmEnrollment(t)
      BY <1>1, <2>2, RowChange
  <2>4. /\ pc[t] = "EnableTOTP"
        /\ totp' = [totp EXCEPT ![frame[t].user] = IF @ = NoSecret THEN frame[t].secret ELSE @]
      BY <2>3 DEF ConfirmEnrollment, EnableTOTP
  <2>5. frame[t].secret \in {NoSecret, frame[t].code}
      BY <1>1, <2>4 DEF EvidenceInv, CodeVerified, VerifiedLabels
  <2> QED BY <2>1, <2>4, <2>5
<1> QED BY <1>1, EvidenceCorrect, Invariant, PTL DEF Spec, EnrolledSecretConfirmed

\* TOTP is removed only past the check of a code, up to a new enrolment.
THEOREM RemovalCorrect == Spec => RemovalVerified
<1> DEFINE Step ==
        \A u \in Users :
            totp[u] # totp'[u] /\ totp'[u] = NoSecret =>
                \E t \in Terminals : /\ pc[t] = "DisableTOTP"
                                     /\ frame[t].user = u
                                     /\ SecondFactorShown(t, u)
<1>1. ASSUME IInv, EvidenceInv, [Next]_vars
      PROVE  Step
  <2> SUFFICES ASSUME NEW u \in Users, totp[u] # totp'[u], totp'[u] = NoSecret
               PROVE  \E t \in Terminals : /\ pc[t] = "DisableTOTP"
                                           /\ frame[t].user = u
                                           /\ SecondFactorShown(t, u)
      OBVIOUS
  <2>1. totp \in [Users -> Secrets \cup {NoSecret}]
      BY <1>1 DEF IInv, TypeOK, DBTypeOK
  <2>2. ~\E t \in Terminals : ConfirmEnrollment(t)
      BY <2>1 DEF ConfirmEnrollment, EnableTOTP
  <2>3. PICK t \in Terminals : CommitDisable(t)
      BY <1>1, <2>2, RowChange
  <2>4. pc[t] = "DisableTOTP" /\ frame[t].user = u
      BY <2>1, <2>3 DEF CommitDisable, DisableTOTP
  <2> QED BY <1>1, <2>4, VerifiedShown DEF RowLabels, VerifiedLabels
<1> QED BY <1>1, EvidenceCorrect, Invariant, PTL DEF Spec, RemovalVerified

\* A session is opened only past the second factor, up to a new enrolment.
THEOREM SecondFactorCorrect == Spec => SecondFactorRequired
<1> DEFINE Step ==
        \A k \in Tokens :
            Opened(k) => \E t \in Terminals : /\ pc[t] = "FinalizeLogin"
                                              /\ frame[t].user = sessions'[k].user
                                              /\ SecondFactorShown(t, frame[t].user)
<1>1. ASSUME IInv, EvidenceInv, [Next]_vars
      PROVE  Step
  <2> SUFFICES ASSUME NEW k \in Tokens, Opened(k)
               PROVE  \E t \in Terminals : /\ pc[t] = "FinalizeLogin"
                                           /\ frame[t].user = sessions'[k].user
                                           /\ SecondFactorShown(t, frame[t].user)
      OBVIOUS
  <2>1. sessions \in [Tokens -> Rows]
      BY <1>1 DEF IInv, TypeOK, DBTypeOK
  <2>2. PICK t \in Terminals, j \in FreshTokens : FinalizeLogin(t, j) /\ sessions' # sessions
    <3>1. CASE Tick \/ UNCHANGED vars
        BY <3>1 DEF Tick, vars, dbVars, Opened
    <3>2. ASSUME NEW t \in Terminals, Start(t)
          PROVE  FALSE
        BY <2>1, <3>2 DEF Start, StartProcess, DeleteExpired, Opened
    <3>3. ASSUME NEW t \in Terminals, LogoutRevoke(t)
          PROVE  FALSE
      <4>1. sessions[k].status = "absent" /\ sessions[k] \in Rows
          BY <2>1 DEF Opened, NoRow
      <4>2. [sessions[k] EXCEPT !.status = "absent"] = sessions[k]
          BY <4>1 DEF Rows
      <4>3. sessions'[k] = sessions[k]
          BY <2>1, <3>3, <4>1, <4>2 DEF LogoutRevoke, Revoke
      <4> QED BY <4>3 DEF Opened
    <3>4. ASSUME NEW t \in Terminals, Stop(t) \/ StartLogin(t) \/ StartSetup(t) \/ SetupStep(t)
                                       \/ DisableStep(t)
          PROVE  UNCHANGED sessions
        BY <3>4 DEF Stop, StopProcess, StartLogin, LoginWithPassword, StartSetup, BeginSetup,
                    SetupStep, RefuseSetup, StoreSetup, CancelSetup, ConfirmSetup, CheckSetupCode,
                    ConfirmEnrollment, DisableStep, Disable, DisableSessionUser, CheckDisable,
                    CommitDisable, ValidateSession, dbVars
    <3>5. ASSUME NEW t \in Terminals, SessionStep(t), ~LogoutRevoke(t)
          PROVE  UNCHANGED sessions
        BY <3>5 DEF SessionStep, WhoAmI, WhoAmIUser, Logout, SessionUserUnavailable,
                    ValidateSession, dbVars
    <3>6. ASSUME NEW t \in Terminals, LoginStep(t), ~\E j \in FreshTokens : FinalizeLogin(t, j)
          PROVE  UNCHANGED sessions
        BY <3>6 DEF LoginStep, LoginBlocked, VerifyPassword, CancelTOTPLogin, CompleteTOTPLogin,
                    VerifyLoginCode, FailedLogin, FinishLogin, dbVars
    <3>7. sessions' # sessions
        BY DEF Opened
    <3> QED BY <1>1, <3>1, <3>2, <3>3, <3>4, <3>5, <3>6, <3>7 DEF Next, Process
  <2>3. pc[t] = "FinalizeLogin" /\ CommitLogin(frame[t].user, frame[t].at, j)
      BY <2>2 DEF FinalizeLogin, dbVars
  <2>4. sessions'[k].user = frame[t].user
      BY <2>1, <2>3 DEF CommitLogin, CreateSession, Row, Opened
  <2> QED BY <1>1, <2>3, <2>4, VerifiedShown DEF RowLabels, VerifiedLabels
<1> QED BY <1>1, EvidenceCorrect, Invariant, PTL DEF Spec, SecondFactorRequired

\* The count of failures ends by the clock or by a login past its second factor.
THEOREM CountClearCorrect == Spec => CountClearedByFullLogin
<1> DEFINE Step ==
        \A u \in Users :
            strikes[u] > 0 /\ strikes'[u] = 0 =>
                \/ now' > now
                \/ \E t \in Terminals : /\ pc[t] = "Reset"
                                        /\ frame[t].user = u
                                        /\ SecondFactorShown(t, u)
<1>1. ASSUME IInv, EvidenceInv, [Next]_vars
      PROVE  Step
  <2> SUFFICES ASSUME NEW u \in Users, strikes[u] > 0, strikes'[u] = 0
               PROVE  \/ now' > now
                      \/ \E t \in Terminals : /\ pc[t] = "Reset"
                                              /\ frame[t].user = u
                                              /\ SecondFactorShown(t, u)
      OBVIOUS
  <2>1. now \in Nat /\ strikes \in [Users -> 0 .. MaxAttempts]
      BY <1>1 DEF IInv, TypeOK, LSTypeOK
  <2>2. CASE LSTick
      BY <2>1, <2>2 DEF LSTick, Advance
  <2>3. ~UNCHANGED lsVars
      BY <2>1 DEF lsVars
  <2>4. ASSUME NEW v \in Users, RecordFailure(v)
        PROVE  FALSE
      BY <2>1, <2>4 DEF RecordFailure, lsVars
  <2>5. ASSUME NEW t \in Terminals, pc[t] = "Reset", Reset(frame[t].user)
        PROVE  frame[t].user = u /\ SecondFactorShown(t, u)
    <3>1. frame[t].user = u
        BY <2>1, <2>5 DEF Reset
    <3> QED BY <1>1, <2>5, <3>1, VerifiedShown DEF RowLabels, VerifiedLabels
  <2> QED BY <1>1, <2>2, <2>3, <2>4, <2>5, RedisChange
<1> QED BY <1>1, EvidenceCorrect, Invariant, PTL DEF Spec, CountClearedByFullLogin

\* A block is cut short only by a login that last looked before it began.
THEOREM EarlyUnblockCorrect == Spec => EarlyUnblockOnlyByRacer
<1> DEFINE Step ==
        \A u \in Users :
            blockedUntil[u] > now' /\ ~IsBlocked(u)' =>
                \E t \in Terminals : /\ pc[t] = "Reset"
                                     /\ frame[t].user = u
                                     /\ frame[t].checked + LockoutMillis <= blockedUntil[u]
<1>1. ASSUME IInv, EvidenceInv, [Next]_vars
      PROVE  Step
  <2> SUFFICES ASSUME NEW u \in Users, blockedUntil[u] > now', ~IsBlocked(u)'
               PROVE  \E t \in Terminals : /\ pc[t] = "Reset"
                                           /\ frame[t].user = u
                                           /\ frame[t].checked + LockoutMillis <= blockedUntil[u]
      OBVIOUS
  <2>1. now \in Nat /\ now' \in Nat /\ blockedUntil \in [Users -> Nat]
      BY <1>1, BlockEffect DEF IInv, TypeOK, LSTypeOK
  <2>2. blockedUntil[u] # 0 /\ blockedUntil'[u] = 0
      BY <2>1 DEF IsBlocked
  <2>3. ~LSTick
      BY <2>1, <2>2 DEF LSTick, Advance
  <2>4. ~UNCHANGED lsVars
      BY <2>2 DEF lsVars
  <2>5. ASSUME NEW v \in Users, RecordFailure(v)
        PROVE  FALSE
      BY <2>1, <2>2, <2>5, LockoutMillisNat DEF RecordFailure, IsBlocked, lsVars
  <2>6. ASSUME NEW t \in Terminals, pc[t] = "Reset", Reset(frame[t].user)
        PROVE  /\ frame[t].user = u
               /\ frame[t].checked + LockoutMillis <= blockedUntil[u]
    <3>1. frame[t].user = u
        BY <2>1, <2>2, <2>6 DEF Reset
    <3> QED BY <1>1, <2>2, <2>6, <3>1 DEF EvidenceInv, BlockUnseen, IsBlocked
  <2> QED BY <1>1, <2>3, <2>4, <2>5, <2>6, RedisChange
<1> QED BY <1>1, EvidenceCorrect, Invariant, PTL DEF Spec, EarlyUnblockOnlyByRacer

\* Only exit, logout and the end of a session log a terminal out.
THEOREM TokenKeptCorrect == Spec => TokenKept
<1> DEFINE Step ==
        \A t \in Terminals :
            IsAuthenticated(t) /\ ~IsAuthenticated(t)' =>
                \/ pc'[t] = "down"
                \/ ~Live(token[t])
                \/ Logout(t) \/ LogoutRevoke(t)
<1>1. ASSUME IInv, [Next]_vars
      PROVE  Step
  <2> SUFFICES ASSUME NEW t \in Terminals, IsAuthenticated(t), ~IsAuthenticated(t)'
               PROVE  \/ pc'[t] = "down"
                      \/ ~Live(token[t])
                      \/ Logout(t) \/ LogoutRevoke(t)
      OBVIOUS
  <2>1. /\ token[t] # NoToken /\ token'[t] = NoToken
        /\ pc \in [Terminals -> Labels] /\ token \in [Terminals -> Tokens \cup {NoToken}]
      BY <1>1 DEF IsAuthenticated, IInv, TypeOK, TermTypeOK
  <2>2. ~UNCHANGED token
      BY <2>1
  <2>3. ASSUME NEW o \in Terminals, ClearSession(o)
        PROVE  o = t
      BY <2>1, <2>3 DEF ClearSession, SetSession
  <2>4. PICK o \in Terminals : Process(o)
      BY <1>1, <2>2 DEF Next, Tick, vars, termVars
  <2>5. CASE Stop(o)
    <3>1. ClearSession(o) /\ pc' = [pc EXCEPT ![o] = "down"]
        BY <2>5 DEF Stop, StopProcess, Goto
    <3> QED BY <2>1, <2>3, <3>1
  <2>6. ~LoginStep(o)
    <3>1. ASSUME NEW k \in FreshTokens, FinalizeLogin(o, k)
          PROVE  FALSE
      <4>1. k \in Tokens /\ SetSession(o, k)
          BY <2>2, <3>1 DEF FinalizeLogin, FreshTokens
      <4>2. token'[t] \in {token[t], k}
          BY <2>1, <4>1 DEF SetSession
      <4> QED BY <2>1, <4>1, <4>2, NullsAssumption
    <3> QED BY <2>2, <3>1 DEF LoginStep, LoginBlocked, VerifyPassword, CancelTOTPLogin,
                CompleteTOTPLogin, VerifyLoginCode, FailedLogin, FinishLogin
  <2>7. ~Start(o) /\ ~StartLogin(o)
      BY <2>2 DEF Start, StartProcess, StartLogin, LoginWithPassword
  <2>8. ASSUME NEW f, ValidateSession(o, f)
        PROVE  o = t /\ ~Live(token[t])
      BY <2>2, <2>3, <2>8 DEF ValidateSession
  <2>9. CASE SessionStep(o)
      BY <2>2, <2>3, <2>8, <2>9 DEF SessionStep, WhoAmI, WhoAmIUser, SessionUserUnavailable,
                                    Logout, LogoutRevoke
  <2>10. CASE StartSetup(o) \/ SetupStep(o)
      BY <2>2, <2>8, <2>10 DEF StartSetup, BeginSetup, SetupStep, RefuseSetup, StoreSetup,
                CancelSetup, ConfirmSetup, CheckSetupCode, ConfirmEnrollment
  <2>11. CASE DisableStep(o)
      BY <2>2, <2>8, <2>11 DEF DisableStep, Disable, DisableSessionUser, CheckDisable,
                CommitDisable
  <2> QED BY <2>4, <2>5, <2>6, <2>7, <2>9, <2>10, <2>11 DEF Process
<1> QED BY <1>1, Invariant, PTL DEF Spec, TokenKept

-----------------------------------------------------------------------------
\* A committed login opens a session; the reply may be lost.
LEMMA OpenStep ==
    ASSUME IInv, ClocksPast, NEW t \in Terminals, NEW k \in FreshTokens, FinalizeLogin(t, k)
    PROVE  [ST!STNext]_(ST!stVars)
<1> DEFINE u == frame[t].user
           d == frame[t].at + SessionTimeout
<1>1. u \in Users /\ token[t] = NoToken /\ d \in 1 .. now + SessionTimeout
  <2>1. pc[t] \in LoginLabels
      BY DEF FinalizeLogin, LoginLabels
  <2>2. u \in Users /\ token[t] = NoToken /\ frame[t] \in Frames
      BY <2>1, LoginFacts
  <2>3. frame[t].at \in Nat /\ now \in Nat /\ frame[t].at <= now
      BY <2>2 DEF Frames, ClocksPast, IInv, TypeOK, LSTypeOK
  <2> QED BY <2>2, <2>3, SessionTimeoutAssumption
<1>2. k \in Tokens /\ sessions[k] = NoRow /\ \A o \in Terminals : token[o] # k
    BY DEF FreshTokens
<1>3. CASE UNCHANGED dbVars /\ UNCHANGED token
    BY <1>3 DEF FinalizeLogin, dbVars, ST!stVars
<1>4. CASE CommitLogin(u, frame[t].at, k)
  <2>1. sessions' = [sessions EXCEPT ![k] = [status |-> "active", user |-> u, expires |-> d]]
      BY <1>4 DEF CommitLogin, CreateSession, Row
  <2>2. UNCHANGED now /\ (UNCHANGED token \/ token' = [token EXCEPT ![t] = k])
      BY <1>4 DEF FinalizeLogin, SetSession
  <2> HIDE DEF d
  <2>3. ST!Open(k, u, d)
      BY <1>1, <1>2, <2>1, <2>2 DEF ST!Open, ST!Held, ST!None, NoRow
  <2> QED BY <1>1, <1>2, <2>3 DEF ST!STNext
<1> QED BY <1>3, <1>4 DEF FinalizeLogin

\* Logout closes the session of its own terminal, unless another call or the
\* purge was faster, or the store fails.
LEMMA CloseStep ==
    ASSUME IInv, NEW t \in Terminals, LogoutRevoke(t)
    PROVE  [ST!STNext]_(ST!stVars)
<1>1. token[t] \in Tokens
    BY SessionFacts DEF LogoutRevoke, LoginLabels, SessionLabels
<1>2. UNCHANGED now /\ token' = [token EXCEPT ![t] = NoToken]
    BY DEF LogoutRevoke, ClearSession, SetSession
<1>3. CASE UNCHANGED sessions
    BY <1>2, <1>3 DEF ST!STNext, ST!Forget
<1>4. CASE Revoke(token[t])
  <2>1. CASE sessions[token[t]].status = "active"
    <3>1. sessions' = [sessions EXCEPT ![token[t]].status = "revoked"]
        BY <1>4, <2>1 DEF Revoke
    <3>2. token[t] # NoToken
        BY <1>1, NullsAssumption
    <3> QED BY <1>2, <2>1, <3>1, <3>2 DEF ST!STNext, ST!Close
  <2>2. CASE sessions[token[t]].status # "active"
    <3>1. sessions[token[t]] \in Rows /\ sessions \in [Tokens -> Rows]
        BY <1>1 DEF IInv, TypeOK, DBTypeOK
    <3>2. [sessions[token[t]] EXCEPT !.status = @] = sessions[token[t]]
        BY <3>1 DEF Rows
    <3>3. UNCHANGED sessions
        BY <1>1, <1>4, <2>2, <3>1, <3>2 DEF Revoke
    <3> QED BY <1>3, <3>3
  <2> QED BY <2>1, <2>2
<1> QED BY <1>3, <1>4 DEF LogoutRevoke

LEMMA STStep == IInv /\ ClocksPast /\ [Next]_vars => [ST!STNext]_(ST!stVars)
<1> SUFFICES ASSUME IInv, ClocksPast, [Next]_vars
             PROVE  [ST!STNext]_(ST!stVars)
    OBVIOUS
<1>1. CASE Tick
    BY <1>1 DEF Tick, LSTick, Advance, dbVars, termVars, ST!STNext, ST!Pass
<1>2. CASE UNCHANGED vars
    BY <1>2 DEF vars, dbVars, termVars, ST!stVars
<1>3. ASSUME NEW t \in Terminals, UNCHANGED <<now, sessions>>, SameOrNoToken(t)
      PROVE  [ST!STNext]_(ST!stVars)
    BY <1>3 DEF SameOrNoToken, ClearSession, SetSession, ST!STNext, ST!Forget, ST!stVars
<1>4. ASSUME NEW t \in Terminals, Start(t)
      PROVE  [ST!STNext]_(ST!stVars)
    BY <1>4 DEF Start, StartProcess, DeleteExpired, NoRow, ST!STNext, ST!Purge, ST!None
<1>5. ASSUME NEW t \in Terminals, Stop(t) \/ StartLogin(t)
      PROVE  [ST!STNext]_(ST!stVars)
    BY <1>3, <1>5 DEF Stop, StopProcess, StartLogin, LoginWithPassword, SameOrNoToken, dbVars
<1>6. ASSUME NEW t \in Terminals, LoginStep(t)
      PROVE  [ST!STNext]_(ST!stVars)
  <2>1. CASE \E k \in FreshTokens : FinalizeLogin(t, k)
      BY <2>1, OpenStep
  <2>2. CASE ~\E k \in FreshTokens : FinalizeLogin(t, k)
    <3>1. UNCHANGED <<now, dbVars, token>>
        BY <1>6, <2>2
        DEF LoginStep, LoginBlocked, VerifyPassword, CancelTOTPLogin, CompleteTOTPLogin,
            VerifyLoginCode, FailedLogin, FinishLogin
    <3> QED BY <1>3, <3>1 DEF SameOrNoToken, dbVars
  <2> QED BY <2>1, <2>2
<1>7. ASSUME NEW t \in Terminals, SessionStep(t)
      PROVE  [ST!STNext]_(ST!stVars)
  <2>1. CASE LogoutRevoke(t)
      BY <2>1, CloseStep
  <2>2. CASE ~LogoutRevoke(t)
    <3>1. UNCHANGED <<now, dbVars>> /\ SameOrNoToken(t)
        BY <1>7, <2>2 DEF SessionStep, WhoAmI, WhoAmIUser, Logout, SessionUserUnavailable,
                          ValidateSession, SameOrNoToken
    <3> QED BY <1>3, <3>1 DEF dbVars
  <2> QED BY <2>1, <2>2
<1>8. ASSUME NEW t \in Terminals, StartSetup(t) \/ SetupStep(t) \/ DisableStep(t)
      PROVE  [ST!STNext]_(ST!stVars)
  <2>1. CASE StartSetup(t) \/ SetupStep(t)
    <3>1. UNCHANGED <<now, sessions>> /\ SameOrNoToken(t)
        BY <2>1 DEF StartSetup, BeginSetup, SetupStep, RefuseSetup, StoreSetup, CancelSetup,
                    ConfirmSetup, CheckSetupCode, ConfirmEnrollment, ValidateSession,
                    SameOrNoToken, dbVars
    <3> QED BY <1>3, <3>1
  <2>2. CASE DisableStep(t)
    <3>1. UNCHANGED <<now, sessions>> /\ SameOrNoToken(t)
        BY <2>2 DEF DisableStep, Disable, DisableSessionUser, CheckDisable, CommitDisable,
                    ValidateSession, SameOrNoToken, dbVars
    <3> QED BY <1>3, <3>1
  <2> QED BY <1>8, <2>1, <2>2
<1> QED BY <1>1, <1>2, <1>4, <1>5, <1>6, <1>7, <1>8 DEF Next, Process

\* Commands, crashes, purges and lost replies implement the session table: a
\* session is opened once, closed by its holder alone, and forgotten when due.
THEOREM SessionTableCorrect == Spec => SessionTableImplemented
<1>1. Init => ST!STInit
    BY DEF Init, LSInit, ClockInit, DBInit, TermInit, ST!STInit, ST!None, NoRow
<1>2. EvidenceInv => ClocksPast
    BY DEF EvidenceInv
<1> QED BY <1>1, <1>2, STStep, EvidenceCorrect, Invariant, PTL
        DEF Spec, SessionTableImplemented, ST!STSpec

-----------------------------------------------------------------------------
(***************************************************************************)
(* What the session table means for the system, step by step.              *)
(***************************************************************************)

(***************************************************************************)
(* A session never changes its user or its deadline and is never reopened: *)
(* it is revoked by the terminal that holds it, which forgets it (Logout), *)
(* and deleted after its deadline (DeleteExpired).                         *)
(***************************************************************************)
SessionsFinal ==
    [][\A k \in Tokens :
          sessions[k] # NoRow =>
              \/ sessions'[k] = sessions[k]
              \/ sessions'[k] = NoRow /\ sessions[k].expires <= now
              \/ /\ sessions[k].status = "active"
                 /\ sessions'[k] = [sessions[k] EXCEPT !.status = "revoked"]
                 /\ \E t \in Terminals : token[t] = k /\ token'[t] = NoToken]_vars

\* A session's row ends by its holder or by its deadline, and never comes back.
THEOREM SessionsFinalCorrect == Spec => SessionsFinal
<1> DEFINE Step ==
        \A k \in Tokens :
            sessions[k] # NoRow =>
                \/ sessions'[k] = sessions[k]
                \/ sessions'[k] = NoRow /\ sessions[k].expires <= now
                \/ /\ sessions[k].status = "active"
                   /\ sessions'[k] = [sessions[k] EXCEPT !.status = "revoked"]
                   /\ \E t \in Terminals : token[t] = k /\ token'[t] = NoToken
<1>1. ASSUME IInv, ClocksPast, [Next]_vars
      PROVE  Step
  <2> SUFFICES ASSUME NEW k \in Tokens, sessions[k] # NoRow
               PROVE  \/ sessions'[k] = sessions[k]
                      \/ sessions'[k] = NoRow /\ sessions[k].expires <= now
                      \/ /\ sessions[k].status = "active"
                         /\ sessions'[k] = [sessions[k] EXCEPT !.status = "revoked"]
                         /\ \E t \in Terminals : token[t] = k /\ token'[t] = NoToken
      OBVIOUS
  <2>1. /\ sessions \in [Tokens -> Rows]
        /\ token \in [Terminals -> Tokens \cup {NoToken}]
      BY <1>1 DEF IInv, TypeOK, DBTypeOK, TermTypeOK
  <2>2. ASSUME NEW j \in Tokens, NEW u, NEW d, ST!Open(j, u, d)
        PROVE  sessions'[k] = sessions[k]
      BY <2>1, <2>2 DEF ST!Open, ST!None, NoRow
  <2>3. ASSUME NEW t \in Terminals, ST!Close(t)
        PROVE  \/ sessions'[k] = sessions[k]
               \/ /\ sessions[k].status = "active"
                  /\ sessions'[k] = [sessions[k] EXCEPT !.status = "revoked"]
                  /\ token[t] = k /\ token'[t] = NoToken
      BY <2>1, <2>3 DEF ST!Close
  <2>4. CASE ST!Purge
      BY <2>1, <2>4 DEF ST!Purge, ST!None, NoRow
  <2>5. CASE UNCHANGED sessions
      BY <2>5
  <2>6. [ST!STNext]_(ST!stVars)
      BY <1>1, STStep
  <2> QED BY <2>2, <2>3, <2>4, <2>5, <2>6 DEF ST!STNext, ST!Forget, ST!Pass, ST!stVars
<1>2. EvidenceInv => ClocksPast
    BY DEF EvidenceInv
<1> QED BY <1>1, <1>2, EvidenceCorrect, Invariant, PTL DEF Spec, SessionsFinal

(***************************************************************************)
(* Whoever becomes logged in holds the session this very login opened, for *)
(* the user whose password and second factor it checked.                   *)
(***************************************************************************)
OwnSession ==
    [][\A t \in Terminals :
          ~IsAuthenticated(t) /\ IsAuthenticated(t)' =>
              /\ pc[t] = "FinalizeLogin"
              /\ Opened(token'[t])
              /\ sessions'[token'[t]] = Row("active", frame[t].user, frame[t].at + SessionTimeout)
              /\ SecondFactorShown(t, frame[t].user)]_vars

\* A token is gained by the commit of a login alone.
LEMMA TokenGain ==
    ASSUME [Next]_vars, NEW t \in Terminals, TermTypeOK, token[t] = NoToken, token'[t] # NoToken
    PROVE  \E k \in FreshTokens : FinalizeLogin(t, k) /\ SetSession(t, k)
<1>1. ~UNCHANGED token
    OBVIOUS
<1>2. PICK o \in Terminals : Process(o)
    BY <1>1 DEF Next, Tick, vars, termVars
<1>3. ~ClearSession(o)
    BY DEF ClearSession, SetSession, TermTypeOK
<1>4. \A f : ~ValidateSession(o, f)
    BY <1>1, <1>3 DEF ValidateSession
<1>5. ~Start(o) /\ ~Stop(o) /\ ~StartLogin(o)
    BY <1>1, <1>3 DEF Start, StartProcess, Stop, StopProcess, StartLogin, LoginWithPassword
<1>6. ~SessionStep(o) /\ ~StartSetup(o)
    BY <1>1, <1>3, <1>4 DEF SessionStep, WhoAmI, WhoAmIUser, SessionUserUnavailable, Logout,
                            LogoutRevoke, StartSetup, BeginSetup
<1>7. ~SetupStep(o)
    BY <1>1, <1>4 DEF SetupStep, RefuseSetup, StoreSetup, CancelSetup, ConfirmSetup,
                      CheckSetupCode, ConfirmEnrollment
<1>8. ~DisableStep(o)
    BY <1>1, <1>4 DEF DisableStep, Disable, DisableSessionUser, CheckDisable, CommitDisable
<1>9. PICK k \in FreshTokens : FinalizeLogin(o, k)
    BY <1>1, <1>2, <1>5, <1>6, <1>7, <1>8
    DEF Process, LoginStep, LoginBlocked, VerifyPassword, CancelTOTPLogin, CompleteTOTPLogin,
        VerifyLoginCode, FailedLogin, FinishLogin
<1>10. SetSession(o, k)
    BY <1>1, <1>9 DEF FinalizeLogin
<1>11. o = t
    BY <1>10 DEF SetSession, TermTypeOK
<1> QED BY <1>9, <1>10, <1>11

\* Only its own login, past the second factor, gives a terminal a session.
THEOREM OwnSessionCorrect == Spec => OwnSession
<1> DEFINE Step ==
        \A t \in Terminals :
            ~IsAuthenticated(t) /\ IsAuthenticated(t)' =>
                /\ pc[t] = "FinalizeLogin"
                /\ Opened(token'[t])
                /\ sessions'[token'[t]] = Row("active", frame[t].user, frame[t].at + SessionTimeout)
                /\ SecondFactorShown(t, frame[t].user)
<1>1. ASSUME IInv, EvidenceInv, [Next]_vars
      PROVE  Step
  <2> SUFFICES ASSUME NEW t \in Terminals, ~IsAuthenticated(t), IsAuthenticated(t)'
               PROVE  /\ pc[t] = "FinalizeLogin"
                      /\ Opened(token'[t])
                      /\ sessions'[token'[t]] =
                             Row("active", frame[t].user, frame[t].at + SessionTimeout)
                      /\ SecondFactorShown(t, frame[t].user)
      OBVIOUS
  <2>1. /\ token[t] = NoToken /\ token'[t] # NoToken /\ TermTypeOK
        /\ sessions \in [Tokens -> Rows]
      BY <1>1 DEF IsAuthenticated, IInv, TypeOK, DBTypeOK
  <2>2. PICK k \in FreshTokens : FinalizeLogin(t, k) /\ SetSession(t, k)
      BY <1>1, <2>1, TokenGain
  <2>3. /\ k \in Tokens /\ sessions[k] = NoRow /\ token'[t] = k
        /\ pc[t] = "FinalizeLogin"
      BY <2>1, <2>2 DEF FreshTokens, SetSession, TermTypeOK, FinalizeLogin
  <2>4. CommitLogin(frame[t].user, frame[t].at, k)
      BY <2>1, <2>2, <2>3 DEF FinalizeLogin
  <2>5. sessions'[k] = Row("active", frame[t].user, frame[t].at + SessionTimeout)
      BY <2>1, <2>3, <2>4 DEF CommitLogin, CreateSession
  <2>6. sessions'[k] # NoRow
      BY <2>5 DEF Row, NoRow
  <2> QED BY <1>1, <2>3, <2>5, <2>6, VerifiedShown DEF Opened, RowLabels, VerifiedLabels
<1> QED BY <1>1, EvidenceCorrect, Invariant, PTL DEF Spec, OwnSession

-----------------------------------------------------------------------------
(***************************************************************************)
(* No deadline is further away than its timeout: neither a session, whose  *)
(* deadline is computed before the transaction that writes it, nor a       *)
(* pending login or setup that survives failures of the stores.            *)
(***************************************************************************)
DeadlinesBounded ==
    /\ \A k \in Tokens : sessions[k].expires <= now + SessionTimeout
    /\ \A t \in Terminals :
          /\ \A c \in ChallengeIds : challenges[t][c].expires <= now + ChallengeTimeout
          /\ \A u \in Users : byUser[t][u].expires <= now + SetupTimeout

\* Deadlines stay, are dropped, or are set one timeout from now.
DeadlineSet(old, new, timeout) == new \in {old, 0, now + timeout}

ChallengesSet ==
    \A t \in Terminals, c \in ChallengeIds :
        DeadlineSet(challenges[t][c].expires, challenges'[t][c].expires, ChallengeTimeout)

SetupsSet ==
    \A t \in Terminals, u \in Users :
        DeadlineSet(byUser[t][u].expires, byUser'[t][u].expires, SetupTimeout)

LEMMA ChallengeDeadlines == ASSUME IInv, [Next]_vars PROVE ChallengesSet
<1>0. /\ challenges \in [Terminals -> [ChallengeIds -> Pendings]]
      /\ NoPending.expires = 0
    BY DEF IInv, TypeOK, AuthTypeOK, NoPending
<1>1. CASE UNCHANGED challenges
    BY <1>1 DEF ChallengesSet, DeadlineSet
<1>2. ASSUME NEW t \in Terminals, NEW c, DropChallenge(t, c)
      PROVE  ChallengesSet
    BY <1>0, <1>2 DEF DropChallenge, ChallengesSet, DeadlineSet
<1>3. ASSUME NEW t \in Terminals, ClearChallenges(t)
      PROVE  ChallengesSet
    BY <1>0, <1>3 DEF ClearChallenges, ChallengesSet, DeadlineSet
<1>4. ASSUME NEW t \in Terminals, BeginTOTPLogin(t)
      PROVE  ChallengesSet
  <2>1. PICK c \in ChallengeIds :
           challenges' = [challenges EXCEPT ![t] =
             [i \in ChallengeIds |->
                IF i = c THEN [user |-> frame[t].user, expires |-> now + ChallengeTimeout]
                ELSE IF now >= @[i].expires THEN NoPending ELSE @[i]]]
      BY <1>4 DEF BeginTOTPLogin
  <2> QED BY <1>0, <2>1 DEF ChallengesSet, DeadlineSet
<1>5. ASSUME NEW t \in Terminals, LoginStep(t)
      PROVE  \/ UNCHANGED challenges
             \/ DropChallenge(t, frame[t].challenge)
             \/ BeginTOTPLogin(t)
    BY <1>5 DEF LoginStep, LoginBlocked, VerifyPassword, CancelTOTPLogin, CompleteTOTPLogin,
                VerifyLoginCode, FailedLogin, AfterFailure, FinishLogin, FinalizeLogin, EndLogin
<1>6. ASSUME NEW t \in Terminals, Process(t), ~LoginStep(t)
      PROVE  UNCHANGED challenges \/ ClearChallenges(t)
    BY <1>6 DEF Process, Start, Stop, StartLogin, LoginWithPassword, SessionStep, StartSetup,
                SetupStep, DisableStep
<1> QED BY <1>1, <1>2, <1>3, <1>4, <1>5, <1>6 DEF Next, Tick, vars

LEMMA SetupDeadlines == ASSUME IInv, [Next]_vars PROVE SetupsSet
<1>0. byUser \in [Terminals -> [Users -> Setups]] /\ NoSetup.expires = 0
    BY DEF IInv, TypeOK, TOTPTypeOK, NoSetup
<1>1. CASE UNCHANGED totpVars
    BY <1>1 DEF SetupsSet, DeadlineSet, totpVars
<1>2. ASSUME NEW t \in Terminals, NEW u, RemoveSetup(t, u)
      PROVE  SetupsSet
    BY <1>0, <1>2 DEF RemoveSetup, SetupsSet, DeadlineSet
<1>3. ASSUME NEW t \in Terminals, ClearPendingSetups(t)
      PROVE  SetupsSet
    BY <1>0, <1>3 DEF ClearPendingSetups, SetupsSet, DeadlineSet
<1>4. ASSUME NEW t \in Terminals, NEW s, StoreSetup(t, s)
      PROVE  SetupsSet
  <2> DEFINE r == [secret |-> s, expires |-> now + SetupTimeout, session |-> token[t]]
  <2>1. /\ r.expires = now + SetupTimeout
        /\ byUser' = [byUser EXCEPT ![t] = [v \in Users |-> IF v = frame[t].user THEN r ELSE @[v]]]
      BY <1>4 DEF StoreSetup
  <2> HIDE DEF r
  <2> QED BY <1>0, <2>1 DEF SetupsSet, DeadlineSet
<1>5. ASSUME NEW t \in Terminals, SetupStep(t)
      PROVE  \/ UNCHANGED totpVars
             \/ \E u : RemoveSetup(t, u)
             \/ \E s : StoreSetup(t, s)
    BY <1>5 DEF SetupStep, RefuseSetup, CancelSetup, ConfirmSetup, CheckSetupCode,
                ConfirmEnrollment
<1>6. ASSUME NEW t \in Terminals, Process(t), ~SetupStep(t)
      PROVE  UNCHANGED totpVars \/ ClearPendingSetups(t)
    BY <1>6 DEF Process, Start, Stop, StartLogin, LoginStep, SessionStep, StartSetup, BeginSetup,
                DisableStep, Disable, DisableSessionUser, CheckDisable, CommitDisable
<1> QED BY <1>1, <1>2, <1>3, <1>4, <1>5, <1>6 DEF Next, Tick, vars

\* The deadlines of sessions follow from the refinement.
LEMMA SessionDeadlines ==
    ASSUME IInv, ClocksPast, [Next]_vars
    PROVE  \A k \in Tokens : sessions'[k].expires \in 0 .. now + SessionTimeout
                                \/ sessions'[k].expires = sessions[k].expires
<1>1. sessions \in [Tokens -> Rows] /\ now \in Nat
    BY DEF IInv, TypeOK, DBTypeOK, LSTypeOK
<1> TAKE k \in Tokens
<1>2. ASSUME NEW j \in Tokens, NEW u, NEW d \in 1 .. now + SessionTimeout, ST!Open(j, u, d)
      PROVE  sessions'[k].expires \in 0 .. now + SessionTimeout
                \/ sessions'[k].expires = sessions[k].expires
    BY <1>1, <1>2, SessionTimeoutAssumption DEF ST!Open
<1>3. ASSUME NEW t \in Terminals, ST!Close(t)
      PROVE  sessions'[k].expires = sessions[k].expires
    BY <1>1, <1>3 DEF ST!Close, Rows
<1>4. CASE ST!Purge
    BY <1>1, <1>4, SessionTimeoutAssumption DEF ST!Purge, ST!None
<1>5. CASE UNCHANGED sessions
    BY <1>5
<1> QED BY <1>2, <1>3, <1>4, <1>5, STStep DEF ST!STNext, ST!Forget, ST!Pass, ST!stVars

\* Sessions, pending logins and pending setups all end within their timeouts.
THEOREM DeadlinesCorrect == Spec => []DeadlinesBounded
<1>1. ASSUME Init
      PROVE  DeadlinesBounded
    BY <1>1, SessionTimeoutAssumption, ChallengeTimeoutAssumption, SetupTimeoutAssumption
    DEF Init, LSInit, ClockInit, DBInit, AuthInit, TOTPInit, NoRow, NoPending, NoSetup,
        DeadlinesBounded
<1>2. ASSUME IInv, ClocksPast, DeadlinesBounded, [Next]_vars
      PROVE  DeadlinesBounded'
  <2>1. now \in Nat /\ now' \in Nat /\ now <= now'
      BY <1>2, BlockEffect
  <2>2. /\ sessions \in [Tokens -> Rows]
        /\ challenges \in [Terminals -> [ChallengeIds -> Pendings]]
        /\ byUser \in [Terminals -> [Users -> Setups]]
      BY <1>2 DEF IInv, TypeOK, DBTypeOK, AuthTypeOK, TOTPTypeOK
  <2>3. ASSUME NEW k \in Tokens
        PROVE  sessions'[k].expires <= now' + SessionTimeout
    <3>1. sessions[k].expires \in Nat
        BY <2>2 DEF Rows
    <3> QED BY <1>2, <2>1, <3>1, SessionDeadlines, SessionTimeoutAssumption DEF DeadlinesBounded
  <2>4. ASSUME NEW t \in Terminals, NEW c \in ChallengeIds
        PROVE  challenges'[t][c].expires <= now' + ChallengeTimeout
    <3>1. challenges[t][c].expires \in Nat
        BY <2>2 DEF Pendings
    <3> QED BY <1>2, <2>1, <3>1, ChallengeDeadlines, ChallengeTimeoutAssumption
            DEF DeadlinesBounded, ChallengesSet, DeadlineSet
  <2>5. ASSUME NEW t \in Terminals, NEW u \in Users
        PROVE  byUser'[t][u].expires <= now' + SetupTimeout
    <3>1. byUser[t][u].expires \in Nat
        BY <2>2 DEF Setups
    <3> QED BY <1>2, <2>1, <3>1, SetupDeadlines, SetupTimeoutAssumption
            DEF DeadlinesBounded, SetupsSet, DeadlineSet
  <2> QED BY <2>3, <2>4, <2>5 DEF DeadlinesBounded
<1>3. EvidenceInv => ClocksPast
    BY DEF EvidenceInv
<1> QED BY <1>1, <1>2, <1>3, EvidenceCorrect, Invariant, PTL DEF Spec
=============================================================================
