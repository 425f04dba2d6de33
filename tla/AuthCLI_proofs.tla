--------------------------- MODULE AuthCLI_proofs ---------------------------
(***************************************************************************)
(* Proofs about the composed system: its inductive invariant, and with it  *)
(* type correctness, the agreement of commands with the login state, the   *)
(* life of TOTP challenges, the isolation of sessions, the use of Redis as *)
(* LoginSecurity specifies it, and the bookkeeping of pending setups.      *)
(***************************************************************************)
EXTENDS AuthCLI, LoginSecurity_proofs

USE NullsAssumption, NoChallengeAssumption, SessionTimeoutAssumption,
    ChallengeTimeoutAssumption, SetupTimeoutAssumption

\* The inductive invariant.  Each part needs the others: a frame is well typed
\* because the dialog's challenge exists, a token is fresh because no terminal
\* holds it, and a revoked token is dropped because only its holder revokes it.
IInv == TypeOK /\ CommandContext /\ ChallengeOnlyInDialog /\ SessionIsolation

LEMMA IdleFrame ==
    /\ Idle \in Frames
    /\ Idle.user = NoUser /\ Idle.challenge = NoChallenge /\ Idle.code = NoSecret
  BY DEF Idle, Frames, Calls, Codes

\* What Goto does, for the typed pairs it is used with.
LEMMA GotoEffect ==
    ASSUME TermTypeOK, NEW t \in Terminals, NEW l \in Labels, NEW f \in Frames, Goto(t, l, f)
    PROVE  /\ pc' \in [Terminals -> Labels] /\ frame' \in [Terminals -> Frames]
           /\ pc'[t] = l /\ frame'[t] = f
           /\ \A o \in Terminals \ {t} : pc'[o] = pc[o] /\ frame'[o] = frame[o]
  BY DEF TermTypeOK, Goto

\* A terminal keeps its token or drops it.
SameOrNoToken(t) == UNCHANGED token \/ ClearSession(t)

LEMMA TokenEffect ==
    ASSUME TermTypeOK, NEW t \in Terminals, SameOrNoToken(t)
    PROVE  /\ token' \in [Terminals -> Tokens \cup {NoToken}]
           /\ token'[t] \in {token[t], NoToken}
           /\ \A o \in Terminals \ {t} : token'[o] = token[o]
  BY DEF TermTypeOK, SameOrNoToken, ClearSession, SetSession

(***************************************************************************)
(* A step of terminal t that moves to label l with frame f, touches no     *)
(* session row and no challenge, preserves the invariant if (l, f) fits    *)
(* the token and stays in the dialog it was in.                            *)
(***************************************************************************)
LEMMA Move ==
    ASSUME IInv, NEW t \in Terminals, NEW l \in Labels, NEW f \in Frames,
           Goto(t, l, f), SameOrNoToken(t), UNCHANGED <<sessions, challenges>>,
           LSTypeOK', DBTypeOK', TOTPTypeOK',
           Fits(l, f, token'[t]),
           f.challenge = frame[t].challenge,
           f.challenge \in ChallengeIds =>
               /\ f.user = frame[t].user
               /\ l \in LoginLabels
               /\ f.call = "CompleteTOTPLogin",
           l = "EnterLoginCode" => f.challenge \in ChallengeIds
    PROVE  IInv'
<1>1. /\ pc' \in [Terminals -> Labels] /\ frame' \in [Terminals -> Frames]
      /\ pc'[t] = l /\ frame'[t] = f
      /\ \A o \in Terminals \ {t} : pc'[o] = pc[o] /\ frame'[o] = frame[o]
    BY GotoEffect DEF IInv, TypeOK
<1>2. /\ token' \in [Terminals -> Tokens \cup {NoToken}]
      /\ token'[t] \in {token[t], NoToken}
      /\ \A o \in Terminals \ {t} : token'[o] = token[o]
    BY TokenEffect DEF IInv, TypeOK
<1>3. TypeOK'
    BY <1>1, <1>2 DEF IInv, TypeOK, TermTypeOK, AuthTypeOK
<1>4. CommandContext'
    BY <1>1, <1>2 DEF IInv, CommandContext, Fits
<1>5. ChallengeOnlyInDialog'
    BY <1>1 DEF IInv, ChallengeOnlyInDialog, InDialog
<1>6. SessionIsolation'
    BY <1>1, <1>2 DEF IInv, SessionIsolation, IsAuthenticated
<1> QED BY <1>3, <1>4, <1>5, <1>6 DEF IInv

\* A step that ends the login of t, and with it its dialog.
LEMMA End ==
    ASSUME IInv, NEW t \in Terminals, EndLogin(t), UNCHANGED <<sessions, token>>,
           LSTypeOK', DBTypeOK', TOTPTypeOK'
    PROVE  IInv'
<1>1. /\ pc' \in [Terminals -> Labels] /\ frame' \in [Terminals -> Frames]
      /\ pc'[t] = "ready" /\ frame'[t] = Idle
      /\ \A o \in Terminals \ {t} : pc'[o] = pc[o] /\ frame'[o] = frame[o]
    BY GotoEffect, IdleFrame DEF IInv, TypeOK, EndLogin, Return, Labels
<1>2. /\ challenges' \in [Terminals -> [ChallengeIds -> Pendings]]
      /\ \A c \in ChallengeIds :
            challenges'[t][c] = IF c = frame[t].challenge THEN NoPending ELSE challenges[t][c]
      /\ \A o \in Terminals \ {t} : challenges'[o] = challenges[o]
    BY DEF IInv, TypeOK, AuthTypeOK, EndLogin, DropChallenge, Pendings, NoPending
<1>3. TypeOK'
    BY <1>1, <1>2 DEF IInv, TypeOK, TermTypeOK, AuthTypeOK
<1>4. CommandContext'
    BY <1>1 DEF IInv, CommandContext, Fits, LoginLabels, SessionLabels, SessionUserLabels
<1>5. ChallengeOnlyInDialog'
    BY <1>1, <1>2, IdleFrame DEF IInv, ChallengeOnlyInDialog, InDialog
<1>6. SessionIsolation'
    BY DEF IInv, SessionIsolation, IsAuthenticated
<1> QED BY <1>3, <1>4, <1>5, <1>6 DEF IInv

-----------------------------------------------------------------------------
\* The login command: what each of its steps does to the invariant.

LEMMA StartLoginInv ==
    ASSUME IInv, NEW t \in Terminals, StartLogin(t)
    PROVE  IInv'
<1> PICK u \in Users : LoginWithPassword(t, u)
    BY DEF StartLogin
<1> DEFINE f == [Idle EXCEPT !.call = "LoginWithPassword", !.user = u,
                             !.secret = totp[u], !.read = now]
<1>1. f \in Frames /\ f.user = u /\ f.challenge = NoChallenge
    BY IdleFrame DEF IInv, TypeOK, LSTypeOK, DBTypeOK, Frames, Calls, Codes
<1>2. /\ Goto(t, "IsBlocked", f)
      /\ UNCHANGED <<now, lsVars, dbVars, token, challenges, totpVars>>
      /\ pc[t] = "ready" /\ token[t] = NoToken
    BY DEF LoginWithPassword, StartLogin, Dispatch, IsAuthenticated
<1>3. frame[t].challenge = NoChallenge
    BY <1>2 DEF IInv, ChallengeOnlyInDialog, InDialog, LoginLabels, TypeOK, TermTypeOK, Frames
<1>4. LSTypeOK' /\ DBTypeOK' /\ TOTPTypeOK'
    BY <1>2 DEF IInv, TypeOK, LSTypeOK, DBTypeOK, TOTPTypeOK, lsVars, dbVars, totpVars
<1> HIDE DEF f
<1> QED
    BY <1>1, <1>2, <1>3, <1>4, Move
    DEF Labels, SameOrNoToken, Fits, LoginLabels, SessionLabels, SessionUserLabels, dbVars

LEMMA LoginBlockedInv ==
    ASSUME IInv, NEW t \in Terminals, LoginBlocked(t), UNCHANGED totpVars
    PROVE  IInv'
<1>1. LSTypeOK' /\ DBTypeOK' /\ TOTPTypeOK'
    BY DEF LoginBlocked, IInv, TypeOK, LSTypeOK, DBTypeOK, TOTPTypeOK, lsVars, dbVars, totpVars
<1> QED BY <1>1, End DEF LoginBlocked, dbVars

LEMMA CancelTOTPLoginInv ==
    ASSUME IInv, NEW t \in Terminals, CancelTOTPLogin(t), UNCHANGED totpVars
    PROVE  IInv'
<1>1. LSTypeOK' /\ DBTypeOK' /\ TOTPTypeOK'
    BY DEF CancelTOTPLogin, IInv, TypeOK, LSTypeOK, DBTypeOK, TOTPTypeOK, lsVars, dbVars, totpVars
<1> QED BY <1>1, End DEF CancelTOTPLogin, dbVars

\* What is known of a terminal in the middle of its login.
LEMMA LoginFacts ==
    ASSUME IInv, NEW t \in Terminals, pc[t] \in LoginLabels
    PROVE  /\ frame[t] \in Frames
           /\ frame[t].user \in Users
           /\ token[t] = NoToken
           /\ pc[t] = "EnterLoginCode" => frame[t].challenge \in ChallengeIds
           /\ frame[t].challenge \in ChallengeIds =>
                /\ frame[t].call = "CompleteTOTPLogin"
                /\ challenges[t][frame[t].challenge].user = frame[t].user
  BY DEF IInv, TypeOK, TermTypeOK, CommandContext, Fits, ChallengeOnlyInDialog, InDialog

\* AskCode opens the prompt of an existing dialog of the terminal.
LEMMA AskCodeInv ==
    ASSUME IInv, NEW t \in Terminals, pc[t] \in LoginLabels,
           frame[t].challenge \in ChallengeIds,
           AskCode(t, frame[t].user, frame[t].challenge),
           UNCHANGED <<sessions, challenges, token>>,
           LSTypeOK', DBTypeOK', TOTPTypeOK'
    PROVE  IInv'
<1> DEFINE f == [Idle EXCEPT !.call = "CompleteTOTPLogin", !.user = frame[t].user,
                             !.challenge = frame[t].challenge]
<1>1. /\ f \in Frames /\ f.user = frame[t].user /\ f.challenge = frame[t].challenge
      /\ f.call = "CompleteTOTPLogin"
    BY IdleFrame, LoginFacts DEF Frames, Calls
<1>2. Goto(t, "EnterLoginCode", f)
    BY DEF AskCode
<1> HIDE DEF f
<1> QED
    BY <1>1, <1>2, LoginFacts, Move
    DEF Labels, SameOrNoToken, Fits, LoginLabels, SessionLabels, SessionUserLabels

\* beginTOTPLogin inserts one challenge and prunes expired ones; the terminal
\* had none before, so the new one is the only one left.
LEMMA BeginTOTPLoginInv ==
    ASSUME IInv, NEW t \in Terminals, pc[t] \in LoginLabels,
           frame[t].call = "LoginWithPassword", BeginTOTPLogin(t),
           UNCHANGED <<now, lsVars, dbVars, token, totpVars>>
    PROVE  IInv'
<1> DEFINE u == frame[t].user
<1> PICK c \in ChallengeIds :
        /\ challenges' = [challenges EXCEPT ![t] =
             [i \in ChallengeIds |->
                IF i = c THEN [user |-> u, expires |-> now + ChallengeTimeout]
                ELSE IF now >= @[i].expires THEN NoPending ELSE @[i]]]
        /\ AskCode(t, u, c)
    BY DEF BeginTOTPLogin
<1> DEFINE f == [Idle EXCEPT !.call = "CompleteTOTPLogin", !.user = u, !.challenge = c]
<1>1. u \in Users /\ frame[t].challenge \notin ChallengeIds /\ token[t] = NoToken
    BY LoginFacts
<1>2. f \in Frames /\ f.user = u /\ f.challenge = c /\ f.call = "CompleteTOTPLogin"
    BY <1>1, IdleFrame DEF Frames, Calls
<1>3. Goto(t, "EnterLoginCode", f)
    BY DEF AskCode
<1> HIDE DEF f
<1>4. /\ pc' \in [Terminals -> Labels] /\ frame' \in [Terminals -> Frames]
      /\ pc'[t] = "EnterLoginCode" /\ frame'[t] = f
      /\ \A o \in Terminals \ {t} : pc'[o] = pc[o] /\ frame'[o] = frame[o]
    BY <1>2, <1>3, GotoEffect DEF IInv, TypeOK, Labels
<1>5. \A i \in ChallengeIds : challenges[t][i] = NoPending
    BY <1>1 DEF IInv, ChallengeOnlyInDialog
<1>6. /\ challenges' \in [Terminals -> [ChallengeIds -> Pendings]]
      /\ challenges'[t][c].user = u
      /\ \A i \in ChallengeIds \ {c} : challenges'[t][i] = NoPending
      /\ \A o \in Terminals \ {t} : challenges'[o] = challenges[o]
    BY <1>1, <1>5 DEF IInv, TypeOK, AuthTypeOK, LSTypeOK, Pendings, NoPending
<1>7. TypeOK'
    BY <1>4, <1>6
    DEF IInv, TypeOK, LSTypeOK, DBTypeOK, TermTypeOK, AuthTypeOK, TOTPTypeOK,
        lsVars, dbVars, totpVars
<1>8. CommandContext'
    BY <1>1, <1>2, <1>4
    DEF IInv, CommandContext, Fits, LoginLabels, SessionLabels, SessionUserLabels, dbVars
<1>9. ChallengeOnlyInDialog'
    BY <1>2, <1>4, <1>6 DEF IInv, ChallengeOnlyInDialog, InDialog, LoginLabels
<1>10. SessionIsolation'
    BY DEF IInv, SessionIsolation, IsAuthenticated, dbVars
<1> QED BY <1>7, <1>8, <1>9, <1>10 DEF IInv

LEMMA VerifyPasswordInv ==
    ASSUME IInv, NEW t \in Terminals, VerifyPassword(t), UNCHANGED totpVars
    PROVE  IInv'
<1> DEFINE f == [frame[t] EXCEPT !.checked = now]
<1>1. pc[t] = "IsBlocked" /\ pc[t] \in LoginLabels
    BY DEF VerifyPassword, LoginLabels
<1>2. /\ f \in Frames /\ f.user = frame[t].user /\ f.challenge = frame[t].challenge
      /\ f.call = frame[t].call
    BY <1>1, LoginFacts DEF Frames, IInv, TypeOK, LSTypeOK
<1>3. /\ LSTypeOK' /\ DBTypeOK' /\ TOTPTypeOK'
      /\ UNCHANGED <<now, lsVars, dbVars, token>>
    BY DEF VerifyPassword, IInv, TypeOK, LSTypeOK, DBTypeOK, TOTPTypeOK, lsVars, dbVars, totpVars
<1>4. \/ Goto(t, "RecordFailure", f) /\ UNCHANGED challenges
      \/ Goto(t, "Reset", f) /\ UNCHANGED challenges
      \/ frame[t].call = "LoginWithPassword" /\ BeginTOTPLogin(t)
      \/ EndLogin(t)
    BY DEF VerifyPassword
<1> HIDE DEF f
<1>5. ASSUME NEW l \in {"RecordFailure", "Reset"}, Goto(t, l, f), UNCHANGED challenges
      PROVE  IInv'
    BY <1>1, <1>2, <1>3, <1>5, LoginFacts, Move
    DEF Labels, SameOrNoToken, Fits, LoginLabels, SessionLabels, SessionUserLabels, dbVars
<1>6. CASE EndLogin(t)
    BY <1>3, <1>6, End DEF dbVars
<1> QED BY <1>1, <1>3, <1>4, <1>5, <1>6, BeginTOTPLoginInv

LEMMA CompleteTOTPLoginInv ==
    ASSUME IInv, NEW t \in Terminals, NEW code \in Codes, CompleteTOTPLogin(t, code),
           UNCHANGED totpVars
    PROVE  IInv'
<1> DEFINE u == challenges[t][frame[t].challenge].user
           f == [frame[t] EXCEPT !.user = u, !.code = code, !.secret = totp[u], !.read = now]
<1>1. pc[t] = "EnterLoginCode" /\ pc[t] \in LoginLabels
    BY DEF CompleteTOTPLogin, LoginLabels
<1>2. /\ LSTypeOK' /\ DBTypeOK' /\ TOTPTypeOK'
      /\ UNCHANGED <<now, lsVars, dbVars, token>>
    BY DEF CompleteTOTPLogin, IInv, TypeOK, LSTypeOK, DBTypeOK, TOTPTypeOK, lsVars, dbVars, totpVars
<1>3. u = frame[t].user /\ u \in Users /\ frame[t].challenge \in ChallengeIds
    BY <1>1, LoginFacts
<1>4. /\ f \in Frames /\ f.user = frame[t].user /\ f.challenge = frame[t].challenge
      /\ f.call = frame[t].call
    BY <1>1, <1>3, LoginFacts DEF Frames, Codes, IInv, TypeOK, LSTypeOK, DBTypeOK
<1>5. \/ Goto(t, "IsBlocked", f) /\ UNCHANGED challenges
      \/ EndLogin(t)
    BY DEF CompleteTOTPLogin
<1> HIDE DEF f
<1>6. CASE Goto(t, "IsBlocked", f) /\ UNCHANGED challenges
    BY <1>1, <1>2, <1>3, <1>4, <1>6, LoginFacts, Move
    DEF Labels, SameOrNoToken, Fits, LoginLabels, SessionLabels, SessionUserLabels, dbVars
<1>7. CASE EndLogin(t)
    BY <1>2, <1>7, End DEF dbVars
<1> QED BY <1>5, <1>6, <1>7

LEMMA VerifyLoginCodeInv ==
    ASSUME IInv, NEW t \in Terminals, VerifyLoginCode(t), UNCHANGED totpVars
    PROVE  IInv'
<1> DEFINE f == [frame[t] EXCEPT !.checked = now]
<1>1. pc[t] = "IsBlocked" /\ pc[t] \in LoginLabels
    BY DEF VerifyLoginCode, LoginLabels
<1>2. /\ f \in Frames /\ f.user = frame[t].user /\ f.challenge = frame[t].challenge
      /\ f.call = frame[t].call
    BY <1>1, LoginFacts DEF Frames, IInv, TypeOK, LSTypeOK
<1>3. /\ LSTypeOK' /\ DBTypeOK' /\ TOTPTypeOK'
      /\ UNCHANGED <<now, lsVars, dbVars, token>>
    BY DEF VerifyLoginCode, IInv, TypeOK, LSTypeOK, DBTypeOK, TOTPTypeOK, lsVars, dbVars, totpVars
<1>4. \/ EndLogin(t)
      \/ \E l \in {"Reset", "RecordFailure"} : Goto(t, l, f) /\ UNCHANGED challenges
    BY DEF VerifyLoginCode
<1> HIDE DEF f
<1>5. ASSUME NEW l \in {"RecordFailure", "Reset"}, Goto(t, l, f), UNCHANGED challenges
      PROVE  IInv'
    BY <1>1, <1>2, <1>3, <1>5, LoginFacts, Move
    DEF Labels, SameOrNoToken, Fits, LoginLabels, SessionLabels, SessionUserLabels, dbVars
<1>6. CASE EndLogin(t)
    BY <1>3, <1>6, End DEF dbVars
<1> QED BY <1>4, <1>5, <1>6

\* A call to Redis by one terminal is a step of LoginSecurity.
LEMMA RedisCall ==
    ASSUME LSTypeOK, NEW u \in Users, UNCHANGED now,
           RecordFailure(u) \/ Reset(u) \/ UNCHANGED lsVars
    PROVE  [LSNext]_<<now, lsVars>> /\ LSTypeOK'
<1>1. [LSNext]_<<now, lsVars>>
    BY DEF LSNext, LSCall
<1> QED BY <1>1, LSTypeStep

LEMMA FailedLoginInv ==
    ASSUME IInv, NEW t \in Terminals, FailedLogin(t), UNCHANGED totpVars
    PROVE  IInv'
<1>1. pc[t] = "RecordFailure" /\ pc[t] \in LoginLabels
    BY DEF FailedLogin, LoginLabels
<1>2. /\ RecordFailure(frame[t].user) \/ UNCHANGED lsVars
      /\ UNCHANGED <<now, dbVars, token, totpVars>>
      /\ \E reply \in {"counted", "blocked", "error"} : AfterFailure(t, reply)
    BY DEF FailedLogin, RecordFailureReply
<1>3. LSTypeOK' /\ DBTypeOK' /\ TOTPTypeOK'
  <2>1. LSTypeOK'
      BY <1>1, <1>2, LoginFacts, RedisCall DEF IInv, TypeOK
  <2> QED BY <1>2, <2>1 DEF IInv, TypeOK, DBTypeOK, TOTPTypeOK, dbVars, totpVars
<1>4. \/ /\ frame[t].challenge \in ChallengeIds
         /\ AskCode(t, frame[t].user, frame[t].challenge)
         /\ UNCHANGED challenges
      \/ EndLogin(t)
    BY <1>1, <1>2, LoginFacts DEF AfterFailure, Frames
<1> QED BY <1>1, <1>2, <1>3, <1>4, AskCodeInv, End DEF dbVars

LEMMA FinishLoginInv ==
    ASSUME IInv, NEW t \in Terminals, FinishLogin(t), UNCHANGED totpVars
    PROVE  IInv'
<1> DEFINE f == [frame[t] EXCEPT !.checked = 0, !.at = now]
<1>1. pc[t] = "Reset" /\ pc[t] \in LoginLabels
    BY DEF FinishLogin, LoginLabels
<1>2. /\ f \in Frames /\ f.user = frame[t].user /\ f.challenge = frame[t].challenge
      /\ f.call = frame[t].call
    BY <1>1, LoginFacts DEF Frames, IInv, TypeOK, LSTypeOK
<1>3. /\ Reset(frame[t].user) \/ UNCHANGED lsVars
      /\ UNCHANGED <<now, dbVars, token, totpVars>>
      /\ \/ Goto(t, "FinalizeLogin", f) /\ UNCHANGED challenges
         \/ EndLogin(t)
    BY DEF FinishLogin
<1> HIDE DEF f
<1>4. LSTypeOK' /\ DBTypeOK' /\ TOTPTypeOK'
  <2>1. LSTypeOK'
      BY <1>1, <1>3, LoginFacts, RedisCall DEF IInv, TypeOK
  <2> QED BY <1>3, <2>1 DEF IInv, TypeOK, DBTypeOK, TOTPTypeOK, dbVars, totpVars
<1>5. CASE Goto(t, "FinalizeLogin", f) /\ UNCHANGED challenges
    BY <1>1, <1>2, <1>3, <1>4, <1>5, LoginFacts, Move
    DEF Labels, SameOrNoToken, Fits, LoginLabels, SessionLabels, SessionUserLabels, dbVars
<1>6. CASE EndLogin(t)
    BY <1>3, <1>4, <1>6, End DEF dbVars
<1> QED BY <1>3, <1>5, <1>6

\* The transaction writes one fresh row for an existing user.
LEMMA CommitLoginInv ==
    ASSUME IInv, NEW t \in Terminals, NEW k \in FreshTokens, pc[t] = "FinalizeLogin",
           CommitLogin(frame[t].user, frame[t].at, k), EndLogin(t),
           SetSession(t, k) \/ UNCHANGED token,
           UNCHANGED <<now, lsVars, totpVars>>
    PROVE  IInv'
<1> DEFINE u == frame[t].user
           e == frame[t].at + SessionTimeout
<1>1. u \in Users /\ e \in Nat /\ token[t] = NoToken
    BY LoginFacts DEF LoginLabels, Frames
<1>2. k \in Tokens /\ sessions[k] = NoRow /\ \A o \in Terminals : token[o] # k
    BY DEF FreshTokens
<1>3. /\ sessions' \in [Tokens -> Rows]
      /\ sessions'[k] = Row("active", u, e)
      /\ \A j \in Tokens \ {k} : sessions'[j] = sessions[j]
  <2>1. sessions' = [sessions EXCEPT ![k] = Row("active", u, e)]
      BY DEF CommitLogin, CreateSession
  <2>2. Row("active", u, e) \in Rows
      BY <1>1 DEF Row, Rows
  <2> QED BY <1>2, <2>1, <2>2 DEF IInv, TypeOK, DBTypeOK
<1>4. DBTypeOK'
  <2>1. lastLogin' \in [Users -> Nat]
      BY <1>1, LoginFacts DEF CommitLogin, UpdateLastLogin, IInv, TypeOK, DBTypeOK, LoginLabels, Frames
  <2> QED BY <1>3, <2>1 DEF IInv, TypeOK, DBTypeOK, CommitLogin
<1>5. /\ pc' \in [Terminals -> Labels] /\ frame' \in [Terminals -> Frames]
      /\ pc'[t] = "ready" /\ frame'[t] = Idle
      /\ \A o \in Terminals \ {t} : pc'[o] = pc[o] /\ frame'[o] = frame[o]
    BY GotoEffect, IdleFrame DEF IInv, TypeOK, EndLogin, Return, Labels
<1>6. /\ token' \in [Terminals -> Tokens \cup {NoToken}]
      /\ token'[t] \in {k, NoToken}
      /\ \A o \in Terminals \ {t} : token'[o] = token[o]
    BY <1>1, <1>2 DEF IInv, TypeOK, TermTypeOK, SetSession
<1>7. /\ challenges' \in [Terminals -> [ChallengeIds -> Pendings]]
      /\ \A c \in ChallengeIds :
            challenges'[t][c] = IF c = frame[t].challenge THEN NoPending ELSE challenges[t][c]
      /\ \A o \in Terminals \ {t} : challenges'[o] = challenges[o]
    BY DEF IInv, TypeOK, AuthTypeOK, EndLogin, DropChallenge, Pendings, NoPending
<1>8. TypeOK'
    BY <1>4, <1>5, <1>6, <1>7
    DEF IInv, TypeOK, LSTypeOK, TermTypeOK, AuthTypeOK, TOTPTypeOK, lsVars, totpVars
<1> HIDE DEF e
<1>9. CommandContext'
  <2>1. \A j \in Tokens : sessions'[j] # NoRow => sessions'[j].user \in Users
      BY <1>1, <1>2, <1>3 DEF IInv, CommandContext, Row
  <2>2. ASSUME NEW o \in Terminals
        PROVE  Fits(pc[o], frame[o], token[o])'
    <3>1. CASE o = t
        BY <1>5, <3>1 DEF Fits, LoginLabels, SessionLabels, SessionUserLabels
    <3>2. CASE o # t
      <4>1. Fits(pc[o], frame[o], token[o])
          BY DEF IInv, CommandContext
      <4>2. token[o] \in Tokens => sessions'[token[o]] = sessions[token[o]]
          BY <1>2, <1>3
      <4> QED BY <1>5, <1>6, <3>2, <4>1, <4>2
              DEF Fits, LoginLabels, SessionLabels, SessionUserLabels
    <3> QED BY <3>1, <3>2
  <2> QED BY <2>1, <2>2 DEF CommandContext
<1>10. ChallengeOnlyInDialog'
    BY <1>5, <1>7, IdleFrame DEF IInv, ChallengeOnlyInDialog, InDialog
<1>11. SessionIsolation'
    BY <1>2, <1>3, <1>6 DEF IInv, SessionIsolation, IsAuthenticated, Row, TypeOK, TermTypeOK
<1> QED BY <1>8, <1>9, <1>10, <1>11 DEF IInv

LEMMA FinalizeLoginInv ==
    ASSUME IInv, NEW t \in Terminals, NEW k \in FreshTokens, FinalizeLogin(t, k),
           UNCHANGED totpVars
    PROVE  IInv'
<1>1. CASE UNCHANGED dbVars /\ UNCHANGED token
  <2>1. LSTypeOK' /\ DBTypeOK' /\ TOTPTypeOK'
      BY <1>1 DEF FinalizeLogin, IInv, TypeOK, LSTypeOK, DBTypeOK, TOTPTypeOK, lsVars, dbVars, totpVars
  <2> QED BY <1>1, <2>1, End DEF FinalizeLogin, dbVars
<1>2. CASE CommitLogin(frame[t].user, frame[t].at, k)
    BY <1>2, CommitLoginInv DEF FinalizeLogin
<1> QED BY <1>1, <1>2 DEF FinalizeLogin

\* Every step of login preserves the invariant.
LEMMA LoginInv ==
    ASSUME IInv, NEW t \in Terminals, LoginStep(t)
    PROVE  IInv'
  BY LoginBlockedInv, VerifyPasswordInv, CancelTOTPLoginInv, CompleteTOTPLoginInv,
     VerifyLoginCodeInv, FailedLoginInv, FinishLoginInv, FinalizeLoginInv
  DEF LoginStep

-----------------------------------------------------------------------------
\* whoami, logout, enable-2fa and disable-2fa.

\* What is known of a terminal outside login.
LEMMA SessionFacts ==
    ASSUME IInv, NEW t \in Terminals, pc[t] \notin LoginLabels
    PROVE  /\ frame[t] \in Frames
           /\ frame[t].challenge = NoChallenge
           /\ pc[t] \in SessionLabels => token[t] \in Tokens
           /\ pc[t] \in SessionUserLabels =>
                /\ frame[t].user \in Users
                /\ sessions[token[t]] = NoRow \/ sessions[token[t]].user = frame[t].user
  BY DEF IInv, TypeOK, TermTypeOK, CommandContext, Fits, ChallengeOnlyInDialog, InDialog, Frames

\* The handler returns, with or without clearing the token.
LEMMA ReturnInv ==
    ASSUME IInv, NEW t \in Terminals, pc[t] \notin LoginLabels,
           Return(t), SameOrNoToken(t), UNCHANGED <<sessions, challenges>>,
           LSTypeOK', DBTypeOK', TOTPTypeOK'
    PROVE  IInv'
  BY SessionFacts, IdleFrame, Move
  DEF Return, Labels, Fits, LoginLabels, SessionLabels, SessionUserLabels

\* A session command goes on to its next store call or prompt.
LEMMA ContinueInv ==
    ASSUME IInv, NEW t \in Terminals, pc[t] \notin LoginLabels,
           NEW l \in SessionLabels, NEW f \in Frames, Goto(t, l, f),
           token[t] \in Tokens, f.challenge = NoChallenge,
           l \in SessionUserLabels =>
               /\ f.user \in Users
               /\ sessions[token[t]] = NoRow \/ sessions[token[t]].user = f.user,
           UNCHANGED <<sessions, challenges, token>>,
           LSTypeOK', DBTypeOK', TOTPTypeOK'
    PROVE  IInv'
  BY SessionFacts, Move
  DEF Labels, Fits, LoginLabels, SessionLabels, SessionUserLabels, SameOrNoToken

\* FindByTokenHash answers one of the callers of ValidateSession.
LEMMA ValidateSessionInv ==
    ASSUME IInv, NEW t \in Terminals, pc[t] \notin LoginLabels, token[t] \in Tokens,
           NEW f \in Frames, f.challenge = NoChallenge,
           ValidateSession(t, f), UNCHANGED <<challenges, totpVars>>
    PROVE  IInv'
<1>1. LSTypeOK' /\ DBTypeOK' /\ TOTPTypeOK' /\ UNCHANGED sessions
    BY DEF ValidateSession, IInv, TypeOK, LSTypeOK, DBTypeOK, TOTPTypeOK, lsVars, dbVars, totpVars
<1>2. CASE Return(t) /\ SameOrNoToken(t)
    BY <1>1, <1>2, ReturnInv
<1> DEFINE u == sessions[token[t]].user
           g == [f EXCEPT !.user = u]
<1>3. CASE Live(token[t]) /\ Goto(t, "FindUser", g) /\ UNCHANGED token
  <2>1. sessions[token[t]] # NoRow /\ u \in Users
      BY <1>3 DEF Live, NoRow, IInv, CommandContext
  <2>2. g \in Frames /\ g.user = u /\ g.challenge = NoChallenge
      BY <2>1 DEF Frames
  <2> HIDE DEF g
  <2> QED BY <1>1, <1>3, <2>1, <2>2, ContinueInv DEF SessionLabels
<1> QED BY <1>2, <1>3 DEF ValidateSession, SameOrNoToken

\* The frames the four callers pass to ValidateSession.
LEMMA CallFrame ==
    ASSUME NEW call \in Calls, NEW code \in Codes
    PROVE  /\ [Idle EXCEPT !.call = call] \in Frames
           /\ [Idle EXCEPT !.call = call].challenge = NoChallenge
           /\ [Idle EXCEPT !.call = call, !.code = code] \in Frames
           /\ [Idle EXCEPT !.call = call, !.code = code].challenge = NoChallenge
  BY IdleFrame DEF Frames

LEMMA DispatchFacts ==
    ASSUME IInv, NEW t \in Terminals, NEW c \in Commands, c # "login", Dispatch(t, c)
    PROVE  pc[t] = "ready" /\ pc[t] \notin LoginLabels /\ token[t] \in Tokens
  BY DEF Dispatch, IsAuthenticated, LoginLabels, IInv, TypeOK, TermTypeOK

\* The terminal revokes the session it holds and drops the token.
LEMMA LogoutRevokeInv ==
    ASSUME IInv, NEW t \in Terminals, LogoutRevoke(t), UNCHANGED <<challenges, totpVars>>
    PROVE  IInv'
<1>1. pc[t] = "Revoke" /\ pc[t] \notin LoginLabels /\ token[t] \in Tokens
    BY SessionFacts DEF LogoutRevoke, LoginLabels, SessionLabels
<1>2. /\ sessions' \in [Tokens -> Rows]
      /\ \A j \in Tokens : /\ (sessions'[j] = NoRow <=> sessions[j] = NoRow)
                           /\ sessions'[j].user = sessions[j].user
                           /\ j # token[t] => sessions'[j] = sessions[j]
  <2>1. CASE Revoke(token[t])
    <3>1. sessions[token[t]] \in Rows
        BY <1>1 DEF IInv, TypeOK, DBTypeOK
    <3> QED BY <1>1, <2>1, <3>1 DEF Revoke, IInv, TypeOK, DBTypeOK, Rows, NoRow
  <2>2. CASE UNCHANGED sessions
      BY <2>2 DEF IInv, TypeOK, DBTypeOK
  <2> QED BY <2>1, <2>2 DEF LogoutRevoke
<1>3. LSTypeOK' /\ DBTypeOK' /\ TOTPTypeOK'
    BY <1>2 DEF LogoutRevoke, IInv, TypeOK, LSTypeOK, DBTypeOK, TOTPTypeOK, lsVars, totpVars
<1>4. /\ pc' \in [Terminals -> Labels] /\ frame' \in [Terminals -> Frames]
      /\ pc'[t] = "ready" /\ frame'[t] = Idle
      /\ \A o \in Terminals \ {t} : pc'[o] = pc[o] /\ frame'[o] = frame[o]
    BY GotoEffect, IdleFrame DEF IInv, TypeOK, LogoutRevoke, Return, Labels
<1>5. /\ token' \in [Terminals -> Tokens \cup {NoToken}]
      /\ token'[t] = NoToken
      /\ \A o \in Terminals \ {t} : token'[o] = token[o]
    BY DEF LogoutRevoke, ClearSession, SetSession, IInv, TypeOK, TermTypeOK
<1>6. TypeOK'
    BY <1>3, <1>4, <1>5 DEF IInv, TypeOK, TermTypeOK, AuthTypeOK
<1>7. CommandContext'
  <2>1. ASSUME NEW o \in Terminals
        PROVE  Fits(pc[o], frame[o], token[o])'
    <3>1. Fits(pc[o], frame[o], token[o])
        BY DEF IInv, CommandContext
    <3> QED BY <1>2, <1>4, <1>5, <3>1
            DEF Fits, LoginLabels, SessionLabels, SessionUserLabels
  <2> QED BY <1>2, <2>1 DEF IInv, CommandContext
<1>8. ChallengeOnlyInDialog'
    BY <1>1, <1>4, SessionFacts, IdleFrame DEF IInv, ChallengeOnlyInDialog, InDialog
<1>9. SessionIsolation'
    BY <1>1, <1>2, <1>5 DEF IInv, SessionIsolation, IsAuthenticated, TypeOK, TermTypeOK
<1> QED BY <1>6, <1>7, <1>8, <1>9 DEF IInv

LEMMA SessionInv ==
    ASSUME IInv, NEW t \in Terminals, SessionStep(t)
    PROVE  IInv'
<1>0. UNCHANGED <<challenges, totpVars>>
    BY DEF SessionStep
<1>1. CASE WhoAmI(t)
  <2>1. "WhoAmI" \in Calls /\ "whoami" # "login"
      BY DEF Calls
  <2>2. "whoami" \in Commands /\ Dispatch(t, "whoami")
      BY <1>1 DEF WhoAmI, Dispatch
  <2> QED BY <1>0, <1>1, <2>1, <2>2, DispatchFacts, CallFrame, ValidateSessionInv DEF WhoAmI, Codes
<1>2. CASE WhoAmIUser(t) \/ SessionUserUnavailable(t)
  <2>1. /\ pc[t] \notin LoginLabels
        /\ Return(t) /\ SameOrNoToken(t)
        /\ UNCHANGED <<now, lsVars, dbVars>>
      BY <1>2 DEF WhoAmIUser, SessionUserUnavailable, SameOrNoToken, LoginLabels
  <2>2. LSTypeOK' /\ DBTypeOK' /\ TOTPTypeOK' /\ UNCHANGED sessions
      BY <1>0, <2>1 DEF IInv, TypeOK, LSTypeOK, DBTypeOK, TOTPTypeOK, lsVars, dbVars, totpVars
  <2> QED BY <1>0, <2>1, <2>2, ReturnInv
<1>3. CASE Logout(t)
  <2>1. "logout" \in Commands /\ Dispatch(t, "logout") /\ "logout" # "login"
      BY <1>3 DEF Logout, Dispatch
  <2>2. pc[t] \notin LoginLabels /\ token[t] \in Tokens
      BY <2>1, DispatchFacts
  <2>3. LSTypeOK' /\ DBTypeOK' /\ TOTPTypeOK' /\ UNCHANGED sessions
      BY <1>0, <1>3
      DEF Logout, IInv, TypeOK, LSTypeOK, DBTypeOK, TOTPTypeOK, lsVars, dbVars, totpVars
  <2>4. CASE Return(t) /\ ClearSession(t)
      BY <1>0, <2>2, <2>3, <2>4, ReturnInv DEF SameOrNoToken
  <2> DEFINE f == [Idle EXCEPT !.call = "Logout"]
  <2>5. CASE Goto(t, "Revoke", f) /\ UNCHANGED token
    <3>1. f \in Frames /\ f.challenge = NoChallenge
        BY CallFrame DEF Calls, Codes
    <3> HIDE DEF f
    <3> QED BY <1>0, <2>2, <2>3, <2>5, <3>1, ContinueInv DEF SessionLabels, SessionUserLabels
  <2> QED BY <1>3, <2>4, <2>5 DEF Logout
<1>4. CASE LogoutRevoke(t)
    BY <1>0, <1>4, LogoutRevokeInv
<1> QED BY <1>1, <1>2, <1>3, <1>4 DEF SessionStep

-----------------------------------------------------------------------------
\* Enabling and disabling TOTP.

LEMMA RemoveSetupType ==
    ASSUME TOTPTypeOK, NEW t \in Terminals, NEW u, RemoveSetup(t, u)
    PROVE  TOTPTypeOK'
<1>1. NoSetup \in Setups
    BY DEF NoSetup, Setups, Codes
<1>2. byUser' \in [Terminals -> [Users -> Setups]]
    BY <1>1 DEF TOTPTypeOK, RemoveSetup
<1>3. bySession' \in [Terminals -> [Tokens -> Users \cup {NoUser}]]
    BY DEF TOTPTypeOK, RemoveSetup
<1> QED BY <1>2, <1>3 DEF TOTPTypeOK

\* The prompt of the setup dialog.
LEMMA AskSetupCodeInv ==
    ASSUME IInv, NEW t \in Terminals, pc[t] \notin LoginLabels, token[t] \in Tokens,
           AskSetupCode(t), UNCHANGED <<sessions, challenges, token>>,
           LSTypeOK', DBTypeOK', TOTPTypeOK'
    PROVE  IInv'
<1> DEFINE f == [Idle EXCEPT !.call = "ConfirmSetup"]
<1>1. f \in Frames /\ f.challenge = NoChallenge
    BY CallFrame DEF Calls, Codes
<1>2. Goto(t, "EnterSetupCode", f)
    BY DEF AskSetupCode
<1> HIDE DEF f
<1> QED BY <1>1, <1>2, ContinueInv DEF SessionLabels, SessionUserLabels

LEMMA StoreSetupInv ==
    ASSUME IInv, NEW t \in Terminals, NEW s \in Secrets, StoreSetup(t, s),
           UNCHANGED challenges
    PROVE  IInv'
<1>1. pc[t] \notin LoginLabels /\ pc[t] \in SessionLabels /\ pc[t] \in SessionUserLabels
    BY DEF StoreSetup, LoginLabels, SessionLabels, SessionUserLabels
<1>2. token[t] \in Tokens /\ frame[t].user \in Users
    BY <1>1, SessionFacts
<1>3. LSTypeOK' /\ DBTypeOK'
    BY DEF StoreSetup, IInv, TypeOK, LSTypeOK, DBTypeOK, lsVars, dbVars
<1>4. byUser' \in [Terminals -> [Users -> Setups]]
  <2>1. [secret |-> s, expires |-> now + SetupTimeout, session |-> token[t]] \in Setups
      BY <1>2 DEF Setups, Codes, IInv, TypeOK, LSTypeOK
  <2> QED BY <2>1 DEF StoreSetup, IInv, TypeOK, TOTPTypeOK
<1>5. bySession' \in [Terminals -> [Tokens -> Users \cup {NoUser}]]
    BY <1>2 DEF StoreSetup, IInv, TypeOK, TOTPTypeOK
<1>6. TOTPTypeOK'
    BY <1>4, <1>5 DEF TOTPTypeOK
<1> QED BY <1>1, <1>2, <1>3, <1>6, AskSetupCodeInv DEF StoreSetup, dbVars

LEMMA CheckSetupCodeInv ==
    ASSUME IInv, NEW t \in Terminals, CheckSetupCode(t), UNCHANGED challenges
    PROVE  IInv'
<1> DEFINE u == frame[t].user
           setup == byUser[t][u]
           f == [frame[t] EXCEPT !.secret = setup.secret]
<1>1. /\ pc[t] = "FindUser"
      /\ pc[t] \notin LoginLabels /\ pc[t] \in SessionLabels /\ pc[t] \in SessionUserLabels
    BY DEF CheckSetupCode, LoginLabels, SessionLabels, SessionUserLabels
<1>2. /\ frame[t] \in Frames /\ u \in Users /\ token[t] \in Tokens
      /\ frame[t].challenge = NoChallenge
      /\ sessions[token[t]] = NoRow \/ sessions[token[t]].user = u
    BY <1>1, SessionFacts
<1>3. f \in Frames /\ f.challenge = NoChallenge /\ f.user = u
  <2>1. setup \in Setups
      BY <1>2 DEF IInv, TypeOK, TOTPTypeOK
  <2>2. setup.secret \in Codes
      BY <2>1 DEF Setups
  <2> HIDE DEF setup
  <2> QED BY <1>2, <2>2 DEF Frames
<1>4. LSTypeOK' /\ DBTypeOK' /\ UNCHANGED <<sessions, token>>
    BY DEF CheckSetupCode, IInv, TypeOK, LSTypeOK, DBTypeOK, lsVars, dbVars
<1>5. CASE Return(t) /\ RemoveSetup(t, u)
    BY <1>1, <1>4, <1>5, RemoveSetupType, ReturnInv DEF IInv, TypeOK, SameOrNoToken, CheckSetupCode
<1>6. CASE Goto(t, "EnableTOTP", f) /\ UNCHANGED totpVars
  <2>1. TOTPTypeOK'
      BY <1>6 DEF IInv, TypeOK, TOTPTypeOK, totpVars
  <2> HIDE DEF f
  <2> QED BY <1>1, <1>2, <1>3, <1>4, <1>6, <2>1, ContinueInv DEF SessionLabels
<1>7. CASE AskSetupCode(t) /\ UNCHANGED totpVars
  <2>1. TOTPTypeOK'
      BY <1>7 DEF IInv, TypeOK, TOTPTypeOK, totpVars
  <2> QED BY <1>1, <1>2, <1>4, <1>7, <2>1, AskSetupCodeInv
<1>8. CASE Return(t) /\ UNCHANGED totpVars
  <2>1. TOTPTypeOK'
      BY <1>8 DEF IInv, TypeOK, TOTPTypeOK, totpVars
  <2> QED BY <1>1, <1>4, <1>8, <2>1, ReturnInv DEF SameOrNoToken, CheckSetupCode
<1> QED BY <1>5, <1>6, <1>7, <1>8 DEF CheckSetupCode

LEMMA ConfirmEnrollmentInv ==
    ASSUME IInv, NEW t \in Terminals, ConfirmEnrollment(t), UNCHANGED challenges
    PROVE  IInv'
<1>1. pc[t] \notin LoginLabels /\ pc[t] \in SessionUserLabels
    BY DEF ConfirmEnrollment, LoginLabels, SessionUserLabels
<1>2. frame[t] \in Frames /\ frame[t].user \in Users
    BY <1>1, SessionFacts
<1>3. DBTypeOK'
  <2>1. CASE EnableTOTP(frame[t].user, frame[t].secret)
      BY <1>2, <2>1
      DEF EnableTOTP, ConfirmEnrollment, IInv, TypeOK, DBTypeOK, LSTypeOK, Frames, Codes
  <2>2. CASE UNCHANGED <<totp, enrolledAt>>
      BY <2>2 DEF ConfirmEnrollment, IInv, TypeOK, DBTypeOK
  <2> QED BY <2>1, <2>2 DEF ConfirmEnrollment
<1>4. LSTypeOK' /\ UNCHANGED <<sessions, token>>
    BY DEF ConfirmEnrollment, IInv, TypeOK, LSTypeOK, lsVars
<1>5. TOTPTypeOK'
  <2>1. CASE RemoveSetup(t, frame[t].user)
      BY <2>1, RemoveSetupType DEF IInv, TypeOK
  <2>2. CASE UNCHANGED totpVars
      BY <2>2 DEF IInv, TypeOK, TOTPTypeOK, totpVars
  <2> QED BY <2>1, <2>2 DEF ConfirmEnrollment
<1> QED BY <1>1, <1>3, <1>4, <1>5, ReturnInv DEF ConfirmEnrollment, SameOrNoToken

LEMMA CancelSetupInv ==
    ASSUME IInv, NEW t \in Terminals, CancelSetup(t), UNCHANGED challenges
    PROVE  IInv'
<1>1. pc[t] \notin LoginLabels
    BY DEF CancelSetup, LoginLabels
<1>2. LSTypeOK' /\ DBTypeOK' /\ UNCHANGED <<sessions, token>>
    BY DEF CancelSetup, IInv, TypeOK, LSTypeOK, DBTypeOK, lsVars, dbVars
<1>3. TOTPTypeOK'
  <2>1. ASSUME NEW u, RemoveSetup(t, u)
        PROVE  TOTPTypeOK'
      BY <2>1, RemoveSetupType DEF IInv, TypeOK
  <2>2. CASE UNCHANGED totpVars
      BY <2>2 DEF IInv, TypeOK, TOTPTypeOK, totpVars
  <2> QED BY <2>1, <2>2 DEF CancelSetup
<1> QED BY <1>1, <1>2, <1>3, ReturnInv DEF CancelSetup, SameOrNoToken

LEMMA SetupInv ==
    ASSUME IInv, NEW t \in Terminals, SetupStep(t)
    PROVE  IInv'
<1>0. UNCHANGED challenges
    BY DEF SetupStep
<1>1. CASE RefuseSetup(t)
  <2>1. LSTypeOK' /\ DBTypeOK' /\ TOTPTypeOK' /\ UNCHANGED <<sessions, token>>
      BY <1>1
      DEF RefuseSetup, IInv, TypeOK, LSTypeOK, DBTypeOK, TOTPTypeOK, lsVars, dbVars, totpVars
  <2> QED BY <1>0, <1>1, <2>1, ReturnInv DEF RefuseSetup, SameOrNoToken, LoginLabels
<1>2. ASSUME NEW code \in Codes, ConfirmSetup(t, code)
      PROVE  IInv'
  <2>1. pc[t] \notin LoginLabels /\ token[t] \in Tokens
      BY <1>2, SessionFacts DEF ConfirmSetup, LoginLabels, SessionLabels
  <2> QED BY <1>0, <1>2, <2>1, CallFrame, ValidateSessionInv DEF ConfirmSetup, Calls
<1> QED BY <1>0, <1>1, <1>2, StoreSetupInv, CheckSetupCodeInv, ConfirmEnrollmentInv,
           CancelSetupInv
        DEF SetupStep, FreshSecrets

LEMMA StartSetupInv ==
    ASSUME IInv, NEW t \in Terminals, StartSetup(t)
    PROVE  IInv'
<1>1. "enable-2fa" \in Commands /\ Dispatch(t, "enable-2fa") /\ "enable-2fa" # "login"
    BY DEF StartSetup, BeginSetup, Dispatch
<1> QED BY <1>1, DispatchFacts, CallFrame, ValidateSessionInv DEF StartSetup, BeginSetup, Calls, Codes

LEMMA DisableInv ==
    ASSUME IInv, NEW t \in Terminals, DisableStep(t)
    PROVE  IInv'
<1>0. UNCHANGED challenges
    BY DEF DisableStep
<1>1. ASSUME NEW code \in Codes, Disable(t, code)
      PROVE  IInv'
  <2>1. "disable-2fa" \in Commands /\ Dispatch(t, "disable-2fa") /\ "disable-2fa" # "login"
      BY <1>1 DEF Disable, Dispatch
  <2> QED BY <1>0, <1>1, <2>1, DispatchFacts, CallFrame, ValidateSessionInv DEF Disable, Calls
<1> DEFINE f == [frame[t] EXCEPT !.secret = totp[frame[t].user], !.read = now]
<1>2. CASE DisableSessionUser(t) \/ CheckDisable(t)
  <2>1. /\ pc[t] \notin LoginLabels /\ pc[t] \in SessionLabels /\ pc[t] \in SessionUserLabels
      BY <1>2 DEF DisableSessionUser, CheckDisable, LoginLabels, SessionLabels, SessionUserLabels
  <2>2. /\ frame[t] \in Frames /\ frame[t].user \in Users /\ token[t] \in Tokens
        /\ frame[t].challenge = NoChallenge
        /\ sessions[token[t]] = NoRow \/ sessions[token[t]].user = frame[t].user
      BY <2>1, SessionFacts
  <2>3. /\ LSTypeOK' /\ DBTypeOK' /\ TOTPTypeOK'
        /\ UNCHANGED <<sessions, token>>
      BY <1>2
      DEF DisableSessionUser, CheckDisable, IInv, TypeOK, LSTypeOK, DBTypeOK, TOTPTypeOK,
          lsVars, dbVars, totpVars
  <2>4. f \in Frames /\ f.challenge = NoChallenge /\ f.user = frame[t].user
      BY <2>2 DEF Frames, Codes, IInv, TypeOK, LSTypeOK, DBTypeOK
  <2>5. \/ Goto(t, "DisableFindUser", frame[t])
        \/ Goto(t, "DisableTOTP", f)
        \/ Return(t)
      BY <1>2 DEF DisableSessionUser, CheckDisable
  <2> HIDE DEF f
  <2> QED BY <1>0, <2>1, <2>2, <2>3, <2>4, <2>5, ContinueInv, ReturnInv
          DEF SessionLabels, SameOrNoToken
<1>3. CASE CommitDisable(t)
  <2>1. pc[t] \notin LoginLabels /\ pc[t] \in SessionUserLabels
      BY <1>3 DEF CommitDisable, LoginLabels, SessionUserLabels
  <2>2. LSTypeOK' /\ TOTPTypeOK' /\ UNCHANGED <<sessions, token>>
      BY <1>3 DEF CommitDisable, IInv, TypeOK, LSTypeOK, TOTPTypeOK, lsVars, totpVars
  <2>3. DBTypeOK'
      BY <1>3 DEF CommitDisable, DisableTOTP, IInv, TypeOK, DBTypeOK
  <2> QED BY <1>0, <1>3, <2>1, <2>2, <2>3, ReturnInv DEF CommitDisable, SameOrNoToken
<1> QED BY <1>1, <1>2, <1>3 DEF DisableStep

-----------------------------------------------------------------------------
\* The clock, startup and the end of a process.

LEMMA TickInv ==
    ASSUME IInv, Tick
    PROVE  IInv'
<1>1. LSTypeOK'
    BY LSTypeStep DEF Tick, LSNext, IInv, TypeOK
<1>2. TypeOK'
    BY <1>1 DEF Tick, IInv, TypeOK, DBTypeOK, TermTypeOK, AuthTypeOK, TOTPTypeOK,
                dbVars, termVars, totpVars
<1> QED BY <1>2 DEF Tick, IInv, CommandContext, Fits, ChallengeOnlyInDialog, InDialog,
                    SessionIsolation, IsAuthenticated, dbVars, termVars

\* The purge at startup only removes rows.
LEMMA StartInv ==
    ASSUME IInv, NEW t \in Terminals, Start(t)
    PROVE  IInv'
<1>1. /\ pc[t] = "down" /\ pc[t] \notin LoginLabels
      /\ UNCHANGED <<now, lsVars, totp, lastLogin, enrolledAt, token, challenges, totpVars>>
    BY DEF Start, StartProcess, LoginLabels
<1>2. /\ sessions' \in [Tokens -> Rows]
      /\ \A j \in Tokens : sessions'[j] \in {sessions[j], NoRow}
  <2>1. NoRow \in Rows
      BY DEF NoRow, Rows
  <2> QED BY <2>1 DEF Start, StartProcess, DeleteExpired, IInv, TypeOK, DBTypeOK
<1>3. /\ pc' \in [Terminals -> Labels] /\ frame' \in [Terminals -> Frames]
      /\ pc'[t] \in {"ready", "down"} /\ frame'[t] \in {Idle, frame[t]}
      /\ \A o \in Terminals \ {t} : pc'[o] = pc[o] /\ frame'[o] = frame[o]
  <2>1. CASE Return(t)
      BY <2>1, GotoEffect, IdleFrame DEF IInv, TypeOK, Return, Labels
  <2>2. CASE UNCHANGED <<pc, frame>>
      BY <1>1, <2>2 DEF IInv, TypeOK, TermTypeOK
  <2> QED BY <2>1, <2>2 DEF Start, StartProcess
<1>4. TypeOK'
    BY <1>1, <1>2, <1>3
    DEF IInv, TypeOK, LSTypeOK, DBTypeOK, TermTypeOK, AuthTypeOK, TOTPTypeOK, lsVars, totpVars
<1>5. CommandContext'
  <2>1. ASSUME NEW o \in Terminals
        PROVE  Fits(pc[o], frame[o], token[o])'
    <3>1. Fits(pc[o], frame[o], token[o])
        BY DEF IInv, CommandContext
    <3> QED BY <1>1, <1>2, <1>3, <3>1
            DEF Fits, LoginLabels, SessionLabels, SessionUserLabels
  <2> QED BY <1>2, <2>1 DEF IInv, CommandContext
<1>6. ChallengeOnlyInDialog'
    BY <1>1, <1>3, SessionFacts, IdleFrame DEF IInv, ChallengeOnlyInDialog, InDialog
<1>7. SessionIsolation'
    BY <1>1, <1>2 DEF IInv, SessionIsolation, IsAuthenticated, NoRow, TypeOK, TermTypeOK
<1> QED BY <1>4, <1>5, <1>6, <1>7 DEF IInv

LEMMA StopInv ==
    ASSUME IInv, NEW t \in Terminals, Stop(t)
    PROVE  IInv'
<1>1. UNCHANGED <<now, lsVars, dbVars>>
    BY DEF Stop, StopProcess
<1>2. /\ pc' \in [Terminals -> Labels] /\ frame' \in [Terminals -> Frames]
      /\ pc'[t] = "down" /\ frame'[t] = Idle
      /\ \A o \in Terminals \ {t} : pc'[o] = pc[o] /\ frame'[o] = frame[o]
    BY GotoEffect, IdleFrame DEF IInv, TypeOK, Stop, StopProcess, Labels
<1>3. /\ token' \in [Terminals -> Tokens \cup {NoToken}]
      /\ token'[t] = NoToken
      /\ \A o \in Terminals \ {t} : token'[o] = token[o]
    BY DEF Stop, StopProcess, ClearSession, SetSession, IInv, TypeOK, TermTypeOK
<1>4. /\ challenges' \in [Terminals -> [ChallengeIds -> Pendings]]
      /\ \A c \in ChallengeIds : challenges'[t][c] = NoPending
      /\ \A o \in Terminals \ {t} : challenges'[o] = challenges[o]
    BY DEF Stop, ClearChallenges, IInv, TypeOK, AuthTypeOK, Pendings, NoPending
<1>5. TOTPTypeOK'
  <2>1. NoSetup \in Setups
      BY DEF NoSetup, Setups, Codes
  <2> QED BY <2>1 DEF Stop, ClearPendingSetups, IInv, TypeOK, TOTPTypeOK
<1>6. TypeOK'
    BY <1>1, <1>2, <1>3, <1>4, <1>5
    DEF IInv, TypeOK, LSTypeOK, DBTypeOK, TermTypeOK, AuthTypeOK, lsVars, dbVars
<1>7. CommandContext'
    BY <1>1, <1>2, <1>3
    DEF IInv, CommandContext, Fits, LoginLabels, SessionLabels, SessionUserLabels, dbVars
<1>8. ChallengeOnlyInDialog'
    BY <1>2, <1>4, IdleFrame DEF IInv, ChallengeOnlyInDialog, InDialog
<1>9. SessionIsolation'
    BY <1>1, <1>3 DEF IInv, SessionIsolation, IsAuthenticated, dbVars
<1> QED BY <1>6, <1>7, <1>8, <1>9 DEF IInv

-----------------------------------------------------------------------------
LEMMA InitInv == Init => IInv
<1> SUFFICES ASSUME Init
             PROVE  IInv
    OBVIOUS
<1> USE DEF Init
<1>1. LSTypeOK
    BY MaxAttemptsAssumption DEF LSInit, ClockInit, LSTypeOK
<1>2. DBTypeOK
    BY DEF DBInit, DBTypeOK, NoRow, Rows
<1>3. TermTypeOK
    BY IdleFrame DEF TermInit, TermTypeOK, Labels
<1>4. AuthTypeOK
    BY DEF AuthInit, AuthTypeOK, Pendings, NoPending
<1>5. TOTPTypeOK
    BY DEF TOTPInit, TOTPTypeOK, Setups, NoSetup, Codes
<1>6. CommandContext
    BY DEF TermInit, DBInit, CommandContext, Fits, LoginLabels, SessionLabels, SessionUserLabels
<1>7. ChallengeOnlyInDialog
    BY IdleFrame DEF TermInit, AuthInit, ChallengeOnlyInDialog, InDialog
<1>8. SessionIsolation
    BY DEF TermInit, SessionIsolation, IsAuthenticated
<1> QED BY <1>1, <1>2, <1>3, <1>4, <1>5, <1>6, <1>7, <1>8 DEF IInv, TypeOK

LEMMA NextInv == IInv /\ [Next]_vars => IInv'
<1> SUFFICES ASSUME IInv, [Next]_vars
             PROVE  IInv'
    OBVIOUS
<1>1. CASE Tick
    BY <1>1, TickInv
<1>2. ASSUME NEW t \in Terminals, Process(t)
      PROVE  IInv'
    BY <1>2, StartInv, StopInv, StartLoginInv, LoginInv, SessionInv, StartSetupInv,
       SetupInv, DisableInv
    DEF Process
<1>3. CASE UNCHANGED vars
    BY <1>3
    DEF vars, lsVars, dbVars, termVars, totpVars, IInv, TypeOK, LSTypeOK, DBTypeOK, TermTypeOK,
        AuthTypeOK, TOTPTypeOK, CommandContext, Fits, ChallengeOnlyInDialog, InDialog,
        SessionIsolation, IsAuthenticated
<1> QED BY <1>1, <1>2, <1>3 DEF Next

\* The inductive invariant holds for any number of terminals, accounts and
\* tokens, any timeouts and any set of failing stores.
THEOREM Invariant == Spec => []IInv
  BY InitInv, NextInv, PTL DEF Spec

\* Every variable of the system keeps its type.
THEOREM TypeCorrect == Spec => []TypeOK
<1>1. IInv => TypeOK
    BY DEF IInv
<1> QED BY <1>1, Invariant, PTL

\* No two terminals share a session, and none holds a revoked one.
THEOREM SessionsIsolated == Spec => []SessionIsolation
<1>1. IInv => SessionIsolation
    BY DEF IInv
<1> QED BY <1>1, Invariant, PTL

\* A TOTP challenge exists exactly while its login dialog runs.
THEOREM ChallengesCleaned == Spec => []ChallengeOnlyInDialog
<1>1. IInv => ChallengeOnlyInDialog
    BY DEF IInv
<1> QED BY <1>1, Invariant, PTL

\* Commands keep the login state and the user they were started with.
THEOREM ContextKept == Spec => []CommandContext
<1>1. IInv => CommandContext
    BY DEF IInv
<1> QED BY <1>1, Invariant, PTL

-----------------------------------------------------------------------------
(***************************************************************************)
(* The pending setups.  The two maps agree and a dialog owns its setup     *)
(* because a session has one user for as long as its row exists, and a     *)
(* command that validated the session carries that user to its end.        *)
(***************************************************************************)

\* A pending setup belongs to the user of its session's row, if there is one,
\* and to the user the terminal's command has validated.
SetupOwner ==
    \A t \in Terminals, k \in Tokens :
        bySession[t][k] # NoUser =>
            /\ sessions[k] = NoRow \/ sessions[k].user = bySession[t][k]
            /\ pc[t] \in SessionUserLabels /\ token[t] = k =>
                  frame[t].user = bySession[t][k]

\* The prompt for a setup code stands only inside a dialog.
SetupPrompt == \A t \in Terminals : pc[t] = "EnterSetupCode" => frame[t].call = "ConfirmSetup"

\* The inductive invariant of the pending setups, relative to IInv.
PendingInv == SetupIndexConsistent /\ DialogOwnsSetup /\ SetupOwner /\ SetupPrompt

\* Rows that belong to a pending setup stay as they are, or are purged.
RowsKept ==
    \A k \in Tokens : \/ sessions'[k] = NoRow
                      \/ sessions[k] # NoRow /\ sessions'[k].user = sessions[k].user
                      \/ \A o \in Terminals : bySession[o][k] = NoUser

\* Only t moves.
OnlyMoves(t) ==
    \A o \in Terminals \ {t} : pc'[o] = pc[o] /\ frame'[o] = frame[o] /\ token'[o] = token[o]

\* t is outside the commands of the logged-in, or past their validated user.
Leaves(t) == /\ frame'[t].call # "ConfirmSetup"
             /\ pc'[t] \notin SessionUserLabels \cup {"EnterSetupCode"}

\* t goes on with the same call for the same user.
GoesOn(t) == /\ token'[t] = token[t]
             /\ frame'[t].call = frame[t].call
             /\ frame'[t].user = frame[t].user
             /\ pc'[t] # "EnterSetupCode"
             /\ pc'[t] \in SessionUserLabels => pc[t] \in SessionUserLabels
             /\ pc'[t] = "EnableTOTP" => frame'[t].code = byUser[t][frame[t].user].secret

\* t has validated its session.
Validated(t) == /\ token[t] \in Tokens /\ token'[t] = token[t]
                /\ sessions[token[t]] # NoRow
                /\ frame'[t].user = sessions[token[t]].user
                /\ pc'[t] = "FindUser"
                /\ frame'[t].call = "ConfirmSetup" => frame[t].call = "ConfirmSetup"

\* t asks for another code.
AsksAgain(t) == /\ token'[t] = token[t]
                /\ pc'[t] = "EnterSetupCode"
                /\ frame'[t].user = NoUser
                /\ frame'[t].call = "ConfirmSetup" /\ frame[t].call = "ConfirmSetup"

SetupNeutral(t) == Leaves(t) \/ GoesOn(t) \/ Validated(t) \/ AsksAgain(t)

\* A step of t that touches no pending setup.
LEMMA NeutralStep ==
    ASSUME IInv, PendingInv, NEW t \in Terminals, UNCHANGED totpVars,
           OnlyMoves(t), RowsKept, SetupNeutral(t)
    PROVE  PendingInv'
<1>0. /\ byUser' = byUser /\ bySession' = bySession
      /\ \A u \in Users : u # NoUser
      /\ bySession \in [Terminals -> [Tokens -> Users \cup {NoUser}]]
    BY DEF totpVars, IInv, TypeOK, TOTPTypeOK
<1>1. SetupIndexConsistent'
    BY <1>0 DEF PendingInv, SetupIndexConsistent
<1>2. SetupPrompt'
    BY DEF PendingInv, SetupPrompt, OnlyMoves, SetupNeutral, Leaves, GoesOn, Validated, AsksAgain
<1>3. SetupOwner'
  <2> SUFFICES ASSUME NEW o \in Terminals, NEW k \in Tokens, bySession[o][k] # NoUser
               PROVE  /\ sessions'[k] = NoRow \/ sessions'[k].user = bySession[o][k]
                      /\ pc'[o] \in SessionUserLabels /\ token'[o] = k =>
                            frame'[o].user = bySession[o][k]
      BY <1>0 DEF SetupOwner
  <2>1. /\ sessions[k] = NoRow \/ sessions[k].user = bySession[o][k]
        /\ pc[o] \in SessionUserLabels /\ token[o] = k => frame[o].user = bySession[o][k]
      BY DEF PendingInv, SetupOwner
  <2>2. sessions'[k] = NoRow \/ sessions'[k].user = bySession[o][k]
      BY <2>1 DEF RowsKept
  <2>3. CASE o # t
      BY <2>1, <2>2, <2>3 DEF OnlyMoves
  <2>4. CASE o = t
      BY <2>1, <2>2, <2>4
      DEF SetupNeutral, Leaves, GoesOn, Validated, AsksAgain, SessionUserLabels
  <2> QED BY <2>3, <2>4
<1>4. DialogOwnsSetup'
  <2> SUFFICES ASSUME NEW o \in Terminals, frame'[o].call = "ConfirmSetup"
               PROVE  \E u \in Users : /\ byUser[o][u].session = token'[o]
                                       /\ frame'[o].user \in {u, NoUser}
                                       /\ pc'[o] = "EnableTOTP" => byUser[o][u].secret = frame'[o].code
      BY <1>0 DEF DialogOwnsSetup
  <2>1. CASE o # t
      BY <2>1 DEF PendingInv, DialogOwnsSetup, OnlyMoves
  <2>2. CASE o = t
    <3>1. frame[t].call = "ConfirmSetup" /\ token'[t] = token[t]
        BY <2>2 DEF SetupNeutral, Leaves, GoesOn, Validated, AsksAgain
    <3> PICK u \in Users : /\ byUser[t][u].session = token[t]
                           /\ frame[t].user \in {u, NoUser}
        BY <3>1 DEF PendingInv, DialogOwnsSetup
    <3>2. CASE GoesOn(t)
      <4>1. pc'[t] = "EnableTOTP" => frame[t].user = u
        <5>1. pc[t] \in SessionUserLabels => frame[t].user \in Users
            BY DEF IInv, CommandContext, Fits
        <5> QED BY <1>0, <3>2, <5>1 DEF GoesOn, SessionUserLabels
      <4> QED BY <2>2, <3>1, <3>2, <4>1 DEF GoesOn
    <3>3. CASE Validated(t)
      <4>1. bySession[t][token[t]] = u
          BY <3>3 DEF Validated, PendingInv, SetupIndexConsistent
      <4>2. sessions[token[t]].user = u
          BY <1>0, <3>3, <4>1 DEF Validated, PendingInv, SetupOwner
      <4> QED BY <2>2, <3>1, <3>3, <4>2 DEF Validated
    <3>4. CASE AsksAgain(t)
        BY <2>2, <3>1, <3>4 DEF AsksAgain
    <3> QED BY <2>2, <3>2, <3>3, <3>4 DEF SetupNeutral, Leaves
  <2> QED BY <2>1, <2>2
<1> QED BY <1>1, <1>2, <1>3, <1>4 DEF PendingInv

\* What Goto does, whatever its label and frame.
LEMMA GotoMoves ==
    ASSUME TermTypeOK, NEW t \in Terminals, NEW l, NEW f, Goto(t, l, f)
    PROVE  /\ pc'[t] = l /\ frame'[t] = f
           /\ \A o \in Terminals \ {t} : pc'[o] = pc[o] /\ frame'[o] = frame[o]
  BY DEF TermTypeOK, Goto

\* A handler that returns leaves the dialog.
LEMMA ReturnLeaves ==
    ASSUME IInv, NEW t \in Terminals, Return(t)
    PROVE  Leaves(t) /\ \A o \in Terminals \ {t} : pc'[o] = pc[o] /\ frame'[o] = frame[o]
  BY GotoMoves DEF IInv, TypeOK, Return, Leaves, Idle, SessionUserLabels

\* Two ways in which a step keeps rows and terminals.
LEMMA SameRows == ASSUME UNCHANGED sessions PROVE RowsKept
  BY DEF RowsKept

LEMMA SameTokens ==
    ASSUME NEW t \in Terminals, UNCHANGED token,
           \A o \in Terminals \ {t} : pc'[o] = pc[o] /\ frame'[o] = frame[o]
    PROVE  OnlyMoves(t)
  BY DEF OnlyMoves

-----------------------------------------------------------------------------
\* The steps of login touch no setup: a new session's token is in neither map.
LEMMA LoginPending ==
    ASSUME IInv, PendingInv, NEW t \in Terminals, StartLogin(t) \/ LoginStep(t)
    PROVE  PendingInv'
<1>0. UNCHANGED totpVars /\ TermTypeOK
    BY DEF StartLogin, LoginStep, IInv, TypeOK
<1>1. CASE StartLogin(t)
  <2> PICK u \in Users : LoginWithPassword(t, u)
      BY <1>1 DEF StartLogin
  <2> DEFINE f == [Idle EXCEPT !.call = "LoginWithPassword", !.user = u,
                               !.secret = totp[u], !.read = now]
  <2>1. Goto(t, "IsBlocked", f) /\ UNCHANGED <<sessions, token>>
      BY DEF LoginWithPassword, dbVars
  <2>2. f.call = "LoginWithPassword"
      BY DEF Idle
  <2> HIDE DEF f
  <2> QED BY <1>0, <2>1, <2>2, GotoMoves, SameRows, SameTokens, NeutralStep
          DEF SetupNeutral, Leaves, SessionUserLabels
<1>2. CASE Return(t) /\ RowsKept /\ \A o \in Terminals \ {t} : token'[o] = token[o]
    BY <1>0, <1>2, ReturnLeaves, NeutralStep DEF SetupNeutral, OnlyMoves
<1>3. ASSUME NEW c \in ChallengeIds, NEW u, AskCode(t, u, c), UNCHANGED <<sessions, token>>
      PROVE  PendingInv'
  <2> DEFINE f == [Idle EXCEPT !.call = "CompleteTOTPLogin", !.user = u, !.challenge = c]
  <2>1. Goto(t, "EnterLoginCode", f) /\ f.call = "CompleteTOTPLogin"
      BY <1>3 DEF AskCode, Idle
  <2> HIDE DEF f
  <2> QED BY <1>0, <1>3, <2>1, GotoMoves, SameRows, SameTokens, NeutralStep
          DEF SetupNeutral, Leaves, SessionUserLabels
<1>4. ASSUME NEW l \in LoginLabels, NEW f, Goto(t, l, f), UNCHANGED <<sessions, token>>,
             f.call = frame[t].call, f.user = frame[t].user
      PROVE  PendingInv'
    BY <1>0, <1>4, GotoMoves, SameRows, SameTokens, NeutralStep
    DEF SetupNeutral, GoesOn, LoginLabels, SessionUserLabels
<1>5. CASE LoginStep(t)
  <2>2. frame[t] \in Frames
      BY <1>0 DEF TermTypeOK
  <2>3. CASE LoginBlocked(t) \/ CancelTOTPLogin(t)
      BY <1>2, <2>3, SameRows DEF LoginBlocked, CancelTOTPLogin, EndLogin, dbVars
  <2>4. CASE VerifyPassword(t) \/ VerifyLoginCode(t)
    <3> DEFINE f == [frame[t] EXCEPT !.checked = now]
    <3>1. /\ UNCHANGED <<sessions, token>>
          /\ \/ \E l \in {"RecordFailure", "Reset"} : Goto(t, l, f)
             \/ BeginTOTPLogin(t)
             \/ Return(t)
        BY <2>4 DEF VerifyPassword, VerifyLoginCode, EndLogin, dbVars
    <3>2. f.call = frame[t].call /\ f.user = frame[t].user
        BY <2>2 DEF Frames
    <3> HIDE DEF f
    <3>3. CASE \E l \in {"RecordFailure", "Reset"} : Goto(t, l, f)
        BY <1>4, <3>1, <3>2, <3>3 DEF LoginLabels
    <3>4. CASE BeginTOTPLogin(t)
        BY <1>3, <3>1, <3>4 DEF BeginTOTPLogin
    <3>5. CASE Return(t)
        BY <1>2, <3>1, <3>5, SameRows
    <3> QED BY <3>1, <3>3, <3>4, <3>5
  <2>5. ASSUME NEW code \in Codes, CompleteTOTPLogin(t, code)
        PROVE  PendingInv'
    <3> DEFINE u == challenges[t][frame[t].challenge].user
               f == [frame[t] EXCEPT !.user = u, !.code = code, !.secret = totp[u], !.read = now]
    <3>1. UNCHANGED <<sessions, token>> /\ (Goto(t, "IsBlocked", f) \/ Return(t))
        BY <2>5 DEF CompleteTOTPLogin, EndLogin, dbVars
    <3>2. u = frame[t].user
      <4>1. pc[t] = "EnterLoginCode" /\ pc[t] \in LoginLabels
          BY <2>5 DEF CompleteTOTPLogin, LoginLabels
      <4> QED BY <4>1, LoginFacts
    <3>3. f.call = frame[t].call /\ f.user = frame[t].user
        BY <2>2, <3>2 DEF Frames
    <3> HIDE DEF f
    <3>4. CASE Goto(t, "IsBlocked", f)
        BY <1>4, <3>1, <3>3, <3>4 DEF LoginLabels
    <3> QED BY <1>2, <3>1, <3>4, SameRows
  <2>6. CASE FailedLogin(t)
    <3>1. UNCHANGED <<sessions, token>> /\ \E reply : AfterFailure(t, reply)
        BY <2>6 DEF FailedLogin, dbVars
    <3>2. \/ /\ frame[t].challenge \in ChallengeIds
             /\ AskCode(t, frame[t].user, frame[t].challenge)
          \/ Return(t)
        BY <2>2, <3>1 DEF AfterFailure, EndLogin, Frames
    <3> QED BY <1>2, <1>3, <3>1, <3>2, SameRows
  <2>7. CASE FinishLogin(t)
    <3> DEFINE f == [frame[t] EXCEPT !.checked = 0, !.at = now]
    <3>1. UNCHANGED <<sessions, token>> /\ (Goto(t, "FinalizeLogin", f) \/ Return(t))
        BY <2>7 DEF FinishLogin, EndLogin, dbVars
    <3>2. f.call = frame[t].call /\ f.user = frame[t].user
        BY <2>2 DEF Frames
    <3> HIDE DEF f
    <3>3. CASE Goto(t, "FinalizeLogin", f)
        BY <1>4, <3>1, <3>2, <3>3 DEF LoginLabels
    <3> QED BY <1>2, <3>1, <3>3, SameRows
  <2>8. ASSUME NEW k \in FreshTokens, FinalizeLogin(t, k)
        PROVE  PendingInv'
    <3>1. Return(t) /\ \A o \in Terminals \ {t} : token'[o] = token[o]
        BY <2>8 DEF FinalizeLogin, EndLogin, SetSession, IInv, TypeOK, TermTypeOK
    <3>2. k \in Tokens /\ \A o \in Terminals : bySession[o][k] = NoUser
        BY DEF FreshTokens
    <3>3. \A j \in Tokens \ {k} : sessions'[j] = sessions[j]
        BY <2>8 DEF FinalizeLogin, CommitLogin, CreateSession, dbVars, IInv, TypeOK, DBTypeOK
    <3>4. RowsKept
        BY <3>2, <3>3 DEF RowsKept
    <3> QED BY <1>2, <3>1, <3>4
  <2> QED BY <1>5, <2>3, <2>4, <2>5, <2>6, <2>7, <2>8 DEF LoginStep
<1> QED BY <1>1, <1>5

-----------------------------------------------------------------------------
\* The validation of a session, for a call that is the confirmation only when
\* the dialog was asking for a code.
LEMMA ValidatePending ==
    ASSUME IInv, PendingInv, NEW t \in Terminals, token[t] \in Tokens, NEW f \in Frames,
           ValidateSession(t, f), UNCHANGED totpVars,
           f.call = "ConfirmSetup" => frame[t].call = "ConfirmSetup"
    PROVE  PendingInv'
<1> DEFINE g == [f EXCEPT !.user = sessions[token[t]].user]
<1>1. /\ UNCHANGED sessions
      /\ \/ Live(token[t]) /\ Goto(t, "FindUser", g) /\ UNCHANGED token
         \/ Return(t) /\ SameOrNoToken(t)
    BY DEF ValidateSession, dbVars, SameOrNoToken
<1>2. g.user = sessions[token[t]].user /\ g.call = f.call
    BY DEF Frames
<1>3. TermTypeOK
    BY DEF IInv, TypeOK
<1> HIDE DEF g
<1>4. CASE Live(token[t]) /\ Goto(t, "FindUser", g) /\ UNCHANGED token
  <2>1. Validated(t)
      BY <1>2, <1>3, <1>4, GotoMoves DEF Validated, Live, NoRow
  <2> QED BY <1>1, <1>3, <1>4, <2>1, GotoMoves, SameRows, SameTokens, NeutralStep DEF SetupNeutral
<1>5. CASE Return(t) /\ SameOrNoToken(t)
  <2>1. OnlyMoves(t)
      BY <1>3, <1>5, ReturnLeaves, TokenEffect DEF OnlyMoves
  <2> QED BY <1>1, <1>5, <2>1, ReturnLeaves, SameRows, NeutralStep DEF SetupNeutral
<1> QED BY <1>1, <1>4, <1>5

\* The handler returns and touches no setup and no row of one.
LEMMA ReturnPending ==
    ASSUME IInv, PendingInv, NEW t \in Terminals, Return(t), RowsKept, UNCHANGED totpVars,
           \A o \in Terminals \ {t} : token'[o] = token[o]
    PROVE  PendingInv'
  BY ReturnLeaves, NeutralStep DEF SetupNeutral, OnlyMoves

\* whoami and logout.
LEMMA SessionPending ==
    ASSUME IInv, PendingInv, NEW t \in Terminals, SessionStep(t)
    PROVE  PendingInv'
<1>0. UNCHANGED totpVars /\ TermTypeOK
    BY DEF SessionStep, IInv, TypeOK
<1>1. CASE WhoAmI(t)
  <2>1. "WhoAmI" \in Calls /\ "whoami" # "login" /\ "whoami" \in Commands /\ Dispatch(t, "whoami")
      BY <1>1 DEF Calls, WhoAmI, Dispatch
  <2> DEFINE f == [Idle EXCEPT !.call = "WhoAmI"]
  <2>2. f \in Frames
      BY IdleFrame DEF Frames, Calls
  <2>3. f.call = "WhoAmI"
      BY DEF Idle
  <2>4. ValidateSession(t, f)
      BY <1>1 DEF WhoAmI
  <2> HIDE DEF f
  <2> QED BY <1>0, <2>1, <2>2, <2>3, <2>4, DispatchFacts, ValidatePending
<1>2. CASE WhoAmIUser(t) \/ SessionUserUnavailable(t)
    BY <1>0, <1>2, SameRows, ReturnPending DEF WhoAmIUser, SessionUserUnavailable, dbVars
<1>3. CASE Logout(t)
  <2> DEFINE f == [Idle EXCEPT !.call = "Logout"]
  <2>1. UNCHANGED sessions
      BY <1>3 DEF Logout, dbVars
  <2>2. CASE Return(t) /\ ClearSession(t)
      BY <1>0, <2>1, <2>2, SameRows, ReturnPending, TokenEffect DEF SameOrNoToken
  <2>3. CASE Goto(t, "Revoke", f) /\ UNCHANGED token
    <3>1. f.call = "Logout"
        BY DEF Idle
    <3> HIDE DEF f
    <3> QED BY <1>0, <2>1, <2>3, <3>1, GotoMoves, SameRows, SameTokens, NeutralStep
            DEF SetupNeutral, Leaves, SessionUserLabels
  <2> QED BY <1>3, <2>2, <2>3 DEF Logout
<1>4. CASE LogoutRevoke(t)
  <2>1. token[t] \in Tokens
      BY <1>4, SessionFacts DEF LogoutRevoke, LoginLabels, SessionLabels
  <2>2. RowsKept
    <3>1. CASE Revoke(token[t])
        BY <2>1, <3>1 DEF Revoke, RowsKept, IInv, TypeOK, DBTypeOK, Rows, NoRow
    <3> QED BY <1>4, <3>1, SameRows DEF LogoutRevoke
  <2>3. \A o \in Terminals \ {t} : token'[o] = token[o]
      BY <1>0, <1>4, TokenEffect DEF LogoutRevoke, SameOrNoToken
  <2> QED BY <1>0, <1>4, <2>2, <2>3, ReturnPending DEF LogoutRevoke
<1> QED BY <1>1, <1>2, <1>3, <1>4 DEF SessionStep

\* disable-2fa, which knows nothing of pending setups.
LEMMA DisablePending ==
    ASSUME IInv, PendingInv, NEW t \in Terminals, DisableStep(t)
    PROVE  PendingInv'
<1>0. TermTypeOK
    BY DEF IInv, TypeOK
<1>1. ASSUME NEW code \in Codes, Disable(t, code)
      PROVE  PendingInv'
  <2> DEFINE f == [Idle EXCEPT !.call = "Disable", !.code = code]
  <2>1. "disable-2fa" \in Commands /\ Dispatch(t, "disable-2fa") /\ "disable-2fa" # "login"
      BY <1>1 DEF Disable, Dispatch
  <2>2. f \in Frames
      BY IdleFrame DEF Frames, Calls
  <2>3. f.call = "Disable"
      BY DEF Idle
  <2>4. ValidateSession(t, f) /\ UNCHANGED totpVars
      BY <1>1 DEF Disable
  <2> HIDE DEF f
  <2> QED BY <2>1, <2>2, <2>3, <2>4, DispatchFacts, ValidatePending
<1> DEFINE f == [frame[t] EXCEPT !.secret = totp[frame[t].user], !.read = now]
<1>2. CASE DisableSessionUser(t) \/ CheckDisable(t)
  <2>1. /\ pc[t] \in SessionUserLabels /\ pc[t] \notin LoginLabels
        /\ UNCHANGED <<sessions, token>> /\ UNCHANGED totpVars
        /\ \/ Goto(t, "DisableFindUser", frame[t])
           \/ Goto(t, "DisableTOTP", f)
           \/ Return(t)
      BY <1>2 DEF DisableSessionUser, CheckDisable, SessionUserLabels, LoginLabels, dbVars
  <2>2. f.call = frame[t].call /\ f.user = frame[t].user
      BY <2>1, SessionFacts DEF Frames
  <2> HIDE DEF f
  <2>3. ASSUME NEW l \in {"DisableFindUser", "DisableTOTP"}, NEW g \in {f, frame[t]}, Goto(t, l, g)
        PROVE  PendingInv'
      BY <1>0, <2>1, <2>2, <2>3, GotoMoves, SameRows, SameTokens, NeutralStep
      DEF SetupNeutral, GoesOn, SessionUserLabels
  <2>4. CASE Return(t)
      BY <2>1, <2>4, SameRows, ReturnPending
  <2> QED BY <2>1, <2>3, <2>4
<1>3. CASE CommitDisable(t)
    BY <1>3, SameRows, ReturnPending DEF CommitDisable
<1> QED BY <1>1, <1>2, <1>3 DEF DisableStep

-----------------------------------------------------------------------------
\* The steps of enable-2fa.

\* A setup is removed from both maps when its handler returns.
LEMMA RemovePending ==
    ASSUME IInv, PendingInv, NEW t \in Terminals, NEW u \in Users, RemoveSetup(t, u),
           Return(t), UNCHANGED <<sessions, token>>
    PROVE  PendingInv'
<1>1. Leaves(t) /\ OnlyMoves(t)
    BY ReturnLeaves, SameTokens
<1>2. /\ \A v \in Users : byUser'[t][v] = IF v = u THEN NoSetup ELSE byUser[t][v]
      /\ \A k \in Tokens : bySession'[t][k] = IF k = byUser[t][u].session THEN NoUser ELSE bySession[t][k]
      /\ \A o \in Terminals \ {t} : byUser'[o] = byUser[o] /\ bySession'[o] = bySession[o]
    BY DEF RemoveSetup, IInv, TypeOK, TOTPTypeOK
<1>3. SetupIndexConsistent'
  <2> SUFFICES ASSUME NEW o \in Terminals, NEW v \in Users, NEW k \in Tokens
               PROVE  bySession'[o][k] = v <=> byUser'[o][v].session = k
      BY DEF SetupIndexConsistent
  <2>1. /\ bySession[o][k] = v <=> byUser[o][v].session = k
        /\ bySession[o][k] = u <=> byUser[o][u].session = k
      BY DEF PendingInv, SetupIndexConsistent
  <2> QED BY <1>2, <2>1 DEF NoSetup
<1>4. SetupOwner' /\ SetupPrompt'
    BY <1>1, <1>2 DEF PendingInv, SetupOwner, SetupPrompt, OnlyMoves, Leaves
<1>5. DialogOwnsSetup'
    BY <1>1, <1>2 DEF PendingInv, DialogOwnsSetup, OnlyMoves, Leaves
<1> QED BY <1>3, <1>4, <1>5 DEF PendingInv

\* A new setup replaces the one its user had; its session had none of another user.
LEMMA StorePending ==
    ASSUME IInv, PendingInv, NEW t \in Terminals, NEW s \in Secrets, StoreSetup(t, s)
    PROVE  PendingInv'
<1> DEFINE u == frame[t].user
           k == token[t]
           f == [Idle EXCEPT !.call = "ConfirmSetup"]
<1>1. /\ pc[t] = "FindUser" /\ pc[t] \in SessionUserLabels /\ pc[t] \notin LoginLabels
      /\ Goto(t, "EnterSetupCode", f) /\ UNCHANGED <<sessions, token>>
    BY DEF StoreSetup, AskSetupCode, SessionUserLabels, LoginLabels, dbVars
<1>2. u \in Users /\ k \in Tokens /\ (sessions[k] = NoRow \/ sessions[k].user = u)
    BY <1>1, SessionFacts DEF SessionLabels, SessionUserLabels
<1>3. f.call = "ConfirmSetup" /\ f.user = NoUser
    BY DEF Idle
<1> HIDE DEF f
<1>4. /\ pc'[t] = "EnterSetupCode" /\ frame'[t] = f
      /\ \A o \in Terminals \ {t} : pc'[o] = pc[o] /\ frame'[o] = frame[o] /\ token'[o] = token[o]
      /\ token'[t] = k
    BY <1>1, GotoMoves DEF IInv, TypeOK
<1>5. /\ \A v \in Users : byUser'[t][v].session = IF v = u THEN k ELSE byUser[t][v].session
      /\ \A j \in Tokens : bySession'[t][j] =
            IF j = k THEN u ELSE IF j = byUser[t][u].session THEN NoUser ELSE bySession[t][j]
      /\ \A o \in Terminals \ {t} : byUser'[o] = byUser[o] /\ bySession'[o] = bySession[o]
    BY DEF StoreSetup, IInv, TypeOK, TOTPTypeOK
<1>6. bySession[t][k] \in {NoUser, u}
    BY <1>1, <1>2 DEF PendingInv, SetupOwner
<1> HIDE DEF u, k
<1>7. SetupIndexConsistent'
  <2> SUFFICES ASSUME NEW o \in Terminals, NEW v \in Users, NEW j \in Tokens
               PROVE  bySession'[o][j] = v <=> byUser'[o][v].session = j
      BY DEF SetupIndexConsistent
  <2>1. \A w \in Users : bySession[o][j] = w <=> byUser[o][w].session = j
      BY DEF PendingInv, SetupIndexConsistent
  <2>2. v # NoUser
      OBVIOUS
  <2>3. CASE o = t
      BY <1>2, <1>5, <1>6, <2>1, <2>2, <2>3
  <2>4. CASE o # t
      BY <1>5, <2>1, <2>4
  <2> QED BY <2>3, <2>4
<1>8. SetupOwner'
  <2> SUFFICES ASSUME NEW o \in Terminals, NEW j \in Tokens, bySession'[o][j] # NoUser
               PROVE  /\ sessions'[j] = NoRow \/ sessions'[j].user = bySession'[o][j]
                      /\ pc'[o] \in SessionUserLabels /\ token'[o] = j =>
                            frame'[o].user = bySession'[o][j]
      BY DEF SetupOwner
  <2>1. CASE o = t
      BY <1>1, <1>2, <1>4, <1>5, <2>1 DEF PendingInv, SetupOwner, SessionUserLabels
  <2>2. CASE o # t
      BY <1>1, <1>4, <1>5, <2>2 DEF PendingInv, SetupOwner
  <2> QED BY <2>1, <2>2
<1>9. SetupPrompt'
    BY <1>3, <1>4 DEF PendingInv, SetupPrompt
<1>10. DialogOwnsSetup'
  <2> SUFFICES ASSUME NEW o \in Terminals, frame'[o].call = "ConfirmSetup"
               PROVE  \E v \in Users : /\ byUser'[o][v].session = token'[o]
                                       /\ frame'[o].user \in {v, NoUser}
                                       /\ pc'[o] = "EnableTOTP" => byUser'[o][v].secret = frame'[o].code
      BY DEF DialogOwnsSetup
  <2>1. CASE o = t
      BY <1>2, <1>3, <1>4, <1>5, <2>1
  <2>2. CASE o # t
      BY <1>4, <1>5, <2>2 DEF PendingInv, DialogOwnsSetup
  <2> QED BY <2>1, <2>2
<1> QED BY <1>7, <1>8, <1>9, <1>10 DEF PendingInv

\* enable-2fa as a whole.
LEMMA SetupStepPending ==
    ASSUME IInv, PendingInv, NEW t \in Terminals, StartSetup(t) \/ SetupStep(t)
    PROVE  PendingInv'
<1>0. TermTypeOK
    BY DEF IInv, TypeOK
<1>1. CASE StartSetup(t)
  <2> DEFINE f == [Idle EXCEPT !.call = "BeginSetup"]
  <2>1. "enable-2fa" \in Commands /\ Dispatch(t, "enable-2fa") /\ "enable-2fa" # "login"
      BY <1>1 DEF StartSetup, BeginSetup, Dispatch
  <2>2. f \in Frames
      BY IdleFrame DEF Frames, Calls
  <2>3. f.call = "BeginSetup"
      BY DEF Idle
  <2>4. ValidateSession(t, f) /\ UNCHANGED totpVars
      BY <1>1 DEF StartSetup, BeginSetup
  <2> HIDE DEF f
  <2> QED BY <2>1, <2>2, <2>3, <2>4, DispatchFacts, ValidatePending
<1>2. CASE RefuseSetup(t)
    BY <1>2, SameRows, ReturnPending DEF RefuseSetup, dbVars
<1>3. ASSUME NEW code \in Codes, ConfirmSetup(t, code)
      PROVE  PendingInv'
  <2> DEFINE f == [Idle EXCEPT !.call = "ConfirmSetup", !.code = code]
  <2>1. pc[t] = "EnterSetupCode" /\ ValidateSession(t, f) /\ UNCHANGED totpVars
      BY <1>3 DEF ConfirmSetup
  <2>2. token[t] \in Tokens
      BY <2>1, SessionFacts DEF LoginLabels, SessionLabels
  <2>3. f \in Frames
      BY IdleFrame DEF Frames, Calls
  <2> HIDE DEF f
  <2>4. frame[t].call = "ConfirmSetup"
      BY <2>1 DEF PendingInv, SetupPrompt
  <2> QED BY <2>1, <2>2, <2>3, <2>4, ValidatePending
<1>4. CASE CheckSetupCode(t)
  <2> DEFINE u == frame[t].user
             f == [frame[t] EXCEPT !.secret = byUser[t][u].secret]
             g == [Idle EXCEPT !.call = "ConfirmSetup"]
  <2>1. /\ pc[t] \in SessionUserLabels /\ pc[t] \notin LoginLabels
        /\ frame[t].call = "ConfirmSetup"
        /\ UNCHANGED <<sessions, token>>
        /\ \/ Return(t) /\ RemoveSetup(t, u)
           \/ /\ frame[t].code = byUser[t][u].secret
              /\ Goto(t, "EnableTOTP", f)
              /\ UNCHANGED totpVars
           \/ Return(t) /\ UNCHANGED totpVars
           \/ Goto(t, "EnterSetupCode", g) /\ UNCHANGED totpVars
      BY <1>4 DEF CheckSetupCode, AskSetupCode, SessionUserLabels, LoginLabels, dbVars
  <2>2. frame[t] \in Frames /\ u \in Users
      BY <2>1, SessionFacts
  <2>3. f.call = frame[t].call /\ f.user = frame[t].user /\ f.code = frame[t].code
      BY <2>2 DEF Frames
  <2>4. g.call = "ConfirmSetup" /\ g.user = NoUser
      BY DEF Idle
  <2> HIDE DEF f, g
  <2>5. CASE Return(t) /\ RemoveSetup(t, u)
      BY <2>1, <2>2, <2>5, RemovePending
  <2>6. CASE /\ frame[t].code = byUser[t][u].secret
             /\ Goto(t, "EnableTOTP", f)
             /\ UNCHANGED totpVars
      BY <1>0, <2>1, <2>3, <2>6, GotoMoves, SameRows, SameTokens, NeutralStep
      DEF SetupNeutral, GoesOn, SessionUserLabels
  <2>7. CASE Return(t) /\ UNCHANGED totpVars
      BY <2>1, <2>7, SameRows, ReturnPending
  <2>8. CASE Goto(t, "EnterSetupCode", g) /\ UNCHANGED totpVars
      BY <1>0, <2>1, <2>4, <2>8, GotoMoves, SameRows, SameTokens, NeutralStep
      DEF SetupNeutral, AsksAgain
  <2> QED BY <2>1, <2>5, <2>6, <2>7, <2>8
<1>5. CASE ConfirmEnrollment(t)
  <2>1. pc[t] \in SessionUserLabels /\ pc[t] \notin LoginLabels
      BY <1>5 DEF ConfirmEnrollment, SessionUserLabels, LoginLabels
  <2>2. frame[t].user \in Users
      BY <2>1, SessionFacts
  <2> QED BY <1>5, <2>2, SameRows, RemovePending, ReturnPending DEF ConfirmEnrollment
<1>6. CASE CancelSetup(t)
  <2>1. /\ Return(t) /\ UNCHANGED <<sessions, token>>
        /\ \/ bySession[t][token[t]] # NoUser /\ RemoveSetup(t, bySession[t][token[t]])
           \/ UNCHANGED totpVars
      BY <1>6 DEF CancelSetup, dbVars
  <2>2. token[t] \in Tokens
      BY <1>6, SessionFacts DEF CancelSetup, LoginLabels, SessionLabels
  <2>3. bySession[t][token[t]] \in Users \cup {NoUser}
      BY <2>2 DEF IInv, TypeOK, TOTPTypeOK
  <2> QED BY <2>1, <2>3, SameRows, RemovePending, ReturnPending
<1> QED BY <1>1, <1>2, <1>3, <1>4, <1>5, <1>6, StorePending DEF SetupStep, FreshSecrets

-----------------------------------------------------------------------------
\* The clock, startup and the end of a process.
LEMMA ProcessPending ==
    ASSUME IInv, PendingInv, NEW t \in Terminals, Start(t) \/ Stop(t)
    PROVE  PendingInv'
<1>0. TermTypeOK
    BY DEF IInv, TypeOK
<1>1. CASE Start(t)
  <2>1. pc[t] = "down" /\ UNCHANGED token /\ UNCHANGED totpVars
      BY <1>1 DEF Start, StartProcess
  <2>2. RowsKept
      BY <1>1 DEF Start, StartProcess, DeleteExpired, RowsKept, IInv, TypeOK, DBTypeOK
  <2>3. CASE Return(t)
      BY <2>1, <2>2, <2>3, ReturnPending
  <2>4. CASE UNCHANGED <<pc, frame>>
      BY <2>1, <2>2, <2>4, NeutralStep
      DEF OnlyMoves, SetupNeutral, GoesOn, SessionUserLabels
  <2> QED BY <1>1, <2>3, <2>4 DEF Start, StartProcess
<1>2. CASE Stop(t)
  <2>1. /\ pc'[t] = "down" /\ frame'[t] = Idle
        /\ \A o \in Terminals \ {t} : pc'[o] = pc[o] /\ frame'[o] = frame[o]
      BY <1>0, <1>2, GotoMoves DEF Stop, StopProcess
  <2>2. /\ UNCHANGED sessions
        /\ \A o \in Terminals \ {t} : token'[o] = token[o]
      BY <1>0, <1>2 DEF Stop, StopProcess, ClearSession, SetSession, TermTypeOK, dbVars
  <2>3. /\ \A u \in Users : byUser'[t][u] = NoSetup
        /\ \A k \in Tokens : bySession'[t][k] = NoUser
        /\ \A o \in Terminals \ {t} : byUser'[o] = byUser[o] /\ bySession'[o] = bySession[o]
      BY <1>2 DEF Stop, ClearPendingSetups, IInv, TypeOK, TOTPTypeOK
  <2>4. SetupIndexConsistent'
    <3> SUFFICES ASSUME NEW o \in Terminals, NEW u \in Users, NEW k \in Tokens
                 PROVE  bySession'[o][k] = u <=> byUser'[o][u].session = k
        BY DEF SetupIndexConsistent
    <3>1. bySession[o][k] = u <=> byUser[o][u].session = k
        BY DEF PendingInv, SetupIndexConsistent
    <3> QED BY <2>3, <3>1 DEF NoSetup
  <2>5. SetupOwner' /\ SetupPrompt'
      BY <2>1, <2>2, <2>3 DEF PendingInv, SetupOwner, SetupPrompt
  <2>6. frame'[t].call # "ConfirmSetup"
      BY <2>1 DEF Idle
  <2>7. DialogOwnsSetup'
      BY <2>1, <2>2, <2>3, <2>6 DEF PendingInv, DialogOwnsSetup
  <2> QED BY <2>4, <2>5, <2>7 DEF PendingInv
<1> QED BY <1>1, <1>2

\* PendingInv holds at first, and every step keeps it.
LEMMA InitPending == Init => PendingInv
<1> SUFFICES ASSUME Init
             PROVE  PendingInv
    OBVIOUS
<1>1. SetupIndexConsistent
    BY DEF Init, TOTPInit, SetupIndexConsistent, NoSetup
<1>2. DialogOwnsSetup /\ SetupOwner /\ SetupPrompt
    BY DEF Init, TOTPInit, TermInit, DialogOwnsSetup, SetupOwner, SetupPrompt, Idle
<1> QED BY <1>1, <1>2 DEF PendingInv

LEMMA NextPending == IInv /\ PendingInv /\ [Next]_vars => PendingInv'
<1> SUFFICES ASSUME IInv, PendingInv, [Next]_vars
             PROVE  PendingInv'
    OBVIOUS
<1>1. CASE Tick \/ UNCHANGED vars
  <2>1. UNCHANGED <<pc, frame, token, sessions, byUser, bySession>>
      BY <1>1 DEF Tick, vars, dbVars, termVars, totpVars
  <2> QED BY <2>1 DEF PendingInv, SetupIndexConsistent, DialogOwnsSetup, SetupOwner, SetupPrompt
<1>2. ASSUME NEW t \in Terminals, Process(t)
      PROVE  PendingInv'
    BY <1>2, ProcessPending, LoginPending, SessionPending, SetupStepPending, DisablePending
    DEF Process
<1> QED BY <1>1, <1>2 DEF Next

\* Whatever sessions expire, stores fail and processes die, the two maps of
\* pending setups agree.
THEOREM SetupIndexCorrect == Spec => []SetupIndexConsistent
<1>1. PendingInv => SetupIndexConsistent
    BY DEF PendingInv
<1> QED BY <1>1, Invariant, InitPending, NextPending, PTL DEF Spec

\* An enable-2fa dialog confirms the setup its own session began, for any
\* number of accounts that use the terminal in turn.
THEOREM DialogsOwnSetups == Spec => []DialogOwnsSetup
<1>1. PendingInv => DialogOwnsSetup
    BY DEF PendingInv
<1> QED BY <1>1, Invariant, InitPending, NextPending, PTL DEF Spec
=============================================================================
