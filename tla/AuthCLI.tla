------------------------------ MODULE AuthCLI ------------------------------
(***************************************************************************)
(* The whole system: CLI processes running login, whoami, logout,          *)
(* enable-2fa and disable-2fa against one PostgreSQL and one Redis, each   *)
(* process able to die at any point and each store call able to fail.      *)
(***************************************************************************)
EXTENDS AuthService, TOTPService

vars == <<now, lsVars, dbVars, termVars, challenges, totpVars>>

Init == /\ LSInit
        /\ DBInit
        /\ TermInit
        /\ AuthInit
        /\ TOTPInit

\* Tokens and secrets are random: a new one differs from every one in use.
FreshTokens ==
    {k \in Tokens : /\ sessions[k] = NoRow
                    /\ \A t \in Terminals : /\ token[t] # k
                                            /\ bySession[t][k] = NoUser
                                            /\ \A u \in Users : byUser[t][u].session # k}

FreshSecrets ==
    {s \in Secrets : /\ \A u \in Users : totp[u] # s
                     /\ \A t \in Terminals : /\ s \notin {frame[t].secret, frame[t].code}
                                             /\ \A u \in Users : byUser[t][u].secret # s}

Tick == LSTick /\ UNCHANGED <<dbVars, termVars, challenges, totpVars>>

Start(t) == StartProcess(t) /\ UNCHANGED <<challenges, totpVars>>

\* exit, end of input, a signal or a crash, in the middle of any command
Stop(t) == /\ pc[t] # "down"
           /\ StopProcess(t)
           /\ ClearChallenges(t)
           /\ ClearPendingSetups(t)

StartLogin(t) == /\ \E u \in Users : LoginWithPassword(t, u)
                 /\ UNCHANGED totpVars

\* One more step of the login command of t.
LoginStep(t) == /\ \/ LoginBlocked(t)
                   \/ VerifyPassword(t)
                   \/ CancelTOTPLogin(t)
                   \/ \E code \in Codes : CompleteTOTPLogin(t, code)
                   \/ VerifyLoginCode(t)
                   \/ FailedLogin(t)
                   \/ FinishLogin(t)
                   \/ \E k \in FreshTokens : FinalizeLogin(t, k)
                /\ UNCHANGED totpVars

\* whoami and logout, and the failing FindByID of any session validation.
SessionStep(t) == /\ \/ WhoAmI(t)
                     \/ WhoAmIUser(t)
                     \/ Logout(t)
                     \/ LogoutRevoke(t)
                     \/ SessionUserUnavailable(t)
                  /\ UNCHANGED <<challenges, totpVars>>

StartSetup(t) == BeginSetup(t) /\ UNCHANGED challenges

\* One more step of the enable-2fa command of t.
SetupStep(t) == /\ \/ RefuseSetup(t)
                   \/ \E s \in FreshSecrets : StoreSetup(t, s)
                   \/ CancelSetup(t)
                   \/ \E code \in Codes : ConfirmSetup(t, code)
                   \/ CheckSetupCode(t)
                   \/ ConfirmEnrollment(t)
                /\ UNCHANGED challenges

DisableStep(t) == /\ \/ \E code \in Codes : Disable(t, code)
                     \/ DisableSessionUser(t)
                     \/ CheckDisable(t)
                     \/ CommitDisable(t)
                  /\ UNCHANGED challenges

Process(t) == \/ Start(t) \/ Stop(t)
              \/ StartLogin(t) \/ LoginStep(t)
              \/ SessionStep(t)
              \/ StartSetup(t) \/ SetupStep(t)
              \/ DisableStep(t)

Next == Tick \/ \E t \in Terminals : Process(t)

Spec == Init /\ [][Next]_vars

(***************************************************************************)
(* Fairness: the clock does not stop, and a command in progress goes on    *)
(* (a pending store call returns or fails, and whoever sits at a code      *)
(* prompt eventually answers it with a code, a blank line or end of        *)
(* input).  Nobody is obliged to start a command, a process or to stop one.*)
(***************************************************************************)
Fairness == /\ WF_vars(Tick)
            /\ \A t \in Terminals : WF_vars(LoginStep(t)) /\ WF_vars(SetupStep(t))

FairSpec == Spec /\ Fairness
-----------------------------------------------------------------------------
TypeOK == /\ LSTypeOK
          /\ DBTypeOK
          /\ TermTypeOK
          /\ AuthTypeOK
          /\ TOTPTypeOK

(***************************************************************************)
(* The steps of all processes use Redis as LoginSecurity specifies, with   *)
(* no call outside it and no two calls at once.                            *)
(***************************************************************************)
LockoutImplemented == LSSpec

(***************************************************************************)
(* Sessions live as SessionTable promises, whatever commands, crashes and  *)
(* lost replies interleave.                                                *)
(***************************************************************************)
ST == INSTANCE SessionTable WITH table <- sessions, holder <- token

SessionTableImplemented == ST!STSpec

(***************************************************************************)
(* A session belongs to one terminal, and no terminal goes on holding a    *)
(* session that was revoked: Logout revokes only the caller's session and  *)
(* its handler drops the token on every path, a lost reply included.       *)
(***************************************************************************)
SessionIsolation ==
    \A t \in Terminals :
        IsAuthenticated(t) => /\ sessions[token[t]].status # "revoked"
                              /\ \A o \in Terminals \ {t} : token[o] # token[t]

(***************************************************************************)
(* A terminal is logged out only by stopping, by its own logout, or        *)
(* because its session is over; a store that fails logs nobody out         *)
(* (the default branches of the whoami, enable-2fa and disable-2fa         *)
(* handlers keep the token).                                               *)
(***************************************************************************)
TokenKept ==
    [][\A t \in Terminals :
          IsAuthenticated(t) /\ ~IsAuthenticated(t)' =>
              \/ pc'[t] = "down"
              \/ ~Live(token[t])
              \/ Logout(t) \/ LogoutRevoke(t)]_vars

\* Session k is created in this step.
Opened(k) == sessions[k] = NoRow /\ sessions'[k] # NoRow

(***************************************************************************)
(* Process t has shown a code of the secret user u is enrolled with, or u  *)
(* enrolled after t last read the user's row.                              *)
(***************************************************************************)
SecondFactorShown(t, u) ==
    \/ totp[u] \in {NoSecret, frame[t].code}
    \/ enrolledAt[u] >= frame[t].read

(***************************************************************************)
(* A session is opened only by a login that completed the second factor of *)
(* an enrolled user, unless the enrolment raced with that very login.      *)
(***************************************************************************)
SecondFactorRequired ==
    [][\A k \in Tokens :
          Opened(k) => \E t \in Terminals : /\ pc[t] = "FinalizeLogin"
                                            /\ frame[t].user = sessions'[k].user
                                            /\ SecondFactorShown(t, frame[t].user)]_vars

(***************************************************************************)
(* The failure count of an enrolled user is not cleared by the password    *)
(* alone: otherwise code guesses would be unlimited.  Only the lapse of a  *)
(* block or a login past its second factor clears it.                      *)
(***************************************************************************)
CountClearedByFullLogin ==
    [][\A u \in Users :
          strikes[u] > 0 /\ strikes'[u] = 0 =>
              \/ now' > now
              \/ \E t \in Terminals : /\ pc[t] = "Reset"
                                      /\ frame[t].user = u
                                      /\ SecondFactorShown(t, u)]_vars

(***************************************************************************)
(* A block ends before its time only by the Reset of a login whose last    *)
(* look at the block (IsBlocked, made again for the authenticator code)    *)
(* was before the block began.                                             *)
(***************************************************************************)
EarlyUnblockOnlyByRacer ==
    [][\A u \in Users :
          blockedUntil[u] > now' /\ ~IsBlocked(u)' =>
              \E t \in Terminals : /\ pc[t] = "Reset"
                                   /\ frame[t].user = u
                                   /\ frame[t].checked + LockoutMillis <= blockedUntil[u]]_vars

(***************************************************************************)
(* A command never outlives the login state it was dispatched in: a login  *)
(* in progress is for an existing account and its terminal holds no token  *)
(* a new one would overwrite; the commands of the logged-in keep their     *)
(* token up to the last store call, and act for the user it authenticates. *)
(***************************************************************************)
LoginLabels   == {"IsBlocked", "RecordFailure", "EnterLoginCode", "Reset", "FinalizeLogin"}
SessionLabels == {"FindUser", "EnterSetupCode", "EnableTOTP", "DisableFindUser",
                  "DisableTOTP", "Revoke"}
SessionUserLabels == {"FindUser", "EnableTOTP", "DisableFindUser", "DisableTOTP"}

Fits(label, f, k) ==
    /\ label \in LoginLabels => k = NoToken /\ f.user \in Users
    /\ label \in SessionLabels => k \in Tokens
    /\ label \in SessionUserLabels =>
          /\ f.user \in Users
          /\ sessions[k] = NoRow \/ sessions[k].user = f.user

CommandContext ==
    /\ \A t \in Terminals : Fits(pc[t], frame[t], token[t])
    /\ \A k \in Tokens : sessions[k] # NoRow => sessions[k].user \in Users

(***************************************************************************)
(* Pending TOTP logins live exactly as long as their dialog: every way out *)
(* of login, an error of a store included, deletes the challenge from the  *)
(* process's map, and no step of the dialog loses it.                      *)
(***************************************************************************)
InDialog(t) == frame[t].challenge \in ChallengeIds

ChallengeOnlyInDialog ==
    \A t \in Terminals :
        /\ \A c \in ChallengeIds :
              IF frame[t].challenge = c
              THEN challenges[t][c].user = frame[t].user
              ELSE challenges[t][c] = NoPending
        /\ InDialog(t) => pc[t] \in LoginLabels /\ frame[t].call = "CompleteTOTPLogin"
        /\ pc[t] = "EnterLoginCode" => InDialog(t)

(***************************************************************************)
(* The two maps of pending setups agree, setups abandoned by an expired    *)
(* session or a failed store included: an entry in one names the entry in  *)
(* the other.                                                              *)
(***************************************************************************)
SetupIndexConsistent ==
    \A t \in Terminals, u \in Users, k \in Tokens :
        bySession[t][k] = u <=> byUser[t][u].session = k

(***************************************************************************)
(* An enable-2fa dialog confirms the secret it displayed: the pending      *)
(* setup of the user was begun by the session the dialog runs in, not left *)
(* behind by an earlier one.                                               *)
(***************************************************************************)
DialogOwnsSetup ==
    \A t \in Terminals :
        frame[t].call = "ConfirmSetup" =>
            \E u \in Users : /\ byUser[t][u].session = token[t]
                             /\ frame[t].user \in {u, NoUser}
                             /\ pc[t] = "EnableTOTP" => byUser[t][u].secret = frame[t].code

(***************************************************************************)
(* Two terminals enabling TOTP at once: an enrolment is never replaced by  *)
(* another, and the secret stored is one whose code its user confirmed.    *)
(***************************************************************************)
EnrolledSecretConfirmed ==
    [][\A u \in Users :
          totp'[u] \notin {totp[u], NoSecret} =>
              /\ totp[u] = NoSecret
              /\ \E t \in Terminals : /\ pc[t] = "EnableTOTP"
                                      /\ frame[t].user = u
                                      /\ frame[t].code = totp'[u]]_vars

(***************************************************************************)
(* TOTP is disabled only by someone who showed a code of the enrolled      *)
(* secret, unless the user was enrolled anew after Disable read the row.   *)
(***************************************************************************)
RemovalVerified ==
    [][\A u \in Users :
          totp[u] # totp'[u] /\ totp'[u] = NoSecret =>
              \E t \in Terminals : /\ pc[t] = "DisableTOTP"
                                   /\ frame[t].user = u
                                   /\ SecondFactorShown(t, u)]_vars

(***************************************************************************)
(* A login dialog does not go on for ever: within the model's horizon the  *)
(* challenge expires, and whatever codes are typed the dialog then ends    *)
(* (or its login waits for a token when the model has none left).          *)
(***************************************************************************)
LoginDialogEnds ==
    \A t \in Terminals, c \in ChallengeIds :
        challenges[t][c].expires \in 1 .. MaxTime
            ~> challenges[t][c] = NoPending \/ FreshTokens = {}

(***************************************************************************)
(* Nor does a setup dialog: its setup expires, or its session before it,   *)
(* and either is enough to end it.                                         *)
(***************************************************************************)
SetupDialogEnds ==
    \A t \in Terminals, u \in Users :
        (/\ frame[t].call = "ConfirmSetup"
         /\ byUser[t][u].session = token[t]
         /\ \/ byUser[t][u].expires \in 1 .. MaxTime
            \/ token[t] # NoToken /\ sessions[token[t]].expires \in 1 .. MaxTime)
            ~> frame[t].call # "ConfirmSetup"

(***************************************************************************)
(* The help of login: "Authenticate with a username, password, and TOTP    *)
(* when enabled".  Whoever gets a session while TOTP is enabled went       *)
(* through the authenticator dialog.                                       *)
(***************************************************************************)
TOTPWhenEnabled ==
    [][\A t \in Terminals :
          ~IsAuthenticated(t) /\ IsAuthenticated(t)' /\ TOTPEnabled(frame[t].user) =>
              frame[t].challenge # NoChallenge]_vars
=============================================================================
