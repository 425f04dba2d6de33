----------------------------- MODULE Terminals -----------------------------
(***************************************************************************)
(* The CLI processes, one per terminal, that share PostgreSQL and Redis    *)
(* (cmd/cli/main.go, internal/cli).  A process runs one command at a time; *)
(* between two calls to a store any other process may run.  pc[t] is the   *)
(* store call or prompt the process is about to make, frame[t] the local   *)
(* variables its command still needs, token[t] the session token it keeps  *)
(* in AUTH_CLI_SESSION_TOKEN.                                              *)
(***************************************************************************)
EXTENDS LoginSecurity, Database

CONSTANTS
    Terminals,
    Commands,       \* the shell commands a run exercises
    Unreliable,     \* what may fail: a subset of {"postgres", "redis", "crypto"}
    ChallengeIds,   \* ids of pending TOTP logins
    NoChallenge

ASSUME CommandsAssumption ==
    Commands \subseteq {"login", "whoami", "logout", "enable-2fa", "disable-2fa"}
ASSUME NoChallengeAssumption == NoChallenge \notin ChallengeIds

VARIABLES pc, frame, token

termVars == <<pc, frame, token>>

(***************************************************************************)
(* Codes: a secret stands for a code its authenticator shows, NoSecret for *)
(* a code that is valid for no secret (wrong, malformed or out of date).   *)
(***************************************************************************)
Codes == Secrets \cup {NoSecret}

\* read, checked and at are clock readings: of the last read of the user's
\* row, of the last IsBlocked answer, and of the session about to be created.
Idle == [call |-> "none", user |-> NoUser, secret |-> NoSecret, code |-> NoSecret,
         challenge |-> NoChallenge, read |-> 0, checked |-> 0, at |-> 0]

\* Every process starts with an empty session state (NewEnvironmentSessionState).
TermInit == /\ pc = [t \in Terminals |-> "down"]
            /\ frame = [t \in Terminals |-> Idle]
            /\ token = [t \in Terminals |-> NoToken]

Goto(t, label, f) == /\ pc' = [pc EXCEPT ![t] = label]
                     /\ frame' = [frame EXCEPT ![t] = f]

\* The handler returns: the shell reads the next command.
Return(t) == Goto(t, "ready", Idle)

IsAuthenticated(t) == token[t] # NoToken

SetSession(t, k) == token' = [token EXCEPT ![t] = k]

ClearSession(t) == SetSession(t, NoToken)

\* Mutant: login is offered to the logged in, too.
DispatchLogin(t, command) == /\ pc[t] = "ready"
                             /\ command \in Commands
                             /\ command = "login" \/ IsAuthenticated(t)

\* knownCommand: login is for the logged out, the other commands for the rest.
Dispatch(t, command) == /\ pc[t] = "ready"
                        /\ command \in Commands
                        /\ IsAuthenticated(t) <=> command # "login"

\* "crypto": the random source, or the cipher of the TOTP secrets.
Fails(part) == part \in Unreliable

(***************************************************************************)
(* Startup purges expired sessions before the shell runs; when the reply   *)
(* to the DELETE is lost the process exits with the rows purged.           *)
(***************************************************************************)
StartProcess(t) ==
    /\ pc[t] = "down"
    /\ DeleteExpired
    /\ \/ Return(t)
       \/ Fails("postgres") /\ UNCHANGED <<pc, frame>>
    /\ UNCHANGED <<now, lsVars, totp, lastLogin, enrolledAt, token>>

\* Shell.Close after exit, end of input or a signal; a killed process loses the same.
StopProcess(t) ==
    /\ Goto(t, "down", Idle)
    /\ ClearSession(t)
    /\ UNCHANGED <<now, lsVars, dbVars>>
-----------------------------------------------------------------------------
Labels == {"down", "ready", "IsBlocked", "RecordFailure", "EnterLoginCode", "Reset",
           "FinalizeLogin", "FindUser", "EnterSetupCode", "EnableTOTP",
           "DisableFindUser", "DisableTOTP", "Revoke"}

Calls == {"none", "LoginWithPassword", "CompleteTOTPLogin", "WhoAmI", "BeginSetup",
          "ConfirmSetup", "Disable", "Logout"}

Frames == [call : Calls, user : Users \cup {NoUser}, secret : Codes, code : Codes,
           challenge : ChallengeIds \cup {NoChallenge}, read : Nat, checked : Nat, at : Nat]

TermTypeOK == /\ pc \in [Terminals -> Labels]
              /\ frame \in [Terminals -> Frames]
              /\ token \in [Terminals -> Tokens \cup {NoToken}]
=============================================================================
