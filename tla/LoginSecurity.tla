--------------------------- MODULE LoginSecurity ---------------------------
(***************************************************************************)
(* The Redis repository that counts failed logins and blocks accounts      *)
(* (internal/repository/loginsecurity/redis.go).  Each operation is one    *)
(* Redis command or one script, so it is one atomic step.  The key         *)
(* "<user>:failures" has no expiry; "<user>:blocked" is set with PSETEX.   *)
(*                                                                         *)
(* The module is a specification of its own (LSSpec) and the store of the  *)
(* composed system AuthCLI.                                                *)
(***************************************************************************)
EXTENDS AccountsAndClock

CONSTANTS
    MaxAttempts,    \* MAX_LOGIN_ATTEMPTS
    LockoutMicros   \* ACCOUNT_LOCKOUT_DURATION, in whole microseconds (0: below one)

ASSUME MaxAttemptsAssumption == MaxAttempts \in Nat \ {0}
ASSUME LockoutAssumption     == LockoutMicros \in Nat

VARIABLES
    failures,       \* value of the key failures of a user, 0 when it is absent
    blockedUntil,   \* when the key blocked of a user expires, 0 when it is absent
    strikes         \* history: failures recorded since the account was last
                    \* unblocked or reset, saturating at MaxAttempts

lsVars == <<failures, blockedUntil, strikes>>

\* blockDuration.Milliseconds() truncates: a duration below 1ms becomes 0.
LockoutMillis == LockoutMicros \div 1000

LSInit == /\ ClockInit
          /\ failures = [u \in Users |-> 0]
          /\ blockedUntil = [u \in Users |-> 0]
          /\ strikes = [u \in Users |-> 0]

IsBlocked(u) == blockedUntil[u] # 0

\* Mutant: the limit tested before the INCR.
LateLimit(u) == failures[u] >= MaxAttempts

ReachesLimit(u) == failures[u] + 1 >= MaxAttempts

\* Mutant: no DEL of the counter when the block starts.
RecordFailureKeepsCount(u) ==
    \/ IsBlocked(u) /\ UNCHANGED lsVars
    \/ /\ ~IsBlocked(u)
       /\ failures' = [failures EXCEPT ![u] = IF ReachesLimit(u) THEN @ ELSE @ + 1]
       /\ blockedUntil' = [blockedUntil EXCEPT ![u] = IF ReachesLimit(u) THEN now + LockoutMillis ELSE @]
       /\ strikes' = [strikes EXCEPT ![u] = IF @ < MaxAttempts THEN @ + 1 ELSE @]

\* Mutant: no PSETEX.
RecordFailureNoBlock(u) ==
    \/ IsBlocked(u) /\ UNCHANGED lsVars
    \/ /\ ~IsBlocked(u)
       /\ failures' = [failures EXCEPT ![u] = IF ReachesLimit(u) THEN 0 ELSE @ + 1]
       /\ strikes' = [strikes EXCEPT ![u] = IF @ < MaxAttempts THEN @ + 1 ELSE @]
       /\ UNCHANGED blockedUntil

\* Mutant: every failure during a block starts the block anew.
RecordFailureProlongs(u) ==
    \/ /\ IsBlocked(u)
       /\ blockedUntil' = [blockedUntil EXCEPT ![u] = now + LockoutMillis]
       /\ UNCHANGED <<failures, strikes>>
    \/ /\ ~IsBlocked(u)
       /\ failures' = [failures EXCEPT ![u] = IF ReachesLimit(u) THEN 0 ELSE @ + 1]
       /\ blockedUntil' = [blockedUntil EXCEPT ![u] = IF ReachesLimit(u) THEN now + LockoutMillis ELSE @]
       /\ strikes' = [strikes EXCEPT ![u] = IF @ < MaxAttempts THEN @ + 1 ELSE @]

(***************************************************************************)
(* recordFailureScript.  A running block is left alone.  PSETEX refuses a  *)
(* time of 0; the script then ends in an error after its DEL, which Redis  *)
(* does not undo.                                                          *)
(***************************************************************************)
RecordFailure(u) ==
    \/ /\ IsBlocked(u)
       /\ UNCHANGED lsVars
    \/ /\ ~IsBlocked(u)
       /\ failures' = [failures EXCEPT ![u] = IF ReachesLimit(u) THEN 0 ELSE @ + 1]
       /\ blockedUntil' =
            [blockedUntil EXCEPT ![u] =
                IF ReachesLimit(u) /\ LockoutMillis > 0 THEN now + LockoutMillis ELSE @]
       /\ strikes' = [strikes EXCEPT ![u] = IF @ < MaxAttempts THEN @ + 1 ELSE @]

\* What RecordFailure answers its caller: the reply of the script, or its error.
RecordFailureReply(u) ==
    IF IsBlocked(u) THEN "blocked"
    ELSE IF ~ReachesLimit(u) THEN "counted"
    ELSE IF LockoutMillis > 0 THEN "blocked" ELSE "error"

\* Mutant: DEL of the blocked key only.
ResetBlockOnly(u) == /\ blockedUntil' = [blockedUntil EXCEPT ![u] = 0]
                     /\ strikes' = [strikes EXCEPT ![u] = 0]
                     /\ UNCHANGED failures

Reset(u) == /\ failures' = [failures EXCEPT ![u] = 0]
            /\ blockedUntil' = [blockedUntil EXCEPT ![u] = 0]
            /\ strikes' = [strikes EXCEPT ![u] = 0]

\* Time passes; Redis drops the keys whose time has come.
LSTick ==
    LET lapsed == {u \in Users : IsBlocked(u) /\ blockedUntil[u] <= now + 1}
    IN  /\ Advance
        /\ blockedUntil' = [u \in Users |-> IF u \in lapsed THEN 0 ELSE blockedUntil[u]]
        /\ strikes' = [u \in Users |-> IF u \in lapsed THEN 0 ELSE strikes[u]]
        /\ UNCHANGED failures

LSCall(u) == RecordFailure(u) \/ Reset(u)

LSNext == \/ LSTick
          \/ UNCHANGED now /\ \E u \in Users : LSCall(u)

LSSpec == LSInit /\ [][LSNext]_<<now, lsVars>>
-----------------------------------------------------------------------------
\* Types of the clock, the keys and the history; a stored counter is below the limit.
LSTypeOK == /\ now \in Nat
            /\ failures \in [Users -> 0 .. MaxAttempts - 1]
            /\ blockedUntil \in [Users -> Nat]
            /\ strikes \in [Users -> 0 .. MaxAttempts]

(***************************************************************************)
(* The counter and the block agree: the counter is gone while the account  *)
(* is blocked, and a block present in Redis ends within one lockout        *)
(* duration from now (PSETEX, DEL and the key expiry never leave a stale   *)
(* pair of keys).                                                          *)
(***************************************************************************)
CounterSound ==
    \A u \in Users :
        IsBlocked(u) => /\ failures[u] = 0
                        /\ blockedUntil[u] \in now + 1 .. now + LockoutMillis

(***************************************************************************)
(* README: the MAX_LOGIN_ATTEMPTS-th failure starts the temporary block.   *)
(* An account whose failures since its last unblocking have reached the    *)
(* limit is blocked.                                                       *)
(***************************************************************************)
MaxAttemptsBlocks == \A u \in Users : strikes[u] = MaxAttempts => IsBlocked(u)

(***************************************************************************)
(* No account is blocked before the script recorded MaxAttempts failures:  *)
(* the counter Redis keeps is the number recorded since the account was    *)
(* last unblocked.  (A retried script records one wrong password again:    *)
(* see RedisClient.)                                                       *)
(***************************************************************************)
BlockedOnlyAtLimit ==
    \A u \in Users : IF IsBlocked(u) THEN strikes[u] = MaxAttempts
                                     ELSE failures[u] = strikes[u]

(***************************************************************************)
(* Failures that arrive during a block do not prolong it: while the key    *)
(* blocked stays, its expiry stays.                                        *)
(***************************************************************************)
BlockWindowFixed ==
    [][\A u \in Users : IsBlocked(u) /\ IsBlocked(u)' =>
                            blockedUntil'[u] = blockedUntil[u]]_<<now, lsVars>>

(***************************************************************************)
(* Every temporary block is temporary: an account does not stay blocked,   *)
(* however many more failures are recorded while it is.                    *)
(***************************************************************************)
BlocksLapse ==
    \A u \in Users : blockedUntil[u] \in 1 .. MaxTime ~> ~IsBlocked(u)
=============================================================================
