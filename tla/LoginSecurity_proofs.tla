------------------------ MODULE LoginSecurity_proofs ------------------------
(***************************************************************************)
(* Proofs about the Redis repository: its type invariant, the agreement of *)
(* counter and block, and, for lockouts of at least one millisecond, that  *)
(* an account is blocked exactly when it has used up its attempts.         *)
(***************************************************************************)
EXTENDS LoginSecurity, TLAPS

USE MaxTimeAssumption, MaxAttemptsAssumption, LockoutAssumption

\* The duration handed to PSETEX is a number of milliseconds, 0 only for
\* lockouts shorter than one.
LEMMA LockoutMillisNat ==
    /\ LockoutMillis \in Nat
    /\ LockoutMicros >= 1000 => LockoutMillis > 0
  BY DEF LockoutMillis

-----------------------------------------------------------------------------
\* Every step keeps the variables in their types (script, DEL and key expiry).
LEMMA LSTypeStep == LSTypeOK /\ [LSNext]_<<now, lsVars>> => LSTypeOK'
<1> SUFFICES ASSUME LSTypeOK, [LSNext]_<<now, lsVars>>
             PROVE  LSTypeOK'
    OBVIOUS
<1> USE LockoutMillisNat DEF LSTypeOK, lsVars
<1>1. CASE LSTick
    BY <1>1 DEF LSTick, Advance
<1>2. ASSUME UNCHANGED now, NEW u \in Users, RecordFailure(u)
      PROVE  LSTypeOK'
  <2>1. CASE IsBlocked(u)
      BY <1>2, <2>1 DEF RecordFailure
  <2>2. CASE ~IsBlocked(u)
    <3>1. now + LockoutMillis \in Nat
        OBVIOUS
    <3>2. /\ failures' \in [Users -> 0 .. MaxAttempts - 1]
          /\ strikes' \in [Users -> 0 .. MaxAttempts]
        BY <1>2, <2>2 DEF RecordFailure, ReachesLimit
    <3>3. blockedUntil' \in [Users -> Nat]
        BY <1>2, <2>2, <3>1 DEF RecordFailure
    <3> QED BY <1>2, <3>2, <3>3
  <2> QED BY <2>1, <2>2
<1>3. ASSUME UNCHANGED now, NEW u \in Users, Reset(u)
      PROVE  LSTypeOK'
    BY <1>3 DEF Reset
<1>4. CASE UNCHANGED <<now, lsVars>>
    BY <1>4
<1> QED BY <1>1, <1>2, <1>3, <1>4 DEF LSNext, LSCall

\* Type correctness of the repository's keys and of the history of strikes.
THEOREM LSTypeCorrect == LSSpec => []LSTypeOK
<1>1. LSInit => LSTypeOK
    BY DEF LSInit, ClockInit, LSTypeOK
<1> QED BY <1>1, LSTypeStep, PTL DEF LSSpec

-----------------------------------------------------------------------------
\* No script, DEL or expiry leaves a counter beside a block, or a block that
\* outlives one lockout duration.
LEMMA CounterStep ==
    LSTypeOK /\ CounterSound /\ [LSNext]_<<now, lsVars>> => CounterSound'
<1> SUFFICES ASSUME LSTypeOK, CounterSound, [LSNext]_<<now, lsVars>>, NEW v \in Users
             PROVE  IsBlocked(v)' =>
                        /\ failures'[v] = 0
                        /\ blockedUntil'[v] \in now' + 1 .. now' + LockoutMillis
    BY DEF CounterSound
<1> USE LockoutMillisNat DEF LSTypeOK, lsVars, CounterSound, IsBlocked
<1>1. CASE LSTick
    BY <1>1 DEF LSTick, Advance
<1>2. ASSUME UNCHANGED now, NEW u \in Users, RecordFailure(u)
      PROVE  IsBlocked(v)' =>
                /\ failures'[v] = 0
                /\ blockedUntil'[v] \in now' + 1 .. now' + LockoutMillis
  <2>1. CASE IsBlocked(u)
      BY <1>2, <2>1 DEF RecordFailure
  <2>2. CASE ~IsBlocked(u)
      BY <1>2, <2>2 DEF RecordFailure, ReachesLimit
  <2> QED BY <2>1, <2>2
<1>3. ASSUME UNCHANGED now, NEW u \in Users, Reset(u)
      PROVE  IsBlocked(v)' =>
                /\ failures'[v] = 0
                /\ blockedUntil'[v] \in now' + 1 .. now' + LockoutMillis
    BY <1>3 DEF Reset
<1>4. CASE UNCHANGED <<now, lsVars>>
    BY <1>4
<1> QED BY <1>1, <1>2, <1>3, <1>4 DEF LSNext, LSCall

\* Counter and block always agree, whatever the order of calls and expiries.
THEOREM CounterCorrect == LSSpec => []CounterSound
<1>1. ASSUME LSInit, NEW u \in Users
      PROVE  ~IsBlocked(u)
    BY <1>1 DEF LSInit, IsBlocked
<1>2. LSInit => CounterSound
    BY <1>1 DEF CounterSound
<1> QED BY <1>2, LSTypeCorrect, CounterStep, PTL DEF LSSpec

-----------------------------------------------------------------------------
\* With a lockout PSETEX accepts, Redis counts exactly the failures since the
\* account was last unblocked, and blocks it when they reach the limit.
LEMMA LimitStep ==
    ASSUME LockoutMicros >= 1000
    PROVE  /\ LSTypeOK /\ CounterSound /\ BlockedOnlyAtLimit
           /\ [LSNext]_<<now, lsVars>>
           => BlockedOnlyAtLimit'
<1> SUFFICES ASSUME LSTypeOK, CounterSound, BlockedOnlyAtLimit,
                    [LSNext]_<<now, lsVars>>, NEW v \in Users
             PROVE  IF IsBlocked(v)' THEN strikes'[v] = MaxAttempts
                                     ELSE failures'[v] = strikes'[v]
    BY DEF BlockedOnlyAtLimit
<1> USE LockoutMillisNat DEF LSTypeOK, lsVars, CounterSound, IsBlocked, BlockedOnlyAtLimit
<1>1. CASE LSTick
    BY <1>1 DEF LSTick, Advance
<1>2. ASSUME UNCHANGED now, NEW u \in Users, RecordFailure(u)
      PROVE  IF IsBlocked(v)' THEN strikes'[v] = MaxAttempts
                              ELSE failures'[v] = strikes'[v]
  <2>1. CASE IsBlocked(u)
      BY <1>2, <2>1 DEF RecordFailure
  <2>2. CASE ~IsBlocked(u)
      BY <1>2, <2>2 DEF RecordFailure, ReachesLimit
  <2> QED BY <2>1, <2>2
<1>3. ASSUME UNCHANGED now, NEW u \in Users, Reset(u)
      PROVE  IF IsBlocked(v)' THEN strikes'[v] = MaxAttempts
                              ELSE failures'[v] = strikes'[v]
    BY <1>3 DEF Reset
<1>4. CASE UNCHANGED <<now, lsVars>>
    BY <1>4
<1> QED BY <1>1, <1>2, <1>3, <1>4 DEF LSNext, LSCall

\* No account is blocked before the script recorded MaxAttempts failures for it.
THEOREM LimitCorrect ==
    ASSUME LockoutMicros >= 1000
    PROVE  LSSpec => []BlockedOnlyAtLimit
<1>1. LSInit => BlockedOnlyAtLimit
    BY DEF LSInit, BlockedOnlyAtLimit, IsBlocked
<1> QED BY <1>1, LSTypeCorrect, CounterCorrect, LimitStep, PTL DEF LSSpec

\* The MaxAttempts-th failure blocks the account (for lockouts of a
\* millisecond or more; the run ShortLockout shows why that is needed).
THEOREM MaxAttemptsBlocksCorrect ==
    ASSUME LockoutMicros >= 1000
    PROVE  LSSpec => []MaxAttemptsBlocks
<1>1. LSTypeOK /\ CounterSound /\ BlockedOnlyAtLimit => MaxAttemptsBlocks
    BY DEF LSTypeOK, CounterSound, BlockedOnlyAtLimit, MaxAttemptsBlocks
<1> QED BY <1>1, LSTypeCorrect, CounterCorrect, LimitCorrect, PTL

-----------------------------------------------------------------------------
\* Failures during a block do not prolong it: the script returns before PSETEX.
THEOREM BlockWindowCorrect == LSSpec => BlockWindowFixed
<1>1. ASSUME LSTypeOK, [LSNext]_<<now, lsVars>>, NEW u \in Users,
             IsBlocked(u), IsBlocked(u)'
      PROVE  blockedUntil'[u] = blockedUntil[u]
  <2> USE <1>1 DEF LSTypeOK, lsVars, IsBlocked
  <2>1. CASE LSTick
      BY <2>1 DEF LSTick
  <2>2. ASSUME NEW v \in Users, RecordFailure(v)
        PROVE  blockedUntil'[u] = blockedUntil[u]
      BY <2>2 DEF RecordFailure
  <2>3. ASSUME NEW v \in Users, Reset(v)
        PROVE  blockedUntil'[u] = blockedUntil[u]
      BY <2>3 DEF Reset
  <2> QED BY <2>1, <2>2, <2>3 DEF LSNext, LSCall
<1>2. LSTypeOK /\ [LSNext]_<<now, lsVars>> =>
        [\A u \in Users : IsBlocked(u) /\ IsBlocked(u)' =>
                              blockedUntil'[u] = blockedUntil[u]]_<<now, lsVars>>
    BY <1>1
<1> QED BY <1>2, LSTypeCorrect, PTL DEF LSSpec, BlockWindowFixed

-----------------------------------------------------------------------------
\* No account is ever blocked.
NeverBlocks == \A u \in Users : ~IsBlocked(u)

LEMMA NoShortBlock ==
    ASSUME LockoutMicros < 1000
    PROVE  LSTypeOK /\ CounterSound => NeverBlocks
<1>1. LockoutMillis = 0
    BY DEF LockoutMillis
<1> SUFFICES ASSUME LSTypeOK, CounterSound, NEW u \in Users, IsBlocked(u)
             PROVE  FALSE
    BY DEF NeverBlocks
<1>2. now \in Nat /\ blockedUntil[u] \in now + 1 .. now + 0
    BY <1>1 DEF LSTypeOK, CounterSound
<1> QED BY <1>2

\* A lockout below one millisecond, which the configuration accepts, blocks
\* nobody, however many failures are recorded.
THEOREM ShortLockoutCorrect ==
    ASSUME LockoutMicros < 1000
    PROVE  LSSpec => []NeverBlocks
  BY LSTypeCorrect, CounterCorrect, NoShortBlock, PTL
=============================================================================
