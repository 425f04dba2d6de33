------------------------- MODULE RedisClient_proofs -------------------------
(***************************************************************************)
(* Proofs about the retrying client: whatever is sent again or executed    *)
(* late, Redis sees calls as LoginSecurity allows them, the limit is never *)
(* late, and early at most by the repetitions.                             *)
(***************************************************************************)
EXTENDS RedisClient, LoginSecurity_proofs, FiniteSetTheorems

USE MaxTimeAssumption, MaxAttemptsAssumption, LockoutAssumption, MaxRetriesAssumption

\* A script that is executed, once more or late, is a call of LoginSecurity.
LEMMA ClientStep == RCTypeOK /\ [RCNext]_rcVars => [LSNext]_<<now, lsVars>>
<1> SUFFICES ASSUME RCTypeOK, [RCNext]_rcVars
             PROVE  [LSNext]_<<now, lsVars>>
    OBVIOUS
<1>1. CASE RCTick
    BY <1>1 DEF RCTick, LSNext
<1>2. ASSUME NEW c \in Calls, Execute(c)
      PROVE  LSNext
  <2>1. user[c] \in Users
      BY DEF RCTypeOK
  <2> QED BY <1>2, <2>1 DEF Execute, LSNext, LSCall
<1>3. ASSUME NEW u \in Users, CallReset(u)
      PROVE  LSNext
    BY <1>3 DEF CallReset, LSNext, LSCall
<1>4. ASSUME NEW c \in Calls, CallRecordFailure(c) \/ Resend(c) \/ ReturnCall(c)
      PROVE  UNCHANGED <<now, lsVars>>
    BY <1>4 DEF CallRecordFailure, Resend, Send, ReturnCall
<1>5. CASE UNCHANGED rcVars
    BY <1>5 DEF rcVars
<1> QED BY <1>1, <1>2, <1>3, <1>4, <1>5 DEF RCNext

\* No call is sent, or executed, more often than the retries allow.
LEMMA RCTypeStep == RCTypeOK /\ [RCNext]_rcVars => RCTypeOK'
<1> SUFFICES ASSUME RCTypeOK, [RCNext]_rcVars
             PROVE  RCTypeOK'
    OBVIOUS
<1>1. LSTypeOK'
    BY ClientStep, LSTypeStep DEF RCTypeOK
<1> USE <1>1 DEF RCTypeOK
<1>2. CASE RCTick
    BY <1>2 DEF RCTick, callVars
<1>3. ASSUME NEW c \in Calls, CallRecordFailure(c) \/ Resend(c)
      PROVE  RCTypeOK'
    BY <1>3 DEF CallRecordFailure, Resend, Send
<1>4. ASSUME NEW c \in Calls, Execute(c)
      PROVE  RCTypeOK'
  <2>1. ran' \in [Calls -> 0 .. MaxRetries + 1]
      BY <1>4 DEF Execute
  <2>2. counted' \in [Users -> SUBSET Calls]
      BY <1>4 DEF Execute
  <2> QED BY <1>4, <2>1, <2>2 DEF Execute
<1>5. ASSUME NEW c \in Calls, ReturnCall(c)
      PROVE  RCTypeOK'
    BY <1>5 DEF ReturnCall
<1>6. ASSUME NEW u \in Users, CallReset(u)
      PROVE  RCTypeOK'
    BY <1>6 DEF CallReset, callVars
<1>7. CASE UNCHANGED rcVars
    BY <1>7 DEF rcVars, callVars
<1> QED BY <1>2, <1>3, <1>4, <1>5, <1>6, <1>7 DEF RCNext

\* Types of the store and the calls, for any number of calls and retries.
THEOREM RCTypeCorrect == RCSpec => []RCTypeOK
<1>1. RCInit => RCTypeOK
    BY DEF RCInit, LSInit, ClockInit, LSTypeOK, RCTypeOK
<1> QED BY <1>1, RCTypeStep, PTL DEF RCSpec

\* With retries and late scripts, Redis still behaves as LoginSecurity says.
THEOREM ClientCorrect == RCSpec => LSSpec
<1>1. RCInit => LSInit
    BY DEF RCInit
<1> QED BY <1>1, ClientStep, RCTypeCorrect, PTL DEF RCSpec, LSSpec

-----------------------------------------------------------------------------
\* Before the block no call has counted without a strike.
CountSound ==
    \A u \in Users : /\ IsFiniteSet(counted[u])
                     /\ IsBlocked(u) \/ Cardinality(counted[u]) <= strikes[u]

LEMMA CountStep ==
    ASSUME LockoutMicros >= 1000
    PROVE  RCTypeOK /\ BlockedOnlyAtLimit /\ CountSound /\ [RCNext]_rcVars => CountSound'
<1> SUFFICES ASSUME RCTypeOK, BlockedOnlyAtLimit, CountSound, [RCNext]_rcVars, NEW v \in Users
             PROVE  /\ IsFiniteSet(counted'[v])
                    /\ IsBlocked(v)' \/ Cardinality(counted'[v]) <= strikes'[v]
    BY DEF CountSound
<1>0. /\ IsFiniteSet(counted[v])
      /\ IsBlocked(v) \/ Cardinality(counted[v]) <= strikes[v]
      /\ counted \in [Users -> SUBSET Calls]
      /\ LSTypeOK
    BY DEF CountSound, RCTypeOK
<1>1. CASE RCTick
  <2>1. strikes'[v] = IF IsBlocked(v) /\ ~IsBlocked(v)' THEN 0 ELSE strikes[v]
      BY <1>1, LockoutMillisNat DEF RCTick, LSTick, IsBlocked, LSTypeOK
  <2>2. counted'[v] = IF IsBlocked(v) /\ ~IsBlocked(v)' THEN {} ELSE counted[v]
      BY <1>1 DEF RCTick
  <2> QED BY <1>0, <2>1, <2>2, FS_EmptySet
<1>2. ASSUME NEW c \in Calls, CallRecordFailure(c) \/ Resend(c) \/ ReturnCall(c)
      PROVE  UNCHANGED <<counted, strikes, blockedUntil>>
    BY <1>2 DEF CallRecordFailure, Resend, Send, ReturnCall, lsVars
<1>3. ASSUME NEW c \in Calls, Execute(c)
      PROVE  /\ IsFiniteSet(counted'[v])
             /\ IsBlocked(v)' \/ Cardinality(counted'[v]) <= strikes'[v]
  <2>1. user[c] \in Users
      BY DEF RCTypeOK
  <2>2. CASE user[c] # v \/ IsBlocked(v)
    <3>1. counted'[v] = counted[v] /\ strikes'[v] = strikes[v] /\ blockedUntil'[v] = blockedUntil[v]
        BY <1>0, <1>3, <2>1, <2>2 DEF Execute, RecordFailure, lsVars, LSTypeOK
    <3> QED BY <1>0, <3>1 DEF IsBlocked
  <2>3. CASE user[c] = v /\ ~IsBlocked(v)
    <3>1. counted'[v] = counted[v] \cup {c}
        BY <1>0, <1>3, <2>3 DEF Execute
    <3>2. IsBlocked(v)' \/ strikes'[v] = strikes[v] + 1
      <4>1. RecordFailure(v) /\ failures[v] = strikes[v]
          BY <1>3, <2>3 DEF Execute, BlockedOnlyAtLimit
      <4>2. CASE ReachesLimit(v)
          BY <1>0, <2>3, <4>1, <4>2, LockoutMillisNat DEF RecordFailure, IsBlocked, LSTypeOK
      <4>3. CASE ~ReachesLimit(v)
          BY <1>0, <2>3, <4>1, <4>3 DEF RecordFailure, ReachesLimit, LSTypeOK
      <4> QED BY <4>2, <4>3
    <3>3. /\ Cardinality(counted[v]) \in Nat
          /\ IsFiniteSet(counted[v] \cup {c})
          /\ Cardinality(counted[v] \cup {c}) \in
                {Cardinality(counted[v]), Cardinality(counted[v]) + 1}
      <4> DEFINE S == counted[v]
      <4>1. IsFiniteSet(S)
          BY <1>0
      <4> HIDE DEF S
      <4>2. IsFiniteSet(S \cup {c}) /\ Cardinality(S) \in Nat
          BY <4>1, FS_AddElement, FS_CardinalityType
      <4>3. Cardinality(S \cup {c}) = IF c \in S THEN Cardinality(S) ELSE Cardinality(S) + 1
          BY <4>1, FS_AddElement
      <4> QED BY <4>2, <4>3 DEF S
    <3>4. strikes[v] \in Nat
        BY <1>0 DEF LSTypeOK
    <3> QED BY <1>0, <2>3, <3>1, <3>2, <3>3, <3>4
  <2> QED BY <2>2, <2>3
<1>4. ASSUME NEW u \in Users, CallReset(u)
      PROVE  /\ IsFiniteSet(counted'[v])
             /\ IsBlocked(v)' \/ Cardinality(counted'[v]) <= strikes'[v]
  <2>1. CASE u = v
      BY <1>0, <1>4, <2>1, FS_EmptySet DEF CallReset, Reset, LSTypeOK
  <2>2. CASE u # v
      BY <1>0, <1>4, <2>2 DEF CallReset, Reset, LSTypeOK, IsBlocked
  <2> QED BY <2>1, <2>2
<1>5. CASE UNCHANGED <<counted, strikes, blockedUntil>>
    BY <1>0, <1>5 DEF IsBlocked
<1> QED BY <1>1, <1>2, <1>3, <1>4, <1>5 DEF RCNext, rcVars, lsVars

\* Retries make a block early, never late: when MaxAttempts wrong passwords have
\* counted, the account is blocked.
THEOREM CountedLimitCorrect ==
    ASSUME LockoutMicros >= 1000
    PROVE  RCSpec => []CountedLimitBlocks
<1>1. RCInit => CountSound
  <2> SUFFICES ASSUME RCInit, NEW u \in Users
               PROVE  IsFiniteSet(counted[u]) /\ Cardinality(counted[u]) <= strikes[u]
      BY DEF CountSound
  <2>1. counted[u] = {} /\ strikes[u] = 0
      BY DEF RCInit, LSInit
  <2>2. IsFiniteSet({}) /\ Cardinality({}) = 0
      BY FS_EmptySet
  <2> QED BY <2>1, <2>2
<1>2. RCSpec => []CountSound
    BY <1>1, CountStep, RCTypeCorrect, ClientCorrect, LimitCorrect, PTL DEF RCSpec
<1>3. RCTypeOK /\ BlockedOnlyAtLimit /\ CountSound => CountedLimitBlocks
  <2> SUFFICES ASSUME RCTypeOK, BlockedOnlyAtLimit, CountSound, NEW u \in Users, ~IsBlocked(u)
               PROVE  ~(Cardinality(counted[u]) >= MaxAttempts)
      BY DEF CountedLimitBlocks
  <2>1. strikes[u] < MaxAttempts /\ strikes[u] \in Nat
      BY DEF RCTypeOK, LSTypeOK, BlockedOnlyAtLimit
  <2>2. Cardinality(counted[u]) <= strikes[u] /\ Cardinality(counted[u]) \in Nat
      BY FS_CardinalityType DEF CountSound
  <2> QED BY <2>1, <2>2
<1> QED BY <1>2, <1>3, RCTypeCorrect, ClientCorrect, LimitCorrect, PTL

-----------------------------------------------------------------------------
(***************************************************************************)
(* The other side: a call strikes at most once per execution of its        *)
(* script, of which there are at most MaxRetries + 1.                      *)
(***************************************************************************)
Sendings == 1 .. MaxRetries + 1

\* The executions of the scripts of the calls S, of which call c has had r[c].
Executions(S, r) == {e \in S \X Sendings : e[2] <= r[e[1]]}

StrikesSound ==
    \A u \in Users : /\ IsFiniteSet(counted[u])
                     /\ strikes[u] <= Cardinality(Executions(counted[u], ran))

LEMMA ExecutionsBounded ==
    ASSUME NEW S, IsFiniteSet(S), NEW r
    PROVE  /\ IsFiniteSet(Executions(S, r))
           /\ Cardinality(S) \in Nat /\ Cardinality(Executions(S, r)) \in Nat
           /\ Cardinality(Executions(S, r)) <= (MaxRetries + 1) * Cardinality(S)
<1> DEFINE n == MaxRetries + 1
<1>1. IsFiniteSet(Sendings) /\ Cardinality(Sendings) = n
  <2>1. 1 \in Int /\ n \in Int /\ ~(1 > n) /\ n - 1 + 1 = n
      OBVIOUS
  <2> HIDE DEF n
  <2>2. IsFiniteSet(1 .. n) /\ Cardinality(1 .. n) = n
      BY <2>1, FS_Interval
  <2> QED BY <2>2 DEF Sendings, n
<1>2. Cardinality(S) \in Nat /\ n \in Nat
    BY FS_CardinalityType
<1> HIDE DEF n
<1>3. IsFiniteSet(S \X Sendings) /\ Cardinality(S \X Sendings) = Cardinality(S) * n
    BY <1>1, FS_Product
<1>4. Executions(S, r) \in SUBSET (S \X Sendings)
    BY DEF Executions
<1>5. /\ IsFiniteSet(Executions(S, r))
      /\ Cardinality(Executions(S, r)) <= Cardinality(S \X Sendings)
    BY <1>3, <1>4, FS_Subset
<1>6. Cardinality(Executions(S, r)) \in Nat
    BY <1>5, FS_CardinalityType
<1>7. Cardinality(S) * n = n * Cardinality(S)
    BY <1>2
<1> QED BY <1>2, <1>3, <1>5, <1>6, <1>7 DEF n

\* More executions of more calls are not fewer.
LEMMA ExecutionsGrow ==
    ASSUME NEW S \in SUBSET Calls, NEW T \in SUBSET Calls, S \subseteq T, IsFiniteSet(T),
           NEW r \in [Calls -> Nat], NEW q \in [Calls -> Nat], \A c \in Calls : r[c] <= q[c]
    PROVE  /\ Executions(S, r) \subseteq Executions(T, q)
           /\ Cardinality(Executions(S, r)) <= Cardinality(Executions(T, q))
<1>1. Executions(S, r) \subseteq Executions(T, q)
  <2> SUFFICES ASSUME NEW c \in S, NEW i \in Sendings, i <= r[c]
               PROVE  i <= q[c]
      BY DEF Executions
  <2>1. c \in Calls /\ i \in Nat /\ r[c] \in Nat /\ q[c] \in Nat /\ r[c] <= q[c]
      BY DEF Sendings
  <2> QED BY <2>1
<1>2. IsFiniteSet(Executions(T, q))
    BY ExecutionsBounded
<1> QED BY <1>1, <1>2, FS_Subset

\* One more execution of a call that then counts is one more.
LEMMA ExecutionCounts ==
    ASSUME NEW S \in SUBSET Calls, IsFiniteSet(S), NEW c \in Calls,
           NEW r \in [Calls -> Nat], NEW q \in [Calls -> Nat],
           \A d \in Calls : r[d] <= q[d], q[c] = r[c] + 1, r[c] + 1 \in Sendings
    PROVE  Cardinality(Executions(S, r)) + 1 <= Cardinality(Executions(S \cup {c}, q))
<1> DEFINE T == S \cup {c}
           E == Executions(S, r)
           F == Executions(T, q)
           e == <<c, r[c] + 1>>
<1>1. IsFiniteSet(T) /\ T \in SUBSET Calls /\ S \subseteq T /\ c \in T
    BY FS_AddElement
<1> HIDE DEF T
<1>2. E \subseteq F
    BY <1>1, ExecutionsGrow
<1>3. e \in F /\ e \notin E
    BY <1>1 DEF Executions
<1>4. IsFiniteSet(E) /\ IsFiniteSet(F) /\ Cardinality(E) \in Nat
    BY <1>1, ExecutionsBounded
<1> HIDE DEF E, F, e
<1>5. Cardinality(E \cup {e}) = Cardinality(E) + 1
    BY <1>3, <1>4, FS_AddElement
<1>6. E \cup {e} \in SUBSET F
    BY <1>2, <1>3
<1>7. Cardinality(E \cup {e}) <= Cardinality(F)
    BY <1>4, <1>6, FS_Subset
<1> QED BY <1>5, <1>7 DEF E, F, T

LEMMA StrikesStep == RCTypeOK /\ StrikesSound /\ [RCNext]_rcVars => StrikesSound'
<1> SUFFICES ASSUME RCTypeOK, StrikesSound, [RCNext]_rcVars, NEW v \in Users
             PROVE  /\ IsFiniteSet(counted'[v])
                    /\ strikes'[v] <= Cardinality(Executions(counted'[v], ran'))
    BY DEF StrikesSound
<1>0. /\ IsFiniteSet(counted[v])
      /\ strikes[v] <= Cardinality(Executions(counted[v], ran))
      /\ counted \in [Users -> SUBSET Calls]
      /\ ran \in [Calls -> 0 .. MaxRetries + 1] /\ ran \in [Calls -> Nat]
      /\ strikes \in [Users -> 0 .. MaxAttempts]
    BY DEF StrikesSound, RCTypeOK, LSTypeOK
<1>1. ASSUME counted'[v] = {}, strikes'[v] = 0
      PROVE  /\ IsFiniteSet(counted'[v])
             /\ strikes'[v] <= Cardinality(Executions(counted'[v], ran'))
  <2>1. IsFiniteSet({})
      BY FS_EmptySet
  <2>2. Cardinality(Executions({}, ran')) \in Nat
      BY <2>1, ExecutionsBounded
  <2> QED BY <1>1, <2>1, <2>2
<1>2. CASE RCTick
  <2>1. strikes'[v] = IF IsBlocked(v) /\ ~IsBlocked(v)' THEN 0 ELSE strikes[v]
      BY <1>2, LockoutMillisNat DEF RCTick, LSTick, IsBlocked, RCTypeOK, LSTypeOK
  <2>2. /\ counted'[v] = IF IsBlocked(v) /\ ~IsBlocked(v)' THEN {} ELSE counted[v]
        /\ UNCHANGED ran
      BY <1>2 DEF RCTick, callVars
  <2> QED BY <1>0, <1>1, <2>1, <2>2
<1>3. ASSUME NEW c \in Calls, CallRecordFailure(c) \/ Resend(c) \/ ReturnCall(c)
      PROVE  UNCHANGED <<counted, strikes, ran>>
    BY <1>3 DEF CallRecordFailure, Resend, Send, ReturnCall, lsVars
<1>4. ASSUME NEW c \in Calls, Execute(c)
      PROVE  /\ IsFiniteSet(counted'[v])
             /\ strikes'[v] <= Cardinality(Executions(counted'[v], ran'))
  <2>1. /\ user[c] \in Users /\ RecordFailure(user[c])
        /\ ran' = [ran EXCEPT ![c] = @ + 1]
        /\ ran[c] + 1 \in Sendings
    <3>1. sent[c] \in 0 .. MaxRetries + 1 /\ ran[c] \in 0 .. MaxRetries + 1 /\ ran[c] < sent[c]
        BY <1>4 DEF Execute, RCTypeOK
    <3> QED BY <1>4, <3>1 DEF Execute, RCTypeOK, Sendings
  <2>2. /\ ran' \in [Calls -> Nat] /\ ran'[c] = ran[c] + 1
        /\ \A d \in Calls : ran[d] <= ran'[d]
      BY <1>0, <2>1
  <2>3. CASE user[c] # v \/ IsBlocked(v)
    <3>1. counted'[v] = counted[v] /\ strikes'[v] = strikes[v]
        BY <1>0, <1>4, <2>1, <2>3 DEF Execute, RecordFailure, lsVars
    <3>2. Cardinality(Executions(counted[v], ran)) <= Cardinality(Executions(counted[v], ran'))
        BY <1>0, <2>2, ExecutionsGrow
    <3>3. /\ Cardinality(Executions(counted[v], ran)) \in Nat
          /\ Cardinality(Executions(counted[v], ran')) \in Nat
        BY <1>0, ExecutionsBounded
    <3> QED BY <1>0, <3>1, <3>2, <3>3
  <2>4. CASE user[c] = v /\ ~IsBlocked(v)
    <3>1. counted'[v] = counted[v] \cup {c} /\ strikes'[v] <= strikes[v] + 1
        BY <1>0, <1>4, <2>1, <2>4 DEF Execute, RecordFailure
    <3>2. IsFiniteSet(counted[v] \cup {c})
        BY <1>0, FS_AddElement
    <3>3. Cardinality(Executions(counted[v], ran)) + 1
             <= Cardinality(Executions(counted[v] \cup {c}, ran'))
        BY <1>0, <2>1, <2>2, ExecutionCounts
    <3>4. /\ Cardinality(Executions(counted[v], ran)) \in Nat
          /\ Cardinality(Executions(counted[v] \cup {c}, ran')) \in Nat
        BY <1>0, <3>2, ExecutionsBounded
    <3>5. strikes[v] \in Nat /\ strikes'[v] \in Nat
        BY <1>0, <1>4, <2>1, <2>4 DEF RecordFailure
    <3> QED BY <1>0, <3>1, <3>2, <3>3, <3>4, <3>5
  <2> QED BY <2>3, <2>4
<1>5. ASSUME NEW u \in Users, CallReset(u)
      PROVE  /\ IsFiniteSet(counted'[v])
             /\ strikes'[v] <= Cardinality(Executions(counted'[v], ran'))
  <2>1. CASE u = v
      BY <1>0, <1>1, <1>5, <2>1 DEF CallReset, Reset
  <2>2. CASE u # v
      BY <1>0, <1>5, <2>2 DEF CallReset, Reset, callVars
  <2> QED BY <2>1, <2>2
<1>6. CASE UNCHANGED <<counted, strikes, ran>>
    BY <1>0, <1>6
<1> QED BY <1>2, <1>3, <1>4, <1>5, <1>6 DEF RCNext, rcVars, lsVars, callVars

\* A block takes at least MaxAttempts over MaxRetries + 1 wrong passwords.
THEOREM WrongPasswordsCorrect == RCSpec => []BlockNeedsWrongPasswords
<1>1. RCInit => StrikesSound
  <2> SUFFICES ASSUME RCInit, NEW u \in Users
               PROVE  /\ IsFiniteSet(counted[u])
                      /\ strikes[u] <= Cardinality(Executions(counted[u], ran))
      BY DEF StrikesSound
  <2>1. counted[u] = {} /\ strikes[u] = 0 /\ IsFiniteSet({})
      BY FS_EmptySet DEF RCInit, LSInit
  <2>2. Cardinality(Executions({}, ran)) \in Nat
      BY <2>1, ExecutionsBounded
  <2> QED BY <2>1, <2>2
<1>2. RCSpec => []StrikesSound
    BY <1>1, StrikesStep, RCTypeCorrect, PTL DEF RCSpec
<1>3. RCTypeOK /\ StrikesSound /\ BlockedOnlyAtLimit => BlockNeedsWrongPasswords
  <2> SUFFICES ASSUME RCTypeOK, StrikesSound, BlockedOnlyAtLimit, NEW u \in Users, IsBlocked(u)
               PROVE  (MaxRetries + 1) * Cardinality(counted[u]) >= MaxAttempts
      BY DEF BlockNeedsWrongPasswords
  <2>1. IsFiniteSet(counted[u])
      BY DEF StrikesSound
  <2>2. /\ strikes[u] = MaxAttempts
        /\ strikes[u] <= Cardinality(Executions(counted[u], ran))
      BY DEF StrikesSound, BlockedOnlyAtLimit
  <2>3. /\ Cardinality(counted[u]) \in Nat /\ Cardinality(Executions(counted[u], ran)) \in Nat
        /\ Cardinality(Executions(counted[u], ran)) <= (MaxRetries + 1) * Cardinality(counted[u])
      BY <2>1, ExecutionsBounded
  <2>4. (MaxRetries + 1) * Cardinality(counted[u]) \in Nat
      BY <2>3
  <2> QED BY <2>2, <2>3, <2>4
<1>4. CASE LockoutMicros >= 1000
    BY <1>2, <1>3, <1>4, RCTypeCorrect, ClientCorrect, LimitCorrect, PTL
<1>5. CASE LockoutMicros < 1000
  <2>1. NeverBlocks => BlockNeedsWrongPasswords
      BY DEF NeverBlocks, BlockNeedsWrongPasswords
  <2> QED BY <1>5, <2>1, ClientCorrect, ShortLockoutCorrect, PTL
<1> QED BY <1>4, <1>5
=============================================================================
