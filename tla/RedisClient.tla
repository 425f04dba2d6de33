---------------------------- MODULE RedisClient ----------------------------
(***************************************************************************)
(* The connection between the Redis repository and Redis.  Open leaves     *)
(* MaxRetries of the go-redis client at its default, so a command whose    *)
(* reply does not arrive is sent again; the script of RecordFailure is not *)
(* idempotent, and a command the client gave up may still be executed.     *)
(* A call is one RecordFailure, made for one wrong password or code.       *)
(***************************************************************************)
EXTENDS LoginSecurity, FiniteSets

CONSTANTS
    Calls,
    MaxRetries  \* how often go-redis sends a command again

ASSUME MaxRetriesAssumption == MaxRetries \in Nat

VARIABLES
    user,       \* the account of each call
    sent,       \* how often its script was sent
    ran,        \* how often it was executed
    returned,   \* calls that have returned to the service
    counted     \* history: the calls whose script counted since the account was unblocked

callVars == <<user, sent, ran, returned>>
rcVars == <<now, lsVars, callVars, counted>>

RCInit == /\ LSInit
          /\ user \in [Calls -> Users]
          /\ sent = [c \in Calls |-> 0]
          /\ ran = [c \in Calls |-> 0]
          /\ returned = {}
          /\ counted = [u \in Users |-> {}]

Send(c) == /\ sent' = [sent EXCEPT ![c] = @ + 1]
           /\ UNCHANGED <<now, lsVars, user, ran, returned, counted>>

\* IsBlocked said no and the password is wrong: the script is sent.
CallRecordFailure(c) == sent[c] = 0 /\ ~IsBlocked(user[c]) /\ Send(c)

\* Mutant: the client does not count its retries.
ResendForever(c) == sent[c] > 0 /\ c \notin returned /\ Send(c)

\* A network error or a timeout: the client sends the script again.
Resend(c) == sent[c] \in 1 .. MaxRetries /\ c \notin returned /\ Send(c)

\* Redis executes a script it was sent, maybe long after.
Execute(c) ==
    LET u == user[c] IN
    /\ ran[c] < sent[c]
    /\ RecordFailure(u)
    /\ ran' = [ran EXCEPT ![c] = @ + 1]
    /\ counted' = [counted EXCEPT ![u] = IF IsBlocked(u) THEN @ ELSE @ \cup {c}]
    /\ UNCHANGED <<now, user, sent, returned>>

\* A reply arrives, or no retry is left.
ReturnCall(c) ==
    /\ c \notin returned
    /\ ran[c] > 0 \/ sent[c] = MaxRetries + 1
    /\ returned' = returned \cup {c}
    /\ UNCHANGED <<now, lsVars, user, sent, ran, counted>>

\* The DEL of a successful login, of one of its retries, or a late one.
CallReset(u) == /\ Reset(u)
                /\ counted' = [counted EXCEPT ![u] = {}]
                /\ UNCHANGED <<now, callVars>>

RCTick == /\ LSTick
          /\ counted' = [u \in Users |-> IF IsBlocked(u) /\ ~IsBlocked(u)' THEN {} ELSE counted[u]]
          /\ UNCHANGED callVars

RCNext == \/ RCTick
          \/ \E c \in Calls : \/ CallRecordFailure(c) \/ Resend(c)
                              \/ Execute(c) \/ ReturnCall(c)
          \/ \E u \in Users : CallReset(u)

RCSpec == RCInit /\ [][RCNext]_rcVars

\* Redis's clock and key expiry do not stop; nothing else has to happen.
RCFairSpec == RCSpec /\ WF_rcVars(RCTick)
-----------------------------------------------------------------------------
\* Types of the store and the calls.
RCTypeOK == /\ LSTypeOK
            /\ user \in [Calls -> Users]
            /\ sent \in [Calls -> 0 .. MaxRetries + 1]
            /\ ran \in [Calls -> 0 .. MaxRetries + 1]
            /\ returned \subseteq Calls
            /\ counted \in [Users -> SUBSET Calls]

(***************************************************************************)
(* How far retries bend the limit: a block takes at least MaxAttempts over *)
(* MaxRetries + 1 wrong passwords.                                         *)
(***************************************************************************)
BlockNeedsWrongPasswords ==
    \A u \in Users : IsBlocked(u) =>
        (MaxRetries + 1) * Cardinality(counted[u]) >= MaxAttempts

(***************************************************************************)
(* Retries and late scripts never make the limit late: when MaxAttempts    *)
(* wrong passwords have counted, the account is blocked.                   *)
(***************************************************************************)
CountedLimitBlocks ==
    \A u \in Users : Cardinality(counted[u]) >= MaxAttempts => IsBlocked(u)
=============================================================================
