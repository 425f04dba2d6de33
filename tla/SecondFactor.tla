---------------------------- MODULE SecondFactor ----------------------------
(***************************************************************************)
(* The second factor below the services: the cipher of the stored secret   *)
(* (internal/security/secret_cipher.go) and the validation of a code       *)
(* (ValidateEncryptedCode and validateCode of                              *)
(* internal/service/totp/service.go).  Key, period, skew and digits come   *)
(* from the configuration of each process; the authenticator app keeps the *)
(* period and digits it was given at enrolment, the row in users keeps the *)
(* ciphertext.  A process may restart with another configuration.          *)
(*                                                                         *)
(* A code is the counter, the secret and the number of digits it was made  *)
(* from; that different ones may coincide by chance is left out.  Time is  *)
(* in seconds.                                                             *)
(***************************************************************************)
EXTENDS Integers

CONSTANTS
    Terminals, Secrets,
    Policies,       \* configurations: key, period, skew, digits
    NoSecret, NoPolicy,
    MaxTime         \* bound of the model: the clock stops here

ASSUME PoliciesAssumption ==
    \A p \in Policies : p.period \in Nat \ {0} /\ p.skew \in Nat
ASSUME NoneAssumption == NoSecret \notin Secrets /\ NoPolicy \notin Policies

VARIABLES
    now,
    policy,     \* the configuration of each process
    stored,     \* totp_secret_encrypted of the account: key and secret of the ciphertext
    app,        \* the secret, period and digits in the user's authenticator app
    last,       \* the last code checked: when it was shown and checked, by whom, the outcome
    enrolledBy  \* history: the configuration of the process that enrolled the account

sfVars == <<now, policy, stored, app, last, enrolledBy>>

Enrolled == stored.secret # NoSecret

Encrypt(key, secret) == [key |-> key, secret |-> secret]

\* Mutant: a secret that cannot be decrypted is taken for an empty one.
ReadableAlways(key, ciphertext) == TRUE

\* GCM authenticates: another key gives an error and never another secret.
Readable(key, ciphertext) == ciphertext.key = key

Counter(time, period) == time \div period

\* The code the app shows at a time of its clock.
Shown(a, time) == [secret |-> a.secret, counter |-> Counter(time, a.period), digits |-> a.digits]

\* Mutant: the periods after the current one are not tried.
PastWindow(p, time) == Counter(time, p.period) - p.skew .. Counter(time, p.period)

\* Mutant: the window is one period wider than configured.
WideWindow(p, time) ==
    Counter(time, p.period) - p.skew - 1 .. Counter(time, p.period) + p.skew + 1

\* The counters ValidateCustom tries.
Window(p, time) == Counter(time, p.period) - p.skew .. Counter(time, p.period) + p.skew

\* The length is tested first; input that is not made of digits is no code at all.
ValidateCode(p, secret, code, time) ==
    /\ code.digits = p.digits
    /\ code.secret = secret
    /\ code.counter \in Window(p, time)

ValidateEncryptedCode(p, ciphertext, code, time) ==
    IF ~Readable(p.key, ciphertext) THEN "error"
    ELSE IF ValidateCode(p, ciphertext.secret, code, time) THEN "valid" ELSE "invalid"

NotEnrolled == [key |-> 0, secret |-> NoSecret]

NoApp == [secret |-> NoSecret, period |-> 1, digits |-> 0]

NoCheck == [shown |-> 0, at |-> 0, by |-> NoPolicy, outcome |-> "none"]

SFInit == /\ now = 0
          /\ policy \in [Terminals -> Policies]
          /\ stored = NotEnrolled
          /\ app = NoApp
          /\ last = NoCheck
          /\ enrolledBy = NoPolicy

SFTick == /\ now < MaxTime
          /\ now' = now + 1
          /\ UNCHANGED <<policy, stored, app, last, enrolledBy>>

\* The process of terminal t is started anew, with configuration p.
Restart(t, p) == /\ policy' = [policy EXCEPT ![t] = p]
                 /\ UNCHANGED <<now, stored, app, last, enrolledBy>>

\* enable-2fa: the app is provisioned, a code of it confirmed, the secret stored.
ConfirmSetup(t, secret, shown) ==
    LET p == policy[t]
        a == [secret |-> secret, period |-> p.period, digits |-> p.digits]
    IN  /\ ~Enrolled
        /\ ValidateCode(p, secret, Shown(a, shown), now)
        /\ app' = a
        /\ stored' = Encrypt(p.key, secret)
        /\ enrolledBy' = p
        /\ UNCHANGED <<now, policy, last>>

\* CompleteTOTPLogin: the code the app showed at a time of its clock is checked.
CompleteTOTPLogin(t, shown) ==
    /\ Enrolled
    /\ last' = [shown |-> shown, at |-> now, by |-> policy[t],
                outcome |-> ValidateEncryptedCode(policy[t], stored, Shown(app, shown), now)]
    /\ UNCHANGED <<now, policy, stored, app, enrolledBy>>

\* Disable with a code that is valid.
Disable(t, shown) ==
    /\ Enrolled
    /\ ValidateEncryptedCode(policy[t], stored, Shown(app, shown), now) = "valid"
    /\ stored' = NotEnrolled
    /\ app' = NoApp
    /\ last' = NoCheck
    /\ enrolledBy' = NoPolicy
    /\ UNCHANGED <<now, policy>>

SFNext ==
    \/ SFTick
    \/ \E t \in Terminals :
          \/ \E p \in Policies : Restart(t, p)
          \/ \E shown \in 0 .. MaxTime :
                \/ \E secret \in Secrets : ConfirmSetup(t, secret, shown)
                \/ CompleteTOTPLogin(t, shown)
                \/ Disable(t, shown)

SFSpec == SFInit /\ [][SFNext]_sfVars
-----------------------------------------------------------------------------
\* The check was made with the period and digits the app was provisioned with.
SameCodes == last.by.period = enrolledBy.period /\ last.by.digits = enrolledBy.digits

(***************************************************************************)
(* README: "Changing or losing it makes existing encrypted TOTP secrets    *)
(* unreadable."  A process with another key reports an error, never a      *)
(* wrong code (which would count towards the lockout); one with the key of *)
(* the enrolment never reports an error, whatever else was changed.        *)
(***************************************************************************)
KeyDecides ==
    last.outcome # "none" => (last.outcome = "error" <=> last.by.key # enrolledBy.key)

(***************************************************************************)
(* A code is accepted until skew periods after it was shown, and from skew *)
(* periods before by an app whose clock is ahead, by any process with the  *)
(* key, period and digits of the enrolment.                                *)
(***************************************************************************)
PromptCodeAccepted ==
    /\ last.outcome # "none" /\ last.by.key = enrolledBy.key /\ SameCodes
    /\ last.at - last.shown <= last.by.skew * last.by.period
    /\ last.shown - last.at <= last.by.skew * last.by.period
    => last.outcome = "valid"

(***************************************************************************)
(* A code that is skew + 1 periods old, or as far ahead, is not accepted   *)
(* any more, and none of another length ever is.  After a change of the    *)
(* period the codes of an account enrolled before it belong to other       *)
(* times: an app with period p is then accepted by a process with period q *)
(* only while at / q and shown / p differ by less than skew + 1, so that   *)
(* for a code of the moment this ends for good with the time since the     *)
(* epoch.                                                                  *)
(***************************************************************************)
OtherCodesRefused ==
    LET p == enrolledBy.period
        q == last.by.period
        bound == (last.by.skew + 1) * (p * q)
    IN  last.outcome = "valid" =>
            /\ last.by.digits = enrolledBy.digits
            /\ p * last.at - q * last.shown < bound
            /\ q * last.shown - p * last.at < bound
=============================================================================
