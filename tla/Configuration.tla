--------------------------- MODULE Configuration ---------------------------
(***************************************************************************)
(* Startup configuration (internal/config).  LoadEnvFile adds the entries  *)
(* of .env.local to the process environment, line by line, up to the first *)
(* malformed one; then Load parses and validates the environment.          *)
(*                                                                         *)
(* The settings that are texts (URLs, issuer, history path) are left out:  *)
(* blank ones get their default and any other is accepted.                 *)
(***************************************************************************)
EXTENDS Integers, Sequences

CONSTANTS
    Environments,   \* process environments to start from
    EnvFiles        \* contents of .env.local

(***************************************************************************)
(* A raw value is absent, blank, not of any right form, a number, or a     *)
(* duration longer than nothing and shorter than a millisecond.  Other     *)
(* durations are numbers, in whole milliseconds; the key is its number of  *)
(* bytes.  What an entry of the file gives may be blank, but never absent. *)
(***************************************************************************)
Unset  == [form |-> "unset", value |-> 0]
Blank  == [form |-> "blank", value |-> 0]
Junk   == [form |-> "junk", value |-> 0]
Short  == [form |-> "short", value |-> 0]
Num(n) == [form |-> "number", value |-> n]

RawValues == {Unset, Blank, Junk, Short} \cup [form : {"number"}, value : Int]

PositiveInts == {"MIN_USERNAME_LENGTH", "MAX_USERNAME_LENGTH", "MIN_PASSWORD_LENGTH",
                 "MAX_PASSWORD_LENGTH", "BCRYPT_COST", "MAX_LOGIN_ATTEMPTS",
                 "TOTP_PERIOD", "TOTP_DIGITS"}

NonNegativeInts == {"TOTP_SKEW"}

Durations == {"ACCOUNT_LOCKOUT_DURATION", "SESSION_TIMEOUT", "TOTP_SETUP_TIMEOUT",
              "TOTP_CHALLENGE_TIMEOUT"}

Numbers == PositiveInts \cup NonNegativeInts \cup Durations

Key == "TOTP_ENCRYPTION_KEY_BASE64"

Settings == Numbers \cup {Key}

Minutes(n) == n * 60000

Default == [MIN_USERNAME_LENGTH |-> 3, MAX_USERNAME_LENGTH |-> 50,
            MIN_PASSWORD_LENGTH |-> 8, MAX_PASSWORD_LENGTH |-> 72,
            BCRYPT_COST |-> 12, MAX_LOGIN_ATTEMPTS |-> 5,
            TOTP_PERIOD |-> 30, TOTP_SKEW |-> 1, TOTP_DIGITS |-> 6,
            ACCOUNT_LOCKOUT_DURATION |-> Minutes(15), SESSION_TIMEOUT |-> Minutes(30),
            TOTP_SETUP_TIMEOUT |-> Minutes(10), TOTP_CHALLENGE_TIMEOUT |-> Minutes(5)]

\* A line of the file: skipped (empty or a comment), malformed, or an entry.
Lines == [kind : {"skipped", "malformed"}] \cup
         [kind : {"entry"}, name : Settings, value : RawValues \ {Unset}]

ASSUME EnvironmentsAssumption == Environments \subseteq [Settings -> RawValues]
ASSUME EnvFilesAssumption == EnvFiles \subseteq Seq(Lines)

VARIABLES
    stage,      \* "file" while .env.local is read, "load", "running" or "failed"
    env,        \* the process environment
    line,       \* the line of the file to be read next
    cfg,        \* the Config returned by Load
    inherited,  \* the environment the process was started with
    file        \* the lines of .env.local

cfgVars == <<stage, env, line, cfg, inherited, file>>

Given(raw) == raw.form \notin {"unset", "blank"}

\* Mutant: zero counts as not given.
ValueUnlessZero(e, name) == IF e[name].value # 0 THEN e[name].value ELSE Default[name]

\* integer, and the parsing in positiveDuration: blank counts as not given.
Value(e, name) == IF Given(e[name]) THEN e[name].value ELSE Default[name]

NoConfig == [name \in Numbers |-> 0]

CfgInit == /\ inherited \in Environments
           /\ file \in EnvFiles
           /\ env = inherited
           /\ line = 1
           /\ stage = "file"
           /\ cfg = NoConfig

\* Mutant: the file overrides the environment.
ReadLineOverriding ==
    /\ stage = "file" /\ line <= Len(file)
    /\ line' = line + 1
    /\ env' = IF file[line].kind = "entry"
              THEN [env EXCEPT ![file[line].name] = file[line].value] ELSE env
    /\ stage' = IF file[line].kind = "malformed" THEN "failed" ELSE stage
    /\ UNCHANGED <<cfg, inherited, file>>

\* One turn of the loop of LoadEnvFile.  A variable that is set, if only to
\* nothing, is not overridden.
ReadLine ==
    /\ stage = "file" /\ line <= Len(file)
    /\ line' = line + 1
    /\ env' = IF file[line].kind = "entry" /\ env[file[line].name] = Unset
              THEN [env EXCEPT ![file[line].name] = file[line].value] ELSE env
    /\ stage' = IF file[line].kind = "malformed" THEN "failed" ELSE stage
    /\ UNCHANGED <<cfg, inherited, file>>

EndOfFile == /\ stage = "file" /\ line > Len(file)
             /\ stage' = "load"
             /\ UNCHANGED <<env, line, cfg, inherited, file>>

\* What positiveInt, nonNegativeInt and positiveDuration accept: a duration
\* may be as short as a nanosecond.
Accepts(name, raw) ==
    \/ ~Given(raw)
    \/ raw.form = "number" /\ raw.value >= (IF name \in NonNegativeInts THEN 0 ELSE 1)
    \/ raw.form = "short" /\ name \in Durations

Parses(e) == \A name \in Numbers : Accepts(name, e[name])

ValidateRanges(c) ==
    /\ c["MIN_USERNAME_LENGTH"] <= c["MAX_USERNAME_LENGTH"]
    /\ c["MIN_PASSWORD_LENGTH"] <= c["MAX_PASSWORD_LENGTH"]
    /\ c["MAX_PASSWORD_LENGTH"] <= Default["MAX_PASSWORD_LENGTH"]
    /\ c["BCRYPT_COST"] \in 4 .. 31
    /\ c["TOTP_DIGITS"] \in {6, 8}

\* The key must be given, be valid Base64 and have the size of an AES-256 key.
EncryptionKey(e) == e[Key].form = "number" /\ e[Key].value = 32

Load ==
    LET c == [name \in Numbers |-> Value(env, name)] IN
    /\ stage = "load"
    /\ IF Parses(env) /\ ValidateRanges(c) /\ EncryptionKey(env)
       THEN stage' = "running" /\ cfg' = c
       ELSE stage' = "failed" /\ UNCHANGED cfg
    /\ UNCHANGED <<env, line, inherited, file>>

CfgNext == ReadLine \/ EndOfFile \/ Load

CfgSpec == CfgInit /\ [][CfgNext]_cfgVars
-----------------------------------------------------------------------------
\* What is asked of a setting: what the process was started with, be it blank,
\* or else the first entry for it among the lines read so far.
Meant(name) ==
    LET given == {i \in 1 .. line - 1 : file[i].kind = "entry" /\ file[i].name = name}
    IN  IF inherited[name] # Unset \/ given = {} THEN inherited[name]
        ELSE file[CHOOSE i \in given : \A j \in given : i <= j].value

(***************************************************************************)
(* The environment never holds anything but what is asked of it: later     *)
(* lines, and lines after a malformed one, change nothing.                 *)
(***************************************************************************)
EnvFilePrecedence == \A name \in Settings : env[name] = Meant(name)

(***************************************************************************)
(* A process runs with every setting as asked, or not at all.  A setting   *)
(* has its default if it was not given or given as blank, even when the    *)
(* blank hides an entry of the file; zero and a duration below one         *)
(* millisecond are values like any other; and a value that cannot be       *)
(* parsed, or a malformed line anywhere in the file, is never passed over. *)
(***************************************************************************)
RunsAsAsked ==
    stage = "running" =>
        /\ line = Len(file) + 1
        /\ \A i \in 1 .. Len(file) : file[i].kind # "malformed"
        /\ \A name \in Numbers :
              /\ Meant(name).form # "junk"
              /\ cfg[name] = IF Given(Meant(name)) THEN Meant(name).value ELSE Default[name]
        /\ Meant(Key) = Num(32)
=============================================================================
