-------------------------- MODULE Settings_proofs --------------------------
(***************************************************************************)
(* Proofs about the settings of a process, in two independent parts.       *)
(* Configuration: which settings it comes to run with, for any environment *)
(* and file.  SecondFactor: what the key, period, skew and digits it runs  *)
(* with mean, for any values: who can read a stored secret, and exactly    *)
(* how long a code is good.                                                *)
(***************************************************************************)
EXTENDS Configuration, SecondFactor, TLAPS

-----------------------------------------------------------------------------
(***************************************************************************)
(* Configuration.                                                          *)
(***************************************************************************)

\* The lines read so far that give the setting a value.
Entries(name) == {i \in 1 .. line - 1 : file[i].kind = "entry" /\ file[i].name = name}

\* The types; line may be one past the end.
CfgTypeOK == /\ env \in [Settings -> RawValues]
             /\ inherited \in [Settings -> RawValues]
             /\ file \in Seq(Lines)
             /\ line \in 1 .. Len(file) + 1

\* Every setting has its value from the environment of the process, from no
\* one, or from its first entry in the file.
FromFirst ==
    \A name \in Settings :
        IF inherited[name] # Unset THEN env[name] = inherited[name]
        ELSE \/ Entries(name) = {} /\ env[name] = Unset
             \/ \E i \in Entries(name) : /\ \A j \in Entries(name) : i <= j
                                         /\ env[name] = file[i].value
                                         /\ env[name] # Unset

\* No malformed line is passed over, Load comes after the last line, and the
\* environment has not changed since a running process got past it.
Reached ==
    /\ stage # "failed" => \A i \in 1 .. line - 1 : file[i].kind # "malformed"
    /\ stage \in {"load", "running"} => line = Len(file) + 1
    /\ stage = "running" => /\ Parses(env) /\ EncryptionKey(env)
                            /\ cfg = [name \in Numbers |-> Value(env, name)]

CfgInv == CfgTypeOK /\ FromFirst /\ Reached

\* A line that is read adds itself to the entries of the setting it names.
LEMMA ReadLineEntries ==
    ASSUME CfgTypeOK, ReadLine, NEW name \in Settings
    PROVE  /\ \A i \in Entries(name) : i \in Nat /\ i < line
           /\ line \in Nat /\ file[line] \in Lines
           /\ Entries(name)' = IF file[line].kind = "entry" /\ file[line].name = name
                               THEN Entries(name) \cup {line} ELSE Entries(name)
<1>1. line \in Nat /\ line >= 1 /\ line' = line + 1 /\ UNCHANGED file /\ line <= Len(file)
    BY DEF CfgTypeOK, ReadLine
<1>2. file[line] \in Lines
    BY <1>1 DEF CfgTypeOK
<1>3. 1 .. line' - 1 = (1 .. line - 1) \cup {line}
    BY <1>1
<1> QED BY <1>1, <1>2, <1>3 DEF Entries

LEMMA ReadLineInv ==
    ASSUME CfgInv, ReadLine
    PROVE  CfgInv'
<1>1. CfgTypeOK /\ FromFirst
    BY DEF CfgInv
<1>2. /\ line' = line + 1 /\ line <= Len(file)
      /\ UNCHANGED <<cfg, inherited, file>>
      /\ env' = IF file[line].kind = "entry" /\ env[file[line].name] = Unset
                THEN [env EXCEPT ![file[line].name] = file[line].value] ELSE env
    BY DEF ReadLine
<1>3. /\ line \in Nat /\ file[line] \in Lines
      /\ file[line].kind = "entry" =>
            file[line].name \in Settings /\ file[line].value \in RawValues \ {Unset}
  <2>1. line \in 1 .. Len(file) /\ file \in Seq(Lines)
      BY <1>1, <1>2 DEF CfgTypeOK
  <2>2. file[line] \in Lines
      BY <2>1
  <2> QED BY <2>1, <2>2 DEF Lines
<1>4. CfgTypeOK'
    BY <1>1, <1>2, <1>3 DEF CfgTypeOK
<1>5. FromFirst'
  <2> SUFFICES ASSUME NEW name \in Settings
               PROVE  IF inherited[name] # Unset THEN env'[name] = inherited[name]
                      ELSE \/ Entries(name)' = {} /\ env'[name] = Unset
                           \/ \E i \in Entries(name)' :
                                 /\ \A j \in Entries(name)' : i <= j
                                 /\ env'[name] = file[i].value
                                 /\ env'[name] # Unset
      BY <1>2 DEF FromFirst
  <2> DEFINE named == file[line].kind = "entry" /\ file[line].name = name
  <2>1. /\ \A i \in Entries(name) : i \in Nat /\ i < line
        /\ Entries(name)' = IF named THEN Entries(name) \cup {line} ELSE Entries(name)
      BY <1>1, ReadLineEntries
  <2>2. env'[name] = IF named /\ env[name] = Unset THEN file[line].value ELSE env[name]
      BY <1>1, <1>2, <1>3 DEF CfgTypeOK
  <2>3. named => file[line].value # Unset
      BY <1>3
  <2> DEFINE G == Entries(name)
             H == Entries(name)'
  <2>4. CASE inherited[name] # Unset
      BY <1>1, <2>2, <2>4 DEF FromFirst
  <2>5. CASE inherited[name] = Unset /\ G = {} /\ env[name] = Unset
    <3>1. H = {} \/ (named /\ H = {line})
        BY <2>1, <2>5
    <3> HIDE DEF named, G, H
    <3>2. CASE named /\ H = {line}
      <4>1. line \in H /\ \A j \in H : line <= j
          BY <1>3, <3>2
      <4>2. env'[name] = file[line].value /\ env'[name] # Unset
          BY <2>2, <2>3, <2>5, <3>2
      <4> QED BY <2>5, <4>1, <4>2 DEF H
    <3>3. CASE ~(named /\ H = {line})
      <4>1. H = {} /\ ~named
          BY <2>1, <3>1, <3>3, <2>5 DEF G, H
      <4> QED BY <2>2, <2>5, <4>1 DEF H
    <3> QED BY <3>2, <3>3
  <2>6. ASSUME inherited[name] = Unset, env[name] # Unset,
               NEW i \in G, \A j \in G : i <= j, env[name] = file[i].value
        PROVE  /\ i \in H /\ \A j \in H : i <= j
               /\ env'[name] = file[i].value /\ env'[name] # Unset
    <3>1. i < line /\ i \in Nat /\ H \in {G, G \cup {line}}
        BY <2>1
    <3>2. env'[name] = env[name]
        BY <2>2, <2>6
    <3> HIDE DEF G, H
    <3> QED BY <1>3, <2>6, <3>1, <3>2
  <2> QED BY <1>1, <2>4, <2>5, <2>6 DEF FromFirst
<1>6. Reached'
  <2>1. 1 .. line' - 1 = (1 .. line - 1) \cup {line}
      BY <1>1, <1>2, <1>3 DEF CfgTypeOK
  <2>2. stage = "file" /\ stage' = IF file[line].kind = "malformed" THEN "failed" ELSE stage
      BY DEF ReadLine
  <2> QED BY <1>2, <2>1, <2>2 DEF CfgInv, Reached
<1> QED BY <1>4, <1>5, <1>6 DEF CfgInv

\* Reading the file and loading keep the invariant, whatever the file holds.
THEOREM CfgInvariant == CfgSpec => []CfgInv
<1>1. ASSUME CfgInit
      PROVE  CfgInv
  <2>1. CfgTypeOK
      BY <1>1, EnvironmentsAssumption, EnvFilesAssumption DEF CfgInit, CfgTypeOK
  <2>2. \A name : Entries(name) = {}
      BY <1>1 DEF CfgInit, Entries
  <2>3. Reached
      BY <1>1 DEF CfgInit, Reached
  <2> QED BY <1>1, <2>1, <2>2, <2>3 DEF CfgInit, CfgInv, FromFirst
<1>2. ASSUME CfgInv, [CfgNext]_cfgVars
      PROVE  CfgInv'
  <2>1. CASE ReadLine
      BY <1>2, <2>1, ReadLineInv
  <2>2. CASE EndOfFile
    <3>1. /\ stage = "file" /\ stage' = "load" /\ line > Len(file)
          /\ UNCHANGED <<env, line, cfg, inherited, file>>
        BY <2>2 DEF EndOfFile
    <3>2. line = Len(file) + 1
        BY <1>2, <3>1 DEF CfgInv, CfgTypeOK
    <3>3. CfgTypeOK' /\ FromFirst'
        BY <1>2, <3>1 DEF CfgInv, CfgTypeOK, FromFirst, Entries
    <3>4. Reached'
        BY <1>2, <3>1, <3>2 DEF CfgInv, Reached
    <3> QED BY <3>3, <3>4 DEF CfgInv
  <2>3. CASE Load
    <3>1. UNCHANGED <<env, line, inherited, file>>
        BY <2>3 DEF Load
    <3>2. CfgTypeOK' /\ FromFirst'
        BY <1>2, <3>1 DEF CfgInv, CfgTypeOK, FromFirst, Entries
    <3>3. Reached'
        BY <1>2, <2>3, <3>1 DEF Load, CfgInv, Reached, Parses, Accepts, EncryptionKey, Value, Given
    <3> QED BY <3>2, <3>3 DEF CfgInv
  <2>4. CASE UNCHANGED cfgVars
      BY <1>2, <2>4 DEF cfgVars, CfgInv, CfgTypeOK, FromFirst, Entries, Reached,
                           Parses, Accepts, EncryptionKey, Value, Given
  <2> QED BY <1>2, <2>1, <2>2, <2>3, <2>4 DEF CfgNext
<1> QED BY <1>1, <1>2, PTL DEF CfgSpec

\* The environment of the process wins, then the first line of the file.
LEMMA EnvIsMeant ==
    ASSUME CfgInv, NEW name \in Settings
    PROVE  env[name] = Meant(name)
<1> DEFINE G == Entries(name)
           m == CHOOSE i \in G : \A j \in G : i <= j
<1>1. Meant(name) = IF inherited[name] # Unset \/ G = {} THEN inherited[name] ELSE file[m].value
    BY DEF Meant, Entries
<1>2. \A i \in G : i \in Nat
    BY DEF Entries, CfgInv, CfgTypeOK
<1>3. CASE inherited[name] # Unset \/ G = {}
    BY <1>1, <1>3 DEF CfgInv, FromFirst
<1>4. CASE inherited[name] = Unset /\ G # {}
  <2>1. PICK i \in G : (\A j \in G : i <= j) /\ env[name] = file[i].value
      BY <1>4 DEF CfgInv, FromFirst
  <2> HIDE DEF G
  <2>2. m \in G /\ \A j \in G : m <= j
      BY <2>1
  <2>3. m = i
    <3>1. m \in Nat /\ i \in Nat /\ m <= i /\ i <= m
        BY <1>2, <2>1, <2>2
    <3> HIDE DEF m
    <3> QED BY <3>1
  <2> QED BY <1>1, <1>4, <2>1, <2>3
<1> QED BY <1>3, <1>4

\* The environment never holds anything but what is asked of it.
THEOREM PrecedenceCorrect == CfgSpec => []EnvFilePrecedence
<1>1. CfgInv => EnvFilePrecedence
    BY EnvIsMeant DEF EnvFilePrecedence
<1> QED BY <1>1, CfgInvariant, PTL

\* Whatever the environment and the file hold, a process runs with every
\* setting as they ask, or does not run.
THEOREM RunsAsAskedCorrect == CfgSpec => []RunsAsAsked
<1>1. ASSUME CfgInv, stage = "running"
      PROVE  RunsAsAsked
  <2>1. /\ env \in [Settings -> RawValues]
        /\ Parses(env) /\ EncryptionKey(env)
        /\ cfg = [name \in Numbers |-> Value(env, name)]
        /\ line = Len(file) + 1
        /\ \A i \in 1 .. line - 1 : file[i].kind # "malformed"
      BY <1>1 DEF CfgInv, CfgTypeOK, Reached
  <2>2. file \in Seq(Lines)
      BY <1>1 DEF CfgInv, CfgTypeOK
  <2>3. \A i \in 1 .. Len(file) : file[i].kind # "malformed"
      BY <2>1, <2>2
  <2>4. ASSUME NEW name \in Numbers
        PROVE  /\ Meant(name).form # "junk"
               /\ cfg[name] = IF Given(Meant(name)) THEN Meant(name).value ELSE Default[name]
    <3>1. env[name] = Meant(name)
        BY <1>1, EnvIsMeant DEF Settings
    <3>2. Accepts(name, Meant(name))
        BY <2>1, <3>1 DEF Parses
    <3>3. cfg[name] = Value(env, name)
        BY <2>1
    <3> QED BY <3>1, <3>2, <3>3 DEF Accepts, Given, Value
  <2>5. Meant(Key) = Num(32)
    <3>1. env[Key] = Meant(Key) /\ env[Key] \in RawValues
        BY <1>1, <2>1, EnvIsMeant DEF Settings
    <3>2. env[Key].form = "number" /\ env[Key].value = 32
        BY <2>1 DEF EncryptionKey
    <3> QED BY <3>1, <3>2 DEF RawValues, Unset, Blank, Junk, Short, Num
  <2> QED BY <2>1, <2>3, <2>4, <2>5 DEF RunsAsAsked
<1>2. CfgInv => RunsAsAsked
    BY <1>1 DEF RunsAsAsked
<1> QED BY <1>2, CfgInvariant, PTL

-----------------------------------------------------------------------------
(***************************************************************************)
(* SecondFactor.                                                           *)
(***************************************************************************)
USE PoliciesAssumption, NoneAssumption

\* Multiplication by a natural number is monotone.
LEMMA TimesMonotone ==
    ASSUME NEW a \in Int, NEW b \in Int, NEW d \in Nat, a <= b
    PROVE  d * a <= d * b
<1>1. d * (b - a) >= 0
    BY SMT
<1>2. d * (b - a) = d * b - d * a
    BY SMT
<1> QED BY <1>1, <1>2, SMT

\* A time lies in the period of its counter.
LEMMA CounterBounds ==
    ASSUME NEW x \in Int, NEW d \in Nat \ {0}
    PROVE  /\ Counter(x, d) \in Int
           /\ d * Counter(x, d) <= x /\ x < d * Counter(x, d) + d
  BY SMT DEF Counter

\* Times at most k periods apart have counters at most k apart.
LEMMA CloseTimes ==
    ASSUME NEW x \in Int, NEW y \in Int, NEW d \in Nat \ {0}, NEW k \in Nat, x - y <= k * d
    PROVE  Counter(x, d) <= Counter(y, d) + k
<1> DEFINE p == Counter(x, d)
           q == Counter(y, d)
<1>1. /\ p \in Int /\ q \in Int /\ d * p <= x /\ y < d * q + d
    BY CounterBounds
<1> HIDE DEF p, q
<1>2. ASSUME q + k + 1 <= p
      PROVE  FALSE
  <2>1. d * (q + k + 1) <= d * p
      BY <1>1, <1>2, TimesMonotone
  <2>2. d * (q + k + 1) = d * q + k * d + d
      BY <1>1, SMT
  <2> QED BY <1>1, <2>1, <2>2, SMT
<1>3. p <= q + k
    BY <1>1, <1>2
<1> QED BY <1>3 DEF p, q

\* Counters at most k apart, of periods d and e, belong to times less than
\* k + 1 apart when each is measured in its own period.
LEMMA CloseCounters ==
    ASSUME NEW x \in Int, NEW y \in Int, NEW d \in Nat \ {0}, NEW e \in Nat \ {0},
           NEW k \in Nat, Counter(x, d) <= Counter(y, e) + k
    PROVE  e * x - d * y < (k + 1) * (e * d)
<1> DEFINE p == Counter(x, d)
           q == Counter(y, e)
<1>1. /\ p \in Int /\ q \in Int /\ x < d * p + d /\ e * q <= y /\ p <= q + k
    BY CounterBounds
<1> HIDE DEF p, q
<1>2. d * p <= d * (q + k)
    BY <1>1, TimesMonotone
<1>3. x + 1 <= d * (q + k + 1)
  <2>1. d * (q + k + 1) = d * (q + k) + d
      BY <1>1, SMT
  <2> QED BY <1>1, <1>2, <2>1, SMT
<1>4. e * (x + 1) <= e * (d * (q + k + 1))
    BY <1>1, <1>3, TimesMonotone
<1>5. d * (e * q) <= d * y
    BY <1>1, TimesMonotone
<1>6. /\ e * (x + 1) = e * x + e
      /\ e * (d * (q + k + 1)) = d * (e * q) + (k + 1) * (e * d)
    BY <1>1, SMT
<1>7. e * x \in Int /\ d * y \in Int /\ d * (e * q) \in Int /\ (k + 1) * (e * d) \in Int
    BY <1>1, SMT
<1> QED BY <1>4, <1>5, <1>6, <1>7, SMT

-----------------------------------------------------------------------------
\* The app and the row were provisioned by the process that enrolled, and the
\* last outcome is that of a check against them.
IInv ==
    /\ now \in Int
    /\ policy \in [Terminals -> Policies]
    /\ Enrolled => /\ enrolledBy \in Policies
                   /\ stored.key = enrolledBy.key
                   /\ app.secret = stored.secret
                   /\ app.period = enrolledBy.period /\ app.digits = enrolledBy.digits
    /\ ~Enrolled => last.outcome = "none"
    /\ last.outcome # "none" =>
          /\ last.by \in Policies /\ last.at \in Int /\ last.shown \in Int
          /\ last.outcome = ValidateEncryptedCode(last.by, stored, Shown(app, last.shown), last.at)

\* Enrolments, checks, restarts with another configuration and disabling.
THEOREM Invariant == SFSpec => []IInv
<1>1. SFInit => IInv
    BY DEF SFInit, IInv, Enrolled, NotEnrolled, NoCheck
<1>2. ASSUME IInv, [SFNext]_sfVars
      PROVE  IInv'
  <2>1. CASE SFTick
      BY <1>2, <2>1 DEF SFTick, IInv, Enrolled
  <2>2. ASSUME NEW t \in Terminals, NEW p \in Policies, Restart(t, p)
        PROVE  IInv'
      BY <1>2, <2>2 DEF Restart, IInv, Enrolled
  <2>3. ASSUME NEW t \in Terminals, NEW secret \in Secrets, NEW shown, ConfirmSetup(t, secret, shown)
        PROVE  IInv'
    <3>1. policy[t] \in Policies
        BY <1>2 DEF IInv
    <3> QED BY <1>2, <2>3, <3>1 DEF ConfirmSetup, Encrypt, IInv, Enrolled
  <2>4. ASSUME NEW t \in Terminals, NEW shown \in 0 .. MaxTime, CompleteTOTPLogin(t, shown)
        PROVE  IInv'
    <3>1. policy[t] \in Policies
        BY <1>2 DEF IInv
    <3> QED BY <1>2, <2>4, <3>1 DEF CompleteTOTPLogin, IInv, Enrolled
  <2>5. ASSUME NEW t \in Terminals, NEW shown, Disable(t, shown)
        PROVE  IInv'
      BY <1>2, <2>5 DEF Disable, NotEnrolled, NoCheck, IInv, Enrolled
  <2>6. CASE UNCHANGED sfVars
      BY <1>2, <2>6 DEF sfVars, IInv, Enrolled
  <2> QED BY <1>2, <2>1, <2>2, <2>3, <2>4, <2>5, <2>6 DEF SFNext
<1> QED BY <1>1, <1>2, PTL DEF SFSpec

\* What was checked last, spelled out.
LEMMA LastCheck ==
    ASSUME IInv, last.outcome # "none"
    PROVE  /\ last.by.period \in Nat \ {0} /\ last.by.skew \in Nat
           /\ last.at \in Int /\ last.shown \in Int
           /\ last.outcome = "error" <=> last.by.key # enrolledBy.key
           /\ last.outcome \in {"error", "valid", "invalid"}
           /\ enrolledBy.period \in Nat \ {0}
           /\ last.outcome = "valid" =>
                 /\ last.by.digits = enrolledBy.digits
                 /\ Counter(last.shown, enrolledBy.period) \in Window(last.by, last.at)
           /\ SameCodes /\ last.by.key = enrolledBy.key =>
                 (last.outcome = "valid" <=>
                     Counter(last.shown, last.by.period) \in Window(last.by, last.at))
<1>1. /\ Enrolled /\ last.by \in Policies /\ last.at \in Int /\ last.shown \in Int
      /\ last.outcome = ValidateEncryptedCode(last.by, stored, Shown(app, last.shown), last.at)
      /\ stored.key = enrolledBy.key /\ app.secret = stored.secret
      /\ app.period = enrolledBy.period /\ app.digits = enrolledBy.digits
    BY DEF IInv
<1>2. last.by.period \in Nat \ {0} /\ last.by.skew \in Nat /\ enrolledBy.period \in Nat \ {0}
    BY <1>1 DEF IInv
<1> QED BY <1>1, <1>2 DEF ValidateEncryptedCode, Readable, ValidateCode, Shown, SameCodes

\* Only the key of the enrolment reads the secret, and any process that has it can.
THEOREM KeyDecidesCorrect == SFSpec => []KeyDecides
<1>1. IInv => KeyDecides
    BY LastCheck DEF KeyDecides
<1> QED BY <1>1, Invariant, PTL

\* A code is good for skew periods in both directions.
THEOREM PromptCodeCorrect == SFSpec => []PromptCodeAccepted
<1>1. ASSUME IInv, last.outcome # "none", last.by.key = enrolledBy.key, SameCodes,
             last.at - last.shown <= last.by.skew * last.by.period,
             last.shown - last.at <= last.by.skew * last.by.period
      PROVE  last.outcome = "valid"
  <2> DEFINE d == last.by.period
             k == last.by.skew
             x == last.at
             y == last.shown
  <2>1. d \in Nat \ {0} /\ k \in Nat /\ x \in Int /\ y \in Int
      BY <1>1, LastCheck
  <2>2. x - y <= k * d /\ y - x <= k * d
      BY <1>1
  <2>3. Counter(x, d) \in Int /\ Counter(y, d) \in Int
    <3> HIDE DEF d, x, y
    <3> QED BY <2>1, CounterBounds
  <2>4. Counter(x, d) <= Counter(y, d) + k /\ Counter(y, d) <= Counter(x, d) + k
    <3> HIDE DEF d, k, x, y
    <3> QED BY <2>1, <2>2, CloseTimes
  <2>5. Counter(y, d) \in Window(last.by, x)
      BY <2>1, <2>3, <2>4 DEF Window
  <2> QED BY <1>1, <2>5, LastCheck
<1>2. IInv => PromptCodeAccepted
    BY <1>1 DEF PromptCodeAccepted
<1> QED BY <1>2, Invariant, PTL

\* No code is good for skew + 1 periods, whatever the periods are.
THEOREM OtherCodesCorrect == SFSpec => []OtherCodesRefused
<1>1. ASSUME IInv, last.outcome = "valid"
      PROVE  /\ last.by.digits = enrolledBy.digits
             /\ enrolledBy.period * last.at - last.by.period * last.shown
                  < (last.by.skew + 1) * (enrolledBy.period * last.by.period)
             /\ last.by.period * last.shown - enrolledBy.period * last.at
                  < (last.by.skew + 1) * (enrolledBy.period * last.by.period)
  <2> DEFINE d == last.by.period
             e == enrolledBy.period
             k == last.by.skew
             x == last.at
             y == last.shown
  <2>1. d \in Nat \ {0} /\ e \in Nat \ {0} /\ k \in Nat /\ x \in Int /\ y \in Int
      BY <1>1, LastCheck
  <2>2. Counter(y, e) \in Window(last.by, x)
      BY <1>1, LastCheck
  <2>3. Counter(x, d) \in Int /\ Counter(y, e) \in Int
    <3> HIDE DEF d, e, x, y
    <3> QED BY <2>1, CounterBounds
  <2>4. Counter(x, d) <= Counter(y, e) + k /\ Counter(y, e) <= Counter(x, d) + k
      BY <2>1, <2>2, <2>3 DEF Window
  <2>5. e * x - d * y < (k + 1) * (e * d) /\ d * y - e * x < (k + 1) * (e * d)
    <3> HIDE DEF d, e, k, x, y
    <3>1. e * x - d * y < (k + 1) * (e * d)
        BY <2>1, <2>4, CloseCounters
    <3>2. d * y - e * x < (k + 1) * (d * e)
        BY <2>1, <2>4, CloseCounters
    <3>3. d * e = e * d
        BY <2>1, SMT
    <3> QED BY <3>1, <3>2, <3>3
  <2> QED BY <1>1, <2>5, LastCheck
<1>2. IInv => OtherCodesRefused
    BY <1>1 DEF OtherCodesRefused
<1> QED BY <1>2, Invariant, PTL
=============================================================================
