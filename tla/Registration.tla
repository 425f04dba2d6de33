---------------------------- MODULE Registration ----------------------------
(***************************************************************************)
(* The register command, from its handler to the INSERT into users, and    *)
(* the way login finds the account (internal/handler/auth/handler.go,      *)
(* internal/service/auth/service.go, internal/repository/user/postgres.go).*)
(* The name is looked up before the password is hashed and inserted after  *)
(* it, so only the unique index decides between two terminals.  A terminal *)
(* that loses its connection may leave an INSERT behind which PostgreSQL   *)
(* executes later.                                                         *)
(***************************************************************************)
EXTENDS Naturals

CONSTANTS
    Terminals,
    Typed,          \* what users type at the prompt for the name
    Names,          \* names after normalization
    Normalized,     \* Normalized[i]: i trimmed and in lower case
    NameLength,     \* length of a name, all of whose characters are bytes when it is safe
    SafeNames,      \* names that match safeUsername
    Passwords,
    PasswordLength, \* in bytes
    Utf8Passwords,  \* passwords that are valid UTF-8
    Ids,            \* ids of rows
    MinName, MaxName, MinPassword, MaxPassword,     \* RegistrationPolicy
    Failing,        \* what may fail: a subset of {"postgres", "crypto"}
    NoName, NoPassword, NoId

ASSUME DataAssumption ==
    /\ Normalized \in [Typed -> Names]
    /\ NameLength \in [Names -> Nat]
    /\ PasswordLength \in [Passwords -> Nat]
ASSUME NoneAssumption == NoName \notin Names /\ NoPassword \notin Passwords /\ NoId \notin Ids

VARIABLES
    users,      \* rows of the table users: id, name, and the one password its hash matches
    inflight,   \* rows whose INSERT was sent by a terminal that did not wait for the answer
    pc,         \* the call each terminal is about to make
    frame,      \* the locals of its command
    answer,     \* what its last command printed
    chosen,     \* history: names and passwords submitted with a matching confirmation
    told        \* history: names and passwords reported as registered

storeVars == <<users, inflight>>
dialogVars == <<pc, frame, answer>>
regVars == <<storeVars, dialogVars, chosen, told>>

NoFrame == [call |-> "none", typed |-> NoName, name |-> NoName,
            password |-> NoPassword, id |-> NoId]

RegInit == /\ users = {}
           /\ inflight = {}
           /\ pc = [t \in Terminals |-> "ready"]
           /\ frame = [t \in Terminals |-> NoFrame]
           /\ answer = [t \in Terminals |-> "none"]
           /\ chosen = {}
           /\ told = {}

Fails(part) == part \in Failing

Named(n) == {row \in users : row.name = n}

ValidUsername(n) == NameLength[n] \in MinName .. MaxName /\ n \in SafeNames

ValidPassword(p) == PasswordLength[p] \in MinPassword .. MaxPassword /\ p \in Utf8Passwords

\* bcrypt refuses to hash more than 72 bytes.
Hashable(p) == PasswordLength[p] <= 72

\* username VARCHAR(50)
FitsColumn(n) == NameLength[n] <= 50

Goto(t, label, f) == /\ pc' = [pc EXCEPT ![t] = label]
                     /\ frame' = [frame EXCEPT ![t] = f]
                     /\ answer' = [answer EXCEPT ![t] = "none"]

\* The command prints a and returns to the shell.
Say(t, a) == /\ pc' = [pc EXCEPT ![t] = "ready"]
             /\ frame' = [frame EXCEPT ![t] = NoFrame]
             /\ answer' = [answer EXCEPT ![t] = a]

\* normalizeUsername; the raw input is kept for the properties only.
Frame(call, i, p) == [NoFrame EXCEPT !.call = call, !.typed = i,
                                     !.name = Normalized[i], !.password = p]

\* register with everything typed: the checks of Register that need no store.
Register(t, i, p, confirmation) ==
    /\ pc[t] = "ready"
    /\ IF ValidUsername(Normalized[i]) /\ ValidPassword(p) /\ p = confirmation
       THEN /\ Goto(t, "FindByUsername", Frame("register", i, p))
            /\ chosen' = chosen \cup {<<Normalized[i], p>>}
       ELSE Say(t, "rejected") /\ UNCHANGED chosen
    /\ UNCHANGED <<storeVars, told>>

\* Mutant: the name is used as it was typed.
LoginAsTyped(t, i, p) ==
    /\ pc[t] = "ready"
    /\ Goto(t, "FindByUsername", [Frame("login", i, p) EXCEPT !.name = i])
    /\ UNCHANGED <<storeVars, chosen, told>>

\* login with name and password typed.
Login(t, i, p) ==
    /\ pc[t] = "ready"
    /\ Goto(t, "FindByUsername", Frame("login", i, p))
    /\ UNCHANGED <<storeVars, chosen, told>>

\* Register up to the hash: the name is free at this moment.
CheckAvailability(t) ==
    LET f == frame[t] IN
    /\ pc[t] = "FindByUsername" /\ f.call = "register"
    /\ \/ Named(f.name) # {} /\ Say(t, "exists")
       \/ Named(f.name) = {} /\ Goto(t, "Hash", f)
       \/ Fails("postgres") /\ Say(t, "failed")
    /\ UNCHANGED <<storeVars, chosen, told>>

\* uuid.NewString: an id no other row has or will have.
FreshIds == Ids \ ({row.id : row \in users \cup inflight} \cup {frame[t].id : t \in Terminals})

\* The hash may fail; otherwise the id is drawn and the row built.
HashPassword(t) ==
    LET f == frame[t] IN
    /\ pc[t] = "Hash"
    /\ \/ Hashable(f.password) /\ \E id \in FreshIds : Goto(t, "Create", [f EXCEPT !.id = id])
       \/ /\ ~Hashable(f.password) \/ Fails("crypto")
          /\ Say(t, "failed")
    /\ UNCHANGED <<storeVars, chosen, told>>

NewRow(f) == [id |-> f.id, name |-> f.name, password |-> f.password]

\* Mutant: no unique index.
InsertAnyway(row) == FitsColumn(row.name) /\ users' = users \cup {row}

\* The INSERT succeeds: the name fits the column and the unique index allows it.
Insert(row) == /\ FitsColumn(row.name)
               /\ Named(row.name) = {}
               /\ users' = users \cup {row}

\* Mutant: a conflict is taken for the success of an earlier try.
CreateIdempotent(t) ==
    LET row == NewRow(frame[t]) IN
    /\ pc[t] = "Create"
    /\ Insert(row) \/ (Named(row.name) # {} /\ UNCHANGED users)
    /\ Say(t, "registered")
    /\ told' = told \cup {<<row.name, row.password>>}
    /\ UNCHANGED <<inflight, chosen>>

(***************************************************************************)
(* users.Create.  A unique violation reads as a name that exists, every    *)
(* other error as a failure.  When the connection is lost, the INSERT was  *)
(* executed, will be, or never is.                                         *)
(***************************************************************************)
Create(t) ==
    LET row == NewRow(frame[t]) IN
    /\ pc[t] = "Create"
    /\ \/ /\ Insert(row)
          /\ Say(t, "registered")
          /\ told' = told \cup {<<row.name, row.password>>}
          /\ UNCHANGED inflight
       \/ /\ FitsColumn(row.name) /\ Named(row.name) # {}
          /\ Say(t, "exists")
          /\ UNCHANGED <<storeVars, told>>
       \/ /\ ~FitsColumn(row.name)
          /\ Say(t, "failed")
          /\ UNCHANGED <<storeVars, told>>
       \/ /\ Fails("postgres")
          /\ Say(t, "failed")
          /\ inflight' = inflight \cup {row}
          /\ UNCHANGED <<users, told>>
    /\ UNCHANGED chosen

\* PostgreSQL executes an INSERT nobody waits for, or never does.
LateInsert(row) ==
    /\ row \in inflight
    /\ inflight' = inflight \ {row}
    /\ Insert(row) \/ UNCHANGED users
    /\ UNCHANGED <<dialogVars, chosen, told>>

(***************************************************************************)
(* LoginWithPassword as far as the account is concerned: the row is found  *)
(* and the password compared with its hash.  Lockout and the second stage  *)
(* are in AuthService.                                                     *)
(***************************************************************************)
CheckPassword(t) ==
    LET f == frame[t] IN
    /\ pc[t] = "FindByUsername" /\ f.call = "login"
    /\ \/ \E row \in Named(f.name) :
             Say(t, IF row.password = f.password THEN "accepted" ELSE "refused")
       \/ Named(f.name) = {} /\ Say(t, "refused")
       \/ Fails("postgres") /\ Say(t, "failed")
    /\ UNCHANGED <<storeVars, chosen, told>>

\* The process ends during a command; an INSERT it was about to send may be on its way.
Stop(t) ==
    /\ pc[t] # "ready"
    /\ Say(t, "none")
    /\ \/ UNCHANGED inflight
       \/ pc[t] = "Create" /\ inflight' = inflight \cup {NewRow(frame[t])}
    /\ UNCHANGED <<users, chosen, told>>

RegStep(t) ==
    \/ \E i \in Typed, p, confirmation \in Passwords : Register(t, i, p, confirmation)
    \/ \E i \in Typed, p \in Passwords : Login(t, i, p)
    \/ CheckAvailability(t) \/ HashPassword(t) \/ Create(t)
    \/ CheckPassword(t)
    \/ Stop(t)

RegNext == \/ \E t \in Terminals : RegStep(t)
           \/ \E row \in inflight : LateInsert(row)

RegSpec == RegInit /\ [][RegNext]_regVars
-----------------------------------------------------------------------------
Rows == [id : Ids, name : Names, password : Passwords]

Frames == [call : {"register", "login"}, typed : Typed, name : Names,
           password : Passwords, id : Ids \cup {NoId}]

Answers == {"none", "rejected", "registered", "exists", "accepted", "refused", "failed"}

\* Types of the table, the terminals and the history; a command in progress has its inputs.
RegTypeOK ==
    /\ users \subseteq Rows
    /\ inflight \subseteq Rows
    /\ pc \in [Terminals -> {"ready", "FindByUsername", "Hash", "Create"}]
    /\ frame \in [Terminals -> Frames \cup {NoFrame}]
    /\ answer \in [Terminals -> Answers]
    /\ chosen \subseteq Names \X Passwords
    /\ told \subseteq Names \X Passwords
    /\ \A t \in Terminals : /\ pc[t] # "ready" => frame[t] \in Frames
                            /\ pc[t] = "Create" => frame[t].id \in Ids

(***************************************************************************)
(* However many terminals found a name free, and however late an INSERT    *)
(* arrives, a name has one row.                                            *)
(***************************************************************************)
OneAccountPerName ==
    \A r, s \in users : r.name = s.name => r = s

(***************************************************************************)
(* Whoever was told "User registered successfully" is never refused with   *)
(* the password registered, however the name is spelled, whatever other    *)
(* terminals registered since.                                             *)
(***************************************************************************)
OwnPasswordOpens ==
    [][\A t \in Terminals :
          answer'[t] = "refused" /\ answer[t] # "refused" =>
              <<Normalized[frame[t].typed], frame[t].password>> \notin told]_regVars

\* The table as a map from names to passwords.
Accounts == [n \in Names |-> IF Named(n) = {} THEN NoPassword
                             ELSE (CHOOSE row \in Named(n) : TRUE).password]

\* What a terminal has submitted and was not answered yet.
Request(f) == [kind |-> f.call, name |-> Normalized[f.typed], password |-> f.password]

NoRequest == [kind |-> "none", name |-> NoName, password |-> NoPassword]

Requests == [t \in Terminals |-> IF pc[t] = "ready" THEN NoRequest ELSE Request(frame[t])]

AR == INSTANCE AccountRegistry WITH password <- Accounts, request <- Requests

(***************************************************************************)
(* Registration and login answer as AccountRegistry promises.              *)
(***************************************************************************)
RegistryImplemented == AR!ARSpec

(***************************************************************************)
(* The help text promises usernames of MinName to MaxName characters: with *)
(* stores that do not fail, no registration of a valid name fails.         *)
(***************************************************************************)
ValidNamesRegister == \A t \in Terminals : answer[t] # "failed"
=============================================================================
