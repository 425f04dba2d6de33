------------------------ MODULE Registration_proofs ------------------------
(***************************************************************************)
(* Proofs about registration, for any number of terminals and any lengths  *)
(* and limits: a name has one row, whoever was told a name is registered   *)
(* gets in with its password, and the whole implements AccountRegistry.    *)
(***************************************************************************)
EXTENDS Registration, TLAPS

USE DataAssumption, NoneAssumption

\* A command in progress keeps its normalized name, registers only what was
\* chosen, and has printed nothing yet.
CommandSound(t) ==
    pc[t] # "ready" =>
        /\ frame[t].name = Normalized[frame[t].typed]
        /\ frame[t].call = "register" => <<frame[t].name, frame[t].password>> \in chosen
        /\ pc[t] # "FindByUsername" => frame[t].call = "register"
        /\ answer[t] = "none"

\* Rows, also those still on their way, were chosen; who was told has a row.
RowsSound ==
    /\ \A row \in users \cup inflight : <<row.name, row.password>> \in chosen
    /\ \A n \in Names, p \in Passwords :
           <<n, p>> \in told => \E row \in users : row.name = n /\ row.password = p

IInv == /\ RegTypeOK
        /\ OneAccountPerName
        /\ RowsSound
        /\ \A t \in Terminals : CommandSound(t)

\* A terminal that goes on with a well-formed frame, or returns to its prompt,
\* leaves pc, frame and answer as they should be.
DialogOK ==
    /\ pc \in [Terminals -> {"ready", "FindByUsername", "Hash", "Create"}]
    /\ frame \in [Terminals -> Frames \cup {NoFrame}]
    /\ answer \in [Terminals -> Answers]
    /\ \A t \in Terminals : /\ pc[t] # "ready" => frame[t] \in Frames
                            /\ pc[t] = "Create" => frame[t].id \in Ids
    /\ \A t \in Terminals : CommandSound(t)

LEMMA GotoKeeps ==
    ASSUME DialogOK, NEW t \in Terminals, NEW l \in {"FindByUsername", "Hash", "Create"},
           NEW f \in Frames, Goto(t, l, f), chosen \subseteq chosen',
           f.name = Normalized[f.typed],
           f.call = "register" => <<f.name, f.password>> \in chosen',
           l # "FindByUsername" => f.call = "register",
           l = "Create" => f.id \in Ids
    PROVE  DialogOK'
<1> USE DEF DialogOK
<1>1. /\ pc' \in [Terminals -> {"ready", "FindByUsername", "Hash", "Create"}]
      /\ frame' \in [Terminals -> Frames \cup {NoFrame}]
    BY DEF Goto
<1>2. answer' \in [Terminals -> Answers]
    BY DEF Goto, Answers
<1>3. pc'[t] = l /\ frame'[t] = f /\ answer'[t] = "none"
    BY DEF Goto
<1>4. \A o \in Terminals \ {t} :
         pc'[o] = pc[o] /\ frame'[o] = frame[o] /\ answer'[o] = answer[o]
    BY DEF Goto
<1>5. ASSUME NEW o \in Terminals
      PROVE  /\ pc'[o] # "ready" => frame'[o] \in Frames
             /\ pc'[o] = "Create" => frame'[o].id \in Ids
    BY <1>3, <1>4
<1>6. ASSUME NEW o \in Terminals
      PROVE  CommandSound(o)'
    BY <1>3, <1>4 DEF CommandSound
<1> QED BY <1>1, <1>2, <1>5, <1>6

LEMMA SayKeeps ==
    ASSUME DialogOK, NEW t \in Terminals, NEW a \in Answers, Say(t, a), chosen \subseteq chosen'
    PROVE  DialogOK'
<1> USE DEF DialogOK
<1>1. /\ pc' \in [Terminals -> {"ready", "FindByUsername", "Hash", "Create"}]
      /\ frame' \in [Terminals -> Frames \cup {NoFrame}]
      /\ answer' \in [Terminals -> Answers]
    BY DEF Say
<1>2. pc'[t] = "ready"
    BY DEF Say
<1>3. \A o \in Terminals \ {t} :
         pc'[o] = pc[o] /\ frame'[o] = frame[o] /\ answer'[o] = answer[o]
    BY DEF Say
<1>4. ASSUME NEW o \in Terminals
      PROVE  /\ pc'[o] # "ready" => frame'[o] \in Frames
             /\ pc'[o] = "Create" => frame'[o].id \in Ids
    BY <1>2, <1>3
<1>5. ASSUME NEW o \in Terminals
      PROVE  CommandSound(o)'
    BY <1>2, <1>3 DEF CommandSound
<1> QED BY <1>1, <1>4, <1>5

\* What the invariant says of a terminal about to make the call l.
LEMMA CommandFacts ==
    ASSUME IInv, NEW t \in Terminals, pc[t] # "ready"
    PROVE  /\ DialogOK
           /\ frame[t] \in Frames
           /\ frame[t].name \in Names /\ frame[t].password \in Passwords
           /\ frame[t].name = Normalized[frame[t].typed]
           /\ frame[t].call = "register" => <<frame[t].name, frame[t].password>> \in chosen
           /\ pc[t] # "FindByUsername" => frame[t].call = "register"
           /\ pc[t] = "Create" => frame[t].id \in Ids
           /\ answer[t] = "none"
<1>1. DialogOK
    BY DEF IInv, RegTypeOK, DialogOK
<1>2. frame[t] \in Frames
    BY DEF IInv, RegTypeOK
<1> QED BY <1>1, <1>2 DEF IInv, RegTypeOK, CommandSound, Frames

-----------------------------------------------------------------------------
\* A frame made from typed input is well formed.
LEMMA FrameOK ==
    ASSUME NEW call \in {"register", "login"}, NEW i \in Typed, NEW p \in Passwords
    PROVE  /\ Frame(call, i, p) \in Frames
           /\ Frame(call, i, p).call = call
           /\ Frame(call, i, p).typed = i
           /\ Frame(call, i, p).name = Normalized[i]
           /\ Frame(call, i, p).password = p
  BY DEF Frame, Frames, NoFrame

\* The row Create sends is of the right types and was chosen.
LEMMA NewRowOK ==
    ASSUME IInv, NEW t \in Terminals, pc[t] = "Create"
    PROVE  /\ NewRow(frame[t]) \in Rows
           /\ NewRow(frame[t]).name = frame[t].name
           /\ NewRow(frame[t]).password = frame[t].password
           /\ <<NewRow(frame[t]).name, NewRow(frame[t]).password>> \in chosen
  BY CommandFacts DEF NewRow, Rows

\* Nothing but the dialog, and what was chosen, changes.
LEMMA DialogOnly ==
    ASSUME IInv, DialogOK', UNCHANGED <<storeVars, told>>,
           chosen \subseteq chosen', chosen' \subseteq Names \X Passwords
    PROVE  IInv'
<1>1. RegTypeOK'
    BY DEF DialogOK, IInv, RegTypeOK, storeVars
<1>2. OneAccountPerName'
    BY DEF IInv, OneAccountPerName, storeVars
<1>3. RowsSound'
    BY DEF IInv, RowsSound, storeVars
<1> QED BY <1>1, <1>2, <1>3 DEF IInv, DialogOK

\* The unique index keeps one row per name, wherever the INSERT comes from.
LEMMA InsertKeeps ==
    ASSUME IInv, DialogOK', NEW row \in Rows, Insert(row),
           <<row.name, row.password>> \in chosen, UNCHANGED chosen,
           inflight' \subseteq inflight,
           told' \subseteq told \cup {<<row.name, row.password>>}
    PROVE  IInv'
<1>1. RegTypeOK'
  <2>1. users' \subseteq Rows /\ inflight' \subseteq Rows
      BY DEF Insert, IInv, RegTypeOK
  <2>2. told' \subseteq Names \X Passwords
      BY DEF Rows, IInv, RegTypeOK
  <2> QED BY <2>1, <2>2 DEF DialogOK, IInv, RegTypeOK
<1>2. OneAccountPerName'
    BY DEF Insert, Named, IInv, OneAccountPerName
<1>3. RowsSound'
    BY DEF Insert, IInv, RowsSound
<1> QED BY <1>1, <1>2, <1>3 DEF IInv, DialogOK

\* An INSERT left behind carries a row that was chosen.
LEMMA LeaveBehind ==
    ASSUME IInv, DialogOK', NEW row \in Rows, inflight' = inflight \cup {row},
           <<row.name, row.password>> \in chosen, UNCHANGED <<users, chosen, told>>
    PROVE  IInv'
<1>1. RegTypeOK'
    BY DEF DialogOK, IInv, RegTypeOK
<1>2. OneAccountPerName' /\ RowsSound'
    BY DEF IInv, OneAccountPerName, RowsSound
<1> QED BY <1>1, <1>2 DEF IInv, DialogOK

-----------------------------------------------------------------------------
\* Typing a registration or a login, whatever was typed.
LEMMA SubmitStep ==
    ASSUME IInv, NEW t \in Terminals, NEW i \in Typed, NEW p \in Passwords,
           \/ \E confirmation \in Passwords : Register(t, i, p, confirmation)
           \/ Login(t, i, p)
    PROVE  IInv'
<1>1. DialogOK
    BY DEF IInv, RegTypeOK, DialogOK
<1>2. ASSUME NEW confirmation \in Passwords, Register(t, i, p, confirmation)
      PROVE  IInv'
  <2>1. CASE Say(t, "rejected") /\ UNCHANGED chosen
    <3>1. DialogOK'
        BY <1>1, <2>1, SayKeeps DEF Answers
    <3> QED BY <1>2, <2>1, <3>1, DialogOnly DEF Register, IInv, RegTypeOK
  <2>2. CASE /\ Goto(t, "FindByUsername", Frame("register", i, p))
             /\ chosen' = chosen \cup {<<Normalized[i], p>>}
    <3> DEFINE f == Frame("register", i, p)
    <3>1. /\ f \in Frames /\ f.call = "register"
          /\ f.name = Normalized[f.typed] /\ <<f.name, f.password>> \in chosen'
        BY <2>2, FrameOK
    <3>2. Goto(t, "FindByUsername", f)
        BY <2>2
    <3> HIDE DEF f
    <3>3. DialogOK'
        BY <1>1, <2>2, <3>1, <3>2, GotoKeeps
    <3> QED BY <1>2, <2>2, <3>3, DialogOnly DEF Register, IInv, RegTypeOK
  <2> QED BY <1>2, <2>1, <2>2 DEF Register
<1>3. CASE Login(t, i, p)
  <2> DEFINE f == Frame("login", i, p)
  <2>1. /\ f \in Frames /\ f.call = "login" /\ f.name = Normalized[f.typed]
      BY FrameOK
  <2>2. UNCHANGED chosen /\ Goto(t, "FindByUsername", f)
      BY <1>3 DEF Login
  <2> HIDE DEF f
  <2>3. DialogOK'
      BY <1>1, <2>1, <2>2, GotoKeeps
  <2> QED BY <1>3, <2>2, <2>3, DialogOnly DEF Login, IInv, RegTypeOK
<1> QED BY <1>2, <1>3

\* The calls between the prompt and the INSERT, and the end of a process.
LEMMA CommandStep ==
    ASSUME IInv, NEW t \in Terminals,
           CheckAvailability(t) \/ HashPassword(t) \/ CheckPassword(t) \/ Stop(t)
    PROVE  IInv'
<1>0. /\ pc[t] # "ready" /\ DialogOK /\ UNCHANGED chosen
      /\ chosen \subseteq Names \X Passwords
    BY CommandFacts
       DEF CheckAvailability, HashPassword, CheckPassword, Stop, IInv, RegTypeOK, DialogOK
<1>1. ASSUME NEW a \in Answers, Say(t, a)
      PROVE  DialogOK'
    BY <1>0, <1>1, SayKeeps
<1>2. CASE CheckAvailability(t)
  <2>1. CASE Goto(t, "Hash", frame[t])
    <3>1. frame[t].call = "register"
        BY <1>2 DEF CheckAvailability
    <3>2. DialogOK'
        BY <1>0, <2>1, <3>1, CommandFacts, GotoKeeps
    <3> QED BY <1>0, <1>2, <3>2, DialogOnly DEF CheckAvailability
  <2>2. CASE \E a \in Answers : Say(t, a)
      BY <1>0, <1>1, <1>2, <2>2, DialogOnly DEF CheckAvailability
  <2> QED BY <1>2, <2>1, <2>2 DEF CheckAvailability, Answers
<1>3. CASE HashPassword(t)
  <2>1. ASSUME NEW id \in FreshIds, Goto(t, "Create", [frame[t] EXCEPT !.id = id])
        PROVE  IInv'
    <3> DEFINE f == [frame[t] EXCEPT !.id = id]
    <3>1. /\ f \in Frames /\ f.id \in Ids /\ f.name = frame[t].name
          /\ f.typed = frame[t].typed /\ f.call = frame[t].call
          /\ f.password = frame[t].password
      <4>1. id \in Ids
          BY DEF FreshIds
      <4>2. frame[t] \in Frames
          BY <1>0, CommandFacts
      <4> QED BY <4>1, <4>2 DEF Frames
    <3>2. f.call = "register"
        BY <1>0, <1>3, <3>1, CommandFacts DEF HashPassword
    <3>3. Goto(t, "Create", f)
        BY <2>1
    <3>4. f.name = Normalized[f.typed] /\ <<f.name, f.password>> \in chosen
        BY <1>0, <3>1, <3>2, CommandFacts
    <3> HIDE DEF f
    <3>5. DialogOK'
        BY <1>0, <3>1, <3>2, <3>3, <3>4, GotoKeeps
    <3> QED BY <1>0, <1>3, <3>5, DialogOnly DEF HashPassword
  <2>2. CASE \E a \in Answers : Say(t, a)
      BY <1>0, <1>1, <1>3, <2>2, DialogOnly DEF HashPassword
  <2> QED BY <1>3, <2>1, <2>2 DEF HashPassword, Answers
<1>4. CASE CheckPassword(t)
  <2>1. \E a \in Answers : Say(t, a)
      BY <1>4 DEF CheckPassword, Answers
  <2> QED BY <1>0, <1>1, <1>4, <2>1, DialogOnly DEF CheckPassword
<1>5. CASE Stop(t)
  <2>1. DialogOK'
      BY <1>1, <1>5 DEF Stop, Answers
  <2>2. CASE UNCHANGED inflight
      BY <1>0, <1>5, <2>1, <2>2, DialogOnly DEF Stop, storeVars
  <2>3. CASE pc[t] = "Create" /\ inflight' = inflight \cup {NewRow(frame[t])}
      BY <1>0, <1>5, <2>1, <2>3, NewRowOK, LeaveBehind DEF Stop
  <2> QED BY <1>5, <2>2, <2>3 DEF Stop
<1> QED BY <1>2, <1>3, <1>4, <1>5

\* Every outcome of users.Create.
LEMMA CreateStep ==
    ASSUME IInv, NEW t \in Terminals, Create(t)
    PROVE  IInv'
<1> DEFINE row == NewRow(frame[t])
<1>0. /\ row \in Rows /\ <<row.name, row.password>> \in chosen
      /\ UNCHANGED chosen /\ chosen \subseteq Names \X Passwords
    BY NewRowOK DEF Create, IInv, RegTypeOK
<1>1. \E a \in Answers : Say(t, a)
    BY DEF Create, Answers
<1>2. DialogOK'
    BY <1>0, <1>1, SayKeeps DEF IInv, RegTypeOK, DialogOK
<1>3. CASE Insert(row) /\ told' = told \cup {<<row.name, row.password>>} /\ UNCHANGED inflight
  <2> HIDE DEF row
  <2> QED BY <1>0, <1>2, <1>3, InsertKeeps
<1>4. CASE UNCHANGED <<storeVars, told>>
    BY <1>0, <1>2, <1>4, DialogOnly
<1>5. CASE inflight' = inflight \cup {row} /\ UNCHANGED <<users, told>>
  <2> HIDE DEF row
  <2> QED BY <1>0, <1>2, <1>5, LeaveBehind
<1> QED BY <1>3, <1>4, <1>5 DEF Create

\* PostgreSQL executes what a terminal left behind.
LEMMA LateStep ==
    ASSUME IInv, NEW row \in inflight, LateInsert(row)
    PROVE  IInv'
<1>1. DialogOK'
    BY DEF LateInsert, dialogVars, IInv, RegTypeOK, DialogOK, CommandSound
<1>2. row \in Rows /\ <<row.name, row.password>> \in chosen
    BY DEF IInv, RegTypeOK, RowsSound
<1>3. CASE Insert(row)
    BY <1>1, <1>2, <1>3, InsertKeeps DEF LateInsert
<1>4. CASE UNCHANGED users
  <2>1. RegTypeOK'
      BY <1>1, <1>4 DEF LateInsert, IInv, RegTypeOK, DialogOK
  <2>2. OneAccountPerName' /\ RowsSound'
      BY <1>4 DEF LateInsert, IInv, OneAccountPerName, RowsSound
  <2> QED BY <1>1, <2>1, <2>2 DEF IInv, DialogOK
<1> QED BY <1>3, <1>4 DEF LateInsert

LEMMA InvStep == IInv /\ [RegNext]_regVars => IInv'
<1> SUFFICES ASSUME IInv, [RegNext]_regVars
             PROVE  IInv'
    OBVIOUS
<1>1. ASSUME NEW t \in Terminals, RegStep(t)
      PROVE  IInv'
    BY <1>1, SubmitStep, CommandStep, CreateStep DEF RegStep
<1>2. CASE UNCHANGED regVars
    BY <1>2 DEF regVars, storeVars, dialogVars, IInv, RegTypeOK, OneAccountPerName,
                RowsSound, CommandSound
<1> QED BY <1>1, <1>2, LateStep DEF RegNext

LEMMA InvInit == RegInit => IInv
  BY DEF RegInit, IInv, RegTypeOK, OneAccountPerName, RowsSound, CommandSound, Answers

\* The inductive invariant of registration.
THEOREM Invariant == RegSpec => []IInv
  BY InvInit, InvStep, PTL DEF RegSpec

\* Types of the table, of the commands in progress and of the history.
THEOREM TypeCorrect == RegSpec => []RegTypeOK
  BY Invariant, PTL DEF IInv

\* However INSERTs of several terminals, or of terminals that are gone,
\* interleave, a name has one row.
THEOREM NamesUnique == RegSpec => []OneAccountPerName
  BY Invariant, PTL DEF IInv

-----------------------------------------------------------------------------
\* A login is refused only by the row of its name, or because there is none.
LEMMA RefusedOnlyByRow ==
    ASSUME IInv, [RegNext]_regVars, NEW t \in Terminals,
           answer'[t] = "refused", answer[t] # "refused"
    PROVE  <<Normalized[frame[t].typed], frame[t].password>> \notin told
<1>1. ASSUME NEW o \in Terminals, NEW a, Say(o, a) \/ \E l, f : Goto(o, l, f) /\ a = "none"
      PROVE  o = t /\ a = "refused"
    BY <1>1 DEF Say, Goto, IInv, RegTypeOK
<1>2. CheckPassword(t)
  <2>1. ASSUME NEW o \in Terminals, RegStep(o)
        PROVE  CheckPassword(t)
    <3>1. ~ \E i \in Typed, p, confirmation \in Passwords : Register(o, i, p, confirmation)
        BY <1>1 DEF Register
    <3>2. ~ \E i \in Typed, p \in Passwords : Login(o, i, p)
        BY <1>1 DEF Login
    <3>3. ~CheckAvailability(o) /\ ~HashPassword(o)
      <4>1. \A l, f : ~Goto(o, l, f)
          BY <1>1
      <4>2. ~Say(o, "exists") /\ ~Say(o, "failed")
          BY <1>1
      <4> QED BY <4>1, <4>2, Zenon DEF CheckAvailability, HashPassword
    <3>4. ~Create(o) /\ ~Stop(o)
        BY <1>1 DEF Create, Stop
    <3>5. CheckPassword(o)
        BY <2>1, <3>1, <3>2, <3>3, <3>4 DEF RegStep
    <3>6. o = t
        BY <1>1, <3>5 DEF CheckPassword
    <3> QED BY <3>5, <3>6
  <2>2. ~ \E row \in inflight : LateInsert(row)
      BY DEF LateInsert, dialogVars
  <2>3. ~ UNCHANGED regVars
      BY DEF regVars, dialogVars
  <2> QED BY <2>1, <2>2, <2>3 DEF RegNext
<1>3. /\ frame[t].name = Normalized[frame[t].typed]
      /\ frame[t].name \in Names /\ frame[t].password \in Passwords
    BY <1>2, CommandFacts DEF CheckPassword
<1>4. \/ Named(frame[t].name) = {}
      \/ \E row \in Named(frame[t].name) : row.password # frame[t].password
    BY <1>1, <1>2 DEF CheckPassword
<1> QED BY <1>3, <1>4 DEF Named, IInv, RowsSound, OneAccountPerName

\* Who was told a name is registered is never refused with its password.
THEOREM RegisteredGetIn == RegSpec => OwnPasswordOpens
<1>1. IInv /\ [RegNext]_regVars =>
        [\A t \in Terminals :
            answer'[t] = "refused" /\ answer[t] # "refused" =>
                <<Normalized[frame[t].typed], frame[t].password>> \notin told]_regVars
    BY RefusedOnlyByRow
<1> QED BY <1>1, Invariant, PTL DEF RegSpec, OwnPasswordOpens

-----------------------------------------------------------------------------
(***************************************************************************)
(* Registration implements AccountRegistry.  Requests change only when a   *)
(* command starts or ends, the map only when a row is inserted.            *)
(***************************************************************************)
LEMMA RequestOnGoto ==
    ASSUME IInv, NEW t \in Terminals, NEW l \in {"FindByUsername", "Hash", "Create"},
           NEW f, Goto(t, l, f)
    PROVE  AR!Dialog(t, "none", Request(f))
<1>1. answer' = [answer EXCEPT ![t] = "none"]
    BY DEF Goto
<1>2. Requests' = [Requests EXCEPT ![t] = Request(f)]
    BY DEF Goto, Requests, Request, IInv, RegTypeOK
<1> QED BY <1>1, <1>2 DEF AR!Dialog

LEMMA RequestOnSay ==
    ASSUME IInv, NEW t \in Terminals, NEW a, Say(t, a)
    PROVE  AR!Dialog(t, a, AR!NoRequest)
<1>1. answer' = [answer EXCEPT ![t] = a]
    BY DEF Say
<1>2. Requests' = [Requests EXCEPT ![t] = NoRequest]
    BY DEF Say, Requests, Request, IInv, RegTypeOK
<1> QED BY <1>1, <1>2 DEF AR!Dialog, AR!NoRequest, NoRequest

LEMMA SameRequest ==
    ASSUME IInv, NEW t \in Terminals, pc[t] # "ready", NEW l \in {"Hash", "Create"},
           NEW f, Request(f) = Request(frame[t]), Goto(t, l, f)
    PROVE  UNCHANGED <<Requests, answer>>
<1>1. Requests' = Requests
    BY DEF Goto, Requests, IInv, RegTypeOK
<1>2. answer' = answer
  <2>1. answer[t] = "none" /\ answer \in [Terminals -> Answers]
      BY CommandFacts DEF IInv, RegTypeOK
  <2> QED BY <2>1 DEF Goto
<1> QED BY <1>1, <1>2

\* With one row per name the map says what the rows say.
LEMMA AccountOf ==
    ASSUME IInv
    PROVE  /\ \A row \in users : Accounts[row.name] = row.password
           /\ \A n \in Names : Named(n) = {} => Accounts[n] = NoPassword
           /\ \A n \in Names : Named(n) # {} => Accounts[n] # NoPassword
<1>1. ASSUME NEW row \in users
      PROVE  Accounts[row.name] = row.password
  <2>1. row.name \in Names /\ Named(row.name) = {row}
      BY DEF IInv, RegTypeOK, Rows, OneAccountPerName, Named
  <2> QED BY <2>1 DEF Accounts
<1>2. \A n \in Names : Named(n) = {} => Accounts[n] = NoPassword
    BY DEF Accounts
<1>3. ASSUME NEW n \in Names, Named(n) # {}
      PROVE  Accounts[n] # NoPassword
  <2>1. PICK row \in users : row.name = n
      BY <1>3 DEF Named
  <2> QED BY <1>1, <2>1 DEF IInv, RegTypeOK, Rows
<1> QED BY <1>1, <1>2, <1>3

\* An INSERT that succeeds claims the name in the map.
LEMMA InsertClaims ==
    ASSUME IInv, IInv', NEW row \in Rows, Insert(row),
           <<row.name, row.password>> \in chosen, UNCHANGED chosen
    PROVE  AR!Claim(row.name, row.password)
<1>1. row.name \in Names /\ Accounts[row.name] = NoPassword
    BY AccountOf DEF Rows, Insert
<1>2. ASSUME NEW n \in Names, n # row.name
      PROVE  Accounts'[n] = Accounts[n]
  <2>1. Named(n)' = Named(n)
      BY <1>2 DEF Insert, Named
  <2> QED BY <2>1 DEF Accounts
<1>3. Accounts'[row.name] = row.password
  <2>1. Named(row.name)' = {row}
      BY DEF Insert, Named
  <2> QED BY <1>1, <2>1 DEF Accounts
<1>4. Accounts' = [Accounts EXCEPT ![row.name] = row.password]
    BY <1>1, <1>2, <1>3 DEF Accounts
<1> QED BY <1>1, <1>4 DEF AR!Claim

LEMMA SameAccounts == UNCHANGED users => UNCHANGED Accounts
  BY DEF Accounts, Named

\* The answers of Register that come with no claim, and those of login, are true.
LEMMA AnswerStep ==
    ASSUME IInv, NEW t \in Terminals, pc[t] # "ready", UNCHANGED <<users, chosen>>,
           NEW a \in {"exists", "accepted", "refused", "failed"}, Say(t, a),
           a = "exists" => frame[t].call = "register" /\ Named(frame[t].name) # {},
           a = "accepted" => /\ frame[t].call = "login"
                             /\ \E row \in Named(frame[t].name) : row.password = frame[t].password,
           a = "refused" => /\ frame[t].call = "login"
                            /\ \A row \in Named(frame[t].name) : row.password # frame[t].password
    PROVE  AR!Answer(t, a)
<1> DEFINE n == frame[t].name
           p == frame[t].password
<1>1. n \in Names /\ p \in Passwords /\ frame[t].call \in {"register", "login"}
    BY CommandFacts DEF Frames
<1>2. Requests[t] = [kind |-> frame[t].call, name |-> n, password |-> p]
    BY CommandFacts DEF Requests, Request
<1>3. Named(n) # {} => /\ Accounts[n] # NoPassword
                       /\ \E row \in Named(n) : Accounts[n] = row.password
    BY <1>1, AccountOf DEF Named
<1>4. \A row \in Named(n) : Accounts[n] = row.password
    BY AccountOf DEF Named
<1>5. Named(n) = {} => Accounts[n] = NoPassword
    BY <1>1, AccountOf
<1>6. AR!Truthful(Requests[t], a, Accounts)
    BY <1>1, <1>2, <1>3, <1>4, <1>5 DEF AR!Truthful
<1>7. UNCHANGED <<Accounts, chosen>>
    BY SameAccounts
<1> QED BY <1>6, <1>7, RequestOnSay DEF AR!Answer

\* Typing a name and a password is a request, or is rejected.
LEMMA SubmitImplements ==
    ASSUME IInv, NEW t \in Terminals, NEW i \in Typed, NEW p \in Passwords,
           \/ \E confirmation \in Passwords : Register(t, i, p, confirmation)
           \/ Login(t, i, p)
    PROVE  AR!ARNext
<1>1. UNCHANGED Accounts
    BY SameAccounts DEF Register, Login, storeVars
<1>2. CASE Say(t, "rejected") /\ UNCHANGED chosen
    BY <1>1, <1>2, RequestOnSay DEF AR!ARNext, AR!Reject
<1>3. ASSUME NEW kind \in {"register", "login"},
             Goto(t, "FindByUsername", Frame(kind, i, p)),
             chosen' = IF kind = "register" THEN chosen \cup {<<Normalized[i], p>>} ELSE chosen
      PROVE  AR!ARNext
  <2>1. Request(Frame(kind, i, p)) = [kind |-> kind, name |-> Normalized[i], password |-> p]
      BY FrameOK DEF Request
  <2>2. AR!Dialog(t, "none", [kind |-> kind, name |-> Normalized[i], password |-> p])
      BY <1>3, <2>1, RequestOnGoto
  <2>3. AR!Submit(t, kind, Normalized[i], p)
      BY <1>1, <1>3, <2>2 DEF AR!Submit
  <2>4. Normalized[i] \in Names
      OBVIOUS
  <2> QED BY <2>3, <2>4 DEF AR!ARNext
<1> QED BY <1>2, <1>3 DEF Register, Login

\* The calls before the INSERT answer truthfully or go on with the same request.
LEMMA CommandImplements ==
    ASSUME IInv, NEW t \in Terminals,
           CheckAvailability(t) \/ HashPassword(t) \/ CheckPassword(t) \/ Stop(t)
    PROVE  [AR!ARNext]_(AR!arVars)
<1>1. pc[t] # "ready" /\ UNCHANGED <<users, chosen>>
    BY DEF CheckAvailability, HashPassword, CheckPassword, Stop, storeVars
<1>2. UNCHANGED Accounts
    BY <1>1, SameAccounts
<1>3. ASSUME NEW a \in {"exists", "accepted", "refused", "failed"}, AR!Answer(t, a)
      PROVE  AR!ARNext
    BY <1>3 DEF AR!ARNext
<1>4. Say(t, "failed") => AR!Answer(t, "failed")
    BY <1>1, AnswerStep
<1>5. ASSUME UNCHANGED <<Requests, answer>>
      PROVE  UNCHANGED AR!arVars
    BY <1>1, <1>2, <1>5 DEF AR!arVars
<1>6. CASE CheckAvailability(t)
  <2>1. CASE Named(frame[t].name) # {} /\ Say(t, "exists")
    <3>1. AR!Answer(t, "exists")
        BY <1>1, <1>6, <2>1, AnswerStep DEF CheckAvailability
    <3> QED BY <1>3, <3>1
  <2>2. CASE Goto(t, "Hash", frame[t])
      BY <1>1, <1>5, <2>2, SameRequest
  <2> QED BY <1>3, <1>4, <1>6, <2>1, <2>2 DEF CheckAvailability
<1>7. CASE HashPassword(t)
  <2>1. ASSUME NEW id \in FreshIds, Goto(t, "Create", [frame[t] EXCEPT !.id = id])
        PROVE  UNCHANGED <<Requests, answer>>
    <3>1. frame[t] \in Frames
        BY <1>1, CommandFacts
    <3>2. Request([frame[t] EXCEPT !.id = id]) = Request(frame[t])
        BY <3>1 DEF Request, Frames
    <3> QED BY <1>1, <2>1, <3>2, SameRequest
  <2> QED BY <1>3, <1>4, <1>5, <1>7, <2>1 DEF HashPassword
<1>8. CASE CheckPassword(t)
  <2>1. ASSUME NEW row \in Named(frame[t].name),
               Say(t, IF row.password = frame[t].password THEN "accepted" ELSE "refused")
        PROVE  AR!ARNext
    <3>1. \A r \in Named(frame[t].name) : r = row
        BY DEF Named, IInv, OneAccountPerName
    <3>2. frame[t].call = "login"
        BY <1>8 DEF CheckPassword
    <3>3. CASE row.password = frame[t].password
      <4>1. AR!Answer(t, "accepted")
          BY <1>1, <2>1, <3>2, <3>3, AnswerStep
      <4> QED BY <1>3, <4>1
    <3>4. CASE row.password # frame[t].password
      <4>1. AR!Answer(t, "refused")
          BY <1>1, <2>1, <3>1, <3>2, <3>4, AnswerStep
      <4> QED BY <1>3, <4>1
    <3> QED BY <3>3, <3>4
  <2>2. CASE Named(frame[t].name) = {} /\ Say(t, "refused")
    <3>1. AR!Answer(t, "refused")
        BY <1>1, <1>8, <2>2, AnswerStep DEF CheckPassword
    <3> QED BY <1>3, <3>1
  <2> QED BY <1>3, <1>4, <1>8, <2>1, <2>2 DEF CheckPassword
<1>9. CASE Stop(t)
  <2>1. AR!Abandon(t)
      BY <1>1, <1>2, <1>9, RequestOnSay DEF Stop, AR!Abandon
  <2> QED BY <2>1 DEF AR!ARNext
<1> QED BY <1>6, <1>7, <1>8, <1>9

\* The INSERT claims the name and reports it, or the answer says why not.
LEMMA CreateImplements ==
    ASSUME IInv, NEW t \in Terminals, Create(t)
    PROVE  AR!ARNext
<1> DEFINE row == NewRow(frame[t])
<1>1. /\ pc[t] = "Create" /\ row \in Rows /\ <<row.name, row.password>> \in chosen
      /\ row.name = frame[t].name /\ row.password = frame[t].password
      /\ frame[t].call = "register" /\ UNCHANGED chosen
    BY NewRowOK, CommandFacts DEF Create
<1>2. CASE Insert(row) /\ Say(t, "registered")
  <2>1. Requests[t] = [kind |-> "register", name |-> row.name, password |-> row.password]
      BY <1>1, CommandFacts DEF Requests, Request
  <2>2. IInv'
      BY CreateStep
  <2> HIDE DEF row
  <2>3. AR!Claim(row.name, row.password)
      BY <1>1, <1>2, <2>2, InsertClaims
  <2>4. Accounts'[row.name] = row.password
      BY <1>1, <2>2, AccountOf, <2>3 DEF AR!Claim, Accounts, Rows
  <2>5. AR!Truthful(Requests[t], "registered", Accounts')
      BY <2>1, <2>4 DEF AR!Truthful
  <2>6. AR!Claim(Requests[t].name, Requests[t].password) /\ Requests[t].kind = "register"
      BY <2>1, <2>3
  <2>7. AR!Answer(t, "registered")
      BY <1>2, <2>5, <2>6, RequestOnSay DEF AR!Answer
  <2> QED BY <2>7 DEF AR!ARNext
<1>3. CASE Named(row.name) # {} /\ Say(t, "exists") /\ UNCHANGED users
  <2>1. AR!Answer(t, "exists")
      BY <1>1, <1>3, AnswerStep
  <2> QED BY <2>1 DEF AR!ARNext
<1>4. CASE Say(t, "failed") /\ UNCHANGED users
  <2>1. AR!Answer(t, "failed")
      BY <1>1, <1>4, AnswerStep
  <2> QED BY <2>1 DEF AR!ARNext
<1> QED BY <1>2, <1>3, <1>4 DEF Create, storeVars

\* A late INSERT is a claim nobody is told of.
LEMMA LateImplements ==
    ASSUME IInv, NEW row \in inflight, LateInsert(row)
    PROVE  [AR!ARNext]_(AR!arVars)
<1>1. UNCHANGED <<Requests, answer, chosen>>
    BY DEF LateInsert, dialogVars, Requests
<1>2. row \in Rows /\ <<row.name, row.password>> \in chosen
    BY DEF IInv, RegTypeOK, RowsSound
<1>3. CASE Insert(row)
  <2>1. AR!Claim(row.name, row.password)
      BY <1>1, <1>2, <1>3, LateStep, InsertClaims
  <2>2. row.name \in Names /\ row.password \in Passwords
      BY <1>2 DEF Rows
  <2> QED BY <1>1, <2>1, <2>2 DEF AR!ARNext
<1>4. CASE UNCHANGED users
    BY <1>1, <1>4, SameAccounts DEF AR!arVars
<1> QED BY <1>3, <1>4 DEF LateInsert

\* Registration and login answer as AccountRegistry promises, whatever the
\* terminals type, and whatever fails or arrives late.
THEOREM RegistryCorrect == RegSpec => RegistryImplemented
<1>1. ASSUME RegInit
      PROVE  AR!ARInit
  <2>1. Accounts = [n \in Names |-> NoPassword]
      BY <1>1 DEF RegInit, Accounts, Named
  <2>2. Requests = [t \in Terminals |-> NoRequest]
      BY <1>1 DEF RegInit, Requests
  <2> QED BY <1>1, <2>1, <2>2 DEF RegInit, AR!ARInit, AR!NoRequest, NoRequest
<1>2. ASSUME IInv, [RegNext]_regVars
      PROVE  [AR!ARNext]_(AR!arVars)
  <2>1. ASSUME NEW t \in Terminals, RegStep(t)
        PROVE  [AR!ARNext]_(AR!arVars)
      BY <1>2, <2>1, SubmitImplements, CommandImplements, CreateImplements DEF RegStep
  <2>2. CASE UNCHANGED regVars
      BY <2>2, SameAccounts DEF regVars, storeVars, dialogVars, AR!arVars, Requests
  <2> QED BY <1>2, <2>1, <2>2, LateImplements DEF RegNext
<1>3. IInv /\ [RegNext]_regVars => [AR!ARNext]_(AR!arVars)
    BY <1>2
<1> QED BY <1>1, <1>3, Invariant, PTL DEF RegSpec, RegistryImplemented, AR!ARSpec
=============================================================================
