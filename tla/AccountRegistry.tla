-------------------------- MODULE AccountRegistry --------------------------
(***************************************************************************)
(* What registration and the password stage of login promise together,     *)
(* without tables, checks or lost replies: accounts are a map from names   *)
(* to passwords.  A name is claimed once, with a password someone chose    *)
(* for it, and that password never changes; a request that is answered is  *)
(* answered by what the map says.  Registration implements this            *)
(* specification.                                                          *)
(***************************************************************************)
CONSTANTS Terminals, Names, Passwords, NoName, NoPassword

VARIABLES
    password,   \* the accounts: password[n] is NoPassword while n is free
    chosen,     \* <<name, password>> pairs submitted for registration
    request,    \* request[t]: what terminal t has submitted
    answer      \* answer[t]: the last answer it was given

arVars == <<password, chosen, request, answer>>

NoRequest == [kind |-> "none", name |-> NoName, password |-> NoPassword]

ARInit == /\ password = [n \in Names |-> NoPassword]
          /\ chosen = {}
          /\ request = [t \in Terminals |-> NoRequest]
          /\ answer = [t \in Terminals |-> "none"]

\* The state of terminal t after it was told a, and waits for r.
Dialog(t, a, r) == /\ answer' = [answer EXCEPT ![t] = a]
                   /\ request' = [request EXCEPT ![t] = r]

Submit(t, kind, n, p) ==
    /\ Dialog(t, "none", [kind |-> kind, name |-> n, password |-> p])
    /\ chosen' = IF kind = "register" THEN chosen \cup {<<n, p>>} ELSE chosen
    /\ UNCHANGED password

\* An input that is turned down before it is a request.
Reject(t) == Dialog(t, "rejected", NoRequest) /\ UNCHANGED <<password, chosen>>

Claim(n, p) == /\ password[n] = NoPassword
               /\ <<n, p>> \in chosen
               /\ password' = [password EXCEPT ![n] = p]
               /\ UNCHANGED chosen

\* What request r may be told when the accounts are as in map.
Truthful(r, a, map) ==
    \/ r.kind = "register" /\ a = "registered" /\ map[r.name] = r.password
    \/ r.kind = "register" /\ a = "exists" /\ map[r.name] # NoPassword
    \/ r.kind = "login" /\ a = "accepted" /\ map[r.name] = r.password
    \/ r.kind = "login" /\ a = "refused" /\ map[r.name] # r.password
    \/ r.kind # "none" /\ a = "failed"

\* The answer to a registration may come with the claim it reports.
Answer(t, a) ==
    /\ \/ UNCHANGED <<password, chosen>>
       \/ request[t].kind = "register" /\ Claim(request[t].name, request[t].password)
    /\ Truthful(request[t], a, password')
    /\ Dialog(t, a, NoRequest)

\* Terminal t is gone before it is answered.
Abandon(t) == Dialog(t, "none", NoRequest) /\ UNCHANGED <<password, chosen>>

ARNext ==
    \/ \E t \in Terminals :
          \/ \E kind \in {"register", "login"}, n \in Names, p \in Passwords : Submit(t, kind, n, p)
          \/ Reject(t)
          \/ \E a \in {"registered", "exists", "accepted", "refused", "failed"} : Answer(t, a)
          \/ Abandon(t)
    \/ \E n \in Names, p \in Passwords : Claim(n, p) /\ UNCHANGED <<request, answer>>

ARSpec == ARInit /\ [][ARNext]_arVars
=============================================================================
