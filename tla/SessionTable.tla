---------------------------- MODULE SessionTable ----------------------------
(***************************************************************************)
(* What the system promises about sessions, without databases, services or *)
(* commands: a session is opened for one user, belongs to at most one      *)
(* terminal, is closed only by the terminal that holds it, keeps the       *)
(* deadline it was opened with, never reopens, and is forgotten by the     *)
(* table only after its deadline.  AuthCLI implements this specification.  *)
(***************************************************************************)
EXTENDS Naturals

CONSTANTS Terminals, Users, Tokens, NoUser, NoToken, SessionTimeout

VARIABLES
    now,
    table,      \* the sessions in the table
    holder      \* the token each terminal holds

stVars == <<now, table, holder>>

None == [status |-> "absent", user |-> NoUser, expires |-> 0]

STInit == /\ now = 1
          /\ table = [k \in Tokens |-> None]
          /\ holder = [t \in Terminals |-> NoToken]

Held(k) == \E t \in Terminals : holder[t] = k

(***************************************************************************)
(* A session opens.  Its deadline counts from the moment the service read  *)
(* the clock, so it may be near or even past.  The terminal that asked for *)
(* it may never learn the token.                                           *)
(***************************************************************************)
Open(k, u, deadline) ==
    /\ table[k] = None
    /\ ~Held(k)
    /\ table' = [table EXCEPT ![k] = [status |-> "active", user |-> u, expires |-> deadline]]
    /\ \/ UNCHANGED holder
       \/ \E t \in Terminals : holder[t] = NoToken /\ holder' = [holder EXCEPT ![t] = k]
    /\ UNCHANGED now

\* A terminal closes the session it holds and forgets its token.
Close(t) ==
    /\ holder[t] # NoToken
    /\ table[holder[t]].status = "active"
    /\ table' = [table EXCEPT ![holder[t]].status = "revoked"]
    /\ holder' = [holder EXCEPT ![t] = NoToken]
    /\ UNCHANGED now

\* A terminal forgets its token: exit, crash, failed logout, or dead session.
Forget(t) ==
    /\ holder' = [holder EXCEPT ![t] = NoToken]
    /\ UNCHANGED <<now, table>>

\* The sessions past their deadline are deleted.
Purge ==
    /\ table' = [k \in Tokens |-> IF table[k].expires <= now THEN None ELSE table[k]]
    /\ UNCHANGED <<now, holder>>

Pass == /\ now' = now + 1
        /\ UNCHANGED <<table, holder>>

STNext ==
    \/ \E k \in Tokens, u \in Users : \E d \in 1 .. now + SessionTimeout : Open(k, u, d)
    \/ \E t \in Terminals : Close(t) \/ Forget(t)
    \/ Purge
    \/ Pass

STSpec == STInit /\ [][STNext]_stVars
=============================================================================
