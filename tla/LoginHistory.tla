---------------------------- MODULE LoginHistory ----------------------------
(***************************************************************************)
(* What FinalizeLogin promises about the two tables it writes, without     *)
(* transactions, locks or lost connections: a login happens at one moment, *)
(* with its session row and its last_login_at together, or not at all, and *)
(* a login reported as successful has happened.  Its last_login_at is a    *)
(* clock reading taken when it started.  LoginTransaction implements this  *)
(* specification.                                                          *)
(***************************************************************************)
EXTENDS Naturals

CONSTANTS Logins, Users, Owner

VARIABLES
    now,
    at,         \* at[a]: the time login a started, 0 before that
    lastLogin,  \* users.last_login_at, 0 for NULL
    rows,       \* the logins whose session row exists
    reported    \* the logins a terminal was told to have succeeded

lhVars == <<now, at, lastLogin, rows, reported>>

LHInit == /\ now = 1
          /\ at = [a \in Logins |-> 0]
          /\ lastLogin = [u \in Users |-> 0]
          /\ rows = {}
          /\ reported = {}

Start(a) == /\ at[a] = 0
            /\ at' = [at EXCEPT ![a] = now]
            /\ UNCHANGED <<now, lastLogin, rows, reported>>

Happen(a) == /\ at[a] # 0 /\ a \notin rows
             /\ rows' = rows \cup {a}
             /\ lastLogin' = [lastLogin EXCEPT ![Owner[a]] = at[a]]
             /\ reported' \in {reported, reported \cup {a}}
             /\ UNCHANGED <<now, at>>

LHPass == now' = now + 1 /\ UNCHANGED <<at, lastLogin, rows, reported>>

LHNext == LHPass \/ \E a \in Logins : Start(a) \/ Happen(a)

LHSpec == LHInit /\ [][LHNext]_lhVars
=============================================================================
