------------------------- MODULE AccountsAndClock -------------------------
(***************************************************************************)
(* What every part of the program shares: the account ids, and the wall    *)
(* clock the program reads with time.Now() and Redis uses for key expiry.  *)
(* One tick is a millisecond, the unit of PSETEX.  Deadlines are absolute  *)
(* times, as in the code (now.Add(timeout)); 0 stands for no time.         *)
(***************************************************************************)
EXTENDS Naturals

CONSTANTS
    Users,      \* account ids
    MaxTime     \* bound of the model: the clock stops here

ASSUME MaxTimeAssumption == MaxTime \in Nat \ {0}

VARIABLE now

ClockInit == now = 1

Advance == /\ now < MaxTime
           /\ now' = now + 1
=============================================================================
