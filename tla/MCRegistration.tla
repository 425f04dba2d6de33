--------------------------- MODULE MCRegistration ---------------------------
(***************************************************************************)
(* TLC instances of Registration.  "Ann" and "ann" are one name, "longest" *)
(* has as many characters as a raised MAX_USERNAME_LENGTH allows.          *)
(***************************************************************************)
EXTENDS Registration, TLC

CONSTANTS pw1, pw2

Inputs == {"ann", "Ann", "longest"}

Lower == [i \in Typed |-> IF i = "Ann" THEN "ann" ELSE i]

Lengths == [n \in Names |-> IF n = "longest" THEN MaxName ELSE 3]

Sizes == [p \in Passwords |-> 8]

RegSymmetry == Permutations(Terminals) \cup Permutations(Ids) \cup Permutations({pw1, pw2})
=============================================================================
