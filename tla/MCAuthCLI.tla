----------------------------- MODULE MCAuthCLI -----------------------------
(***************************************************************************)
(* TLC instances of AuthCLI.  Terminals, tokens, secrets and challenge ids *)
(* are interchangeable: no definition of AuthCLI chooses between them.     *)
(***************************************************************************)
EXTENDS AuthCLI, TLC

Symmetry == Permutations(Terminals) \cup Permutations(Tokens)
              \cup Permutations(Secrets) \cup Permutations(ChallengeIds)
=============================================================================
