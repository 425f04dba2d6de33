------------------------- MODULE MCLoginTransaction -------------------------
\* TLC instance of LoginTransaction: logins into one account.
EXTENDS LoginTransaction

CONSTANT alice

OneOwner == [a \in Logins |-> alice]
=============================================================================
