-------------------------- MODULE MCSecondFactor --------------------------
\* TLC instance of SecondFactor: every combination of two keys and small codes.
EXTENDS SecondFactor

AllPolicies == [key : {1, 2}, period : {2, 3}, skew : {0, 1}, digits : {6, 8}]
=============================================================================
