-------------------------- MODULE MCConfiguration --------------------------
(***************************************************************************)
(* TLC instance of Configuration: environments that set one variable       *)
(* beside the key, or one instead of it, and files of up to two lines that *)
(* set the key and the greater of the two pairs of limits.                 *)
(***************************************************************************)
EXTENDS Configuration

Samples == {Unset, Blank, Junk, Short} \cup {Num(n) : n \in {-1, 0, 1, 3, 8, 32, 73}}

OnlyKey == [name \in Settings |-> IF name = Key THEN Num(32) ELSE Unset]

SomeEnvironments == {[OnlyKey EXCEPT ![n] = v] : n \in Settings, v \in Samples}

InFile == {"MAX_USERNAME_LENGTH", "MAX_PASSWORD_LENGTH", Key}

SomeLines == [kind : {"skipped", "malformed"}] \cup
             [kind : {"entry"}, name : InFile, value : {Blank, Junk, Num(32), Num(73)}]

SomeFiles == {<<>>} \cup {<<l>> : l \in SomeLines} \cup {<<l, k>> : l, k \in SomeLines}
=============================================================================
