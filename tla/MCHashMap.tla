----------------------------- MODULE MCHashMap ------------------------------
(***************************************************************************)
(* Keys whose hashes collide in every size, in some sizes or in none.      *)
(***************************************************************************)
EXTENDS HashMap

CONSTANTS v1, v2

Keys == 1 .. 5
Values == {v1, v2}
Hashes == <<0, 0, 3, 6, 4>>
SmallSizes == <<2, 3, 5>>
=============================================================================
