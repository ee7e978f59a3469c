------------------------- MODULE MCPasswordVerdict -------------------------
(* Two submissions, told apart by their marks, in a tab of two documents:   *)
(* the one that asked, and the one its submission leads to.                 *)
EXTENDS PasswordVerdict, TLC

CONSTANTS v1, v2, m1, m2

MCMarkOf == v1 :> m1 @@ v2 :> m2
=============================================================================
