--------------------------- MODULE MCNickRegistry ---------------------------
(***************************************************************************)
(* Three users, one of them an operator, and two nicks: two users can race *)
(* for one nick while the third kills either of them, and a user can hold  *)
(* one nick while it claims the other.  The operator watches nicks, itself *)
(* renamed at times.                                                       *)
(***************************************************************************)
EXTENDS Monitor, TLC

CONSTANTS u1, u2, op, x, y

MCUsers == {u1, u2, op}
MCNicks == {x, y}
MCOpers == {op}
MCWatchers == {op}
Symmetry == Permutations({u1, u2}) \cup Permutations(MCNicks)
=============================================================================
