------------------------- MODULE MCChannelRegistry -------------------------
(***************************************************************************)
(* Three users, one of them an operator who can kill, around the channels  *)
(* of a small server.  There are enough Channel objects for every name and *)
(* every running handler, so that the supply of objects decides nothing.   *)
(***************************************************************************)
EXTENDS ChannelRegistry, TLC

CONSTANTS u1, u2, op, c1, c2, o1, o2, o3, o4

MCUsers == {u1, u2, op}
MCOpers == {op}
OneChan == {c1}
TwoChans == {c1, c2}
ThreeObjs == {o1, o2, o3}
FourObjs == {o1, o2, o3, o4}
Symmetry == Permutations({u1, u2}) \cup Permutations(Objs) \cup Permutations(Chans)
=============================================================================
