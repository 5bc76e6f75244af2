---------------------------- MODULE MCConnection ----------------------------
(***************************************************************************)
(* Two connections from one address, one of them of an operator who can    *)
(* kill, under a limit that admits both and under one that refuses either. *)
(***************************************************************************)
EXTENDS Connection

CONSTANTS c1, op

MCConns == {c1, op}
MCOpers == {op}
=============================================================================
