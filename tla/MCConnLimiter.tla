--------------------------- MODULE MCConnLimiter ---------------------------
(***************************************************************************)
(* Five connections of two addresses and a limit of two: three connections *)
(* compete for the slots of one address, so that a refusal, a release and  *)
(* an acquire can meet around one removal.                                 *)
(***************************************************************************)
EXTENDS ConnLimiter

CONSTANTS c1, c2, c3, c4, c5, ip1, ip2

MCConns == {c1, c2, c3, c4, c5}
MCIPs == {ip1, ip2}
MCIpOf == [c \in MCConns |-> IF c \in {c1, c2, c3} THEN ip1 ELSE ip2]
=============================================================================
