---------------------------- MODULE MCClientView ----------------------------
(***************************************************************************)
(* The small server of MCChannelRegistry with the operator's client        *)
(* followed on one worker; on two workers nobody's client is.              *)
(***************************************************************************)
EXTENDS MCChannelRegistry, ClientView

MCViewers == [n \in WorkerCounts |-> IF n = 1 THEN {op} ELSE {}]
=============================================================================
