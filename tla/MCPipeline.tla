------------------------------ MODULE MCPipeline ------------------------------
(***************************************************************************)
(* Two tasks, one of a type with a dot, and two of each service but the    *)
(* gateway: the deployment (deploy/k8s) runs three processors and one of   *)
(* each other service, and may be scaled.                                  *)
(***************************************************************************)
EXTENDS Pipeline

CONSTANTS t1, td, p1, p2, e1, e2, a1, a2

MCTasks == {t1, td}
MCDotted == {td}
MCProcs == {p1, p2}
MCEnrichers == {e1, e2}
MCAggs == {a1, a2}
=============================================================================
