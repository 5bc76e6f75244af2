---------------------------- MODULE MCVolumeTask ----------------------------
(***************************************************************************)
(* One project, two workers.                                               *)
(***************************************************************************)
EXTENDS VolumeTask

CONSTANTS w1, w2

MCWorkers == {w1, w2}
MCJobs == 1 .. 2
=============================================================================
