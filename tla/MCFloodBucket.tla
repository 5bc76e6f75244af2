--------------------------- MODULE MCFloodBucket ---------------------------
(***************************************************************************)
(* A bucket of two messages that regains two thirds of a message per tick: *)
(* no single refill is a whole token, an empty bucket is full again after  *)
(* three ticks, and the clock runs for more than two such refills.         *)
(***************************************************************************)
EXTENDS FloodBucket
=============================================================================
