--------------------------- MODULE MCLogPipeline ---------------------------
(* The instance of LogPipeline for TLC. *)
EXTENDS LogPipeline

CONSTANTS c1, c2   \* container indices

=============================================================================
