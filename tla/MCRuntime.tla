----------------------------- MODULE MCRuntime -----------------------------
(* The instance of Runtime for TLC.                                        *)
EXTENDS Runtime

CONSTANTS a, r1, h1

Starts == {[type |-> "start", id |-> a, rootfs |-> r1]}

\* At most one of a shutdown, rmmod and a kill by the host in one behaviour, and no
\* shutdown of a supervisor without its threads.
OneTrouble ==
  /\ module = "loaded" \/ (supervisor_running /\ host_victims = {})
  /\ \/ supervisor_running
     \/ host_victims = {} /\ reaper.pc # "none" /\ main # "dead"

=============================================================================
