---------------------------- MODULE MCSupervisor ----------------------------
(* Instances of Supervisor for TLC: requests and symmetry.                 *)
EXTENDS Supervisor, TLC

CONSTANTS a, b,    \* container names
          r1, r2   \* rootfs paths

Request(t, id, r) == [type |-> t, id |-> id, rootfs |-> r]

\* One container with what clients may do to it.
OneRequests == {Request(t, a, r1) : t \in {"run", "stop"}}

\* Names and rootfs paths clash in every way, and one container is stopped.
ClashRequests ==
  {Request("start", a, r1), Request("run", b, r1), Request("start", a, r2),
   Request("stop", a, r1)}

\* Two containers on one rootfs path, and the requests that change nothing.
MixedRequests ==
  {Request("start", a, r1), Request("start", b, r1)}
    \cup {Request(t, a, r1) : t \in {"stop", "ps", "logs", "unknown"}}

\* A client that goes away is not combined with a SIGKILL to a container.
NoKillAndQuit ==
  \/ \A h \in Handlers : client[h] # "gone"
  \/ \A p \in Pids : SIGKILL \notin proc[p].sig

\* Once SIGPIPE has killed the supervisor, only the processes it left behind
\* move: no table, thread or request is left to look at.
SupervisorAlive == main # "dead"

Symmetry == Permutations(Handlers) \cup Permutations(Pids)

=============================================================================
