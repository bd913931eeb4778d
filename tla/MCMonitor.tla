------------------------------ MODULE MCMonitor ------------------------------
(* Instances of Monitor for TLC: the registrations the engine sends.       *)
EXTENDS Monitor

Request(p, soft, hard) == [pid |-> p, soft_mib |-> soft, hard_mib |-> hard]

\* Limits a user may give, out of range ones included: atoi accepts them all.
OddRequests == {Request(1, s, h) : s \in {-1, 0}, h \in {-1, 0, 1}}
                 \cup {Request(0, 0, 1)}

PlainRequests == {Request(p, 0, 1) : p \in Pids}

=============================================================================
