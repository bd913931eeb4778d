-------------------------- MODULE MCControlSocket --------------------------
(* Instances of ControlSocket for TLC: what users type.                    *)
EXTENDS ControlSocket

Typable == {"start", "run", "ps", "stop", "a", "r", "cmd",
            "--soft-mib", "--hard-mib", "--nice", "7", "9"}

AtoiOf == [w \in Typable |-> IF w = "7" THEN 7 ELSE IF w = "9" THEN 9 ELSE 0]

\* A request with no container (ps, like logs and stop), a start, a run with a
\* flag given twice, and a flag without its value.
Lines ==
  {<<"ps">>, <<"start", "a", "r", "cmd">>,
   <<"run", "a", "r", "cmd", "--soft-mib", "7", "--nice", "9", "--soft-mib", "9">>,
   <<"run", "a", "r", "cmd", "--hard-mib">>}

\* Every use of up to four of a few words as flags.
FlagLines == {<<"run", "a", "r", "cmd">> \o f : f \in
                UNION {[1 .. n -> {"--soft-mib", "--hard-mib", "7", "cmd"}] : n \in 0 .. 4}}

\* Exactly the lines the usage text allows are accepted.
ASSUME FlagsParsed == \A line \in FlagLines : (Parse(line) = Usage) <=> ~ WellFormed(line)

=============================================================================
