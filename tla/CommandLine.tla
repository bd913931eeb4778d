---------------------------- MODULE CommandLine ----------------------------
(***************************************************************************)
(* The client's command line (main and parse_optional_flags of engine.c):  *)
(* from the words after the program's name to a request, or to the usage   *)
(* text.  Names, paths and commands are copied, not looked at, and are left *)
(* out of the request here.                                                *)
(***************************************************************************)
EXTENDS Integers, Sequences

CONSTANTS
  Words,   \* words a user may type
  Atoi,    \* atoi() of each of them
  Usage    \* the result of a command line that is refused

\* What main sends; names, paths and commands left out.
RequestType == [type : {"start", "run", "ps", "logs", "stop"},
                soft_mib : Int, hard_mib : Int, nice_value : Int]

ASSUME AtoiAssumption  == Atoi \in [Words -> Int]
ASSUME UsageAssumption == Usage \notin RequestType

DEFAULT_SOFT_MIB == 40
DEFAULT_HARD_MIB == 64
DEFAULT_NICE     == 0

\* init_request_defaults
Request(type) == [type |-> type, soft_mib |-> DEFAULT_SOFT_MIB,
                  hard_mib |-> DEFAULT_HARD_MIB, nice_value |-> DEFAULT_NICE]

Flags == {"--soft-mib", "--hard-mib", "--nice"}

\* Variant of SetFlag with a bug: the first use of a flag wins.
SetFlagOnce(req, flag, n) ==
  [req EXCEPT !.soft_mib   = IF flag = "--soft-mib" /\ @ = DEFAULT_SOFT_MIB THEN n ELSE @,
              !.hard_mib   = IF flag = "--hard-mib" /\ @ = DEFAULT_HARD_MIB THEN n ELSE @,
              !.nice_value = IF flag = "--nice" /\ @ = DEFAULT_NICE THEN n ELSE @]

SetFlag(req, flag, n) ==
  [req EXCEPT !.soft_mib   = IF flag = "--soft-mib" THEN n ELSE @,
              !.hard_mib   = IF flag = "--hard-mib" THEN n ELSE @,
              !.nice_value = IF flag = "--nice" THEN n ELSE @]

\* An iteration of parse_optional_flags takes a flag and the word behind it.
ParseFlag(argv, i, req) ==
  IF req = Usage \/ argv[i] \notin Flags \/ i + 1 > Len(argv)
  THEN Usage
  ELSE SetFlag(req, argv[i], Atoi[argv[i + 1]])

\* Its loop: the request after k iterations.
ParseOptionalFlags(argv, first, req) ==
  LET parsed[k \in Nat] ==
        IF k = 0 THEN req ELSE ParseFlag(argv, first + 2 * (k - 1), parsed[k - 1])
  IN  parsed[(Len(argv) - first + 2) \div 2]

\* The request main sends for argv[1], argv[2], ...
Parse(argv) ==
  IF argv = <<>> THEN Usage
  ELSE CASE argv[1] \in {"start", "run"} /\ Len(argv) >= 4
              -> ParseOptionalFlags(argv, 5, Request(argv[1]))
         [] argv[1] = "ps" /\ Len(argv) = 1                 -> Request("ps")
         [] argv[1] \in {"logs", "stop"} /\ Len(argv) = 2   -> Request(argv[1])
         [] OTHER                                           -> Usage

-----------------------------------------------------------------------------
(* The reference: what the usage text promises of the optional flags.      *)

FlagPlaces(argv) == {i \in 5 .. Len(argv) : i % 2 = 1}

WellFormed(argv) ==
  \/ argv = <<"ps">>
  \/ Len(argv) = 2 /\ argv[1] \in {"logs", "stop"}
  \/ /\ Len(argv) >= 4 /\ Len(argv) % 2 = 0
     /\ argv[1] \in {"start", "run"}
     /\ \A i \in FlagPlaces(argv) : argv[i] \in Flags

\* A flag has the value of its last use, or its default.
ValueOf(argv, flag, default) ==
  LET uses == {i \in FlagPlaces(argv) : argv[i] = flag} IN
  IF uses = {} THEN default
  ELSE Atoi[argv[1 + CHOOSE i \in uses : \A j \in uses : j <= i]]

Typed(argv) ==
  IF WellFormed(argv)
  THEN [type       |-> argv[1],
        soft_mib   |-> ValueOf(argv, "--soft-mib", DEFAULT_SOFT_MIB),
        hard_mib   |-> ValueOf(argv, "--hard-mib", DEFAULT_HARD_MIB),
        nice_value |-> ValueOf(argv, "--nice", DEFAULT_NICE)]
  ELSE Usage

=============================================================================
