------------------------- MODULE CommandLineProofs -------------------------
(***************************************************************************)
(* The client understands every command line, of any length and whatever   *)
(* its words, as the usage text says: Parse, which goes over the words as  *)
(* main and parse_optional_flags do, gives what Typed defines.             *)
(*                                                                         *)
(* The provers have no induction over the loop's recursive function, so it *)
(* is made here: every set of numbers with an element has a least one      *)
(* (LeastExists), and the least failing iteration of a claim contradicts   *)
(* the one before it.                                                      *)
(***************************************************************************)
EXTENDS ControlSocketProofs, WellFoundedInduction

-----------------------------------------------------------------------------
(* The loop computes what its recursive definition says.                   *)

\* A set of numbers with an element has a least one.
LEMMA LeastExists ==
  ASSUME NEW S, S \subseteq Nat, S # {}
  PROVE  \E i \in S : \A j \in S : i <= j
<1>1. PICK x \in S : \A y \in S : ~ (<<y, x>> \in OpToRel(<, Nat))
  BY WFMin, NatLessThanWellFounded
<1>2. \A y \in S : ~ (y < x)
  <2> SUFFICES ASSUME NEW y \in S, y < x PROVE FALSE
    OBVIOUS
  <2>1. <<y, x>> \in OpToRel(<, Nat)
    BY DEF OpToRel
  <2> QED
    BY <1>1, <2>1, Zenon
<1>3. \A y \in S : x <= y
  BY <1>2, SMT
<1> QED
  BY <1>3

\* Induction over the numbers up to n: a set that has 0, and the successor of each of
\* its members below n, has them all.
LEMMA UpTo ==
  ASSUME NEW n \in Nat, NEW S, 0 \in S, \A k \in 0 .. n : k \in S /\ k < n => k + 1 \in S
  PROVE  \A k \in 0 .. n : k \in S
<1> SUFFICES ASSUME {k \in 0 .. n : k \notin S} # {} PROVE FALSE
  OBVIOUS
<1> DEFINE T == {k \in 0 .. n : k \notin S}
<1>1. PICK x \in T : \A y \in T : x <= y
  <2>1. T \subseteq Nat
    OBVIOUS
  <2> HIDE DEF T
  <2> QED
    BY <2>1, LeastExists DEF T
<1>2. x \in 0 .. n /\ x \notin S /\ x # 0
  OBVIOUS
<1>3. x - 1 \in 0 .. n /\ x - 1 < n /\ ~ (x <= x - 1) /\ x - 1 + 1 = x
  BY <1>2
<1>4. x - 1 \in S
  BY <1>1, <1>3
<1> QED
  BY <1>2, <1>3, <1>4

\* The request after k of at most n iterations.
Iterates(g, n, argv0, first, req) ==
  /\ g[0] = req
  /\ \A k \in 0 .. n : k < n => g[k + 1] = ParseFlag(argv0, first + 2 * k, g[k])

\* The requests after each iteration can be listed.
LEMMA IteratesExist ==
  ASSUME NEW argv0, NEW first, NEW req, NEW n \in Nat
  PROVE  \E g : Iterates(g, n, argv0, first, req)
<1> DEFINE S == {m \in 0 .. n : \E g : Iterates(g, m, argv0, first, req)}
<1>1. 0 \in S
  <2> DEFINE g == [k \in 0 .. 0 |-> req]
  <2>1. g[0] = req
    OBVIOUS
  <2> HIDE DEF g
  <2>2. Iterates(g, 0, argv0, first, req)
    BY <2>1 DEF Iterates
  <2> QED
    BY <2>2
<1>2. ASSUME NEW m \in 0 .. n, m \in S, m < n PROVE m + 1 \in S
  <2>1. PICK g : Iterates(g, m, argv0, first, req)
    BY <1>2
  <2> DEFINE h == [k \in 0 .. m + 1 |->
                     IF k = m + 1 THEN ParseFlag(argv0, first + 2 * m, g[m]) ELSE g[k]]
  <2>2. h[m + 1] = ParseFlag(argv0, first + 2 * m, g[m])
    OBVIOUS
  <2>3. \A k \in 0 .. m : h[k] = g[k]
    OBVIOUS
  <2> HIDE DEF h
  <2>4. Iterates(h, m + 1, argv0, first, req)
    <3>1. h[0] = req
      BY <2>1, <2>3 DEF Iterates
    <3>2. ASSUME NEW k \in 0 .. m + 1, k < m + 1
          PROVE  h[k + 1] = ParseFlag(argv0, first + 2 * k, h[k])
      <4>1. k \in 0 .. m /\ h[k] = g[k]
        BY <2>3, <3>2
      <4>2. CASE k = m
        BY <2>2, <4>1, <4>2
      <4>3. CASE k < m
        <5>1. k + 1 \in 0 .. m
          BY <4>3
        <5> QED
          BY <2>1, <2>3, <4>1, <4>3, <5>1 DEF Iterates
      <4>4. k = m \/ k < m
        BY <4>1
      <4> QED
        BY <4>2, <4>3, <4>4
    <3> QED
      BY <3>1, <3>2 DEF Iterates
  <2>5. m + 1 \in 0 .. n
    BY <1>2
  <2> QED
    BY <2>4, <2>5
<1> HIDE DEF S
<1>3. n \in S
  BY <1>1, <1>2, UpTo
<1> QED
  BY <1>3 DEF S

\* Lists of iterates are determined by their start.
LEMMA IteratesAgree ==
  ASSUME NEW argv0, NEW first, NEW req, NEW m \in Nat, NEW n \in Nat, m <= n, NEW g, NEW h,
         Iterates(g, m, argv0, first, req), Iterates(h, n, argv0, first, req)
  PROVE  \A k \in 0 .. m : g[k] = h[k]
<1> DEFINE S == {k \in 0 .. m : g[k] = h[k]}
<1>1. 0 \in S
  BY DEF Iterates
<1>2. ASSUME NEW k \in 0 .. m, k \in S, k < m PROVE k + 1 \in S
  <2>1. k \in 0 .. n /\ k < n /\ k + 1 \in 0 .. m
    BY <1>2
  <2>2. /\ g[k + 1] = ParseFlag(argv0, first + 2 * k, g[k])
        /\ h[k + 1] = ParseFlag(argv0, first + 2 * k, h[k])
    BY <1>2, <2>1 DEF Iterates
  <2> QED
    BY <1>2, <2>1, <2>2
<1> HIDE DEF S
<1>3. \A k \in 0 .. m : k \in S
  BY <1>1, <1>2, UpTo
<1> QED
  BY <1>3 DEF S

\* The loop of parse_optional_flags, iterated n times.
LEMMA LoopIterates ==
  ASSUME NEW argv0, NEW first, NEW req, NEW n \in Nat,
         (Len(argv0) - first + 2) \div 2 = n
  PROVE  \E g : /\ Iterates(g, n, argv0, first, req)
                /\ ParseOptionalFlags(argv0, first, req) = g[n]
<1> DEFINE G(m) == CHOOSE g : Iterates(g, m, argv0, first, req)
           f == [m \in Nat |-> G(m)[m]]
           parsed == CHOOSE parsed : parsed = [k \in Nat |->
                       IF k = 0 THEN req
                       ELSE ParseFlag(argv0, first + 2 * (k - 1), parsed[k - 1])]
<1>1. \A m \in Nat : Iterates(G(m), m, argv0, first, req)
  BY IteratesExist
<1>2. \A m \in Nat : f[m] = G(m)[m]
  OBVIOUS
<1>3. ParseOptionalFlags(argv0, first, req) = parsed[n]
  BY DEF ParseOptionalFlags
<1> HIDE DEF G
<1>4. ASSUME NEW k \in Nat, k # 0
      PROVE  f[k] = ParseFlag(argv0, first + 2 * (k - 1), f[k - 1])
  <2>1. k - 1 \in Nat /\ k - 1 <= k /\ k - 1 \in 0 .. k - 1 /\ k - 1 \in 0 .. k /\ k - 1 < k
        /\ (k - 1) + 1 = k
    BY <1>4
  <2>2. G(k - 1)[k - 1] = G(k)[k - 1]
    BY <1>1, <2>1, IteratesAgree
  <2>3. G(k)[(k - 1) + 1] = ParseFlag(argv0, first + 2 * (k - 1), G(k)[k - 1])
    BY <1>1, <2>1 DEF Iterates
  <2> QED
    BY <1>2, <2>1, <2>2, <2>3
<1>5. f[0] = req
  BY <1>1, <1>2 DEF Iterates
<1>6. f = [k \in Nat |-> IF k = 0 THEN req
                         ELSE ParseFlag(argv0, first + 2 * (k - 1), f[k - 1])]
  <2> DEFINE r == [k \in Nat |-> IF k = 0 THEN req
                         ELSE ParseFlag(argv0, first + 2 * (k - 1), f[k - 1])]
  <2>1. \A k \in Nat : f[k] = r[k]
    BY <1>4, <1>5
  <2> QED
    BY <2>1
<1> HIDE DEF f
<1>7. parsed = [k \in Nat |-> IF k = 0 THEN req
                              ELSE ParseFlag(argv0, first + 2 * (k - 1), parsed[k - 1])]
  BY <1>6
<1> HIDE DEF parsed
<1>8. Iterates(parsed, n, argv0, first, req)
  <2>1. parsed[0] = req
    BY <1>7
  <2>2. ASSUME NEW k \in 0 .. n, k < n
        PROVE  parsed[k + 1] = ParseFlag(argv0, first + 2 * k, parsed[k])
    <3>1. k + 1 \in Nat /\ k + 1 # 0 /\ (k + 1) - 1 = k
      OBVIOUS
    <3>2. parsed[k + 1] = ParseFlag(argv0, first + 2 * ((k + 1) - 1), parsed[(k + 1) - 1])
      BY <1>7, <3>1
    <3> QED
      BY <3>1, <3>2
  <2> QED
    BY <2>1, <2>2 DEF Iterates
<1> QED
  BY <1>3, <1>8

-----------------------------------------------------------------------------
(* What the loop has made of the flags, iteration by iteration.            *)

\* The flag that iteration j + 1 looks at, and the number behind it.
FlagAt(w, j)  == w[5 + 2 * j]
ValueAt(w, j) == Atoi[w[5 + 2 * j + 1]]

\* Iteration j + 1 refuses the line; one of the first k does.
Refuses(w, j)   == FlagAt(w, j) \notin Flags \/ 5 + 2 * j + 1 > Len(w)
RefusedBy(w, k) == \E j \in 0 .. k - 1 : Refuses(w, j)

\* v is the value of a flag after k iterations: that of its last use, or the default.
ValueBy(w, k, flag, default, v) ==
  \/ v = default /\ \A j \in 0 .. k - 1 : FlagAt(w, j) # flag
  \/ \E j \in 0 .. k - 1 :
       /\ FlagAt(w, j) = flag /\ v = ValueAt(w, j)
       /\ \A m \in 0 .. k - 1 : j < m => FlagAt(w, m) # flag

\* r is what the loop should have after k iterations.
ParsedBy(w, k, r) ==
  /\ RefusedBy(w, k) => r = Usage
  /\ ~ RefusedBy(w, k) =>
       /\ r \in RequestType /\ r.type = w[1]
       /\ ValueBy(w, k, "--soft-mib", DEFAULT_SOFT_MIB, r.soft_mib)
       /\ ValueBy(w, k, "--hard-mib", DEFAULT_HARD_MIB, r.hard_mib)
       /\ ValueBy(w, k, "--nice", DEFAULT_NICE, r.nice_value)

\* An iteration that meets the flag sets its value, one that does not keeps it.
LEMMA ValueGoesOn ==
  ASSUME NEW w, NEW k \in Nat, NEW flag, NEW default, NEW v
  PROVE  /\ FlagAt(w, k) = flag => ValueBy(w, k + 1, flag, default, ValueAt(w, k))
         /\ FlagAt(w, k) # flag /\ ValueBy(w, k, flag, default, v)
              => ValueBy(w, k + 1, flag, default, v)
<1>1. /\ 0 .. k + 1 - 1 = (0 .. k - 1) \cup {k}
      /\ k \in 0 .. k + 1 - 1
      /\ \A m \in 0 .. k + 1 - 1 : ~ (k < m)
  OBVIOUS
<1>2. FlagAt(w, k) = flag => ValueBy(w, k + 1, flag, default, ValueAt(w, k))
  BY <1>1 DEF ValueBy
<1>3. ASSUME FlagAt(w, k) # flag, ValueBy(w, k, flag, default, v)
      PROVE  ValueBy(w, k + 1, flag, default, v)
  <2>1. CASE v = default /\ \A j \in 0 .. k - 1 : FlagAt(w, j) # flag
    BY <1>1, <1>3, <2>1 DEF ValueBy
  <2>2. ASSUME NEW j \in 0 .. k - 1, FlagAt(w, j) = flag, v = ValueAt(w, j),
               \A m \in 0 .. k - 1 : j < m => FlagAt(w, m) # flag
        PROVE  ValueBy(w, k + 1, flag, default, v)
    <3>1. \A m \in 0 .. k + 1 - 1 : j < m => FlagAt(w, m) # flag
      BY <1>1, <1>3, <2>2
    <3>2. j \in 0 .. k + 1 - 1
      OBVIOUS
    <3> QED
      BY <2>2, <3>1, <3>2 DEF ValueBy
  <2> QED
    BY <1>3, <2>1, <2>2 DEF ValueBy
<1> QED
  BY <1>2, <1>3

\* An iteration turns what k flags say into what k + 1 flags say.
LEMMA IterationParses ==
  ASSUME NEW w \in Seq(Words), NEW k \in Nat, NEW r, ParsedBy(w, k, r)
  PROVE  ParsedBy(w, k + 1, ParseFlag(w, 5 + 2 * k, r))
<1> DEFINE f == FlagAt(w, k)
           v == ValueAt(w, k)
           q == ParseFlag(w, 5 + 2 * k, r)
<1>1. RefusedBy(w, k + 1) <=>
        RefusedBy(w, k) \/ f \notin Flags \/ 5 + 2 * k + 1 > Len(w)
  <2>1. 0 .. k + 1 - 1 = (0 .. k - 1) \cup {k}
    OBVIOUS
  <2>2. RefusedBy(w, k + 1) <=> RefusedBy(w, k) \/ Refuses(w, k)
    BY <2>1 DEF RefusedBy
  <2> QED
    BY <2>2 DEF Refuses
<1>2. q = IF r = Usage \/ f \notin Flags \/ 5 + 2 * k + 1 > Len(w) THEN Usage ELSE SetFlag(r, f, v)
  BY DEF ParseFlag, FlagAt, ValueAt
<1> HIDE DEF f, v, q
<1>3. CASE RefusedBy(w, k + 1)
  BY <1>1, <1>2, <1>3 DEF ParsedBy, q
<1>4. CASE ~ RefusedBy(w, k + 1)
  <2>1. /\ ~ RefusedBy(w, k) /\ f \in Flags /\ r \in RequestType /\ r # Usage
        /\ 5 + 2 * k + 1 <= Len(w)
    BY <1>1, <1>4, UsageAssumption DEF ParsedBy
  <2>2. v \in Int
    <3>1. 5 + 2 * k + 1 \in 1 .. Len(w)
      BY <2>1
    <3>2. w[5 + 2 * k + 1] \in Words
      BY <3>1
    <3> QED
      BY <3>2, AtoiAssumption DEF v, ValueAt
  <2>3. q = SetFlag(r, f, v)
    BY <1>1, <1>2, <1>4, <2>1
  <2>4. /\ q \in RequestType /\ q.type = r.type
        /\ q.soft_mib = IF f = "--soft-mib" THEN v ELSE r.soft_mib
        /\ q.hard_mib = IF f = "--hard-mib" THEN v ELSE r.hard_mib
        /\ q.nice_value = IF f = "--nice" THEN v ELSE r.nice_value
    BY <2>1, <2>2, <2>3 DEF SetFlag, RequestType
  <2>5. ValueBy(w, k + 1, "--soft-mib", DEFAULT_SOFT_MIB, q.soft_mib)
    BY <2>1, <2>4, ValueGoesOn DEF ParsedBy, f, v
  <2>6. ValueBy(w, k + 1, "--hard-mib", DEFAULT_HARD_MIB, q.hard_mib)
    BY <2>1, <2>4, ValueGoesOn DEF ParsedBy, f, v
  <2>7. ValueBy(w, k + 1, "--nice", DEFAULT_NICE, q.nice_value)
    BY <2>1, <2>4, ValueGoesOn DEF ParsedBy, f, v
  <2> QED
    BY <1>4, <2>1, <2>4, <2>5, <2>6, <2>7 DEF ParsedBy, q
<1> QED
  BY <1>3, <1>4

\* The whole loop.
LEMMA LoopParses ==
  ASSUME NEW w \in Seq(Words), Len(w) >= 4, w[1] \in {"start", "run"}
  PROVE  ParsedBy(w, (Len(w) - 3) \div 2, ParseOptionalFlags(w, 5, Request(w[1])))
<1> DEFINE req == Request(w[1])
<1>1. PICK n \in Nat : n = (Len(w) - 5 + 2) \div 2 /\ n = (Len(w) - 3) \div 2
  OBVIOUS
<1>2. PICK g : /\ Iterates(g, n, w, 5, req)
               /\ ParseOptionalFlags(w, 5, req) = g[n]
  BY <1>1, LoopIterates
<1>3. ParsedBy(w, 0, req)
  <2>1. req \in RequestType /\ req.type = w[1]
    BY DEF Request, RequestType, DEFAULT_SOFT_MIB, DEFAULT_HARD_MIB, DEFAULT_NICE
  <2>2. 0 .. 0 - 1 = {}
    OBVIOUS
  <2> QED
    BY <2>1, <2>2 DEF ParsedBy, RefusedBy, ValueBy, Request
<1> HIDE DEF req
<1> DEFINE S == {k \in 0 .. n : ParsedBy(w, k, g[k])}
<1>4. 0 \in S
  BY <1>2, <1>3 DEF Iterates
<1>5. ASSUME NEW k \in 0 .. n, k \in S, k < n PROVE k + 1 \in S
  <2>1. ParsedBy(w, k + 1, ParseFlag(w, 5 + 2 * k, g[k]))
    BY <1>5, IterationParses
  <2>2. g[k + 1] = ParseFlag(w, 5 + 2 * k, g[k])
    BY <1>2, <1>5 DEF Iterates
  <2>3. k + 1 \in 0 .. n
    BY <1>5
  <2> QED
    BY <2>1, <2>2, <2>3
<1> HIDE DEF S
<1>6. n \in S
  <2>1. \A k \in 0 .. n : k \in S
    BY <1>4, <1>5, UpTo
  <2> QED
    BY <2>1
<1> QED
  BY <1>1, <1>2, <1>6 DEF S, req

-----------------------------------------------------------------------------
(* The loop against the usage text.                                        *)

\* The places of the flags are those the loop looks at, if each flag has a word behind it.
LEMMA PlacesAre ==
  ASSUME NEW w \in Seq(Words), Len(w) >= 4, Len(w) % 2 = 0,
         NEW n \in Nat, n = (Len(w) - 3) \div 2
  PROVE  /\ \A j \in 0 .. n - 1 : 5 + 2 * j \in FlagPlaces(w) /\ 5 + 2 * j + 1 <= Len(w)
         /\ \A i \in FlagPlaces(w) : \E j \in 0 .. n - 1 : i = 5 + 2 * j
<1>1. PICK l \in Nat : l = Len(w)
  OBVIOUS
<1>2. l = 2 * n + 4
  BY <1>1
<1>3. ASSUME NEW j \in 0 .. n - 1
      PROVE  5 + 2 * j \in FlagPlaces(w) /\ 5 + 2 * j + 1 <= Len(w)
  <2>1. 5 + 2 * j \in 5 .. l /\ 5 + 2 * j + 1 <= l
    BY <1>2
  <2>2. (5 + 2 * j) % 2 = 1
    OBVIOUS
  <2> QED
    BY <1>1, <2>1, <2>2 DEF FlagPlaces
<1>4. ASSUME NEW i \in FlagPlaces(w) PROVE \E j \in 0 .. n - 1 : i = 5 + 2 * j
  <2>1. i \in 5 .. l /\ i % 2 = 1
    BY <1>1 DEF FlagPlaces
  <2>2. PICK j \in Int : i = 5 + 2 * j
    <3>1. (i - 5) \div 2 \in Int /\ i = 5 + 2 * ((i - 5) \div 2)
      BY <2>1
    <3> QED
      BY <3>1
  <2>3. j \in 0 .. n - 1
    BY <1>2, <2>1, <2>2
  <2> QED
    BY <2>2, <2>3
<1> QED
  BY <1>3, <1>4

\* A line of four words is none of the short commands.
LEMMA LongLine ==
  ASSUME NEW w \in Seq(Words), Len(w) >= 4
  PROVE  w # <<"ps">> /\ Len(w) # 2
<1>1. w = <<"ps">> => Len(w) = 1
  OBVIOUS
<1>2. PICK l \in Nat : l = Len(w)
  OBVIOUS
<1>3. l >= 4
  BY <1>2
<1>4. l # 1 /\ l # 2
  BY <1>3
<1> QED
  BY <1>1, <1>2, <1>4, Zenon

\* The loop refuses exactly the start and run lines that the usage text does not allow.
LEMMA RefusalIs ==
  ASSUME NEW w \in Seq(Words), Len(w) >= 4, w[1] \in {"start", "run"},
         NEW n \in Nat, n = (Len(w) - 3) \div 2
  PROVE  WellFormed(w) <=> ~ RefusedBy(w, n)
<1>1. WellFormed(w) <=> Len(w) % 2 = 0 /\ \A i \in FlagPlaces(w) : w[i] \in Flags
  BY LongLine DEF WellFormed
<1>2. CASE Len(w) % 2 = 0
  <2>1. /\ \A j \in 0 .. n - 1 : 5 + 2 * j \in FlagPlaces(w) /\ ~ (5 + 2 * j + 1 > Len(w))
        /\ \A i \in FlagPlaces(w) : \E j \in 0 .. n - 1 : i = 5 + 2 * j
    <3>1. \A j \in 0 .. n - 1 : 5 + 2 * j + 1 <= Len(w) => ~ (5 + 2 * j + 1 > Len(w))
      OBVIOUS
    <3> QED
      BY <1>2, <3>1, PlacesAre
  <2>2. ASSUME \A i \in FlagPlaces(w) : w[i] \in Flags PROVE ~ RefusedBy(w, n)
    BY <2>1, <2>2 DEF RefusedBy, Refuses, FlagAt
  <2>3. ASSUME ~ RefusedBy(w, n), NEW i \in FlagPlaces(w) PROVE w[i] \in Flags
    BY <2>1, <2>3 DEF RefusedBy, Refuses, FlagAt
  <2> QED
    BY <1>1, <1>2, <2>2, <2>3
<1>3. CASE Len(w) % 2 # 0
  <2>1. n - 1 \in 0 .. n - 1 /\ 5 + 2 * (n - 1) + 1 > Len(w)
    <3>1. PICK l \in Nat : l = Len(w)
      OBVIOUS
    <3>2. l = 2 * n + 3 /\ n >= 1
      BY <1>3, <3>1
    <3> QED
      BY <3>1, <3>2
  <2>2. RefusedBy(w, n)
    BY <2>1 DEF RefusedBy, Refuses
  <2> QED
    BY <1>1, <1>3, <2>2
<1> QED
  BY <1>2, <1>3

\* The value the loop has found for a flag is the one of its last use.
LEMMA ValueIs ==
  ASSUME NEW w \in Seq(Words), Len(w) >= 4, Len(w) % 2 = 0,
         NEW n \in Nat, n = (Len(w) - 3) \div 2,
         NEW flag, NEW default, NEW v, ValueBy(w, n, flag, default, v)
  PROVE  v = ValueOf(w, flag, default)
<1> DEFINE uses == {i \in FlagPlaces(w) : w[i] = flag}
           last == CHOOSE i \in uses : \A j \in uses : j <= i
<1>1. ValueOf(w, flag, default) = IF uses = {} THEN default ELSE Atoi[w[1 + last]]
  BY DEF ValueOf
<1>2. /\ \A j \in 0 .. n - 1 : 5 + 2 * j \in FlagPlaces(w)
      /\ \A i \in FlagPlaces(w) : \E j \in 0 .. n - 1 : i = 5 + 2 * j
  BY PlacesAre
<1>3. CASE v = default /\ \A j \in 0 .. n - 1 : FlagAt(w, j) # flag
  <2>1. uses = {}
    BY <1>2, <1>3 DEF FlagAt
  <2> QED
    BY <1>1, <1>3, <2>1
<1>4. ASSUME NEW j \in 0 .. n - 1, FlagAt(w, j) = flag, v = ValueAt(w, j),
             \A m \in 0 .. n - 1 : j < m => FlagAt(w, m) # flag
      PROVE  v = ValueOf(w, flag, default)
  <2> DEFINE i == 5 + 2 * j
  <2>1. i \in uses /\ i \in Int
    BY <1>2, <1>4 DEF FlagAt
  <2>2. ASSUME NEW k \in uses PROVE k <= i /\ k \in Int
    <3>1. PICK m \in 0 .. n - 1 : k = 5 + 2 * m /\ FlagAt(w, m) = flag
      BY <1>2 DEF FlagAt
    <3>2. ~ (j < m)
      BY <1>4, <3>1
    <3> QED
      BY <3>1, <3>2
  <2> HIDE DEF uses
  <2>3. last \in uses /\ \A k \in uses : k <= last
    BY <2>1, <2>2
  <2> HIDE DEF last
  <2>4. last = i
    <3>1. last <= i /\ i <= last /\ last \in Int
      BY <2>1, <2>2, <2>3
    <3> QED
      BY <2>1, <3>1
  <2>5. v = Atoi[w[1 + last]]
    <3>1. 1 + i = 5 + 2 * j + 1
      OBVIOUS
    <3> QED
      BY <1>4, <2>4, <3>1 DEF ValueAt
  <2> QED
    BY <1>1, <2>1, <2>5 DEF uses, last
<1> QED
  BY <1>3, <1>4 DEF ValueBy

\* A line with no room for flags has their defaults.
LEMMA ShortIsDefault ==
  ASSUME NEW w \in Seq(Words), Len(w) < 5, WellFormed(w)
  PROVE  Typed(w) = Request(w[1])
<1>1. FlagPlaces(w) = {}
  BY DEF FlagPlaces
<1>2. \A flag, default : ValueOf(w, flag, default) = default
  BY <1>1 DEF ValueOf
<1> QED
  BY <1>2 DEF Typed, Request

\* The client makes of every command line what the usage text says of it.
LEMMA ParseIsTyped ==
  ASSUME NEW w \in Seq(Words)
  PROVE  Parse(w) = Typed(w)
<1>1. CASE Len(w) >= 4 /\ w[1] \in {"start", "run"}
  <2> DEFINE r == ParseOptionalFlags(w, 5, Request(w[1]))
  <2>1. Parse(w) = r
    <3>1. w # <<>>
      BY <1>1
    <3> QED
      BY <1>1, <3>1 DEF Parse
  <2>2. PICK n \in Nat : n = (Len(w) - 3) \div 2
    BY <1>1
  <2>3. ParsedBy(w, n, r)
    BY <1>1, <2>2, LoopParses
  <2>4. WellFormed(w) <=> ~ RefusedBy(w, n)
    BY <1>1, <2>2, RefusalIs
  <2> HIDE DEF r
  <2>5. CASE ~ WellFormed(w)
    BY <2>1, <2>3, <2>4, <2>5 DEF ParsedBy, Typed
  <2>6. CASE WellFormed(w)
    <3>1. Len(w) % 2 = 0
      BY <1>1, <2>6 DEF WellFormed
    <3>2. r \in RequestType /\ r.type = w[1]
      BY <2>3, <2>4, <2>6 DEF ParsedBy
    <3>3. /\ r.soft_mib = ValueOf(w, "--soft-mib", DEFAULT_SOFT_MIB)
          /\ r.hard_mib = ValueOf(w, "--hard-mib", DEFAULT_HARD_MIB)
          /\ r.nice_value = ValueOf(w, "--nice", DEFAULT_NICE)
      BY <1>1, <2>2, <2>3, <2>4, <2>6, <3>1, ValueIs DEF ParsedBy
    <3>4. r = [type |-> r.type, soft_mib |-> r.soft_mib, hard_mib |-> r.hard_mib,
               nice_value |-> r.nice_value]
      BY <3>2 DEF RequestType
    <3> QED
      BY <2>1, <2>6, <3>2, <3>3, <3>4 DEF Typed
  <2> QED
    BY <2>5, <2>6
<1>2. CASE ~ (Len(w) >= 4 /\ w[1] \in {"start", "run"})
  <2>1. /\ Len(w) \in Nat /\ (w = <<>> <=> Len(w) = 0) /\ Len(<<"ps">>) = 1 /\ <<"ps">>[1] = "ps"
        /\ (w = <<"ps">> <=> Len(w) = 1 /\ w[1] = "ps")
    OBVIOUS
  <2>2. CASE Len(w) = 1 /\ w[1] = "ps"
    <3>1. Parse(w) = Request("ps")
      BY <2>1, <2>2 DEF Parse
    <3>2. WellFormed(w) /\ Len(w) < 5
      BY <2>1, <2>2 DEF WellFormed
    <3> QED
      BY <2>2, <3>1, <3>2, ShortIsDefault
  <2>3. CASE Len(w) = 2 /\ w[1] \in {"logs", "stop"}
    <3>1. Parse(w) = Request(w[1])
      BY <2>1, <2>3 DEF Parse
    <3>2. WellFormed(w) /\ Len(w) < 5
      BY <2>1, <2>3 DEF WellFormed
    <3> QED
      BY <2>3, <3>1, <3>2, ShortIsDefault
  <2>4. CASE /\ ~ (Len(w) = 1 /\ w[1] = "ps")
             /\ ~ (Len(w) = 2 /\ w[1] \in {"logs", "stop"})
    <3>1. Parse(w) = Usage
      BY <1>2, <2>1, <2>4 DEF Parse
    <3>2. ~ WellFormed(w)
      BY <1>2, <2>1, <2>4 DEF WellFormed
    <3> QED
      BY <3>1, <3>2 DEF Typed
  <2> QED
    BY <2>2, <2>3, <2>4
<1> QED
  BY <1>1, <1>2

\* Whatever a user types, of any length, the client sends the request the usage text
\* describes or refuses the line (main and parse_optional_flags).
THEOREM LinesParsedAsTyped == Spec => []ParsedAsTyped
<1>1. IndInv => ParsedAsTyped
  BY ParseIsTyped DEF IndInv, Types, ParsedAsTyped
<1> QED
  BY <1>1, Inductive, PTL

=============================================================================
