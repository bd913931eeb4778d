---------------------------- MODULE MonitorProofs ----------------------------
(***************************************************************************)
(* Proofs about Monitor, for any set of PIDs, any requests, any sizes and  *)
(* any width of unsigned long, whether or not calls fail.                  *)
(*                                                                         *)
(* The inductive invariant IndInv adds to the types where the scan is      *)
(* (ScanInv), that the soft_warned flag of an entry and the warnings given *)
(* for its PID agree (WarnInv), what was found out about the entry that is *)
(* about to be killed (KillInv), and which entries this pass has looked at *)
(* (VisitInv).  OneEntryPerPid takes part in the induction: a warning for  *)
(* one entry must not count for another.                                   *)
(*                                                                         *)
(* Who may be killed (KillJustified) holds when PIDs are not given out     *)
(* again, and needs that sizes read by the scan were real ones (PeakInv).  *)
(***************************************************************************)
EXTENDS Monitor, SequenceTheorems, TLAPS

\* struct monitor_entry.
Entry == [pid : Pids, soft_limit : ULongs, hard_limit : ULongs, soft_warned : BOOLEAN]

\* A process as the kernel sees it.
Process == [st : {"unborn", "alive", "zombie", "gone"}, rss : RssLevels, killed : BOOLEAN]

\* The scan has an entry in its hands.
OnEntry == thread \in {"rss", "judge", "kill"}

\* The position of the scan is in the list while it looks at an entry, and no thread
\* runs before monitor_init has started it or after monitor_exit has joined it.
ScanInv ==
  /\ cursor \in Nat \ {0}
  /\ OnEntry => cursor \in DOMAIN monitor_list
  /\ module \in {"unloaded", "device", "freed"} => thread \in {"none", "done"}

\* soft_warned says whether the PID was warned of since its registration.
WarnInv ==
  \A i \in DOMAIN monitor_list :
    /\ monitor_list[i].soft_warned => warnings[monitor_list[i].pid] = 1
    /\ ~ monitor_list[i].soft_warned => warnings[monitor_list[i].pid] = 0

\* An entry about to be killed for is over its hard limit, and warned of if it is over
\* its soft limit too.
KillInv ==
  thread = "kill" =>
    /\ rss_mib > Current.hard_limit
    /\ rss_mib > Current.soft_limit => Current.soft_warned

\* The pass has looked at every entry before its position, and at the one in its hands.
VisitInv ==
  /\ Locked => \A i \in DOMAIN monitor_list : i < cursor => monitor_list[i].pid \in visited
  /\ OnEntry => Current.pid \in visited

\* The inductive invariant.
IndInv ==
  TypeOK /\ ScanInv /\ OneEntryPerPid /\ WarnInv /\ WarnedOnce /\ KillInv /\ VisitInv

-----------------------------------------------------------------------------
(* The operators of the model.                                             *)

\* A sequence without its k-th element.
LEMMA RemoveAtIs ==
  ASSUME NEW E, NEW s \in Seq(E), NEW k \in 1 .. Len(s)
  PROVE  /\ RemoveAt(s, k) \in Seq(E)
         /\ Len(RemoveAt(s, k)) = Len(s) - 1
         /\ \A i \in 1 .. Len(s) - 1 :
              RemoveAt(s, k)[i] = IF i < k THEN s[i] ELSE s[i + 1]
<1> DEFINE a == SubSeq(s, 1, k - 1)
           b == SubSeq(s, k + 1, Len(s))
<1>1. /\ a \in Seq(E) /\ Len(a) = k - 1
      /\ \A i \in 1 .. k - 1 : a[i] = s[i]
  BY SMT
<1>2. /\ b \in Seq(E) /\ Len(b) = Len(s) - k
      /\ \A i \in 1 .. Len(s) - k : b[i] = s[i + k]
  BY SMT
<1>3. RemoveAt(s, k) = a \o b
  BY DEF RemoveAt
<1> HIDE DEF a, b
<1>4. a \o b \in Seq(E) /\ Len(a \o b) = Len(s) - 1
  <2>1. a \o b \in Seq(E) /\ Len(a \o b) = Len(a) + Len(b)
    BY <1>1, <1>2, ConcatProperties
  <2>2. Len(s) \in Nat
    OBVIOUS
  <2> QED
    BY <1>1, <1>2, <2>1, <2>2
<1>5. \A i \in 1 .. Len(s) - 1 : (a \o b)[i] = IF i < k THEN s[i] ELSE s[i + 1]
  <2> SUFFICES ASSUME NEW i \in 1 .. Len(s) - 1
               PROVE  (a \o b)[i] = IF i < k THEN s[i] ELSE s[i + 1]
    OBVIOUS
  <2>1. CASE i < k
    BY <1>1, <1>2, <2>1, SMT
  <2>2. CASE i >= k
    <3>1. (a \o b)[i] = b[i - (k - 1)]
      BY <1>1, <1>2, <2>2, SMT
    <3>2. i - (k - 1) \in 1 .. Len(s) - k /\ i - (k - 1) + k = i + 1
      BY <2>2
    <3>3. b[i - (k - 1)] = s[i - (k - 1) + k]
      BY <1>2, <3>2
    <3>4. ~ (i < k)
      BY <2>2
    <3>5. (a \o b)[i] = s[i + 1]
      BY <3>1, <3>2, <3>3, Zenon
    <3> QED
      BY <3>4, <3>5, SMT
  <2>3. i < k \/ i >= k
    OBVIOUS
  <2> QED
    BY <2>1, <2>2, <2>3, Zenon
<1> QED
  BY <1>3, <1>4, <1>5

\* A limit is an unsigned long after its conversion, whatever int it was.
LEMMA ULongTyped ==
  ASSUME NEW n \in Int
  PROVE  ULong(n) \in ULongs
<1>1. PICK w \in Nat \ {0} : w = 2 ^ ULONG_BITS
  BY WidthAssumption
<1>2. n % w \in 0 .. w - 1
  OBVIOUS
<1> QED
  BY <1>1, <1>2 DEF ULong, ULongs

\* A request that monitor_ioctl accepts makes an entry.
LEMMA NewEntryTyped ==
  ASSUME NEW r \in Requests, r.pid > 0
  PROVE  NewEntry(r) \in Entry /\ r.pid \in Pids
<1>1. r.pid \in Pids \cup {0} /\ r.soft_mib \in Int /\ r.hard_mib \in Int
  BY RequestsAssumption
<1>2. r.pid \in Pids
  BY <1>1
<1>3. ULong(r.soft_mib) \in ULongs /\ ULong(r.hard_mib) \in ULongs
  BY <1>1, ULongTyped
<1> QED
  BY <1>2, <1>3 DEF NewEntry, Entry

\* The search of the list finds the PID.
LEMMA PositionIs ==
  ASSUME NEW p, Registered(p)
  PROVE  Position(p) \in DOMAIN monitor_list /\ monitor_list[Position(p)].pid = p
  BY Zenon DEF Registered, Position

\* What the type invariant says of the list and the processes.
LEMMA ListTyped ==
  ASSUME TypeOK
  PROVE  /\ monitor_list \in Seq(Entry)
         /\ Len(monitor_list) \in Nat
         /\ DOMAIN monitor_list = 1 .. Len(monitor_list)
         /\ \A i \in DOMAIN monitor_list : monitor_list[i] \in Entry
         /\ proc \in [Pids -> Process]
<1>1. monitor_list \in Seq(Entry) /\ proc \in [Pids -> Process]
  BY DEF TypeOK, Entry, Process
<1> QED
  BY <1>1

\* The list without one of its entries.
LEMMA Removed ==
  ASSUME TypeOK, NEW k \in DOMAIN monitor_list, monitor_list' = RemoveAt(monitor_list, k)
  PROVE  /\ monitor_list' \in Seq(Entry)
         /\ DOMAIN monitor_list' = 1 .. Len(monitor_list) - 1
         /\ Len(monitor_list') = Len(monitor_list) - 1
         /\ \A i \in DOMAIN monitor_list' :
              /\ i < k => monitor_list'[i] = monitor_list[i]
              /\ i >= k => monitor_list'[i] = monitor_list[i + 1] /\ i + 1 \in DOMAIN monitor_list
<1>1. /\ monitor_list \in Seq(Entry) /\ Len(monitor_list) \in Nat
      /\ DOMAIN monitor_list = 1 .. Len(monitor_list)
  BY ListTyped
<1>2. k \in 1 .. Len(monitor_list)
  BY <1>1
<1> DEFINE s == monitor_list
           t == RemoveAt(monitor_list, k)
<1>3. /\ t \in Seq(Entry) /\ Len(t) = Len(s) - 1
      /\ \A i \in 1 .. Len(s) - 1 : t[i] = IF i < k THEN s[i] ELSE s[i + 1]
  BY <1>1, <1>2, RemoveAtIs
<1> HIDE DEF t
<1>4. DOMAIN t = 1 .. Len(s) - 1
  BY <1>3
<1>5. ASSUME NEW i \in 1 .. Len(s) - 1
      PROVE  /\ i < k => t[i] = s[i]
             /\ i >= k => t[i] = s[i + 1] /\ i + 1 \in 1 .. Len(s)
  <2>1. t[i] = IF i < k THEN s[i] ELSE s[i + 1]
    BY <1>3
  <2>2. i >= k => ~ (i < k)
    BY <1>1, <1>2
  <2>3. i + 1 \in 1 .. Len(s)
    BY <1>1
  <2> QED
    BY <2>1, <2>2, <2>3, Zenon
<1>6. monitor_list' = t
  BY DEF t
<1> QED
  BY <1>1, <1>3, <1>4, <1>5, <1>6, Zenon

-----------------------------------------------------------------------------
(* Loading, unloading, the ioctls and the processes keep the invariant.    *)

\* A step that leaves list, scan and warnings alone.
LEMMA Kept ==
  ASSUME IndInv, TypeOK', UNCHANGED <<monitor_list, scan, warnings>>,
         module' \in {"unloaded", "device", "freed"} => thread \in {"none", "done"}
  PROVE  IndInv'
  BY DEF IndInv, scan, ScanInv, OneEntryPerPid, WarnInv, WarnedOnce, KillInv, VisitInv,
         OnEntry, Locked, Current

\* A step that changes the list while no scan is under way.
LEMMA Idle ==
  ASSUME IndInv, TypeOK', ~ Locked', OneEntryPerPid', WarnInv', WarnedOnce',
         cursor' \in Nat \ {0},
         module' \in {"unloaded", "device", "freed"} => thread' \in {"none", "done"}
  PROVE  IndInv'
  BY DEF IndInv, ScanInv, KillInv, VisitInv, OnEntry, Locked

\* The list is dropped.
LEMMA Emptied ==
  ASSUME IndInv, monitor_list' = <<>>, thread \in {"none", "done"},
         UNCHANGED <<scan, should_stop, ret, proc, history>>,
         module' \in {"unloaded", "device", "loaded", "stopping", "freed"}
  PROVE  IndInv'
<1> USE DEF IndInv, scan, history
<1>1. TypeOK'
  BY DEF TypeOK, Locked
<1>2. ~ Locked' /\ cursor' \in Nat \ {0}
  BY DEF Locked, ScanInv
<1>3. OneEntryPerPid' /\ WarnInv' /\ WarnedOnce'
  BY DEF OneEntryPerPid, WarnInv, WarnedOnce
<1> QED
  BY <1>1, <1>2, <1>3, Idle

\* monitor_init and monitor_exit.
LEMMA ModuleKeeps ==
  ASSUME IndInv, CreateDevice \/ InitStep \/ ExitBegins \/ ExitStep
  PROVE  IndInv'
<1> USE DEF IndInv
<1>1. CASE CreateDevice \/ ExitBegins
  <2>1. TypeOK'
    BY <1>1 DEF CreateDevice, ExitBegins, TypeOK, scan, history, Locked
  <2> QED
    BY <1>1, <2>1, Kept DEF CreateDevice, ExitBegins, ScanInv, history
<1>2. CASE RunThread
  <2>1. TypeOK'
    BY <1>2 DEF RunThread, TypeOK, history, Locked
  <2>2. OneEntryPerPid' /\ WarnInv' /\ WarnedOnce'
    BY <1>2 DEF RunThread, OneEntryPerPid, WarnInv, WarnedOnce, history
  <2> QED
    BY <1>2, <2>1, <2>2, Idle DEF RunThread, Locked, ScanInv
<1>3. CASE ThreadFails \/ ExitEnds \/ ExitFreesList
  BY <1>3, Emptied DEF ThreadFails, ExitEnds, ExitFreesList, Vanish, ScanInv
<1> QED
  BY <1>1, <1>2, <1>3 DEF InitStep, ExitStep

\* An entry is replaced or added, and the history of its PID starts over.
LEMMA EnterKeeps ==
  ASSUME IndInv, NEW r \in Requests, RegisterUpdates(r) \/ RegisterAdds(r)
  PROVE  IndInv'
<1> USE DEF IndInv
<1>1. /\ ~ Locked /\ NewEntry(r) \in Entry /\ r.pid \in Pids
      /\ NewEntry(r).pid = r.pid /\ ~ NewEntry(r).soft_warned
  <2>1. ~ Locked /\ r.pid > 0
    BY DEF RegisterUpdates, RegisterAdds, Registers
  <2> QED
    BY <2>1, NewEntryTyped DEF NewEntry
<1>2. /\ ret' = "0" /\ warnings' = [warnings EXCEPT ![r.pid] = 0]
      /\ UNCHANGED <<module, scan, should_stop, proc, peak, victims>>
  BY DEF RegisterUpdates, RegisterAdds, Enters
<1>3. /\ warnings'[r.pid] = 0
      /\ \A p \in Pids \ {r.pid} : warnings'[p] = warnings[p]
      /\ warnings' \in [Pids -> Nat]
  BY <1>1, <1>2 DEF TypeOK
<1>4. ASSUME monitor_list' \in Seq(Entry), OneEntryPerPid',
             \A i \in DOMAIN monitor_list' :
               \/ monitor_list'[i] = NewEntry(r)
               \/ /\ monitor_list'[i].pid # r.pid
                  /\ i \in DOMAIN monitor_list /\ monitor_list'[i] = monitor_list[i]
      PROVE  IndInv'
  <2>1. TypeOK'
    BY <1>1, <1>2, <1>3, <1>4 DEF TypeOK, scan, Entry, Locked
  <2>2. WarnInv'
    <3> SUFFICES ASSUME NEW i \in DOMAIN monitor_list'
                 PROVE  /\ monitor_list'[i].soft_warned => warnings'[monitor_list'[i].pid] = 1
                        /\ ~ monitor_list'[i].soft_warned => warnings'[monitor_list'[i].pid] = 0
      BY DEF WarnInv
    <3>1. CASE monitor_list'[i] = NewEntry(r)
      BY <1>1, <1>3, <3>1
    <3>2. CASE /\ monitor_list'[i].pid # r.pid
               /\ i \in DOMAIN monitor_list /\ monitor_list'[i] = monitor_list[i]
      <4>1. monitor_list[i].pid \in Pids \ {r.pid}
        BY <3>2, ListTyped DEF Entry
      <4>2. warnings'[monitor_list'[i].pid] = warnings[monitor_list[i].pid]
        BY <1>3, <3>2, <4>1
      <4> QED
        BY <3>2, <4>2 DEF WarnInv
    <3> QED
      BY <1>4, <3>1, <3>2
  <2>3. WarnedOnce'
    <3> SUFFICES ASSUME NEW p \in Pids PROVE warnings'[p] <= 1
      BY DEF WarnedOnce
    <3>1. CASE p = r.pid
      BY <1>3, <3>1
    <3>2. CASE p # r.pid
      BY <1>3, <3>2 DEF WarnedOnce
    <3> QED
      BY <3>1, <3>2
  <2> QED
    BY <1>1, <1>2, <1>4, <2>1, <2>2, <2>3, Idle DEF scan, Locked, ScanInv
<1>5. CASE RegisterUpdates(r)
  <2>1. PICK k \in DOMAIN monitor_list :
          /\ monitor_list[k].pid = r.pid
          /\ monitor_list' = [monitor_list EXCEPT ![k] = NewEntry(r)]
    BY <1>5, PositionIs DEF RegisterUpdates, Enters
  <2>2. monitor_list' \in Seq(Entry) /\ DOMAIN monitor_list' = DOMAIN monitor_list
    BY <1>1, <2>1, ListTyped
  <2>3. /\ monitor_list'[k] = NewEntry(r)
        /\ \A i \in DOMAIN monitor_list \ {k} : monitor_list'[i] = monitor_list[i]
    BY <2>1, ListTyped
  <2>4. \A i \in DOMAIN monitor_list : monitor_list'[i].pid = monitor_list[i].pid
    BY <1>1, <2>1, <2>3
  <2>5. OneEntryPerPid'
    BY <2>2, <2>4 DEF OneEntryPerPid
  <2>6. \A i \in DOMAIN monitor_list \ {k} : monitor_list'[i].pid # r.pid
    BY <2>1, <2>4 DEF OneEntryPerPid
  <2> QED
    BY <1>4, <2>2, <2>3, <2>5, <2>6
<1>6. CASE RegisterAdds(r)
  <2>1. monitor_list' = Append(monitor_list, NewEntry(r)) /\ ~ Registered(r.pid)
    BY <1>6 DEF RegisterAdds, Enters
  <2>2. /\ monitor_list' \in Seq(Entry)
        /\ DOMAIN monitor_list' = 1 .. Len(monitor_list) + 1
        /\ monitor_list'[Len(monitor_list) + 1] = NewEntry(r)
        /\ \A i \in DOMAIN monitor_list : monitor_list'[i] = monitor_list[i]
    BY <1>1, <2>1, ListTyped
  <2>3. \A i \in DOMAIN monitor_list' : i # Len(monitor_list) + 1 =>
          /\ i \in DOMAIN monitor_list
          /\ monitor_list'[i] = monitor_list[i] /\ monitor_list'[i].pid # r.pid
    BY <2>1, <2>2, ListTyped DEF Registered
  <2>4. OneEntryPerPid'
    BY <1>1, <2>2, <2>3 DEF OneEntryPerPid
  <2> QED
    BY <1>4, <2>2, <2>3, <2>4
<1> QED
  BY <1>5, <1>6

\* MONITOR_REGISTER.
LEMMA RegisterKeeps ==
  ASSUME IndInv, NEW r \in Requests, Register(r)
  PROVE  IndInv'
<1>1. CASE RegisterRefused(r) \/ RegisterNoMemory(r)
  <2>1. TypeOK'
    BY <1>1 DEF IndInv, RegisterRefused, RegisterNoMemory, TypeOK, scan, history, Locked
  <2> QED
    BY <1>1, <2>1, Kept DEF IndInv, RegisterRefused, RegisterNoMemory, ScanInv, history
<1> QED
  BY <1>1, EnterKeeps DEF Register

\* The entries that are left have the PIDs and the warnings they had.
LEMMA RemovedKeeps ==
  ASSUME IndInv, NEW k \in DOMAIN monitor_list, monitor_list' = RemoveAt(monitor_list, k),
         warnings' = warnings
  PROVE  OneEntryPerPid' /\ WarnInv' /\ WarnedOnce'
<1> USE DEF IndInv
<1> DEFINE From(i) == IF i < k THEN i ELSE i + 1
<1>1. /\ Len(monitor_list) \in Nat /\ DOMAIN monitor_list = 1 .. Len(monitor_list)
      /\ k \in Int
  BY ListTyped
<1>9. /\ DOMAIN monitor_list' = 1 .. Len(monitor_list) - 1
      /\ \A i \in DOMAIN monitor_list' :
              /\ i < k => monitor_list'[i] = monitor_list[i]
              /\ i >= k => monitor_list'[i] = monitor_list[i + 1] /\ i + 1 \in DOMAIN monitor_list
  BY Removed
<1>2. \A i \in DOMAIN monitor_list' :
        From(i) \in DOMAIN monitor_list /\ monitor_list'[i] = monitor_list[From(i)]
  <2> SUFFICES ASSUME NEW i \in DOMAIN monitor_list'
               PROVE  From(i) \in DOMAIN monitor_list /\ monitor_list'[i] = monitor_list[From(i)]
    OBVIOUS
  <2>1. CASE i < k
    BY <1>9, <1>1, <2>1
  <2>2. CASE i >= k
    <3>1. From(i) = i + 1
      BY <1>9, <1>1, <2>2
    <3> QED
      BY <1>9, <2>2, <3>1, Zenon
  <2> QED
    BY <1>9, <1>1, <2>1, <2>2
<1>3. \A i, j \in DOMAIN monitor_list' : i # j => From(i) # From(j)
  BY <1>9, <1>1
<1> HIDE DEF From
<1>4. OneEntryPerPid'
  BY <1>2, <1>3 DEF OneEntryPerPid
<1>5. WarnInv'
  BY <1>2 DEF WarnInv
<1> QED
  BY <1>4, <1>5 DEF WarnedOnce

\* MONITOR_UNREGISTER.
LEMMA UnregisterKeeps ==
  ASSUME IndInv, NEW p \in Pids, Unregister(p)
  PROVE  IndInv'
<1> USE DEF IndInv
<1>1. CASE Registered(p)
  <2>1. PICK k \in DOMAIN monitor_list : monitor_list' = RemoveAt(monitor_list, k)
    BY <1>1, PositionIs DEF Unregister
  <2>2. monitor_list' \in Seq(Entry)
    BY <2>1, Removed
  <2>3. ret' = "0" /\ ~ Locked /\ UNCHANGED <<module, scan, should_stop, proc, history>>
    BY <1>1 DEF Unregister
  <2>4. TypeOK'
    BY <2>2, <2>3 DEF TypeOK, scan, history, Entry, Locked
  <2>5. OneEntryPerPid' /\ WarnInv' /\ WarnedOnce'
    BY <2>1, <2>3, RemovedKeeps DEF history
  <2> QED
    BY <2>3, <2>4, <2>5, Idle DEF scan, Locked, ScanInv
<1>2. CASE ~ Registered(p)
  <2>1. TypeOK'
    BY <1>2 DEF Unregister, TypeOK, scan, history, Locked
  <2> QED
    BY <1>2, <2>1, Kept DEF Unregister, ScanInv, history
<1> QED
  BY <1>1, <1>2

\* Processes are born, grow, shrink, exit and are reaped.
LEMMA ProcessKeeps ==
  ASSUME IndInv, NEW p \in Pids, Birth(p) \/ Resize(p) \/ Exits(p) \/ Reaped(p)
  PROVE  IndInv'
<1> USE DEF IndInv, environment, scan, history
<1>1. proc' \in [Pids -> Process]
  <2>1. proc \in [Pids -> Process] /\ proc[p] \in Process
    BY ListTyped
  <2>2. CASE Birth(p)
    BY <2>1, <2>2, RssAssumption DEF Birth, Process
  <2>3. CASE Resize(p)
    BY <2>1, <2>3 DEF Resize, Process
  <2>4. CASE Exits(p) \/ Reaped(p)
    BY <2>1, <2>4, RssAssumption DEF Exits, Reaped, Phase, Process
  <2> QED
    BY <2>2, <2>3, <2>4
<1>2. peak' \in [Pids -> RssLevels]
  BY RssAssumption DEF Birth, Resize, Exits, Reaped, Phase, TypeOK
<1>3. victims' \subseteq victims /\ UNCHANGED <<module, monitor_list, scan, should_stop, ret, warnings>>
  BY DEF Birth, Resize, Exits, Reaped, Phase
<1>4. TypeOK'
  BY <1>1, <1>2, <1>3 DEF TypeOK, Process, Locked
<1> QED
  BY <1>3, <1>4, Kept DEF ScanInv

-----------------------------------------------------------------------------
(* The scan keeps the invariant.                                           *)

\* The scan deletes the entry it has reached; those before it stay where they are.
LEMMA RemoveCurrentKeeps ==
  ASSUME IndInv, Locked, cursor \in DOMAIN monitor_list, RemoveCurrent,
         visited \subseteq visited', visited' \subseteq Pids,
         UNCHANGED <<module, rss_mib, should_stop, ret, proc, history>>
  PROVE  IndInv'
<1> USE DEF IndInv, history
<1>1. /\ monitor_list' = RemoveAt(monitor_list, cursor)
      /\ cursor' = cursor /\ thread' = "exists"
  BY DEF RemoveCurrent
<1>2. /\ monitor_list' \in Seq(Entry)
      /\ DOMAIN monitor_list' = 1 .. Len(monitor_list) - 1
      /\ Len(monitor_list') = Len(monitor_list) - 1
      /\ \A i \in DOMAIN monitor_list' : i < cursor => monitor_list'[i] = monitor_list[i]
  BY <1>1, Removed
<1>3. cursor \in 1 .. Len(monitor_list) /\ Len(monitor_list) \in Nat
      /\ DOMAIN monitor_list = 1 .. Len(monitor_list)
  BY ListTyped
<1>4. TypeOK'
  <2>1. cursor' \in 1 .. Len(monitor_list') + 1
    BY <1>1, <1>2, <1>3
  <2> QED
    BY <1>1, <1>2, <2>1 DEF TypeOK, Entry
<1>5. ScanInv' /\ KillInv'
  BY <1>1 DEF ScanInv, OnEntry, KillInv, Locked
<1>6. OneEntryPerPid' /\ WarnInv' /\ WarnedOnce'
  BY <1>1, RemovedKeeps
<1>7. VisitInv'
  <2> SUFFICES ASSUME NEW i \in DOMAIN monitor_list', i < cursor'
               PROVE  monitor_list'[i].pid \in visited'
    BY <1>1 DEF VisitInv, OnEntry
  <2>1. i \in DOMAIN monitor_list /\ i < cursor /\ monitor_list'[i] = monitor_list[i]
    BY <1>1, <1>2, <1>3
  <2> QED
    BY <2>1 DEF VisitInv
<1> QED
  BY <1>4, <1>5, <1>6, <1>7

\* The thread between two passes.
LEMMA IdleThreadKeeps ==
  ASSUME IndInv, ThreadEnds \/ ScanEnds \/ Wakes
  PROVE  IndInv'
<1> USE DEF IndInv, ThreadGoes, history
<1>1. /\ thread' \in {"done", "sleep", "top"} /\ thread \in {"top", "exists", "sleep"}
      /\ UNCHANGED <<module, monitor_list, cursor, rss_mib, visited, should_stop, ret,
                     proc, peak, warnings, victims>>
  BY DEF ThreadEnds, ScanEnds, Wakes
<1>2. TypeOK' /\ ~ Locked'
  BY <1>1 DEF TypeOK, Locked
<1>3. OneEntryPerPid' /\ WarnInv' /\ WarnedOnce'
  BY <1>1 DEF OneEntryPerPid, WarnInv, WarnedOnce
<1> QED
  BY <1>1, <1>2, <1>3, Idle DEF ScanInv

\* A pass begins at the first entry.
LEMMA ScanBeginsKeeps ==
  ASSUME IndInv, ScanBegins
  PROVE  IndInv'
<1> USE DEF IndInv, ScanBegins, history
<1>1. TypeOK'
  <2>1. cursor' \in 1 .. Len(monitor_list') + 1
    BY ListTyped
  <2> QED
    BY <2>1 DEF TypeOK
<1>2. ScanInv' /\ KillInv'
  BY DEF ScanInv, OnEntry, KillInv
<1>3. OneEntryPerPid' /\ WarnInv' /\ WarnedOnce'
  BY DEF OneEntryPerPid, WarnInv, WarnedOnce
<1>4. VisitInv'
  BY ListTyped DEF VisitInv, OnEntry
<1> QED
  BY <1>1, <1>2, <1>3, <1>4

\* The scan looks at an entry, and deletes it if its process is gone.
LEMMA CheckExistsKeeps ==
  ASSUME IndInv, CheckExists
  PROVE  IndInv'
<1> USE DEF IndInv, history
<1>1. cursor \in DOMAIN monitor_list /\ Current \in Entry
  BY ListTyped DEF CheckExists, ScanInv, Current
<1>2. thread = "exists" /\ Locked /\ visited' = visited \cup {Current.pid}
      /\ visited \subseteq visited' /\ visited' \subseteq Pids
  BY <1>1 DEF CheckExists, Locked, TypeOK, Entry
<1>3. UNCHANGED <<module, rss_mib, should_stop, ret, proc, history>>
  BY DEF CheckExists
<1>4. CASE proc[Current.pid].st = "gone"
  BY <1>1, <1>2, <1>3, <1>4, RemoveCurrentKeeps DEF CheckExists
<1>5. CASE proc[Current.pid].st # "gone"
  <2>1. thread' = "rss" /\ UNCHANGED <<monitor_list, cursor>>
    BY <1>5 DEF CheckExists
  <2>2. TypeOK'
    BY <1>2, <1>3, <2>1 DEF TypeOK, Locked
  <2>3. ScanInv' /\ KillInv'
    BY <1>1, <1>2, <1>3, <2>1 DEF ScanInv, OnEntry, KillInv
  <2>4. OneEntryPerPid' /\ WarnInv' /\ WarnedOnce'
    BY <1>3, <2>1 DEF OneEntryPerPid, WarnInv, WarnedOnce
  <2>5. VisitInv'
    BY <1>2, <2>1 DEF VisitInv, Current
  <2> QED
    BY <2>2, <2>3, <2>4, <2>5
<1> QED
  BY <1>4, <1>5

\* The scan reads the size, or deletes the entry of a process without memory.
LEMMA ReadRssKeeps ==
  ASSUME IndInv, ReadRss
  PROVE  IndInv'
<1> USE DEF IndInv, history
<1>1. cursor \in DOMAIN monitor_list /\ Current \in Entry
  BY ListTyped DEF ReadRss, ScanInv, OnEntry, Current
<1>2. thread = "rss" /\ Locked
      /\ UNCHANGED <<module, visited, should_stop, ret, proc, history>>
  BY DEF ReadRss, Locked
<1>3. CASE HasMm(Current.pid)
  <2>1. /\ rss_mib' = RssMib(Current.pid) /\ thread' = "judge"
        /\ UNCHANGED <<monitor_list, cursor>>
    BY <1>3 DEF ReadRss
  <2>2. RssMib(Current.pid) \in Nat
    <3>1. PICK n \in Nat : n = proc[Current.pid].rss
      BY <1>1, ListTyped, RssAssumption DEF Entry, Process
    <3>2. PICK u \in Nat \ {0} : u = UnitsPerMib
      BY UnitsAssumption
    <3>3. n \div u \in Nat
      BY SMT
    <3> QED
      BY <3>1, <3>2, <3>3 DEF RssMib
  <2>3. TypeOK'
    BY <1>2, <2>1, <2>2 DEF TypeOK, Locked
  <2>4. ScanInv' /\ KillInv'
    BY <1>1, <1>2, <2>1 DEF ScanInv, OnEntry, KillInv
  <2>5. OneEntryPerPid' /\ WarnInv' /\ WarnedOnce'
    BY <1>2, <2>1 DEF OneEntryPerPid, WarnInv, WarnedOnce
  <2>6. VisitInv'
    BY <1>2, <2>1 DEF VisitInv, OnEntry, Current
  <2> QED
    BY <2>3, <2>4, <2>5, <2>6
<1>4. CASE ~ HasMm(Current.pid)
  <2>1. RemoveCurrent /\ UNCHANGED rss_mib
    BY <1>4 DEF ReadRss
  <2>2. visited \subseteq visited' /\ visited' \subseteq Pids
    BY <1>2 DEF TypeOK
  <2> QED
    BY <1>1, <1>2, <2>1, <2>2, RemoveCurrentKeeps
<1> QED
  BY <1>3, <1>4

\* What a judgement leaves of the list: the entry in hand may be marked as warned of.
LEMMA JudgedList ==
  ASSUME IndInv, Judge
  PROVE  /\ monitor_list' \in Seq(Entry)
         /\ Len(monitor_list') = Len(monitor_list) /\ DOMAIN monitor_list' = DOMAIN monitor_list
         /\ \A i \in DOMAIN monitor_list :
              /\ monitor_list'[i].pid = monitor_list[i].pid
              /\ monitor_list'[i].soft_limit = monitor_list[i].soft_limit
              /\ monitor_list'[i].hard_limit = monitor_list[i].hard_limit
              /\ i # cursor => monitor_list'[i] = monitor_list[i]
         /\ rss_mib > Current.soft_limit => monitor_list'[cursor].soft_warned
         /\ warnings' \in [Pids -> Nat]
         /\ WarnInv' /\ WarnedOnce'
<1> USE DEF IndInv
<1>1. cursor \in DOMAIN monitor_list /\ Current \in Entry /\ Current = monitor_list[cursor]
  BY ListTyped DEF Judge, ScanInv, OnEntry, Current
<1>2. CASE OverSoft
  <2>1. /\ monitor_list' = [monitor_list EXCEPT ![cursor].soft_warned = TRUE]
        /\ warnings' = [warnings EXCEPT ![Current.pid] = @ + 1]
    BY <1>2 DEF Judge
  <2>2. [monitor_list[cursor] EXCEPT !.soft_warned = TRUE] \in Entry
    BY <1>1 DEF Entry
  <2>3. /\ monitor_list' \in Seq(Entry) /\ Len(monitor_list') = Len(monitor_list)
        /\ DOMAIN monitor_list' = DOMAIN monitor_list
        /\ monitor_list'[cursor] = [monitor_list[cursor] EXCEPT !.soft_warned = TRUE]
        /\ \A i \in DOMAIN monitor_list \ {cursor} : monitor_list'[i] = monitor_list[i]
    BY <1>1, <2>1, <2>2, ListTyped
  <2>4. /\ monitor_list'[cursor].soft_warned
        /\ monitor_list'[cursor].pid = monitor_list[cursor].pid
        /\ monitor_list'[cursor].soft_limit = monitor_list[cursor].soft_limit
        /\ monitor_list'[cursor].hard_limit = monitor_list[cursor].hard_limit
    BY <1>1, <2>3 DEF Entry
  <2>5. warnings[Current.pid] = 0
    BY <1>1, <1>2 DEF OverSoft, WarnInv
  <2>6. PICK q \in Pids : q = Current.pid
    BY <1>1 DEF Entry
  <2>7. /\ warnings' \in [Pids -> Nat] /\ warnings'[q] = 1
        /\ \A p \in Pids \ {q} : warnings'[p] = warnings[p]
    BY <2>1, <2>5, <2>6 DEF TypeOK
  <2>8. WarnInv'
    <3> SUFFICES ASSUME NEW i \in DOMAIN monitor_list
                 PROVE  /\ monitor_list'[i].soft_warned => warnings'[monitor_list'[i].pid] = 1
                        /\ ~ monitor_list'[i].soft_warned => warnings'[monitor_list'[i].pid] = 0
      BY <2>3 DEF WarnInv
    <3>1. CASE i = cursor
      BY <1>1, <2>4, <2>6, <2>7, <3>1
    <3>2. CASE i # cursor
      <4>1. monitor_list'[i] = monitor_list[i] /\ monitor_list[i].pid # q
        BY <1>1, <2>3, <2>6, <3>2 DEF OneEntryPerPid
      <4>2. monitor_list[i].pid \in Pids
        BY ListTyped DEF Entry
      <4> QED
        BY <2>7, <4>1, <4>2 DEF WarnInv
    <3> QED
      BY <3>1, <3>2
  <2>9. WarnedOnce'
    <3> SUFFICES ASSUME NEW p \in Pids PROVE warnings'[p] <= 1
      BY DEF WarnedOnce
    <3>1. CASE p = q
      BY <2>7, <3>1
    <3>2. CASE p # q
      BY <2>7, <3>2 DEF WarnedOnce
    <3> QED
      BY <3>1, <3>2
  <2> QED
    BY <2>3, <2>4, <2>7, <2>8, <2>9
<1>3. CASE ~ OverSoft
  <2>1. UNCHANGED <<monitor_list, warnings>>
    BY <1>3 DEF Judge
  <2>2. WarnInv' /\ WarnedOnce'
    BY <2>1 DEF WarnInv, WarnedOnce
  <2>3. rss_mib > Current.soft_limit => monitor_list'[cursor].soft_warned
    BY <1>1, <1>3, <2>1 DEF OverSoft
  <2> QED
    BY <2>1, <2>2, <2>3, ListTyped DEF TypeOK
<1> QED
  BY <1>2, <1>3

\* The scan compares the size with both limits.
LEMMA JudgeKeeps ==
  ASSUME IndInv, Judge
  PROVE  IndInv'
<1> USE DEF IndInv, history
<1>1. /\ cursor \in 1 .. Len(monitor_list) /\ Len(monitor_list) \in Nat
      /\ DOMAIN monitor_list = 1 .. Len(monitor_list)
  BY ListTyped DEF Judge, ScanInv, OnEntry
<1>2. thread = "judge" /\ UNCHANGED <<module, rss_mib, visited, should_stop, ret, proc, peak, victims>>
  BY DEF Judge
<1>3. \/ OverHard /\ thread' = "kill" /\ cursor' = cursor
      \/ ~ OverHard /\ thread' = "exists" /\ cursor' = cursor + 1
  BY DEF Judge
<1>4. TypeOK'
  <2>1. cursor' \in 1 .. Len(monitor_list') + 1
    BY <1>1, <1>3, JudgedList
  <2> QED
    BY <1>2, <1>3, <2>1, JudgedList DEF TypeOK, Entry
<1>5. ScanInv'
  BY <1>1, <1>2, <1>3, JudgedList DEF ScanInv, OnEntry
<1>6. OneEntryPerPid'
  BY JudgedList DEF OneEntryPerPid
<1>7. KillInv'
  BY <1>1, <1>2, <1>3, JudgedList DEF KillInv, Current, OverHard
<1>8. VisitInv'
  <2>1. Current.pid \in visited /\ Current = monitor_list[cursor]
        /\ \A i \in DOMAIN monitor_list : i < cursor => monitor_list[i].pid \in visited
    BY <1>2 DEF VisitInv, OnEntry, Locked, Current
  <2>2. \A i \in DOMAIN monitor_list' : i < cursor' => monitor_list'[i].pid \in visited'
    <3> SUFFICES ASSUME NEW i \in DOMAIN monitor_list, i < cursor + 1
                 PROVE  monitor_list'[i].pid \in visited'
      BY <1>1, <1>3, JudgedList
    <3>1. i < cursor \/ i = cursor
      BY <1>1
    <3> QED
      BY <1>2, <2>1, <3>1, JudgedList
  <2>3. OnEntry' => monitor_list'[cursor'].pid \in visited'
    BY <1>1, <1>2, <1>3, <2>1, JudgedList DEF OnEntry
  <2> QED
    BY <2>2, <2>3 DEF VisitInv, Current
<1> QED
  BY <1>4, <1>5, <1>6, <1>7, <1>8, JudgedList

\* The scan sends SIGKILL and goes on.
LEMMA SigkillKeeps ==
  ASSUME IndInv, SendSigkill
  PROVE  IndInv'
<1> USE DEF IndInv
<1>1. /\ cursor \in 1 .. Len(monitor_list) /\ Len(monitor_list) \in Nat
      /\ DOMAIN monitor_list = 1 .. Len(monitor_list)
      /\ Current \in Entry /\ Current = monitor_list[cursor]
  BY ListTyped DEF SendSigkill, ScanInv, OnEntry, Current
<1>2. /\ thread = "kill" /\ thread' = "exists" /\ cursor' = cursor + 1
      /\ UNCHANGED <<module, monitor_list, rss_mib, visited, should_stop, ret, peak, warnings>>
  BY DEF SendSigkill
<1>3. /\ proc' \in [Pids -> Process]
      /\ victims' \subseteq [pid : Pids, hard_limit : ULongs]
  <2>1. proc[Current.pid] \in Process /\ proc \in [Pids -> Process]
    BY <1>1, ListTyped DEF Entry
  <2>2. CASE proc[Current.pid].st = "alive"
    <3>1. /\ proc' = [proc EXCEPT ![Current.pid].killed = TRUE]
          /\ victims' = victims \cup {[pid |-> Current.pid, hard_limit |-> Current.hard_limit]}
      BY <2>2 DEF SendSigkill
    <3>2. Current.pid \in Pids /\ Current.hard_limit \in ULongs
      BY <1>1 DEF Entry
    <3>3. proc' \in [Pids -> Process]
      BY <2>1, <3>1 DEF Process
    <3>4. victims \subseteq [pid : Pids, hard_limit : ULongs]
      BY DEF TypeOK
    <3> QED
      BY <3>1, <3>2, <3>3, <3>4
  <2>3. CASE proc[Current.pid].st # "alive"
    BY <2>1, <2>3 DEF SendSigkill, TypeOK
  <2> QED
    BY <2>2, <2>3
<1>4. TypeOK'
  BY <1>1, <1>2, <1>3 DEF TypeOK, Process
<1>5. ScanInv' /\ KillInv'
  BY <1>1, <1>2 DEF ScanInv, OnEntry, KillInv
<1>6. OneEntryPerPid' /\ WarnInv' /\ WarnedOnce'
  BY <1>2 DEF OneEntryPerPid, WarnInv, WarnedOnce
<1>7. VisitInv'
  <2>1. \A i \in DOMAIN monitor_list : i < cursor + 1 => i < cursor \/ i = cursor
    BY <1>1
  <2> QED
    BY <1>1, <1>2, <2>1 DEF VisitInv, OnEntry, Locked
<1> QED
  BY <1>4, <1>5, <1>6, <1>7

-----------------------------------------------------------------------------
(* The theorems that hold however PIDs are given out.                      *)

\* The invariant holds while the module is not loaded yet.
LEMMA InitInd == Init => IndInv
<1> SUFFICES ASSUME Init PROVE IndInv
  OBVIOUS
<1>1. TypeOK
  <2>1. monitor_list \in Seq(Entry)
    BY DEF Init
  <2>2. proc \in [Pids -> Process] /\ peak \in [Pids -> RssLevels] /\ warnings \in [Pids -> Nat]
    BY RssAssumption DEF Init, Process
  <2> QED
    BY <2>1, <2>2 DEF Init, TypeOK, Entry, Process, Locked
<1> QED
  BY <1>1 DEF Init, IndInv, ScanInv, OneEntryPerPid, WarnInv, WarnedOnce, KillInv, VisitInv,
              OnEntry, Locked

\* Every step keeps the invariant.
LEMMA NextKeepsInd == IndInv /\ [Next]_vars => IndInv'
<1> SUFFICES ASSUME IndInv, [Next]_vars PROVE IndInv'
  OBVIOUS
<1>1. CASE UNCHANGED vars
  <2>1. TypeOK'
    BY <1>1 DEF IndInv, TypeOK, vars, scan, history, Locked
  <2> QED
    BY <1>1, <2>1, Kept DEF IndInv, vars, history, ScanInv
<1>2. CASE ThreadStep
  BY <1>2, IdleThreadKeeps, ScanBeginsKeeps, CheckExistsKeeps, ReadRssKeeps, JudgeKeeps,
     SigkillKeeps DEF ThreadStep
<1> QED
  BY <1>1, <1>2, ModuleKeeps, RegisterKeeps, UnregisterKeeps, ProcessKeeps DEF Next

\* The invariant holds.
LEMMA Inductive == Spec => []IndInv
  BY InitInd, NextKeepsInd, PTL DEF Spec

\* Type correctness of the monitor: in particular a limit stored is an unsigned long
\* whatever the engine sent, and the scan never leaves the list it deletes from.
THEOREM TypeCorrect == Spec => []TypeOK
  BY Inductive, PTL DEF IndInv

\* However registrations, scans and process ends interleave, a PID has one entry in
\* monitor_list (monitor_ioctl updates an entry it finds).
THEOREM EntriesUnique == Spec => []OneEntryPerPid
  BY Inductive, PTL DEF IndInv

\* A registration is warned of at most once by the soft limit, over any number of
\* passes (soft_warned in monitor_thread_fn).
THEOREM WarnsOnce == Spec => []WarnedOnce
  BY Inductive, PTL DEF IndInv

\* Over the hard limit is over a soft limit that is not above it.
LEMMA TiersFollow == IndInv => TwoTiers
<1> SUFFICES ASSUME IndInv, thread = "kill", Current.soft_limit <= Current.hard_limit
             PROVE  warnings[Current.pid] = 1
  BY DEF TwoTiers
<1>1. cursor \in DOMAIN monitor_list /\ Current = monitor_list[cursor] /\ Current \in Entry
  BY ListTyped DEF IndInv, ScanInv, OnEntry, Current
<1>2. rss_mib > Current.soft_limit
  <2>1. Current.soft_limit \in Int /\ Current.hard_limit \in Int
    <3>1. PICK w \in Nat : w = 2 ^ ULONG_BITS
      BY WidthAssumption
    <3> QED
      BY <1>1, <3>1 DEF Entry, ULongs
  <2> QED
    BY <2>1 DEF IndInv, KillInv, TypeOK
<1> QED
  BY <1>1, <1>2 DEF IndInv, KillInv, WarnInv

\* Whoever monitor_thread_fn is about to kill has been warned of, if the soft limit is
\* not above the hard limit.
THEOREM WarnsBeforeKill == Spec => []TwoTiers
  BY Inductive, TiersFollow, PTL

\* At the end of the list every entry is before the position.
LEMMA PassFollows == IndInv => PassVisitsAll
<1> SUFFICES ASSUME IndInv, thread = "exists", cursor > Len(monitor_list),
                    NEW i \in DOMAIN monitor_list
             PROVE  monitor_list[i].pid \in visited
  BY DEF PassVisitsAll
<1>1. i < cursor
  BY ListTyped DEF IndInv, ScanInv
<1> QED
  BY <1>1 DEF IndInv, VisitInv, Locked

\* A pass looks at every entry that is on the list at its end, although it deletes
\* entries as it goes (list_for_each_entry_safe in monitor_thread_fn).
THEOREM PassesVisitAll == Spec => []PassVisitsAll
  BY Inductive, PassFollows, PTL

-----------------------------------------------------------------------------
(* Who is killed, if PIDs are not given out again.                         *)

\* A process is no larger than its peak, has been born if the monitor knows of it, and
\* was once as large as the scan read.
PeakInv ==
  /\ \A p \in Pids : proc[p].rss <= peak[p]
  /\ \A i \in DOMAIN monitor_list : proc[monitor_list[i].pid].st # "unborn"
  /\ \A v \in victims : proc[v.pid].st # "unborn"
  /\ thread \in {"judge", "kill"} => rss_mib * UnitsPerMib <= peak[Current.pid]
  /\ KillJustified

\* A process that has been born keeps its peak, or raises it.
PeaksGrow ==
  /\ \A p \in Pids : proc'[p].rss <= peak'[p]
  /\ \A p \in Pids : proc[p].st # "unborn" => proc'[p].st # "unborn" /\ peak[p] <= peak'[p]

\* Without reuse of PIDs every step makes peaks grow only.
LEMMA PeaksGrowing ==
  ASSUME ~ Wrap, IndInv, PeakInv, [Next]_vars
  PROVE  PeaksGrow
<1> USE DEF IndInv
<1>1. /\ proc \in [Pids -> Process] /\ peak \in [Pids -> Nat]
      /\ \A p \in Pids : proc[p] \in Process /\ proc[p].rss <= peak[p]
  BY ListTyped, RssAssumption DEF TypeOK, PeakInv
<1>2. CASE UNCHANGED <<proc, peak>>
  BY <1>1, <1>2 DEF PeaksGrow
<1>3. ASSUME NEW p \in Pids, Birth(p) PROVE PeaksGrow
  BY <1>1, <1>3 DEF Birth, PeaksGrow, Process
<1>4. ASSUME NEW p \in Pids, Resize(p) PROVE PeaksGrow
  <2>1. PICK r \in Nat : /\ proc' = [proc EXCEPT ![p].rss = r]
                         /\ peak' = [peak EXCEPT ![p] = IF r > @ THEN r ELSE @]
    BY <1>4, RssAssumption DEF Resize
  <2> QED
    BY <1>1, <2>1 DEF PeaksGrow, Process
<1>5. ASSUME NEW p \in Pids, Exits(p) \/ Reaped(p) PROVE PeaksGrow
  BY <1>1, <1>5 DEF Exits, Reaped, Phase, PeaksGrow, Process, history
<1>6. CASE SendSigkill
  <2>1. Current.pid \in Pids
    BY <1>6, ListTyped DEF SendSigkill, ScanInv, OnEntry, Current, Entry
  <2>2. peak' = peak /\ (proc' = proc \/ proc' = [proc EXCEPT ![Current.pid].killed = TRUE])
    BY <1>6 DEF SendSigkill
  <2> QED
    BY <1>1, <2>1, <2>2 DEF PeaksGrow, Process
<1>7. \/ UNCHANGED <<proc, peak>> \/ SendSigkill
      \/ \E p \in Pids : Birth(p) \/ Resize(p) \/ Exits(p) \/ Reaped(p)
  BY Zenon
     DEF Next, CreateDevice, InitStep, RunThread, ThreadFails, Vanish, ExitBegins, ExitStep,
         ExitFreesList, ExitEnds, Register, RegisterRefused, RegisterUpdates, RegisterAdds,
         RegisterNoMemory, Enters, Unregister, ThreadStep, ThreadEnds, ScanBegins, ScanEnds,
         Wakes, ThreadGoes, CheckExists, ReadRss, Judge, vars, history
<1> QED
  BY <1>2, <1>3, <1>4, <1>5, <1>6, <1>7

\* The PIDs of the list are those of the list before, or of a process that was born.
LEMMA ListedWereBorn ==
  ASSUME IndInv, PeakInv, [Next]_vars, NEW i \in DOMAIN monitor_list'
  PROVE  monitor_list'[i].pid \in Pids /\ proc[monitor_list'[i].pid].st # "unborn"
<1> USE DEF IndInv
<1> DEFINE Goal == monitor_list'[i].pid \in Pids /\ proc[monitor_list'[i].pid].st # "unborn"
<1>1. \A j \in DOMAIN monitor_list :
        monitor_list[j].pid \in Pids /\ proc[monitor_list[j].pid].st # "unborn"
  BY ListTyped DEF PeakInv, Entry
<1>2. CASE monitor_list' = monitor_list
  BY <1>1, <1>2
<1>3. CASE monitor_list' = <<>>
  BY <1>3
<1>4. ASSUME NEW k \in DOMAIN monitor_list, monitor_list' = RemoveAt(monitor_list, k)
      PROVE  Goal
  <2>1. DOMAIN monitor_list = 1 .. Len(monitor_list) /\ Len(monitor_list) \in Nat
    BY ListTyped
  <2>2. /\ i \in 1 .. Len(monitor_list) - 1
        /\ i < k => monitor_list'[i] = monitor_list[i]
        /\ i >= k => monitor_list'[i] = monitor_list[i + 1] /\ i + 1 \in DOMAIN monitor_list
    BY <1>4, Removed, Zenon
  <2>3. i < k \/ i >= k
    BY <2>1, <2>2
  <2>4. i \in DOMAIN monitor_list
    BY <2>1, <2>2
  <2> QED
    BY <1>1, <2>2, <2>3, <2>4, Zenon
<1>5. ASSUME NEW r \in Requests, RegisterUpdates(r)
      PROVE  Goal
  <2>1. PICK k \in DOMAIN monitor_list :
          monitor_list' = [monitor_list EXCEPT ![k] = NewEntry(r)]
    BY <1>5, PositionIs DEF RegisterUpdates, Enters
  <2>2. r.pid \in Pids /\ NewEntry(r).pid = r.pid /\ proc[r.pid].st # "unborn"
    BY <1>5, NewEntryTyped DEF RegisterUpdates, Registers, NewEntry
  <2> QED
    BY <1>1, <2>1, <2>2, ListTyped
<1>6. ASSUME NEW r \in Requests, RegisterAdds(r)
      PROVE  Goal
  <2>1. monitor_list' = Append(monitor_list, NewEntry(r))
    BY <1>6 DEF RegisterAdds, Enters
  <2>2. /\ r.pid \in Pids /\ NewEntry(r).pid = r.pid /\ proc[r.pid].st # "unborn"
        /\ NewEntry(r) \in Entry
    BY <1>6, NewEntryTyped DEF RegisterAdds, Registers, NewEntry
  <2>3. \/ i \in DOMAIN monitor_list /\ monitor_list'[i] = monitor_list[i]
        \/ monitor_list'[i] = NewEntry(r)
    BY <2>1, <2>2, ListTyped
  <2> QED
    BY <1>1, <2>2, <2>3
<1>7. CASE Judge
  BY <1>1, <1>7, JudgedList
<1>8. \/ monitor_list' = monitor_list \/ monitor_list' = <<>> \/ Judge
      \/ \E k \in DOMAIN monitor_list : monitor_list' = RemoveAt(monitor_list, k)
      \/ \E r \in Requests : RegisterUpdates(r) \/ RegisterAdds(r)
  <2>1. ASSUME NEW p \in Pids, Unregister(p)
        PROVE  \/ monitor_list' = monitor_list
               \/ \E k \in DOMAIN monitor_list : monitor_list' = RemoveAt(monitor_list, k)
    BY <2>1, PositionIs DEF Unregister
  <2>2. CASE CheckExists \/ ReadRss
    <3>1. cursor \in DOMAIN monitor_list
      BY <2>2, ListTyped DEF CheckExists, ReadRss, ScanInv, OnEntry
    <3> QED
      BY <2>2, <3>1 DEF CheckExists, ReadRss, RemoveCurrent
  <2> QED
    BY <2>1, <2>2, Zenon
       DEF Next, CreateDevice, InitStep, RunThread, ThreadFails, Vanish, ExitBegins, ExitStep,
           ExitFreesList, ExitEnds, Register, RegisterRefused, RegisterNoMemory, ThreadStep,
           ThreadEnds, ScanBegins, ScanEnds, Wakes, ThreadGoes, SendSigkill, Birth, Resize,
           Exits, Reaped, Phase, environment, vars
<1> QED
  BY <1>2, <1>3, <1>4, <1>5, <1>6, <1>7, <1>8

\* The size the scan judges is one the process has had.
LEMMA RssWasReal ==
  ASSUME ~ Wrap, IndInv, PeakInv, [Next]_vars, thread' \in {"judge", "kill"}
  PROVE  rss_mib' * UnitsPerMib <= peak'[Current'.pid]
<1> USE DEF IndInv
<1>1. PeaksGrow /\ UnitsPerMib \in Nat \ {0} /\ peak \in [Pids -> Nat]
  BY PeaksGrowing, UnitsAssumption, RssAssumption DEF TypeOK
<1>2. ASSUME thread \in {"rss", "judge", "kill"}
      PROVE  /\ Current.pid \in Pids /\ proc[Current.pid].st # "unborn"
             /\ cursor \in DOMAIN monitor_list
             /\ peak[Current.pid] \in Nat /\ peak[Current.pid] <= peak'[Current.pid]
  BY <1>1, <1>2, ListTyped DEF ScanInv, OnEntry, Current, Entry, PeakInv, PeaksGrow
<1>3. peak' \in [Pids -> Nat] /\ rss_mib \in Nat
  BY NextKeepsInd, RssAssumption DEF TypeOK
<1>4. CASE ReadRss
  <2>1. thread = "rss" /\ UNCHANGED <<monitor_list, cursor, proc, peak>> /\ rss_mib' = RssMib(Current.pid)
    BY <1>4 DEF ReadRss, RemoveCurrent, history
  <2>2. PICK n \in Nat : n = proc[Current.pid].rss /\ n <= peak[Current.pid]
    BY <1>2, <2>1, ListTyped, RssAssumption DEF Process, PeakInv
  <2>3. PICK u \in Nat \ {0} : u = UnitsPerMib
    BY <1>1
  <2>4. (n \div u) * u <= n
    BY SMT
  <2>5. rss_mib' * UnitsPerMib <= n
    BY <2>1, <2>2, <2>3, <2>4 DEF RssMib
  <2>6. Current'.pid = Current.pid
    BY <2>1 DEF Current
  <2>7. PICK m \in Nat : m = peak[Current.pid] /\ m = peak'[Current'.pid]
    BY <1>2, <2>1, <2>6
  <2>8. PICK x \in Nat : x = rss_mib' * UnitsPerMib
    <3>1. n \div u \in Nat /\ (n \div u) * u \in Nat
      BY SMT
    <3> QED
      BY <2>1, <2>2, <2>3, <3>1 DEF RssMib
  <2> QED
    BY <2>2, <2>5, <2>7, <2>8
<1>5. CASE thread \in {"judge", "kill"} /\ Current'.pid = Current.pid /\ rss_mib' = rss_mib
  <2>1. PICK m \in Nat : m = peak[Current.pid] /\ rss_mib * UnitsPerMib <= m
    BY <1>2, <1>5 DEF PeakInv
  <2>2. PICK m2 \in Nat : m2 = peak'[Current.pid] /\ m <= m2
    BY <1>2, <1>3, <1>5, <2>1
  <2>3. PICK x \in Nat : x = rss_mib * UnitsPerMib
    BY <1>1, <1>3
  <2> QED
    BY <1>5, <2>1, <2>2, <2>3
<1>6. CASE Judge
  <2>1. Current'.pid = Current.pid
    <3>1. cursor \in DOMAIN monitor_list /\ cursor' = cursor
      BY <1>2, <1>6 DEF Judge
    <3> QED
      BY <1>6, <3>1, JudgedList DEF Current
  <2> QED
    BY <1>5, <1>6, <2>1 DEF Judge
<1>7. CASE UNCHANGED <<monitor_list, thread, cursor, rss_mib>>
  BY <1>5, <1>7 DEF Current
<1>8. ReadRss \/ Judge \/ UNCHANGED <<monitor_list, thread, cursor, rss_mib>>
  <2>1. ASSUME NEW r \in Requests, Register(r)
        PROVE  UNCHANGED <<monitor_list, thread, cursor, rss_mib>>
    BY <2>1 DEF Register, RegisterRefused, RegisterUpdates, RegisterAdds, RegisterNoMemory,
                Registers, Enters, Locked, scan
  <2>2. ASSUME NEW p \in Pids, Unregister(p)
        PROVE  UNCHANGED <<monitor_list, thread, cursor, rss_mib>>
    BY <2>2 DEF Unregister, Locked, scan
  <2>3. CASE CreateDevice \/ InitStep \/ ExitBegins \/ ExitStep
    BY <2>3 DEF CreateDevice, InitStep, RunThread, ThreadFails, Vanish, ExitBegins, ExitStep,
                ExitFreesList, ExitEnds, ScanInv, scan
  <2>4. CASE ThreadStep
    BY <2>4 DEF ThreadStep, ThreadEnds, ScanBegins, ScanEnds, Wakes, ThreadGoes, CheckExists,
                RemoveCurrent, SendSigkill
  <2>5. ASSUME NEW p \in Pids, Birth(p) \/ Resize(p) \/ Exits(p) \/ Reaped(p)
        PROVE  UNCHANGED <<monitor_list, thread, cursor, rss_mib>>
    BY <2>5 DEF Birth, Resize, Exits, Reaped, Phase, environment, scan
  <2> QED
    BY <2>1, <2>2, <2>3, <2>4, <2>5 DEF Next, vars, scan
<1> QED
  BY <1>4, <1>6, <1>7, <1>8

\* Every kill so far had a cause.
LEMMA KillsJustified ==
  ASSUME ~ Wrap, IndInv, PeakInv, [Next]_vars
  PROVE  KillJustified' /\ \A v \in victims' : proc'[v.pid].st # "unborn"
<1> USE DEF IndInv
<1>1. PeaksGrow /\ UnitsPerMib \in Nat \ {0} /\ peak \in [Pids -> Nat] /\ peak' \in [Pids -> Nat]
  BY PeaksGrowing, NextKeepsInd, UnitsAssumption, RssAssumption DEF TypeOK
<1>2. PICK w \in Nat : w = 2 ^ ULONG_BITS
  BY WidthAssumption
<1>3. \A v \in victims : /\ v.pid \in Pids /\ v.hard_limit \in Nat
                         /\ proc[v.pid].st # "unborn"
                         /\ peak[v.pid] >= (v.hard_limit + 1) * UnitsPerMib
  BY <1>2 DEF TypeOK, ULongs, PeakInv, KillJustified
<1>4. \A v \in victims : /\ proc'[v.pid].st # "unborn"
                         /\ peak'[v.pid] >= (v.hard_limit + 1) * UnitsPerMib
  <2> SUFFICES ASSUME NEW v \in victims
               PROVE  /\ proc'[v.pid].st # "unborn"
                      /\ peak'[v.pid] >= (v.hard_limit + 1) * UnitsPerMib
    OBVIOUS
  <2>1. proc'[v.pid].st # "unborn" /\ peak[v.pid] <= peak'[v.pid]
    BY <1>1, <1>3 DEF PeaksGrow
  <2>2. PICK x \in Nat : x = (v.hard_limit + 1) * UnitsPerMib
    BY <1>1, <1>3
  <2>3. PICK m \in Nat, n \in Nat : m = peak[v.pid] /\ n = peak'[v.pid]
    BY <1>1, <1>3
  <2> QED
    BY <1>3, <2>1, <2>2, <2>3
<1>5. CASE victims' \subseteq victims
  BY <1>4, <1>5 DEF KillJustified
<1>6. CASE SendSigkill
  <2>1. /\ Current.pid \in Pids /\ Current.hard_limit \in Nat
        /\ proc[Current.pid].st # "unborn"
    <3>1. cursor \in DOMAIN monitor_list /\ Current \in Entry
      BY <1>6, ListTyped DEF SendSigkill, ScanInv, OnEntry, Current
    <3> QED
      BY <1>2, <3>1 DEF Entry, ULongs, PeakInv, Current
  <2>2. rss_mib > Current.hard_limit /\ rss_mib \in Nat
        /\ rss_mib * UnitsPerMib <= peak[Current.pid]
    BY <1>6 DEF SendSigkill, KillInv, PeakInv, TypeOK
  <2>3. peak[Current.pid] >= (Current.hard_limit + 1) * UnitsPerMib
    <3>1. PICK u \in Nat : u = UnitsPerMib
      BY <1>1
    <3>2. PICK h \in Nat, r \in Nat, m \in Nat :
            h = Current.hard_limit /\ r = rss_mib /\ m = peak[Current.pid]
      BY <1>1, <2>1, <2>2
    <3>3. h + 1 <= r /\ r * u <= m
      BY <2>2, <3>1, <3>2
    <3>4. (h + 1) * u <= r * u
      BY <3>3, SMT
    <3>5. (h + 1) * u \in Nat /\ r * u \in Nat
      BY SMT
    <3> QED
      BY <3>1, <3>2, <3>3, <3>4, <3>5
  <2>4. peak' = peak /\ proc'[Current.pid].st # "unborn"
    BY <1>1, <1>6, <2>1 DEF SendSigkill, PeaksGrow
  <2>5. \A v \in victims' : v \in victims \/ v = [pid |-> Current.pid,
                                                  hard_limit |-> Current.hard_limit]
    BY <1>6 DEF SendSigkill
  <2> QED
    BY <1>4, <2>3, <2>4, <2>5 DEF KillJustified
<1>7. SendSigkill \/ victims' \subseteq victims
  BY Zenon
     DEF Next, CreateDevice, InitStep, RunThread, ThreadFails, Vanish, ExitBegins, ExitStep,
         ExitFreesList, ExitEnds, Register, RegisterRefused, RegisterUpdates, RegisterAdds,
         RegisterNoMemory, Enters, Unregister, ThreadStep, ThreadEnds, ScanBegins, ScanEnds,
         Wakes, ThreadGoes, CheckExists, ReadRss, Judge, Birth, Resize, Exits, Reaped, Phase,
         vars, history
<1> QED
  BY <1>5, <1>6, <1>7

\* Every step keeps PeakInv.
LEMMA NextKeepsPeaks ==
  ASSUME ~ Wrap, IndInv, PeakInv, [Next]_vars
  PROVE  PeakInv'
<1>1. \A i \in DOMAIN monitor_list' : proc'[monitor_list'[i].pid].st # "unborn"
  BY ListedWereBorn, PeaksGrowing DEF PeaksGrow
<1>2. thread' \in {"judge", "kill"} => rss_mib' * UnitsPerMib <= peak'[Current'.pid]
  BY RssWasReal
<1>3. \A p \in Pids : proc'[p].rss <= peak'[p]
  BY PeaksGrowing DEF PeaksGrow
<1>4. KillJustified' /\ \A v \in victims' : proc'[v.pid].st # "unborn"
  BY KillsJustified
<1> QED
  BY <1>1, <1>2, <1>3, <1>4 DEF PeakInv

\* Without reuse of PIDs, monitor_thread_fn kills only processes that really exceeded
\* the hard limit they are killed for, by a whole MiB at least.
THEOREM OnlyOverLimitKilled == ASSUME ~ Wrap PROVE Spec => []KillJustified
<1>1. Init => PeakInv
  BY DEF Init, PeakInv, KillJustified
<1>2. IndInv /\ PeakInv /\ [Next]_vars => PeakInv'
  BY NextKeepsPeaks
<1>3. PeakInv => KillJustified
  BY DEF PeakInv
<1> QED
  BY <1>1, <1>2, <1>3, Inductive, PTL DEF Spec
=============================================================================
