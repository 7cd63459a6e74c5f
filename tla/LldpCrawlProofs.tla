---------------------------- MODULE LldpCrawlProofs ----------------------------
(****************************************************************************)
(* The crawl's types, that it logs in to no host twice, that it leaves      *)
(* people's devices and records alone and that it takes no switch out of    *)
(* NetBox: for every topology, whatever others write and wherever calls     *)
(* fail.                                                                    *)
(****************************************************************************)
EXTENDS LldpCrawl, FiniteSetTheorems, SequenceTheorems, TLAPS

(****************************************************************************)
(* No host is logged in to twice.                                           *)
(*                                                                          *)
(* PolledOnce is not inductive: Polled counts a host that NextTarget has    *)
(* entered among the visited ones a step earlier.  The invariant says that  *)
(* such a host is one more than those that were counted.                    *)
(****************************************************************************)

Ahead ==
  /\ IsFiniteSet(visitedIp) /\ polled \in Nat
  /\ polled <= Cardinality(visitedIp)
  /\ pc = "poll" => polled < Cardinality(visitedIp)

\* Whatever ends a crawl leaves its counters as they were at the start.
LEMMA IdleIsAhead == ASSUME Idle PROVE Ahead'
  <1>1. IsFiniteSet({}) /\ Cardinality({}) = 0  BY FS_EmptySet
  <1> QED  BY <1>1 DEF Idle, Ahead

\* Steps that leave the counters alone and do not log in keep the invariant.
LEMMA OthersKeepAhead ==
  ASSUME Ahead, UNCHANGED <<visitedIp, polled>>, pc' = "poll" => pc = "poll"
  PROVE  Ahead'
  BY DEF Ahead

\* A host taken from the queue is polled only when it is a new one.
LEMMA NextTargetKeepsAhead == ASSUME Ahead, NextTarget PROVE Ahead'
  <1> DEFINE h == Head(queue).host
  <1>1. visitedIp' = visitedIp \cup {h} /\ polled' = polled  BY DEF NextTarget
  <1>2. IsFiniteSet(visitedIp) /\ Cardinality(visitedIp) \in Nat
    BY FS_CardinalityType DEF Ahead
  <1>3. /\ IsFiniteSet(visitedIp \cup {h})
        /\ Cardinality(visitedIp \cup {h}) =
             IF h \in visitedIp THEN Cardinality(visitedIp) ELSE Cardinality(visitedIp) + 1
    <2> HIDE DEF h
    <2> QED  BY <1>2, FS_AddElement
  <1>4. pc' = "poll" => h \notin visitedIp  BY DEF NextTarget
  <1> HIDE DEF h
  <1> QED  BY <1>1, <1>2, <1>3, <1>4 DEF Ahead

LEMMA CrawlStepKeepsAhead == ASSUME Ahead, CrawlStep PROVE Ahead'
  <1>1. CASE StartCrawl \/ NoMerge \/ BeginMerge \/ ReleasePrimary \/ FinishMerge \/ RecordMacs
    BY <1>1, OthersKeepAhead DEF StartCrawl, NoMerge, BeginMerge, ReleasePrimary, FinishMerge,
       RecordMacs
  <1>2. CASE CrawlEnds \/ CrawlRaises
    BY <1>2, IdleIsAhead DEF CrawlEnds, CrawlRaises
  <1>3. CASE NextTarget
    BY <1>3, NextTargetKeepsAhead
  <1>4. CASE Polled \/ PolledUnknown \/ PolledInVain
    <2>1. Cardinality(visitedIp) \in Nat  BY FS_CardinalityType DEF Ahead
    <2>2. /\ pc = "poll" /\ visitedIp' = visitedIp /\ polled' = polled + 1
          /\ pc' \in {"dedup", "next"}
      BY <1>4 DEF Polled, PolledUnknown, PolledInVain, Answers
    <2> QED  BY <2>1, <2>2 DEF Ahead
  <1>5. CASE \E a \in Addrs : MoveAddress(a)
    BY <1>5, OthersKeepAhead DEF MoveAddress
  <1>6. CASE MergeRefused
    BY <1>6, OthersKeepAhead DEF MergeRefused, MergeRaises
  <1>7. CASE \/ CreateSwitch \/ FindAddress \/ AddAddress \/ ReconcileNeighbour \/ Reconciled
             \/ QueueNeighbour \/ TargetDone
    BY <1>7, OthersKeepAhead DEF CreateSwitch, FindAddress, AddAddress, ReconcileNeighbour,
       Reconciled, QueueNeighbour, TargetDone
  <1> QED  BY <1>1, <1>2, <1>3, <1>4, <1>5, <1>6, <1>7 DEF CrawlStep

\* No host is logged in to more than once in a crawl.
THEOREM LogsInOnce == Spec => []PolledOnce
  <1>1. Init => Ahead
    <2>1. IsFiniteSet({}) /\ Cardinality({}) = 0  BY FS_EmptySet
    <2> QED  BY <2>1 DEF Init, Ahead
  <1>2. Ahead /\ [Next]_vars => Ahead'
    <2> SUFFICES ASSUME Ahead, [Next]_vars PROVE Ahead'  OBVIOUS
    <2>1. CASE CrawlStep                BY <2>1, CrawlStepKeepsAhead
    <2>2. CASE PollFails                BY <2>2, OthersKeepAhead DEF PollFails
    <2>3. CASE MergeFails               BY <2>3, OthersKeepAhead DEF MergeFails, MergeRaises
    <2>4. CASE CrawlAborts              BY <2>4, IdleIsAhead DEF CrawlAborts
    <2>5. CASE OthersWrite              BY <2>5, OthersKeepAhead DEF OthersWrite, crawl
    <2>6. CASE PersonTags \/ Rebuilt    BY <2>6, OthersKeepAhead DEF PersonTags, Rebuilt, crawl
    <2>7. CASE UNCHANGED vars           BY <2>7, OthersKeepAhead DEF vars, crawl
    <2> QED  BY <2>1, <2>2, <2>3, <2>4, <2>5, <2>6, <2>7 DEF Next
  <1>3. Ahead => PolledOnce  BY DEF Ahead, PolledOnce
  <1> QED  BY <1>1, <1>2, <1>3, PTL DEF Spec

(****************************************************************************)
(* Types.  NetBox stays a NetBox through every write.                       *)
(****************************************************************************)

LEMMA FreshType ==
  ASSUME NEW n \in NetBox, Room(n)
  PROVE  Fresh(n) \in Devs /\ n.kind[Fresh(n)] = "none"
  BY DEF Room, Fresh

LEMMA CopyType ==
  ASSUME NEW n \in NetBox, NEW d \in Devs
  PROVE  CopyOf(n, d) \in Copy
  BY DEF CopyOf, Copy, NetBox

\* None is no target, no merge, no device and no address.
LEMMA NoneIsNone == /\ None \notin Copy /\ None \notin Target /\ None \notin Merge
                    /\ None \notin Making /\ None \notin Devs /\ None \notin Macs
                    /\ None \notin Addrs /\ Bare \notin Addrs
                    /\ MaxSwitches \in Nat /\ MaxChanges \in Nat /\ MaxFaults \in Nat
  BY LldpAssumption DEF LldpAssumption

\* The box at an address, and the MAC addresses it has, if any
LEMMA BoxType ==
  ASSUME NEW a \in Addrs
  PROVE  /\ BoxOf[a] \in Boxes /\ Sees[BoxOf[a]] \in Seq(Addrs) /\ MacsOf[BoxOf[a]] \in Seq(Macs)
         /\ Chassis(BoxOf[a]) \in Macs \cup {None}
         /\ \A m \in ToSet(MacsOf[BoxOf[a]]) : m \in Macs
  <1>1. /\ BoxOf[a] \in Boxes /\ Sees[BoxOf[a]] \in Seq(Addrs)
        /\ MacsOf[BoxOf[a]] \in Seq(Macs)
    BY LldpAssumption DEF LldpAssumption
  <1> DEFINE s == MacsOf[BoxOf[a]]
  <1>2. s = <<>> \/ Head(s) \in Macs
    <2> HIDE DEF s
    <2> QED  BY <1>1, HeadTailProperties DEF s
  <1>3. \A m \in ToSet(s) : m \in Macs
    <2> HIDE DEF s
    <2> QED  BY <1>1, ElementOfSeq DEF s, ToSet
  <1> QED
    BY <1>1, <1>2, <1>3 DEF Chassis

LEMMA CarrierType ==
  ASSUME NEW n \in NetBox, NEW m \in Macs
  PROVE  Carrier(n, m) \in Devs \cup {None}
  <1>1. n.mac[m] \in Seq(Devs)
    BY DEF NetBox
  <1> DEFINE s == n.mac[m]
  <1>2. s = <<>> \/ Head(s) \in Devs
    <2> HIDE DEF s
    <2> QED  BY <1>1, HeadTailProperties DEF s
  <1> QED
    BY <1>2 DEF Carrier

\* What a lookup finds is a device.
LEMMA LookupType ==
  ASSUME NEW n \in NetBox, NEW a \in Addrs, NEW answers \in BOOLEAN
  PROVE  /\ Oldest(n, BoxOf[a]) \in Devs \cup {None}
         /\ Match(n, a, answers) \in Devs \cup {None}
         /\ Recognised(n, a, answers) \in Devs \cup {None}
         /\ Remote(n, a, answers) \in Devs \cup {None}
  <1> DEFINE b == BoxOf[a]
  <1>1. n.on[a] \in Devs \cup {None}
    BY DEF NetBox
  <1>2. Oldest(n, b) \in Devs \cup {None}
    BY BoxType, CarrierType DEF Oldest
  <1>3. Named(n, b) \in Devs \cup {None}
    BY DEF Named
  <1> HIDE DEF b
  <1> QED
    BY <1>1, <1>2, <1>3 DEF Match, Recognised, Remote, First, b

LEMMA RecordType ==
  ASSUME NEW n \in NetBox, NEW S, NEW d \in Devs
  PROVE  /\ Record(n, S, d) \in NetBox
         /\ Record(n, S, d).kind = n.kind /\ Record(n, S, d).ip = n.ip
         /\ Record(n, S, d).on = n.on /\ Record(n, S, d).name = n.name
         /\ Record(n, S, d).primary = n.primary
         /\ \A m \in Macs : Record(n, S, d).mac[m] =
              IF m \in S /\ ~Contains(n.mac[m], d) THEN Append(n.mac[m], d) ELSE n.mac[m]
  <1> DEFINE mac == [m \in Macs |-> IF m \in S /\ ~Contains(n.mac[m], d)
                                    THEN Append(n.mac[m], d) ELSE n.mac[m]]
  <1>1. \A m \in Macs : n.mac[m] \in Seq(Devs) /\ Append(n.mac[m], d) \in Seq(Devs)
    BY DEF NetBox
  <1>2. mac \in [Macs -> Seq(Devs)]
    BY <1>1
  <1>3. Record(n, S, d) = [n EXCEPT !.mac = mac]
    BY DEF Record, NetBox
  <1>4. \A m \in Macs : mac[m] =
              IF m \in S /\ ~Contains(n.mac[m], d) THEN Append(n.mac[m], d) ELSE n.mac[m]
    OBVIOUS
  <1> HIDE DEF mac
  <1> QED
    BY <1>2, <1>3, <1>4 DEF NetBox

\* A new switch is one device more; nothing else changes but who carries its MACs.
LEMMA NewSwitchType ==
  ASSUME NEW n \in NetBox, Room(n), NEW a \in Addrs, NEW S
  PROVE  LET m == NewSwitch(n, a, S)
         IN  /\ m \in NetBox
             /\ m.kind = [n.kind EXCEPT ![Fresh(n)] = "lldp"]
             /\ m.ip = n.ip /\ m.on = n.on
  <1> DEFINE d == Fresh(n)
             device == [n EXCEPT !.kind[d] = "lldp", !.name[d] = BoxOf[a]]
  <1>1. d \in Devs /\ BoxOf[a] \in Boxes
    BY FreshType, BoxType
  <1> HIDE DEF d
  <1>2. /\ device \in NetBox /\ device.kind = [n.kind EXCEPT ![d] = "lldp"]
        /\ device.ip = n.ip /\ device.on = n.on
    BY <1>1 DEF NetBox, Managed
  <1>3. NewSwitch(n, a, S) = Record(device, S, d)
    BY DEF NewSwitch, d
  <1> HIDE DEF device
  <1>4. /\ Record(device, S, d) \in NetBox
        /\ Record(device, S, d).kind = device.kind
        /\ Record(device, S, d).ip = device.ip /\ Record(device, S, d).on = device.on
    BY <1>1, <1>2, RecordType
  <1> QED
    BY <1>2, <1>3, <1>4 DEF d

LEMMA UpsertType ==
  ASSUME NEW n \in NetBox, NEW a \in Addrs, NEW d \in Devs, NEW found
  PROVE  LET m == Upsert(n, a, d, found)
         IN  /\ m \in NetBox /\ m.kind = n.kind /\ m.name = n.name /\ m.mac = n.mac
             /\ m.primary = n.primary /\ m.on = [n.on EXCEPT ![a] = d]
             /\ m.ip = IF found = "none" THEN [n.ip EXCEPT ![a] = "lldp"] ELSE n.ip
  <1> DEFINE m == Upsert(n, a, d, found)
  <1>1. CASE found = "none"
    <2>1. m = [n EXCEPT !.ip[a] = "lldp", !.on[a] = d]
      BY <1>1 DEF Upsert
    <2>2. [n.on EXCEPT ![a] = d] \in [Addrs -> Devs \cup {None}]
      BY DEF NetBox
    <2>3. [n.ip EXCEPT ![a] = "lldp"] \in [Addrs -> {"none", "lldp", "ours", "theirs"}]
      BY DEF NetBox
    <2> QED
      BY <1>1, <2>1, <2>2, <2>3 DEF NetBox
  <1>2. CASE found # "none"
    <2>1. m = [n EXCEPT !.on[a] = d]
      BY <1>2 DEF Upsert
    <2>2. [n.on EXCEPT ![a] = d] \in [Addrs -> Devs \cup {None}]
      BY DEF NetBox
    <2> QED
      BY <1>2, <2>1, <2>2 DEF NetBox
  <1> QED
    BY <1>1, <1>2

\* An address becomes primary, or stops being it.
LEMMA PrimaryType ==
  ASSUME NEW n \in NetBox, NEW d \in Devs, NEW a \in Addrs \cup {None}
  PROVE  LET m == [n EXCEPT !.primary[d] = a]
         IN  /\ m \in NetBox /\ m.kind = n.kind /\ m.name = n.name /\ m.mac = n.mac
             /\ m.ip = n.ip /\ m.on = n.on
  <1>1. [n.primary EXCEPT ![d] = a] \in [Devs -> Addrs \cup {None}]
    BY DEF NetBox
  <1> QED
    BY <1>1 DEF NetBox

LEMMA WithoutType ==
  ASSUME NEW s \in Seq(Devs), NEW d \in Devs
  PROVE  Without(s, d) \in Seq(Devs)
  <1> SUFFICES ASSUME Contains(s, d) PROVE Without(s, d) \in Seq(Devs)
    BY DEF Without
  <1> DEFINE i == CHOOSE i \in DOMAIN s : s[i] = d
  <1>1. i \in 1..Len(s)
    BY DEF Contains
  <1> HIDE DEF i
  <1>2. SubSeq(s, 1, i - 1) \in Seq(Devs) /\ SubSeq(s, i + 1, Len(s)) \in Seq(Devs)
    BY <1>1, SubSeqProperties
  <1>3. RemoveAt(s, i) \in Seq(Devs)
    BY <1>2, ConcatProperties DEF RemoveAt
  <1> QED
    BY <1>3 DEF Without, i

\* A deletion changes what hangs off the device, and nothing else.
LEMMA DeletingType ==
  ASSUME NEW n \in NetBox, NEW d \in Devs, NEW m \in Deleting(n, d)
  PROVE  /\ m \in NetBox
         /\ m.kind = [n.kind EXCEPT ![d] = "gone"]
         /\ \A a \in Addrs : IF n.on[a] = d THEN m.on[a] = None
                             ELSE m.on[a] = n.on[a] /\ m.ip[a] = n.ip[a]
         /\ \A a \in Addrs : m.ip[a] \in {n.ip[a], "none"}
  <1> DEFINE kind == [n.kind EXCEPT ![d] = "gone"]
             mac == [b \in Macs |-> Without(n.mac[b], d)]
             on == [a \in Addrs |-> IF n.on[a] = d THEN None ELSE n.on[a]]
             ip == [a \in Addrs |-> IF n.on[a] = d THEN "none" ELSE n.ip[a]]
             bare == [n EXCEPT !.kind[d] = "gone", !.name[d] = None, !.primary[d] = None,
                               !.mac = mac, !.on = on]
             less == [bare EXCEPT !.ip = ip]
  <1>1. mac \in [Macs -> Seq(Devs)]
    BY WithoutType DEF NetBox
  <1>2. on \in [Addrs -> Devs \cup {None}] /\ ip \in [Addrs -> {"none", "lldp", "ours", "theirs"}]
    BY DEF NetBox
  <1>3. m = bare \/ m = less
    BY DEF Deleting, NetBox
  <1> HIDE DEF mac, on, ip
  <1>4. bare \in NetBox /\ bare.kind = kind /\ bare.on = on /\ bare.ip = n.ip
    BY <1>1, <1>2 DEF NetBox
  <1> HIDE DEF bare
  <1>5. less \in NetBox /\ less.kind = kind /\ less.on = on /\ less.ip = ip
    BY <1>2, <1>4 DEF NetBox
  <1> HIDE DEF less
  <1>6. /\ m \in NetBox /\ m.kind = kind /\ m.on = on
        /\ m.ip = n.ip \/ m.ip = ip
    BY <1>3, <1>4, <1>5
  <1> QED
    BY <1>6 DEF on, ip

\* A finite set as a sequence
LEMMA SeqOfSet ==
  ASSUME NEW S, IsFiniteSet(S)
  PROVE  SetToSeq(S) \in Seq(S)
  <1> DEFINE n == Cardinality(S)
  <1>1. n \in Nat /\ \E f : f \in Bijection(1..n, S)
    BY FS_CardinalityType DEF ExistsBijection
  <1>2. \E f \in [1..n -> S] : IsInjective(f)
    BY <1>1 DEF Bijection, Injection, Surjection
  <1>3. SetToSeq(S) \in [1..n -> S]
    BY <1>2 DEF SetToSeq
  <1> QED
    BY <1>1, <1>3

Typed ==
  /\ TypeOK /\ IsFiniteSet(seeds)
  /\ pc = "poll" => polled < MaxSwitches
  /\ pc \notin {"idle", "next", "poll"} => cur.copy # None

LEMMA InitTyped == Init => Typed
  <1> SUFFICES ASSUME Init PROVE Typed
    OBVIOUS
  <1> PICK d \in Devs, a \in Addrs, k \in {"human", "scan"}, named \in BOOLEAN :
        /\ seeds = {d}
        /\ nb = [kind |-> [e \in Devs |-> IF e = d THEN k ELSE "none"],
                 name |-> [e \in Devs |-> IF e = d /\ named THEN BoxOf[a] ELSE None],
                 mac |-> [m \in Macs |-> <<>>],
                 ip |-> [c \in Addrs |-> CASE c # a -> "none"
                                            [] k = "human" -> "theirs"
                                            [] OTHER -> "ours"],
                 on |-> [c \in Addrs |-> IF c = a THEN d ELSE None],
                 primary |-> [e \in Devs |-> IF e = d THEN a ELSE None]]
    BY DEF Init
  <1>1. BoxOf[a] \in Boxes
    BY LldpAssumption DEF LldpAssumption
  <1>2. nb \in NetBox
    BY <1>1 DEF NetBox, Managed
  <1>3. IsFiniteSet(seeds)
    BY FS_Singleton
  <1>4. /\ pc = "idle" /\ queue = <<>> /\ visitedIp = {} /\ visitedMac = {} /\ polled = 0
        /\ cur = None /\ identity = <<>> /\ merge = None /\ making = None /\ todo = <<>>
        /\ failed = FALSE /\ late = {} /\ resolved \in BOOLEAN
        /\ changes = 0 /\ faults = 0
    BY DEF Init
  <1>5. seeds \subseteq Devs
    OBVIOUS
  <1>6. queue \in Seq(Target) /\ todo \in Seq(Addrs) /\ identity \in Seq(Macs)
    BY <1>4
  <1>7. (cur = None) = (pc \in {"idle", "next"}) /\ (merge = None) = (pc # "merging")
    BY <1>4
  <1>8. 0 \in 0..MaxSwitches /\ 0 \in 0..MaxChanges /\ 0 \in 0..MaxFaults
    BY NoneIsNone
  <1> QED
    BY <1>2, <1>3, <1>4, <1>5, <1>6, <1>7, <1>8 DEF Typed, TypeOK

\* The end of a crawl, whatever it leaves in NetBox
LEMMA IdleTyped ==
  ASSUME Typed, Idle, nb' \in NetBox, seeds' = seeds, resolved' = resolved,
         changes' \in 0..MaxChanges, faults' \in 0..MaxFaults
  PROVE  Typed'
  <1>1. /\ nb' \in NetBox /\ seeds' \subseteq Devs /\ IsFiniteSet(seeds')
        /\ resolved' \in BOOLEAN
    BY DEF Typed, TypeOK
  <1>2. /\ pc' = "idle" /\ cur' = None /\ merge' = None /\ making' = None
        /\ queue' = <<>> /\ todo' = <<>> /\ visitedIp' = {} /\ visitedMac' = {}
        /\ identity' = <<>> /\ failed' = FALSE /\ late' = {}
    BY DEF Idle
  <1>3. polled' \in 0..MaxSwitches
    BY NoneIsNone DEF Idle
  <1>4. queue' \in Seq(Target) /\ todo' \in Seq(Addrs) /\ identity' \in Seq(Macs)
    BY <1>2
  <1>5. (cur = None)' = (pc \in {"idle", "next"})'
    BY <1>2
  <1>6. (merge = None)' = (pc # "merging")'
    BY <1>2
  <1> QED
    BY <1>1, <1>2, <1>3, <1>4, <1>5, <1>6 DEF Typed, TypeOK

\* A target in hand, with the copy of a device once it has answered
LEMMA TargetInHand ==
  ASSUME Typed, pc \notin {"idle", "next"}
  PROVE  /\ cur \in Target /\ cur # None
         /\ cur.host \in Addrs /\ cur.copy \in Copy \cup {None} /\ cur.depth \in Nat
         /\ (cur.copy # None \/ pc # "poll") => cur.copy \in Copy /\ cur.copy.id \in Devs
  <1>1. cur \in Target
    BY NoneIsNone DEF Typed, TypeOK
  <1>2. cur.host \in Addrs /\ cur.copy \in Copy \cup {None} /\ cur.depth \in Nat
    BY <1>1 DEF Target
  <1>3. pc # "poll" => cur.copy # None
    BY DEF Typed
  <1> QED
    BY <1>1, <1>2, <1>3, NoneIsNone DEF Copy

\* The MAC addresses that are known of a target are its box's.
LEMMA HeardType ==
  ASSUME NEW t \in Target
  PROVE  Heard(t) \in Seq(Macs) /\ ToSet(Heard(t)) \subseteq Macs
  <1>1. Chassis(BoxOf[t.host]) \in Macs \cup {None}
    BY BoxType DEF Target
  <1>2. Heard(t) = <<>> \/ \E m \in Macs : Heard(t) = <<m>>
    BY <1>1 DEF Heard
  <1>3. CASE Heard(t) = <<>>
    BY <1>3 DEF ToSet
  <1>4. ASSUME NEW m \in Macs, Heard(t) = <<m>>
        PROVE  Heard(t) \in Seq(Macs) /\ ToSet(Heard(t)) \subseteq Macs
    <2>1. <<m>> \in Seq(Macs) /\ Len(<<m>>) = 1 /\ <<m>>[1] = m
      OBVIOUS
    <2> QED
      BY <1>4, <2>1 DEF ToSet
  <1> QED
    BY <1>2, <1>3, <1>4

LEMMA IdentityType ==
  ASSUME Typed
  PROVE  /\ ToSet(identity) \subseteq Macs
         /\ \A i \in DOMAIN identity : identity[i] \in Macs
  <1>1. identity \in Seq(Macs)
    BY DEF Typed, TypeOK
  <1> QED
    BY <1>1 DEF ToSet

\* A call that fails is counted.
LEMMA SpendType ==
  ASSUME Typed, NEW n \in Nat, Spend(n)
  PROVE  faults' \in 0..MaxFaults
  BY NoneIsNone DEF Spend, Typed, TypeOK

LEMMA LosingType ==
  ASSUME Typed, NEW lost, Losing(lost)
  PROVE  faults' \in 0..MaxFaults
  BY SpendType DEF Losing

\* Both sides of a merge are copies of devices.
LEMMA SidesType ==
  ASSUME Typed, pc = "dedup", NEW d \in Devs, NEW lost, Duplicate(d, lost)
  PROVE  /\ d # cur.copy.id /\ identity # <<>>
         /\ Keeper(d) \in Copy /\ Loser(d) \in Copy
         /\ Keeper(d).id # Loser(d).id
  <1>1. PICK i \in DOMAIN identity : Other(identity[i]) = d
    BY DEF Duplicate
  <1>2. d # cur.copy.id
    BY <1>1, NoneIsNone DEF Other
  <1>3. identity # <<>>
    BY <1>1
  <1>4. CopyOf(nb, d) \in Copy /\ CopyOf(nb, d).id = d
    BY CopyType DEF Typed, TypeOK, CopyOf
  <1> QED
    BY <1>2, <1>3, <1>4, TargetInHand DEF Keeper, Loser

LEMMA MergeInHand ==
  ASSUME Typed, pc = "merging"
  PROVE  /\ merge \in Merge /\ merge # None
         /\ merge.keep \in Copy /\ merge.lose \in Copy /\ merge.ips \subseteq Addrs
         /\ merge.keep.id \in Devs /\ merge.lose.id \in Devs /\ merge.released \in BOOLEAN
         /\ \A ips, b : /\ [merge EXCEPT !.ips = ips].keep = merge.keep
                        /\ [merge EXCEPT !.ips = ips].lose = merge.lose
                        /\ [merge EXCEPT !.ips = ips].ips = ips
                        /\ [merge EXCEPT !.released = b].keep = merge.keep
                        /\ [merge EXCEPT !.released = b].lose = merge.lose
                        /\ [merge EXCEPT !.released = b].ips = merge.ips
  BY NoneIsNone DEF Typed, TypeOK, Merge, Copy

LEMMA MovedType ==
  ASSUME Typed, pc = "merging", NEW a \in Addrs
  PROVE  /\ Moved(a) \in NetBox /\ Moved(a).kind = nb.kind /\ Moved(a).name = nb.name
         /\ Moved(a).mac = nb.mac /\ Moved(a).ip = nb.ip
         /\ Moved(a).on = [nb.on EXCEPT ![a] = merge.keep.id]
  BY MergeInHand DEF Moved, NetBox, Typed, TypeOK

\* The switch in the making
LEMMA MakingInHand ==
  ASSUME Typed, making # None
  PROVE  /\ making \in Making /\ making.dev \in Devs /\ pc \in {"reconcile", "queue"}
         /\ todo # <<>>
         /\ \A f : /\ [making EXCEPT !.found = f].dev = making.dev
                   /\ [making EXCEPT !.found = f].found = f
  BY DEF Typed, TypeOK, Making

LEMMA TodoType ==
  ASSUME Typed, todo # <<>>
  PROVE  Head(todo) \in Addrs /\ Tail(todo) \in Seq(Addrs)
  BY HeadTailProperties DEF Typed, TypeOK

LEMMA StartCrawlTyped == ASSUME Typed, StartCrawl PROVE Typed'
  <1> DEFINE S == {d \in seeds : nb.primary[d] # None}
             q == [i \in DOMAIN SetToSeq(S) |->
                    [host |-> nb.primary[SetToSeq(S)[i]], copy |-> CopyOf(nb, SetToSeq(S)[i]),
                     depth |-> 0]]
  <1>1. SetToSeq(S) \in Seq(S)
    BY SeqOfSet, FS_Subset DEF Typed
  <1>2. \A d \in S : [host |-> nb.primary[d], copy |-> CopyOf(nb, d), depth |-> 0]
                       \in Target
    BY CopyType DEF Typed, TypeOK, NetBox, Target
  <1>3. q \in Seq(Target)
    <2> DEFINE s == SetToSeq(S)
               T(d) == [host |-> nb.primary[d], copy |-> CopyOf(nb, d), depth |-> 0]
    <2>1. Len(s) \in Nat /\ DOMAIN s = 1..Len(s) /\ \A i \in 1..Len(s) : s[i] \in S
      BY <1>1, LenProperties, ElementOfSeq
    <2>2. q = [i \in 1..Len(s) |-> T(s[i])]
      BY <2>1
    <2>3. \A i \in 1..Len(s) : T(s[i]) \in Target
      BY <1>2, <2>1
    <2> HIDE DEF T, s, q
    <2> QED
      BY <2>1, <2>2, <2>3
  <1>4. queue' = q
    BY DEF StartCrawl
  <1>5. nb' \in NetBox
    BY DEF StartCrawl, Typed, TypeOK, NetBox, Managed
  <1>6. seeds' \subseteq seeds
    BY DEF StartCrawl
  <1>7. IsFiniteSet(seeds')
    BY <1>6, FS_Subset DEF Typed
  <1> HIDE DEF q
  <1> QED
    BY <1>3, <1>4, <1>5, <1>6, <1>7 DEF StartCrawl, Typed, TypeOK

\* Each step of a crawl keeps the types.
LEMMA AnswersTyped ==
  ASSUME Typed, pc = "poll", NEW n \in Nat, Answers(n)
  PROVE  /\ identity' \in Seq(Macs) /\ polled' \in 0..MaxSwitches /\ faults' \in 0..MaxFaults
         /\ pc' = "dedup"
  <1>1. MacsOf[BoxOf[cur.host]] \in Seq(Macs) /\ Heard(cur) \in Seq(Macs)
    BY TargetInHand, BoxType, HeardType
  <1>2. identity' \in Seq(Macs)
    BY <1>1 DEF Answers
  <1>3. Spend(n) \/ Spend(n + 1)
    BY DEF Answers
  <1>4. faults' \in 0..MaxFaults
    BY <1>3, SpendType
  <1>5. polled' \in 0..MaxSwitches
    BY NoneIsNone DEF Answers, Typed, TypeOK
  <1> QED
    BY <1>2, <1>4, <1>5 DEF Answers

LEMMA TakingTyped ==
  ASSUME Typed, NextTarget \/ PollFails \/ Polled \/ PolledUnknown \/ PolledInVain
  PROVE  Typed'
  <1>1. CASE NextTarget
    <2>1. queue # <<>> /\ Head(queue) \in Target /\ Tail(queue) \in Seq(Target)
      BY <1>1, HeadTailProperties DEF NextTarget, More, Typed, TypeOK
    <2>2. Head(queue).host \in Addrs /\ ToSet(Heard(Head(queue))) \subseteq Macs
      BY <2>1, HeardType DEF Target
    <2>3. /\ queue' \in Seq(Target) /\ visitedIp' \subseteq Addrs /\ visitedMac' \subseteq Macs
          /\ UNCHANGED <<nb, seeds, resolved, polled, identity, merge, making, todo, failed,
                         late, changes, faults>>
          /\ pc = "next" /\ polled < MaxSwitches
      BY <1>1, <2>1, <2>2 DEF NextTarget, More, Typed, TypeOK
    <2>4. \/ cur' = Head(queue) /\ pc' = "poll"
          \/ cur' = cur /\ pc' = pc
      BY <1>1 DEF NextTarget
    <2>5. /\ cur' \in Target \cup {None} /\ (cur' = None) = (pc' \in {"idle", "next"})
          /\ pc' \in {"poll", "next"}
      BY <2>1, <2>3, <2>4, NoneIsNone DEF Typed, TypeOK
    <2> QED
      BY <2>3, <2>5, NoneIsNone DEF Typed, TypeOK
  <1>2. CASE PollFails
    BY <1>2, NoneIsNone DEF PollFails, Typed, TypeOK
  <1>3. CASE Polled
    <2>1. cur # None /\ cur.copy # None
      BY <1>3, TargetInHand DEF Polled
    <2>2. /\ identity' \in Seq(Macs) /\ polled' \in 0..MaxSwitches /\ faults' \in 0..MaxFaults
          /\ pc' = "dedup"
      BY <1>3, AnswersTyped DEF Polled
    <2>3. /\ pc = "poll"
          /\ UNCHANGED <<nb, seeds, resolved, queue, visitedIp, visitedMac, cur, merge, making,
                         todo, failed, late, changes>>
      BY <1>3 DEF Polled
    <2> QED
      BY <2>1, <2>2, <2>3 DEF Typed, TypeOK
  <1>4. CASE PolledUnknown
    <2>1. PICK answers \in BOOLEAN :
            /\ Recognised(nb, cur.host, answers) # None
            /\ cur' = [cur EXCEPT !.copy = CopyOf(nb, Recognised(nb, cur.host, answers))]
            /\ Answers(IF answers THEN 0 ELSE 1)
      BY <1>4 DEF PolledUnknown
    <2>2. /\ pc = "poll"
          /\ UNCHANGED <<nb, seeds, resolved, queue, visitedIp, visitedMac, merge, making,
                         todo, failed, late, changes>>
      BY <1>4 DEF PolledUnknown
    <2>3. /\ identity' \in Seq(Macs) /\ polled' \in 0..MaxSwitches /\ faults' \in 0..MaxFaults
          /\ pc' = "dedup"
      <3>1. (IF answers THEN 0 ELSE 1) \in Nat
        OBVIOUS
      <3> QED
        BY <2>1, <2>2, <3>1, AnswersTyped
    <2>4. CopyOf(nb, Recognised(nb, cur.host, answers)) \in Copy
      BY <2>1, <2>2, TargetInHand, LookupType, CopyType DEF Typed, TypeOK
    <2>5. cur' \in Target /\ cur' # None /\ cur'.copy # None
      BY <2>1, <2>2, <2>4, TargetInHand, NoneIsNone DEF Target
    <2> QED
      BY <2>2, <2>3, <2>5 DEF Typed, TypeOK
  <1>5. CASE PolledInVain
    <2>1. faults' \in 0..MaxFaults
      <3>1. PICK answers \in BOOLEAN : Spend(IF answers THEN 0 ELSE 1)
        BY <1>5 DEF PolledInVain
      <3>2. (IF answers THEN 0 ELSE 1) \in Nat
        OBVIOUS
      <3> QED
        BY <3>1, <3>2, SpendType
    <2>2. polled' \in 0..MaxSwitches
      BY <1>5, NoneIsNone DEF PolledInVain, Typed, TypeOK
    <2> QED
      BY <1>5, <2>1, <2>2 DEF PolledInVain, Typed, TypeOK
  <1> QED
    BY <1>1, <1>2, <1>3, <1>4, <1>5

LEMMA MergeRaisesTyped ==
  ASSUME Typed, pc \in {"dedup", "merging"}, MergeRaises, nb' \in NetBox, faults' \in 0..MaxFaults
  PROVE  Typed'
  BY DEF MergeRaises, Typed, TypeOK

LEMMA MergingTyped ==
  ASSUME Typed,
         \/ NoMerge \/ BeginMerge \/ ReleasePrimary \/ (\E a \in Addrs : MoveAddress(a))
         \/ FinishMerge \/ MergeRefused \/ MergeFails
  PROVE  Typed'
  <1>0. cur # None /\ nb \in NetBox
    BY TargetInHand DEF NoMerge, BeginMerge, ReleasePrimary, MoveAddress, FinishMerge,
       MergeRefused, MergeFails, MergeRaises, Typed, TypeOK
  <1>1. CASE NoMerge
    <2>1. faults' \in 0..MaxFaults
      BY <1>1, LosingType DEF NoMerge
    <2> QED
      BY <1>0, <1>1, <2>1 DEF NoMerge, Typed, TypeOK
  <1>2. CASE BeginMerge
    <2>1. PICK lost \in Lost, d \in Devs :
            /\ Losing(lost) /\ Duplicate(d, lost) /\ Mergeable(d)
            /\ merge' = [keep |-> Keeper(d), lose |-> Loser(d), ips |-> RecordsOf(Loser(d).id),
                         released |-> ~HasPrimary(Loser(d))]
      BY <1>2 DEF BeginMerge
    <2>2. Keeper(d) \in Copy /\ Loser(d) \in Copy
      BY <1>2, <2>1, SidesType DEF BeginMerge
    <2>3. RecordsOf(Loser(d).id) \subseteq Addrs /\ (~HasPrimary(Loser(d))) \in BOOLEAN
      BY DEF RecordsOf
    <2>4. merge' \in Merge
      BY <2>1, <2>2, <2>3 DEF Merge
    <2>5. pc' = "merging" /\ merge' # None /\ faults' \in 0..MaxFaults
      BY <1>2, <2>1, <2>4, LosingType, NoneIsNone DEF BeginMerge
    <2> HIDE DEF Merge, NetBox
    <2> QED
      BY <1>0, <1>2, <2>4, <2>5 DEF BeginMerge, Typed, TypeOK
  <1>3. CASE ReleasePrimary
    <2>1. pc = "merging"
      BY <1>3 DEF ReleasePrimary
    <2>2. nb' \in NetBox
      BY <1>0, <1>3, <2>1, MergeInHand, PrimaryType DEF ReleasePrimary
    <2>3. merge' \in Merge /\ merge' # None
      BY <1>3, <2>1, MergeInHand, NoneIsNone DEF ReleasePrimary, Merge
    <2> HIDE DEF Merge, NetBox
    <2> QED
      BY <1>0, <1>3, <2>1, <2>2, <2>3 DEF ReleasePrimary, Typed, TypeOK
  <1>4. ASSUME NEW a \in Addrs, MoveAddress(a) PROVE Typed'
    <2>1. pc = "merging" /\ Moved(a) \in NetBox
      BY <1>4, MovedType DEF MoveAddress
    <2>2. nb' \in NetBox
      BY <1>4, <2>1, MergeInHand, PrimaryType DEF MoveAddress
    <2>3. merge' \in Merge /\ merge' # None
      BY <1>4, <2>1, MergeInHand, NoneIsNone DEF MoveAddress, Merge
    <2> HIDE DEF Merge, NetBox
    <2> QED
      BY <1>0, <1>4, <2>1, <2>2, <2>3 DEF MoveAddress, Typed, TypeOK
  <1>5. CASE FinishMerge
    <2>1. nb' \in NetBox
      BY <1>0, <1>5, MergeInHand, DeletingType DEF FinishMerge
    <2>2. CopyOf(nb', merge.keep.id) \in Copy /\ merge.keep \in Copy
      BY <1>5, <2>1, MergeInHand, CopyType DEF FinishMerge
    <2>3. cur' \in Target /\ cur' # None /\ cur'.copy # None
      BY <1>5, <2>2, TargetInHand, NoneIsNone DEF FinishMerge, Target
    <2> QED
      BY <1>5, <2>1, <2>3 DEF FinishMerge, Typed, TypeOK
  <1>6. CASE MergeRefused
    BY <1>0, <1>6, MergeRaisesTyped DEF MergeRefused, Typed, TypeOK
  <1>7. CASE MergeFails
    <2>1. pc \in {"dedup", "merging"} /\ MergeRaises
      BY <1>7 DEF MergeFails
    <2>2. nb' \in NetBox
      BY <1>0, <1>7, MovedType, MergeInHand DEF MergeFails
    <2>3. faults' \in 0..MaxFaults
      BY <1>7, SpendType DEF MergeFails
    <2> QED
      BY <2>1, <2>2, <2>3, MergeRaisesTyped
  <1> QED
    BY <1>1, <1>2, <1>3, <1>4, <1>5, <1>6, <1>7

\* The creation of a switch, step by step
LEMMA MakingTyped ==
  ASSUME Typed, CreateSwitch \/ FindAddress \/ AddAddress PROVE Typed'
  <1>0. nb \in NetBox
    BY DEF Typed, TypeOK
  <1>1. CASE CreateSwitch
    <2>1. Room(nb) /\ todo # <<>> /\ Head(todo) \in Addrs /\ pc \in {"reconcile", "queue"}
      BY <1>1, TodoType DEF CreateSwitch, Unknown
    <2>2. PICK answers \in BOOLEAN, recorded \in BOOLEAN :
            /\ Spend(Missing(answers) + (IF recorded THEN 0 ELSE 1))
            /\ nb' = NewSwitch(nb, Head(todo), IF recorded THEN {Chassis(BoxOf[Head(todo)])}
                                               ELSE {})
      BY <1>1 DEF CreateSwitch
    <2>3. nb' \in NetBox
      BY <1>0, <2>1, <2>2, NewSwitchType
    <2>4. faults' \in 0..MaxFaults
      <3>1. (Missing(answers) + (IF recorded THEN 0 ELSE 1)) \in Nat
        BY DEF Missing
      <3> QED
        BY <2>2, <3>1, SpendType
    <2>5. making' \in Making
      BY <1>0, <1>1, <2>1, FreshType DEF CreateSwitch, Making
    <2> HIDE DEF NetBox, Making
    <2> QED
      BY <1>1, <2>1, <2>3, <2>4, <2>5 DEF CreateSwitch, Typed, TypeOK
  <1>2. CASE FindAddress
    <2>1. making \in Making /\ pc \in {"reconcile", "queue"} /\ todo # <<>>
      BY <1>2, MakingInHand DEF FindAddress
    <2>2. making' \in Making
      BY <1>2, <2>1 DEF FindAddress, Found, Making
    <2> HIDE DEF NetBox, Making
    <2> QED
      BY <1>2, <2>1, <2>2 DEF FindAddress, Typed, TypeOK
  <1>3. CASE AddAddress
    <2>1. making.dev \in Devs /\ pc \in {"reconcile", "queue"} /\ todo # <<>>
      BY <1>3, MakingInHand DEF AddAddress
    <2>2. Head(todo) \in Addrs /\ Tail(todo) \in Seq(Addrs)
      BY <2>1, TodoType
    <2>3. Addressed(nb) \in NetBox
      BY <1>0, <2>1, <2>2, UpsertType DEF Addressed
    <2>4. nb' \in NetBox
      BY <1>3, <2>1, <2>2, <2>3, PrimaryType DEF AddAddress
    <2>5. [id |-> making.dev, managed |-> TRUE, primary |-> Bare] \in Copy
      BY <2>1 DEF Copy
    <2>6. ForNeighbour(Head(todo), [id |-> making.dev, managed |-> TRUE, primary |-> Bare])
            \in Target
      BY <2>1, <2>2, <2>5, TargetInHand DEF ForNeighbour, Target
    <2>7. queue' \in Seq(Target)
      BY <1>3, <2>6, AppendProperties DEF AddAddress, Typed, TypeOK
    <2> HIDE DEF NetBox, Target
    <2> QED
      BY <1>3, <2>1, <2>2, <2>4, <2>7 DEF AddAddress, Typed, TypeOK
  <1> QED
    BY <1>1, <1>2, <1>3

LEMMA DocumentingTyped ==
  ASSUME Typed, RecordMacs \/ ReconcileNeighbour \/ Reconciled \/ QueueNeighbour \/ TargetDone
  PROVE  Typed'
  <1>0. /\ pc \in {"record", "reconcile", "queue"} /\ cur # None /\ cur \in Target
        /\ cur.copy # None
        /\ BoxOf[cur.host] \in Boxes /\ Sees[BoxOf[cur.host]] \in Seq(Addrs)
    BY TargetInHand, BoxType, NoneIsNone DEF RecordMacs, ReconcileNeighbour, Reconciled,
       QueueNeighbour, TargetDone
  <1>1. CASE RecordMacs
    <2>1. PICK lost \in Lost :
            Losing(lost) /\ nb' = Record(nb, ToSet(identity) \ {lost}, cur.copy.id)
      BY <1>1 DEF RecordMacs
    <2>2. nb' \in NetBox
      BY <1>0, <2>1, TargetInHand, RecordType DEF Typed, TypeOK
    <2>3. faults' \in 0..MaxFaults
      BY <2>1, LosingType
    <2>4. visitedMac' \subseteq Macs /\ todo' \in Seq(Addrs)
      BY <1>0, <1>1, IdentityType DEF RecordMacs, Typed, TypeOK
    <2>5. pc = "record" /\ making = None
      BY <1>1 DEF RecordMacs, Typed, TypeOK
    <2> QED
      BY <1>0, <1>1, <2>2, <2>3, <2>4, <2>5 DEF RecordMacs, Typed, TypeOK
  <1>2. CASE ReconcileNeighbour
    <2>1. Tail(todo) \in Seq(Addrs)
      BY <1>2, TodoType DEF ReconcileNeighbour
    <2> QED
      BY <1>0, <1>2, <2>1 DEF ReconcileNeighbour, Typed, TypeOK
  <1>3. CASE Reconciled
    <2>0. making = None /\ <<>> \in Seq(Macs)
      BY <1>3 DEF Reconciled, Typed, TypeOK
    <2>1. CASE cur.depth < MaxDepth
      BY <1>0, <1>3, <2>0, <2>1 DEF Reconciled, Typed, TypeOK
    <2>2. CASE ~(cur.depth < MaxDepth)
      BY <1>0, <1>3, <2>0, <2>2 DEF Reconciled, Typed, TypeOK
    <2> QED
      BY <2>1, <2>2
  <1>4. CASE QueueNeighbour
    <2>1. Head(todo) \in Addrs /\ Tail(todo) \in Seq(Addrs)
      BY <1>4, TodoType DEF QueueNeighbour
    <2>2. faults' \in 0..MaxFaults
      <3>1. \A answers \in BOOLEAN : Missing(answers) \in Nat
        BY DEF Missing
      <3>2. faults' = faults \/ \E answers \in BOOLEAN : Spend(Missing(answers))
        BY <1>4 DEF QueueNeighbour
      <3> QED
        BY <3>1, <3>2, SpendType DEF Typed, TypeOK
    <2>3. \A c \in Copy \cup {None} : ForNeighbour(Head(todo), c) \in Target
      BY <2>1, TargetInHand, <1>0 DEF ForNeighbour, Target
    <2>4. \/ queue' = queue
          \/ \E c \in Copy \cup {None} : queue' = Append(queue, ForNeighbour(Head(todo), c))
      <3>1. ASSUME NEW answers \in BOOLEAN, Match(nb, Head(todo), answers) # None
            PROVE  CopyOf(nb, Match(nb, Head(todo), answers)) \in Copy
        BY <2>1, <3>1, LookupType, CopyType DEF Typed, TypeOK
      <3> QED
        BY <1>4, <3>1 DEF QueueNeighbour
    <2>5. queue' \in Seq(Target)
      BY <2>3, <2>4, AppendProperties DEF Typed, TypeOK
    <2>6. pc = "queue" /\ making = None
      BY <1>4 DEF QueueNeighbour
    <2> QED
      BY <1>0, <1>4, <2>1, <2>2, <2>5, <2>6 DEF QueueNeighbour, Typed, TypeOK
  <1>5. CASE TargetDone
    <2>1. making = None /\ <<>> \in Seq(Macs)
      BY <1>5 DEF TargetDone, Typed, TypeOK
    <2> QED
      BY <1>5, <1>0, <2>1 DEF TargetDone, Typed, TypeOK
  <1> QED
    BY <1>1, <1>2, <1>3, <1>4, <1>5

LEMMA EndingTyped ==
  ASSUME Typed, CrawlEnds \/ CrawlRaises \/ CrawlAborts PROVE Typed'
  <1>1. CASE CrawlEnds \/ CrawlRaises
    BY <1>1, IdleTyped DEF CrawlEnds, CrawlRaises, Typed, TypeOK
  <1>2. CASE CrawlAborts
    <2>1. nb' \in NetBox
      <3>1. CASE nb' = nb
        BY <3>1 DEF Typed, TypeOK
      <3>2. CASE todo # <<>> /\ Room(nb) /\ nb' = NewSwitch(nb, Head(todo), {})
        BY <3>2, TodoType, NewSwitchType DEF Typed, TypeOK
      <3>3. CASE making # None /\ nb' = Addressed(nb)
        <4>1. making.dev \in Devs /\ Head(todo) \in Addrs
          BY <3>3, MakingInHand, TodoType
        <4> QED
          BY <3>3, <4>1, UpsertType DEF Addressed, Typed, TypeOK
      <3> QED
        BY <1>2, <3>1, <3>2, <3>3 DEF CrawlAborts
    <2>2. faults' \in 0..MaxFaults
      BY <1>2, SpendType DEF CrawlAborts
    <2> QED
      BY <1>2, <2>1, <2>2, IdleTyped DEF CrawlAborts, Typed, TypeOK
  <1> QED
    BY <1>1, <1>2

\* What others write, kind by kind and record by record
LEMMA ScanFindsType ==
  ASSUME Typed, NEW a \in Addrs, ScanFinds(a)
  PROVE  /\ nb' \in NetBox /\ late' = late /\ Free(a) /\ Room(nb)
         /\ nb'.kind = [nb.kind EXCEPT ![Fresh(nb)] = "scan"]
         /\ nb'.ip = [nb.ip EXCEPT ![a] = "ours"]
         /\ nb'.on = [nb.on EXCEPT ![a] = Fresh(nb)]
  <1> DEFINE d == Fresh(nb)
             n == [nb EXCEPT !.kind[d] = "scan", !.ip[a] = "ours", !.on[a] = d, !.primary[d] = a]
  <1>1. d \in Devs
    BY FreshType DEF ScanFinds, Typed, TypeOK
  <1>2. PICK S : nb' = Record(n, S, d)
    BY DEF ScanFinds
  <1> HIDE DEF d
  <1>3. /\ [nb.kind EXCEPT ![d] = "scan"] \in [Devs -> {"none", "gone", "human"} \cup Managed]
        /\ [nb.ip EXCEPT ![a] = "ours"] \in [Addrs -> {"none", "lldp", "ours", "theirs"}]
        /\ [nb.on EXCEPT ![a] = d] \in [Addrs -> Devs \cup {None}]
        /\ [nb.primary EXCEPT ![d] = a] \in [Devs -> Addrs \cup {None}]
    BY <1>1 DEF Typed, TypeOK, NetBox, Managed
  <1>4. /\ n \in NetBox /\ n.kind = [nb.kind EXCEPT ![d] = "scan"]
        /\ n.ip = [nb.ip EXCEPT ![a] = "ours"] /\ n.on = [nb.on EXCEPT ![a] = d]
    BY <1>3 DEF Typed, TypeOK, NetBox
  <1> HIDE DEF n
  <1>5. nb' \in NetBox /\ nb'.kind = n.kind /\ nb'.ip = n.ip /\ nb'.on = n.on
    BY <1>1, <1>2, <1>4, RecordType
  <1> QED
    BY <1>4, <1>5 DEF ScanFinds, d

LEMMA LeaseFoundType ==
  ASSUME Typed, NEW a \in Addrs, LeaseFound(a)
  PROVE  /\ nb' \in NetBox /\ late' = late /\ Free(a)
         /\ nb'.kind = nb.kind /\ nb'.on = nb.on /\ nb'.ip = [nb.ip EXCEPT ![a] = "ours"]
  BY DEF LeaseFound, Typed, TypeOK, NetBox

LEMMA PersonDocumentsType ==
  ASSUME Typed, NEW a \in Addrs, PersonDocuments(a)
  PROVE  /\ nb' \in NetBox /\ late' = late /\ Free(a)
         /\ nb'.ip = [nb.ip EXCEPT ![a] = "theirs"]
         /\ \A c \in Addrs \ {a} : nb'.on[c] = nb.on[c]
         /\ \/ nb'.kind = nb.kind
            \/ Room(nb) /\ nb'.kind = [nb.kind EXCEPT ![Fresh(nb)] = "human"]
  <1>0. [nb.ip EXCEPT ![a] = "theirs"] \in [Addrs -> {"none", "lldp", "ours", "theirs"}]
    BY DEF Typed, TypeOK, NetBox
  <1>1. ASSUME NEW d \in Devs
        PROVE  /\ [nb.on EXCEPT ![a] = d] \in [Addrs -> Devs \cup {None}]
               /\ \A c \in Addrs \ {a} : [nb.on EXCEPT ![a] = d][c] = nb.on[c]
               /\ [nb.kind EXCEPT ![d] = "human"]
                    \in [Devs -> {"none", "gone", "human"} \cup Managed]
               /\ [nb.primary EXCEPT ![d] = a] \in [Devs -> Addrs \cup {None}]
    BY DEF Typed, TypeOK, NetBox
  <1>2. CASE Room(nb) /\ nb' = [nb EXCEPT !.kind[Fresh(nb)] = "human", !.ip[a] = "theirs",
                                          !.on[a] = Fresh(nb), !.primary[Fresh(nb)] = a]
    <2> DEFINE d == Fresh(nb)
    <2>1. d \in Devs
      BY <1>2, FreshType DEF Typed, TypeOK
    <2> HIDE DEF d
    <2>2. /\ nb' \in NetBox /\ nb'.kind = [nb.kind EXCEPT ![d] = "human"]
          /\ nb'.ip = [nb.ip EXCEPT ![a] = "theirs"] /\ nb'.on = [nb.on EXCEPT ![a] = d]
      BY <1>0, <1>1, <1>2, <2>1 DEF Typed, TypeOK, NetBox, d
    <2> QED
      BY <1>1, <1>2, <2>1, <2>2 DEF PersonDocuments, d
  <1>3. ASSUME NEW d \in Devs, nb' = [nb EXCEPT !.ip[a] = "theirs", !.on[a] = d]
        PROVE  /\ nb' \in NetBox /\ nb'.kind = nb.kind
               /\ nb'.ip = [nb.ip EXCEPT ![a] = "theirs"] /\ nb'.on = [nb.on EXCEPT ![a] = d]
    BY <1>0, <1>1, <1>3 DEF Typed, TypeOK, NetBox
  <1> QED
    BY <1>1, <1>2, <1>3 DEF PersonDocuments

LEMMA TakenType ==
  ASSUME Typed
  PROVE  /\ \A d \in Devs : PersonTakesDevice(d) =>
              /\ nb' \in NetBox /\ late \subseteq late' /\ late' \subseteq late \cup {d}
              /\ nb'.kind = [nb.kind EXCEPT ![d] = "human"] /\ nb'.ip = nb.ip /\ nb'.on = nb.on
         /\ \A a \in Addrs : PersonTakesRecord(a) =>
              /\ nb' \in NetBox /\ late \subseteq late' /\ late' \subseteq late \cup {a}
              /\ nb'.kind = nb.kind /\ nb'.ip = [nb.ip EXCEPT ![a] = "theirs"]
              /\ nb'.on = nb.on
  <1>1. ASSUME NEW d \in Devs, PersonTakesDevice(d)
        PROVE  /\ nb' \in NetBox /\ late \subseteq late' /\ late' \subseteq late \cup {d}
               /\ nb'.kind = [nb.kind EXCEPT ![d] = "human"] /\ nb'.ip = nb.ip /\ nb'.on = nb.on
    <2>1. [nb.kind EXCEPT ![d] = "human"] \in [Devs -> {"none", "gone", "human"} \cup Managed]
      BY DEF Typed, TypeOK, NetBox
    <2>2. late' = late \/ late' = late \cup {d}
      BY <1>1 DEF PersonTakesDevice
    <2>3. nb' = [nb EXCEPT !.kind[d] = "human"]
      BY <1>1 DEF PersonTakesDevice
    <2> QED
      BY <2>1, <2>2, <2>3 DEF Typed, TypeOK, NetBox
  <1>2. ASSUME NEW a \in Addrs, PersonTakesRecord(a)
        PROVE  /\ nb' \in NetBox /\ late \subseteq late' /\ late' \subseteq late \cup {a}
               /\ nb'.kind = nb.kind /\ nb'.ip = [nb.ip EXCEPT ![a] = "theirs"]
               /\ nb'.on = nb.on
    <2>1. [nb.ip EXCEPT ![a] = "theirs"] \in [Addrs -> {"none", "lldp", "ours", "theirs"}]
      BY DEF Typed, TypeOK, NetBox
    <2>2. late' = late \/ late' = late \cup {a}
      BY <1>2 DEF PersonTakesRecord
    <2>3. nb' = [nb EXCEPT !.ip[a] = "theirs"]
      BY <1>2 DEF PersonTakesRecord
    <2> QED
      BY <2>1, <2>2, <2>3 DEF Typed, TypeOK, NetBox
  <1> QED
    BY <1>1, <1>2

\* What others write leaves a NetBox, too, and nothing else of the crawl.
LEMMA OthersTyped ==
  ASSUME Typed, OthersWrite \/ PersonTags \/ Rebuilt PROVE Typed'
  <1>1. CASE OthersWrite
    <2>1. nb' \in NetBox /\ late' \subseteq late \cup Addrs \cup Devs
      <3>1. ASSUME NEW a \in Addrs,
                   ScanFinds(a) \/ LeaseFound(a) \/ PersonDocuments(a) \/ PersonTakesRecord(a)
            PROVE  nb' \in NetBox /\ late' \subseteq late \cup Addrs \cup Devs
        BY <3>1, ScanFindsType, LeaseFoundType, PersonDocumentsType, TakenType
      <3>2. ASSUME NEW d \in Devs, ScanDeleted(d)
            PROVE  nb' \in NetBox /\ late' \subseteq late \cup Addrs \cup Devs
        BY <3>2, DeletingType DEF ScanDeleted, Typed, TypeOK
      <3>3. ASSUME NEW d \in Devs, PersonTakesDevice(d)
            PROVE  nb' \in NetBox /\ late' \subseteq late \cup Addrs \cup Devs
        BY <3>3, TakenType
      <3> QED
        BY <1>1, <3>1, <3>2, <3>3 DEF OthersWrite
    <2>2. changes' \in 0..MaxChanges
      BY <1>1, NoneIsNone DEF OthersWrite, Typed, TypeOK
    <2> QED
      BY <1>1, <2>1, <2>2 DEF OthersWrite, crawl, Typed, TypeOK
  <1>2. CASE PersonTags
    <2>1. PICK d \in Devs : seeds' = seeds \cup {d}
      BY <1>2 DEF PersonTags
    <2>2. IsFiniteSet(seeds') /\ seeds' \subseteq Devs
      BY <2>1, FS_AddElement DEF Typed, TypeOK
    <2>3. changes' \in 0..MaxChanges
      BY <1>2, NoneIsNone DEF PersonTags, Typed, TypeOK
    <2> QED
      BY <1>2, <2>2, <2>3 DEF PersonTags, crawl, Typed, TypeOK
  <1>3. CASE Rebuilt
    <2>1. changes' \in 0..MaxChanges /\ resolved' \in BOOLEAN
      BY <1>3, NoneIsNone DEF Rebuilt, Typed, TypeOK
    <2> QED
      BY <1>3, <2>1 DEF Rebuilt, crawl, Typed, TypeOK
  <1> QED
    BY <1>1, <1>2, <1>3

LEMMA NextTyped == ASSUME Typed, [Next]_vars PROVE Typed'
  <1>1. CASE UNCHANGED vars
    BY <1>1 DEF vars, crawl, Typed, TypeOK
  <1> QED
    BY <1>1, StartCrawlTyped, TakingTyped, MergingTyped, MakingTyped, DocumentingTyped,
       EndingTyped, OthersTyped DEF Next, CrawlStep

\* Every variable keeps its type.
THEOREM TypeCorrect == Spec => []TypeOK
  <1>1. Typed => TypeOK
    BY DEF Typed
  <1> QED
    BY <1>1, InitTyped, NextTyped, PTL DEF Spec

-------------------------------------------------------------------------------
(****************************************************************************)
(* People's devices and records are left alone.                             *)
(*                                                                          *)
(* What the crawl deletes and moves it chose when it read the device, so    *)
(* the invariant says what its copies are still good for: a device that was *)
(* managed when it was read is managed yet, or gone, or late; and a record  *)
(* on a merge's list is no person's or is late, and still on the loser      *)
(* unless NetBox unassigned it.  The same goes for what the creation of a   *)
(* switch found at its address.                                             *)
(****************************************************************************)

Truthful(n, l, c) ==
  c # None /\ c.managed => n.kind[c.id] \in Managed \cup {"gone"} \/ c.id \in l

MergeIsFair ==
  merge # None =>
    /\ Truthful(nb, late, merge.keep) /\ Truthful(nb, late, merge.lose) /\ merge.lose.managed
    /\ \A a \in merge.ips : /\ nb.ip[a] # "theirs" \/ a \in late
                            /\ nb.on[a] \in {merge.lose.id, None}

MakingIsFair ==
  making # None =>
    /\ nb.kind[making.dev] = "lldp" \/ making.dev \in late
    /\ making.found = "none" => nb.ip[Head(todo)] = "none"
    /\ making.found = "free" => /\ nb.on[Head(todo)] = None
                                /\ \/ nb.ip[Head(todo)] = "lldp"
                                   \/ nb.ip[Head(todo)] = "theirs" /\ Head(todo) \in late

CopiesAreTrue ==
  /\ \A i \in 1..Len(queue) : Truthful(nb, late, queue[i].copy)
  /\ cur # None => Truthful(nb, late, cur.copy)

Placed == \A a \in Addrs : nb.ip[a] = "none" => nb.on[a] = None

Honest == Typed /\ Placed /\ CopiesAreTrue /\ MergeIsFair /\ MakingIsFair

\* What a step writes to NetBox: it adds a device, or an address where nothing is
\* assigned to it; or it moves a record of the merge; or it deletes the loser.
Adds ==
  /\ \A d \in Devs : nb.kind[d] # "none" => nb'.kind[d] = nb.kind[d]
  /\ \A a \in Addrs : \/ nb'.ip[a] = nb.ip[a] /\ nb'.on[a] = nb.on[a]
                      \/ /\ nb.on[a] = None /\ nb'.ip[a] # "none"
                         /\ nb.ip[a] # "theirs" \/ a \in late

Moves ==
  /\ pc = "merging" /\ nb'.kind = nb.kind /\ nb'.ip = nb.ip
  /\ \E a \in merge.ips : /\ nb.ip[a] # "none"
                          /\ \A c \in Addrs \ {a} : nb'.on[c] = nb.on[c]

LEMMA StayAdds ==
  ASSUME nb'.kind = nb.kind, nb'.ip = nb.ip, nb'.on = nb.on PROVE Adds
  BY DEF Adds

LEMMA NewSwitchAdds ==
  ASSUME Honest, todo # <<>>, Room(nb), NEW S, nb' = NewSwitch(nb, Head(todo), S)
  PROVE  Adds
  <1>0. nb \in NetBox /\ Head(todo) \in Addrs
    BY TodoType DEF Honest, Typed, TypeOK
  <1>1. /\ nb'.kind = [nb.kind EXCEPT ![Fresh(nb)] = "lldp"]
        /\ nb'.ip = nb.ip /\ nb'.on = nb.on
    BY <1>0, NewSwitchType
  <1>2. nb.kind[Fresh(nb)] = "none"
    BY <1>0, FreshType
  <1> QED
    BY <1>1, <1>2 DEF Adds, Honest, Typed, TypeOK, NetBox

\* The address a switch gets is still as it was found, or late.
LEMMA AddressedType ==
  ASSUME Honest, making # None, making.found \in {"none", "free"}
  PROVE  /\ Addressed(nb) \in NetBox /\ Head(todo) \in Addrs /\ making.dev \in Devs
         /\ Addressed(nb).kind = nb.kind /\ Addressed(nb).name = nb.name
         /\ Addressed(nb).mac = nb.mac
         /\ nb.on[Head(todo)] = None
         /\ \A c \in Addrs \ {Head(todo)} : /\ Addressed(nb).on[c] = nb.on[c]
                                            /\ Addressed(nb).ip[c] = nb.ip[c]
         /\ Addressed(nb).ip[Head(todo)] # "none"
         /\ nb.ip[Head(todo)] # "theirs" \/ Head(todo) \in late
  <1>1. Head(todo) \in Addrs /\ making.dev \in Devs /\ nb \in NetBox
    BY MakingInHand, TodoType DEF Honest, Typed, TypeOK
  <1> DEFINE m == Upsert(nb, Head(todo), making.dev, making.found)
  <1>2. /\ m \in NetBox /\ m.kind = nb.kind /\ m.name = nb.name /\ m.mac = nb.mac
        /\ m.on = [nb.on EXCEPT ![Head(todo)] = making.dev]
        /\ m.ip = IF making.found = "none" THEN [nb.ip EXCEPT ![Head(todo)] = "lldp"] ELSE nb.ip
    BY <1>1, UpsertType
  <1> HIDE DEF m
  <1>3. /\ nb.on \in [Addrs -> Devs \cup {None}]
        /\ nb.ip \in [Addrs -> {"none", "lldp", "ours", "theirs"}]
    BY <1>1 DEF NetBox
  <1>4. /\ nb.on[Head(todo)] = None
        /\ making.found = "free" => nb.ip[Head(todo)] # "none"
        /\ nb.ip[Head(todo)] # "theirs" \/ Head(todo) \in late
    BY <1>1 DEF Honest, MakingIsFair, Placed
  <1>5. /\ \A c \in Addrs \ {Head(todo)} : m.on[c] = nb.on[c] /\ m.ip[c] = nb.ip[c]
        /\ m.ip[Head(todo)] # "none"
    BY <1>1, <1>2, <1>3, <1>4
  <1>6. Addressed(nb) = m
    BY DEF Addressed, m
  <1> QED
    BY <1>1, <1>2, <1>4, <1>5, <1>6

LEMMA AddressedAdds ==
  ASSUME Honest, making # None, making.found \in {"none", "free"},
         nb'.kind = Addressed(nb).kind, nb'.ip = Addressed(nb).ip, nb'.on = Addressed(nb).on
  PROVE  Adds
  BY AddressedType DEF Adds

LEMMA AddAddressWrites ==
  ASSUME Honest, AddAddress
  PROVE  /\ nb'.kind = nb.kind /\ nb'.name = nb.name /\ nb'.mac = nb.mac
         /\ nb'.ip = Addressed(nb).ip /\ nb'.on = Addressed(nb).on
  BY AddressedType, PrimaryType DEF AddAddress

LEMMA MovedMoves ==
  ASSUME Typed, pc = "merging", NEW a \in merge.ips, Movable(a),
         nb'.kind = nb.kind, nb'.ip = nb.ip, nb'.on = Moved(a).on
  PROVE  Moves
  <1>1. a \in Addrs
    BY MergeInHand
  <1>2. \A c \in Addrs \ {a} : nb'.on[c] = nb.on[c]
    BY <1>1 DEF Moved, Typed, TypeOK, NetBox
  <1> QED
    BY <1>2 DEF Moves, Movable

LEMMA MoveAddressWrites ==
  ASSUME Typed, NEW a \in Addrs, MoveAddress(a)
  PROVE  /\ nb'.kind = nb.kind /\ nb'.name = nb.name /\ nb'.mac = nb.mac
         /\ nb'.ip = nb.ip /\ nb'.on = Moved(a).on
  <1>1. pc = "merging" /\ merge.keep.id \in Devs
    BY MergeInHand DEF MoveAddress
  <1>2. /\ Moved(a) \in NetBox /\ Moved(a).kind = nb.kind /\ Moved(a).name = nb.name
        /\ Moved(a).mac = nb.mac /\ Moved(a).ip = nb.ip
    BY <1>1, MovedType
  <1>3. nb' = Moved(a) \/ nb' = [Moved(a) EXCEPT !.primary[merge.keep.id] = a]
    BY DEF MoveAddress
  <1>4. LET m == [Moved(a) EXCEPT !.primary[merge.keep.id] = a]
        IN  /\ m.kind = Moved(a).kind /\ m.name = Moved(a).name /\ m.mac = Moved(a).mac
            /\ m.ip = Moved(a).ip /\ m.on = Moved(a).on
    BY <1>1, <1>2, PrimaryType
  <1> QED
    BY <1>2, <1>3, <1>4

LEMMA RecordMacsWrites ==
  ASSUME Typed, RecordMacs
  PROVE  /\ cur.copy.id \in Devs /\ nb \in NetBox /\ \E S : nb' = Record(nb, S, cur.copy.id)
         /\ nb'.kind = nb.kind /\ nb'.ip = nb.ip /\ nb'.on = nb.on
  <1>1. cur.copy.id \in Devs /\ nb \in NetBox
    BY TargetInHand DEF RecordMacs, Typed, TypeOK
  <1>2. PICK S : nb' = Record(nb, S, cur.copy.id)
    BY DEF RecordMacs
  <1> QED
    BY <1>1, <1>2, RecordType

\* A released primary address is no more than that.
LEMMA ReleaseWrites ==
  ASSUME Typed, ReleasePrimary
  PROVE  /\ nb'.kind = nb.kind /\ nb'.name = nb.name /\ nb'.mac = nb.mac
         /\ nb'.ip = nb.ip /\ nb'.on = nb.on
  BY MergeInHand, PrimaryType DEF ReleasePrimary, Typed, TypeOK

LEMMA Writes ==
  ASSUME Honest, [Next]_vars
  PROVE  StartCrawl \/ FinishMerge \/ Moves \/ Adds \/ OthersWrite
  <1>0. Typed
    BY DEF Honest
  <1>1. CASE nb' = nb
    BY <1>1, StayAdds
  <1>2. CASE \/ UNCHANGED vars \/ CrawlEnds \/ NextTarget \/ Polled \/ PolledUnknown
             \/ PolledInVain \/ NoMerge \/ BeginMerge \/ MergeRefused \/ FindAddress
             \/ ReconcileNeighbour \/ Reconciled \/ QueueNeighbour \/ TargetDone
             \/ CrawlRaises \/ PollFails \/ PersonTags \/ Rebuilt
    BY <1>1, <1>2 DEF vars, CrawlEnds, NextTarget, Polled, PolledUnknown, PolledInVain,
       NoMerge, BeginMerge, MergeRefused, FindAddress, ReconcileNeighbour, Reconciled,
       QueueNeighbour, TargetDone, CrawlRaises, PollFails, PersonTags, Rebuilt
  <1>3. CASE ReleasePrimary
    BY <1>0, <1>3, ReleaseWrites, StayAdds
  <1>4. ASSUME NEW a \in Addrs, MoveAddress(a) PROVE Moves
    BY <1>0, <1>4, MoveAddressWrites, MovedMoves DEF MoveAddress
  <1>5. CASE MergeFails
    <2>1. ASSUME pc = "merging", NEW a \in merge.ips, Movable(a), nb' = Moved(a) PROVE Moves
      <3>1. a \in Addrs
        BY <1>0, <2>1, MergeInHand
      <3>2. nb'.kind = nb.kind /\ nb'.ip = nb.ip
        BY <1>0, <2>1, <3>1, MovedType
      <3> QED
        BY <1>0, <2>1, <3>2, MovedMoves
    <2> QED
      BY <1>1, <1>5, <2>1 DEF MergeFails
  <1>6. CASE RecordMacs
    BY <1>0, <1>6, RecordMacsWrites, StayAdds
  <1>7. CASE CreateSwitch
    BY <1>7, NewSwitchAdds DEF CreateSwitch
  <1>8. CASE AddAddress
    BY <1>8, AddAddressWrites, AddressedType, AddressedAdds DEF AddAddress
  <1>9. CASE CrawlAborts
    <2>1. CASE todo # <<>> /\ Room(nb) /\ nb' = NewSwitch(nb, Head(todo), {})
      BY <2>1, NewSwitchAdds
    <2>2. CASE making # None /\ making.found \in {"none", "free"} /\ nb' = Addressed(nb)
      BY <2>2, AddressedAdds
    <2> QED
      BY <1>1, <1>9, <2>1, <2>2 DEF CrawlAborts
  <1> QED
    BY <1>2, <1>3, <1>4, <1>5, <1>6, <1>7, <1>8, <1>9 DEF Next, CrawlStep

\* The loser's deletion, device by device and record by record
LEMMA FinishDeletes ==
  ASSUME Typed, FinishMerge
  PROVE  /\ nb'.kind = [nb.kind EXCEPT ![merge.lose.id] = "gone"]
         /\ \A a \in Addrs : IF nb.on[a] = merge.lose.id THEN nb'.on[a] = None
                             ELSE nb'.on[a] = nb.on[a] /\ nb'.ip[a] = nb.ip[a]
  <1>1. nb \in NetBox /\ merge.lose.id \in Devs /\ nb' \in Deleting(nb, merge.lose.id)
    BY MergeInHand DEF FinishMerge, Typed, TypeOK
  <1> HIDE DEF NetBox
  <1> QED
    BY <1>1, DeletingType

LEMMA ScanDeletedType ==
  ASSUME Typed, NEW d \in Devs, ScanDeleted(d)
  PROVE  /\ late' = late /\ nb.kind[d] = "scan"
         /\ nb'.kind = [nb.kind EXCEPT ![d] = "gone"]
         /\ \A a \in Addrs : \/ nb'.ip[a] = nb.ip[a] /\ nb'.on[a] = nb.on[a]
                             \/ /\ nb.on[a] = d /\ nb'.on[a] = None
                                /\ nb'.ip[a] \in {nb.ip[a], "none"}
  <1>1. nb \in NetBox /\ nb' \in Deleting(nb, d)
    BY DEF ScanDeleted, Typed, TypeOK
  <1> HIDE DEF NetBox
  <1>2. /\ nb'.kind = [nb.kind EXCEPT ![d] = "gone"]
        /\ \A a \in Addrs : IF nb.on[a] = d THEN nb'.on[a] = None
                             ELSE nb'.on[a] = nb.on[a] /\ nb'.ip[a] = nb.ip[a]
        /\ \A a \in Addrs : nb'.ip[a] \in {nb.ip[a], "none"}
    BY <1>1, DeletingType
  <1> QED
    BY <1>2 DEF ScanDeleted

\* What a person takes over while the crawl goes by an older copy of it is late.
LEMMA TakenIsLate ==
  ASSUME Typed, NEW d \in Devs, PersonTakesDevice(d)
  PROVE  /\ \A c \in Copies \ {None} : c.id = d /\ c.managed => d \in late'
         /\ making # None /\ making.dev = d => d \in late'
  BY DEF PersonTakesDevice

LEMMA RecordTakenIsLate ==
  ASSUME Typed, NEW a \in Addrs, PersonTakesRecord(a)
  PROVE  /\ nb.ip[a] # "none"
         /\ merge # None /\ a \in merge.ips => a \in late'
         /\ making # None /\ making.found = "free" /\ a = Head(todo) => a \in late'
  BY DEF PersonTakesRecord

\* What others write: a device is made anew, is deleted, or changes hands and is late if
\* a copy of it is in use.
LEMMA OthersKinds ==
  ASSUME Typed, OthersWrite
  PROVE  /\ late \subseteq late'
         /\ \A d \in Devs : nb.kind[d] \in Managed \cup {"gone"} =>
              \/ nb'.kind[d] = nb.kind[d]
              \/ nb.kind[d] = "scan" /\ nb'.kind[d] = "gone"
              \/ /\ \A c \in Copies \ {None} : c.id = d /\ c.managed => d \in late'
                 /\ making # None /\ making.dev = d => d \in late'
  <1>1. nb.kind \in [Devs -> {"none", "gone", "human"} \cup Managed]
    BY DEF Typed, TypeOK, NetBox
  <1>2. Room(nb) => nb.kind[Fresh(nb)] = "none" /\ Fresh(nb) \in Devs
    BY FreshType DEF Typed, TypeOK
  <1>3. ASSUME NEW a \in Addrs,
               ScanFinds(a) \/ LeaseFound(a) \/ PersonDocuments(a) \/ PersonTakesRecord(a)
        PROVE  /\ late \subseteq late'
               /\ \A d \in Devs : nb.kind[d] \in Managed \cup {"gone"} => nb'.kind[d] = nb.kind[d]
    <2>1. CASE ScanFinds(a)
      BY <1>1, <1>2, <2>1, ScanFindsType DEF Managed
    <2>2. CASE LeaseFound(a)
      BY <2>2, LeaseFoundType
    <2>3. CASE PersonDocuments(a)
      BY <1>1, <1>2, <2>3, PersonDocumentsType DEF Managed
    <2>4. CASE PersonTakesRecord(a)
      BY <2>4, TakenType
    <2> QED
      BY <1>3, <2>1, <2>2, <2>3, <2>4
  <1>4. ASSUME NEW d \in Devs, ScanDeleted(d)
        PROVE  /\ late \subseteq late' /\ nb.kind[d] = "scan" /\ nb'.kind[d] = "gone"
               /\ \A e \in Devs \ {d} : nb'.kind[e] = nb.kind[e]
    <2>1. /\ late' = late /\ nb.kind[d] = "scan"
          /\ nb'.kind = [nb.kind EXCEPT ![d] = "gone"]
      BY <1>4, ScanDeletedType
    <2> QED
      BY <1>1, <2>1
  <1>5. ASSUME NEW d \in Devs, PersonTakesDevice(d)
        PROVE  /\ late \subseteq late'
               /\ \A e \in Devs \ {d} : nb'.kind[e] = nb.kind[e]
               /\ \A c \in Copies \ {None} : c.id = d /\ c.managed => d \in late'
               /\ making # None /\ making.dev = d => d \in late'
    <2>1. late \subseteq late' /\ nb'.kind = [nb.kind EXCEPT ![d] = "human"]
      BY <1>5, TakenType
    <2> QED
      BY <1>1, <1>5, <2>1, TakenIsLate
  <1>6. \/ \E a \in Addrs : ScanFinds(a) \/ LeaseFound(a) \/ PersonDocuments(a)
                              \/ PersonTakesRecord(a)
        \/ \E d \in Devs : ScanDeleted(d) \/ PersonTakesDevice(d)
    BY DEF OthersWrite
  <1>7. CASE \E a \in Addrs : ScanFinds(a) \/ LeaseFound(a) \/ PersonDocuments(a)
                                \/ PersonTakesRecord(a)
    BY <1>3, <1>7
  <1>8. ASSUME NEW e \in Devs, ScanDeleted(e) \/ PersonTakesDevice(e)
        PROVE  /\ late \subseteq late'
               /\ \A d \in Devs : nb.kind[d] \in Managed \cup {"gone"} =>
                    \/ nb'.kind[d] = nb.kind[d]
                    \/ nb.kind[d] = "scan" /\ nb'.kind[d] = "gone"
                    \/ /\ \A c \in Copies \ {None} : c.id = d /\ c.managed => d \in late'
                       /\ making # None /\ making.dev = d => d \in late'
    <2>1. CASE ScanDeleted(e)
      BY <1>4, <2>1
    <2>2. CASE PersonTakesDevice(e)
      BY <1>5, <2>2
    <2> QED
      BY <1>8, <2>1, <2>2
  <1> QED
    BY <1>6, <1>7, <1>8

\* ... and a record is made where there was none, loses its device, or changes hands and
\* is late if the merge or the creation of a switch has seen it.
LEMMA OthersRecords ==
  ASSUME Typed, OthersWrite, NEW a \in Addrs
  PROVE  \/ nb'.ip[a] = nb.ip[a] /\ nb'.on[a] = nb.on[a]
         \/ nb.on[a] # None /\ nb'.on[a] = None /\ nb'.ip[a] \in {nb.ip[a], "none"}
         \/ Free(a) /\ nb'.ip[a] # "none"
         \/ /\ nb.ip[a] # "none" /\ nb'.on[a] = nb.on[a] /\ nb'.ip[a] = "theirs"
            /\ merge # None /\ a \in merge.ips => a \in late'
            /\ making # None /\ making.found = "free" /\ a = Head(todo) => a \in late'
  <1>1. /\ nb.ip \in [Addrs -> {"none", "lldp", "ours", "theirs"}]
        /\ nb.on \in [Addrs -> Devs \cup {None}]
    BY DEF Typed, TypeOK, NetBox
  <1>2. ASSUME NEW c \in Addrs, ScanFinds(c)
        PROVE  \/ nb'.ip[a] = nb.ip[a] /\ nb'.on[a] = nb.on[a]
               \/ Free(a) /\ nb'.ip[a] # "none"
    BY <1>1, <1>2, ScanFindsType
  <1>3. ASSUME NEW c \in Addrs, LeaseFound(c)
        PROVE  \/ nb'.ip[a] = nb.ip[a] /\ nb'.on[a] = nb.on[a]
               \/ Free(a) /\ nb'.ip[a] # "none"
    BY <1>1, <1>3, LeaseFoundType
  <1>4. ASSUME NEW c \in Addrs, PersonDocuments(c)
        PROVE  \/ nb'.ip[a] = nb.ip[a] /\ nb'.on[a] = nb.on[a]
               \/ Free(a) /\ nb'.ip[a] # "none"
    BY <1>1, <1>4, PersonDocumentsType
  <1>5. ASSUME NEW c \in Addrs, PersonTakesRecord(c)
        PROVE  \/ nb'.ip[a] = nb.ip[a] /\ nb'.on[a] = nb.on[a]
               \/ /\ nb.ip[a] # "none" /\ nb'.on[a] = nb.on[a] /\ nb'.ip[a] = "theirs"
                  /\ merge # None /\ a \in merge.ips => a \in late'
                  /\ making # None /\ making.found = "free" /\ a = Head(todo) => a \in late'
    <2>1. nb'.ip = [nb.ip EXCEPT ![c] = "theirs"] /\ nb'.on = nb.on
      BY <1>5, TakenType
    <2>2. CASE c = a
      BY <1>1, <1>5, <2>1, <2>2, RecordTakenIsLate
    <2>3. CASE c # a
      BY <1>1, <2>1, <2>3
    <2> QED
      BY <2>2, <2>3
  <1>6. ASSUME NEW d \in Devs, ScanDeleted(d)
        PROVE  \/ nb'.ip[a] = nb.ip[a] /\ nb'.on[a] = nb.on[a]
               \/ nb.on[a] # None /\ nb'.on[a] = None /\ nb'.ip[a] \in {nb.ip[a], "none"}
    BY <1>6, ScanDeletedType, NoneIsNone
  <1>7. ASSUME NEW d \in Devs, PersonTakesDevice(d)
        PROVE  nb'.ip[a] = nb.ip[a] /\ nb'.on[a] = nb.on[a]
    BY <1>7, TakenType
  <1> QED
    BY <1>2, <1>3, <1>4, <1>5, <1>6, <1>7 DEF OthersWrite

\* Only the end of a crawl forgets what came late.
LEMMA LateStays ==
  ASSUME Typed, [Next]_vars, ~CrawlEnds, ~CrawlRaises, ~CrawlAborts
  PROVE  late \subseteq late'
  <1>1. CASE OthersWrite
    BY <1>1, OthersKinds
  <1>2. CASE \/ UNCHANGED vars \/ StartCrawl \/ NextTarget \/ Polled \/ PolledUnknown
             \/ PolledInVain \/ NoMerge \/ BeginMerge \/ ReleasePrimary
             \/ (\E a \in Addrs : MoveAddress(a)) \/ FinishMerge \/ MergeRefused
             \/ RecordMacs \/ CreateSwitch \/ FindAddress \/ AddAddress
             \/ ReconcileNeighbour \/ Reconciled \/ QueueNeighbour \/ TargetDone
             \/ PollFails \/ MergeFails \/ PersonTags \/ Rebuilt
    BY <1>2 DEF vars, StartCrawl, NextTarget, Polled, PolledUnknown, PolledInVain, NoMerge,
       BeginMerge, ReleasePrimary, MoveAddress, FinishMerge, MergeRefused, RecordMacs,
       CreateSwitch, FindAddress, AddAddress, ReconcileNeighbour, Reconciled,
       QueueNeighbour, TargetDone, PollFails, MergeFails, MergeRaises, PersonTags, Rebuilt
  <1> QED
    BY <1>1, <1>2 DEF Next, CrawlStep

\* A copy in use that is true stays true, as long as the crawl runs.
LEMMA TruthStays ==
  ASSUME Honest, [Next]_vars, ~StartCrawl, ~CrawlEnds, ~CrawlRaises, ~CrawlAborts,
         NEW c \in Copies, c = None \/ c \in Copy, Truthful(nb, late, c)
  PROVE  Truthful(nb', late', c)
  <1> SUFFICES ASSUME c # None, c.managed
               PROVE  nb'.kind[c.id] \in Managed \cup {"gone"} \/ c.id \in late'
    BY DEF Truthful
  <1>1. late \subseteq late' /\ c.id \in Devs
    BY LateStays DEF Honest, Copy
  <1>2. CASE c.id \in late
    BY <1>1, <1>2
  <1>3. CASE nb.kind[c.id] \in Managed \cup {"gone"}
    <2>1. CASE FinishMerge
      BY <1>1, <1>3, <2>1, FinishDeletes, MergeInHand DEF FinishMerge, Honest, Typed, TypeOK,
         NetBox
    <2>2. CASE Moves
      BY <1>3, <2>2 DEF Moves
    <2>3. CASE Adds
      BY <1>1, <1>3, <2>3 DEF Adds, Managed
    <2>4. CASE OthersWrite
      BY <1>1, <1>3, <2>4, OthersKinds DEF Honest
    <2> QED
      BY <2>1, <2>2, <2>3, <2>4, Writes
  <1> QED
    BY <1>2, <1>3 DEF Truthful

\* What has just been read is true.
LEMMA ReadIsTrue == \A n, l, d : Truthful(n, l, CopyOf(n, d))
  BY DEF Truthful, CopyOf

LEMMA PlacedStays == ASSUME Honest, [Next]_vars PROVE Placed'
  <1>1. CASE FinishMerge
    BY <1>1, FinishDeletes DEF Honest, Placed
  <1>2. CASE Moves
    BY <1>2 DEF Moves, Honest, Placed
  <1>3. CASE Adds
    BY <1>3 DEF Adds, Honest, Placed
  <1>4. CASE OthersWrite
    BY <1>4, OthersRecords DEF Honest, Placed
  <1>5. CASE StartCrawl
    <2>1. nb'.ip = nb.ip /\ nb'.on = nb.on
      BY <1>5 DEF StartCrawl, Honest, Typed, TypeOK, NetBox
    <2> QED
      BY <2>1 DEF Honest, Placed
  <1> QED
    BY <1>1, <1>2, <1>3, <1>4, <1>5, Writes

\* The copies that are in use, and that they stay true
LEMMA CopiesInUse ==
  ASSUME Honest
  PROVE  /\ queue \in Seq(Target) /\ Len(queue) \in Nat
         /\ \A i \in 1..Len(queue) : /\ queue[i] \in Target /\ queue[i].copy \in Copies
                                     /\ queue[i].copy \in Copy \cup {None}
         /\ cur # None => cur.copy \in Copies /\ cur.copy \in Copy \cup {None}
         /\ merge # None => /\ merge.keep \in Copies /\ merge.lose \in Copies
                            /\ merge.keep \in Copy /\ merge.lose \in Copy
  <1>1. queue \in Seq(Target) /\ cur \in Target \cup {None} /\ merge \in Merge \cup {None}
    BY DEF Honest, Typed, TypeOK
  <1>2. /\ Len(queue) \in Nat /\ DOMAIN queue = 1..Len(queue)
        /\ \A i \in 1..Len(queue) : queue[i] \in Target
    BY <1>1, ElementOfSeq, LenProperties
  <1>3. \A t \in Target : t.copy \in Copy \cup {None}
    BY DEF Target
  <1>4. \A i \in 1..Len(queue) : queue[i].copy \in Copies
    BY <1>2 DEF Copies
  <1>5. /\ cur # None => cur.copy \in Copies
        /\ merge # None => merge.keep \in Copies /\ merge.lose \in Copies
    BY DEF Copies
  <1>6. merge # None => merge.keep \in Copy /\ merge.lose \in Copy
    BY <1>1 DEF Merge
  <1> QED
    BY <1>1, <1>2, <1>3, <1>4, <1>5, <1>6

LEMMA CopiesHold ==
  ASSUME Honest, [Next]_vars, ~StartCrawl, ~CrawlEnds, ~CrawlRaises, ~CrawlAborts
  PROVE  /\ \A i \in 1..Len(queue) : Truthful(nb', late', queue[i].copy)
         /\ cur # None => Truthful(nb', late', cur.copy)
         /\ merge # None => Truthful(nb', late', merge.keep) /\ Truthful(nb', late', merge.lose)
  <1>1. ASSUME NEW i \in 1..Len(queue) PROVE Truthful(nb', late', queue[i].copy)
    BY <1>1, CopiesInUse, TruthStays DEF Honest, CopiesAreTrue
  <1>2. ASSUME cur # None PROVE Truthful(nb', late', cur.copy)
    BY <1>2, CopiesInUse, TruthStays DEF Honest, CopiesAreTrue
  <1>3. ASSUME merge # None
        PROVE  Truthful(nb', late', merge.keep) /\ Truthful(nb', late', merge.lose)
    BY <1>3, CopiesInUse, TruthStays DEF Honest, MergeIsFair
  <1> QED
    BY <1>1, <1>2, <1>3

\* A target joins the queue with a copy that is true.
LEMMA JoinsTrue ==
  ASSUME Honest, [Next]_vars, ~StartCrawl, ~CrawlEnds, ~CrawlRaises, ~CrawlAborts,
         cur' = cur, NEW c, Truthful(nb', late', c), NEW a,
         queue' = Append(queue, ForNeighbour(a, c))
  PROVE  CopiesAreTrue'
  <1>1. /\ Len(queue') = Len(queue) + 1 /\ queue'[Len(queue) + 1] = ForNeighbour(a, c)
        /\ \A i \in 1..Len(queue) : queue'[i] = queue[i]
    BY CopiesInUse
  <1>2. ForNeighbour(a, c).copy = c
    BY DEF ForNeighbour
  <1>3. \A i \in 1..Len(queue') : i \in 1..Len(queue) \/ i = Len(queue) + 1
    BY <1>1, CopiesInUse
  <1>4. \A i \in 1..Len(queue') : Truthful(nb', late', queue'[i].copy)
    BY <1>1, <1>2, <1>3, CopiesHold
  <1> QED
    BY <1>4, CopiesHold DEF CopiesAreTrue

LEMMA SeedsAreTrue == ASSUME Honest, StartCrawl PROVE CopiesAreTrue'
  <1> DEFINE S == {d \in seeds : nb.primary[d] # None}
             s == SetToSeq(S)
  <1>1. cur' = None
    BY DEF StartCrawl, Honest, Typed, TypeOK
  <1>2. s \in Seq(S)
    BY SeqOfSet, FS_Subset DEF Honest, Typed
  <1>3. /\ Len(s) \in Nat /\ DOMAIN s = 1..Len(s)
        /\ \A i \in 1..Len(s) : s[i] \in Devs
    BY <1>2, LenProperties, ElementOfSeq DEF Honest, Typed, TypeOK
  <1> HIDE DEF s
  <1>4. queue' = [i \in 1..Len(s) |->
                    [host |-> nb.primary[s[i]], copy |-> CopyOf(nb, s[i]), depth |-> 0]]
    BY <1>3 DEF StartCrawl, s
  <1>5. Len(queue') = Len(s)
    BY <1>3, <1>4
  <1>6. \A i \in 1..Len(s) : queue'[i].copy = CopyOf(nb, s[i])
    BY <1>4
  <1>7. \A d \in Devs : nb.kind[d] \in Managed => nb'.kind[d] \in Managed
    BY DEF StartCrawl, Honest, Typed, TypeOK, NetBox, Managed
  <1>8. \A d \in Devs : Truthful(nb', late', CopyOf(nb, d))
    BY <1>7 DEF Truthful, CopyOf
  <1> QED
    BY <1>1, <1>3, <1>5, <1>6, <1>8 DEF CopiesAreTrue

\* The copies: each is one that was there, or one just read.
LEMMA CopiesStayTrue == ASSUME Honest, Next PROVE CopiesAreTrue'
  <1> DEFINE Runs == ~StartCrawl /\ ~CrawlEnds /\ ~CrawlRaises /\ ~CrawlAborts
  <1>1. CASE CrawlEnds \/ CrawlRaises \/ CrawlAborts
    <2>1. queue' = <<>> /\ cur' = None
      BY <1>1 DEF CrawlEnds, CrawlRaises, CrawlAborts, Idle
    <2> QED
      BY <2>1 DEF CopiesAreTrue
  <1>2. CASE StartCrawl
    BY <1>2, SeedsAreTrue
  <1>3. CASE Runs /\ UNCHANGED queue /\ (cur' = cur \/ cur' = None)
    BY <1>3, CopiesHold DEF CopiesAreTrue
  <1>4. CASE Runs /\ NextTarget
    <2>1. /\ queue # <<>> /\ queue' = Tail(queue)
          /\ cur' = Head(queue) \/ cur' = cur
      BY <1>4 DEF NextTarget, More
    <2>2. /\ Len(queue') = Len(queue) - 1 /\ Head(queue) = queue[1] /\ 1 \in 1..Len(queue)
          /\ \A i \in 1..Len(queue') : queue'[i] = queue[i + 1] /\ i + 1 \in 1..Len(queue)
      BY <2>1, CopiesInUse, HeadTailProperties
    <2>3. \A i \in 1..Len(queue') : Truthful(nb', late', queue'[i].copy)
      BY <1>4, <2>2, CopiesHold
    <2>4. cur' # None => Truthful(nb', late', cur'.copy)
      BY <1>4, <2>1, <2>2, CopiesHold
    <2> QED
      BY <2>3, <2>4 DEF CopiesAreTrue
  <1>5. CASE Runs /\ (FinishMerge \/ PolledUnknown)
    <2>1. queue' = queue /\ cur \in Target
      BY <1>5, TargetInHand DEF FinishMerge, PolledUnknown, Honest
    <2>2. CASE FinishMerge
      <3>1. merge # None
        BY <2>2, MergeInHand DEF FinishMerge, Honest
      <3>2. cur'.copy = CopyOf(nb', merge.keep.id) \/ cur'.copy = merge.keep
        BY <2>1, <2>2 DEF FinishMerge, Target
      <3>3. Truthful(nb', late', cur'.copy)
        BY <1>5, <3>1, <3>2, ReadIsTrue, CopiesHold
      <3> QED
        BY <1>5, <2>1, <3>3, CopiesHold DEF CopiesAreTrue
    <2>3. CASE PolledUnknown
      <3>1. nb' = nb /\ \E d : cur'.copy = CopyOf(nb, d)
        BY <2>1, <2>3 DEF PolledUnknown, Target
      <3>2. Truthful(nb', late', cur'.copy)
        BY <3>1, ReadIsTrue
      <3> QED
        BY <1>5, <2>1, <3>2, CopiesHold DEF CopiesAreTrue
    <2> QED
      BY <1>5, <2>2, <2>3
  <1>6. CASE Runs /\ QueueNeighbour
    <2>1. cur' = cur /\ nb' = nb
      BY <1>6 DEF QueueNeighbour
    <2>2. \/ queue' = queue
          \/ \E c : Truthful(nb', late', c) /\ queue' = Append(queue, ForNeighbour(Head(todo), c))
      <3>1. Truthful(nb', late', None)
        BY DEF Truthful
      <3>2. \A d : Truthful(nb', late', CopyOf(nb, d))
        BY <2>1, ReadIsTrue
      <3>3. CASE UNCHANGED queue
        BY <3>3
      <3>4. ASSUME NEW d, queue' = Append(queue, ForNeighbour(Head(todo), CopyOf(nb, d)))
            PROVE  \E c : /\ Truthful(nb', late', c)
                          /\ queue' = Append(queue, ForNeighbour(Head(todo), c))
        BY <3>2, <3>4
      <3>5. CASE queue' = Append(queue, ForNeighbour(Head(todo), None))
        BY <3>1, <3>5
      <3> QED
        BY <1>6, <3>3, <3>4, <3>5 DEF QueueNeighbour
    <2>3. CASE queue' = queue
      BY <1>3, <1>6, <2>1, <2>3
    <2>4. ASSUME NEW c, Truthful(nb', late', c),
                 queue' = Append(queue, ForNeighbour(Head(todo), c))
          PROVE  CopiesAreTrue'
      BY <1>6, <2>1, <2>4, JoinsTrue
    <2> QED
      BY <2>2, <2>3, <2>4
  <1>7. CASE Runs /\ AddAddress
    <2> DEFINE c == [id |-> making.dev, managed |-> TRUE, primary |-> Bare]
    <2>1. cur' = cur /\ late' = late /\ nb'.kind = nb.kind /\ making # None
      BY <1>7, AddAddressWrites DEF AddAddress
    <2>2. Truthful(nb', late', c)
      BY <2>1 DEF Truthful, Honest, MakingIsFair, Managed
    <2>3. \/ queue' = queue
          \/ queue' = Append(queue, ForNeighbour(Head(todo), c))
      BY <1>7 DEF AddAddress
    <2> HIDE DEF c
    <2>4. CASE queue' = queue
      BY <1>3, <1>7, <2>1, <2>4
    <2>5. CASE queue' = Append(queue, ForNeighbour(Head(todo), c))
      BY <1>7, <2>1, <2>2, <2>5, JoinsTrue
    <2> QED
      BY <2>3, <2>4, <2>5
  <1>8. CASE \/ Polled \/ PolledInVain \/ NoMerge \/ BeginMerge \/ ReleasePrimary
             \/ (\E a \in Addrs : MoveAddress(a)) \/ MergeRefused \/ MergeFails \/ RecordMacs
             \/ CreateSwitch \/ FindAddress \/ ReconcileNeighbour \/ Reconciled \/ TargetDone
             \/ PollFails \/ OthersWrite \/ PersonTags \/ Rebuilt
    <2>1. UNCHANGED queue /\ (cur' = cur \/ cur' = None)
      BY <1>8 DEF Polled, PolledInVain, NoMerge, BeginMerge, ReleasePrimary, MoveAddress,
         MergeRefused, MergeFails, MergeRaises, RecordMacs, CreateSwitch, FindAddress,
         ReconcileNeighbour, Reconciled, TargetDone, PollFails, OthersWrite, PersonTags,
         Rebuilt, crawl
    <2> QED
      BY <1>1, <1>2, <1>3, <2>1
  <1> QED
    BY <1>1, <1>2, <1>4, <1>5, <1>6, <1>7, <1>8 DEF Next, CrawlStep

\* No other step leads to a merge.
LEMMA StopsMerging ==
  ASSUME Typed,
         \/ StartCrawl \/ CrawlEnds \/ NextTarget \/ Polled \/ PolledUnknown
         \/ PolledInVain \/ NoMerge \/ FinishMerge \/ MergeRefused \/ RecordMacs
         \/ CreateSwitch \/ FindAddress \/ AddAddress \/ ReconcileNeighbour
         \/ Reconciled \/ QueueNeighbour \/ TargetDone \/ CrawlRaises \/ PollFails
         \/ MergeFails \/ CrawlAborts
  PROVE  pc' # "merging"
  <1>1. CASE FindAddress \/ AddAddress
    BY <1>1, MakingInHand DEF FindAddress, AddAddress
  <1>2. CASE CreateSwitch
    BY <1>2 DEF CreateSwitch, Unknown
  <1>3. CASE ~(FindAddress \/ AddAddress \/ CreateSwitch)
    BY <1>3 DEF StartCrawl, CrawlEnds, NextTarget, Polled, PolledUnknown, Answers, PolledInVain,
       NoMerge, FinishMerge, MergeRefused, MergeRaises, RecordMacs, ReconcileNeighbour,
       Reconciled, QueueNeighbour, TargetDone, CrawlRaises, PollFails, MergeFails,
       CrawlAborts, Idle
  <1> QED
    BY <1>1, <1>2, <1>3

LEMMA MergeStaysFair == ASSUME Honest, Next, Typed' PROVE MergeIsFair'
  <1>1. CASE pc' # "merging"
    BY <1>1 DEF Typed, TypeOK, MergeIsFair
  <1>2. CASE BeginMerge
    <2>1. pc = "dedup" /\ nb' = nb /\ late' = late
      BY <1>2 DEF BeginMerge
    <2>2. PICK lost \in Lost, d \in Devs :
            /\ Duplicate(d, lost) /\ Mergeable(d)
            /\ merge' = [keep |-> Keeper(d), lose |-> Loser(d), ips |-> RecordsOf(Loser(d).id),
                         released |-> ~HasPrimary(Loser(d))]
      BY <1>2 DEF BeginMerge
    <2>3. /\ merge'.keep = Keeper(d) /\ merge'.lose = Loser(d)
          /\ merge'.ips = RecordsOf(Loser(d).id)
      BY <2>2
    <2>4. Truthful(nb, late, cur.copy) /\ Truthful(nb, late, CopyOf(nb, d))
      BY <2>1, TargetInHand, ReadIsTrue DEF Honest, CopiesAreTrue
    <2>5. Truthful(nb, late, Keeper(d)) /\ Truthful(nb, late, Loser(d)) /\ Loser(d).managed
      BY <2>2, <2>4 DEF Keeper, Loser, Mergeable
    <2>6. \A a \in RecordsOf(Loser(d).id) : nb.ip[a] # "theirs" /\ nb.on[a] = Loser(d).id
      BY <2>2 DEF Mergeable, RecordsOf
    <2> QED
      BY <2>1, <2>3, <2>5, <2>6 DEF MergeIsFair
  <1>3. ASSUME pc = "merging", merge'.keep = merge.keep, merge'.lose = merge.lose,
               ~StartCrawl, ~CrawlEnds, ~CrawlRaises, ~CrawlAborts,
               \A a \in merge'.ips : /\ a \in merge.ips
                                     /\ nb'.ip[a] # "theirs" \/ a \in late'
                                     /\ nb'.on[a] \in {nb.on[a], None}
        PROVE  MergeIsFair'
    <2>1. merge # None /\ merge.lose.managed
      BY <1>3, MergeInHand DEF Honest, MergeIsFair
    <2>2. Truthful(nb', late', merge.keep) /\ Truthful(nb', late', merge.lose)
      BY <1>3, <2>1, CopiesHold
    <2>3. Truthful(nb', late', merge'.keep) /\ Truthful(nb', late', merge'.lose)
          /\ merge'.lose.managed
      BY <1>3, <2>1, <2>2
    <2>4. \A a \in merge'.ips : /\ nb'.ip[a] # "theirs" \/ a \in late'
                                /\ nb'.on[a] \in {merge'.lose.id, None}
      BY <1>3, <2>1 DEF Honest, MergeIsFair
    <2> QED
      BY <2>3, <2>4 DEF MergeIsFair
  <1>4. CASE (\E a \in Addrs : MoveAddress(a)) \/ ReleasePrimary
    <2>1. /\ pc = "merging" /\ late' = late
          /\ ~StartCrawl /\ ~CrawlEnds /\ ~CrawlRaises /\ ~CrawlAborts
      <3>1. pc = "merging" /\ pc' = pc /\ late' = late
        BY <1>4 DEF MoveAddress, ReleasePrimary
      <3> QED
        BY <3>1 DEF StartCrawl, CrawlEnds, CrawlRaises, CrawlAborts, Idle
    <2>2. merge # None /\ merge.ips \subseteq Addrs
      BY <2>1, MergeInHand DEF Honest
    <2>3. ASSUME NEW a \in Addrs, MoveAddress(a)
          PROVE  /\ merge'.keep = merge.keep /\ merge'.lose = merge.lose
                 /\ merge'.ips = merge.ips \ {a} /\ nb'.ip = nb.ip
                 /\ \A c \in merge'.ips : nb'.on[c] = nb.on[c]
      <3>1. /\ merge'.keep = merge.keep /\ merge'.lose = merge.lose
            /\ merge'.ips = merge.ips \ {a}
        BY <2>1, <2>3, MergeInHand DEF MoveAddress, Honest
      <3>2. nb'.ip = nb.ip /\ nb'.on = [nb.on EXCEPT ![a] = merge.keep.id]
        BY <2>1, <2>3, MoveAddressWrites, MovedType DEF Honest
      <3> QED
        BY <2>2, <3>1, <3>2 DEF Honest, Typed, TypeOK, NetBox
    <2>4. CASE ReleasePrimary
      <3>1. /\ merge'.keep = merge.keep /\ merge'.lose = merge.lose /\ merge'.ips = merge.ips
            /\ nb'.ip = nb.ip /\ nb'.on = nb.on
        BY <2>1, <2>4, MergeInHand, ReleaseWrites DEF ReleasePrimary, Honest
      <3> QED
        BY <1>3, <2>1, <2>2, <3>1 DEF Honest, MergeIsFair
    <2>5. CASE \E a \in Addrs : MoveAddress(a)
      BY <1>3, <2>1, <2>2, <2>3, <2>5 DEF Honest, MergeIsFair
    <2> QED
      BY <1>4, <2>4, <2>5
  <1>5. CASE (OthersWrite \/ PersonTags \/ Rebuilt) /\ pc = "merging"
    <2>1. /\ merge' = merge /\ merge.ips \subseteq Addrs /\ merge # None
          /\ ~StartCrawl /\ ~CrawlEnds /\ ~CrawlRaises /\ ~CrawlAborts
      <3>1. merge' = merge /\ pc' = pc
        BY <1>5 DEF OthersWrite, PersonTags, Rebuilt, crawl
      <3> QED
        BY <1>5, <3>1, MergeInHand DEF StartCrawl, CrawlEnds, CrawlRaises, CrawlAborts, Idle,
           Honest
    <2>2. late \subseteq late'
      BY <2>1, LateStays DEF Honest
    <2>3. ASSUME NEW a \in merge.ips
          PROVE  /\ nb'.ip[a] # "theirs" \/ a \in late'
                 /\ nb'.on[a] \in {nb.on[a], None}
      <3>1. a \in Addrs /\ ~Free(a) /\ (nb.ip[a] # "theirs" \/ a \in late)
        BY <2>1 DEF Free, Honest, MergeIsFair
      <3>2. CASE PersonTags \/ Rebuilt
        BY <2>2, <3>1, <3>2 DEF PersonTags, Rebuilt
      <3>3. CASE OthersWrite
        BY <2>1, <2>2, <3>1, <3>3, OthersRecords DEF Honest
      <3> QED
        BY <1>5, <3>2, <3>3
    <2> QED
      BY <1>3, <1>5, <2>1, <2>3
  <1>6. CASE OthersWrite \/ PersonTags \/ Rebuilt
    <2>1. pc' = pc
      BY <1>6 DEF OthersWrite, PersonTags, Rebuilt, crawl
    <2> QED
      BY <1>1, <1>5, <1>6, <2>1
  <1>7. CASE \/ StartCrawl \/ CrawlEnds \/ NextTarget \/ Polled \/ PolledUnknown
             \/ PolledInVain \/ NoMerge \/ FinishMerge \/ MergeRefused \/ RecordMacs
             \/ CreateSwitch \/ FindAddress \/ AddAddress \/ ReconcileNeighbour
             \/ Reconciled \/ QueueNeighbour \/ TargetDone \/ CrawlRaises \/ PollFails
             \/ MergeFails \/ CrawlAborts
    BY <1>1, <1>7, StopsMerging DEF Honest
  <1> QED
    BY <1>2, <1>4, <1>6, <1>7 DEF Next, CrawlStep

\* What the creation of a switch found stays as it was, or is late.
LEMMA MakingStaysFair == ASSUME Honest, Next, Typed' PROVE MakingIsFair'
  <1>1. CASE making' = None
    BY <1>1 DEF MakingIsFair
  <1>2. CASE CreateSwitch
    <2>1. /\ making' = [dev |-> Fresh(nb), found |-> "unread"] /\ Room(nb) /\ todo # <<>>
          /\ \E S : nb' = NewSwitch(nb, Head(todo), S)
      BY <1>2 DEF CreateSwitch
    <2>2. /\ nb \in NetBox /\ Head(todo) \in Addrs /\ Fresh(nb) \in Devs
      BY <2>1, TodoType, FreshType DEF Honest, Typed, TypeOK
    <2>3. nb'.kind = [nb.kind EXCEPT ![Fresh(nb)] = "lldp"]
      BY <2>1, <2>2, NewSwitchType
    <2>4. nb'.kind[Fresh(nb)] = "lldp"
      BY <2>2, <2>3 DEF NetBox
    <2> QED
      BY <2>1, <2>4 DEF MakingIsFair
  <1>3. CASE FindAddress
    <2>1. /\ making # None /\ nb' = nb /\ late' = late /\ todo' = todo
          /\ making' = [making EXCEPT !.found = Found(nb, Head(todo))]
      BY <1>3 DEF FindAddress
    <2>2. making'.dev = making.dev /\ making'.found = Found(nb, Head(todo))
      BY <2>1, MakingInHand DEF Honest
    <2> QED
      BY <2>1, <2>2 DEF Found, Honest, MakingIsFair
  <1>4. CASE OthersWrite /\ making # None
    <2>1. /\ making' = making /\ todo' = todo /\ making.dev \in Devs /\ Head(todo) \in Addrs
          /\ making \in Making
      BY <1>4, MakingInHand, TodoType DEF OthersWrite, crawl, Honest
    <2>2. late \subseteq late'
      BY <1>4, OthersKinds DEF Honest
    <2>3. nb'.kind[making.dev] = "lldp" \/ making.dev \in late'
      <3>1. CASE making.dev \in late
        BY <2>2, <3>1
      <3>2. CASE nb.kind[making.dev] = "lldp"
        BY <1>4, <2>1, <3>2, OthersKinds DEF Honest, Managed
      <3> QED
        BY <1>4, <3>1, <3>2 DEF Honest, MakingIsFair
    <2>4. making.found = "none" => nb'.ip[Head(todo)] = "none"
      <3>1. making.found = "none" => ~Free(Head(todo)) /\ nb.on[Head(todo)] = None
        BY <1>4, <2>1 DEF Free, Honest, MakingIsFair, Placed
      <3> QED
        BY <1>4, <2>1, <3>1, OthersRecords DEF Honest, MakingIsFair
    <2>5. making.found = "free" =>
            /\ nb'.on[Head(todo)] = None
            /\ \/ nb'.ip[Head(todo)] = "lldp"
               \/ nb'.ip[Head(todo)] = "theirs" /\ Head(todo) \in late'
      <3>1. making.found = "free" => ~Free(Head(todo)) /\ nb.on[Head(todo)] = None
        BY <1>4, <2>1 DEF Free, Honest, MakingIsFair
      <3> QED
        BY <1>4, <2>1, <2>2, <3>1, OthersRecords DEF Honest, MakingIsFair
    <2> QED
      BY <2>1, <2>3, <2>4, <2>5 DEF MakingIsFair
  <1>5. CASE (PersonTags \/ Rebuilt) /\ making # None
    <2>1. making' = making /\ todo' = todo /\ nb' = nb /\ late' = late
      BY <1>5 DEF PersonTags, Rebuilt, crawl
    <2> QED
      BY <2>1 DEF Honest, MakingIsFair
  <1>6. CASE (OthersWrite \/ PersonTags \/ Rebuilt) /\ making = None
    <2>1. making' = None
      BY <1>6 DEF OthersWrite, PersonTags, Rebuilt, crawl
    <2> QED
      BY <1>1, <2>1
  <1>7. CASE \/ StartCrawl \/ CrawlEnds \/ NextTarget \/ Polled \/ PolledUnknown
             \/ PolledInVain \/ NoMerge \/ BeginMerge \/ ReleasePrimary
             \/ (\E a \in Addrs : MoveAddress(a)) \/ FinishMerge \/ MergeRefused
             \/ RecordMacs \/ AddAddress \/ ReconcileNeighbour \/ Reconciled
             \/ QueueNeighbour \/ TargetDone \/ CrawlRaises \/ PollFails \/ MergeFails
             \/ CrawlAborts
    <2>1. CASE CrawlEnds \/ CrawlRaises \/ CrawlAborts \/ AddAddress
      BY <1>1, <2>1 DEF CrawlEnds, CrawlRaises, CrawlAborts, AddAddress, Idle
    <2>2. CASE ~(CrawlEnds \/ CrawlRaises \/ CrawlAborts \/ AddAddress)
      <3>1. pc \notin {"reconcile", "queue"} \/ making = None \/ todo = <<>>
        BY <1>7, <2>2 DEF StartCrawl, NextTarget, Polled, PolledUnknown, PolledInVain, NoMerge,
           BeginMerge, ReleasePrimary, MoveAddress, FinishMerge, MergeRefused, RecordMacs,
           ReconcileNeighbour, Reconciled, QueueNeighbour, TargetDone, PollFails, MergeFails
      <3>2. making = None
        BY <3>1 DEF Honest, Typed, TypeOK
      <3>3. making' = making
        BY <1>7, <2>2 DEF StartCrawl, NextTarget, Polled, PolledUnknown, PolledInVain, NoMerge,
           BeginMerge, ReleasePrimary, MoveAddress, FinishMerge, MergeRefused, RecordMacs,
           ReconcileNeighbour, Reconciled, QueueNeighbour, TargetDone, PollFails, MergeFails,
           MergeRaises
      <3> QED
        BY <1>1, <3>2, <3>3
    <2> QED
      BY <2>1, <2>2
  <1> QED
    BY <1>2, <1>3, <1>4, <1>5, <1>6, <1>7 DEF Next, CrawlStep

LEMMA InitHonest == Init => Honest
  <1> SUFFICES ASSUME Init PROVE Honest
    OBVIOUS
  <1>1. queue = <<>> /\ cur = None /\ merge = None /\ making = None
    BY DEF Init
  <1>2. CopiesAreTrue /\ MergeIsFair /\ MakingIsFair
    BY <1>1 DEF CopiesAreTrue, MergeIsFair, MakingIsFair
  <1>3. Placed
    BY DEF Init, Placed
  <1> QED
    BY <1>2, <1>3, InitTyped DEF Honest

LEMMA NextHonest == ASSUME Honest, [Next]_vars PROVE Honest'
  <1>1. Typed'
    BY NextTyped DEF Honest
  <1>2. CASE UNCHANGED vars
    BY <1>1, <1>2 DEF vars, crawl, Honest, Placed, CopiesAreTrue, MergeIsFair, MakingIsFair,
       Truthful
  <1>3. CASE Next
    BY <1>1, <1>3, PlacedStays, CopiesStayTrue, MergeStaysFair, MakingStaysFair DEF Honest
  <1> QED
    BY <1>2, <1>3

\* A step of the crawl leaves people's devices and records alone, unless they are late.
LEMMA KeepsHumans ==
  ASSUME Honest, [Next]_vars, UNCHANGED changes
  PROVE  /\ \A d \in Devs \ late : nb.kind[d] = "human" => nb'.kind[d] = "human"
         /\ \A a \in Addrs \ late :
              \/ nb.ip[a] = "theirs"
              \/ \E d \in Devs \ late : nb.on[a] = d /\ nb.kind[d] = "human"
              =>
              \/ nb'.ip[a] = nb.ip[a] /\ nb'.on[a] = nb.on[a]
              \/ pc = "merging" /\ merge.ips = {} /\ nb.on[a] = merge.lose.id
  <1>0. ASSUME pc = "merging"
        PROVE  /\ merge # None /\ merge.lose.id \in Devs /\ merge.ips \subseteq Addrs
               /\ nb.kind[merge.lose.id] # "human" \/ merge.lose.id \in late
               /\ \A a \in merge.ips : /\ nb.ip[a] # "theirs" \/ a \in late
                                       /\ nb.on[a] \in {merge.lose.id, None}
    <2>1. merge # None /\ merge.lose.id \in Devs /\ merge.ips \subseteq Addrs
          /\ merge.lose \in Copy
      BY <1>0, MergeInHand DEF Honest
    <2>2. nb.kind[merge.lose.id] # "human" \/ merge.lose.id \in late
      BY <2>1, NoneIsNone DEF Honest, MergeIsFair, Truthful, Managed
    <2> QED
      BY <2>1, <2>2 DEF Honest, MergeIsFair
  <1>1. CASE FinishMerge
    <2>1. pc = "merging" /\ merge.ips = {}
      BY <1>1 DEF FinishMerge
    <2>2. /\ nb'.kind = [nb.kind EXCEPT ![merge.lose.id] = "gone"]
          /\ \A a \in Addrs : IF nb.on[a] = merge.lose.id THEN nb'.on[a] = None
                              ELSE nb'.on[a] = nb.on[a] /\ nb'.ip[a] = nb.ip[a]
      BY <1>1, FinishDeletes DEF Honest
    <2>3. nb.kind \in [Devs -> {"none", "gone", "human"} \cup Managed]
      BY DEF Honest, Typed, TypeOK, NetBox
    <2> QED
      BY <1>0, <2>1, <2>2, <2>3
  <1>2. CASE Moves
    <2>1. PICK a \in merge.ips : \A c \in Addrs \ {a} : nb'.on[c] = nb.on[c]
      BY <1>2 DEF Moves
    <2>2. pc = "merging" /\ nb'.kind = nb.kind /\ nb'.ip = nb.ip
      BY <1>2 DEF Moves
    <2> QED
      BY <1>0, <2>1, <2>2, NoneIsNone
  <1>3. CASE Adds
    BY <1>3, NoneIsNone DEF Adds
  <1>4. CASE StartCrawl
    <2>1. /\ nb'.ip = nb.ip /\ nb'.on = nb.on
          /\ \A d \in Devs : nb.kind[d] = "human" => nb'.kind[d] = "human"
      BY <1>4 DEF StartCrawl, Honest, Typed, TypeOK, NetBox
    <2> QED
      BY <2>1
  <1>5. CASE OthersWrite
    BY <1>5, NoneIsNone DEF OthersWrite, Honest, Typed, TypeOK
  <1> QED
    BY <1>1, <1>2, <1>3, <1>4, <1>5, Writes

\* The crawl deletes no person's device, moves no address off it, and claims, moves and
\* deletes no person's record, but what she took over while the crawl went by an older
\* copy of it and what she assigned to the duplicate after the merge had listed its
\* records.
THEOREM HumansAreKept == Spec => HumansKept
  <1>1. Honest /\ [Next]_vars =>
          [UNCHANGED changes =>
             /\ \A d \in Devs \ late : nb.kind[d] = "human" => nb'.kind[d] = "human"
             /\ \A a \in Addrs \ late :
                  \/ nb.ip[a] = "theirs"
                  \/ \E d \in Devs \ late : nb.on[a] = d /\ nb.kind[d] = "human"
                  =>
                  \/ nb'.ip[a] = nb.ip[a] /\ nb'.on[a] = nb.on[a]
                  \/ pc = "merging" /\ merge.ips = {} /\ nb.on[a] = merge.lose.id]_vars
    BY KeepsHumans
  <1> QED
    BY <1>1, InitHonest, NextHonest, PTL DEF Spec, HumansKept

-------------------------------------------------------------------------------
(****************************************************************************)
(* No switch is taken out of NetBox.                                        *)
(*                                                                          *)
(* Every write but the deletion of a loser leaves what documents a box, or  *)
(* moves it to the keeper, which NetBox then has.  For the deletion the     *)
(* invariant says that a merge has two sides, and that it was begun because *)
(* a MAC of the polled box is known.                                        *)
(****************************************************************************)

TwoSided ==
  pc = "merging" => identity # <<>> /\ cur # None /\ merge.keep.id # merge.lose.id

LEMMA OwnMacs == \A b \in Boxes : ToSet(MacsOf[b]) \subseteq Macs
  <1> SUFFICES ASSUME NEW b \in Boxes PROVE ToSet(MacsOf[b]) \subseteq Macs
    OBVIOUS
  <1> DEFINE s == MacsOf[b]
  <1>1. s \in Seq(Macs)
    BY LldpAssumption DEF LldpAssumption
  <1> HIDE DEF s
  <1>2. ToSet(s) \subseteq Macs
    BY <1>1, ElementOfSeq DEF ToSet
  <1> QED
    BY <1>2 DEF s

\* What names b, carries one of its MACs or has one of its addresses documents it.
LEMMA Traces ==
  ASSUME NEW d \in Devs, NEW b \in Boxes
  PROVE  /\ Documents(d, b) => \/ nb.name[d] = b
                               \/ \E m \in Macs : m \in ToSet(MacsOf[b]) /\ Contains(nb.mac[m], d)
                               \/ \E a \in Addrs : BoxOf[a] = b /\ nb.on[a] = d
  BY OwnMacs DEF Documents

\* From n to m, no device loses its name, a MAC or an address.
Grows(n, m) ==
  /\ \A d \in Devs : Live(n, d) => Live(m, d) /\ m.name[d] = n.name[d]
  /\ \A k \in Macs, d \in Devs : Contains(n.mac[k], d) => Contains(m.mac[k], d)
  /\ \A a \in Addrs : n.on[a] # None => m.on[a] = n.on[a]

LEMMA GrowsOn ==
  ASSUME NEW n, NEW m, NEW o, Grows(n, m), Grows(m, o) PROVE Grows(n, o)
  BY DEF Grows

LEMMA AppendKeeps ==
  ASSUME NEW s \in Seq(Devs), NEW d \in Devs, NEW e \in Devs, Contains(s, e)
  PROVE  Contains(Append(s, d), e)
  <1>1. /\ Len(Append(s, d)) = Len(s) + 1 /\ Len(s) \in Nat
        /\ \A i \in 1..Len(s) : Append(s, d)[i] = s[i]
    BY AppendProperties, LenProperties
  <1> QED
    BY <1>1 DEF Contains

LEMMA RecordGrows ==
  ASSUME NEW n \in NetBox, NEW S, NEW d \in Devs
  PROVE  Grows(n, Record(n, S, d))
  <1> DEFINE m == Record(n, S, d)
  <1>1. /\ m.kind = n.kind /\ m.name = n.name /\ m.on = n.on
        /\ \A k \in Macs : m.mac[k] =
             IF k \in S /\ ~Contains(n.mac[k], d) THEN Append(n.mac[k], d) ELSE n.mac[k]
    BY RecordType
  <1> HIDE DEF m
  <1>2. \A k \in Macs : n.mac[k] \in Seq(Devs)
    BY DEF NetBox
  <1>3. ASSUME NEW k \in Macs, NEW e \in Devs, Contains(n.mac[k], e)
        PROVE  Contains(m.mac[k], e)
    <2>1. Contains(Append(n.mac[k], d), e)
      BY <1>2, <1>3, AppendKeeps
    <2> QED
      BY <1>1, <1>3, <2>1
  <1>4. Grows(n, m)
    BY <1>1, <1>3 DEF Grows, Live
  <1> QED
    BY <1>4 DEF m

\* Creating a switch takes nothing off the devices that are there ...
LEMMA NewSwitchGrows ==
  ASSUME NEW n \in NetBox, Room(n), NEW a \in Addrs, NEW S
  PROVE  Grows(n, NewSwitch(n, a, S))
  <1> DEFINE d == Fresh(n)
             device == [n EXCEPT !.kind[d] = "lldp", !.name[d] = BoxOf[a]]
  <1>1. d \in Devs /\ n.kind[d] = "none" /\ BoxOf[a] \in Boxes
    BY FreshType, BoxType
  <1> HIDE DEF d
  <1>2. device \in NetBox
    BY <1>1 DEF NetBox, Managed
  <1>3. Grows(n, device)
    BY <1>1 DEF NetBox, Grows, Live
  <1>4. NewSwitch(n, a, S) = Record(device, S, d)
    BY DEF NewSwitch, d
  <1> HIDE DEF device
  <1>5. Grows(device, Record(device, S, d))
    BY <1>1, <1>2, RecordGrows
  <1> QED
    BY <1>3, <1>4, <1>5, GrowsOn

\* ... nor does its address, which nothing else is assigned to.
LEMMA AddressedGrows ==
  ASSUME Honest, making # None, making.found \in {"none", "free"},
         nb'.kind = Addressed(nb).kind, nb'.name = Addressed(nb).name,
         nb'.mac = Addressed(nb).mac, nb'.on = Addressed(nb).on
  PROVE  Grows(nb, nb')
  BY AddressedType DEF Grows, Live

LEMMA GrowingDocuments ==
  ASSUME Grows(nb, nb'), NEW b \in Boxes, Documented(b)
  PROVE  Documented(b)'
  <1>1. PICK d \in Devs : Documents(d, b)
    BY DEF Documented
  <1>2. Live(nb', d) /\ nb'.name[d] = nb.name[d]
    BY <1>1 DEF Grows, Documents
  <1>3. \A m \in Macs : Contains(nb.mac[m], d) => Contains(nb'.mac[m], d)
    BY DEF Grows
  <1>4. \A a \in Addrs : nb.on[a] = d => nb'.on[a] = d
    BY NoneIsNone DEF Grows
  <1>5. Documents(d, b)'
    BY <1>1, <1>2, <1>3, <1>4, Traces DEF Documents
  <1> QED
    BY <1>5 DEF Documented

\* A record of the merge moves to a keeper that NetBox has.
LEMMA MovingDocuments ==
  ASSUME Typed, pc = "merging", NEW a \in Addrs, Movable(a),
         nb'.kind = nb.kind, nb'.name = nb.name, nb'.mac = nb.mac, nb'.on = Moved(a).on,
         NEW b \in Boxes, Documented(b)
  PROVE  Documented(b)'
  <1>1. merge.keep.id \in Devs /\ Live(nb, merge.keep.id)
    BY MergeInHand DEF Movable
  <1>2. nb'.on = [nb.on EXCEPT ![a] = merge.keep.id] /\ nb.on \in [Addrs -> Devs \cup {None}]
    BY DEF Moved, Typed, TypeOK, NetBox
  <1>3. \A d \in Devs : Live(nb', d) = Live(nb, d)
    BY DEF Live
  <1>4. PICK d \in Devs : Documents(d, b)
    BY DEF Documented
  <1>5. CASE nb.name[d] = b \/ \E m \in ToSet(MacsOf[b]) : Contains(nb.mac[m], d)
    BY <1>3, <1>4, <1>5 DEF Documented, Documents
  <1>6. ASSUME NEW c \in Addrs, BoxOf[c] = b, nb.on[c] = d PROVE Documented(b)'
    <2>1. CASE c = a
      <3>1. nb'.on[c] = merge.keep.id
        BY <1>2, <2>1
      <3> QED
        BY <1>1, <1>3, <1>6, <3>1 DEF Documented, Documents
    <2>2. CASE c # a
      BY <1>2, <1>3, <1>4, <1>6, <2>2 DEF Documented, Documents
    <2> QED
      BY <2>1, <2>2
  <1> QED
    BY <1>4, <1>5, <1>6 DEF Documents

LEMMA WithoutOthers ==
  ASSUME NEW s \in Seq(Devs), NEW d \in Devs, NEW e \in Devs, e # d, Contains(s, e)
  PROVE  Contains(Without(s, d), e)
  <1> SUFFICES ASSUME Contains(s, d) PROVE Contains(Without(s, d), e)
    BY DEF Without
  <1> DEFINE i == CHOOSE i \in DOMAIN s : s[i] = d
             t == RemoveAt(s, i)
  <1>1. i \in 1..Len(s) /\ s[i] = d /\ Len(s) \in Nat
    BY LenProperties DEF Contains
  <1> HIDE DEF i
  <1>2. PICK j \in 1..Len(s) : s[j] = e
    BY DEF Contains
  <1> DEFINE u == SubSeq(s, 1, i - 1)
             v == SubSeq(s, i + 1, Len(s))
  <1>3. /\ u \in Seq(Devs) /\ Len(u) = i - 1 /\ \A n \in 1..i - 1 : u[n] = s[n]
        /\ v \in Seq(Devs) /\ Len(v) = Len(s) - i /\ \A n \in 1..Len(s) - i : v[n] = s[i + n]
    BY <1>1, SubSeqProperties
  <1>4. t = u \o v
    BY DEF RemoveAt
  <1> HIDE DEF u, v, t
  <1>5. /\ Len(t) = Len(s) - 1
        /\ \A n \in 1..i - 1 : t[n] = s[n]
        /\ \A n \in i..Len(s) - 1 : t[n] = s[n + 1]
    <2>1. Len(u \o v) = Len(u) + Len(v) /\ Len(u) = i - 1 /\ Len(v) = Len(s) - i
      BY <1>3, ConcatProperties
    <2>2. \A n \in 1..Len(u) + Len(v) : (u \o v)[n] = IF n <= Len(u) THEN u[n] ELSE v[n - Len(u)]
      BY <1>3, ConcatProperties
    <2>3. \A n \in 1..i - 1 : t[n] = s[n]
      BY <1>1, <1>3, <1>4, <2>1, <2>2
    <2>4. ASSUME NEW n \in i..Len(s) - 1 PROVE t[n] = s[n + 1]
      <3>1. n - (i - 1) \in 1..Len(s) - i /\ i + (n - (i - 1)) = n + 1
        BY <1>1
      <3>2. n \in 1..Len(u) + Len(v) /\ ~(n <= Len(u)) /\ n - Len(u) = n - (i - 1)
        BY <1>1, <2>1
      <3> QED
        BY <1>3, <1>4, <2>2, <3>1, <3>2
    <2>5. Len(t) = Len(s) - 1
      BY <1>1, <1>4, <2>1
    <2> QED
      BY <2>3, <2>4, <2>5
  <1>6. \E n \in 1..Len(t) : t[n] = e
    <2>1. CASE j < i
      BY <1>1, <1>2, <1>5, <2>1
    <2>2. CASE j > i
      <3>1. j - 1 \in i..Len(s) - 1 /\ j - 1 \in 1..Len(t) /\ (j - 1) + 1 = j
        BY <1>1, <1>5, <2>2
      <3> QED
        BY <1>2, <1>5, <3>1
    <2> QED
      BY <1>1, <1>2, <2>1, <2>2
  <1>7. Without(s, d) = t
    BY DEF Without, t, i
  <1> QED
    BY <1>6, <1>7 DEF Contains

\* What another device is named, carries and has survives a deletion.
LEMMA DeletingLeaves ==
  ASSUME NEW n \in NetBox, NEW d \in Devs, NEW m \in Deleting(n, d), NEW e \in Devs \ {d}
  PROVE  /\ m.name[e] = n.name[e]
         /\ \A k \in Macs : Contains(n.mac[k], e) => Contains(m.mac[k], e)
         /\ \A a \in Addrs : n.on[a] = e => m.on[a] = e
  <1> DEFINE mac == [k \in Macs |-> Without(n.mac[k], d)]
  <1>1. m.name = [n.name EXCEPT ![d] = None] /\ m.mac = mac
    BY DEF Deleting, NetBox
  <1>2. \A k \in Macs : Contains(n.mac[k], e) => Contains(mac[k], e)
    BY WithoutOthers DEF NetBox
  <1>3. n.name \in [Devs -> Boxes \cup {None}]
    BY DEF NetBox
  <1> HIDE DEF mac
  <1>4. \A a \in Addrs : n.on[a] = e => m.on[a] = e
    <2>1. m.on = [a \in Addrs |-> IF n.on[a] = d THEN None ELSE n.on[a]]
      BY DEF Deleting, NetBox
    <2> QED
      BY <2>1
  <1>5. m.name[e] = n.name[e]
    BY <1>1, <1>3
  <1> QED
    BY <1>1, <1>2, <1>4, <1>5

\* The deletion of the loser takes nothing off the others, and goes on with the keeper.
LEMMA DeletingDocuments ==
  ASSUME Honest, TwoSided, FinishMerge, NEW b \in Boxes, Documented(b)
  PROVE  \/ Documented(b)' \/ InHand(b)'
         \/ /\ pc = "merging" /\ merge.ips = {} /\ Documents(merge.lose.id, b)
            /\ b # BoxOf[cur.host] \/ ~Live(nb, merge.keep.id)
  <1> DEFINE k == merge.keep.id
             l == merge.lose.id
  <1>1. /\ pc = "merging" /\ merge.ips = {} /\ k \in Devs /\ l \in Devs /\ k # l
        /\ identity # <<>> /\ cur \in Target
    BY MergeInHand, TargetInHand DEF FinishMerge, Honest, TwoSided
  <1>2. /\ nb'.kind = [nb.kind EXCEPT ![l] = "gone"]
        /\ nb.kind \in [Devs -> {"none", "gone", "human"} \cup Managed]
    BY FinishDeletes DEF Honest, Typed, TypeOK, NetBox
  <1>3. \A d \in Devs \ {l} : Live(nb', d) = Live(nb, d)
    BY <1>1, <1>2 DEF Live
  <1>4. CASE \E d \in Devs \ {l} : Documents(d, b)
    <2>1. PICK d \in Devs \ {l} : Documents(d, b)
      BY <1>4
    <2>2. nb' \in Deleting(nb, l) /\ nb \in NetBox
      BY DEF FinishMerge, Honest, Typed, TypeOK
    <2>3. /\ nb'.name[d] = nb.name[d]
          /\ \A m \in Macs : Contains(nb.mac[m], d) => Contains(nb'.mac[m], d)
          /\ \A a \in Addrs : nb.on[a] = d => nb'.on[a] = d
      BY <1>1, <2>2, DeletingLeaves
    <2>4. Live(nb', d)
      BY <1>3, <2>1 DEF Documents
    <2>5. Documents(d, b)'
      BY <2>1, <2>3, <2>4, Traces DEF Documents
    <2> QED
      BY <2>5 DEF Documented
  <1>5. CASE ~\E d \in Devs \ {l} : Documents(d, b)
    <2>1. Documents(l, b)
      BY <1>5 DEF Documented
    <2>2. ASSUME b = BoxOf[cur.host], Live(nb, k) PROVE InHand(b)'
      <3>1. /\ pc' = "record" /\ identity' = identity
            /\ cur' = [cur EXCEPT !.copy = CopyOf(nb', k)]
        BY <2>2 DEF FinishMerge
      <3>2. cur'.copy.id = k /\ cur'.host = cur.host
        BY <1>1, <3>1 DEF Target, CopyOf
      <3> QED
        BY <1>1, <1>3, <2>2, <3>1, <3>2 DEF InHand
    <2> QED
      BY <1>1, <2>1, <2>2
  <1> QED
    BY <1>4, <1>5

LEMMA StepDocuments ==
  ASSUME Honest, TwoSided, [Next]_vars, UNCHANGED changes, NEW b \in Boxes, Documented(b)
  PROVE  \/ Documented(b)' \/ InHand(b)'
         \/ /\ pc = "merging" /\ merge.ips = {} /\ Documents(merge.lose.id, b)
            /\ b # BoxOf[cur.host] \/ ~Live(nb, merge.keep.id)
  <1>0. nb \in NetBox /\ Typed
    BY DEF Honest, Typed, TypeOK
  <1>1. CASE /\ \A d \in Devs : Live(nb', d) = Live(nb, d)
             /\ nb'.name = nb.name /\ nb'.mac = nb.mac /\ nb'.on = nb.on
    BY <1>1 DEF Documented, Documents
  <1>2. CASE nb' = nb
    BY <1>1, <1>2
  <1>3. CASE \/ UNCHANGED vars \/ CrawlEnds \/ NextTarget \/ Polled \/ PolledUnknown
             \/ PolledInVain \/ NoMerge \/ BeginMerge \/ MergeRefused \/ FindAddress
             \/ ReconcileNeighbour \/ Reconciled \/ QueueNeighbour \/ TargetDone
             \/ CrawlRaises \/ PollFails \/ PersonTags \/ Rebuilt
    <2>1. nb' = nb
      BY <1>3 DEF vars, CrawlEnds, NextTarget, Polled, PolledUnknown, PolledInVain,
         NoMerge, BeginMerge, MergeRefused, FindAddress, ReconcileNeighbour, Reconciled,
         QueueNeighbour, TargetDone, CrawlRaises, PollFails, PersonTags, Rebuilt
    <2> QED
      BY <1>2, <2>1
  <1>4. CASE StartCrawl
    <2>1. /\ \A d \in Devs : Live(nb', d) = Live(nb, d)
          /\ nb'.name = nb.name /\ nb'.mac = nb.mac /\ nb'.on = nb.on
      BY <1>0, <1>4 DEF StartCrawl, NetBox, Live
    <2> QED
      BY <1>1, <2>1
  <1>5. CASE ReleasePrimary
    <2>1. nb'.kind = nb.kind /\ nb'.name = nb.name /\ nb'.mac = nb.mac /\ nb'.on = nb.on
      BY <1>0, <1>5, ReleaseWrites
    <2> QED
      BY <1>1, <2>1 DEF Live
  <1>6. ASSUME NEW a \in Addrs, MoveAddress(a) PROVE Documented(b)'
    BY <1>0, <1>6, MoveAddressWrites, MovingDocuments DEF MoveAddress
  <1>7. CASE MergeFails
    <2>1. ASSUME pc = "merging", NEW a \in merge.ips, Movable(a), nb' = Moved(a)
          PROVE  Documented(b)'
      <3>1. a \in Addrs
        BY <1>0, <2>1, MergeInHand
      <3>2. nb'.kind = nb.kind /\ nb'.name = nb.name /\ nb'.mac = nb.mac
        BY <1>0, <2>1, <3>1, MovedType
      <3> QED
        BY <1>0, <2>1, <3>1, <3>2, MovingDocuments
    <2> QED
      BY <1>2, <1>7, <2>1 DEF MergeFails
  <1>8. CASE FinishMerge
    BY <1>8, DeletingDocuments
  <1>9. CASE RecordMacs
    BY <1>0, <1>9, RecordMacsWrites, RecordGrows, GrowingDocuments
  <1>10. ASSUME todo # <<>>, Room(nb), NEW S, nb' = NewSwitch(nb, Head(todo), S)
         PROVE  Documented(b)'
    <2>1. Head(todo) \in Addrs
      BY <1>0, <1>10, TodoType
    <2> QED
      BY <1>0, <1>10, <2>1, NewSwitchGrows, GrowingDocuments
  <1>11. CASE CreateSwitch
    BY <1>10, <1>11 DEF CreateSwitch
  <1>12. CASE AddAddress
    <2>1. making # None /\ making.found \in {"none", "free"}
      BY <1>12 DEF AddAddress
    <2>2. Grows(nb, nb')
      BY <1>12, <2>1, AddAddressWrites, AddressedType, AddressedGrows
    <2> QED
      BY <2>2, GrowingDocuments
  <1>13. CASE CrawlAborts
    <2>1. CASE making # None /\ making.found \in {"none", "free"} /\ nb' = Addressed(nb)
      <3>1. Grows(nb, nb')
        BY <2>1, AddressedGrows
      <3> QED
        BY <3>1, GrowingDocuments
    <2> QED
      BY <1>2, <1>10, <1>13, <2>1 DEF CrawlAborts
  <1>14. CASE OthersWrite
    BY <1>14, NoneIsNone DEF OthersWrite, Honest, Typed, TypeOK
  <1> QED
    BY <1>3, <1>4, <1>5, <1>6, <1>7, <1>8, <1>9, <1>11, <1>12, <1>13, <1>14 DEF Next, CrawlStep

LEMMA NextTwoSided == ASSUME Honest, TwoSided, [Next]_vars PROVE TwoSided'
  <1>1. CASE BeginMerge
    <2>1. PICK lost \in Lost, d \in Devs :
            /\ Duplicate(d, lost)
            /\ merge' = [keep |-> Keeper(d), lose |-> Loser(d), ips |-> RecordsOf(Loser(d).id),
                         released |-> ~HasPrimary(Loser(d))]
      BY <1>1 DEF BeginMerge
    <2>2. pc = "dedup" /\ identity' = identity /\ cur' = cur
      BY <1>1 DEF BeginMerge
    <2>3. identity # <<>> /\ Keeper(d).id # Loser(d).id /\ cur # None
      BY <2>1, <2>2, SidesType, TargetInHand DEF Honest
    <2> QED
      BY <2>1, <2>2, <2>3 DEF TwoSided
  <1>2. CASE (\E a \in Addrs : MoveAddress(a)) \/ ReleasePrimary
    <2>1. pc = "merging" /\ identity' = identity /\ cur' = cur
      BY <1>2 DEF MoveAddress, ReleasePrimary
    <2>2. merge'.keep = merge.keep /\ merge'.lose = merge.lose
      <3>1. \/ \E a \in Addrs : merge' = [merge EXCEPT !.ips = @ \ {a}]
            \/ merge' = [merge EXCEPT !.released = TRUE]
        BY <1>2 DEF MoveAddress, ReleasePrimary
      <3>2. /\ \A ips : /\ [merge EXCEPT !.ips = ips].keep = merge.keep
                        /\ [merge EXCEPT !.ips = ips].lose = merge.lose
            /\ [merge EXCEPT !.released = TRUE].keep = merge.keep
            /\ [merge EXCEPT !.released = TRUE].lose = merge.lose
        BY <2>1, MergeInHand DEF Honest
      <3>3. CASE \E a \in Addrs : merge' = [merge EXCEPT !.ips = @ \ {a}]
        BY <3>2, <3>3
      <3>4. CASE merge' = [merge EXCEPT !.released = TRUE]
        BY <3>2, <3>4
      <3> QED
        BY <3>1, <3>3, <3>4
    <2> QED
      BY <2>1, <2>2 DEF TwoSided
  <1>3. CASE OthersWrite \/ PersonTags \/ Rebuilt \/ UNCHANGED vars
    BY <1>3 DEF OthersWrite, PersonTags, Rebuilt, vars, crawl, TwoSided
  <1>4. CASE \/ StartCrawl \/ CrawlEnds \/ NextTarget \/ Polled \/ PolledUnknown
             \/ PolledInVain \/ NoMerge \/ FinishMerge \/ MergeRefused \/ RecordMacs
             \/ CreateSwitch \/ FindAddress \/ AddAddress \/ ReconcileNeighbour
             \/ Reconciled \/ QueueNeighbour \/ TargetDone \/ CrawlRaises \/ PollFails
             \/ MergeFails \/ CrawlAborts
    <2>1. pc' # "merging"
      BY <1>4, StopsMerging DEF Honest
    <2> QED
      BY <2>1 DEF TwoSided
  <1> QED
    BY <1>1, <1>2, <1>3, <1>4 DEF Next, CrawlStep

\* No step of the crawl takes a switch out of NetBox, but the deletion of a loser that
\* stands for a second box or whose keeper is gone.
THEOREM NoBoxIsLost == Spec => NoBoxLost
  <1>1. Init => Honest /\ TwoSided
    BY InitHonest DEF Init, TwoSided
  <1>2. Honest /\ TwoSided /\ [Next]_vars => (Honest /\ TwoSided)'
    BY NextHonest, NextTwoSided
  <1>3. Honest /\ TwoSided /\ [Next]_vars =>
          [UNCHANGED changes => \A b \in Boxes : Documented(b) =>
             \/ Documented(b)' \/ InHand(b)'
             \/ /\ pc = "merging" /\ merge.ips = {} /\ Documents(merge.lose.id, b)
                /\ b # BoxOf[cur.host] \/ ~Live(nb, merge.keep.id)]_vars
    BY StepDocuments
  <1> QED
    BY <1>1, <1>2, <1>3, PTL DEF Spec, NoBoxLost

================================================================================
