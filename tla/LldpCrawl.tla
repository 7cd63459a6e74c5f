------------------------------- MODULE LldpCrawl -------------------------------
(****************************************************************************)
(* The crawl of one site by the lldp module (LldpSync._crawl_site in        *)
(* sync/lldp.py), pass after pass, over the part of NetBox it works on.     *)
(*                                                                          *)
(* A box is a physical switch.  It stands for the name it sends, has MAC    *)
(* addresses of its own and answers at several addresses; in NetBox it may  *)
(* be documented several times.  A target waits in the queue with the copy  *)
(* of the device that was read when it was queued, and the device may be    *)
(* merged into another one, taken over by a person, or deleted, before its  *)
(* turn.  NetBox refuses every write to a device that is gone.              *)
(*                                                                          *)
(* Others write between any two actions.  A merge is split at its writes,   *)
(* the creation of a switch before and after it looks for the record of its *)
(* address; any other action is one call in a worker thread.  A call that   *)
(* raises leaves the writes before it in place.                             *)
(*                                                                          *)
(* Not represented: neighbours that are no switches or send no name, boxes  *)
(* that share a MAC address with a virtual machine, the choice of           *)
(* credentials, the cables.  MAC addresses are the objects of NetBox >= 4.2.*)
(****************************************************************************)
EXTENDS Integers, Sequences, SequencesExt, FiniteSets

CONSTANTS Boxes, Addrs, Macs, None,
          Devs,         \* devices, a bound on how many there are at a time
          Bare,         \* an address of which a copy holds the bare id
          BoxOf,        \* BoxOf[a]: the box that answers at address a
          MacsOf,       \* MacsOf[b]: b's own MAC addresses, the one it sends first
          Sees,         \* Sees[b]: management addresses in b's neighbour table
          Tells,        \* boxes whose driver reports their own MAC addresses
          Excluded,     \* lldp.exclude_hosts
          DefaultTag,   \* lldp.source_tag is "lldp-source"
          MaxSwitches, MaxDepth,
          GraceDelete,  \* lifecycle.stale_grace_delete_days is set
          MaxChanges,   \* bound on what others write to NetBox
          MaxFaults     \* bound on failing calls

\* Devices and IP records as this module tells them apart: a device is a
\* person's, or managed and made by discovery or by this module; a record is this
\* module's, another module's, or a person's.  NetBox never reuses the id of a
\* device, so a deleted one stays "gone" as long as a copy of it may exist.
Managed == {"scan", "lldp"}
NetBox == [kind:    [Devs -> {"none", "gone", "human"} \cup Managed],
           name:    [Devs -> Boxes \cup {None}],
           mac:     [Macs -> Seq(Devs)],        \* its carriers, oldest first
           ip:      [Addrs -> {"none", "lldp", "ours", "theirs"}],
           on:      [Addrs -> Devs \cup {None}],
           primary: [Devs -> Addrs \cup {None}]]

Copy == [id: Devs, managed: BOOLEAN, primary: Addrs \cup {None, Bare}]
Target == [host: Addrs, copy: Copy \cup {None}, depth: Nat]
Merge == [keep: Copy, lose: Copy, ips: SUBSET Addrs, released: BOOLEAN]
Making == [dev: Devs, found: {"unread", "none", "free", "other"}]

ASSUME LldpAssumption ==
  /\ {GraceDelete, DefaultTag} \subseteq BOOLEAN
  /\ BoxOf \in [Addrs -> Boxes]
  /\ \A b \in Boxes : Sees[b] \in Seq(Addrs) /\ MacsOf[b] \in Seq(Macs)
  /\ Tells \subseteq Boxes /\ Excluded \subseteq Addrs
  /\ {MaxSwitches, MaxDepth, MaxChanges, MaxFaults} \subseteq Nat
  /\ {None, Bare} \cap (Boxes \cup Addrs \cup Devs \cup Macs) = {} /\ None # Bare
  /\ None \notin Copy \cup Target \cup Merge \cup Making

VARIABLES
  nb,       \* NetBox
  seeds,    \* devices with the tag lldp.source_tag
  resolved, \* the NetBox site was found when the context was built
  pc,       \* "idle", or what the crawl does next
  queue,
  visitedIp, visitedMac, polled,
  cur,      \* the target being handled, its copy that of the device in hand
  identity, \* the MACs of cur's box that are known, in the order they are looked up
  merge,    \* the merge in progress
  making,   \* the switch being created, and what was found at its address
  todo,     \* neighbours still to reconcile or to queue
  failed,   \* (history) the merge for cur has failed
  late,     \* (history) devices and addresses a person took over while the crawl
            \* went by an older copy of them
  changes, faults

crawl == <<pc, queue, visitedIp, visitedMac, polled, cur, identity, merge, making, todo,
           failed>>
vars == <<nb, seeds, resolved, crawl, late, changes, faults>>

TypeOK ==
  /\ nb \in NetBox /\ seeds \subseteq Devs /\ resolved \in BOOLEAN
  /\ pc \in {"idle", "next", "poll", "dedup", "merging", "record", "reconcile", "queue"}
  /\ queue \in Seq(Target)
  /\ visitedIp \subseteq Addrs /\ visitedMac \subseteq Macs
  /\ polled \in 0..MaxSwitches
  /\ cur \in Target \cup {None} /\ (cur = None) = (pc \in {"idle", "next"})
  /\ identity \in Seq(Macs) /\ failed \in BOOLEAN
  /\ merge \in Merge \cup {None} /\ (merge = None) = (pc # "merging")
  /\ making \in Making \cup {None}
  /\ making # None => pc \in {"reconcile", "queue"} /\ todo # <<>>
  /\ todo \in Seq(Addrs)
  /\ late \subseteq Devs \cup Addrs
  /\ changes \in 0..MaxChanges /\ faults \in 0..MaxFaults

Live(n, d) == n.kind[d] \notin {"none", "gone"}
CopyOf(n, d) == [id |-> d, managed |-> n.kind[d] \in Managed, primary |-> n.primary[d]]

\* one seed, which a person documented or tagged at one of its addresses
Init ==
  /\ \E d \in Devs, a \in Addrs, k \in {"human", "scan"}, named \in BOOLEAN :
       /\ seeds = {d}
       /\ nb = [kind |-> [e \in Devs |-> IF e = d THEN k ELSE "none"],
                name |-> [e \in Devs |-> IF e = d /\ named THEN BoxOf[a] ELSE None],
                mac |-> [m \in Macs |-> <<>>],
                ip |-> [c \in Addrs |-> CASE c # a -> "none"
                                           [] k = "human" -> "theirs"
                                           [] OTHER -> "ours"],
                on |-> [c \in Addrs |-> IF c = a THEN d ELSE None],
                primary |-> [e \in Devs |-> IF e = d THEN a ELSE None]]
  /\ resolved \in BOOLEAN
  /\ pc = "idle" /\ queue = <<>> /\ visitedIp = {} /\ visitedMac = {} /\ polled = 0
  /\ cur = None /\ identity = <<>> /\ merge = None /\ making = None /\ todo = <<>>
  /\ failed = FALSE /\ late = {}
  /\ changes = 0 /\ faults = 0

-------------------------------------------------------------------------------
(* Lookups and writes, each for the box that answers at address a           *)

\* the MAC address a box sends, if it sends one
Chassis(b) == IF MacsOf[b] = <<>> THEN None ELSE Head(MacsOf[b])

Carrier(n, m) == IF n.mac[m] = <<>> THEN None ELSE Head(n.mac[m])
Oldest(n, b) == IF Chassis(b) = None THEN None ELSE Carrier(n, Chassis(b))
Named(n, b) == IF \E d \in Devs : n.name[d] = b
               THEN CHOOSE d \in Devs : n.name[d] = b ELSE None
First(d, e, f) == IF d # None THEN d ELSE IF e # None THEN e ELSE f

\* The match in _ensure_switch_device: MAC, then name, then address.  A MAC lookup
\* that fails finds nothing.
Match(n, a, answers) ==
  First(IF answers THEN Oldest(n, BoxOf[a]) ELSE None, Named(n, BoxOf[a]), n.on[a])

\* ... without a name, as for a target that was queued without a device
Recognised(n, a, answers) == First(IF answers THEN Oldest(n, BoxOf[a]) ELSE None, n.on[a], None)

\* _find_remote_device: name first
Remote(n, a, answers) ==
  First(Named(n, BoxOf[a]), IF answers THEN Oldest(n, BoxOf[a]) ELSE None, n.on[a])

\* set_interface_mac, for the MAC addresses in S
Record(n, S, d) ==
  [n EXCEPT !.mac = [m \in Macs |-> IF m \in S /\ ~Contains(@[m], d) THEN Append(@[m], d)
                                    ELSE @[m]]]

\* A new device; what would need more than Devs has does not happen.
Room(n) == \E d \in Devs : n.kind[d] = "none"
Fresh(n) == CHOOSE d \in Devs : n.kind[d] = "none"

\* The switch at address a gets a device, which carries the MAC addresses in S.
NewSwitch(n, a, S) ==
  Record([n EXCEPT !.kind[Fresh(n)] = "lldp", !.name[Fresh(n)] = BoxOf[a]], S, Fresh(n))

\* upsert_ip: a record this module did not make, or one in use, stays as it is.
Found(n, a) == IF n.ip[a] = "none" THEN "none"
               ELSE IF n.ip[a] = "lldp" /\ n.on[a] = None THEN "free" ELSE "other"

\* What it writes goes by what it found, though a person may have it by now.
Upsert(n, a, d, found) ==
  IF found = "none" THEN [n EXCEPT !.ip[a] = "lldp", !.on[a] = d] ELSE [n EXCEPT !.on[a] = d]

\* A MAC address is recorded once for a device.
Without(s, d) == IF Contains(s, d) THEN RemoveAt(s, CHOOSE i \in DOMAIN s : s[i] = d) ELSE s

\* The deletion of a device takes its interfaces and MAC addresses with it, and
\* NetBox deletes the records assigned to them or leaves them unassigned.
Deleting(n, d) ==
  LET bare == [n EXCEPT !.kind[d] = "gone", !.name[d] = None, !.primary[d] = None,
                        !.mac = [m \in Macs |-> Without(@[m], d)],
                        !.on = [a \in Addrs |-> IF @[a] = d THEN None ELSE @[a]]]
  IN  {bare, [bare EXCEPT !.ip = [a \in Addrs |-> IF n.on[a] = d THEN "none" ELSE @[a]]]}

-------------------------------------------------------------------------------
(* LldpSync._crawl_site                                                     *)

\* mutant: the hosts that were visited outlive the crawl
Idle_remembers ==
  /\ pc' = "idle" /\ queue' = <<>> /\ visitedMac' = {} /\ polled' = 0
  /\ cur' = None /\ identity' = <<>> /\ merge' = None /\ making' = None /\ todo' = <<>>
  /\ failed' = FALSE /\ late' = {}
  /\ UNCHANGED visitedIp

Idle ==
  /\ pc' = "idle" /\ queue' = <<>> /\ visitedIp' = {} /\ visitedMac' = {} /\ polled' = 0
  /\ cur' = None /\ identity' = <<>> /\ merge' = None /\ making' = None /\ todo' = <<>>
  /\ failed' = FALSE /\ late' = {}

\* the seeds with a primary address are queued; ids of deleted devices are forgotten
StartCrawl ==
  /\ pc = "idle"
  /\ nb' = [nb EXCEPT !.kind = [d \in Devs |-> IF @[d] = "gone" THEN "none" ELSE @[d]]]
  /\ seeds' = {d \in seeds : Live(nb, d)}
  /\ queue' = [i \in DOMAIN SetToSeq({d \in seeds : nb.primary[d] # None}) |->
                 LET d == SetToSeq({e \in seeds : nb.primary[e] # None})[i]
                 IN  [host |-> nb.primary[d], copy |-> CopyOf(nb, d), depth |-> 0]]
  /\ pc' = "next"
  /\ UNCHANGED <<resolved, visitedIp, visitedMac, polled, cur, identity, merge, making, todo,
                 failed, late, changes, faults>>

\* the MAC address a neighbour reported the target with; a seed was not reported
Heard(t) ==
  IF t.depth = 0 \/ Chassis(BoxOf[t.host]) = None THEN <<>> ELSE <<Chassis(BoxOf[t.host])>>

More == queue # <<>> /\ polled < MaxSwitches

CrawlEnds ==
  /\ pc = "next" /\ ~More
  /\ Idle
  /\ UNCHANGED <<nb, seeds, resolved, changes, faults>>

\* mutant: hosts that were visited are taken again
NextTarget_again ==
  LET t == Head(queue)
  IN /\ pc = "next" /\ More
     /\ queue' = Tail(queue)
     /\ visitedIp' = visitedIp \cup {t.host}
     /\ visitedMac' = visitedMac \cup ToSet(Heard(t))
     /\ IF t.host \notin Excluded
          THEN cur' = t /\ pc' = "poll" ELSE UNCHANGED <<cur, pc>>
     /\ UNCHANGED <<nb, seeds, resolved, polled, identity, merge, making, todo, failed, late,
                    changes, faults>>

\* popleft; a host that was visited is dropped, an excluded one only documented
NextTarget ==
  LET t == Head(queue)
      new == t.host \notin visitedIp
  IN /\ pc = "next" /\ More
     /\ queue' = Tail(queue)
     /\ visitedIp' = visitedIp \cup {t.host}
     /\ visitedMac' = IF new THEN visitedMac \cup ToSet(Heard(t)) ELSE visitedMac
     /\ IF new /\ t.host \notin Excluded
          THEN cur' = t /\ pc' = "poll" ELSE UNCHANGED <<cur, pc>>
     /\ UNCHANGED <<nb, seeds, resolved, polled, identity, merge, making, todo, failed, late,
                    changes, faults>>

\* no driver and credential works; the next target is taken
PollFails ==
  /\ pc = "poll" /\ faults < MaxFaults
  /\ faults' = faults + 1
  /\ pc' = "next" /\ cur' = None
  /\ UNCHANGED <<nb, seeds, resolved, queue, visitedIp, visitedMac, polled, identity, merge,
                 making, todo, failed, late, changes>>

Spend(n) == faults + n <= MaxFaults /\ faults' = faults + n

\* its neighbours and its own MACs are read; reading the latter may fail quietly, and
\* then the one it sent to its neighbour is known
Answers(spent) ==
  /\ polled' = polled + 1
  /\ pc' = "dedup"
  /\ \/ /\ Spend(spent) /\ BoxOf[cur.host] \in Tells
        /\ identity' = MacsOf[BoxOf[cur.host]]
     \/ /\ IF BoxOf[cur.host] \in Tells THEN Spend(spent + 1) ELSE Spend(spent)
        /\ identity' = Heard(cur)

Polled ==
  /\ pc = "poll" /\ cur.copy # None
  /\ Answers(0)
  /\ UNCHANGED <<nb, seeds, resolved, queue, visitedIp, visitedMac, cur, merge, making, todo,
                 failed, late, changes>>

\* a target queued without a device is looked up again ...
PolledUnknown ==
  /\ pc = "poll" /\ cur.copy = None
  /\ \E answers \in BOOLEAN :
       /\ Recognised(nb, cur.host, answers) # None
       /\ cur' = [cur EXCEPT !.copy = CopyOf(nb, Recognised(nb, cur.host, answers))]
       /\ Answers(IF answers THEN 0 ELSE 1)
  /\ UNCHANGED <<nb, seeds, resolved, queue, visitedIp, visitedMac, merge, making, todo,
                 failed, late, changes>>

\* ... and let go when NetBox still has none: without a site none is made
PolledInVain ==
  /\ pc = "poll" /\ cur.copy = None
  /\ \E answers \in BOOLEAN :
       Recognised(nb, cur.host, answers) = None /\ Spend(IF answers THEN 0 ELSE 1)
  /\ polled' = polled + 1
  /\ pc' = "next" /\ cur' = None
  /\ UNCHANGED <<nb, seeds, resolved, queue, visitedIp, visitedMac, identity, merge, making,
                 todo, failed, late, changes>>

-------------------------------------------------------------------------------
(* _dedup_and_record_macs and _merge_duplicate                              *)

\* mutant: a device is taken for its own duplicate
Other_self(m) == Carrier(nb, m)

\* the other device that the lookup of a MAC returns, if it does
Other(m) == IF Carrier(nb, m) = cur.copy.id THEN None ELSE Carrier(nb, m)

\* The first of the box's MACs that another device carries decides; the lookup of one
\* that is lost finds nothing.
Duplicate(d, lost) ==
  \E i \in DOMAIN identity :
     /\ Other(identity[i]) = d /\ identity[i] # lost
     /\ \A j \in 1..i-1 : identity[j] = lost \/ Other(identity[j]) = None

\* at most one lookup is lost in a step
Lost == ToSet(identity) \cup {None}
Losing(lost) == Spend(IF lost = None THEN 0 ELSE 1)

\* Which one is kept: a person's, else one with the tag lldp-source, else the one that
\* answered.  The tags of the polled device are those of its copy.
KeepsOther(d) ==
  /\ cur.copy.managed
  /\ nb.kind[d] \notin Managed \/ (DefaultTag /\ d \in seeds)

HasPrimary(c) == c.primary \in Addrs

Keeper(d) == IF KeepsOther(d) THEN CopyOf(nb, d) ELSE cur.copy
Loser(d)  == IF KeepsOther(d) THEN cur.copy ELSE CopyOf(nb, d)

RecordsOf(d) == {a \in Addrs : nb.on[a] = d}

\* mutant: the records of the loser are not looked at
Mergeable_anyRecords(d) == Loser(d).managed

\* not when neither is managed, or when a person's record hangs off the loser
Mergeable(d) ==
  /\ Loser(d).managed
  /\ \A a \in RecordsOf(Loser(d).id) : nb.ip[a] # "theirs"

NoMerge ==
  /\ pc = "dedup"
  /\ \E lost \in Lost : Losing(lost) /\ ~\E d \in Devs : Duplicate(d, lost) /\ Mergeable(d)
  /\ pc' = "record"
  /\ UNCHANGED <<nb, seeds, resolved, queue, visitedIp, visitedMac, polled, cur, identity,
                 merge, making, todo, failed, late, changes>>

\* the loser's records are listed and looked at
BeginMerge ==
  /\ pc = "dedup"
  /\ \E lost \in Lost, d \in Devs :
       /\ Losing(lost) /\ Duplicate(d, lost) /\ Mergeable(d)
       /\ merge' = [keep |-> Keeper(d), lose |-> Loser(d), ips |-> RecordsOf(Loser(d).id),
                    released |-> ~HasPrimary(Loser(d))]
  /\ pc' = "merging"
  /\ UNCHANGED <<nb, seeds, resolved, queue, visitedIp, visitedMac, polled, cur, identity,
                 making, todo, failed, late, changes>>

\* its primary address, if its copy shows one, is released first
ReleasePrimary ==
  /\ pc = "merging" /\ ~merge.released /\ Live(nb, merge.lose.id)
  /\ nb' = [nb EXCEPT !.primary[merge.lose.id] = None]
  /\ merge' = [merge EXCEPT !.released = TRUE]
  /\ UNCHANGED <<seeds, resolved, pc, queue, visitedIp, visitedMac, polled, cur, identity,
                 making, todo, failed, late, changes, faults>>

Moved(a) == [nb EXCEPT !.on[a] = merge.keep.id]

\* NetBox refuses to move an address while it is the primary one of a device
Movable(a) ==
  Live(nb, merge.keep.id) /\ nb.ip[a] # "none" /\ \A d \in Devs : nb.primary[d] # a

\* a record moves to the keeper, which gets it as primary address if the loser had it
MoveAddress(a) ==
  /\ pc = "merging" /\ merge.released /\ a \in merge.ips /\ Movable(a)
  /\ nb' = IF a = merge.lose.primary /\ merge.keep.primary = None
           THEN [Moved(a) EXCEPT !.primary[merge.keep.id] = a] ELSE Moved(a)
  /\ merge' = [merge EXCEPT !.ips = @ \ {a}]
  /\ UNCHANGED <<seeds, resolved, pc, queue, visitedIp, visitedMac, polled, cur, identity,
                 making, todo, failed, late, changes, faults>>

\* the loser is deleted, by the tags of its copy; the crawl goes on with the keeper,
\* read again
FinishMerge ==
  /\ pc = "merging" /\ merge.released /\ merge.ips = {} /\ Live(nb, merge.lose.id)
  /\ nb' \in Deleting(nb, merge.lose.id)
  /\ cur' = [cur EXCEPT !.copy = IF Live(nb, merge.keep.id) THEN CopyOf(nb', merge.keep.id)
                                 ELSE merge.keep]
  /\ merge' = None
  /\ pc' = "record"
  /\ UNCHANGED <<seeds, resolved, queue, visitedIp, visitedMac, polled, identity, making,
                 todo, failed, late, changes, faults>>

\* _merge_duplicate raises: the polled device stays the one in hand
MergeRaises ==
  /\ pc' = "record" /\ merge' = None /\ failed' = TRUE
  /\ UNCHANGED <<seeds, resolved, queue, visitedIp, visitedMac, polled, cur, identity, making,
                 todo, late, changes>>

\* because NetBox refuses a write ...
MergeRefused ==
  /\ pc = "merging"
  /\ \/ (~merge.released \/ merge.ips = {}) /\ ~Live(nb, merge.lose.id)
     \/ merge.released /\ \E a \in merge.ips : ~Movable(a)
  /\ MergeRaises
  /\ UNCHANGED <<nb, faults>>

\* ... or because a call fails, perhaps between the two writes for one record
MergeFails ==
  /\ Spend(1)
  /\ \/ pc = "dedup" /\ (\E d \in Devs : Duplicate(d, None) /\ Mergeable(d)) /\ UNCHANGED nb
     \/ pc = "merging" /\ UNCHANGED nb
     \/ pc = "merging" /\ merge.released /\ \E a \in merge.ips : Movable(a) /\ nb' = Moved(a)
  /\ MergeRaises

\* _record_local_macs creates an interface where there is none: it raises when the
\* device is gone.  An error in recording a MAC is swallowed.
RecordMacs ==
  /\ pc = "record" /\ (identity # <<>> => Live(nb, cur.copy.id))
  /\ \E lost \in Lost :
       Losing(lost) /\ nb' = Record(nb, ToSet(identity) \ {lost}, cur.copy.id)
  /\ visitedMac' = visitedMac \cup ToSet(identity)
  /\ todo' = Sees[BoxOf[cur.host]]
  /\ pc' = "reconcile"
  /\ UNCHANGED <<seeds, resolved, queue, visitedIp, polled, cur, identity, merge, making,
                 failed, late, changes>>

-------------------------------------------------------------------------------
(* _reconcile, and the neighbours' way into the queue                       *)

Visited(a) == a \in visitedIp \/ Chassis(BoxOf[a]) \in visitedMac

\* _ensure_switch_device finds no device for the neighbour; _reconcile has looked for
\* it by itself before, so two lookups of its MAC must have failed there
Unknown(a, answers) ==
  \/ pc = "reconcile" /\ Live(nb, cur.copy.id) /\ Remote(nb, a, answers) = None
  \/ pc = "queue" /\ ~Visited(a) /\ Match(nb, a, answers) = None

Missing(answers) == IF answers THEN 0 ELSE IF pc = "reconcile" THEN 2 ELSE 1

\* The neighbour gets a device of its own, with the MAC address it sends unless the
\* error in recording it is swallowed ...
CreateSwitch ==
  LET a == Head(todo)
  IN /\ todo # <<>> /\ making = None /\ resolved /\ Room(nb)
     /\ \E answers \in BOOLEAN, recorded \in BOOLEAN :
          /\ Unknown(a, answers)
          /\ Spend(Missing(answers) + (IF recorded THEN 0 ELSE 1))
          /\ nb' = NewSwitch(nb, a, IF recorded THEN {Chassis(BoxOf[a])} ELSE {})
     /\ making' = [dev |-> Fresh(nb), found |-> "unread"]
     /\ UNCHANGED <<seeds, resolved, pc, queue, visitedIp, visitedMac, polled, cur, identity,
                    merge, todo, failed, late, changes>>

\* ... the record of its address is looked for ...
FindAddress ==
  /\ making # None /\ making.found = "unread"
  /\ making' = [making EXCEPT !.found = Found(nb, Head(todo))]
  /\ UNCHANGED <<nb, seeds, resolved, pc, queue, visitedIp, visitedMac, polled, cur, identity,
                 merge, todo, failed, late, changes, faults>>

ForNeighbour(a, copy) ==
  [host |-> a, depth |-> cur.depth + 1, copy |-> copy]

Addressed(n) == Upsert(n, Head(todo), making.dev, making.found)

\* ... and assigned, and made its primary address.  The copy of a device just created
\* shows the bare id of that address, which no merge would release.
AddAddress ==
  /\ making # None /\ making.found \in {"none", "free"}
  /\ nb' = [Addressed(nb) EXCEPT !.primary[making.dev] = Head(todo)]
  /\ queue' = IF pc = "queue"
              THEN Append(queue, ForNeighbour(Head(todo), [id |-> making.dev, managed |-> TRUE,
                                                           primary |-> Bare]))
              ELSE queue
  /\ making' = None /\ todo' = Tail(todo)
  /\ UNCHANGED <<seeds, resolved, pc, visitedIp, visitedMac, polled, cur, identity, merge,
                 failed, late, changes, faults>>

\* a neighbour that has a device, or that gets none for want of a site
ReconcileNeighbour ==
  /\ pc = "reconcile" /\ todo # <<>> /\ making = None /\ Live(nb, cur.copy.id)
  /\ Remote(nb, Head(todo), TRUE) # None \/ ~resolved
  /\ todo' = Tail(todo)
  /\ UNCHANGED <<nb, seeds, resolved, pc, queue, visitedIp, visitedMac, polled, cur, identity,
                 merge, making, failed, late, changes, faults>>

Reconciled ==
  /\ pc = "reconcile" /\ todo = <<>>
  /\ IF cur.depth < MaxDepth
       THEN /\ pc' = "queue" /\ todo' = Sees[BoxOf[cur.host]]
            /\ UNCHANGED <<cur, identity, failed>>
       ELSE /\ pc' = "next" /\ cur' = None /\ identity' = <<>> /\ failed' = FALSE
            /\ UNCHANGED todo
  /\ UNCHANGED <<nb, seeds, resolved, queue, visitedIp, visitedMac, polled, merge, making,
                 late, changes, faults>>

\* A neighbour is queued with the device it has, or with none when the site is not
\* resolved.
QueueNeighbour ==
  LET a == Head(todo)
  IN /\ pc = "queue" /\ todo # <<>> /\ making = None
     /\ \/ Visited(a) /\ UNCHANGED <<queue, faults>>
        \/ \E answers \in BOOLEAN :
             /\ ~Visited(a) /\ Spend(Missing(answers))
             /\ \/ /\ Match(nb, a, answers) # None
                   /\ queue' = Append(queue, ForNeighbour(a, CopyOf(nb, Match(nb, a, answers))))
                \/ /\ Match(nb, a, answers) = None /\ ~resolved
                   /\ queue' = Append(queue, ForNeighbour(a, None))
     /\ todo' = Tail(todo)
     /\ UNCHANGED <<nb, seeds, resolved, pc, visitedIp, visitedMac, polled, cur, identity,
                    merge, making, failed, late, changes>>

\* mutant: the target is not let go
TargetDone_keeps ==
  /\ pc = "queue" /\ todo = <<>>
  /\ pc' = "next" /\ identity' = <<>> /\ failed' = FALSE
  /\ UNCHANGED <<nb, seeds, resolved, queue, visitedIp, visitedMac, polled, cur, merge,
                 making, todo, late, changes, faults>>

TargetDone ==
  /\ pc = "queue" /\ todo = <<>>
  /\ pc' = "next" /\ cur' = None /\ identity' = <<>> /\ failed' = FALSE
  /\ UNCHANGED <<nb, seeds, resolved, queue, visitedIp, visitedMac, polled, merge, making,
                 todo, late, changes, faults>>

\* The crawl of the site ends with an exception: a write to a device that is gone, a
\* primary address that is not on its device ...
CrawlRaises ==
  /\ \/ pc = "record" /\ identity # <<>> /\ ~Live(nb, cur.copy.id)
     \/ pc = "reconcile" /\ todo # <<>> /\ making = None /\ ~Live(nb, cur.copy.id)
     \/ making # None /\ making.found = "other"
  /\ Idle
  /\ UNCHANGED <<nb, seeds, resolved, changes, faults>>

\* ... a failing call, the cancellation of the loop, or the end of the process
CrawlAborts ==
  /\ pc # "idle" /\ Spend(1)
  /\ \/ UNCHANGED nb
     \/ /\ todo # <<>> /\ making = None /\ resolved /\ Room(nb) /\ Unknown(Head(todo), TRUE)
        /\ nb' = NewSwitch(nb, Head(todo), {})
     \/ making # None /\ making.found \in {"none", "free"} /\ nb' = Addressed(nb)
  /\ Idle
  /\ UNCHANGED <<seeds, resolved, changes>>

-------------------------------------------------------------------------------
(* What others write to NetBox, at any moment                               *)

\* A record made anew is not the one a merge has listed, and NetBox may then have two
\* for the address a switch is about to get: none is made while that matters.
Free(a) ==
  /\ nb.ip[a] = "none"
  /\ merge # None => a \notin merge.ips
  /\ making # None /\ making.found = "none" => a # Head(todo)

\* the discovery module finds a new host, with or without one of its MACs ...
ScanFinds(a) ==
  LET d == Fresh(nb)
  IN  /\ Free(a) /\ Room(nb)
      /\ \E S \in {{}} \cup {{m} : m \in {k \in ToSet(MacsOf[BoxOf[a]]) : nb.mac[k] = <<>>}} :
           nb' = Record([nb EXCEPT !.kind[d] = "scan", !.ip[a] = "ours", !.on[a] = d,
                                   !.primary[d] = a], S, d)
      /\ UNCHANGED late

\* ... and the availability module deletes one it made, with its primary address
ScanDeleted(d) ==
  /\ GraceDelete /\ nb.kind[d] = "scan"
  /\ nb' \in Deleting(nb, d)
  /\ UNCHANGED late

\* the dhcp module finds a lease of a host it does not know
LeaseFound(a) ==
  /\ Free(a)
  /\ nb' = [nb EXCEPT !.ip[a] = "ours"]
  /\ UNCHANGED late

\* a person documents an address, on a device of hers or on one that is there
PersonDocuments(a) ==
  /\ Free(a)
  /\ \/ LET d == Fresh(nb)
        IN  /\ Room(nb)
            /\ nb' = [nb EXCEPT !.kind[d] = "human", !.ip[a] = "theirs", !.on[a] = d,
                                !.primary[d] = a]
     \/ \E d \in Devs : Live(nb, d) /\ nb' = [nb EXCEPT !.ip[a] = "theirs", !.on[a] = d]
  /\ UNCHANGED late

\* the copies the crawl goes by
Copies ==
  {queue[i].copy : i \in DOMAIN queue}
    \cup (IF cur = None THEN {} ELSE {cur.copy})
    \cup (IF merge = None THEN {} ELSE {merge.keep, merge.lose})

\* a person takes over a device, that is, removes its tags ...
PersonTakesDevice(d) ==
  /\ nb.kind[d] \in Managed
  /\ nb' = [nb EXCEPT !.kind[d] = "human"]
  /\ late' = IF \/ \E c \in Copies \ {None} : c.id = d /\ c.managed
                \/ making # None /\ making.dev = d
             THEN late \cup {d} ELSE late

\* ... or a record
PersonTakesRecord(a) ==
  /\ nb.ip[a] \in {"lldp", "ours"}
  /\ nb' = [nb EXCEPT !.ip[a] = "theirs"]
  /\ late' = IF \/ merge # None /\ a \in merge.ips
                \/ making # None /\ making.found = "free" /\ a = Head(todo)
             THEN late \cup {a} ELSE late

OthersWrite ==
  /\ changes < MaxChanges /\ changes' = changes + 1
  /\ \/ \E a \in Addrs : \/ ScanFinds(a) \/ LeaseFound(a) \/ PersonDocuments(a)
                         \/ PersonTakesRecord(a)
     \/ \E d \in Devs : ScanDeleted(d) \/ PersonTakesDevice(d)
  /\ UNCHANGED <<seeds, resolved, crawl, faults>>

\* a person tags one more device as a seed
PersonTags ==
  /\ changes < MaxChanges /\ changes' = changes + 1
  /\ \E d \in Devs \ seeds : Live(nb, d) /\ seeds' = seeds \cup {d}
  /\ UNCHANGED <<nb, resolved, crawl, late, faults>>

\* the context is built anew, and NetBox's site is found or not
Rebuilt ==
  /\ pc = "idle" /\ changes < MaxChanges /\ changes' = changes + 1
  /\ resolved' = ~resolved
  /\ UNCHANGED <<nb, seeds, crawl, late, faults>>

-------------------------------------------------------------------------------
CrawlStep ==
  \/ StartCrawl \/ CrawlEnds \/ NextTarget \/ Polled \/ PolledUnknown \/ PolledInVain
  \/ NoMerge \/ BeginMerge \/ ReleasePrimary \/ (\E a \in Addrs : MoveAddress(a))
  \/ FinishMerge \/ MergeRefused
  \/ RecordMacs \/ CreateSwitch \/ FindAddress \/ AddAddress
  \/ ReconcileNeighbour \/ Reconciled \/ QueueNeighbour \/ TargetDone \/ CrawlRaises

Next == CrawlStep \/ PollFails \/ MergeFails \/ CrawlAborts \/ OthersWrite \/ PersonTags
        \/ Rebuilt

Spec == Init /\ [][Next]_vars

\* the scheduler starts crawl after crawl, and every call returns or raises
FairSpec == Spec /\ WF_vars(CrawlStep)

-------------------------------------------------------------------------------
(* Properties                                                               *)

\* A crawl that merges and documents switches leaves what people made or took over
\* alone: it never deletes a person's device or moves an address off it, and it never
\* claims, moves or deletes a person's record.  There are two exceptions: what a person
\* took over while the crawl went by an older copy of it, and a record she assigned to
\* the duplicate after the merge had listed its records.
HumansKept ==
  [][UNCHANGED changes =>
       /\ \A d \in Devs \ late : nb.kind[d] = "human" => nb'.kind[d] = "human"
       /\ \A a \in Addrs \ late :
            \/ nb.ip[a] = "theirs"
            \/ \E d \in Devs \ late : nb.on[a] = d /\ nb.kind[d] = "human"
            =>
            \/ nb'.ip[a] = nb.ip[a] /\ nb'.on[a] = nb.on[a]
            \/ pc = "merging" /\ merge.ips = {} /\ nb.on[a] = merge.lose.id]_vars

\* No host is logged in to more than once in a crawl, however often it is reported.
PolledOnce == polled <= Cardinality(visitedIp)

Documents(d, b) ==
  /\ Live(nb, d)
  /\ \/ nb.name[d] = b \/ \E m \in ToSet(MacsOf[b]) : Contains(nb.mac[m], d)
     \/ \E a \in Addrs : BoxOf[a] = b /\ nb.on[a] = d

Documented(b) == \E d \in Devs : Documents(d, b)

\* the box was polled, and its MACs are about to be recorded on the device in hand
InHand(b) ==
  pc = "record" /\ identity # <<>> /\ b = BoxOf[cur.host] /\ Live(nb, cur.copy.id)

\* No step of the crawl takes a switch out of NetBox: what documents it afterwards is
\* another device, or the crawl has it in hand.  The exceptions are the deletion of a
\* loser whose keeper is itself gone, which the merge notices only if it has an address
\* to move to it, and of one that stands for a second box by its name, its MAC or a
\* record it got after the merge had listed its records.
NoBoxLost ==
  [][UNCHANGED changes => \A b \in Boxes : Documented(b) =>
       \/ Documented(b)' \/ InHand(b)'
       \/ /\ pc = "merging" /\ merge.ips = {} /\ Documents(merge.lose.id, b)
          /\ b # BoxOf[cur.host] \/ ~Live(nb, merge.keep.id)]_vars

\* As long as a seed can be logged in to and the site is found, every switch it reports
\* is documented in the end, excluded ones included and whatever crawls were cut short.
EveryBoxDocumented ==
  \A c \in Boxes : \A i \in 1..Len(Sees[c]) :
     <>[](/\ resolved
          /\ \E s \in seeds : /\ nb.primary[s] \in Addrs \ Excluded
                              /\ BoxOf[nb.primary[s]] = c)
       => <>[](\E d \in Devs : Documents(d, BoxOf[Sees[c][i]]))

\* "a failed merge must not abort the crawl" (lldp.py:624): it does not end it.
MergeFailureIsContained == [][failed /\ pc = "record" => pc' # "idle"]_vars
================================================================================
