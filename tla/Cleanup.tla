-------------------------------- MODULE Cleanup --------------------------------
(****************************************************************************)
(* A cleanup from the web UI (sync/cleanup.py, delete_managed): the managed *)
(* devices, virtual machines, addresses and cables that meet the person's   *)
(* filters are deleted, kind after kind, or counted when it is a preview.   *)
(*                                                                          *)
(* A kind is listed in one call; what is listed is judged and deleted one   *)
(* by one, each call on its own, while the sync modules and people go on    *)
(* writing to NetBox.  Whether an object is ours is read from the copy in   *)
(* the list.  A behaviour is one cleanup of any NetBox.                     *)
(*                                                                          *)
(* The filters by source, staleness and age look at nothing but the object  *)
(* itself: they are the set fits.  The filter by site is computed: from the *)
(* device of a virtual machine, and for an address from the device whose id *)
(* is that of the address's parent (cleanup.py:66-72), be the parent a      *)
(* device or a virtual machine; NetBox numbers the two independently.       *)
(****************************************************************************)
EXTENDS Integers, FiniteSets

CONSTANTS Devices, Vms, Ips, Cables, Sites,
          None,         \* no device, no parent, no site
          Any,          \* no filter by site
          Num,          \* the ids NetBox gave to devices and virtual machines
          Site,         \* the site of each device
          Requests,     \* the forms considered: kinds, site, dry run
          MaxChanges    \* bound on what others write meanwhile

Objects == Devices \cup Vms \cup Ips \cup Cables

\* OBJECT_TYPES, in the order of delete_managed
Kinds == <<Devices, Vms, Ips, Cables>>
Parents == Devices \cup Vms

ASSUME CleanupAssumption ==
  /\ Devices \cap (Vms \cup Ips \cup Cables) = {} /\ Vms \cap (Ips \cup Cables) = {}
  /\ Ips \cap Cables = {} /\ None \notin Objects \cup Sites /\ Any \notin Sites \cup {None}
  /\ Num \in [Parents -> Nat] /\ Site \in [Devices -> Sites]
  /\ \A d, e \in Devices : Num[d] = Num[e] => d = e
  /\ IsFiniteSet(Objects)
  /\ Requests \subseteq [kinds: SUBSET (1..4), site: Sites \cup {Any}, dry: BOOLEAN]
  /\ MaxChanges \in Nat

VARIABLES
  rec,      \* each object's state in NetBox; ours carries the managed tag
  fits,     \* the objects that meet the other filters
  host,     \* the device a virtual machine runs on
  parent,   \* what an address is assigned to
  req,      \* the request
  pc, kind, \* where delete_managed is, and the kind it is at
  todo,     \* objects listed and not handled yet,
  copies,   \* with the hosts and parents that the list gave them
  cur,      \* the device or virtual machine being deleted,
  addrs,    \* and its addresses still to delete
  counts,   \* result.counts, by kind
  doneIps,  \* deleted_ip_ids
  plan,     \* (history) what met the filters when the cleanup began
  late,     \* (history) objects that people made theirs after the pass had read them
  changes   \* what others have written so far

netbox == <<rec, fits, host, parent, late, changes>>
pass == <<fits, req, pc, kind, todo, copies, cur, addrs, counts, doneIps, plan>>
vars == <<rec, fits, host, parent, req, pc, kind, todo, copies, cur, addrs, counts,
          doneIps, plan, late, changes>>

Hosts == [Vms -> Devices \cup {None}]
Assignments == [Ips -> Parents \cup {None}]

TypeOK ==
  /\ rec \in [Objects -> {"unborn", "human", "ours", "gone"}]
  /\ fits \subseteq Objects /\ plan \subseteq Objects /\ late \subseteq Objects
  /\ host \in Hosts /\ parent \in Assignments
  /\ copies \in [host: Hosts, parent: Assignments]
  /\ req \in Requests /\ kind \in 1..5
  /\ pc \in {"list", "each", "addresses", "done", "failed"}
  /\ pc \in {"list", "each", "addresses"} => kind \in 1..4
  /\ todo \subseteq Objects
  /\ pc \in {"each", "addresses"} => todo \subseteq Kinds[kind]
  /\ cur \in Parents \cup {None}
  /\ pc = "addresses" => cur \in Parents \cap Kinds[kind]
  /\ addrs \subseteq Ips /\ doneIps \subseteq Ips
  /\ counts \in [1..4 -> Nat] /\ changes \in 0..MaxChanges

Live(o) == rec[o] \in {"human", "ours"}

----------------------------------------------------------------------------
(* The filters *)

\* _ip_site_slug: a parent of either kind is looked up among the devices
SiteOfAddress(p) ==
  LET found == {d \in Devices : Live(d) /\ p # None /\ Num[d] = Num[p]}
  IN IF found = {} THEN None ELSE Site[CHOOSE d \in found : TRUE]

\* _device_site_slug, _cluster_site_slug, _ip_site_slug; a cable has no site
SiteOf(o, c) ==
  IF o \in Devices THEN Site[o]
  ELSE IF o \in Vms THEN IF c.host[o] = None THEN None ELSE Site[c.host[o]]
  ELSE IF o \in Ips THEN SiteOfAddress(c.parent[o]) ELSE None

\* _matches
Matches(o, c) == o \in fits /\ req.site \in {Any, SiteOf(o, c)}

\* The site of a copy's host or parent is fetched, which fails if that is gone
Readable(o) == IF o \in Vms /\ copies.host[o] # None THEN Live(copies.host[o])
               ELSE o \in Ips /\ copies.parent[o] \in Vms => Live(copies.parent[o])

\* The kinds of the form; cables only when there is no filter by site
Selected(k) == k \in req.kinds /\ (Kinds[k] = Cables => req.site = Any)

\* mutant: the addresses of a parent whoever made them
AddressesOf_all(o) == {a \in Ips : Live(a) /\ parent[a] = o}

\* delete_parent_ips: the parent's addresses that delete_ip does not refuse
AddressesOf(o) == {a \in Ips : rec[a] = "ours" /\ parent[a] = o}

\* What the filters select as NetBox stands, and the addresses that go with it
Planned ==
  LET now == [host |-> host, parent |-> parent]
      matched == UNION {{o \in Kinds[k] : rec[o] = "ours" /\ Matches(o, now)} :
                           k \in {j \in 1..4 : Selected(j)}}
  IN matched \cup {a \in Ips : rec[a] = "ours" /\ parent[a] \in matched}

----------------------------------------------------------------------------
(* delete_managed *)

\* mutant: one list for all kinds
Listed_all == {o \in Objects : Selected(kind) /\ rec[o] = "ours"}

\* filter_tagged for one kind
Listed == {o \in Kinds[kind] : Selected(kind) /\ rec[o] = "ours"}
List ==
  /\ pc = "list" /\ pc' = "each" /\ todo' = Listed
  /\ copies' = [host |-> host, parent |-> parent]
  /\ UNCHANGED <<netbox, req, kind, cur, addrs, counts, doneIps, plan>>

NextKind ==
  /\ pc = "each" /\ todo = {}
  /\ kind' = kind + 1 /\ pc' = IF kind = 4 THEN "done" ELSE "list"
  /\ UNCHANGED <<netbox, req, todo, copies, cur, addrs, counts, doneIps, plan>>

\* The next object of the list
Judge(o) == pc = "each" /\ o \in todo /\ Readable(o) /\ todo' = todo \ {o}

\* An object the filters leave out
Skip(o) ==
  /\ Judge(o) /\ ~Matches(o, copies)
  /\ UNCHANGED <<netbox, req, pc, kind, copies, cur, addrs, counts, doneIps, plan>>

\* A device or virtual machine that meets them: its addresses are read
Take(o) ==
  /\ Judge(o) /\ Matches(o, copies) /\ o \in Parents
  /\ pc' = "addresses" /\ cur' = o /\ addrs' = AddressesOf(o)
  /\ UNCHANGED <<netbox, req, kind, copies, counts, doneIps, plan>>

\* NetBox forgets an object; it detaches the addresses of its interfaces or deletes
\* them too, whoever they belong to.  It protects a device that a virtual machine runs
\* on, and answers for what is gone with an error.
Vanishes(o) ==
  /\ Live(o) /\ \A v \in Vms : Live(v) => host[v] # o
  /\ \E lost \in SUBSET {a \in Ips : Live(a) /\ parent[a] = o} :
       rec' = [x \in Objects |-> IF x \in lost \cup {o} THEN "gone" ELSE rec[x]]
  /\ parent' = [a \in Ips |-> IF parent[a] = o THEN None ELSE parent[a]]
  /\ UNCHANGED host

\* mutant: an address counts each time it is met
Counted_never(o) == FALSE

\* An address that the cascade has handled already
Counted(o) == o \in doneIps

\* do_delete and the counting: a preview deletes nothing
Delete(k, o) ==
  IF Counted(o) THEN UNCHANGED <<rec, host, parent, counts, doneIps>>
  ELSE /\ IF req.dry THEN UNCHANGED <<rec, host, parent>>
                     ELSE Vanishes(o)
       /\ counts' = [counts EXCEPT ![k] = @ + 1]
       /\ doneIps' = IF k = 3 THEN doneIps \cup {o} ELSE doneIps

\* delete_parent_ips, address by address
DeleteAddress(a) ==
  /\ pc = "addresses" /\ a \in addrs
  /\ Delete(3, a) /\ addrs' = addrs \ {a}
  /\ UNCHANGED <<fits, req, pc, kind, todo, copies, cur, plan, late, changes>>

\* The device or virtual machine itself
DeleteParent ==
  /\ pc = "addresses" /\ addrs = {}
  /\ Delete(kind, cur) /\ pc' = "each" /\ cur' = None
  /\ UNCHANGED <<fits, req, kind, todo, copies, addrs, plan, late, changes>>

\* An address or a cable of the list
DeleteListed(o) ==
  /\ Judge(o) /\ Matches(o, copies) /\ o \notin Parents
  /\ Delete(kind, o)
  /\ UNCHANGED <<fits, req, pc, kind, copies, cur, addrs, plan, late, changes>>

\* A call fails, of itself or because the object is gone or protected: the request
\* ends there, with what it has deleted
Raises ==
  /\ pc \in {"list", "each", "addresses"} /\ pc' = "failed"
  /\ todo' = {} /\ cur' = None /\ addrs' = {}
  /\ UNCHANGED <<netbox, req, kind, copies, counts, doneIps, plan>>

----------------------------------------------------------------------------
(* Others *)

Interfere ==
  /\ pc \notin {"done", "failed"}
  /\ changes < MaxChanges /\ changes' = changes + 1
  /\ UNCHANGED pass

\* A sync module documents a new address of a device or a virtual machine
AddAddress(a, o) ==
  /\ Interfere /\ rec[a] = "unborn" /\ Live(o)
  /\ rec' = [rec EXCEPT ![a] = "ours"] /\ parent' = [parent EXCEPT ![a] = o]
  /\ UNCHANGED <<host, late>>

\* What the pass has read and not handled yet
InHand(o) == o \in todo \cup addrs \cup {cur}

\* A person takes an object over by removing the managed tag
Adopt(o) ==
  /\ Interfere /\ rec[o] = "ours"
  /\ rec' = [rec EXCEPT ![o] = "human"]
  /\ late' = IF InHand(o) THEN late \cup {o} ELSE late
  /\ UNCHANGED <<host, parent>>

\* A sync module or a person deletes an object
Remove(o) ==
  /\ Interfere /\ Vanishes(o) /\ UNCHANGED late

\* A virtual machine migrates and the proxmox module says so
Migrate(v, d) ==
  /\ Interfere /\ Live(v) /\ Live(d) /\ host[v] # d
  /\ host' = [host EXCEPT ![v] = d] /\ UNCHANGED <<rec, parent, late>>

----------------------------------------------------------------------------
\* Any NetBox, any request: what is assigned or hosted is so by what exists
Init ==
  /\ rec \in [Objects -> {"unborn", "human", "ours"}]
  /\ \A o \in Objects \ Ips : rec[o] # "unborn"
  /\ fits \in SUBSET Objects /\ req \in Requests
  /\ host \in Hosts /\ parent \in Assignments /\ copies = [host |-> host, parent |-> parent]
  /\ \A a \in Ips : rec[a] = "unborn" => parent[a] = None
  /\ pc = "list" /\ kind = 1 /\ todo = {} /\ cur = None /\ addrs = {}
  /\ counts = [k \in 1..4 |-> 0] /\ doneIps = {}
  /\ plan = Planned /\ late = {} /\ changes = 0

Next ==
  \/ List \/ NextKind \/ DeleteParent \/ Raises
  \/ \E o \in Objects : Skip(o) \/ Take(o) \/ DeleteListed(o) \/ Adopt(o) \/ Remove(o)
  \/ \E a \in Ips : DeleteAddress(a) \/ \E o \in Parents : AddAddress(a, o)
  \/ \E v \in Vms, d \in Devices : Migrate(v, d)

Spec == Init /\ [][Next]_vars

----------------------------------------------------------------------------
(* Properties *)

\* An address that NetBox deletes with the device or virtual machine it hangs off
FallsWithItsParent(o) ==
  o \in Ips /\ parent[o] # None /\ Live(parent[o]) /\ rec'[parent[o]] = "gone"

\* "Human-created objects are never touched": whatever others write meanwhile, no
\* cleanup deletes an object that a person has, except what the person took over after
\* the cleanup had read it, and a person's address on a device or virtual machine of
\* ours, which NetBox may delete with it (cleanup.py:187-188 does not free it first).
HumansKept ==
  [][\A o \in Objects : rec[o] = "human" /\ rec'[o] = "gone" =>
       changes' # changes \/ o \in late \/ FallsWithItsParent(o)]_vars

\* A cleanup that nobody disturbs deletes what its filters selected when it began,
\* with the addresses of what it deletes, and counts each object once, whether it
\* meets an address through its parent or in the list; a preview counts the same.
\* (With a filter by site it may leave addresses of virtual machines.)
Ended == pc = "done" /\ changes = 0
Agreed(k) == counts[k] = Cardinality(plan \cap Kinds[k])
DoesWhatItShows ==
  Ended =>
    /\ Agreed(1) /\ Agreed(2) /\ Agreed(4)
    /\ req.dry \/ req.site = Any => Agreed(3)
    /\ req.dry => \A o \in Objects : rec[o] # "gone"
    /\ ~req.dry => \A o \in plan : \/ rec[o] = "gone"
                                   \/ req.site # Any /\ o \in Ips /\ parent[o] \in Vms

RealSite(o) ==
  LET of(x) == IF x \in Devices THEN Site[x]
               ELSE IF x \in Vms /\ host[x] # None THEN Site[host[x]] ELSE None
  IN IF o \in Ips THEN of(parent[o]) ELSE of(o)

\* "removes only that site ... other site untouched" (tests/test_cleanup.py): with a
\* filter by site, a cleanup that nobody disturbs deletes nothing of another site.
OtherSitesKept ==
  [][\A o \in Objects : rec[o] # "gone" /\ rec'[o] = "gone" /\ changes' = 0 =>
       req.site \in {Any, RealSite(o)}]_vars
=============================================================================
