----------------------------- MODULE CleanupProofs -----------------------------
(* Theorems about Cleanup, for any NetBox, any request and any number of changes *)
(* that others make meanwhile.                                                 *)
EXTENDS Cleanup, FiniteSetTheorems, TLAPS

LEMMA KindsAreObjects ==
  /\ \A k \in 1..4 : Kinds[k] \subseteq Objects
  /\ Kinds[3] = Ips
  BY DEF Kinds, Objects

LEMMA PlannedAreObjects == Planned \subseteq Objects
  BY KindsAreObjects DEF Planned, Objects

----------------------------------------------------------------------------
(* Types *)

LEMMA InitType == Init => TypeOK
  <1> SUFFICES ASSUME Init PROVE TypeOK
    OBVIOUS
  <1>1. plan \subseteq Objects
    BY PlannedAreObjects DEF Init
  <1>2. [k \in 1..4 |-> 0] \in [1..4 -> Nat]
    OBVIOUS
  <1> QED BY <1>1, <1>2, CleanupAssumption DEF Init, TypeOK

\* What one deletion leaves behind
LEMMA DeleteType ==
  ASSUME TypeOK, NEW k \in 1..4, NEW o \in Objects, k = 3 => o \in Ips, Delete(k, o)
  PROVE  /\ rec' \in [Objects -> {"unborn", "human", "ours", "gone"}]
         /\ host' \in Hosts /\ parent' \in Assignments
         /\ counts' \in [1..4 -> Nat] /\ doneIps' \subseteq Ips
  <1> USE DEF TypeOK
  <1>1. CASE Counted(o)
    BY <1>1 DEF Delete
  <1>2. CASE ~Counted(o)
    <2>1. counts' \in [1..4 -> Nat] /\ doneIps' \subseteq Ips
      BY <1>2 DEF Delete
    <2>2. CASE req.dry
      BY <1>2, <2>1, <2>2 DEF Delete
    <2>3. CASE ~req.dry
      BY <1>2, <2>1, <2>3 DEF Delete, Vanishes, Hosts, Assignments
    <2> QED BY <2>2, <2>3
  <1> QED BY <1>1, <1>2

LEMMA PassType ==
  ASSUME TypeOK,
         \/ List \/ NextKind \/ DeleteParent \/ Raises
         \/ \E o \in Objects : Skip(o) \/ Take(o) \/ DeleteListed(o)
         \/ \E a \in Ips : DeleteAddress(a)
  PROVE  TypeOK'
  <1> USE DEF TypeOK, netbox
  <1>1. CASE List
    BY <1>1, KindsAreObjects DEF List, Listed
  <1>2. CASE NextKind
    BY <1>2 DEF NextKind
  <1>3. CASE DeleteParent
    <2>1. cur \in Objects /\ kind \in 1..4
      BY <1>3 DEF DeleteParent, Parents, Objects
    <2>2. kind = 3 => cur \in Ips
      BY <1>3, KindsAreObjects DEF DeleteParent
    <2> QED BY <1>3, <2>1, <2>2, DeleteType DEF DeleteParent
  <1>4. CASE Raises
    BY <1>4 DEF Raises
  <1>5. ASSUME NEW o \in Objects, Skip(o) PROVE TypeOK'
    BY <1>5 DEF Skip, Judge
  <1>6. ASSUME NEW o \in Objects, Take(o) PROVE TypeOK'
    BY <1>6 DEF Take, Judge, AddressesOf
  <1>7. ASSUME NEW o \in Objects, DeleteListed(o) PROVE TypeOK'
    <2>1. kind \in 1..4 /\ (kind = 3 => o \in Ips)
      BY <1>7, KindsAreObjects DEF DeleteListed, Judge
    <2> QED BY <1>7, <2>1, DeleteType DEF DeleteListed, Judge
  <1>8. ASSUME NEW a \in Ips, DeleteAddress(a) PROVE TypeOK'
    <2>1. a \in Objects
      BY DEF Objects
    <2> QED BY <1>8, <2>1, DeleteType DEF DeleteAddress
  <1> QED BY <1>1, <1>2, <1>3, <1>4, <1>5, <1>6, <1>7, <1>8

LEMMA OthersType ==
  ASSUME TypeOK,
         \/ \E o \in Objects : Adopt(o) \/ Remove(o)
         \/ \E a \in Ips, o \in Parents : AddAddress(a, o)
         \/ \E v \in Vms, d \in Devices : Migrate(v, d)
  PROVE  TypeOK'
  <1> USE CleanupAssumption DEF TypeOK, Interfere, pass
  <1>1. ASSUME NEW o \in Objects, Adopt(o) PROVE TypeOK'
    BY <1>1 DEF Adopt
  <1>2. ASSUME NEW o \in Objects, Remove(o) PROVE TypeOK'
    BY <1>2 DEF Remove, Vanishes, Hosts, Assignments
  <1>3. ASSUME NEW a \in Ips, NEW o \in Parents, AddAddress(a, o) PROVE TypeOK'
    BY <1>3 DEF AddAddress, Assignments, Objects
  <1>4. ASSUME NEW v \in Vms, NEW d \in Devices, Migrate(v, d) PROVE TypeOK'
    BY <1>4 DEF Migrate, Hosts
  <1> QED BY <1>1, <1>2, <1>3, <1>4

LEMMA NextType == TypeOK /\ [Next]_vars => TypeOK'
  <1> SUFFICES ASSUME TypeOK, [Next]_vars PROVE TypeOK'
    OBVIOUS
  <1>1. CASE UNCHANGED vars
    BY <1>1 DEF vars, TypeOK
  <1> QED BY <1>1, PassType, OthersType DEF Next

\* The variables of Cleanup have their types; in particular what is left to handle
\* is of the kind at hand (delete_managed has one loop per kind).
THEOREM TypeCorrect == Spec => []TypeOK
  BY InitType, NextType, PTL DEF Spec

----------------------------------------------------------------------------
(* People's objects *)

\* What the pass has in hand was ours when it read it
HandIsOurs == \A o \in Objects : InHand(o) => rec[o] \in {"ours", "gone"} \/ o \in late

\* A person's object that goes all the same went late or with its parent
Spared(o) == rec[o] = "human" /\ rec'[o] = "gone" => o \in late \/ FallsWithItsParent(o)

\* An address that goes with object o
GoesWith(x, o) ==
  x \in Ips /\ parent[x] = o /\ Live(x) /\ Live(o) /\ rec'[x] = "gone" /\ rec'[o] = "gone"

\* One deletion leaves every object as it is but this one and addresses assigned to it
LEMMA DeleteOne ==
  ASSUME TypeOK, NEW k \in 1..4, NEW o \in Objects, Delete(k, o)
  PROVE  \A x \in Objects : \/ rec'[x] = rec[x] \/ (x = o /\ rec'[x] = "gone")
                            \/ GoesWith(x, o)
  BY DEF Delete, Vanishes, TypeOK, GoesWith

LEMMA DeleteSpares ==
  ASSUME TypeOK, HandIsOurs, NEW k \in 1..4, NEW o \in Objects, InHand(o), Delete(k, o)
  PROVE  /\ \A x \in Objects : Spared(x)
         /\ \A x \in Objects : rec'[x] \in {rec[x], "gone"}
  <1>1. o # None /\ (rec[o] = "human" => o \in late)
    BY CleanupAssumption DEF HandIsOurs
  <1>2. ASSUME NEW x \in Objects
        PROVE  Spared(x) /\ rec'[x] \in {rec[x], "gone"}
    <2>1. CASE rec'[x] = rec[x]
      BY <2>1 DEF Spared
    <2>2. CASE x = o /\ rec'[x] = "gone"
      BY <1>1, <2>2 DEF Spared
    <2>3. CASE GoesWith(x, o)
      BY <1>1, <2>3 DEF Spared, GoesWith, FallsWithItsParent
    <2> QED BY <2>1, <2>2, <2>3, DeleteOne
  <1> QED BY <1>2

LEMMA PassKeepsHand ==
  ASSUME TypeOK, HandIsOurs,
         \/ List \/ NextKind \/ DeleteParent \/ Raises
         \/ \E o \in Objects : Skip(o) \/ Take(o) \/ DeleteListed(o)
         \/ \E a \in Ips : DeleteAddress(a)
  PROVE  /\ HandIsOurs'
         /\ \A x \in Objects : Spared(x)
  <1> USE DEF HandIsOurs, InHand, netbox
  <1>0. None \notin Objects
    BY CleanupAssumption
  <1>1. CASE List
    BY <1>1, KindsAreObjects DEF List, Listed, Spared
  <1>2. CASE NextKind
    BY <1>2 DEF NextKind, Spared
  <1>3. CASE DeleteParent
    <2>1. cur \in Objects /\ kind \in 1..4
      BY <1>3 DEF DeleteParent, TypeOK, Parents, Objects
    <2>2. /\ \A x \in Objects : Spared(x)
          /\ \A x \in Objects : rec'[x] \in {rec[x], "gone"}
      BY <1>3, <2>1, DeleteSpares DEF DeleteParent
    <2> QED BY <1>0, <1>3, <2>1, <2>2 DEF DeleteParent
  <1>4. CASE Raises
    BY <1>0, <1>4 DEF Raises, Spared
  <1>5. ASSUME NEW o \in Objects, Skip(o)
        PROVE  HandIsOurs' /\ \A x \in Objects : Spared(x)
    BY <1>5 DEF Skip, Judge, Spared
  <1>6. ASSUME NEW o \in Objects, Take(o)
        PROVE  HandIsOurs' /\ \A x \in Objects : Spared(x)
    BY <1>6 DEF Take, Judge, AddressesOf, Spared
  <1>7. ASSUME NEW o \in Objects, DeleteListed(o)
        PROVE  /\ HandIsOurs'
               /\ \A x \in Objects : Spared(x)
    <2>1. kind \in 1..4
      BY <1>7 DEF DeleteListed, Judge, TypeOK
    <2>2. /\ \A x \in Objects : Spared(x)
          /\ \A x \in Objects : rec'[x] \in {rec[x], "gone"}
      BY <1>7, <2>1, DeleteSpares DEF DeleteListed, Judge
    <2> QED BY <1>7, <2>2 DEF DeleteListed, Judge
  <1>8. ASSUME NEW a \in Ips, DeleteAddress(a)
        PROVE  /\ HandIsOurs'
               /\ \A x \in Objects : Spared(x)
    <2>1. a \in Objects
      BY DEF Objects
    <2>2. /\ \A x \in Objects : Spared(x)
          /\ \A x \in Objects : rec'[x] \in {rec[x], "gone"}
      BY <1>8, <2>1, DeleteSpares DEF DeleteAddress
    <2> QED BY <1>8, <2>1, <2>2 DEF DeleteAddress
  <1> QED BY <1>1, <1>2, <1>3, <1>4, <1>5, <1>6, <1>7, <1>8

LEMMA OthersKeepHand ==
  ASSUME TypeOK, HandIsOurs,
         \/ \E o \in Objects : Adopt(o) \/ Remove(o)
         \/ \E a \in Ips, o \in Parents : AddAddress(a, o)
         \/ \E v \in Vms, d \in Devices : Migrate(v, d)
  PROVE  HandIsOurs' /\ changes' # changes
  <1> USE DEF TypeOK, HandIsOurs, InHand, Interfere, pass
  <1>0. changes' = changes + 1 => changes' # changes
    OBVIOUS
  <1>1. ASSUME NEW o \in Objects, Adopt(o) PROVE HandIsOurs' /\ changes' # changes
    BY <1>0, <1>1 DEF Adopt
  <1>2. ASSUME NEW o \in Objects, Remove(o) PROVE HandIsOurs' /\ changes' # changes
    BY <1>0, <1>2 DEF Remove, Vanishes
  <1>3. ASSUME NEW a \in Ips, NEW o \in Parents, AddAddress(a, o)
        PROVE  HandIsOurs' /\ changes' # changes
    BY <1>0, <1>3 DEF AddAddress
  <1>4. ASSUME NEW v \in Vms, NEW d \in Devices, Migrate(v, d)
        PROVE  HandIsOurs' /\ changes' # changes
    BY <1>0, <1>4 DEF Migrate
  <1> QED BY <1>1, <1>2, <1>3, <1>4

\* "Human-created objects are never touched": for any NetBox, no cleanup deletes what
\* a person has, except what the person took over after the cleanup had read it, and an
\* address that NetBox deletes with the device or virtual machine it hangs off.
THEOREM PeopleKeepTheirs == Spec => HumansKept
  <1>1. Init => HandIsOurs
    BY CleanupAssumption DEF Init, HandIsOurs, InHand
  <1>2. TypeOK /\ HandIsOurs /\ [Next]_vars =>
          /\ HandIsOurs'
          /\ [\A o \in Objects : rec[o] = "human" /\ rec'[o] = "gone" =>
                changes' # changes \/ o \in late \/ FallsWithItsParent(o)]_vars
    <2> SUFFICES ASSUME TypeOK, HandIsOurs, [Next]_vars
                 PROVE  /\ HandIsOurs'
                        /\ [\A o \in Objects : rec[o] = "human" /\ rec'[o] = "gone" =>
                              changes' # changes \/ o \in late \/ FallsWithItsParent(o)]_vars
      OBVIOUS
    <2>1. CASE UNCHANGED vars
      BY <2>1 DEF vars, HandIsOurs, InHand
    <2> QED BY <2>1, PassKeepsHand, OthersKeepHand DEF Next, Spared
  <1> QED BY <1>1, <1>2, TypeCorrect, PTL DEF Spec, HumansKept

----------------------------------------------------------------------------
(****************************************************************************)
(* A cleanup does what its preview shows.                                   *)
(*                                                                          *)
(* As long as nobody disturbs it, the plan is known at every moment from    *)
(* NetBox as it stands (PlanIsKnown), what has been counted and deleted is  *)
(* what of the plan is not left (Counts, Deletes), and an address of the    *)
(* plan that has not been handled is yet to be met, through its parent or   *)
(* in the list (Pending).                                                   *)
(****************************************************************************)

\* The site an address's parent is taken to be of, before any device is deleted
Home(p) ==
  LET found == {d \in Devices : p # None /\ Num[d] = Num[p]}
  IN IF found = {} THEN None ELSE Site[CHOOSE d \in found : TRUE]

Fits(a) == a \in fits /\ req.site \in {Any, Home(parent[a])}

\* The kinds that have one list and no cascade
Plain == {1, 2, 4}

\* What of the plan is still to be handled, by kind
Left(k) == {o \in plan \cap Kinds[k] : \/ k > kind
                                       \/ k = kind /\ (pc = "list" \/ o \in todo \cup {cur})}

\* Address a may be missed: the device with its virtual machine's id is gone
Missable(a) == ~req.dry /\ req.site # Any /\ parent[a] \in Vms

Position ==
  /\ pc = "done" => kind = 5
  /\ pc \notin {"each", "addresses"} => todo = {}
  /\ pc # "addresses" => cur = None /\ addrs = {}
  /\ pc = "addresses" => cur \in plan \ todo
  /\ todo # {} => Selected(kind)
  /\ copies.host = host /\ (pc = "each" /\ kind = 3 => copies.parent = parent)

PlanIsKnown ==
  /\ \A k \in Plain : \A o \in Kinds[k] :
       o \in plan <=> rec[o] \in {"ours", "gone"} /\ Selected(k) /\ Matches(o, copies)
  /\ \A a \in Ips : rec[a] = "ours" =>
       (a \in plan <=> (Selected(3) /\ Fits(a)) \/ parent[a] \in plan)

HandIsOnPlan ==
  /\ \A o \in Objects : InHand(o) => rec[o] = "ours"
  /\ addrs \cup doneIps \subseteq plan
  /\ \A a \in Ips : pc = "addresses" /\ rec[a] = "ours" /\ parent[a] = cur => a \in addrs \cup doneIps

ParentsLive ==
  /\ \A a \in Ips : parent[a] # None => Live(parent[a])
  /\ \A o \in Objects \ Ips : rec[o] # "unborn"

Deletes ==
  /\ \A a \in Ips : rec[a] = "gone" => ~req.dry
  /\ \A a \in plan \cap Ips : rec[a] = "gone" <=> ~req.dry /\ a \in doneIps
  /\ \A k \in Plain : \A o \in Kinds[k] : rec[o] = "gone" <=> ~req.dry /\ o \in plan \ Left(k)

Counts ==
  /\ counts[3] = Cardinality(doneIps)
  /\ \A k \in Plain : counts[k] = Cardinality((plan \cap Kinds[k]) \ Left(k))

Pending ==
  \A a \in (plan \cap Ips) \ doneIps :
    /\ rec[a] = "ours"
    /\ \/ a \in addrs
       \/ parent[a] \in (Left(1) \cup Left(2)) \ {cur}
       \/ Selected(3) /\ Fits(a) /\ (kind < 3 \/ (kind = 3 /\ (pc = "list" \/ a \in todo)))
       \/ Missable(a)

Exact == Position /\ PlanIsKnown /\ HandIsOnPlan /\ ParentsLive /\ Deletes /\ Counts /\ Pending

Undisturbed == changes = 0 /\ pc # "failed" => Exact

LEMMA KindsApart ==
  /\ Kinds[1] = Devices /\ Kinds[2] = Vms /\ Kinds[3] = Ips /\ Kinds[4] = Cables
  /\ Parents = Kinds[1] \cup Kinds[2] /\ Objects = Parents \cup Ips \cup Cables
  /\ \A j, k \in 1..4 : j # k => Kinds[j] \cap Kinds[k] = {}
  /\ None \notin Objects /\ Plain \subseteq 1..4 /\ 3 \notin Plain
  /\ \A k \in 1..4 : k = 3 \/ k \in Plain
  /\ \A k \in Plain : Kinds[k] \cap Ips = {}
  <1>1. /\ Kinds[1] = Devices /\ Kinds[2] = Vms /\ Kinds[3] = Ips /\ Kinds[4] = Cables
    BY DEF Kinds
  <1>2. Parents = Devices \cup Vms /\ Objects = Parents \cup Ips \cup Cables
    BY DEF Parents, Objects
  <1>3. /\ Devices \cap Vms = {} /\ Devices \cap Ips = {} /\ Devices \cap Cables = {}
        /\ Vms \cap Ips = {} /\ Vms \cap Cables = {} /\ Ips \cap Cables = {}
        /\ None \notin Objects
    BY CleanupAssumption
  <1>4. ASSUME NEW j \in 1..4, NEW k \in 1..4, j # k PROVE Kinds[j] \cap Kinds[k] = {}
    <2>1. (j = 1 \/ j = 2 \/ j = 3 \/ j = 4) /\ (k = 1 \/ k = 2 \/ k = 3 \/ k = 4)
      OBVIOUS
    <2> QED BY <1>1, <1>3, <1>4, <2>1
  <1>5. Plain \subseteq 1..4 /\ 3 \notin Plain /\ \A k \in 1..4 : k = 3 \/ k \in Plain
    BY DEF Plain
  <1>6. \A k \in Plain : Kinds[k] \cap Ips = {}
    BY <1>1, <1>4, <1>5
  <1> QED BY <1>1, <1>2, <1>3, <1>4, <1>5, <1>6

\* As the devices come and go, the site of a parent is the one of before or none.
LEMMA SiteAgrees ==
  ASSUME NEW p \in Parents \cup {None}
  PROVE  /\ SiteOfAddress(p) \in {Home(p), None}
         /\ \/ SiteOfAddress(p) = Home(p)
            \/ p # None /\ \E d \in Devices : Num[d] = Num[p] /\ ~Live(d)
  <1> DEFINE all == {d \in Devices : p # None /\ Num[d] = Num[p]}
             found == {d \in Devices : Live(d) /\ p # None /\ Num[d] = Num[p]}
  <1>1. \A d, e \in all : d = e
    BY CleanupAssumption
  <1>2. found = {} \/ found = all
    BY <1>1
  <1>3. found = all \/ (p # None /\ \E d \in Devices : Num[d] = Num[p] /\ ~Live(d))
    OBVIOUS
  <1>4. SiteOfAddress(p) = IF found = {} THEN None ELSE Site[CHOOSE d \in found : TRUE]
    BY DEF SiteOfAddress
  <1>5. Home(p) = IF all = {} THEN None ELSE Site[CHOOSE d \in all : TRUE]
    BY DEF Home
  <1> HIDE DEF all, found
  <1> QED BY <1>2, <1>3, <1>4, <1>5

\* What the filters make of an object that is no address does not depend on NetBox.
LEMMA MatchesSame ==
  ASSUME NEW k \in Plain, NEW o \in Kinds[k], NEW c, NEW d, c.host = d.host
  PROVE  Matches(o, c) = Matches(o, d)
  <1>1. o \notin Ips
    BY KindsApart
  <1>2. SiteOf(o, c) = SiteOf(o, d)
    BY <1>1 DEF SiteOf
  <1> QED BY <1>2 DEF Matches

\* An address that the filters let through fits; one that fits and is not let through
\* is one of those that may be missed.
LEMMA FitsOrMissed ==
  ASSUME TypeOK, ParentsLive, Deletes, NEW a \in Ips, NEW c, c.parent = parent
  PROVE  /\ Matches(a, c) => Fits(a)
         /\ Fits(a) => Matches(a, c) \/ Missable(a)
  <1>1. parent[a] \in Parents \cup {None}
    BY DEF TypeOK, Assignments
  <1>2. SiteOf(a, c) = SiteOfAddress(parent[a])
    BY KindsApart DEF SiteOf
  <1>3. req.site # None
    BY CleanupAssumption DEF TypeOK
  <1>4. Matches(a, c) => Fits(a)
    BY <1>1, <1>2, <1>3, SiteAgrees DEF Matches, Fits
  <1>5. ASSUME Fits(a), ~Matches(a, c) PROVE Missable(a)
    <2>1. req.site # Any /\ SiteOfAddress(parent[a]) # Home(parent[a])
      BY <1>2, <1>5 DEF Matches, Fits
    <2>2. PICK d \in Devices : parent[a] # None /\ Num[d] = Num[parent[a]] /\ ~Live(d)
      BY <1>1, <2>1, SiteAgrees
    <2>3. rec[d] = "gone"
      BY <2>2, KindsApart DEF Live, ParentsLive, TypeOK
    <2>4. ~req.dry
      BY <2>3, KindsApart DEF Deletes, Plain
    <2>5. parent[a] \notin Devices
      BY <2>2, CleanupAssumption DEF ParentsLive
    <2> QED BY <1>1, <2>1, <2>2, <2>4, <2>5 DEF Missable, Parents
  <1> QED BY <1>4, <1>5

LEMMA InitExact == Init => Exact
  <1> SUFFICES ASSUME Init PROVE Exact
    OBVIOUS
  <1>0. TypeOK
    BY InitType
  <1> DEFINE now == [host |-> host, parent |-> parent]
             matched == UNION {{o \in Kinds[k] : rec[o] = "ours" /\ Matches(o, now)} :
                                 k \in {j \in 1..4 : Selected(j)}}
  <1>1. /\ pc = "list" /\ kind = 1 /\ todo = {} /\ cur = None /\ addrs = {} /\ doneIps = {}
        /\ counts = [k \in 1..4 |-> 0] /\ copies = now /\ plan = Planned
        /\ \A o \in Objects : rec[o] \in {"unborn", "human", "ours"}
    BY DEF Init
  <1>2. plan = matched \cup {a \in Ips : rec[a] = "ours" /\ parent[a] \in matched}
    BY <1>1 DEF Planned
  <1>3. \A k \in 1..4 : \A o \in Kinds[k] :
          o \in matched <=> rec[o] = "ours" /\ Selected(k) /\ Matches(o, now)
    BY KindsApart
  <1> HIDE DEF matched
  <1>4. ParentsLive
    <2>1. \A o \in Objects \ Ips : rec[o] \in {"human", "ours"}
      BY <1>1 DEF Init
    <2>2. \A a \in Ips : parent[a] \in Parents \cup {None}
      BY <1>0 DEF TypeOK, Assignments
    <2> QED BY <2>1, <2>2, KindsApart DEF ParentsLive, Live
  <1>5. PlanIsKnown
    <2>1. ASSUME NEW k \in Plain, NEW o \in Kinds[k]
          PROVE  o \in plan <=> rec[o] \in {"ours", "gone"} /\ Selected(k) /\ Matches(o, copies)
      <3>1. k \in 1..4 /\ o \notin Ips /\ o \in Objects
        BY KindsApart, KindsAreObjects
      <3> QED BY <1>1, <1>2, <1>3, <3>1
    <2>2. ASSUME NEW a \in Ips, rec[a] = "ours"
          PROVE  a \in plan <=> (Selected(3) /\ Fits(a)) \/ parent[a] \in plan
      <3>1. parent[a] \in Parents \cup {None}
        BY <1>0 DEF TypeOK, Assignments
      <3>2. \A d \in Devices : Live(d)
        BY <1>1, KindsApart DEF Live, Init
      <3>3. SiteOf(a, now) = Home(parent[a])
        BY <3>1, <3>2, SiteAgrees, KindsApart DEF SiteOf
      <3>4. Matches(a, now) <=> Fits(a)
        BY <3>3 DEF Matches, Fits
      <3>5. parent[a] \notin Ips
        BY <3>1, KindsApart
      <3>6. a \in matched <=> Selected(3) /\ Matches(a, now)
        BY <1>3, <2>2, KindsApart
      <3>7. parent[a] \in plan <=> parent[a] \in matched
        BY <1>2, <3>5
      <3> QED BY <1>2, <2>2, <3>4, <3>6, <3>7
    <2> QED BY <2>1, <2>2 DEF PlanIsKnown
  <1>6. \A k \in 1..4 : Left(k) = plan \cap Kinds[k]
    BY <1>1 DEF Left
  <1>7. Position
    BY <1>1 DEF Position
  <1>8. HandIsOnPlan
    BY <1>1, KindsApart DEF HandIsOnPlan, InHand
  <1>9. Deletes
    BY <1>1, <1>6, KindsApart, KindsAreObjects DEF Deletes
  <1>10. Counts
    <2>1. Cardinality({}) = 0
      BY FS_EmptySet
    <2>2. \A k \in Plain : (plan \cap Kinds[k]) \ Left(k) = {} /\ counts[k] = 0
      BY <1>1, <1>6, KindsApart
    <2>3. counts[3] = 0
      BY <1>1
    <2> QED BY <1>1, <2>1, <2>2, <2>3 DEF Counts
  <1>11. Pending
    <2> SUFFICES ASSUME NEW a \in (plan \cap Ips) \ doneIps
                 PROVE  /\ rec[a] = "ours"
                        /\ \/ parent[a] \in (Left(1) \cup Left(2)) \ {cur}
                           \/ Selected(3) /\ Fits(a) /\ kind < 3
      BY DEF Pending
    <2>1. rec[a] = "ours"
      BY <1>2, <1>3, KindsApart
    <2>2. (Selected(3) /\ Fits(a)) \/ parent[a] \in plan
      BY <1>5, <2>1 DEF PlanIsKnown
    <2>3. parent[a] \in plan => parent[a] \in (Left(1) \cup Left(2)) \ {cur}
      <3>1. parent[a] \in Parents \cup {None} /\ plan \subseteq Objects
        BY <1>0 DEF TypeOK, Assignments
      <3> QED BY <1>1, <1>6, <3>1, KindsApart
    <2> QED BY <1>1, <2>1, <2>2, <2>3
  <1> QED BY <1>4, <1>5, <1>7, <1>8, <1>9, <1>10, <1>11 DEF Exact

\* What one deletion does to NetBox and to the counts
LEMMA DeleteExactly ==
  ASSUME TypeOK, NEW k \in 1..4, NEW o \in Objects, Delete(k, o), ~Counted(o)
  PROVE  /\ \E lost \in SUBSET {a \in Ips : Live(a) /\ parent[a] = o} :
              rec' = IF req.dry THEN rec
                     ELSE [x \in Objects |-> IF x \in lost \cup {o} THEN "gone" ELSE rec[x]]
         /\ parent' = IF req.dry THEN parent
                      ELSE [a \in Ips |-> IF parent[a] = o THEN None ELSE parent[a]]
         /\ host' = host /\ counts' = [counts EXCEPT ![k] = @ + 1]
         /\ doneIps' = IF k = 3 THEN doneIps \cup {o} ELSE doneIps
  BY DEF Delete, Vanishes

\* Steps that delete nothing and leave nothing of the plan behind
LEMMA NothingDeleted ==
  ASSUME Exact, UNCHANGED <<rec, fits, host, parent, req, counts, doneIps, plan>>,
         copies'.host = copies.host, \A k \in Plain : Left(k)' = Left(k)
  PROVE  PlanIsKnown' /\ ParentsLive' /\ Deletes' /\ Counts'
  <1>1. ParentsLive'
    BY DEF Exact, ParentsLive, Live
  <1>2. Deletes' /\ Counts'
    BY DEF Exact, Deletes, Counts
  <1>3. \A k \in 1..4 : Selected(k)' = Selected(k)
    BY DEF Selected
  <1>4. \A a \in Ips : Fits(a)' = Fits(a)
    BY DEF Fits
  <1>5. \A k \in Plain : \A o \in Kinds[k] : Matches(o, copies)' = Matches(o, copies)
    <2>1. \A k \in Plain : \A o \in Kinds[k] : Matches(o, copies)' = Matches(o, copies')
      BY KindsApart DEF Matches, SiteOf
    <2> QED BY <2>1, MatchesSame
  <1>6. PlanIsKnown'
    BY <1>3, <1>4, <1>5, KindsApart DEF Exact, PlanIsKnown
  <1> QED BY <1>1, <1>2, <1>6

LEMMA ListExact == ASSUME TypeOK, Exact, List PROVE Exact'
  <1>0. /\ pc = "list" /\ pc' = "each" /\ todo' = Listed /\ kind \in 1..4
        /\ cur = None /\ addrs = {} /\ todo = {}
        /\ copies'.host = host /\ copies'.parent = parent /\ copies.host = host
        /\ UNCHANGED <<rec, fits, host, parent, req, kind, cur, addrs, counts, doneIps, plan>>
    BY DEF List, netbox, TypeOK, Exact, Position
  <1>1. \A o \in Kinds[kind] : kind \in Plain /\ o \in plan => o \in Listed
    <2> SUFFICES ASSUME NEW o \in Kinds[kind], kind \in Plain, o \in plan PROVE o \in Listed
      OBVIOUS
    <2>1. o \in Left(kind)
      BY <1>0 DEF Left
    <2>2. rec[o] \in {"ours", "gone"} /\ Selected(kind)
      BY DEF Exact, PlanIsKnown
    <2>3. rec[o] # "gone"
      BY <2>1 DEF Exact, Deletes
    <2> QED BY <2>2, <2>3 DEF Listed
  <1>2. \A k \in Plain : Left(k)' = Left(k)
    BY <1>0, <1>1 DEF Left
  <1>3. PlanIsKnown' /\ ParentsLive' /\ Deletes' /\ Counts'
    BY <1>0, <1>2, NothingDeleted
  <1>4. Position'
    BY <1>0 DEF Position, Listed, Selected
  <1>5. HandIsOnPlan'
    BY <1>0, KindsApart DEF Exact, HandIsOnPlan, InHand, Listed
  <1>6. Pending'
    <2> SUFFICES ASSUME NEW a \in (plan \cap Ips) \ doneIps
                 PROVE  /\ rec[a] = "ours"
                        /\ \/ parent[a] \in (Left(1) \cup Left(2)) \ {cur}
                           \/ Selected(3) /\ Fits(a) /\ (kind < 3 \/ (kind = 3 /\ a \in Listed))
                           \/ Missable(a)
      BY <1>0, <1>2 DEF Pending, Fits, Missable, Selected, Plain
    <2>1. /\ rec[a] = "ours"
          /\ \/ parent[a] \in (Left(1) \cup Left(2)) \ {cur}
             \/ Selected(3) /\ Fits(a) /\ (kind < 3 \/ kind = 3)
             \/ Missable(a)
      BY <1>0 DEF Exact, Pending
    <2>2. kind = 3 /\ Selected(3) => a \in Listed
      BY <2>1, KindsApart DEF Listed
    <2> QED BY <2>1, <2>2
  <1> QED BY <1>3, <1>4, <1>5, <1>6 DEF Exact

LEMMA NextKindExact == ASSUME TypeOK, Exact, NextKind PROVE Exact'
  <1>0. /\ pc = "each" /\ todo = {} /\ cur = None /\ addrs = {} /\ kind \in 1..4
        /\ kind' = kind + 1 /\ pc' = IF kind = 4 THEN "done" ELSE "list"
        /\ UNCHANGED <<rec, fits, host, parent, req, todo, copies, cur, addrs, counts, doneIps, plan>>
    BY DEF NextKind, netbox, TypeOK, Exact, Position
  <1>1. \A k \in Plain : \A o \in plan \cap Kinds[k] : o \in Objects /\ o # None
    BY KindsApart, KindsAreObjects
  <1>2. \A k \in Plain : Left(k)' = Left(k)
    <2> SUFFICES ASSUME NEW k \in Plain PROVE Left(k)' = Left(k)
      OBVIOUS
    <2>1. k \in 1..4
      BY KindsApart
    <2>2. CASE kind = 4
      BY <1>0, <1>1, <2>1, <2>2 DEF Left
    <2>3. CASE kind # 4
      BY <1>0, <1>1, <2>1, <2>3 DEF Left
    <2> QED BY <2>2, <2>3
  <1>3. PlanIsKnown' /\ ParentsLive' /\ Deletes' /\ Counts'
    BY <1>0, <1>2, NothingDeleted
  <1>4. Position'
    BY <1>0 DEF Exact, Position
  <1>5. HandIsOnPlan'
    BY <1>0 DEF Exact, HandIsOnPlan, InHand
  <1>6. Pending'
    <2> SUFFICES ASSUME NEW a \in (plan \cap Ips) \ doneIps
                 PROVE  /\ rec[a] = "ours"
                        /\ \/ parent[a] \in (Left(1) \cup Left(2)) \ {cur}
                           \/ Selected(3) /\ Fits(a) /\ kind + 1 \in {2, 3}
                           \/ Missable(a)
      BY <1>0, <1>2 DEF Pending, Fits, Missable, Selected, Plain
    <2> QED BY <1>0 DEF Exact, Pending
  <1> QED BY <1>3, <1>4, <1>5, <1>6 DEF Exact

LEMMA SkipExact == ASSUME TypeOK, Exact, NEW o \in Objects, Skip(o) PROVE Exact'
  <1>0. /\ pc = "each" /\ o \in todo /\ todo' = todo \ {o} /\ ~Matches(o, copies)
        /\ kind \in 1..4 /\ o \in Kinds[kind] /\ cur = None /\ addrs = {} /\ copies.host = host
        /\ UNCHANGED <<rec, fits, host, parent, req, pc, kind, copies, cur, addrs, counts, doneIps, plan>>
    BY DEF Skip, Judge, netbox, TypeOK, Exact, Position
  <1>1. kind \in Plain => o \notin plan
    BY <1>0 DEF Exact, PlanIsKnown
  <1>2. \A k \in Plain : Left(k)' = Left(k)
    BY <1>0, <1>1, KindsApart DEF Left
  <1>3. PlanIsKnown' /\ ParentsLive' /\ Deletes' /\ Counts'
    BY <1>0, <1>2, NothingDeleted
  <1>4. Position'
    BY <1>0 DEF Exact, Position, Selected
  <1>5. HandIsOnPlan'
    BY <1>0 DEF Exact, HandIsOnPlan, InHand
  <1>6. Pending'
    <2> SUFFICES ASSUME NEW a \in (plan \cap Ips) \ doneIps
                 PROVE  /\ rec[a] = "ours"
                        /\ \/ parent[a] \in (Left(1) \cup Left(2)) \ {cur}
                           \/ Selected(3) /\ Fits(a) /\ (kind < 3 \/ (kind = 3 /\ a \in todo'))
                           \/ Missable(a)
      BY <1>0, <1>2 DEF Pending, Fits, Missable, Selected, Plain
    <2>1. kind = 3 /\ a = o /\ Fits(a) => Missable(a)
      <3>1. kind = 3 => copies.parent = parent
        BY <1>0 DEF Exact, Position
      <3> QED BY <1>0, <3>1, FitsOrMissed DEF Exact
    <2>2. /\ rec[a] = "ours"
          /\ \/ parent[a] \in (Left(1) \cup Left(2)) \ {cur}
             \/ Selected(3) /\ Fits(a) /\ (kind < 3 \/ (kind = 3 /\ a \in todo))
             \/ Missable(a)
      BY <1>0 DEF Exact, Pending
    <2> QED BY <1>0, <2>1, <2>2
  <1> QED BY <1>3, <1>4, <1>5, <1>6 DEF Exact

LEMMA TakeExact == ASSUME TypeOK, Exact, NEW o \in Objects, Take(o) PROVE Exact'
  <1>0. /\ pc = "each" /\ pc' = "addresses" /\ o \in todo /\ todo' = todo \ {o} /\ Matches(o, copies)
        /\ kind \in 1..4 /\ o \in Kinds[kind] /\ o \in Parents /\ cur = None /\ addrs = {}
        /\ cur' = o /\ addrs' = AddressesOf(o) /\ copies.host = host
        /\ UNCHANGED <<rec, fits, host, parent, req, kind, copies, counts, doneIps, plan>>
    BY DEF Take, Judge, netbox, TypeOK, Exact, Position
  <1>1. kind \in Plain /\ rec[o] = "ours" /\ Selected(kind) /\ o \notin Ips /\ o # None
    BY <1>0, KindsApart DEF Exact, Position, HandIsOnPlan, InHand
  <1>2. o \in plan
    BY <1>0, <1>1 DEF Exact, PlanIsKnown
  <1>3. \A k \in Plain : Left(k)' = Left(k)
    BY <1>0, KindsApart DEF Left
  <1>4. PlanIsKnown' /\ ParentsLive' /\ Deletes' /\ Counts'
    BY <1>0, <1>3, NothingDeleted
  <1>5. Position'
    BY <1>0, <1>1, <1>2 DEF Exact, Position, Selected
  <1>6. AddressesOf(o) = {a \in Ips : rec[a] = "ours" /\ parent[a] = o}
    BY DEF AddressesOf
  <1>7. HandIsOnPlan'
    <2>1. AddressesOf(o) \subseteq plan
      BY <1>2, <1>6 DEF Exact, PlanIsKnown
    <2> QED BY <1>0, <1>1, <1>6, <2>1 DEF Exact, HandIsOnPlan, InHand
  <1>8. Pending'
    <2> SUFFICES ASSUME NEW a \in (plan \cap Ips) \ doneIps
                 PROVE  /\ rec[a] = "ours"
                        /\ \/ a \in AddressesOf(o)
                           \/ parent[a] \in (Left(1) \cup Left(2)) \ {o}
                           \/ Selected(3) /\ Fits(a) /\ kind < 3
                           \/ Missable(a)
      BY <1>0, <1>3 DEF Pending, Fits, Missable, Selected, Plain
    <2>1. kind # 3
      BY <1>1, KindsApart
    <2> QED BY <1>0, <1>6, <2>1 DEF Exact, Pending
  <1> QED BY <1>4, <1>5, <1>7, <1>8 DEF Exact

\* The deletion of an object of the plan to which none of our addresses is assigned
LEMMA OneDeleted ==
  ASSUME TypeOK, Exact, NEW k \in 1..4, NEW o \in plan \cap Kinds[k], Delete(k, o), ~Counted(o),
         rec[o] = "ours", k \in Plain => o \in Left(k),
         UNCHANGED <<fits, req, copies, plan>>,
         \A j \in Plain : Left(j)' = Left(j) \ {o},
         \A a \in Ips : rec[a] = "ours" /\ parent[a] = o => req.dry
  PROVE  /\ PlanIsKnown' /\ ParentsLive' /\ Deletes' /\ Counts'
         /\ \A x \in Objects : x # o /\ rec[x] = "ours" => rec'[x] = "ours"
         /\ \A a \in Ips : rec'[a] = "ours" => parent'[a] = parent[a] /\ rec[a] = "ours"
         /\ doneIps' = IF k = 3 THEN doneIps \cup {o} ELSE doneIps
         /\ host' = host /\ (o \notin Parents => parent' = parent)
  <1>1. o \in Objects /\ o # None
    BY KindsAreObjects, KindsApart
  <1>2. PICK lost \in SUBSET {a \in Ips : Live(a) /\ parent[a] = o} :
        /\ rec' = IF req.dry THEN rec
                  ELSE [x \in Objects |-> IF x \in lost \cup {o} THEN "gone" ELSE rec[x]]
        /\ parent' = IF req.dry THEN parent
                     ELSE [a \in Ips |-> IF parent[a] = o THEN None ELSE parent[a]]
        /\ host' = host /\ counts' = [counts EXCEPT ![k] = @ + 1]
        /\ doneIps' = IF k = 3 THEN doneIps \cup {o} ELSE doneIps
    BY <1>1, DeleteExactly
  <1>12. ~req.dry => \A a \in lost : rec[a] = "human" /\ a \notin plan
    <2> SUFFICES ASSUME ~req.dry, NEW a \in lost PROVE rec[a] = "human" /\ a \notin plan
      OBVIOUS
    <2>1. rec[a] = "human" /\ a \in Ips
      BY DEF Live
    <2> QED BY <2>1 DEF Exact, Pending, Deletes
  <1>13. \A x \in Objects : rec'[x] = IF x \in lost \cup {o} /\ ~req.dry THEN "gone" ELSE rec[x]
    BY <1>2 DEF TypeOK
  <1>3. /\ \A x \in Objects : x = o \/ rec[x] # "human" \/ x \notin Ips =>
             rec'[x] = IF x = o /\ ~req.dry THEN "gone" ELSE rec[x]
        /\ \A x \in Objects : rec'[x] # rec[x] => ~req.dry /\ rec'[x] = "gone"
        /\ \A x \in Objects : x \in plan =>
             rec'[x] = IF x = o /\ ~req.dry THEN "gone" ELSE rec[x]
        /\ \A a \in Ips : parent'[a] = IF parent[a] = o /\ ~req.dry THEN None ELSE parent[a]
        /\ \A a \in Ips : a \in Objects
    BY <1>1, <1>2, <1>12, <1>13, KindsApart DEF TypeOK, Assignments
  <1>4. \A a \in Ips : rec'[a] = "ours" => parent'[a] = parent[a] /\ rec[a] = "ours"
    BY <1>3
  <1>5. o \notin Parents => parent' = parent
    <2>1. \A a \in Ips : parent[a] \in Parents \cup {None}
      BY DEF TypeOK, Assignments
    <2>2. parent \in [Ips -> Parents \cup {None}]
      BY DEF TypeOK, Assignments
    <2> QED BY <1>1, <1>2, <2>1, <2>2
  <1>6. ParentsLive'
    <2>1. \A a \in Ips : parent[a] # None => parent[a] \in Objects /\ parent[a] \notin Ips
      BY KindsApart DEF TypeOK, Assignments, Parents
    <2> QED BY <1>1, <1>3, <2>1 DEF Exact, ParentsLive, Live
  <1>7. \A j \in Plain : \A x \in Kinds[j] : x \in Objects /\ x \notin Ips
    BY KindsApart, KindsAreObjects
  <1>8. \A j \in Plain : k # j => o \notin Kinds[j]
    BY KindsApart
  <1>9. Deletes'
    <2>3. \A a \in Ips : rec'[a] = "gone" => ~req.dry
      BY <1>3 DEF Exact, Deletes
    <2>1. \A a \in plan \cap Ips : (rec'[a] = "gone") <=> ~req.dry /\ a \in doneIps'
      <3>1. CASE k = 3
        BY <1>2, <1>3, <3>1 DEF Exact, Deletes
      <3>2. CASE k # 3
        <4>1. o \notin Ips
          BY <3>2, KindsApart
        <4> QED BY <1>2, <1>3, <3>2, <4>1 DEF Exact, Deletes
      <3> QED BY <3>1, <3>2
    <2>2. ASSUME NEW j \in Plain, NEW x \in Kinds[j]
          PROVE  (rec'[x] = "gone") <=> ~req.dry /\ x \in plan \ (Left(j) \ {o})
      <3>1. (rec[x] = "gone") <=> ~req.dry /\ x \in plan \ Left(j)
        BY DEF Exact, Deletes
      <3> QED BY <1>3, <1>7, <3>1
    <2> QED BY <2>1, <2>2, <2>3 DEF Deletes
  <1>10. Counts'
    <2>1. IsFiniteSet(plan) /\ IsFiniteSet(doneIps)
      BY CleanupAssumption, FS_Subset, KindsApart DEF TypeOK
    <2>2. counts'[3] = Cardinality(doneIps')
      <3>1. counts[3] = Cardinality(doneIps)
        BY DEF Exact, Counts
      <3>2. CASE k = 3
        <4>1. o \notin doneIps
          BY DEF Counted
        <4>2. Cardinality(doneIps \cup {o}) = Cardinality(doneIps) + 1
          BY <2>1, <4>1, FS_AddElement
        <4> QED BY <1>2, <3>1, <3>2, <4>2 DEF TypeOK
      <3>3. CASE k # 3
        BY <1>2, <3>1, <3>3 DEF TypeOK
      <3> QED BY <3>2, <3>3
    <2>3. ASSUME NEW j \in Plain
          PROVE  counts'[j] = Cardinality((plan \cap Kinds[j]) \ (Left(j) \ {o}))
      <3> DEFINE S == (plan \cap Kinds[j]) \ Left(j)
      <3>1. IsFiniteSet(S) /\ counts[j] = Cardinality(S) /\ j \in 1..4
        BY <2>1, FS_Subset, KindsApart DEF Exact, Counts
      <3>2. CASE k = j
        <4>1. o \notin S /\ (plan \cap Kinds[j]) \ (Left(j) \ {o}) = S \cup {o}
          BY <3>2
        <4> HIDE DEF S
        <4>2. Cardinality(S \cup {o}) = Cardinality(S) + 1
          BY <3>1, <4>1, FS_AddElement
        <4> QED BY <1>2, <3>1, <3>2, <4>1, <4>2 DEF TypeOK
      <3>3. CASE k # j
        <4>1. (plan \cap Kinds[j]) \ (Left(j) \ {o}) = S
          BY <1>8, <3>3
        <4> QED BY <1>2, <3>1, <3>3, <4>1 DEF TypeOK
      <3> QED BY <3>2, <3>3
    <2> QED BY <2>2, <2>3 DEF Counts
  <1>11. PlanIsKnown'
    <2>1. \A j \in 1..4 : Selected(j)' = Selected(j)
      BY DEF Selected
    <2>2. \A j \in Plain : \A x \in Kinds[j] : Matches(x, copies)' = Matches(x, copies)
      BY <1>7 DEF Matches, SiteOf
    <2>3. \A a \in Ips : rec'[a] = "ours" => Fits(a)' = Fits(a)
      BY <1>4 DEF Fits
    <2>4. ASSUME NEW j \in Plain, NEW x \in Kinds[j]
          PROVE  x \in plan <=> rec'[x] \in {"ours", "gone"} /\ Selected(j) /\ Matches(x, copies)
      <3>1. x \in plan <=> rec[x] \in {"ours", "gone"} /\ Selected(j) /\ Matches(x, copies)
        BY DEF Exact, PlanIsKnown
      <3> QED BY <1>3, <1>7, <3>1
    <2>5. ASSUME NEW a \in Ips, rec'[a] = "ours"
          PROVE  a \in plan <=> (Selected(3) /\ Fits(a)) \/ parent'[a] \in plan
      BY <1>4, <2>5 DEF Exact, PlanIsKnown
    <2> QED BY <2>1, <2>2, <2>3, <2>4, <2>5, KindsApart DEF PlanIsKnown
  <1> QED BY <1>2, <1>3, <1>4, <1>5, <1>6, <1>9, <1>10, <1>11

LEMMA DeleteAddressExact == ASSUME TypeOK, Exact, NEW a \in Ips, DeleteAddress(a) PROVE Exact'
  <1>0. /\ pc = "addresses" /\ a \in addrs /\ addrs' = addrs \ {a} /\ Delete(3, a)
        /\ kind \in 1..4 /\ cur \in Parents \cap Kinds[kind] /\ todo \subseteq Kinds[kind]
        /\ cur \in plan \ todo
        /\ UNCHANGED <<fits, req, pc, kind, todo, copies, cur, plan>>
    BY DEF DeleteAddress, TypeOK, Exact, Position
  <1>1. /\ kind \in Plain /\ a \notin todo /\ a # cur /\ a \notin Parents /\ a \in Objects
        /\ a \in Kinds[3] /\ kind # 3
    BY <1>0, KindsApart
  <1>2. a \in plan /\ rec[a] = "ours"
    BY <1>0, <1>1 DEF Exact, HandIsOnPlan, InHand
  <1>3. \A k \in Plain : Left(k)' = Left(k) /\ a \notin Left(k)
    BY <1>0, KindsApart DEF Left
  <1>4. /\ PlanIsKnown' /\ ParentsLive' /\ Deletes' /\ Counts'
        /\ \A x \in Objects : x # a /\ rec[x] = "ours" => rec'[x] = "ours"
        /\ doneIps' = doneIps \cup {a} /\ host' = host /\ parent' = parent
        /\ \A x \in Ips : rec'[x] = "ours" => rec[x] = "ours"
    <2>1. CASE Counted(a)
      <3>1. UNCHANGED <<rec, host, parent, counts, doneIps>> /\ a \in doneIps
        BY <1>0, <2>1 DEF Delete, Counted
      <3> QED BY <1>0, <1>3, <3>1, NothingDeleted
    <2>2. CASE ~Counted(a)
      <3>1. \A x \in Ips : parent[x] # a
        BY <1>1, KindsApart DEF TypeOK, Assignments
      <3>2. \A k \in Plain : Left(k)' = Left(k) \ {a}
        BY <1>3
      <3> QED BY <1>0, <1>1, <1>2, <2>2, <3>1, <3>2, OneDeleted, KindsApart
    <2> QED BY <2>1, <2>2
  <1>5. Position'
    BY <1>0, <1>1, <1>4 DEF Exact, Position, Selected
  <1>6. HandIsOnPlan'
    BY <1>0, <1>1, <1>2, <1>4 DEF Exact, HandIsOnPlan, InHand
  <1>7. Pending'
    <2> SUFFICES ASSUME NEW x \in (plan \cap Ips) \ doneIps'
                 PROVE  /\ rec'[x] = "ours"
                        /\ \/ x \in addrs'
                           \/ parent[x] \in (Left(1) \cup Left(2)) \ {cur}
                           \/ Selected(3) /\ Fits(x) /\ kind < 3
                           \/ Missable(x)
      BY <1>0, <1>3, <1>4 DEF Pending, Fits, Missable, Selected, Plain
    <2>1. x # a /\ x \in Objects /\ x \notin doneIps
      BY <1>4, KindsApart
    <2> QED BY <1>0, <1>1, <1>4, <2>1 DEF Exact, Pending
  <1> QED BY <1>4, <1>5, <1>6, <1>7 DEF Exact

LEMMA DeleteParentExact == ASSUME TypeOK, Exact, DeleteParent PROVE Exact'
  <1>0. /\ pc = "addresses" /\ pc' = "each" /\ addrs = {} /\ Delete(kind, cur) /\ cur' = None
        /\ kind \in 1..4 /\ cur \in Parents \cap Kinds[kind] /\ todo \subseteq Kinds[kind]
        /\ cur \in plan \ todo /\ plan \subseteq Objects
        /\ UNCHANGED <<fits, req, kind, todo, copies, addrs, plan>>
    BY DEF DeleteParent, TypeOK, Exact, Position
  <1>1. /\ kind \in Plain /\ cur \notin Ips /\ cur \in Objects /\ cur # None /\ kind # 3
        /\ None \notin Objects
    BY <1>0, KindsApart
  <1>2. rec[cur] = "ours" /\ ~Counted(cur)
    BY <1>0, <1>1 DEF Exact, HandIsOnPlan, InHand, Counted, TypeOK
  <1>3. \A k \in Plain : Left(k)' = Left(k) \ {cur}
    <2> SUFFICES ASSUME NEW k \in Plain PROVE Left(k)' = Left(k) \ {cur}
      OBVIOUS
    <2>1. k \in 1..4 /\ \A o \in plan \cap Kinds[k] : o # None
      BY <1>0, <1>1, KindsApart
    <2>2. CASE k = kind
      BY <1>0, <2>1, <2>2 DEF Left
    <2>3. CASE k # kind
      <3>1. cur \notin Kinds[k]
        BY <1>0, <2>1, <2>3, KindsApart
      <3> QED BY <1>0, <2>1, <2>3, <3>1 DEF Left
    <2> QED BY <2>2, <2>3
  <1>4. cur \in Left(kind)
    BY <1>0 DEF Left
  <1>5. \A a \in Ips : rec[a] = "ours" /\ parent[a] = cur => req.dry
    <2> SUFFICES ASSUME NEW a \in Ips, rec[a] = "ours", parent[a] = cur PROVE req.dry
      OBVIOUS
    <2>1. a \in doneIps /\ a \in plan
      BY <1>0 DEF Exact, HandIsOnPlan
    <2> QED BY <2>1 DEF Exact, Deletes
  <1>6. /\ PlanIsKnown' /\ ParentsLive' /\ Deletes' /\ Counts'
        /\ \A x \in Objects : x # cur /\ rec[x] = "ours" => rec'[x] = "ours"
        /\ \A a \in Ips : rec'[a] = "ours" => parent'[a] = parent[a] /\ rec[a] = "ours"
        /\ doneIps' = doneIps /\ host' = host
    BY <1>0, <1>1, <1>2, <1>3, <1>4, <1>5, OneDeleted
  <1>7. Position'
    BY <1>0, <1>1, <1>6 DEF Exact, Position, Selected
  <1>8. HandIsOnPlan'
    BY <1>0, <1>1, <1>6 DEF Exact, HandIsOnPlan, InHand
  <1>9. Pending'
    <2> SUFFICES ASSUME NEW x \in (plan \cap Ips) \ doneIps
                 PROVE  /\ rec'[x] = "ours"
                        /\ \/ parent'[x] \in (Left(1) \cup Left(2)) \ {cur}
                           \/ Selected(3) /\ Fits(x)' /\ kind < 3
                           \/ Missable(x)'
      <3>1. (Left(1) \cup Left(2))' \ {cur'} = (Left(1) \cup Left(2)) \ {cur}
        <4>1. None \notin Left(1) \cup Left(2)
          BY <1>0, <1>1 DEF Left
        <4> QED BY <1>0, <1>3, <4>1 DEF Plain
      <3>2. plan' = plan /\ kind' = kind /\ Selected(3)' = Selected(3)
        BY <1>0 DEF Selected
      <3> QED BY <1>6, <3>1, <3>2 DEF Pending
    <2>1. x # cur /\ x \in Objects /\ rec'[x] = "ours" /\ rec[x] = "ours"
      BY <1>1, <1>6, KindsApart DEF Exact, Pending
    <2>2. parent'[x] = parent[x]
      BY <1>6, <2>1
    <2>3. Fits(x)' = Fits(x) /\ Missable(x)' = Missable(x)
      BY <1>0, <2>2 DEF Fits, Missable
    <2> QED BY <1>0, <1>1, <2>1, <2>2, <2>3 DEF Exact, Pending
  <1> QED BY <1>6, <1>7, <1>8, <1>9 DEF Exact

LEMMA DeleteListedExact == ASSUME TypeOK, Exact, NEW o \in Objects, DeleteListed(o) PROVE Exact'
  <1>0. /\ pc = "each" /\ o \in todo /\ todo' = todo \ {o} /\ Matches(o, copies) /\ o \notin Parents
        /\ Delete(kind, o) /\ kind \in 1..4 /\ o \in Kinds[kind] /\ cur = None /\ addrs = {}
        /\ Selected(kind)
        /\ UNCHANGED <<fits, req, pc, kind, copies, cur, addrs, plan>>
    BY DEF DeleteListed, Judge, TypeOK, Exact, Position
  <1>1. rec[o] = "ours" /\ o # None
    BY <1>0, KindsApart DEF Exact, HandIsOnPlan, InHand
  <1>2. kind = 3 => copies.parent = parent /\ o \in Ips
    BY <1>0, KindsApart DEF Exact, Position
  <1>3. o \in plan
    <2>1. CASE kind \in Plain
      BY <1>0, <1>1, <2>1 DEF Exact, PlanIsKnown
    <2>2. CASE kind = 3
      <3>1. Fits(o)
        BY <1>0, <1>2, <2>2, FitsOrMissed DEF Exact
      <3> QED BY <1>0, <1>1, <1>2, <2>2, <3>1 DEF Exact, PlanIsKnown
    <2> QED BY <1>0, <2>1, <2>2, KindsApart
  <1>4. \A k \in Plain : Left(k)' = Left(k) \ {o}
    BY <1>0, <1>1, KindsApart DEF Left
  <1>5. kind \in Plain => o \in Left(kind)
    BY <1>0, <1>3 DEF Left
  <1>6. \A a \in Ips : parent[a] # o
    BY <1>0, <1>1 DEF TypeOK, Assignments
  <1>7. /\ PlanIsKnown' /\ ParentsLive' /\ Deletes' /\ Counts'
        /\ \A x \in Objects : x # o /\ rec[x] = "ours" => rec'[x] = "ours"
        /\ doneIps' = (IF kind = 3 THEN doneIps \cup {o} ELSE doneIps)
        /\ host' = host /\ parent' = parent
    <2>1. CASE Counted(o)
      <3>1. UNCHANGED <<rec, host, parent, counts, doneIps>> /\ o \in doneIps
        BY <1>0, <2>1 DEF Delete, Counted
      <3>2. \A k \in Plain : Left(k)' = Left(k)
        BY <1>4, <3>1, KindsApart DEF Left, TypeOK
      <3>3. kind = 3
        BY <1>0, <3>1, KindsApart DEF TypeOK
      <3> QED BY <1>0, <3>1, <3>2, <3>3, NothingDeleted
    <2>2. CASE ~Counted(o)
      BY <1>0, <1>1, <1>3, <1>4, <1>5, <1>6, <2>2, OneDeleted
    <2> QED BY <2>1, <2>2
  <1>8. Position'
    BY <1>0, <1>7 DEF Exact, Position, Selected
  <1>9. HandIsOnPlan'
    <2>1. doneIps' \subseteq plan
      BY <1>3, <1>7 DEF Exact, HandIsOnPlan
    <2> QED BY <1>0, <1>7, <2>1, KindsApart DEF Exact, HandIsOnPlan, InHand
  <1>10. Pending'
    <2> SUFFICES ASSUME NEW x \in (plan \cap Ips) \ doneIps'
                 PROVE  /\ rec'[x] = "ours"
                        /\ \/ parent[x] \in (Left(1) \cup Left(2)) \ {cur}
                           \/ Selected(3) /\ Fits(x) /\ (kind < 3 \/ (kind = 3 /\ x \in todo'))
                           \/ Missable(x)
      <3>1. (Left(1) \cup Left(2))' = (Left(1) \cup Left(2)) \ {o}
        BY <1>4 DEF Plain
      <3> QED BY <1>0, <1>6, <1>7, <3>1, KindsApart DEF Pending, Fits, Missable, Selected
    <2>1. x # o
      <3>1. CASE kind = 3
        BY <1>7, <3>1
      <3>2. CASE kind # 3
        BY <1>0, <3>2, KindsApart
      <3> QED BY <3>1, <3>2
    <2>2. x \notin doneIps /\ x \in Objects
      BY <1>7, KindsApart
    <2> QED BY <1>0, <1>7, <2>1, <2>2 DEF Exact, Pending
  <1> QED BY <1>7, <1>8, <1>9, <1>10 DEF Exact

LEMMA NextUndisturbed == ASSUME TypeOK, Undisturbed, [Next]_vars PROVE Undisturbed'
  <1> SUFFICES ASSUME changes' = 0, pc' # "failed" PROVE Exact'
    BY DEF Undisturbed
  <1>1. CASE UNCHANGED vars
    <2>1. Exact
      BY <1>1 DEF vars, Undisturbed
    <2>2. \A k : Left(k)' = Left(k)
      BY <1>1 DEF vars, Left
    <2>3. PlanIsKnown' /\ ParentsLive' /\ Deletes' /\ Counts'
      BY <1>1, <2>1, <2>2, NothingDeleted DEF vars
    <2>4. Position' /\ HandIsOnPlan'
      BY <1>1, <2>1 DEF vars, Exact, Position, HandIsOnPlan, InHand, Selected
    <2>5. Pending'
      BY <1>1, <2>1, <2>2 DEF vars, Exact, Pending, Fits, Missable, Selected
    <2> QED BY <2>3, <2>4, <2>5 DEF Exact
  <1>2. CASE \/ \E o \in Objects : Adopt(o) \/ Remove(o)
             \/ \E a \in Ips, o \in Parents : AddAddress(a, o)
             \/ \E v \in Vms, d \in Devices : Migrate(v, d)
    <2>1. changes' = changes + 1
      BY <1>2 DEF Adopt, Remove, AddAddress, Migrate, Interfere
    <2> QED BY <2>1 DEF TypeOK
  <1>3. CASE Raises
    BY <1>3 DEF Raises
  <1>4. ASSUME \/ List \/ NextKind \/ DeleteParent
               \/ \E o \in Objects : Skip(o) \/ Take(o) \/ DeleteListed(o)
               \/ \E a \in Ips : DeleteAddress(a)
        PROVE  Exact'
    <2>1. changes' = changes /\ pc \in {"list", "each", "addresses"}
      BY <1>4 DEF List, NextKind, DeleteParent, Skip, Take, DeleteListed, DeleteAddress, Judge, netbox
    <2>2. Exact
      BY <2>1 DEF Undisturbed
    <2> QED BY <1>4, <2>2, ListExact, NextKindExact, SkipExact, TakeExact, DeleteAddressExact,
               DeleteParentExact, DeleteListedExact
  <1> QED BY <1>1, <1>2, <1>3, <1>4 DEF Next

\* At the end nothing of the plan is left but addresses of virtual machines of which
\* the site is no longer found.
LEMMA ExactIsShown == ASSUME TypeOK, Undisturbed PROVE DoesWhatItShows
  <1> SUFFICES ASSUME Ended
               PROVE  /\ Agreed(1) /\ Agreed(2) /\ Agreed(4)
                      /\ req.dry \/ req.site = Any => Agreed(3)
                      /\ req.dry => \A o \in Objects : rec[o] # "gone"
                      /\ ~req.dry => \A o \in plan : \/ rec[o] = "gone"
                                                     \/ req.site # Any /\ o \in Ips /\ parent[o] \in Vms
    BY DEF DoesWhatItShows
  <1>1. Exact /\ kind = 5 /\ pc = "done" /\ addrs = {}
    BY DEF Ended, Undisturbed, Exact, Position
  <1>2. \A k \in Plain : Left(k) = {}
    BY <1>1, KindsApart DEF Left
  <1>3. \A k \in Plain : Agreed(k)
    BY <1>1, <1>2 DEF Exact, Counts, Agreed
  <1>4. \A a \in (plan \cap Ips) \ doneIps : Missable(a)
    BY <1>1, <1>2 DEF Exact, Pending, Plain
  <1>5. req.dry \/ req.site = Any => Agreed(3)
    <2> SUFFICES ASSUME req.dry \/ req.site = Any PROVE Agreed(3)
      OBVIOUS
    <2>1. plan \cap Ips = doneIps
      BY <1>1, <1>4 DEF Missable, Exact, HandIsOnPlan, TypeOK
    <2> QED BY <1>1, <2>1, KindsApart DEF Agreed, Exact, Counts
  <1>6. \A o \in Objects : o \in Ips \/ \E k \in Plain : o \in Kinds[k]
    BY KindsApart DEF Plain
  <1>7. req.dry => \A o \in Objects : rec[o] # "gone"
    BY <1>1, <1>6 DEF Exact, Deletes
  <1>8. ASSUME ~req.dry, NEW o \in plan
        PROVE  rec[o] = "gone" \/ (req.site # Any /\ o \in Ips /\ parent[o] \in Vms)
    <2>1. o \in Objects
      BY DEF TypeOK
    <2>2. CASE o \in Ips
      BY <1>1, <1>4, <1>8, <2>2 DEF Exact, Deletes, Missable
    <2>3. ASSUME NEW k \in Plain, o \in Kinds[k] PROVE rec[o] = "gone"
      BY <1>1, <1>2, <1>8, <2>3 DEF Exact, Deletes
    <2> QED BY <1>6, <2>1, <2>2, <2>3
  <1> QED BY <1>3, <1>5, <1>7, <1>8 DEF Plain

\* A cleanup that nobody disturbs deletes and counts what its filters selected when it
\* began, and a preview counts the same, for any NetBox and any request.
THEOREM ShownIsDone == Spec => []DoesWhatItShows
  <1>1. Init => Undisturbed
    BY InitExact DEF Undisturbed
  <1>2. TypeOK /\ Undisturbed /\ [Next]_vars => Undisturbed'
    BY NextUndisturbed
  <1>3. TypeOK /\ Undisturbed => DoesWhatItShows
    BY ExactIsShown
  <1> QED BY <1>1, <1>2, <1>3, TypeCorrect, PTL DEF Spec
(****************************************************************************)
(* Other sites.  That a cleanup of one site deletes addresses of another is *)
(* refuted by a run; the theorem says what it takes: where no virtual       *)
(* machine has the id of a device, the filter by site keeps its word.       *)
(****************************************************************************)

IdsApart == \A d \in Devices, v \in Vms : Num[d] # Num[v]

\* What the site filter goes by is then the parent's own site, or none.
LEMMA HomeIsReal ==
  ASSUME IdsApart, NEW p \in Parents \cup {None}
  PROVE  Home(p) = IF p \in Devices THEN Site[p] ELSE None
  <1> DEFINE found == {d \in Devices : p # None /\ Num[d] = Num[p]}
  <1>1. Home(p) = IF found = {} THEN None ELSE Site[CHOOSE d \in found : TRUE]
    BY DEF Home
  <1>2. CASE p \in Devices
    <2>1. found = {p}
      BY <1>2, CleanupAssumption, KindsApart
    <2> QED BY <1>1, <1>2, <2>1
  <1>3. CASE p \notin Devices
    <2>1. found = {}
      BY <1>3, KindsApart DEF IdsApart, Parents
    <2> QED BY <1>1, <1>3, <2>1
  <1> QED BY <1>2, <1>3

\* What is on the plan and not deleted yet is of the site that was asked for.
LEMMA PlanIsOfTheSite ==
  ASSUME TypeOK, Exact, IdsApart, NEW o \in Objects, o \in plan, rec[o] = "ours"
  PROVE  req.site \in {Any, RealSite(o)}
  <1>1. req.site # None
    BY CleanupAssumption DEF TypeOK
  <1>2. ASSUME NEW k \in Plain, NEW p \in Kinds[k], p \in plan
        PROVE  req.site \in {Any, SiteOf(p, copies)} /\ (k = 4 => req.site = Any)
    BY <1>2, KindsApart DEF Exact, PlanIsKnown, Matches, Selected
  <1>3. ASSUME NEW p \in Parents, p \in plan
        PROVE  req.site \in {Any, IF p \in Devices THEN Site[p]
                                  ELSE IF host[p] # None THEN Site[host[p]] ELSE None}
    <2>1. CASE p \in Devices
      <3>1. SiteOf(p, copies) = Site[p]
        BY <2>1 DEF SiteOf
      <3> QED BY <1>2, <1>3, <2>1, <3>1, KindsApart DEF Plain
    <2>2. CASE p \in Vms
      <3>1. p \notin Devices
        BY <2>2, KindsApart
      <3>2. SiteOf(p, copies) = IF host[p] = None THEN None ELSE Site[host[p]]
        BY <2>2, <3>1 DEF SiteOf, Exact, Position
      <3> QED BY <1>2, <1>3, <2>2, <3>1, <3>2, KindsApart DEF Plain
    <2> QED BY <2>1, <2>2 DEF Parents
  <1>4. CASE o \in Parents
    <2>1. o \notin Ips /\ (o \notin Devices => o \in Vms)
      BY <1>4, KindsApart DEF Parents
    <2> QED BY <1>3, <1>4, <2>1 DEF RealSite
  <1>5. CASE o \in Cables
    <2>1. req.site = Any
      BY <1>2, <1>5, KindsApart DEF Plain
    <2> QED BY <2>1
  <1>6. CASE o \in Ips
    <2>1. parent[o] \in Parents \cup {None}
      BY <1>6 DEF TypeOK, Assignments
    <2>2. (Selected(3) /\ Fits(o)) \/ parent[o] \in plan
      BY <1>6 DEF Exact, PlanIsKnown
    <2>3. CASE Fits(o)
      <3>1. req.site = Any \/ (parent[o] \in Devices /\ req.site = Site[parent[o]])
        BY <1>1, <2>1, <2>3, HomeIsReal DEF Fits
      <3> QED BY <1>6, <3>1 DEF RealSite
    <2>4. CASE parent[o] \in plan
      <3>1. plan \subseteq Objects /\ None \notin Objects
        BY KindsApart DEF TypeOK
      <3>2. parent[o] \in Parents
        BY <2>1, <2>4, <3>1
      <3>3. parent[o] \notin Devices => parent[o] \in Vms
        BY <3>2 DEF Parents
      <3> QED BY <1>3, <1>6, <2>4, <3>2, <3>3 DEF RealSite
    <2> QED BY <2>2, <2>3, <2>4
  <1> QED BY <1>4, <1>5, <1>6, KindsApart

LEMMA StepKeepsSites ==
  ASSUME TypeOK, Undisturbed, IdsApart, [Next]_vars, NEW o \in Objects,
         rec[o] # "gone", rec'[o] = "gone", changes' = 0
  PROVE  req.site \in {Any, RealSite(o)}
  <1>1. CASE List \/ NextKind \/ Raises \/ UNCHANGED vars
    BY <1>1 DEF List, NextKind, Raises, netbox, vars
  <1>2. ASSUME NEW p \in Objects, Skip(p) \/ Take(p) PROVE FALSE
    BY <1>2 DEF Skip, Take, netbox
  <1>3. ASSUME Interfere PROVE FALSE
    BY <1>3 DEF Interfere, TypeOK
  <1>4. ASSUME changes' = changes, pc # "failed" PROVE Exact
    BY <1>4 DEF Undisturbed
  <1>5. ASSUME NEW a \in Ips, DeleteAddress(a) PROVE req.site \in {Any, RealSite(o)}
    <2>1. Exact /\ a \in addrs
      BY <1>4, <1>5 DEF DeleteAddress
    <2>2. o = a
      <3>1. Delete(3, a)
        BY <1>5 DEF DeleteAddress
      <3>2. a \in Objects /\ 3 \in 1..4 /\ ~GoesWith(o, a)
        BY KindsApart DEF GoesWith, TypeOK, Assignments
      <3> QED BY <3>1, <3>2, DeleteOne
    <2>3. a \in plan /\ rec[a] = "ours"
      BY <2>1, <2>2 DEF Exact, HandIsOnPlan, InHand
    <2> QED BY <2>1, <2>2, <2>3, PlanIsOfTheSite
  <1>6. CASE DeleteParent
    <2>1. Exact /\ pc = "addresses"
      BY <1>4, <1>6 DEF DeleteParent
    <2>2. o = cur \/ GoesWith(o, cur)
      <3>1. Delete(kind, cur)
        BY <1>6 DEF DeleteParent
      <3>2. cur \in Objects /\ kind \in 1..4
        BY <2>1 DEF TypeOK, Parents, Objects
      <3> QED BY <3>1, <3>2, DeleteOne
    <2>3. cur \in Parents /\ cur \in Objects /\ cur \in plan /\ rec[cur] = "ours" /\ cur # None
      BY <2>1, KindsApart DEF Exact, Position, HandIsOnPlan, InHand, TypeOK
    <2>4. req.site \in {Any, RealSite(cur)}
      BY <2>1, <2>3, PlanIsOfTheSite
    <2>5. ASSUME GoesWith(o, cur) PROVE RealSite(o) = RealSite(cur)
      <3>1. o \in Ips /\ parent[o] = cur /\ cur \notin Ips
        BY <2>3, <2>5, KindsApart DEF GoesWith
      <3> QED BY <3>1 DEF RealSite
    <2> QED BY <2>2, <2>4, <2>5
  <1>7. ASSUME NEW p \in Objects, DeleteListed(p) PROVE req.site \in {Any, RealSite(o)}
    <2>1. Exact /\ pc = "each" /\ p \in todo /\ Matches(p, copies)
      BY <1>4, <1>7 DEF DeleteListed, Judge
    <2>2. o = p
      <3>1. Delete(kind, p)
        BY <1>7 DEF DeleteListed
      <3>2. kind \in 1..4 /\ ~GoesWith(o, p)
        BY <1>7, <2>1, KindsApart DEF TypeOK, Assignments, DeleteListed, GoesWith
      <3> QED BY <3>1, <3>2, DeleteOne
    <2>3. rec[p] = "ours" /\ Selected(kind) /\ kind \in 1..4 /\ p \in Kinds[kind]
      BY <2>1, <2>2 DEF Exact, HandIsOnPlan, InHand, Position, TypeOK
    <2>4. p \in plan
      <3>1. CASE kind = 3
        <4>1. p \in Ips /\ copies.parent = parent
          BY <2>1, <2>3, <3>1, KindsApart DEF Exact, Position
        <4>2. Fits(p)
          BY <2>1, <4>1, FitsOrMissed DEF Exact
        <4> QED BY <2>1, <2>3, <3>1, <4>1, <4>2 DEF Exact, PlanIsKnown
      <3>2. CASE kind # 3
        BY <2>1, <2>3, <3>2, KindsApart DEF Exact, PlanIsKnown
      <3> QED BY <3>1, <3>2
    <2> QED BY <2>1, <2>2, <2>3, <2>4, PlanIsOfTheSite
  <1>8. ASSUME NEW p \in Objects, Adopt(p) \/ Remove(p) PROVE FALSE
    BY <1>3, <1>8 DEF Adopt, Remove
  <1>9. ASSUME NEW a \in Ips, NEW p \in Parents, AddAddress(a, p) PROVE FALSE
    BY <1>3, <1>9 DEF AddAddress
  <1>10. ASSUME NEW v \in Vms, NEW d \in Devices, Migrate(v, d) PROVE FALSE
    BY <1>3, <1>10 DEF Migrate
  <1> QED BY <1>1, <1>2, <1>5, <1>6, <1>7, <1>8, <1>9, <1>10 DEF Next, vars

\* With a filter by site, a cleanup that nobody disturbs deletes nothing of another
\* site, if NetBox has numbered no virtual machine like a device.
THEOREM SitesAreKeptApart == ASSUME IdsApart PROVE Spec => OtherSitesKept
  <1>1. Init => TypeOK /\ Undisturbed
    BY InitType, InitExact DEF Undisturbed
  <1>2. TypeOK /\ Undisturbed /\ [Next]_vars => (TypeOK /\ Undisturbed)'
    BY NextType, NextUndisturbed
  <1>3. TypeOK /\ Undisturbed /\ [Next]_vars =>
          [\A o \in Objects : rec[o] # "gone" /\ rec'[o] = "gone" /\ changes' = 0 =>
             req.site \in {Any, RealSite(o)}]_vars
    BY StepKeepsSites
  <1> QED BY <1>1, <1>2, <1>3, PTL DEF Spec, OtherSitesKept

=============================================================================
