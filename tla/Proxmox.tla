-------------------------------- MODULE Proxmox --------------------------------
(****************************************************************************)
(* The proxmox module (ProxmoxSync._sync_instance in sync/proxmox.py): pass *)
(* after pass over one Proxmox cluster, whose guests start, stop, move      *)
(* between its nodes, are renamed, created and destroyed meanwhile.         *)
(*                                                                          *)
(* The cluster is read in several calls: the nodes, the nodes again, and    *)
(* for each node that is online its VMs and then its containers, each list  *)
(* handled guest by guest before the next one is asked for.  A guest's      *)
(* record in NetBox is found by name.  An action is one call of Proxmox or  *)
(* one write to NetBox with the reads before it; an exception in any of     *)
(* them ends the pass of the cluster.                                       *)
(*                                                                          *)
(* Of a record only the tags, the status, the node and the primary address  *)
(* are represented; each guest has one address.  "paused" counts as         *)
(* stopped; sizes, comments and last_seen are left out.                     *)
(*                                                                          *)
(* NetBox takes a virtual machine on a device only if the device is in its  *)
(* cluster.  A pass that cannot ask for the cluster's name takes the host's *)
(* for it, and documents the guests in a cluster of that name; of this one  *)
(* only the nodes and addresses that it gets are represented.               *)
(****************************************************************************)
EXTENDS Integers

CONSTANTS Guests, Nodes, Labels, None,
          Containers,   \* the guests that are LXC containers, not VMs
          Nics,         \* those whose configuration has a network device
          Twins,        \* those whose address, when it is another's, hangs off a
                        \* device's interface with the number of their own one
          SiteKnown,    \* the site is resolved in NetBox
          MaxChanges,   \* bound on what happens in the cluster and in NetBox
          MaxFaults     \* bound on failing calls

\* The two kinds of lists of guests, and an entry in one
Kinds == {"qemu", "lxc"}
Entry == [id: Guests, label: Labels \cup {None}, up: BOOLEAN]

ASSUME ProxmoxAssumption ==
  /\ Containers \subseteq Guests /\ Nics \subseteq Guests /\ Twins \subseteq Nics
  /\ Guests \cap Labels = {} /\ None \notin Guests \cup Nodes \cup Labels
  /\ None \notin Entry \cup (Nodes \X Kinds)
  /\ SiteKnown \in BOOLEAN /\ MaxChanges \in Nat /\ MaxFaults \in Nat

\* Names of records.  A guest without a name stands for its fallback, "qemu-101".
Names == Labels \cup Guests

Vm == [kind: {"none", "human", "ours"}, up: BOOLEAN, stale: BOOLEAN,
       node: Nodes \cup {None}, primary: Guests \cup {None}]
NoVm == [kind |-> "none", up |-> FALSE, stale |-> FALSE, node |-> None, primary |-> None]

VARIABLES
  loc,      \* the node a guest is on; None when it does not exist
  up,       \* it is running
  label,    \* its name; None without one
  online,   \* the nodes that are
  vm,       \* the record of each name in the NetBox cluster
  dev,      \* the device of each node
  joined,   \* the nodes whose device is in the cluster of vm
  rec, on,  \* the record of each guest's address, and the record whose first
            \* interface it is assigned to
  pc,
  todo,     \* nodes still to handle
  alive,    \* those of the first list that are online
  at,       \* the list being handled: a node and a kind of guest
  listed,   \* its entries still to handle
  seen,     \* seen_vm_names
  guest,    \* the entry being handled
  name,     \* the name of the record being handled
  copy,     \* its copy
  gone,     \* records the pass will mark as vanished
  moved,    \* (history) guests that were not where they are, as they are, during
            \* all of the pass
  deleted,  \* names whose record was deleted since the pass read it
  taken,    \* (history) names whose record a person took over since then
  late,     \* (history) addresses taken over since they were looked up
  torn,     \* (history) names left between their two writes
  changes, faults

cluster == <<loc, up, label, online>>
netbox == <<vm, dev, joined, rec, on>>
pass == <<pc, todo, alive, at, listed, seen, guest, name, copy, gone>>
since == <<moved, deleted, taken, late>>
vars == <<cluster, netbox, pass, since, torn, changes, faults>>

TypeOK ==
  /\ loc \in [Guests -> Nodes \cup {None}] /\ up \in [Guests -> BOOLEAN]
  /\ label \in [Guests -> Labels \cup {None}] /\ online \subseteq Nodes
  /\ vm \in [Names -> Vm]
  /\ dev \in [Nodes -> {"none", "human", "online", "offline"}] /\ joined \subseteq Nodes
  /\ rec \in [Guests -> {"none", "ours", "theirs"}]
  /\ on \in [Guests -> Names \cup {None}]
  /\ pc \in {"idle", "devices", "straying", "strayed", "nodes", "guests",
             "write", "untag", "attach", "find", "add", "assign", "primary",
             "mark", "offline"}
  /\ todo \subseteq Nodes /\ alive \subseteq Nodes
  /\ at \in (Nodes \X Kinds) \cup {None}
  /\ listed \subseteq Entry /\ guest \in Entry \cup {None}
  /\ seen \subseteq Labels \cup {None}
  /\ name \in Names \cup {None} /\ copy \in Vm /\ gone \subseteq Names
  /\ (name = None) = (pc \in {"idle", "devices", "straying", "strayed", "nodes",
                              "guests", "mark"})
  /\ (guest # None) = (pc \in {"write", "untag", "attach", "find", "add", "assign", "primary"})
  /\ moved \subseteq Guests
  /\ deleted \subseteq Names /\ taken \subseteq Names /\ torn \subseteq Names
  /\ late \subseteq Guests
  /\ changes \in 0..MaxChanges /\ faults \in 0..MaxFaults

Init ==
  /\ loc \in [Guests -> Nodes \cup {None}] /\ label \in [Guests -> Labels \cup {None}]
  /\ up = [g \in Guests |-> loc[g] # None] /\ online = Nodes
  /\ vm = [n \in Names |-> NoVm] /\ dev = [n \in Nodes |-> "none"] /\ joined = {}
  /\ rec = [g \in Guests |-> "none"] /\ on = [g \in Guests |-> None]
  /\ pc = "idle" /\ todo = {} /\ alive = {} /\ at = None /\ listed = {} /\ seen = {}
  /\ guest = None /\ name = None /\ copy = NoVm /\ gone = {}
  /\ moved = {} /\ deleted = {} /\ taken = {} /\ late = {} /\ torn = {}
  /\ changes = 0 /\ faults = 0

-------------------------------------------------------------------------------
(* _sync_instance: the nodes                                                *)

Begin ==
  /\ pc = "idle"
  /\ todo' = Nodes /\ alive' = online /\ seen' = {} /\ moved' = {}
  /\ UNCHANGED <<cluster, netbox, at, listed, guest, name, copy, gone, deleted,
                 taken, late, torn, changes>>

StartPass == Begin /\ pc' = "devices" /\ UNCHANGED faults

\* cluster_name(): the cluster's status does not answer, which is no error
StartAstray ==
  /\ Begin /\ pc' = "straying"
  /\ faults < MaxFaults /\ faults' = faults + 1

\* _sync_node; without a site there is no device.  The device's cluster is the one
\* it was first given.
SyncNode(n) ==
  /\ pc \in {"devices", "straying"} /\ n \in todo
  /\ todo' = todo \ {n}
  /\ dev' = IF SiteKnown /\ dev[n] # "human"
            THEN [dev EXCEPT ![n] = IF n \in alive THEN "online" ELSE "offline"]
            ELSE dev
  /\ joined' = IF SiteKnown /\ dev[n] = "none" /\ pc = "devices"
               THEN joined \cup {n} ELSE joined
  /\ UNCHANGED <<cluster, vm, rec, on, pc, alive, at, listed, seen, guest, name,
                 copy, gone, since, torn, changes, faults>>

\* the second list of nodes
ListNodes ==
  /\ pc \in {"devices", "straying"} /\ todo = {} /\ alive' = {}
  /\ IF pc = "devices" THEN pc' = "nodes" /\ todo' = online
                       ELSE pc' = "strayed" /\ todo' = {}
  /\ UNCHANGED <<cluster, netbox, at, listed, seen, guest, name, copy, gone,
                 since, torn, changes, faults>>

\* A guest gets a record in the host's cluster, which takes its address: not if its
\* node's device is in the proper one.
Stray(g) ==
  /\ pc = "strayed" /\ loc[g] \in online /\ loc[g] \notin joined
  /\ rec[g] = "none" \/ (rec[g] = "ours" /\ on[g] = None /\ g \in Nics)
  /\ rec' = [rec EXCEPT ![g] = IF g \in Nics THEN "theirs" ELSE "ours"]
  /\ UNCHANGED <<cluster, vm, dev, joined, on, pass, since, torn, changes, faults>>

On(n, kind) == {g \in Guests : loc[g] = n /\ (g \in Containers <=> kind = "lxc")}
EntryOf(g) == [id |-> g, label |-> label[g], up |-> up[g]]

\* Mutant: the set of names starts afresh with each list.
ListGuests_afresh(n, kind) ==
  /\ IF kind = "qemu" THEN pc = "nodes" /\ n \in todo
                      ELSE pc = "guests" /\ listed = {} /\ at = <<n, "qemu">>
  /\ pc' = "guests" /\ todo' = todo \ {n} /\ at' = <<n, kind>>
  /\ listed' = {EntryOf(g) : g \in On(n, kind)}
  /\ seen' = {}
  /\ UNCHANGED <<cluster, netbox, alive, guest, name, copy, gone, since, torn,
                 changes, faults>>

\* qemu_vms of the next node, or lxc_containers of the same one
ListGuests(n, kind) ==
  /\ IF kind = "qemu" THEN pc = "nodes" /\ n \in todo
                      ELSE pc = "guests" /\ listed = {} /\ at = <<n, "qemu">>
  /\ pc' = "guests" /\ todo' = todo \ {n} /\ at' = <<n, kind>>
  /\ listed' = {EntryOf(g) : g \in On(n, kind)}
  /\ UNCHANGED <<cluster, netbox, alive, seen, guest, name, copy, gone, since,
                 torn, changes, faults>>

NodeDone ==
  /\ pc = "guests" /\ listed = {} /\ at # None /\ at[2] = "lxc"
  /\ pc' = "nodes" /\ at' = None
  /\ UNCHANGED <<cluster, netbox, todo, alive, listed, seen, guest, name, copy,
                 gone, since, torn, changes, faults>>

-------------------------------------------------------------------------------
(* _sync_guest                                                              *)

NameOf(e) == IF e.label = None THEN e.id ELSE e.label

\* The record is read.  What is added to seen for a guest without a name is its
\* bare number, which names no record.
ReadVm(e) ==
  /\ pc = "guests" /\ e \in listed
  /\ listed' = listed \ {e} /\ seen' = seen \cup {e.label}
  /\ guest' = e /\ name' = NameOf(e) /\ copy' = vm[NameOf(e)]
  /\ pc' = "write"
  /\ UNCHANGED <<cluster, netbox, todo, alive, at, gone, since, torn, changes,
                 faults>>

\* Mutant: the next guest starts with this one's record.
Leave_kept ==
  /\ pc' = "guests" /\ guest' = None /\ copy' = NoVm
  /\ deleted' = {} /\ taken' = {} /\ late' = {}
  /\ UNCHANGED <<todo, alive, at, listed, seen, name, gone, moved>>

\* the call is over, or the guest is left at once
Leave ==
  /\ pc' = "guests" /\ guest' = None /\ name' = None /\ copy' = NoVm
  /\ deleted' = {} /\ taken' = {} /\ late' = {}
  /\ UNCHANGED <<todo, alive, at, listed, seen, gone, moved>>

Stay(to) ==
  /\ pc' = to
  /\ UNCHANGED <<todo, alive, at, listed, seen, guest, name, copy, gone, since>>

Node == IF SiteKnown THEN at[1] ELSE None

Moves == Node # None /\ copy.node # Node

\* An update names the fields in which the copy differs; a device that is not known
\* is not one of them.
Update ==
  [vm[name] EXCEPT !.up = IF copy.up # guest.up THEN guest.up ELSE @,
                   !.node = IF Moves THEN Node ELSE @]
MustUpdate == copy.up # guest.up \/ Moves

\* What NetBox accepts: a record that exists, on a device of its cluster
Updatable == MustUpdate => name \notin deleted /\ (Moves => Node \in joined)
Creatable == vm[name].kind = "none" /\ (Node # None => Node \in joined)

\* Mutant: whose record it is decides only about what comes after.
UpdateVm_anyone ==
  /\ pc = "write" /\ copy.kind # "none" /\ Updatable
  /\ vm' = [vm EXCEPT ![name] = IF MustUpdate THEN Update ELSE @]
  /\ Stay(IF copy.stale THEN "untag" ELSE "attach")
  /\ UNCHANGED <<cluster, dev, joined, rec, on, torn, changes, faults>>

\* Mutant: the tags are looked at only when a field has changed.
UpdateVm_thenUntag ==
  /\ pc = "write" /\ copy.kind = "ours" /\ Updatable
  /\ vm' = [vm EXCEPT ![name] = IF MustUpdate THEN Update ELSE @]
  /\ Stay(IF MustUpdate /\ copy.stale THEN "untag" ELSE "attach")
  /\ UNCHANGED <<cluster, dev, joined, rec, on, torn, changes, faults>>

\* a record of ours is brought up to date
UpdateVm ==
  /\ pc = "write" /\ copy.kind = "ours" /\ Updatable
  /\ vm' = [vm EXCEPT ![name] = IF MustUpdate THEN Update ELSE @]
  /\ Stay(IF copy.stale THEN "untag" ELSE "attach")
  /\ UNCHANGED <<cluster, dev, joined, rec, on, torn, changes, faults>>

\* there was none: it is created, unless somebody else has meanwhile
CreateVm ==
  /\ pc = "write" /\ copy.kind = "none" /\ Creatable
  /\ vm' = [vm EXCEPT ![name] = [kind |-> "ours", up |-> guest.up, stale |-> FALSE,
                                 node |-> Node, primary |-> None]]
  /\ Stay("attach")
  /\ UNCHANGED <<cluster, dev, joined, rec, on, torn, changes, faults>>

\* "a human-created VM sharing this name"
LeaveVm ==
  /\ pc = "write" /\ copy.kind = "human"
  /\ Leave
  /\ UNCHANGED <<cluster, netbox, torn, changes, faults>>

\* remove_tags writes the tags of the copy without this one
UntagVm ==
  /\ pc = "untag" /\ name \notin deleted
  /\ vm' = [vm EXCEPT ![name].kind = "ours", ![name].stale = FALSE]
  /\ Stay("attach")
  /\ UNCHANGED <<cluster, dev, joined, rec, on, torn, changes, faults>>

Nic == guest.id \in Nics

\* a VM's agent is asked only while it runs, a container's address is configured
HasAddress == guest.id \in Containers \/ guest.up

\* the configuration, the interfaces and what the agent says
Attach ==
  /\ pc = "attach" /\ HasAddress /\ (Nic => name \notin deleted)
  /\ Stay("find")
  /\ UNCHANGED <<cluster, netbox, torn, changes, faults>>

NothingToAttach ==
  /\ pc = "attach" /\ ~HasAddress /\ (Nic => name \notin deleted)
  /\ Leave
  /\ UNCHANGED <<cluster, netbox, torn, changes, faults>>

\* the configuration or the agent does not answer, which is no error
NoAnswer ==
  /\ pc = "attach" /\ faults < MaxFaults
  /\ faults' = faults + 1
  /\ Leave
  /\ UNCHANGED <<cluster, netbox, torn, changes>>

\* The number of the interface is compared, not what kind of interface it is.
SameNumber(g) == on[g] = name \/ (rec[g] = "theirs" /\ on[g] = None /\ g \in Twins)

\* The address is now on the VM's interface, or taken to be: primary, if it has none
Assigned == IF copy.primary = None /\ Nic THEN Stay("primary") ELSE Leave

\* upsert_ip looks the record up: another's keeps its assignment
FindAddress ==
  LET g == guest.id
  IN  /\ pc = "find"
      /\ IF rec[g] = "none" THEN Stay("add")
         ELSE IF rec[g] = "ours" /\ on[g] = None /\ Nic THEN Stay("assign")
         ELSE IF SameNumber(g) THEN Assigned ELSE Leave
      /\ UNCHANGED <<cluster, netbox, torn, changes, faults>>

\* NetBox takes no second record of an address
AddAddress ==
  /\ pc = "add" /\ rec[guest.id] = "none" /\ (Nic => name \notin deleted)
  /\ rec' = [rec EXCEPT ![guest.id] = "ours"]
  /\ on' = [on EXCEPT ![guest.id] = IF Nic THEN name ELSE None]
  /\ Assigned
  /\ UNCHANGED <<cluster, vm, dev, joined, torn, changes, faults>>

\* the record is assigned, whoever has it by now
AssignAddress ==
  /\ pc = "assign" /\ name \notin deleted
  /\ on' = [on EXCEPT ![guest.id] = name]
  /\ Assigned
  /\ UNCHANGED <<cluster, vm, dev, joined, rec, torn, changes, faults>>

\* Mutant: only a record that was just created gets a primary address.
SetPrimary_created ==
  /\ pc = "primary" /\ name \notin deleted /\ on[guest.id] = name
  /\ vm' = IF copy.kind = "none" THEN [vm EXCEPT ![name].primary = guest.id] ELSE vm
  /\ Leave
  /\ UNCHANGED <<cluster, dev, joined, rec, on, torn, changes, faults>>

\* NetBox takes only an address that is assigned to an interface of the VM
SetPrimary ==
  /\ pc = "primary" /\ name \notin deleted /\ on[guest.id] = name
  /\ vm' = [vm EXCEPT ![name].primary = guest.id]
  /\ Leave
  /\ UNCHANGED <<cluster, dev, joined, rec, on, torn, changes, faults>>

-------------------------------------------------------------------------------
(* _mark_vanished                                                           *)

\* those of our records that no name in seen is the name of
Vanished == {n \in Names \ seen : vm[n].kind = "ours" /\ ~vm[n].stale}

ListVanished ==
  /\ pc = "nodes" /\ todo = {}
  /\ pc' = "mark" /\ gone' = Vanished
  /\ UNCHANGED <<cluster, netbox, todo, alive, at, listed, seen, guest, name, copy,
                 since, torn, changes, faults>>

\* add_tags writes the tags of the copy and this one
TagStale(n) ==
  /\ pc = "mark" /\ n \in gone \ deleted
  /\ vm' = [vm EXCEPT ![n].kind = "ours", ![n].stale = TRUE]
  /\ pc' = "offline" /\ name' = n /\ gone' = gone \ {n}
  /\ UNCHANGED <<cluster, dev, joined, rec, on, todo, alive, at, listed, seen, guest,
                 copy, since, torn, changes, faults>>

\* Mutant: the status is left as it is.
SetOffline_not ==
  /\ pc = "offline" /\ name \notin deleted
  /\ pc' = "mark" /\ name' = None
  /\ UNCHANGED <<cluster, netbox, todo, alive, at, listed, seen, guest, copy, gone,
                 since, torn, changes, faults>>

SetOffline ==
  /\ pc = "offline" /\ name \notin deleted
  /\ vm' = [vm EXCEPT ![name].up = FALSE]
  /\ pc' = "mark" /\ name' = None
  /\ UNCHANGED <<cluster, dev, joined, rec, on, todo, alive, at, listed, seen, guest,
                 copy, gone, since, torn, changes, faults>>

-------------------------------------------------------------------------------
(* The end of a pass                                                        *)

\* what is left of it is forgotten
Forget ==
  /\ pc' = "idle" /\ todo' = {} /\ alive' = {} /\ at' = None /\ listed' = {} /\ seen' = {}
  /\ guest' = None /\ name' = None /\ copy' = NoVm /\ gone' = {}
  /\ moved' = {} /\ deleted' = {} /\ taken' = {} /\ late' = {}

PassEnds ==
  /\ (pc = "mark" /\ gone = {}) \/ pc = "strayed"
  /\ Forget
  /\ UNCHANGED <<cluster, netbox, torn, changes, faults>>

\* a name that keeps one of two writes
Torn == IF pc \in {"untag", "offline"} THEN torn \cup {name} ELSE torn

\* NetBox refuses a write: the record is gone, the name or the address taken, the
\* node's device in no cluster or another one, or the address on another interface.
Refused ==
  /\ \/ pc = "mark" /\ gone \cap deleted # {}
     \/ pc = "offline" /\ name \in deleted
     \/ pc = "write" /\ IF copy.kind = "none" THEN ~Creatable
                        ELSE copy.kind = "ours" /\ ~Updatable
     \/ pc = "untag" /\ name \in deleted
     \/ pc \in {"attach", "add", "assign"} /\ Nic /\ name \in deleted
     \/ pc = "add" /\ rec[guest.id] # "none"
     \/ pc = "primary" /\ (name \in deleted \/ on[guest.id] # name)
  /\ Forget /\ torn' = Torn
  /\ UNCHANGED <<cluster, netbox, changes, faults>>

\* a call of Proxmox or of NetBox fails, or the process ends
Fails ==
  /\ pc # "idle" /\ faults < MaxFaults
  /\ Forget /\ torn' = Torn
  /\ faults' = faults + 1
  /\ UNCHANGED <<cluster, netbox, changes>>

-------------------------------------------------------------------------------
(* The cluster and the other users of NetBox                                *)

Change == changes < MaxChanges /\ changes' = changes + 1

\* created, destroyed or migrated; a new guest is stopped
Move(g, n) ==
  /\ Change /\ loc[g] # n /\ n \in online \cup {None}
  /\ loc' = [loc EXCEPT ![g] = n]
  /\ up' = [up EXCEPT ![g] = @ /\ n # None]
  /\ moved' = moved \cup {g}
  /\ UNCHANGED <<label, online, netbox, pass, deleted, taken, late, torn, faults>>

Power(g) ==
  /\ Change /\ loc[g] \in online
  /\ up' = [up EXCEPT ![g] = ~@]
  /\ UNCHANGED <<loc, label, online, netbox, pass, since, torn, faults>>

Rename(g, l) ==
  /\ Change /\ loc[g] \in online /\ label[g] # l
  /\ label' = [label EXCEPT ![g] = l]
  /\ moved' = moved \cup {g}
  /\ UNCHANGED <<loc, up, online, netbox, pass, deleted, taken, late, torn, faults>>

NodeFlips(n) ==
  /\ Change
  /\ online' = IF n \in online THEN online \ {n} ELSE online \cup {n}
  /\ moved' = moved \cup {g \in Guests : loc[g] = n}
  /\ UNCHANGED <<loc, up, label, netbox, pass, deleted, taken, late, torn, faults>>

InHand == gone \cup {name}

\* A person documents a VM, or makes a record of ours theirs by removing
\* the tags.
Document(n) ==
  /\ Change /\ vm[n].kind # "human"
  /\ vm' = [vm EXCEPT ![n].kind = "human"]
  /\ taken' = taken \cup ({n} \cap InHand)
  /\ UNCHANGED <<cluster, dev, joined, rec, on, pass, moved, deleted, late, torn, faults>>

\* a node, in the cluster or not
DocumentNode(n) ==
  /\ Change /\ dev[n] = "none"
  /\ dev' = [dev EXCEPT ![n] = "human"] /\ joined' \in {joined, joined \cup {n}}
  /\ UNCHANGED <<cluster, vm, rec, on, pass, since, torn, faults>>

\* A record is deleted, and with it its interfaces, and their addresses or not.
Delete(n) ==
  /\ Change /\ vm[n].kind # "none"
  /\ vm' = [vm EXCEPT ![n] = NoVm]
  /\ \E lost \in SUBSET {g \in Guests : on[g] = n} :
       rec' = [g \in Guests |-> IF g \in lost THEN "none" ELSE rec[g]]
  /\ on' = [g \in Guests |-> IF on[g] = n THEN None ELSE on[g]]
  /\ deleted' = deleted \cup ({n} \cap InHand)
  /\ torn' = torn \ {n}
  /\ UNCHANGED <<cluster, dev, joined, pass, moved, taken, late, faults>>

\* The dhcp module or a person records the address of a guest, or a person takes
\* its record over.
RecordAddress(g) ==
  /\ Change /\ rec[g] # "theirs"
  /\ rec' = [rec EXCEPT ![g] = "theirs"]
  /\ late' = IF pc = "assign" /\ guest.id = g THEN late \cup {g} ELSE late
  /\ UNCHANGED <<cluster, vm, dev, joined, on, pass, moved, deleted, taken, torn, faults>>

-------------------------------------------------------------------------------
PassStep ==
  \/ StartPass \/ ListNodes \/ NodeDone \/ UpdateVm \/ CreateVm \/ LeaveVm \/ UntagVm
  \/ Attach \/ NothingToAttach \/ FindAddress \/ AddAddress \/ AssignAddress
  \/ SetPrimary \/ ListVanished \/ SetOffline
  \/ PassEnds \/ Refused
  \/ \E n \in Nodes : SyncNode(n) \/ \E k \in Kinds : ListGuests(n, k)
  \/ \E e \in listed : ReadVm(e)
  \/ \E g \in Guests : Stray(g)
  \/ \E n \in Names : TagStale(n)

Next ==
  \/ PassStep \/ StartAstray \/ NoAnswer \/ Fails
  \/ \E g \in Guests : \/ Power(g) \/ RecordAddress(g)
                       \/ \E n \in Nodes \cup {None} : Move(g, n)
                       \/ \E l \in Labels \cup {None} : Rename(g, l)
  \/ \E n \in Nodes : NodeFlips(n) \/ DocumentNode(n)
  \/ \E n \in Names : Document(n) \/ Delete(n)

Spec == Init /\ [][Next]_vars

\* The scheduler runs pass after pass, and every call returns.
Fairness == WF_vars(PassStep)

-------------------------------------------------------------------------------
(* Properties                                                               *)

Listable(g) == loc[g] \in online /\ label[g] # None

\* A record is tagged stale only if no guest has borne its name, on a node that was
\* online, in one place during all of the pass.  (A guest without a name, on a node
\* that is offline, or that moves from a node not yet listed to one that was, is
\* tagged although it exists.)
StaleWasAbsent ==
  [][\A n \in Names :
       vm[n].kind = "ours" /\ ~vm[n].stale /\ vm'[n].stale
         => \A g \in Guests \ moved : Listable(g) => label[g] # n]_vars

\* No pass changes a record that is a person's when the pass reads it, nor the
\* assignment of an address that is another's when it is looked up.
OthersKept ==
  [][PassStep =>
       /\ \A n \in Names \ taken : vm[n].kind = "human" => vm'[n] = vm[n]
       /\ \A g \in Guests : rec[g] = "theirs" /\ on'[g] # on[g] => g \in late
       /\ \A g \in Guests : on'[g] \in Names \ taken /\ on'[g] # on[g]
                              => vm[on'[g]].kind = "ours"]_vars

\* g exists under a name of its own, and the record of that name is no person's
Alone(g) ==
  /\ Listable(g) /\ vm[label[g]].kind # "human"
  /\ \A h \in Guests \ {g} : loc[h] # None => label[h] # label[g]

Shown(g) ==
  LET r == IF label[g] = None THEN NoVm ELSE vm[label[g]]
  IN  r.kind = "ours" /\ ~r.stale /\ r.up = up[g] /\ (SiteKnown => r.node = loc[g])

\* NetBox refuses no pass for good: for a device of a node that is not in the cluster,
\* or an address on a device's interface that has the number of the guest's
Accepted ==
  /\ SiteKnown => \A n \in Nodes : dev[n] = "none" \/ n \in joined
  /\ \A g \in Twins : rec[g] # "theirs"

\* A guest that stays is in the end documented as it is, also when it was taken for
\* vanished before or a pass broke off between two writes; so is the state of a node.
ShownInTheEnd ==
  /\ \A g \in Guests : <>[](Alone(g) /\ Accepted) => <>[]Shown(g)
  /\ \A n \in Nodes : <>[](n \notin online) => <>[](dev[n] # "online")

\* Its address becomes the primary one of its record, unless the address is recorded
\* elsewhere or the record has another one, as after a rename: that is not replaced.
Addressed(g) ==
  /\ g \in Nics /\ up[g] /\ rec[g] # "theirs"
  /\ on[g] = None \/ on[g] = label[g]
  /\ vm[label[g]].primary \in {None, g}
HasPrimary(g) == label[g] # None /\ vm[label[g]].primary = g
PrimaryInTheEnd ==
  \A g \in Guests : <>[](Alone(g) /\ Accepted /\ Addressed(g)) => <>[]HasPrimary(g)

\* A record of ours whose guest is gone is stale and offline in the end, unless a
\* pass broke off between the two writes: no later one then makes up for the second.
GoneInTheEnd ==
  \A n \in Names :
    <>[](/\ vm[n].kind = "ours" /\ n \notin torn /\ Accepted
         /\ \A g \in Guests : loc[g] # None => NameOf(EntryOf(g)) # n)
    => <>[](vm[n].stale /\ ~vm[n].up)
================================================================================
