------------------------------- MODULE DhcpSync -------------------------------
(****************************************************************************)
(* The dhcp module (sync/dhcp.py) and the helpers of sync/common.py and     *)
(* clients/netbox.py it writes to NetBox with.                              *)
(*                                                                          *)
(* A pass polls the enabled sites one after the other, has a worker thread  *)
(* mirror the leases of each into NetBox, call by call, and another delete  *)
(* the records of leases that are gone.  Everything else moves between two  *)
(* calls: leases start and end, other modules and people write to NetBox, a *)
(* call fails, the pass is cancelled.  Cancelling the pass does not stop    *)
(* its thread, which goes on next to whatever passes come later.            *)
(*                                                                          *)
(* A host stands for its MAC address and its name; its interface is that of *)
(* a virtual machine or of a device, which appears and goes with its "eth0".*)
(* Site migration, custom fields and the prefix annotation are not          *)
(* represented, and an address has at most one record.                      *)
(****************************************************************************)
EXTENDS Integers

CONSTANTS Sites, Addrs, Hosts, None,
          Scope,           \* Scope[s]: the addresses of site s's DHCP scopes
          Resolved,        \* the sites for which NetBox has a site
          Leases,          \* the leases that a DHCP server may grant
          Number,          \* the id of an interface among those of its kind
          DeleteOnExpiry,  \* lifecycle.delete_dhcp_on_expiry
          MaxChanges,      \* bound on what happens outside the module, faults included
          MaxFaults        \* bound on failed calls and interrupted passes

VM(h)  == <<"vm", h>>     \* the virtual machine of host h, or its interface
Dev(h) == <<"dev", h>>    \* the device of host h, or its "eth0"
Ip(a)  == <<"ip", a>>     \* the record of address a
Iface  == {"vm", "dev"} \X Hosts
Objects == Iface \cup ({"ip"} \X Addrs)

ASSUME DhcpAssumption ==
  /\ Scope \in [Sites -> SUBSET Addrs] /\ Resolved \subseteq Sites
  /\ Leases \subseteq [kind: {"dynamic", "reserved"}, host: Hosts]
  /\ DeleteOnExpiry \in BOOLEAN
  /\ MaxChanges \in Nat /\ MaxFaults \in Nat
  /\ None \notin Addrs \cup Hosts \cup Iface \cup Sites

Threads == 0..MaxFaults  \* 0 works for the pass, the others were abandoned by one

NoLease == [kind |-> "none", host |-> None]
Lease == {NoLease} \cup Leases

\* What NetBox holds, as far as this module can tell it apart.  A record is
\* "ours" when it carries the managed and the src-dhcp tag, a virtual machine when
\* it carries the managed one.
NetBox == [ip:      [Addrs -> {"absent", "ours", "theirs"}],
           on:      [Addrs -> Iface \cup {None}],
           vm:      [Hosts -> {"none", "ours", "human"}],
           dev:     [Hosts -> {"none", "dhcp", "scan", "human"}],
           primary: [Iface -> Addrs \cup {None}]]

\* What a thread works on: the leases still to reconcile or the records still to
\* delete; and in the handler of a lease its next call, what its interface is and
\* which call completes the address.
Calls == {"duplicate", "drop", "look", "move", "device", "create",
          "find", "add", "assign", "link", "point"}
Job == [work:   {"none", "reconcile", "expire"},
        site:   Sites \cup {None},
        leases: [Addrs -> Lease],
        doomed: SUBSET Addrs,
        at:     {"next"} \cup Calls,
        addr:   Addrs \cup {None},
        iface:  Iface \cup {None},
        then:   {"done", "link", "point"},
        gone:   SUBSET Objects]   \* deleted by others since the thread read them

VARIABLES
  lease,    \* the DHCP servers' leases
  enabled,  \* the sites with a Technitium server and dhcp_enabled
  nb,       \* NetBox
  pc,       \* "idle", "poll", "reconcile" or "expire"
  toPoll,   \* sites of this pass still to poll
  listed,   \* the addresses in the answer of the site being reconciled
  seen,     \* all_active and all_reserved
  fetched,  \* the sites whose networks are in fetched_networks
  job,      \* what each thread works on
  held,     \* (history) leases there have been ever since this pass began
  spared,   \* (history) those of them that a thread's deletions must spare
  taken,    \* (history) what people took over since a thread read whose it was
  changes, faults

passVars == <<pc, toPoll, listed, seen, fetched, held>>
vars == <<lease, enabled, nb, passVars, job, spared, taken, changes, faults>>

TypeOK ==
  /\ lease \in [Sites -> [Addrs -> Lease]]
  /\ enabled \subseteq Sites
  /\ nb \in NetBox
  /\ pc \in {"idle", "poll", "reconcile", "expire"}
  /\ toPoll \subseteq Sites /\ fetched \subseteq Sites
  /\ listed \subseteq Addrs /\ seen \subseteq Addrs
  /\ job \in [Threads -> Job]
  /\ held \subseteq Sites \X Addrs /\ spared \in [Threads -> SUBSET (Sites \X Addrs)]
  /\ taken \in [Threads -> SUBSET Objects]
  /\ changes \in 0..MaxChanges /\ faults \in 0..MaxFaults

Leased(l) == {a \in Addrs : l[a] # NoLease}
NoLeases == [a \in Addrs |-> NoLease]
Nothing == [work |-> "none", site |-> None, leases |-> NoLeases, doomed |-> {},
            at |-> "next", addr |-> None, iface |-> None, then |-> "done", gone |-> {}]

Init ==
  /\ lease \in [Sites -> [Addrs -> Lease]]
  /\ \A s \in Sites : Leased(lease[s]) \subseteq Scope[s]
  /\ enabled = Sites
  /\ \E v \in [Hosts -> {"none", "ours", "human"}], d \in [Hosts -> {"none", "human"}] :
       nb = [ip |-> [a \in Addrs |-> "absent"], on |-> [a \in Addrs |-> None],
             vm |-> v, dev |-> d, primary |-> [i \in Iface |-> None]]
  /\ pc = "idle" /\ toPoll = {} /\ listed = {} /\ seen = {} /\ fetched = {} /\ held = {}
  /\ job = [t \in Threads |-> Nothing]
  /\ spared = [t \in Threads |-> {}] /\ taken = [t \in Threads |-> {}]
  /\ changes = 0 /\ faults = 0

-------------------------------------------------------------------------------
(* Threads                                                                  *)

Host(j) == j.leases[j.addr].host

\* the objects that are the thread's to write to, as it last read them
Trusts(j) ==
  ({"ip"} \X j.doomed)
  \cup (IF j.at \in {"move", "assign"} THEN {Ip(j.addr)} ELSE {})
  \cup (IF j.at = "drop" THEN {Dev(Host(j))} ELSE {})
  \cup (IF "point" \in {j.at, j.then} THEN {j.iface} \ {None} ELSE {})

\* those whose ids it has
Holds(j) ==
  Trusts(j) \cup ({j.iface} \ {None})
  \cup (IF j.at \in {"link", "point"} THEN {Ip(j.addr)} ELSE {})

\* the handler goes on to another call, or is done with its lease
Goes(j, at) ==
  LET k == IF at = "done"
           THEN [j EXCEPT !.at = "next", !.addr = None, !.iface = None, !.then = "done",
                          !.leases[j.addr] = NoLease]
           ELSE [j EXCEPT !.at = at]
  IN  [k EXCEPT !.gone = @ \cap Holds(k)]

\* what a write takes from NetBox
Removed(n, m) ==
  {Ip(a) : a \in {b \in Addrs : n.ip[b] # "absent" /\ m.ip[b] = "absent"}}
  \cup {Dev(h) : h \in {g \in Hosts : n.dev[g] # "none" /\ m.dev[g] = "none"}}

\* Thread t has done a call and goes on with job k.
Step(t, k) ==
  /\ job' = [s \in Threads |->
               IF s = t THEN k
               ELSE [job[s] EXCEPT !.gone = @ \cup (Removed(nb, nb') \cap Holds(job[s]))]]
  /\ taken' = [taken EXCEPT ![t] = @ \cap Trusts(k)]

\* A call of a handler that only reads
Reads(t, at) ==
  /\ UNCHANGED <<lease, enabled, nb, passVars, spared, changes, faults>>
  /\ Step(t, Goes(job[t], at))

\* A write: NetBox accepts it, or the handler is left by the exception.
Writes(t, accepted, n, at) ==
  /\ nb' = IF accepted THEN n ELSE nb
  /\ Step(t, Goes(job[t], IF accepted THEN at ELSE "done"))
  /\ UNCHANGED <<lease, enabled, passVars, spared, changes, faults>>

At(t, at) == job[t].work = "reconcile" /\ job[t].at = at

-------------------------------------------------------------------------------
(* find_interface_by_mac, upsert_ip and link_primary_ip                     *)

\* a virtual machine's interface is preferred
Match(n, h) == IF n.vm[h] # "none" THEN VM(h)
               ELSE IF n.dev[h] # "none" THEN Dev(h) ELSE None

Managed(n, i) == IF i[1] = "vm" THEN n.vm[i[2]] = "ours" ELSE n.dev[i[2]] \in {"dhcp", "scan"}

\* Interfaces are compared by their ids alone, whatever their kinds.
SameId(i, j) == i # None /\ j # None /\ Number[i] = Number[j]

\* NetBox clears the primary pointers to an address it deletes
Delete(n, addrs) ==
  [n EXCEPT !.ip = [a \in Addrs |-> IF a \in addrs THEN "absent" ELSE @[a]],
            !.on = [a \in Addrs |-> IF a \in addrs THEN None ELSE @[a]],
            !.primary = [i \in Iface |-> IF @[i] \in addrs THEN None ELSE @[i]]]

\* NetBox refuses to reassign an address while it is the primary one of a parent,
\* and an interface that is gone
Assignable(n, j) ==
  /\ {Ip(j.addr), j.iface} \cap j.gone = {}
  /\ n.on[j.addr] # j.iface => \A i \in Iface : n.primary[i] # j.addr

\* mutant: the lookup is forgotten and the record taken over as it is found
Upsert_takeover(n, j) ==
  IF n.ip[j.addr] = "absent" THEN "add"
  ELSE IF j.iface = None THEN "done"
  ELSE IF n.on[j.addr] # j.iface THEN "assign" ELSE j.then

\* mutant: the primary address is linked only when the record is created
Upsert_linkNew(n, j) ==
  CASE n.ip[j.addr] = "absent" -> "add"
    [] n.ip[j.addr] = "ours" /\ n.on[j.addr] = None /\ j.iface # None -> "assign"
    [] OTHER -> "done"

\* upsert_ip has the record: create it, complete one of ours that is assigned
\* nowhere, or see to the primary address if it is assigned to the interface
Upsert(n, j) ==
  CASE n.ip[j.addr] = "absent" -> "add"
    [] n.ip[j.addr] = "ours" /\ n.on[j.addr] = None /\ j.iface # None -> "assign"
    [] n.ip[j.addr] # "absent" /\ SameId(n.on[j.addr], j.iface) -> j.then
    [] OTHER -> "done"

Find(t) == At(t, "find") /\ Reads(t, Upsert(nb, job[t]))

\* NetBox has one record of an address; the refusal of another is swallowed
Add(t) ==
  /\ At(t, "add")
  /\ LET j == job[t]
     IN  Writes(t, nb.ip[j.addr] = "absent" /\ j.iface \notin j.gone,
                [nb EXCEPT !.ip[j.addr] = "ours", !.on[j.addr] = j.iface],
                IF j.iface = None THEN "done" ELSE j.then)

Assign(t) ==
  /\ At(t, "assign")
  /\ LET j == job[t]
     IN  Writes(t, Assignable(nb, j), [nb EXCEPT !.on[j.addr] = j.iface], j.then)

\* link_primary_ip reads the parent anew
Link(t) ==
  /\ At(t, "link")
  /\ LET i == job[t].iface
     IN  Reads(t, IF Managed(nb, i) /\ nb.primary[i] = None /\ i \notin job[t].gone
                  THEN "point" ELSE "done")

\* mutant: the pointer is given the interface instead of the address
Point_iface(t) ==
  /\ At(t, "point")
  /\ LET j == job[t]
     IN  Writes(t, {Ip(j.addr), j.iface} \cap j.gone = {} /\ nb.on[j.addr] = j.iface,
                [nb EXCEPT !.primary[j.iface] = j.iface], "done")

\* the parent's update; NetBox wants the address to be assigned to the parent
Point(t) ==
  /\ At(t, "point")
  /\ LET j == job[t]
     IN  Writes(t, {Ip(j.addr), j.iface} \cap j.gone = {} /\ nb.on[j.addr] = j.iface,
                [nb EXCEPT !.primary[j.iface] = j.addr], "done")

-------------------------------------------------------------------------------
(* _attach_reservation_to_vm                                                *)

FindDuplicate(t) ==
  /\ At(t, "duplicate")
  /\ Reads(t, IF nb.dev[Host(job[t])] = "dhcp" THEN "drop" ELSE "look")

\* NetBox may delete the records assigned to the device's interface with it, or
\* leave them where they point.
DropDuplicate(t) ==
  /\ At(t, "drop")
  /\ LET h == Host(job[t])
         bare == [nb EXCEPT !.dev[h] = "none", !.primary[Dev(h)] = None]
     IN  \E addrs \in {{}, {a \in Addrs : nb.on[a] = Dev(h)}} :
           Writes(t, Dev(h) \notin job[t].gone, Delete(bare, addrs), "look")

FindLeftover(t) ==
  /\ At(t, "look")
  /\ LET a == job[t].addr
     IN  Reads(t, IF nb.ip[a] = "ours" /\ ~SameId(nb.on[a], job[t].iface)
                  THEN "move" ELSE "find")

Move(t) ==
  /\ At(t, "move")
  /\ LET j == job[t]
     IN  Writes(t, Assignable(nb, j), [nb EXCEPT !.on[j.addr] = j.iface], "find")

-------------------------------------------------------------------------------
(* ensure_host_device                                                       *)

\* mutant: a device that exists already is left as it is
EnsureHostDevice_known(n, j) == IF n.dev[Host(j)] = "none" THEN "create" ELSE "done"

\* A person's device is left alone, and none is made at a site NetBox does not have.
EnsureHostDevice(n, j) ==
  CASE n.dev[Host(j)] = "human" -> "done"
    [] n.dev[Host(j)] \in {"dhcp", "scan"} -> "find"
    [] n.dev[Host(j)] = "none" /\ j.site \in Resolved -> "create"
    [] OTHER -> "done"

\* the rest works on the device as it is now: whether it has a primary address is
\* not read again
OnDevice(j, bare) ==
  [j EXCEPT !.iface = Dev(Host(j)), !.then = IF bare THEN "point" ELSE "done"]

FindDevice(t) ==
  /\ At(t, "device")
  /\ LET j == job[t]
         to == EnsureHostDevice(nb, j)
         k == OnDevice(j, nb.primary[Dev(Host(j))] = None)
     IN  nb' = nb /\ Step(t, Goes(IF to = "find" THEN k ELSE j, to))
  /\ UNCHANGED <<lease, enabled, passVars, spared, changes, faults>>

\* NetBox refuses a second device of the name
CreateDevice(t) ==
  /\ At(t, "create")
  /\ LET j == job[t]
         h == Host(j)
     IN  IF nb.dev[h] = "none"
         THEN nb' = [nb EXCEPT !.dev[h] = "dhcp"] /\ Step(t, Goes(OnDevice(j, TRUE), "find"))
         ELSE nb' = nb /\ Step(t, Goes(j, "done"))
  /\ UNCHANGED <<lease, enabled, passVars, spared, changes, faults>>

-------------------------------------------------------------------------------
(* _reconcile_site                                                          *)

\* A lease is taken up: its interface is looked up.  A failure of that is swallowed
\* and means that there is none.
TakeUp(t, a, i) ==
  /\ At(t, "next") /\ job[t].leases[a] # NoLease
  /\ UNCHANGED <<lease, enabled, nb, passVars, spared>>
  /\ LET l == job[t].leases[a]
         j == [job[t] EXCEPT !.addr = a]
         onIface == [j EXCEPT !.iface = i, !.then = "link"]
     IN  Step(t, IF l.kind = "dynamic" THEN [onIface EXCEPT !.at = "find"]
                 ELSE IF i # None /\ i[1] = "vm" THEN [onIface EXCEPT !.at = "duplicate"]
                 ELSE [j EXCEPT !.at = "device"])

BeginLease(t, a) ==
  TakeUp(t, a, Match(nb, job[t].leases[a].host)) /\ UNCHANGED <<changes, faults>>

\* at most MaxFaults, and MaxChanges together with the changes around
Fault == /\ faults < MaxFaults /\ faults' = faults + 1
         /\ changes < MaxChanges /\ changes' = changes + 1

LookupFails(t, a) == TakeUp(t, a, None) /\ Fault

\* one of its calls raises; the lease still counts as active or reserved
LeaseFails(t) ==
  /\ job[t].work = "reconcile" /\ job[t].at # "next"
  /\ UNCHANGED <<lease, enabled, nb, passVars, spared>>
  /\ Step(t, Goes(job[t], "done"))
  /\ Fault

\* all leases of a site that a pass has abandoned are through
SiteLeft(t) ==
  /\ t # 0 /\ At(t, "next") /\ Leased(job[t].leases) = {}
  /\ UNCHANGED <<lease, enabled, nb, passVars, spared, changes, faults>>
  /\ Step(t, Nothing)

-------------------------------------------------------------------------------
(* DhcpSync.run                                                             *)

StartPass ==
  /\ pc = "idle" /\ enabled # {}
  /\ pc' = "poll"
  /\ toPoll' = enabled
  /\ held' = {p \in Sites \X Addrs : lease[p[1]][p[2]] # NoLease}
  /\ UNCHANGED <<lease, enabled, nb, listed, seen, fetched, job, spared, taken,
                 changes, faults>>

\* the site answers list_dhcp_scopes and list_dhcp_leases
Poll(s) ==
  /\ pc = "poll" /\ s \in toPoll
  /\ pc' = "reconcile"
  /\ toPoll' = toPoll \ {s}
  /\ listed' = Leased(lease[s])
  /\ job' = [job EXCEPT ![0] = [Nothing EXCEPT !.work = "reconcile", !.site = s,
                                               !.leases = lease[s]]]
  /\ UNCHANGED <<lease, enabled, nb, seen, fetched, held, spared, taken, changes, faults>>

\* it does not answer, or the annotation of its prefixes raises
PollFails(s) ==
  /\ pc = "poll" /\ s \in toPoll
  /\ toPoll' = toPoll \ {s}
  /\ Fault
  /\ UNCHANGED <<lease, enabled, nb, pc, listed, seen, fetched, held, job, spared, taken>>

SiteDone ==
  /\ pc = "reconcile" /\ job[0].at = "next" /\ Leased(job[0].leases) = {}
  /\ pc' = "poll"
  /\ seen' = seen \cup listed /\ listed' = {}
  /\ fetched' = fetched \cup {job[0].site}
  /\ job' = [job EXCEPT ![0] = Nothing]
  /\ UNCHANGED <<lease, enabled, nb, toPoll, held, spared, taken, changes, faults>>

\* mutant: the deletion is not scoped to the networks of this pass
Expired_everywhere(n, leased, polled) ==
  {a \in Addrs : n.ip[a] = "ours" /\ a \notin leased}

\* The records _delete_expired goes for.  They are decided on the objects
\* filter_tagged returned when it began, the assignment included.
Expired(n, leased, polled) ==
  {a \in Addrs : /\ n.ip[a] = "ours"
                 /\ a \notin leased
                 /\ n.on[a] = None \/ n.on[a][1] # "dev"
                 /\ \E s \in polled : a \in Scope[s]}

\* run returns, or is left by an exception: its locals are gone
Return ==
  /\ pc' = "idle" /\ toPoll' = {} /\ listed' = {} /\ seen' = {} /\ fetched' = {}
  /\ held' = {}

\* The thread must spare what has been under lease at a site this pass has polled,
\* or in no network that it has polled.
BeginExpiry ==
  /\ pc = "poll" /\ toPoll = {} /\ DeleteOnExpiry /\ fetched # {}
  /\ pc' = "expire"
  /\ job' = [job EXCEPT ![0] = [Nothing EXCEPT !.work = "expire",
                                               !.doomed = Expired(nb, seen, fetched)]]
  /\ spared' = [spared EXCEPT ![0] =
       {p \in held : p[1] \in fetched \/ \A s \in fetched : p[2] \notin Scope[s]}]
  /\ held' = {}
  /\ UNCHANGED <<lease, enabled, nb, toPoll, listed, seen, fetched, taken, changes, faults>>

\* expiry is off, or no site has answered
SkipExpiry ==
  /\ pc = "poll" /\ toPoll = {} /\ ~(DeleteOnExpiry /\ fetched # {})
  /\ Return
  /\ UNCHANGED <<lease, enabled, nb, job, spared, taken, changes, faults>>

\* the thread is done with its deletions; the pass that waits for it, too
Expires(t) ==
  /\ Step(t, Nothing)
  /\ spared' = [spared EXCEPT ![t] = {}]
  /\ IF t = 0 THEN Return ELSE UNCHANGED passVars

\* of a record that is gone already, the deletion raises
DeleteExpired(t, a) ==
  /\ a \in job[t].doomed
  /\ IF Ip(a) \in job[t].gone THEN nb' = nb /\ Expires(t)
     ELSE /\ nb' = Delete(nb, {a})
          /\ Step(t, [job[t] EXCEPT !.doomed = @ \ {a}])
          /\ UNCHANGED <<passVars, spared>>
  /\ UNCHANGED <<lease, enabled, changes, faults>>

ExpiryEnds(t) ==
  /\ job[t].work = "expire" /\ job[t].doomed = {}
  /\ nb' = nb
  /\ Expires(t)
  /\ UNCHANGED <<lease, enabled, changes, faults>>

\* A deletion raises, the loop is cancelled while no thread works for it, or the
\* process ends: the pass keeps nothing.
PassAborts ==
  /\ pc # "idle"
  /\ Return
  /\ job' = [job EXCEPT ![0] = Nothing]
  /\ spared' = [spared EXCEPT ![0] = {}] /\ taken' = [taken EXCEPT ![0] = {}]
  /\ Fault
  /\ UNCHANGED <<lease, enabled, nb>>

\* The pass is cancelled while it waits for its thread, which goes on alone.
PassCancelled ==
  /\ pc \in {"reconcile", "expire"}
  /\ Return
  /\ Fault
  /\ job' = [job EXCEPT ![faults'] = job[0], ![0] = Nothing]
  /\ spared' = [spared EXCEPT ![faults'] = spared[0], ![0] = {}]
  /\ taken' = [taken EXCEPT ![faults'] = taken[0], ![0] = {}]
  /\ UNCHANGED <<lease, enabled, nb>>

-------------------------------------------------------------------------------
(* What happens around it                                                   *)

Change == changes < MaxChanges /\ changes' = changes + 1

\* a lease starts, ends, or is given to another host
LeaseChanges(s, a) ==
  /\ Change
  /\ a \in Scope[s]
  /\ \E l \in Lease \ {lease[s][a]} :
       /\ lease' = [lease EXCEPT ![s][a] = l]
       /\ held' = IF l = NoLease THEN held \ {<<s, a>>} ELSE held
       /\ spared' = IF l = NoLease THEN [t \in Threads |-> spared[t] \ {<<s, a>>}] ELSE spared
  /\ UNCHANGED <<enabled, nb, pc, toPoll, listed, seen, fetched, job, taken, faults>>

\* dhcp_enabled of a site is switched; the engine restarts the loop
SiteSwitched(s) ==
  /\ Change /\ pc = "idle"
  /\ enabled' = IF s \in enabled THEN enabled \ {s} ELSE enabled \cup {s}
  /\ UNCHANGED <<lease, nb, passVars, job, spared, taken, faults>>

\* the proxmox module or a person documents a virtual machine
GuestAppears(h) ==
  /\ Change /\ nb.vm[h] = "none"
  /\ \E k \in {"ours", "human"} : nb' = [nb EXCEPT !.vm[h] = k]
  /\ UNCHANGED <<lease, enabled, passVars, job, spared, taken, faults>>

\* discovery or a person documents a device
DeviceAppears(h) ==
  /\ Change /\ nb.dev[h] = "none"
  /\ \E k \in {"scan", "human"} : nb' = [nb EXCEPT !.dev[h] = k]
  /\ UNCHANGED <<lease, enabled, passVars, job, spared, taken, faults>>

\* a person takes an object over by untagging it, or documents an address
PersonTakes(o) ==
  /\ Change
  /\ \/ o[1] = "ip" /\ nb.ip[o[2]] # "theirs" /\ nb' = [nb EXCEPT !.ip[o[2]] = "theirs"]
     \/ o[1] = "vm" /\ nb.vm[o[2]] = "ours" /\ nb' = [nb EXCEPT !.vm[o[2]] = "human"]
     \/ o[1] = "dev" /\ nb.dev[o[2]] \in {"dhcp", "scan"}
        /\ nb' = [nb EXCEPT !.dev[o[2]] = "human"]
  /\ taken' = [t \in Threads |-> taken[t] \cup ({o} \cap Trusts(job[t]))]
  /\ UNCHANGED <<lease, enabled, passVars, job, spared, faults>>

-------------------------------------------------------------------------------
\* what a thread does next
Call(t) ==
  \/ \E a \in Addrs : BeginLease(t, a) \/ DeleteExpired(t, a)
  \/ Find(t) \/ Add(t) \/ Assign(t) \/ Link(t) \/ Point(t)
  \/ FindDuplicate(t) \/ DropDuplicate(t) \/ FindLeftover(t) \/ Move(t)
  \/ FindDevice(t) \/ CreateDevice(t) \/ SiteLeft(t) \/ ExpiryEnds(t)

PassStep ==
  \/ StartPass \/ SiteDone \/ BeginExpiry \/ SkipExpiry \/ Call(0)
  \/ \E s \in Sites : Poll(s)

Faults ==
  \/ PassAborts \/ PassCancelled
  \/ \E s \in Sites : PollFails(s)
  \/ \E t \in Threads : LeaseFails(t) \/ \E a \in Addrs : LookupFails(t, a)

Around ==
  \/ \E s \in Sites : SiteSwitched(s) \/ \E a \in Addrs : LeaseChanges(s, a)
  \/ \E h \in Hosts : GuestAppears(h) \/ DeviceAppears(h)
  \/ \E o \in Objects : PersonTakes(o)

Next == PassStep \/ (\E t \in Threads \ {0} : Call(t)) \/ Faults \/ Around

Spec == Init /\ [][Next]_vars

\* The scheduler starts pass after pass and a pass goes through its sites.  Threads
\* that a pass has abandoned may take for ever.
FairSpec == Spec /\ WF_vars(PassStep)

-------------------------------------------------------------------------------
(* Properties                                                               *)

\* The deletion of expired records never removes the record of an address that has
\* been under lease ever since its pass began, whichever sites failed to answer or
\* were switched off, whichever leases could not be written, and also when the pass
\* was cancelled and the thread went on: if the site of the lease has been polled,
\* or the networks of no polled site contain the address.
LeasedKept ==
  [][\A t \in Threads, a \in Addrs :
       DeleteExpired(t, a) /\ (\E s \in Sites : <<s, a>> \in spared[t]) =>
         nb'.ip[a] = nb.ip[a]]_vars

\* A thread, abandoned or not, never deletes, reassigns or claims a record that is
\* not the module's, nor deletes another author's device or points one or a
\* person's virtual machine at an address; except what a person took over after the
\* thread read whose it was, and the records on a device it drops.
OthersUntouched ==
  [][\A t \in Threads : Call(t) =>
       /\ \A a \in Addrs : nb.ip[a] = "theirs" /\ Ip(a) \notin taken[t] =>
            \/ nb'.ip[a] = "theirs" /\ nb'.on[a] = nb.on[a]
            \/ \E h \in Hosts : nb.on[a] = Dev(h) /\ nb.dev[h] # "none" /\ nb'.dev[h] = "none"
       /\ \A h \in Hosts : Dev(h) \notin taken[t] =>
            /\ nb.dev[h] \in {"scan", "human"} => nb'.dev[h] = nb.dev[h]
            /\ nb.dev[h] = "human" => nb'.primary[Dev(h)] \in {nb.primary[Dev(h)], None}
       /\ \A h \in Hosts : nb.vm[h] = "human" /\ VM(h) \notin taken[t] =>
            nb'.primary[VM(h)] \in {nb.primary[VM(h)], None}]_vars

\* When leases, sites, NetBox's other authors and the network come to rest, NetBox
\* ends up mirroring the leases of the enabled sites: each has a record, unless it
\* is a reservation of a device that a person documented, or that has no site in
\* NetBox to be made at; and no record of a lease that is gone remains outside the
\* devices.
EventuallyMirrored ==
  <>[](\A s \in enabled : \A a \in Scope[s] :
        /\ lease[s][a] # NoLease =>
             \/ nb.ip[a] # "absent"
             \/ /\ lease[s][a].kind = "reserved"
                /\ \/ nb.dev[lease[s][a].host] = "human"
                   \/ nb.dev[lease[s][a].host] = "none" /\ s \notin Resolved
        /\ DeleteOnExpiry /\ nb.ip[a] = "ours" =>
             \/ \E t \in enabled : lease[t][a] # NoLease
             \/ \E h \in Hosts : nb.on[a] = Dev(h))

\* A virtual machine of this service whose leased address is assigned to it has a
\* primary address in the end, also after the deletion of an older one has cleared
\* the pointer.
EventuallyLinked ==
  <>[](\A s \in enabled : \A a \in Scope[s] : \A h \in Hosts :
        nb.vm[h] = "ours" /\ lease[s][a] # NoLease /\ lease[s][a].host = h
          /\ nb.on[a] = VM(h) => nb.primary[VM(h)] # None)
================================================================================
