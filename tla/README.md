# netbox-monitor: a verification project

netbox-monitor is one asyncio process that keeps NetBox (a network inventory) in step with what it
observes: DHCP leases, ping answers, Proxmox guests, LLDP neighbours, certificates. The modules here
are TLA+ specifications of its own logic, translated from `src/src/netbox_monitor/` (paths below are
relative to that directory), with the TLC configurations that check them and TLAPS proofs about them.
`PROJECT.json` maps every definition to the lines it stands for.

## The system

    settings.json <-> SettingsStore <- web handlers (saves, imports, run-now, cleanup)
                            |  generation                     |
                            v                                 v
                      Engine.run --- run_scheduler --- one _loop task per sync module
                                                              |  asyncio.to_thread
                                                              v
      Technitium, Proxmox, switches, hosts  --->  dhcp dns discovery availability
                                                  proxmox lldp certs  --->  NetBox (REST)
                                                              |
                                                          state.db (SQLite)

Everything runs on one event loop, so code between two awaits is atomic with respect to the other
tasks; work on NetBox runs in worker threads, one REST call at a time under the client's lock, so
*two loops interleave call by call*. The lock protects the HTTP session, not a read-then-write.

| component | state | operations | what makes it correct | hard because |
|---|---|---|---|---|
| Engine, scheduler (`scheduler.py`) | the generation in force, reload event, triggers, loop tasks, calls in threads | rebuild on a new generation, start and cancel loops, run-now, stop | one configuration in force at a time, the newest in the end; accepted requests are served; shutdown completes | cancellation reaches tasks but not threads; wake-ups through events |
| Settings store (`settings_store.py`) | configuration in memory, settings.json, .tmp, .bak, generation | bootstrap, replace, update_field | a reported save is durable, an import recoverable, start-up never clobbers | crashes and failing calls between any two file operations |
| DHCP sync (`sync/dhcp.py`) | one pass's sets; NetBox's IPs, devices, primary pointers | poll, reconcile each lease, delete expired | never deletes a live lease's record, touches only its own, converges | partial failure per site and per lease, leases that move meanwhile |
| Availability (`sync/availability.py`, `state.py`) | last_seen, first-down marks, the stale tag and status | ping, tag, untag, delete after grace | no tag or deletion before its time, recovery | writes from old copies, passes cut short |
| Certificates (`sync/certs.py`) | copies of devices and their tags | probe, write tags | does not undo others' tags | same tag list as availability |
| LLDP crawl (`sync/lldp.py`) | queue, visited sets, credential cache, switches, MACs, cables | crawl, authenticate, merge duplicates, cable | no human record is lost, one device per chassis, bounded log-ins | stale handles in the queue, partial merges |
| Discovery, DNS (`sync/discovery.py`, `sync/dns.py`) | none of their own | scan targets, document hosts, names | scans only what it may | range arithmetic |
| Proxmox (`sync/proxmox.py`) | guests seen in this pass | mirror guests, tag the vanished | a guest that exists is not stale | nodes that do not answer |
| Cleanup (`sync/cleanup.py`) | what is left to handle, counts, addresses counted | inventory, bulk delete, preview | deletes only what is ours, undisturbed it deletes and counts what it selected, once | one call per object while others write, two ways to one address |
| Configuration transfer (`config_transfer.py`, `config.py`) | none | export, redact, migrate, import, merge back | no secret misplaced, none lost unreported | rows matched by identity, identities that changed |
| Web UI (`webui/`) | the configuration, through the store; sessions | forms, exports, imports, run-now, cleanup | a blank field keeps its own secret and no other | forms from stale tabs, rows reordered and repeated |
| Context, bootstrap, status, clients, drivers | | I/O | | |

## What is modelled, and how it corresponds to the code

**`HotReload`** is the abstract promise: at most one generation of the configuration is in force, the
newest when it is taken, and given up only for a newer one or for shutdown; both happen in the end.

**`Engine`** is `scheduler.py`. An action is what a task does between two awaits. `pc` is the await
`Engine.run` is at; `loop[g][m]` is the `_loop` task of module m started by the iteration of generation
g; `thread` holds the `asyncio.to_thread` bodies in progress, which stay there when their task is
cancelled, because cancelling abandons a thread and cannot stop it: it goes on with all the requests its
body still has to make. What these do to NetBox is in `DhcpSync` and `Availability`; here they only come
to their end. The run-now button, the saving handlers and SIGTERM are actions of the environment. `Engine`
refines `HotReload` under the mapping "in force = `live` while between reading a generation and closing
its context".

**`SettingsStore`** is `settings_store.py`: one action per file operation (open the temporary file, fill
it, rename it; open and fill the backup), any of which can raise or be the last before a crash. `Init`
covers a fresh volume and a settings.json of an older schema, with every combination of the
environment variables that steer start-up. The first password is checked for, its form is awaited, and only
then is it stored (`BeginSetUp`, `RefuseSetUp`, `SetUpPassword`), so that two such requests can overlap.

**`DhcpSync`** is `sync/dhcp.py` with `find_interface_by_mac`, `upsert_ip`, `link_primary_ip` and
`ensure_host_device`. An action is *one call to NetBox*. `job[t]` is what thread t works on: the leases it
has still to reconcile or the records it has still to delete, and within a lease's handler the next call
(`at`) with what the earlier ones have read. Thread 0 works for the pass; a pass that is cancelled while
it waits for its thread leaves it behind as one of the others (`PassCancelled`), and it goes on beside
whatever passes come later; an exception or the end of the process ends both (`PassAborts`). `Upsert`,
`EnsureHostDevice` and `Match` are what the helpers decide from what they read; the write comes in a later
step, so leases, guests, devices and people can move in between: a person takes an object over
(`PersonTakes`), and the write overwrites or deletes it all the same (`taken` notes it). The code's
omissions are there: a device is not made at a site NetBox does not have (`Resolved`), a person's virtual
machine gets no primary address, interfaces are compared by their ids whatever their kinds (`SameId`), a
failing lookup of a MAC is swallowed and means "none" (`LookupFails`). NetBox refuses to reassign an
address that is a parent's primary one (`Assignable`; the comment at `sync/lldp.py:684` quotes its
message). `_delete_expired` decides on the records it read when it began; they are the job's `doomed`.

**`Availability`** is `sync/availability.py` over `state.py`, one action per write, and `sync/certs.py`
as the other module that rewrites the same devices' tag lists. The writes for one device are handed to a
worker thread, `thread[0]`, for which the pass waits; a cancelled pass leaves it behind
(`PassCancelled`), to go on next to later passes with the copy it was given. `copy` and `held` are the
tags of the copies the pass and certs work on, read at the start of theirs. Dates in the database are
ages, advanced by `Tick`; `lag` is how long ago the pings of the pass came in. Of two devices with one
primary address only the one listed last is pinged (`After`, `Pinged`). `torn`, `lost` and `late` are
history: devices at which a pass was cut off or that certs overwrote, devices with an answer no pass has
recorded, threads left behind whose host has answered another pass since.

**`LldpCrawl`** is the crawl of one site (`sync/lldp.py`), pass after pass. `nb` is the part of NetBox
it works on: devices with their kind (a person's, discovery's, the crawl's own), their names, the devices
that carry a MAC address, and the addresses' records. A *box* is a physical switch with any number of MAC
addresses; the model knows which box answers at which address, the code only learns it through names and
MACs. A target in the queue holds `copy`, the device as it was read when the target was queued, or none
if the neighbour had no device and the NetBox site is not resolved; `cur` is the target in hand. The first
of the box's MACs that another device carries makes a duplicate (`Duplicate`). A merge lists the loser's
records (`BeginMerge`), releases its primary address (`ReleasePrimary`), moves the records (`MoveAddress`)
and deletes it (`FinishMerge`), one call each; the creation of a switch makes the device, looks its
address up and writes it (`CreateSwitch`, `FindAddress`, `AddAddress`). Others write in between: they
document and delete, and people take over devices and records that the crawl holds an older copy of
(`late`). Which device is kept goes by the fixed tag "lldp-source", not by the configured one
(`DefaultTag`). A write to a device that is gone raises: inside a merge that is a failed merge, outside it
ends the crawl of the site (`CrawlRaises`). Lookups and records of a MAC that fail are swallowed, as in
the code.

**`Proxmox`** is the mirror of one Proxmox cluster (`sync/proxmox.py`). The cluster (`loc`, `up`, `label`,
`online`) changes between any two calls; the pass reads it node by node (`todo`), list by list (`at`,
`listed`), and remembers in `seen` the names it came across. `vm` holds the records of NetBox by name,
because by name is how the code finds them; `copy` is the record as it was read, from which every later
write of the call is computed. A guest's address is attached call by call (`Attach`, `FindAddress`,
`AddAddress` or `AssignAddress`) and made primary in a further one (`SetPrimary`). A guest without a name
has a record under a fallback name but leaves only its number in `seen`, as in lines 122 and 184. A pass
that cannot ask for the cluster's name takes the host's for it (`StartAstray`, `clients/proxmox.py:37-43`):
it documents guests in another cluster (`Stray`), and a node that is new gets its device there, for good.
NetBox refuses a virtual machine on a device that is not in its cluster (`joined`), which ends that pass and
every later one. `moved`, `taken`, `late` and `torn` are history variables: what changed under the pass's
feet, and where a pass broke off between two writes.

**`WebConfig`** is what the web handlers that save do to the configuration (`webui/app.py`), with
`config_transfer.py` and the migration of `config.py`. `cfg` is the configuration in force: sites by id,
each with its server's token, its LLDP secrets and its Proxmox rows, the NetBox token and the credential
profiles. A handler has no await between reading the store and writing it and is one action; the form it
gets may come from any tab, so its rows are arbitrary. `file` is an export at hand: of this instance or
another, with its secrets or redacted, flat (the first schema) or of a schema to come. A secret is
represented by the place it was typed for (its *home*), the server's URL that stood beside it there, and a
number, so that "whose secret is this, and for which server" can be asked of any state. The URL is no part
of what the code matches rows and secrets by. `SettingsStore` is the way of the same configuration to disk,
where its content does not matter.

**`Cleanup`** is one cleanup (`sync/cleanup.py`, `delete_managed`): a kind is listed (`List`), what is
listed is judged and deleted object by object (`Skip`, `Take`, `DeleteAddress`, `DeleteParent`,
`DeleteListed`), one call each, while sync modules and people add, adopt, move and delete. NetBox may
delete what hangs off a device or a virtual machine with it, or only detach it (`Vanishes`). `copies`
are the hosts and parents as the list gave them. `Init` is any NetBox and any request. NetBox refuses to
delete a device that hosts a virtual machine, and deleting what is gone raises; `Raises` ends the request
anywhere.

## Runs

| run | instance | states | shows |
|---|---|---|---|
| `engine` | 2 modules, 4 configurations, 2 saves | 101 000 | loops of two configurations never coexist, no accepted request is swallowed, shutdown and every newest configuration are reached; `Engine` implements `HotReload` |
| `settings` | 2 forms of 2 values, 2 saves per process, 2 first-password forms | 1.9 million | reported saves are durable, imports recoverable, a serving process is seeded on disk, start-up never clobbers |
| `dhcp` | 2 sites, one unknown to NetBox, networks {a1} and {a1, a2}, 2 hosts, 2 outside changes and faults, of these 1 fault | 419 000 | no record of a live lease is deleted but as stated, nothing of another author is touched, NetBox converges to the leases, virtual machines get their primary address |
| `availability` | 1 device, stale after 2 ticks, deleted after 3, 1 interruption | 349 000 | tag and status agree, nobody is tagged or deleted early, a host that stays down (up) is tagged (untagged) in the end |
| `lldp` | a core, a switch with 2 addresses and 2 MACs, an excluded router without, 2 outside changes, 1 fault | 1.4 million | merges leave people's devices and records alone and lose no switch but as listed below, nobody is logged in to twice, every reported switch is documented in the end |
| `proxmox` | a VM and a container, 2 nodes, one name, 2 outside changes, 1 fault | 773 000 | no guest that stays is taken for vanished, nobody else's records change, NetBox converges to the cluster, the vanished end up stale and offline |
| `webconfig` | 1 site with 2 Proxmox hosts, 2 profiles, 2 URLs, 3 names for 2 ids, 4 files to begin with, 2 forms, 1 typed secret | 849 000 | no secret gets to another place, or beside another URL but as stated, none comes back, an import reports what it loses, an edit loses nothing |
| `cleanup` | 2 devices of 2 sites, a virtual machine with the id of one, 2 addresses, a cable, 1 outside change | 1.9 million | nothing a person has is deleted but as stated; undisturbed, a cleanup deletes and counts each selected object once, and a preview counts the same |
| `availability_tag_lost` | 1 device, no fault | violation | a host that is back stays offline because its stale tag was overwritten |
| `lldp_merge_aborts` | as `lldp`, 2 seeds, no fault | violation | two seeds that are one switch end the crawl of the site |
| `webconfig_same_id` | as `webconfig` | violation | a new site replaces the one whose id its name gives |
| `cleanup_site` | as `cleanup` | violation | a cleanup of one site deletes an address of another |

### Bounds, and why they are enough

`MaxGen`, `MaxSaves`, `MaxChanges`, `MaxFaults` and `MaxLag` are the only bounds; each is a conjunct of the
action that consumes it. In `engine`, two saves give an iteration that is torn down while the next one's
configuration is already superseded, and two modules give a loop that ends before its sibling. In
`settings`, two saves give a failing save after a reported one and an edit after an import, two forms let
one password come while the other is awaited; crashes and failing calls are unbounded. In `dhcp`, two sites
are needed for a roaming host and for a site that is not polled, one network inside the other for what the
pass of one does to the leases of the other; two hosts give an address that changes owner, and a virtual
machine's interface with the number of a device's. `MaxChanges` bounds outside changes and faults together:
two changes take an object over in mid-handler and end a lease, or move a lease past a thread left behind;
one fault leaves one thread behind. `MCInit` names the host of the first lease and starts without devices,
which the passes and one change bring. In `availability`, devices share nothing but an address, and the fact
that an exception for one ends the pass for the others, and `PassAborts` can happen before any device is
handled; ages beyond the grace period are alike, so they stop at `Cap`. Two devices with one address are in
the model and the proofs and in no run. In `lldp`, the second address of the switch is what duplicates come
from, its second MAC address is what a second duplicate comes from, two changes document both addresses
apart, or document one and take it over or delete it, and one fault breaks one merge; `Devs` bounds what is
created (`Room`) and is larger than any pass needs, and the ids of deleted devices are taken up again when
no copy of them is left. `MaxSwitches` is the number of hosts that can be logged in to, `MaxDepth` reaches
the core again from its neighbours. The first seed is the core, named by a person or found nameless by
discovery, or a person's device for the switch without the name the switch sends: in the last case two
devices bear one box from the start, and a merge meets a keeper that is not the crawl's. The site is
unresolved at first only with a core that a person named, or later by a rebuilt context. In `proxmox`, two
nodes let a guest move from a list still to come to one that is past, two guests let names meet and part,
one VM and one container give both lists of a node and both ways to learn an address, and an address that
another guest had; two changes remove a guest and bring it back, or move one while a record is taken over;
`MCInit` names the VM `web` and puts it on the first node, which loses only the names' and nodes' symmetric
variants and the start with both guests on one node, which one change reaches. In `webconfig`, one form
types a secret and another, from a stale tab, can reorder, drop or repeat rows around it, before, between or
after any number of exports and imports, which are not bounded; the two hosts and two profiles are what rows
can be confused among, and the names are one that gives the existing id, one that gives it in other letters,
and one that gives a new id. In `cleanup`, one outside change comes between any two calls; `MCInit` lets one
device and one address be a person's (or the address to come) and one object fail the other filters, any
virtual machine run anywhere and any address hang off anything. Deadlock checking is off where the system
may come to rest (after SIGTERM, when the one cleanup has ended, or when the bounded environment is used
up).

### Fairness

The event loop runs ready tasks, timers fire and the watcher polls, so the engine, its loops and returning
calls are weakly fair (the requests to NetBox have no time limit, so that a call returns is an assumption;
one that never did would hold up its loop and, by the client's lock, the others); a pass that can end again
and again ends (strong fairness, because a pass enters and leaves NetBox calls). The scheduler starts pass
after pass, so the steps of a pass and time are weakly fair in `DhcpSync` and `Availability`, the steps of a
crawl in `LldpCrawl`, those of a pass in `Proxmox`. Nothing in the environment is fair: leases, hosts, saves
and people act when they like. `certs` is not fair either, since nothing promised depends on it, nor are
threads that a cancelled pass left behind: they may take for ever. Faults are bounded, so convergence is
stated for failures that cease; one that recurs for one device in every pass hides the devices behind it in
`availability`, and no property speaks of it. Convergence is stated for an environment that has come to
rest, as "from some point on".

## Proofs

TLAPS proves, for every value of the constants that meets the named assumptions:

* `EngineProofs`: type correctness; `OneIteration`, `RequestNotLost`, `NoOrphanTrigger`,
  `OnlyTheLivingStartThreads` (only a pass of the iteration in force hands work to a thread, so the
  abandoned threads run out; what requests they make until then it does not say) and `EngineHotReloads`,
  that every step of `Engine` is a step of `HotReload` or a stutter. The inductive invariant relates `pc` to
  the tasks: outside scheduling and draining every task of every generation is over, later generations have
  none, and a set trigger belongs to an existing task. Without "later generations have none", creating the
  tasks of a new iteration could revive old ones. `NothingWaitsInVain` is the safety half of the liveness
  runs: a pass awaits only a call that is executing, and a teardown waits for no NetBox call.
* `SettingsStoreProofs`: type correctness, durability, recoverability of imports, seeding, and that
  start-up never clobbers. The invariant says, for every point between two system calls, which of the
  file, the temporary file, the backup and memory hold which of the last reported, the attempted and
  the replaced configuration; in particular a file is only ever replaced by a *completed* temporary one.
* `DhcpSyncProofs`: type correctness call by call (`WellFormed`: what a handler has found out by the time
  of each of its calls), and two properties of every thread, left behind or not. `LeasesAreKept`: an
  address in `held` (leased since the pass began) is still leased; while its site is being reconciled it is
  among those `listed`, and once its site has been polled among those `seen`; so what a thread must spare
  is never among its `doomed`, which lie in networks of polled sites only. Nothing is assumed of the
  networks: an address of an unpolled site is spared if no polled network contains it, and else it is not.
  `OthersAreSpared`: between reading whose an object is and writing to it a thread is `Honest`, that is, the
  object still is the service's, or is gone, or was taken over in between; and every write is `Careful` of
  what is not in the thread's hands and `Mild` to the other threads, so that they stay honest.

* `LldpCrawlProofs`: types; no host is logged in to twice in a crawl (the invariant keeps the host in hand,
  visited but not counted yet, one ahead of the counter); and people's devices and records are left alone.
  For the last one `Honest` says what the crawl's copies are still good for: a device that was managed when
  it was read is managed yet, or gone, or was taken over since (`Truthful`, `CopiesAreTrue`); a record on a
  merge's list is no person's unless it was taken over since, and still on the loser unless NetBox
  unassigned it (`MergeIsFair`); and what the creation of a switch found at its address is still so, but
  for its owner (`MakingIsFair`). `NoBoxIsLost` is about every step of a crawl. Most only add to what
  documents a switch (`Grows`), and a merge moves records to a keeper that NetBox has. What deletes is the
  end of a merge, which has two different devices and a polled switch with known MAC addresses (`TwoSided`):
  what stood for that switch on the loser, the next write records on the keeper. Attempting the proof showed
  that the property as first stated, without its exceptions, was false of the code; see below.

* `ProxmoxProofs`: types, and that a record is tagged stale only if no guest has borne its name in one
  place during all of the pass. `StaleWasAbsent` relates the end of a pass to its beginning; the
  invariant (`Accounted`) fills what lies between: a guest that has not moved is on a node still to be
  listed, a container of the node in hand whose VMs are being handled, an entry of the list in hand, or
  its name has been seen. `Stages` says that nothing is left to come when the vanished are listed.
  `InHandIsOurs` says that a record the pass works on was ours when it was read, and is yet unless it has
  been deleted or taken over since; the same goes for the address in hand.

* `AvailabilityProofs`: types, that the stale tag goes with the status, and that nobody is tagged or deleted
  early. `InStep` says for every device where tag and status may part: between the two writes of the
  pass's thread, after it was cut off there, after an overwritten tag list. `Silence` bounds the age in the
  database by the real silence, except for an answer that is still to be handled or was dropped, and keeps
  for every thread, however long it lingers, the silence that its decision rests on, unless its host has
  answered another pass since (`late`).

* `WebConfigProofs`: types, and the four properties of the run. `ProperConfig` says that each secret in
  force is where it was typed for; `FileInv` that a file that can be imported carries the configuration it
  was made from, whole or with its secrets hidden, and nothing typed later. Import then comes down to one
  lemma per level (leaf, rows, site, configuration) about merging a hidden copy of one configuration into
  another. `SecretsAtHome` adds to it how a token comes to stand beside a URL it was not typed for:
  `ForeignLeaf` and `ForeignSite` trace each such token to the place it was at before. `ComesBack` is about
  the operators alone: importing an export restores the configuration and reports nothing, with its secrets
  on any instance, redacted on its own, where no list has a key twice.

* `CleanupProofs`: types, and that no cleanup deletes what a person has, but what was taken over after it
  was read and the addresses NetBox deletes with their device. The invariant (`HandIsOurs`): whatever is
  left to handle of the list in hand (`todo`, `cur`, `addrs`) is ours, gone or `late`. `ShownIsDone` is
  `DoesWhatItShows`, the exact account of a cleanup nobody disturbs. Its invariant `Exact` recomputes the
  plan from the state in mid-cleanup (`PlanIsKnown`), says that of each kind the plan but for what is left
  is gone or, in a preview, nothing is (`Deletes`), that the counters count just that (`Counts`), and where
  each address that is not handled yet will be met: in hand, under a parent still to come, or on the list of
  addresses (`Pending`). It takes that NetBox is finite and numbers no two devices alike.
  `SitesAreKeptApart` proves the property that the run `cleanup_site` refutes, under the one hypothesis that
  no virtual machine has the id of a device: this is all there is to that finding.

Every invariant and every action property of a passing run is now proved. Only model-checked are the
liveness properties (`StopsWhenAsked`, `RequestAnswered`, the liveness half of `ImplementsHotReload`,
`EveryBoxDocumented`, `EventuallyMirrored`, `StaleInTheEnd` and their like): they rest on fairness, which is
out of the prover's reach.

## Where code and documentation part

Four violation runs, each of one property that a document, a comment or a test states; "findings" in
`PROJECT.json` quotes the lines. A stale tag that certificate monitoring overwrote leaves a device offline;
a merge of switches that fails because its device is gone ends the crawl of the site; a new site whose name
gives an existing id replaces that site, as the check for it comes too late; and a cleanup of one site
deletes addresses of virtual machines of another, because an address's parent is looked up among the
devices whatever it is.

Disagreements that the models contain and no run is spent on:

* A hot reload does not wait for threads in progress: one of the old configuration goes on, request by
  request, under the new one. What is checked of it: it deletes no live lease's record and nothing of
  another author (`DhcpSync`), and NetBox converges beside it. But it does not learn of an answer that a
  later pass gets, and tags or deletes the host all the same (`late` in `Availability`).
* Where the networks of two sites overlap and only one of the two is polled (the other does not answer, or
  is disabled), the live leases of the other inside the polled network are taken for expired and deleted;
  `sync/dhcp.py:251-253` says they are "left alone". The code scopes deletion by network only
  (`sync/dhcp.py:63-97`); hence the condition in `LeasedKept`.
* An object that a person takes over between the read and the write of a module is overwritten, moved or
  deleted: `sync/dhcp.py:186-224` and `sync/common.py:100-133` (`taken` in `DhcpSync`), `sync/proxmox.py:225`
  (`taken`, `late` in `Proxmox`), `sync/lldp.py:647-649`, 668, 703, 711 with `clients/netbox.py:126-129`
  (`late` in `LldpCrawl`), `sync/cleanup.py` (`late` in `Cleanup`). "Human-created objects are never
  touched" (`README.md:36` and 205 of the repository) holds but for this window, and for records that
  NetBox deletes with a device of the service that they hang off (the duplicate that a reservation drops,
  `sync/dhcp.py:193`; a cleanup, below). NetBox offers no compare-and-delete.
* A token stays where it is when only the URL beside it changes: a form with a blank token field keeps it
  (`webui/app.py:285-288`, 785-791), and a redacted import puts the instance's own token beside the file's
  URL (`config_transfer.py:205-207`). The next pass sends it to that server, against "a wrong credential
  sent to a real host is worse than a missing one" (`config_transfer.py:170-171`) and "a saved credential
  is only ever forwarded to the URL it belongs to" (`webui/app.py:720-721`, of the connection tests).
  `SecretsStayHome` shows that these, and files that have their secrets so, are the only ways.
* Whether an address is on the right interface is told by the interface's number alone: that of a virtual
  machine is taken for the device's of the same number (`sync/dhcp.py:201`, `sync/common.py:193`,
  `sync/proxmox.py:291`). The dhcp module then leaves such an address where it is; in the proxmox module
  NetBox refuses the primary address, and every pass ends there (`Twins`, excluded by `Accepted`).
* One pass that could not ask for the cluster's name documents a new node in the wrong cluster, and every
  later pass ends at the first guest on it (`StartAstray`; `Accepted` excludes it from convergence). So
  does a node that a person or another module documented outside the cluster (`sync/proxmox.py:157-158`,
  200-211).
* A save that failed stays in force in memory, and the next save persists it (`SettingsStore`).
* An address that moves to another host stays assigned to its first one (`DhcpSync`, `sync/dhcp.py:3-5`).
* "The next run retries" a failed merge (`sync/lldp.py:624`) only if it polls the other device: after the
  failure both devices carry the MAC address, a lookup returns the older one, and that one is then no
  duplicate of itself (`Duplicate` in `LldpCrawl`).
* An import of a redacted file blanks the importing instance's secret, unreported, where the exported
  configuration had none (`Hidden` leaves an empty value empty; `README.md:227-230` of the repository
  says existing secrets are kept). `LostIsReported` is about secrets the file's configuration had.
* Of two rows with one key, a form keeps the last one's secret and an import the first one's.
* A cleanup of all kinds stops with an error at the first managed device that hosts a virtual machine,
  because devices come before virtual machines; the preview counts it nonetheless. With a filter by site,
  it leaves addresses of virtual machines that belong to the site.
* A merge can take a switch out of NetBox in two ways (the exceptions of `NoBoxLost`; a later crawl finds
  the switch again if something still reports it). It notices that its keeper has been deleted only when it
  has an address to move to it, and deletes a loser without addresses all the same (the journal entry at
  `sync/lldp.py:710` is best-effort). And what stood for another switch on the loser (its name, its MAC
  address, or an address assigned to it after line 667 listed them) goes with the loser. Failing calls, at
  whatever write of a merge, lose nothing.
* Deleting a managed device detaches a person's address from it or, as NetBox deletes what hangs off the
  device's interfaces, deletes it (`sync/cleanup.py:187-188`; a merge of switches refuses in that case,
  `sync/lldp.py:668-671`). An address documented between reading a parent's addresses and deleting the
  parent goes the same way (`Cleanup`).

Behaviours of the models that no document speaks of, and no property forbids: every pass tags a Proxmox
guest without a name stale and offline, and the next one takes it back; the guests of a node that is
offline are tagged until it is back; a pass that breaks off between tag and status leaves a vanished
guest's record stale but active for good (hence `torn` in `GoneInTheEnd`); a guest's record that already
has a primary address keeps it when the guest's own changes (`PrimaryInTheEnd` says so); a reservation at a
site NetBox does not have gets no device and no record (`EventuallyMirrored` says so).

## Plan

1. `LldpAttempts`: building and trying the list of (driver, credential) pairs for one host, as functions
   over a small set of profiles; at most `max_auth_attempts` log-ins, SNMP tried when it could work.
2. `HostDevice`: `ensure_host_device` with names, MACs and sites, called by dhcp and discovery at once:
   duplicates by check-then-create, devices that move between sites.
3. `_build_targets` of discovery against a reference definition over bounded ranges; `build_context` that
   raises and ends the engine's task.
4. Proofs: that a merge left half-way is one the next crawl can finish (`LldpCrawl`); that what `DhcpSync`
   and `Proxmox` write in an undisturbed pass is exactly what they saw, as for `Cleanup`.

## Not modelled, and why

Parsers of switch output, the HTTP clients, the vendor table, logging and rendering have no protocol
state. Validation of configurations is data; so are the settings that hold no secret. Sessions and log-in
(`webui/auth.py`), key derivation and the cipher of an encrypted export are not represented: an encrypted
file is one that has its secrets. Of cleanup, the page that lists what there is changes nothing; a cable
is taken to outlive the devices it joins, which only makes the count of cables exact. The dns module
writes one field per address from a resolver's answer and is idempotent. NetBox itself appears only as
far as the code relies on it: an update replaces what it names, deleting a record clears pointers to it,
deleting a device may delete what hangs off it. That a NetBox may reject an address inside a populated
range (`sync/common.py:114`) is not represented: it would excuse the address from `EventuallyMirrored`.
Nor are custom fields and descriptions, which the dhcp module refreshes on others' records as well
(`sync/common.py:134`), or a second record of an address that NetBox may be set to admit. Of LLDP,
neighbours without a name and MAC addresses that a switch shares with a virtual machine are left out; of
availability, a certificate write still under way in a thread left behind when the next pass of certs begins.
