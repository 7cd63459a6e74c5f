---------------------------- MODULE DhcpSyncProofs ----------------------------
(****************************************************************************)
(* What TLAPS proves of DhcpSync, for every set of sites, addresses, hosts  *)
(* and leases, and every assignment of scopes to the sites: they may        *)
(* overlap.                                                                 *)
(****************************************************************************)
EXTENDS DhcpSync, TLAPS

(* The writes to NetBox keep it a NetBox.                                   *)

LEMMA IfaceType ==
  ASSUME NEW h \in Hosts
  PROVE  VM(h) \in Iface /\ Dev(h) \in Iface
BY DEF VM, Dev, Iface

LEMMA MatchType ==
  ASSUME NEW n \in NetBox, NEW h \in Hosts
  PROVE  Match(n, h) \in Iface \cup {None}
BY IfaceType DEF Match

LEMMA DeleteType ==
  ASSUME NEW n \in NetBox, NEW gone
  PROVE  Delete(n, gone) \in NetBox
BY DEF NetBox, Delete

-------------------------------------------------------------------------------
(* Jobs.                                                                    *)

\* what a handler has found out by the time of each of its calls
WellFormed(j) ==
  /\ j.at # "next" => j.addr \in Addrs /\ j.leases[j.addr] # NoLease
  /\ j.at \in {"duplicate", "drop", "look", "move"} => j.iface \in Iface /\ j.then = "link"
  /\ j.at \in {"assign", "link", "point"} => j.iface \in Iface
  /\ j.at \in {"next", "device", "create"} => j.iface = None /\ j.then = "done"
  /\ j.then = "point" => j.iface \in Iface

\* a call that job j may go on to
Fits(j, at) ==
  /\ at \in {"duplicate", "drop", "look", "move"} => j.iface \in Iface /\ j.then = "link"
  /\ at \in {"assign", "link", "point"} => j.iface \in Iface
  /\ at \in {"device", "create"} => j.iface = None /\ j.then = "done"

LEMMA NothingType == Nothing \in Job /\ WellFormed(Nothing)
BY DEF Nothing, NoLeases, NoLease, Lease, Job, WellFormed

LEMMA HostType ==
  ASSUME NEW j \in Job, WellFormed(j), j.at # "next"
  PROVE  Host(j) \in Hosts /\ j.addr \in Addrs
BY DhcpAssumption DEF Host, Job, WellFormed, Lease

\* Of a job that goes on, the place in the handler changes; of one that is done
\* with its lease, the lease is gone.
LEMMA GoesType ==
  ASSUME NEW j \in Job, j.then = "point" => j.iface \in Iface, j.addr \in Addrs,
         NEW at \in Calls \cup {"done"},
         Fits(j, at), at # "done" => j.leases[j.addr] # NoLease
  PROVE  /\ Goes(j, at) \in Job /\ WellFormed(Goes(j, at))
         /\ Goes(j, at).work = j.work /\ Goes(j, at).site = j.site
         /\ Goes(j, at).doomed = j.doomed
<1>1. CASE at = "done"
  <2> DEFINE k == [j EXCEPT !.at = "next", !.addr = None, !.iface = None, !.then = "done",
                            !.leases[j.addr] = NoLease]
  <2>1. [j.leases EXCEPT ![j.addr] = NoLease] \in [Addrs -> Lease]
    BY DEF Job, Lease
  <2>2. k \in Job /\ k.at = "next" /\ k.then = "done" /\ k.iface = None
    BY <2>1 DEF Job
  <2>3. k.work = j.work /\ k.site = j.site /\ k.doomed = j.doomed
    BY DEF Job
  <2>4. Goes(j, at) = [k EXCEPT !.gone = @ \cap Holds(k)]
    BY <1>1 DEF Goes
  <2> HIDE DEF k
  <2> QED
    BY <2>2, <2>3, <2>4 DEF Job, WellFormed
<1>2. CASE at # "done"
  <2> DEFINE k == [j EXCEPT !.at = at]
  <2>1. /\ k \in Job /\ k.at = at /\ k.addr = j.addr /\ k.leases = j.leases
        /\ k.iface = j.iface /\ k.then = j.then
        /\ k.work = j.work /\ k.site = j.site /\ k.doomed = j.doomed
    BY <1>2 DEF Job
  <2>2. Goes(j, at) = [k EXCEPT !.gone = @ \cap Holds(k)]
    BY <1>2 DEF Goes
  <2> HIDE DEF k
  <2>3. at # "next"
    BY <1>2 DEF Calls
  <2>4. WellFormed(k)
    BY <1>2, <2>1, <2>3 DEF WellFormed, Fits
  <2> QED
    BY <2>1, <2>2, <2>4 DEF Job, WellFormed
<1> QED
  BY <1>1, <1>2

-------------------------------------------------------------------------------
(* Type correctness.                                                        *)

TInv == /\ TypeOK
        /\ \A t \in Threads : WellFormed(job[t])
        /\ pc = "reconcile" => job[0].site \in Sites

\* what a step of one thread does to the jobs
LEMMA StepType ==
  ASSUME TInv, NEW t \in Threads, NEW k \in Job, WellFormed(k), Step(t, k)
  PROVE  /\ job' \in [Threads -> Job] /\ taken' \in [Threads -> SUBSET Objects]
         /\ \A s \in Threads : WellFormed(job'[s])
         /\ job'[t] = k
         /\ \A s \in Threads \ {t} : job'[s].site = job[s].site /\ job'[s].doomed = job[s].doomed
<1> DEFINE other(s) == [job[s] EXCEPT !.gone = @ \cup (Removed(nb, nb') \cap Holds(job[s]))]
<1>1. ASSUME NEW s \in Threads
      PROVE  /\ other(s) \in Job /\ WellFormed(other(s))
             /\ other(s).site = job[s].site /\ other(s).doomed = job[s].doomed
  <2>1. job[s] \in Job /\ WellFormed(job[s])
    BY DEF TInv, TypeOK
  <2>2. Removed(nb, nb') \in SUBSET Objects
    BY DEF Removed, Objects, Iface, Ip, Dev
  <2> QED
    BY <2>1, <2>2 DEF Job, WellFormed
<1>2. job' = [s \in Threads |-> IF s = t THEN k ELSE other(s)]
  BY DEF Step
<1> HIDE DEF other
<1>3. taken' \in [Threads -> SUBSET Objects]
  BY DEF Step, TInv, TypeOK
<1> QED
  BY <1>1, <1>2, <1>3

\* Thread t goes on with a job: one of fewer records to delete, at the same site if
\* the pass waits for it.
Sound(t) ==
  /\ TInv'
  /\ \E k \in Job :
       /\ WellFormed(k) /\ Step(t, k)
       /\ k.doomed \subseteq job[t].doomed
       /\ \/ passVars' = passVars /\ (t = 0 => k.site = job[t].site)
          \/ Return
  /\ lease' = lease
  /\ \/ spared' = spared
     \/ spared' = [spared EXCEPT ![t] = {}]

LEMMA CallType ==
  ASSUME TInv, NEW t \in Threads, NEW k \in Job, WellFormed(k), Step(t, k),
         k.site = job[t].site, k.doomed \subseteq job[t].doomed, nb' \in NetBox,
         UNCHANGED <<lease, enabled, passVars, spared>>,
         changes' \in 0..MaxChanges, faults' \in 0..MaxFaults
  PROVE  Sound(t)
<1>1. /\ job' \in [Threads -> Job] /\ taken' \in [Threads -> SUBSET Objects]
      /\ \A s \in Threads : WellFormed(job'[s])
      /\ job'[0].site = job[0].site
  <2>1. 0 \in Threads
    BY DhcpAssumption DEF Threads
  <2> QED
    BY <2>1, StepType
<1>2. TInv'
  BY <1>1 DEF TInv, TypeOK, passVars
<1> QED
  BY <1>2 DEF Sound

\* the calls that only read, and those that write
LEMMA ReadsType ==
  ASSUME TInv, NEW t \in Threads, NEW at \in Calls \cup {"done"}, Reads(t, at),
         job[t].at # "next", Fits(job[t], at)
  PROVE  Sound(t)
<1> DEFINE k == Goes(job[t], at)
<1>1. job[t] \in Job /\ WellFormed(job[t])
  BY DEF TInv, TypeOK
<1>2. k \in Job /\ WellFormed(k) /\ k.site = job[t].site /\ k.doomed = job[t].doomed
  BY <1>1, GoesType DEF WellFormed
<1>3. Step(t, k) /\ UNCHANGED <<lease, enabled, nb, passVars, spared, changes, faults>>
  BY DEF Reads
<1> HIDE DEF k
<1>4. /\ nb' \in NetBox /\ changes' \in 0..MaxChanges /\ faults' \in 0..MaxFaults
      /\ UNCHANGED <<lease, enabled, passVars, spared>>
  BY <1>3 DEF TInv, TypeOK
<1> QED
  BY <1>2, <1>3, <1>4, CallType

LEMMA WritesType ==
  ASSUME TInv, NEW t \in Threads, NEW accepted \in BOOLEAN, NEW n \in NetBox,
         NEW at \in Calls \cup {"done"}, Writes(t, accepted, n, at),
         job[t].at # "next", Fits(job[t], at)
  PROVE  Sound(t)
<1> DEFINE to == IF accepted THEN at ELSE "done"
           k == Goes(job[t], to)
<1>1. /\ job[t] \in Job /\ WellFormed(job[t]) /\ to \in Calls \cup {"done"}
      /\ Fits(job[t], to)
  BY DEF TInv, TypeOK, Fits
<1>2. k \in Job /\ WellFormed(k) /\ k.site = job[t].site /\ k.doomed = job[t].doomed
  BY <1>1, GoesType DEF WellFormed
<1>3. /\ nb' = IF accepted THEN n ELSE nb
      /\ Step(t, k) /\ UNCHANGED <<lease, enabled, passVars, spared, changes, faults>>
  BY DEF Writes
<1> HIDE DEF k, to
<1>4. /\ nb' \in NetBox /\ changes' \in 0..MaxChanges /\ faults' \in 0..MaxFaults
      /\ UNCHANGED <<lease, enabled, passVars, spared>>
  BY <1>3 DEF TInv, TypeOK
<1> QED
  BY <1>2, <1>3, <1>4, CallType

\* which calls may follow upsert_ip's look at the record
LEMMA UpsertTo ==
  ASSUME NEW n \in NetBox, NEW j \in Job
  PROVE  /\ Upsert(n, j) \in {"add", "assign", "done", j.then}
         /\ Upsert(n, j) \in {"assign", "link", "point"} => j.iface \in Iface
BY DEF Upsert, SameId, Job

\* the job of a lease that is taken up
LEMMA TakeUpJob ==
  ASSUME TInv, NEW t \in Threads, NEW a \in Addrs, NEW i \in Iface \cup {None},
         TakeUp(t, a, i)
  PROVE  \E k \in Job : /\ WellFormed(k) /\ Step(t, k)
                        /\ k.site = job[t].site /\ k.doomed = job[t].doomed
                        /\ k.at \in {"find", "duplicate", "device"} /\ k.then # "point"
<1> DEFINE l == job[t].leases[a]
           j == [job[t] EXCEPT !.addr = a]
           onIface == [j EXCEPT !.iface = i, !.then = "link"]
           k == IF l.kind = "dynamic" THEN [onIface EXCEPT !.at = "find"]
                ELSE IF i # None /\ i[1] = "vm" THEN [onIface EXCEPT !.at = "duplicate"]
                ELSE [j EXCEPT !.at = "device"]
<1>1. job[t] \in Job /\ job[t].at = "next" /\ l # NoLease
  BY DEF TInv, TypeOK, TakeUp, At
<1>2. Step(t, k)
  BY DEF TakeUp
<1>3. job[t].iface = None /\ job[t].then = "done"
  BY <1>1 DEF TInv, WellFormed
<1>4. /\ k \in Job /\ k.site = job[t].site /\ k.doomed = job[t].doomed
      /\ k.addr = a /\ k.leases = job[t].leases
  BY <1>1 DEF Job, Calls
<1>5. \/ k.at = "find" /\ k.then = "link"
      \/ k.at = "duplicate" /\ k.then = "link" /\ k.iface = i /\ i # None
      \/ k.at = "device" /\ k.iface = None /\ k.then = "done"
  BY <1>1, <1>3 DEF Job
<1> HIDE DEF k
<1>6. WellFormed(k)
  BY <1>1, <1>4, <1>5 DEF WellFormed
<1> QED
  BY <1>2, <1>4, <1>5, <1>6

LEMMA TakeUpType ==
  ASSUME TInv, NEW t \in Threads, NEW a \in Addrs, NEW i \in Iface \cup {None},
         TakeUp(t, a, i), changes' \in 0..MaxChanges, faults' \in 0..MaxFaults
  PROVE  Sound(t)
<1>1. UNCHANGED <<lease, enabled, passVars, spared>> /\ nb' \in NetBox
  BY DEF TakeUp, TInv, TypeOK
<1> QED
  BY <1>1, TakeUpJob, CallType

LEMMA TInvInit == Init => TInv
<1> SUFFICES ASSUME Init PROVE TInv
  OBVIOUS
<1>1. nb \in NetBox
  BY DEF Init, NetBox
<1>2. Threads # {} /\ 0 \in Threads
  BY DhcpAssumption DEF Threads
<1>3. /\ job \in [Threads -> Job] /\ \A t \in Threads : WellFormed(job[t])
      /\ spared \in [Threads -> SUBSET (Sites \X Addrs)]
      /\ taken \in [Threads -> SUBSET Objects]
  BY NothingType DEF Init
<1> QED
  BY <1>1, <1>3, DhcpAssumption DEF Init, TInv, TypeOK

LEMMA OnDeviceType ==
  ASSUME NEW j \in Job, Host(j) \in Hosts, NEW bare \in BOOLEAN
  PROVE  /\ OnDevice(j, bare) \in Job /\ OnDevice(j, bare).iface \in Iface
         /\ OnDevice(j, bare).addr = j.addr /\ OnDevice(j, bare).leases = j.leases
         /\ OnDevice(j, bare).site = j.site /\ OnDevice(j, bare).doomed = j.doomed
BY IfaceType DEF OnDevice, Job

\* a thread is done
LEMMA LeavesType ==
  ASSUME TInv, NEW t \in Threads, Step(t, Nothing), nb' \in NetBox,
         lease' = lease, enabled' = enabled, (passVars' = passVars /\ t # 0) \/ Return,
         spared' = spared \/ spared' = [spared EXCEPT ![t] = {}],
         changes' = changes, faults' = faults
  PROVE  Sound(t)
<1>1. /\ job' \in [Threads -> Job] /\ taken' \in [Threads -> SUBSET Objects]
      /\ \A s \in Threads : WellFormed(job'[s])
      /\ t # 0 => job'[0].site = job[0].site
  <2>1. 0 \in Threads
    BY DhcpAssumption DEF Threads
  <2> QED
    BY <2>1, StepType, NothingType
<1>2. spared' \in [Threads -> SUBSET (Sites \X Addrs)]
  BY DEF TInv, TypeOK
<1>3. ASSUME passVars' = passVars, t # 0 PROVE TInv'
  BY <1>1, <1>2, <1>3 DEF TInv, TypeOK, passVars
<1>4. ASSUME Return PROVE TInv'
  BY <1>1, <1>2, <1>4 DEF TInv, TypeOK, Return
<1>5. TInv'
  BY <1>3, <1>4
<1>6. Nothing.doomed = {}
  BY DEF Nothing
<1> QED
  BY <1>5, <1>6, NothingType DEF Sound, Return

LEMMA ExpiresType ==
  ASSUME TInv, NEW t \in Threads, Expires(t), nb' = nb,
         UNCHANGED <<lease, enabled, changes, faults>>
  PROVE  Sound(t)
<1>1. nb' \in NetBox
  BY DEF TInv, TypeOK
<1>2. CASE t = 0
  BY <1>1, <1>2, LeavesType DEF Expires, Return
<1>3. CASE t # 0
  BY <1>1, <1>3, LeavesType DEF Expires, passVars
<1> QED
  BY <1>2, <1>3

LEMMA CallIsSound ==
  ASSUME TInv, NEW t \in Threads, Call(t)
  PROVE  Sound(t)
<1> DEFINE j == job[t]
<1>0. j \in Job /\ WellFormed(j) /\ nb \in NetBox
  BY DEF TInv, TypeOK
<1>1. ASSUME NEW a \in Addrs, BeginLease(t, a) PROVE Sound(t)
  <2>1. job[t].leases[a].host \in Hosts
    BY <1>0, <1>1, DhcpAssumption DEF BeginLease, TakeUp, Job, Lease
  <2>2. Match(nb, job[t].leases[a].host) \in Iface \cup {None}
    BY <1>0, <2>1, MatchType
  <2> QED
    BY <1>1, <2>2, TakeUpType DEF BeginLease, TInv, TypeOK
<1>2. ASSUME NEW a \in Addrs, DeleteExpired(t, a) PROVE Sound(t)
  <2>1. CASE Expires(t) /\ nb' = nb
    BY <1>2, <2>1, ExpiresType DEF DeleteExpired
  <2>2. CASE nb' = Delete(nb, {a}) /\ Step(t, [j EXCEPT !.doomed = @ \ {a}])
             /\ UNCHANGED <<passVars, spared>>
    <3> DEFINE k == [j EXCEPT !.doomed = @ \ {a}]
    <3>1. k \in Job /\ WellFormed(k) /\ k.site = j.site /\ k.doomed \subseteq j.doomed
      BY <1>0 DEF Job, WellFormed
    <3>2. nb' \in NetBox
      BY <1>0, <2>2, DeleteType
    <3>3. Step(t, k) /\ UNCHANGED <<lease, enabled, passVars, spared, changes, faults>>
      BY <1>2, <2>2 DEF DeleteExpired
    <3> HIDE DEF k
    <3> QED
      BY <3>1, <3>2, <3>3, CallType DEF TInv, TypeOK
  <2> QED
    BY <1>2, <2>1, <2>2 DEF DeleteExpired
<1>3. CASE Find(t)
  <2>1. /\ j.at = "find" /\ Reads(t, Upsert(nb, j))
    BY <1>3 DEF Find, At
  <2>2. /\ Upsert(nb, j) \in {"add", "assign", "done", j.then}
        /\ Upsert(nb, j) \in {"assign", "link", "point"} => j.iface \in Iface
    BY <1>0, UpsertTo
  <2>3. Upsert(nb, j) \in {"add", "assign", "done", "link", "point"}
    BY <1>0, <2>2 DEF Job
  <2> QED
    BY <2>1, <2>2, <2>3, ReadsType DEF Calls, Fits
<1>4. CASE Add(t)
  <2> DEFINE n == [nb EXCEPT !.ip[j.addr] = "ours", !.on[j.addr] = j.iface]
             to == IF j.iface = None THEN "done" ELSE j.then
             ok == nb.ip[j.addr] = "absent" /\ j.iface \notin j.gone
  <2>1. j.at = "add" /\ Writes(t, ok, n, to)
    BY <1>4 DEF Add, At
  <2>2. n \in NetBox
    BY <1>0 DEF NetBox, Job
  <2>3. to \in {"done", "link", "point"} /\ (to # "done" => j.iface \in Iface)
    BY <1>0 DEF Job
  <2>4. ok \in BOOLEAN
    OBVIOUS
  <2> HIDE DEF n, to, ok
  <2> QED
    BY <2>1, <2>2, <2>3, <2>4, WritesType DEF Calls, Fits
<1>5. CASE Assign(t)
  <2> DEFINE n == [nb EXCEPT !.on[j.addr] = j.iface]
             ok == Assignable(nb, j)
  <2>1. j.at = "assign" /\ Writes(t, ok, n, j.then)
    BY <1>5 DEF Assign, At
  <2>2. n \in NetBox
    BY <1>0 DEF NetBox, Job
  <2>3. j.then \in {"done", "link", "point"} /\ j.iface \in Iface
    BY <1>0, <2>1 DEF Job, WellFormed
  <2>4. ok \in BOOLEAN
    BY DEF Assignable
  <2> HIDE DEF n, ok
  <2> QED
    BY <2>1, <2>2, <2>3, <2>4, WritesType DEF Calls, Fits
<1>6. CASE Link(t)
  BY <1>0, <1>6, ReadsType DEF Link, At, Calls, WellFormed, Fits
<1>7. CASE Point(t)
  <2> DEFINE n == [nb EXCEPT !.primary[j.iface] = j.addr]
             ok == {Ip(j.addr), j.iface} \cap j.gone = {} /\ nb.on[j.addr] = j.iface
  <2>1. j.at = "point" /\ Writes(t, ok, n, "done")
    BY <1>7 DEF Point, At
  <2>2. n \in NetBox
    BY <1>0 DEF NetBox, Job
  <2>3. ok \in BOOLEAN
    OBVIOUS
  <2> HIDE DEF n, ok
  <2> QED
    BY <2>1, <2>2, <2>3, WritesType DEF Fits
<1>8. CASE FindDuplicate(t)
  BY <1>0, <1>8, ReadsType DEF FindDuplicate, At, Calls, WellFormed, Fits
<1>9. CASE DropDuplicate(t)
  <2> DEFINE h == Host(j)
             bare == [nb EXCEPT !.dev[h] = "none", !.primary[Dev(h)] = None]
             ok == Dev(h) \notin j.gone
  <2>1. PICK addrs \in {{}, {a \in Addrs : nb.on[a] = Dev(h)}} :
          Writes(t, ok, Delete(bare, addrs), "look")
    BY <1>9 DEF DropDuplicate
  <2>2. j.at = "drop" /\ j.iface \in Iface /\ j.then = "link"
    BY <1>0, <1>9 DEF DropDuplicate, At, WellFormed
  <2>3. h \in Hosts
    BY <1>0, <2>2, HostType
  <2>4. bare \in NetBox
    BY <1>0, <2>3, IfaceType DEF NetBox
  <2>5. Delete(bare, addrs) \in NetBox /\ ok \in BOOLEAN
    BY <2>4, DeleteType
  <2> HIDE DEF bare, ok
  <2> QED
    BY <2>1, <2>2, <2>5, WritesType DEF Calls, Fits
<1>10. CASE FindLeftover(t)
  BY <1>0, <1>10, ReadsType DEF FindLeftover, At, Calls, WellFormed, Fits
<1>11. CASE Move(t)
  <2> DEFINE n == [nb EXCEPT !.on[j.addr] = j.iface]
             ok == Assignable(nb, j)
  <2>1. j.at = "move" /\ Writes(t, ok, n, "find")
    BY <1>11 DEF Move, At
  <2>2. n \in NetBox
    BY <1>0 DEF NetBox, Job
  <2>3. ok \in BOOLEAN
    BY DEF Assignable
  <2> HIDE DEF n, ok
  <2> QED
    BY <2>1, <2>2, <2>3, WritesType DEF Calls, Fits
<1>12. CASE FindDevice(t)
  <2> DEFINE to == EnsureHostDevice(nb, j)
             k == OnDevice(j, nb.primary[Dev(Host(j))] = None)
             i == IF to = "find" THEN k ELSE j
  <2>1. /\ j.at = "device" /\ Step(t, Goes(i, to)) /\ nb' = nb
        /\ UNCHANGED <<lease, enabled, passVars, spared, changes, faults>>
    BY <1>12 DEF FindDevice, At
  <2>2. j.iface = None /\ j.then = "done" /\ j.addr \in Addrs /\ j.leases[j.addr] # NoLease
    BY <1>0, <2>1 DEF WellFormed
  <2>3. Host(j) \in Hosts
    BY <1>0, <2>1, HostType
  <2>4. /\ k \in Job /\ k.iface \in Iface /\ k.addr = j.addr /\ k.leases = j.leases
        /\ k.site = j.site /\ k.doomed = j.doomed
    BY <1>0, <2>3, OnDeviceType
  <2>5. to \in {"done", "find", "create"}
    BY DEF EnsureHostDevice
  <2> HIDE DEF k, to
  <2>6. /\ i \in Job /\ i.addr = j.addr /\ i.leases = j.leases
        /\ i.site = j.site /\ i.doomed = j.doomed
        /\ i.then = "point" => i.iface \in Iface
    BY <1>0, <2>2, <2>4
  <2>7. to = "create" => i.iface = None /\ i.then = "done"
    BY <2>2
  <2> HIDE DEF i
  <2>8. /\ Goes(i, to) \in Job /\ WellFormed(Goes(i, to))
        /\ Goes(i, to).site = j.site /\ Goes(i, to).doomed = j.doomed
    BY <2>2, <2>5, <2>6, <2>7, GoesType DEF Calls, Fits
  <2> QED
    BY <1>0, <2>1, <2>8, CallType DEF TInv, TypeOK
<1>13. CASE CreateDevice(t)
  <2> DEFINE h == Host(j)
             n == [nb EXCEPT !.dev[h] = "dhcp"]
             k == OnDevice(j, TRUE)
  <2>1. /\ j.at = "create"
        /\ UNCHANGED <<lease, enabled, passVars, spared, changes, faults>>
        /\ \/ nb' = n /\ Step(t, Goes(k, "find"))
           \/ nb' = nb /\ Step(t, Goes(j, "done"))
    BY <1>13 DEF CreateDevice, At
  <2>2. j.addr \in Addrs /\ j.leases[j.addr] # NoLease
    BY <1>0, <2>1 DEF WellFormed
  <2>3. h \in Hosts
    BY <1>0, <2>1, HostType
  <2>4. /\ k \in Job /\ k.iface \in Iface /\ k.addr = j.addr /\ k.leases = j.leases
        /\ k.site = j.site /\ k.doomed = j.doomed
    BY <1>0, <2>3, OnDeviceType
  <2>5. n \in NetBox
    BY <1>0, <2>3 DEF NetBox
  <2> HIDE DEF k, n
  <2>6. /\ Goes(k, "find") \in Job /\ WellFormed(Goes(k, "find"))
        /\ Goes(k, "find").site = j.site /\ Goes(k, "find").doomed = j.doomed
    BY <2>2, <2>4, GoesType DEF Calls, Fits
  <2>7. /\ Goes(j, "done") \in Job /\ WellFormed(Goes(j, "done"))
        /\ Goes(j, "done").site = j.site /\ Goes(j, "done").doomed = j.doomed
    BY <1>0, <2>2, GoesType DEF WellFormed, Fits
  <2>8. changes' \in 0..MaxChanges /\ faults' \in 0..MaxFaults /\ nb \in NetBox
        /\ UNCHANGED <<lease, enabled, passVars, spared>>
    BY <1>0, <2>1 DEF TInv, TypeOK
  <2>9. CASE nb' = n /\ Step(t, Goes(k, "find"))
    BY <2>5, <2>6, <2>8, <2>9, CallType
  <2>10. CASE nb' = nb /\ Step(t, Goes(j, "done"))
    BY <2>7, <2>8, <2>10, CallType
  <2> QED
    BY <2>1, <2>9, <2>10
<1>14. CASE SiteLeft(t)
  BY <1>14, LeavesType DEF SiteLeft, TInv, TypeOK
<1>15. CASE ExpiryEnds(t)
  BY <1>15, ExpiresType DEF ExpiryEnds
<1> QED
  BY <1>1, <1>2, <1>3, <1>4, <1>5, <1>6, <1>7, <1>8, <1>9, <1>10, <1>11, <1>12,
     <1>13, <1>14, <1>15 DEF Call

LEMMA FaultType ==
  TInv /\ Fault => changes' \in 0..MaxChanges /\ faults' \in 0..MaxFaults /\ faults' \in Threads
BY DhcpAssumption DEF Fault, TInv, TypeOK, Threads

LEMMA FailsSound ==
  ASSUME TInv, NEW t \in Threads, LeaseFails(t)
  PROVE  Sound(t)
<1>1. job[t] \in Job /\ WellFormed(job[t]) /\ job[t].at # "next" /\ job[t].addr \in Addrs
  BY DEF LeaseFails, TInv, TypeOK, WellFormed
<1>2. /\ Goes(job[t], "done") \in Job /\ WellFormed(Goes(job[t], "done"))
      /\ Goes(job[t], "done").site = job[t].site
      /\ Goes(job[t], "done").doomed = job[t].doomed
  BY <1>1, GoesType DEF WellFormed, Fits
<1> QED
  BY <1>2, FaultType, CallType DEF LeaseFails, TInv, TypeOK

LEMMA LookupSound ==
  ASSUME TInv, NEW t \in Threads, NEW a \in Addrs, LookupFails(t, a)
  PROVE  Sound(t)
BY FaultType, TakeUpType DEF LookupFails

LEMMA TInvNext == TInv /\ [Next]_vars => TInv'
<1> SUFFICES ASSUME TInv, [Next]_vars PROVE TInv'
  OBVIOUS
<1>0. 0 \in Threads
  BY DhcpAssumption DEF Threads
<1>00. Fault => changes' \in 0..MaxChanges /\ faults' \in 0..MaxFaults /\ faults' \in Threads
  BY FaultType
<1> USE DEF TInv
<1>1. ASSUME NEW t \in Threads, Call(t) PROVE TInv'
  BY <1>1, CallIsSound DEF Sound
<1>2. CASE StartPass
  BY <1>2 DEF StartPass, TypeOK
<1>3. ASSUME NEW s \in Sites, Poll(s) PROVE TInv'
  <2> DEFINE k == [Nothing EXCEPT !.work = "reconcile", !.site = s, !.leases = lease[s]]
  <2>1. k \in Job /\ WellFormed(k) /\ k.site \in Sites
    BY <1>3, NothingType DEF Nothing, Job, WellFormed, TypeOK
  <2>2. job' = [job EXCEPT ![0] = k]
    BY <1>3 DEF Poll
  <2> HIDE DEF k
  <2>3. job' \in [Threads -> Job] /\ (\A t \in Threads : WellFormed(job'[t])) /\ job'[0] = k
    BY <1>0, <2>1, <2>2 DEF TypeOK
  <2> QED
    BY <1>3, <2>1, <2>3 DEF Poll, TypeOK, Leased
<1>4. ASSUME NEW s \in Sites, PollFails(s) PROVE TInv'
  BY <1>00, <1>4 DEF PollFails, TypeOK
<1>5. CASE SiteDone
  <2>1. job' \in [Threads -> Job] /\ \A t \in Threads : WellFormed(job'[t])
    BY <1>0, <1>5, NothingType DEF SiteDone, TypeOK
  <2> QED
    BY <1>5, <2>1 DEF SiteDone, TypeOK
<1>6. CASE BeginExpiry
  <2> DEFINE k == [Nothing EXCEPT !.work = "expire", !.doomed = Expired(nb, seen, fetched)]
  <2>1. k \in Job /\ WellFormed(k)
    BY NothingType DEF Nothing, Job, WellFormed, Expired
  <2>2. job' = [job EXCEPT ![0] = k]
    BY <1>6 DEF BeginExpiry
  <2> HIDE DEF k
  <2>3. job' \in [Threads -> Job] /\ \A t \in Threads : WellFormed(job'[t])
    BY <1>0, <2>1, <2>2 DEF TypeOK
  <2>4. spared' \in [Threads -> SUBSET (Sites \X Addrs)]
    BY <1>6 DEF BeginExpiry, TypeOK
  <2> QED
    BY <1>6, <2>3, <2>4 DEF BeginExpiry, TypeOK
<1>7. CASE SkipExpiry
  BY <1>7 DEF SkipExpiry, Return, TypeOK
<1>8. CASE PassAborts
  <2>1. job' \in [Threads -> Job] /\ \A t \in Threads : WellFormed(job'[t])
    BY <1>0, <1>8, NothingType DEF PassAborts, TypeOK
  <2>2. /\ spared' \in [Threads -> SUBSET (Sites \X Addrs)]
        /\ taken' \in [Threads -> SUBSET Objects]
    BY <1>8 DEF PassAborts, TypeOK
  <2> QED
    BY <1>00, <1>8, <2>1, <2>2 DEF PassAborts, Return, TypeOK
<1>9. CASE PassCancelled
  <2>0. faults' \in Threads
    BY <1>00, <1>9 DEF PassCancelled
  <2>1. job' \in [Threads -> Job] /\ \A t \in Threads : WellFormed(job'[t])
    BY <1>0, <1>9, <2>0, NothingType DEF PassCancelled, TypeOK
  <2>2. /\ spared' \in [Threads -> SUBSET (Sites \X Addrs)]
        /\ taken' \in [Threads -> SUBSET Objects]
    BY <1>0, <1>9, <2>0 DEF PassCancelled, TypeOK
  <2> QED
    BY <1>00, <1>9, <2>1, <2>2 DEF PassCancelled, Return, TypeOK
<1>10. ASSUME NEW t \in Threads, LeaseFails(t) PROVE TInv'
  BY <1>10, FailsSound DEF Sound
<1>11. ASSUME NEW t \in Threads, NEW a \in Addrs, LookupFails(t, a) PROVE TInv'
  BY <1>11, LookupSound DEF Sound
<1>12. CASE Around
  <2>0. Change => changes' \in 0..MaxChanges
    BY DhcpAssumption DEF Change, TypeOK
  <2>1. ASSUME NEW s \in Sites, NEW a \in Addrs, LeaseChanges(s, a) PROVE TInv'
    <3>1. lease' \in [Sites -> [Addrs -> Lease]]
      BY <2>1 DEF LeaseChanges, TypeOK
    <3>2. held' \subseteq Sites \X Addrs /\ spared' \in [Threads -> SUBSET (Sites \X Addrs)]
      BY <2>1 DEF LeaseChanges, TypeOK
    <3> QED
      BY <2>0, <2>1, <3>1, <3>2 DEF LeaseChanges, TypeOK
  <2>2. ASSUME NEW s \in Sites, SiteSwitched(s) PROVE TInv'
    BY <2>0, <2>2 DEF SiteSwitched, TypeOK, passVars
  <2>3. ASSUME NEW h \in Hosts, GuestAppears(h) PROVE TInv'
    <3>1. nb' \in NetBox
      BY <2>3 DEF GuestAppears, TypeOK, NetBox
    <3> QED
      BY <2>0, <2>3, <3>1 DEF GuestAppears, TypeOK, passVars
  <2>4. ASSUME NEW h \in Hosts, DeviceAppears(h) PROVE TInv'
    <3>1. nb' \in NetBox
      BY <2>4 DEF DeviceAppears, TypeOK, NetBox
    <3> QED
      BY <2>0, <2>4, <3>1 DEF DeviceAppears, TypeOK, passVars
  <2>5. ASSUME NEW o \in Objects, PersonTakes(o) PROVE TInv'
    <3>1. nb' \in NetBox
      BY <2>5 DEF PersonTakes, TypeOK, NetBox
    <3>2. taken' \in [Threads -> SUBSET Objects]
      BY <2>5 DEF PersonTakes, TypeOK
    <3> QED
      BY <2>0, <2>5, <3>1, <3>2 DEF PersonTakes, TypeOK, passVars
  <2> QED
    BY <1>12, <2>1, <2>2, <2>3, <2>4, <2>5 DEF Around
<1>13. CASE UNCHANGED vars
  BY <1>13 DEF vars, passVars, TypeOK
<1> QED
  BY <1>0, <1>1, <1>2, <1>3, <1>4, <1>5, <1>6, <1>7, <1>8, <1>9, <1>10, <1>11, <1>12, <1>13
  DEF Next, PassStep, Faults

(* Every variable of the dhcp module, of the threads it has abandoned and of  *)
(* NetBox keeps to its type.                                                  *)
THEOREM TypeCorrect == Spec => []TypeOK
<1>1. TInv => TypeOK
  BY DEF TInv
<1> QED
  BY <1>1, TInvInit, TInvNext, PTL DEF Spec

-------------------------------------------------------------------------------
(* Leased records are kept.  The deletion is decided at BeginExpiry from      *)
(* leases read earlier, one site at a time; what has to be carried from the   *)
(* polls to the deletion is that an address under lease ever since the pass   *)
(* began was in the answer of its site.  Once it is decided, the thread's own *)
(* list is all that counts, whoever still waits for the thread.               *)

HeldAreLeased == \A p \in held : lease[p[1]][p[2]] # NoLease

HeldIsListed == pc = "reconcile" => \A p \in held : p[1] = job[0].site => p[2] \in listed

HeldIsSeen ==
  /\ pc = "idle" => fetched = {}
  /\ pc \in {"poll", "reconcile"} => \A p \in held : p[1] \in fetched => p[2] \in seen

SparedAreSafe == \A t \in Threads : \A p \in spared[t] : p[2] \notin job[t].doomed

KInv == TInv /\ HeldAreLeased /\ HeldIsListed /\ HeldIsSeen /\ SparedAreSafe

LEMMA KInvInit == Init => KInv
BY TInvInit DEF Init, KInv, HeldAreLeased, HeldIsListed, HeldIsSeen, SparedAreSafe

LEMMA SoundSpares ==
  ASSUME KInv, NEW t \in Threads, Sound(t)
  PROVE  KInv'
<1>0. 0 \in Threads
  BY DhcpAssumption DEF Threads
<1>1. PICK k \in Job : /\ WellFormed(k) /\ Step(t, k)
                       /\ k.doomed \subseteq job[t].doomed
                       /\ \/ passVars' = passVars /\ (t = 0 => k.site = job[t].site)
                          \/ Return
  BY DEF Sound
<1>2. /\ \A s \in Threads : job'[s].doomed \subseteq job[s].doomed
      /\ (t = 0 => k.site = job[t].site) => job'[0].site = job[0].site
  BY <1>0, <1>1, StepType DEF KInv
<1>3. SparedAreSafe'
  BY <1>2 DEF KInv, TInv, TypeOK, SparedAreSafe, Sound
<1>4. CASE passVars' = passVars /\ (t = 0 => k.site = job[t].site)
  BY <1>2, <1>3, <1>4 DEF KInv, HeldAreLeased, HeldIsListed, HeldIsSeen, passVars, Sound
<1>5. CASE Return
  BY <1>3, <1>5 DEF KInv, HeldAreLeased, HeldIsListed, HeldIsSeen, Return, Sound
<1> QED
  BY <1>1, <1>4, <1>5

LEMMA KInvNext == KInv /\ [Next]_vars => KInv'
<1> SUFFICES ASSUME KInv, [Next]_vars PROVE KInv'
  OBVIOUS
<1> USE DEF HeldAreLeased, HeldIsListed, HeldIsSeen, SparedAreSafe
<1>0. TInv' /\ TInv /\ 0 \in Threads
  BY TInvNext, DhcpAssumption DEF KInv, Threads
<1>00. Nothing.doomed = {}
  BY DEF Nothing
<1>1. ASSUME NEW t \in Threads, Call(t) PROVE KInv'
  BY <1>0, <1>1, CallIsSound, SoundSpares
<1>2. CASE StartPass
  BY <1>0, <1>2 DEF KInv, StartPass
<1>3. ASSUME NEW s \in Sites, Poll(s) PROVE KInv'
  <2> DEFINE k == [Nothing EXCEPT !.work = "reconcile", !.site = s, !.leases = lease[s]]
  <2>1. k.doomed = {} /\ k.site = s
    BY DEF Nothing
  <2>2. job' = [job EXCEPT ![0] = k]
    BY <1>3 DEF Poll
  <2> HIDE DEF k
  <2>3. job'[0].site = s /\ \A t \in Threads : job'[t].doomed \subseteq job[t].doomed
    BY <1>0, <2>1, <2>2 DEF TInv, TypeOK
  <2>4. \A p \in held : p \in Sites \X Addrs
    BY <1>0 DEF TInv, TypeOK
  <2> QED
    BY <1>0, <1>3, <2>3, <2>4 DEF KInv, Poll, Leased
<1>4. ASSUME NEW s \in Sites, PollFails(s) PROVE KInv'
  BY <1>0, <1>4 DEF KInv, PollFails
<1>5. CASE SiteDone
  <2>1. \A t \in Threads : job'[t].doomed \subseteq job[t].doomed
    BY <1>0, <1>00, <1>5 DEF SiteDone, TInv, TypeOK
  <2> QED
    BY <1>0, <1>5, <2>1 DEF KInv, SiteDone
<1>6. CASE BeginExpiry
  <2> DEFINE k == [Nothing EXCEPT !.work = "expire", !.doomed = Expired(nb, seen, fetched)]
             sp == {p \in held : p[1] \in fetched \/ \A s \in fetched : p[2] \notin Scope[s]}
  <2>1. k.doomed = Expired(nb, seen, fetched)
    BY DEF Nothing
  <2>2. \A p \in sp : p[2] \notin k.doomed
    BY <1>6, <2>1 DEF KInv, BeginExpiry, Expired
  <2>3. job' = [job EXCEPT ![0] = k] /\ spared' = [spared EXCEPT ![0] = sp]
    BY <1>6 DEF BeginExpiry
  <2> HIDE DEF k, sp
  <2>4. SparedAreSafe'
    BY <1>0, <2>2, <2>3 DEF KInv, TInv, TypeOK
  <2> QED
    BY <1>0, <1>6, <2>4 DEF KInv, BeginExpiry
<1>7. CASE SkipExpiry
  BY <1>0, <1>7 DEF KInv, SkipExpiry, Return
<1>8. CASE PassAborts
  <2>1. SparedAreSafe'
    BY <1>0, <1>00, <1>8 DEF KInv, PassAborts, TInv, TypeOK
  <2> QED
    BY <1>0, <1>8, <2>1 DEF KInv, PassAborts, Return
<1>9. CASE PassCancelled
  <2>0. faults' \in Threads
    BY <1>9, DhcpAssumption DEF PassCancelled, Fault, Threads, KInv, TInv, TypeOK
  <2>1. SparedAreSafe'
    BY <1>0, <1>00, <1>9, <2>0 DEF KInv, PassCancelled, TInv, TypeOK
  <2> QED
    BY <1>0, <1>9, <2>1 DEF KInv, PassCancelled, Return
<1>10. ASSUME NEW t \in Threads, LeaseFails(t) PROVE KInv'
  BY <1>0, <1>10, FailsSound, SoundSpares
<1>11. ASSUME NEW t \in Threads, NEW a \in Addrs, LookupFails(t, a) PROVE KInv'
  BY <1>0, <1>11, LookupSound, SoundSpares
<1>12. ASSUME NEW s \in Sites, NEW a \in Addrs, LeaseChanges(s, a) PROVE KInv'
  <2>1. held' \subseteq held /\ \A t \in Threads : spared'[t] \subseteq spared[t]
    BY <1>12 DEF LeaseChanges, KInv, TInv, TypeOK
  <2>2. HeldAreLeased'
    BY <1>0, <1>12 DEF LeaseChanges, KInv, TInv, TypeOK
  <2> QED
    BY <1>0, <1>12, <2>1, <2>2 DEF KInv, LeaseChanges
<1>13. CASE UNCHANGED <<lease, passVars, job, spared>>
  <2>1. HeldAreLeased' /\ HeldIsListed'
    BY <1>13 DEF KInv, passVars
  <2>2. HeldIsSeen' /\ SparedAreSafe'
    BY <1>13 DEF KInv, passVars
  <2> QED
    BY <1>0, <2>1, <2>2 DEF KInv
<1> QED
  BY <1>0, <1>1, <1>2, <1>3, <1>4, <1>5, <1>6, <1>7, <1>8, <1>9, <1>10, <1>11, <1>12,
     <1>13
  DEF Next, PassStep, Faults, Around, SiteSwitched, GuestAppears, DeviceAppears,
      PersonTakes, vars

(* No thread deletes the record of an address that has been under lease ever  *)
(* since its pass began, if the lease's site has been polled or no polled     *)
(* site's networks contain the address: not for a site that failed to answer  *)
(* or is switched off, not for a lease whose handling raised, and also when   *)
(* the pass was cancelled and the thread goes on alone.                       *)
THEOREM LeasesAreKept == Spec => LeasedKept
<1> DEFINE Kept == \A t \in Threads, a \in Addrs :
             DeleteExpired(t, a) /\ (\E s \in Sites : <<s, a>> \in spared[t]) =>
               nb'.ip[a] = nb.ip[a]
<1>1. KInv => Kept
  BY DEF KInv, SparedAreSafe, DeleteExpired
<1> QED
  BY <1>1, KInvInit, KInvNext, PTL DEF Spec, LeasedKept

-------------------------------------------------------------------------------
(* What others own is left alone.  Between reading whose an object is and     *)
(* writing to it a thread is honest: the object still is the service's, or is *)
(* gone, or a person took it over in between.                                 *)

LEMMA TrustsOf ==
  ASSUME NEW j \in Job, WellFormed(j)
  PROVE  /\ \A a \in Addrs : Ip(a) \in Trusts(j) <=>
              a \in j.doomed \/ (j.at \in {"move", "assign"} /\ a = j.addr)
         /\ \A h \in Hosts : Dev(h) \in Trusts(j) <=>
              \/ j.at = "drop" /\ h = Host(j)
              \/ "point" \in {j.at, j.then} /\ j.iface = Dev(h)
         /\ \A h \in Hosts : VM(h) \in Trusts(j) <=>
              "point" \in {j.at, j.then} /\ j.iface = VM(h)
         /\ Trusts(j) \subseteq Holds(j)
<1>1. /\ \A a \in Addrs : \A b : Ip(a) = Ip(b) => a = b
      /\ \A g \in Hosts : \A h : Dev(g) = Dev(h) => g = h
      /\ \A a, h : Ip(a) # Dev(h) /\ Ip(a) # VM(h) /\ Dev(a) # VM(h)
  BY DEF Ip, Dev, VM
<1>2. \A a : Ip(a) \in {"ip"} \X j.doomed <=> a \in j.doomed
  BY DEF Ip
<1>3. \A h : VM(h) \notin {"ip"} \X j.doomed /\ Dev(h) \notin {"ip"} \X j.doomed
  BY DEF VM, Dev
<1>4. \A h \in Hosts : VM(h) # None /\ Dev(h) # None
  BY IfaceType, DhcpAssumption
<1>5. "point" \in {j.at, j.then} => j.iface \in Iface
  BY DEF WellFormed
<1>6. \A a : Ip(a) \notin Iface
  BY DEF Ip, Iface
<1> USE DEF Trusts
<1>7. ASSUME NEW a \in Addrs
      PROVE  Ip(a) \in Trusts(j) <=>
               a \in j.doomed \/ (j.at \in {"move", "assign"} /\ a = j.addr)
  BY <1>1, <1>2, <1>5, <1>6
<1>8. ASSUME NEW h \in Hosts
      PROVE  Dev(h) \in Trusts(j) <=>
               \/ j.at = "drop" /\ h = Host(j)
               \/ "point" \in {j.at, j.then} /\ j.iface = Dev(h)
  BY <1>1, <1>3, <1>4
<1>9. ASSUME NEW h \in Hosts
       PROVE  VM(h) \in Trusts(j) <=> "point" \in {j.at, j.then} /\ j.iface = VM(h)
  BY <1>1, <1>3, <1>4
<1>10. Trusts(j) \subseteq Holds(j)
  BY DEF Holds
<1> QED
  BY <1>7, <1>8, <1>9, <1>10

Honest(j, n, tk) ==
  /\ \A a \in Addrs : Ip(a) \in Trusts(j) => n.ip[a] # "theirs" \/ Ip(a) \in tk
  /\ \A h \in Hosts : Dev(h) \in Trusts(j) =>
       \/ Dev(h) \in j.gone
       \/ n.dev[h] # "none" /\ (Dev(h) \in tk \/ n.dev[h] \in {"dhcp", "scan"})
  /\ j.at = "drop" =>
       \/ Dev(Host(j)) \in j.gone \cup tk
       \/ n.dev[Host(j)] = "dhcp"
  /\ \A h \in Hosts : VM(h) \in Trusts(j) => n.vm[h] = "ours" \/ VM(h) \in tk

\* no write makes anything another author's, or changes who owns what remains
Mild(n, m) ==
  /\ \A a \in Addrs : m.ip[a] = "theirs" => n.ip[a] = "theirs"
  /\ \A h \in Hosts : n.dev[h] # "none" => m.dev[h] \in {n.dev[h], "none"}
  /\ m.vm = n.vm

\* the other threads stay honest
LEMMA HonestBeside ==
  ASSUME NEW j \in Job, WellFormed(j), NEW n \in NetBox, NEW m \in NetBox, NEW tk,
         Honest(j, n, tk), Mild(n, m)
  PROVE  Honest([j EXCEPT !.gone = @ \cup (Removed(n, m) \cap Holds(j))], m, tk)
<1> DEFINE k == [j EXCEPT !.gone = @ \cup (Removed(n, m) \cap Holds(j))]
<1>1. /\ k \in Job /\ k.gone = j.gone \cup (Removed(n, m) \cap Holds(j))
      /\ k.at = j.at /\ k.then = j.then /\ k.iface = j.iface /\ k.addr = j.addr
      /\ k.leases = j.leases /\ k.doomed = j.doomed
  <2>1. Removed(n, m) \subseteq Objects
    BY DEF Removed, Objects, Iface, Ip, Dev
  <2> QED
    BY <2>1 DEF Job
<1> HIDE DEF k
<1>2. Trusts(k) = Trusts(j) /\ Host(k) = Host(j)
  BY <1>1 DEF Trusts, Host
<1>3. Trusts(j) \subseteq Holds(j)
  BY TrustsOf
<1>4. \A h \in Hosts : Dev(h) \in Trusts(j) /\ n.dev[h] # "none" /\ m.dev[h] = "none"
                       => Dev(h) \in k.gone
  BY <1>1, <1>3 DEF Removed
<1>5. j.at = "drop" => Host(j) \in Hosts /\ Dev(Host(j)) \in Trusts(j)
  BY HostType, TrustsOf
<1>6. \A a \in Addrs : Ip(a) \in Trusts(k) => m.ip[a] # "theirs" \/ Ip(a) \in tk
  BY <1>2 DEF Honest, Mild
<1>7. \A h \in Hosts : Dev(h) \in Trusts(k) =>
        \/ Dev(h) \in k.gone
        \/ m.dev[h] # "none" /\ (Dev(h) \in tk \/ m.dev[h] \in {"dhcp", "scan"})
  BY <1>1, <1>2, <1>4 DEF Honest, Mild
<1>8. k.at = "drop" => Dev(Host(k)) \in k.gone \cup tk \/ m.dev[Host(k)] = "dhcp"
  BY <1>1, <1>2, <1>4, <1>5 DEF Honest, Mild
<1>9. \A h \in Hosts : VM(h) \in Trusts(k) => m.vm[h] = "ours" \/ VM(h) \in tk
  BY <1>2 DEF Honest, Mild
<1> QED
  BY <1>6, <1>7, <1>8, <1>9 DEF Honest, k

\* a job that trusts records to delete only
LEMMA HonestLister ==
  ASSUME NEW j \in Job, WellFormed(j), NEW k \in Job, WellFormed(k),
         NEW n, NEW m, NEW tk, Honest(j, n, tk),
         \A a \in Addrs : m.ip[a] = "theirs" => n.ip[a] = "theirs",
         k.doomed \subseteq j.doomed, k.at \notin {"move", "assign", "drop", "point"},
         k.then # "point"
  PROVE  Honest(k, m, tk \cap Trusts(k))
BY TrustsOf DEF Honest

LEMMA GoesFields ==
  ASSUME NEW j \in Job, j.addr \in Addrs, NEW at \in Calls \cup {"done"}
  PROVE  /\ at = "done" => /\ Goes(j, at).at = "next" /\ Goes(j, at).then = "done"
                           /\ Goes(j, at).iface = None
         /\ at # "done" => /\ Goes(j, at).at = at /\ Goes(j, at).then = j.then
                           /\ Goes(j, at).iface = j.iface /\ Goes(j, at).addr = j.addr
                           /\ Goes(j, at).leases = j.leases
                           /\ j.gone \cap Holds(Goes(j, at)) \subseteq Goes(j, at).gone
         /\ Goes(j, at).doomed = j.doomed
<1>1. CASE at = "done"
  <2> DEFINE k == [j EXCEPT !.at = "next", !.addr = None, !.iface = None, !.then = "done",
                            !.leases[j.addr] = NoLease]
  <2>1. k.at = "next" /\ k.then = "done" /\ k.iface = None /\ k.doomed = j.doomed
        /\ k = [k EXCEPT !.gone = k.gone]
    BY DEF Job
  <2>2. Goes(j, at) = [k EXCEPT !.gone = @ \cap Holds(k)]
    BY <1>1 DEF Goes
  <2> QED
    BY <1>1, <2>1, <2>2 DEF Job
<1>2. CASE at # "done"
  <2> DEFINE k == [j EXCEPT !.at = at]
             g == [k EXCEPT !.gone = @ \cap Holds(k)]
  <2>1. /\ k \in Job /\ k.at = at /\ k.addr = j.addr /\ k.leases = j.leases
        /\ k.iface = j.iface /\ k.then = j.then /\ k.doomed = j.doomed /\ k.gone = j.gone
    BY <1>2 DEF Job
  <2>2. Goes(j, at) = g
    BY <1>2 DEF Goes
  <2> HIDE DEF k
  <2>3. /\ g.at = at /\ g.addr = j.addr /\ g.leases = j.leases /\ g.iface = j.iface
        /\ g.then = j.then /\ g.doomed = j.doomed /\ g.gone = j.gone \cap Holds(k)
    BY <2>1 DEF Job
  <2>4. Holds(g) = Holds(k)
    BY <2>1, <2>3 DEF Holds, Trusts, Host
  <2> HIDE DEF g
  <2> QED
    BY <1>2, <2>2, <2>3, <2>4
<1> QED
  BY <1>1, <1>2

\* what a read has to establish before the call that relies on it
Checked(j, n, at) ==
  /\ at \in {"move", "assign"} => n.ip[j.addr] # "theirs"
  /\ at = "drop" => n.dev[Host(j)] = "dhcp"
  /\ at = "point" => j.then = "point" \/ Managed(n, j.iface)

LEMMA HonestGoes ==
  ASSUME NEW j \in Job, WellFormed(j), j.at # "next", NEW at \in Calls \cup {"done"},
         Fits(j, at), NEW n, NEW m, NEW tk, Honest(j, n, tk), Checked(j, n, at),
         \A a \in Addrs : m.ip[a] = "theirs" => n.ip[a] = "theirs",
         m.dev = n.dev, m.vm = n.vm
  PROVE  Honest(Goes(j, at), m, tk \cap Trusts(Goes(j, at)))
<1> DEFINE k == Goes(j, at)
<1>0. j.addr \in Addrs /\ j.leases[j.addr] # NoLease
  BY DEF WellFormed
<1>1. k \in Job /\ WellFormed(k) /\ k.doomed = j.doomed
  BY <1>0, GoesType DEF WellFormed
<1>2. CASE at = "done"
  <2>1. k.at = "next" /\ k.then = "done"
    BY <1>0, <1>2, GoesFields
  <2> QED
    BY <1>1, <2>1, HonestLister
<1>3. CASE at # "done"
  <2>1. /\ k.at = at /\ k.then = j.then /\ k.iface = j.iface /\ k.addr = j.addr
        /\ k.leases = j.leases /\ j.gone \cap Holds(k) \subseteq k.gone
    BY <1>0, <1>3, GoesFields
  <2> HIDE DEF k
  <2>2. Host(k) = Host(j) /\ Host(j) \in Hosts
    BY <2>1, HostType DEF Host
  <2>3. \A a \in Addrs : Ip(a) \in Trusts(k) => m.ip[a] # "theirs" \/ Ip(a) \in tk
    <3>1. ASSUME NEW a \in Addrs, Ip(a) \in Trusts(k), m.ip[a] = "theirs"
          PROVE  Ip(a) \in tk
      <4>1. a \in j.doomed \/ (at \in {"move", "assign"} /\ a = j.addr)
        BY <1>1, <2>1, <3>1, TrustsOf
      <4>2. a \in j.doomed
        BY <3>1, <4>1 DEF Checked
      <4> QED
        BY <3>1, <4>2, TrustsOf DEF Honest
    <3> QED
      BY <3>1
  <2>4. \A h \in Hosts : Dev(h) \in Trusts(k) =>
          \/ Dev(h) \in k.gone
          \/ m.dev[h] # "none" /\ (Dev(h) \in tk \/ m.dev[h] \in {"dhcp", "scan"})
    <3>1. ASSUME NEW h \in Hosts, Dev(h) \in Trusts(k), Dev(h) \notin k.gone
          PROVE  m.dev[h] # "none" /\ (Dev(h) \in tk \/ m.dev[h] \in {"dhcp", "scan"})
      <4>1. \/ at = "drop" /\ h = Host(j)
            \/ "point" \in {at, j.then} /\ j.iface = Dev(h)
        BY <1>1, <2>1, <2>2, <3>1, TrustsOf
      <4>2. CASE at = "drop" /\ h = Host(j)
        BY <4>2 DEF Checked
      <4>3. CASE j.then = "point" /\ j.iface = Dev(h)
        <5>1. Dev(h) \in Trusts(j)
          BY <4>3, TrustsOf
        <5>2. Dev(h) \notin j.gone
          BY <1>1, <2>1, <3>1, TrustsOf
        <5> QED
          BY <5>1, <5>2 DEF Honest
      <4>4. CASE at = "point" /\ j.then # "point" /\ j.iface = Dev(h)
        BY <4>4 DEF Checked, Managed, Dev
      <4> QED
        BY <4>1, <4>2, <4>3, <4>4
    <3> QED
      BY <3>1
  <2>5. k.at = "drop" => m.dev[Host(k)] = "dhcp"
    BY <2>1, <2>2 DEF Checked
  <2>6. \A h \in Hosts : VM(h) \in Trusts(k) => m.vm[h] = "ours" \/ VM(h) \in tk
    <3>1. ASSUME NEW h \in Hosts, VM(h) \in Trusts(k) PROVE m.vm[h] = "ours" \/ VM(h) \in tk
      <4>1. "point" \in {at, j.then} /\ j.iface = VM(h)
        BY <1>1, <2>1, <3>1, TrustsOf
      <4>2. CASE j.then = "point"
        BY <4>1, <4>2, TrustsOf DEF Honest
      <4>3. CASE at = "point" /\ j.then # "point"
        BY <4>1, <4>3 DEF Checked, Managed, VM
      <4> QED
        BY <4>1, <4>2, <4>3
    <3> QED
      BY <3>1
  <2> QED
    BY <2>3, <2>4, <2>5, <2>6 DEF Honest, k
<1> QED
  BY <1>2, <1>3

\* what a write may do to NetBox when its thread trusts the objects of tk to be its own
Careful(n, m, tk) ==
  /\ \A a \in Addrs : n.ip[a] = "theirs" /\ Ip(a) \notin tk =>
       \/ m.ip[a] = "theirs" /\ m.on[a] = n.on[a]
       \/ \E h \in Hosts : n.on[a] = Dev(h) /\ n.dev[h] # "none" /\ m.dev[h] = "none"
  /\ \A h \in Hosts : Dev(h) \notin tk =>
       /\ n.dev[h] \in {"scan", "human"} => m.dev[h] = n.dev[h]
       /\ n.dev[h] = "human" => m.primary[Dev(h)] \in {n.primary[Dev(h)], None}
  /\ \A h \in Hosts : n.vm[h] = "human" /\ VM(h) \notin tk =>
       m.primary[VM(h)] \in {n.primary[VM(h)], None}

HInv == TInv /\ \A t \in Threads : Honest(job[t], nb, taken[t])

Decent(t) ==
  /\ Mild(nb, nb') /\ Careful(nb, nb', taken[t])
  /\ \E k \in Job : WellFormed(k) /\ Step(t, k) /\ Honest(k, nb', taken[t] \cap Trusts(k))

LEMMA NoWrite == \A tk : Mild(nb, nb) /\ Careful(nb, nb, tk)
BY DEF Mild, Careful

\* a call that touches no device
LEMMA WritesDecent ==
  ASSUME HInv, NEW t \in Threads, NEW accepted \in BOOLEAN, NEW n,
         NEW at \in Calls \cup {"done"}, Writes(t, accepted, n, at),
         job[t].at # "next", Fits(job[t], at), Checked(job[t], nb, at),
         accepted => /\ n.dev = nb.dev /\ n.vm = nb.vm
                     /\ \A a \in Addrs : n.ip[a] = "theirs" => nb.ip[a] = "theirs"
                     /\ Careful(nb, n, taken[t])
  PROVE  Decent(t)
<1> DEFINE to == IF accepted THEN at ELSE "done"
           k == Goes(job[t], to)
<1>1. job[t] \in Job /\ WellFormed(job[t]) /\ Honest(job[t], nb, taken[t])
  BY DEF HInv, TInv, TypeOK
<1>2. to \in Calls \cup {"done"} /\ Fits(job[t], to) /\ Checked(job[t], nb, to)
  BY DEF Fits, Checked
<1>3. nb' = (IF accepted THEN n ELSE nb) /\ Step(t, k)
  BY DEF Writes
<1>4. /\ nb'.dev = nb.dev /\ nb'.vm = nb.vm
      /\ \A a \in Addrs : nb'.ip[a] = "theirs" => nb.ip[a] = "theirs"
      /\ Careful(nb, nb', taken[t])
  BY <1>3, NoWrite
<1>5. k \in Job /\ WellFormed(k)
  BY <1>1, <1>2, GoesType DEF WellFormed
<1>6. Honest(k, nb', taken[t] \cap Trusts(k))
  BY <1>1, <1>2, <1>4, HonestGoes
<1>7. Mild(nb, nb')
  BY <1>4 DEF Mild
<1> HIDE DEF k
<1> QED
  BY <1>3, <1>4, <1>5, <1>6, <1>7 DEF Decent

LEMMA ReadsDecent ==
  ASSUME HInv, NEW t \in Threads, NEW at \in Calls \cup {"done"}, Reads(t, at),
         job[t].at # "next", Fits(job[t], at), Checked(job[t], nb, at)
  PROVE  Decent(t)
<1>1. Writes(t, TRUE, nb, at)
  BY DEF Reads, Writes
<1> QED
  BY <1>1, NoWrite, WritesDecent

\* a thread that leaves only records to delete in its job, or none
LEMMA ListerDecent ==
  ASSUME HInv, NEW t \in Threads, NEW k \in Job, WellFormed(k), Step(t, k),
         k.doomed \subseteq job[t].doomed, k.at \notin {"move", "assign", "drop", "point"},
         k.then # "point", Mild(nb, nb'), Careful(nb, nb', taken[t])
  PROVE  Decent(t)
BY HonestLister DEF Decent, HInv, TInv, TypeOK, Mild

LEMMA TakeUpDecent ==
  ASSUME HInv, NEW t \in Threads, NEW a \in Addrs, NEW i \in Iface \cup {None},
         TakeUp(t, a, i)
  PROVE  Decent(t)
<1>1. nb' = nb
  BY DEF TakeUp
<1>2. Mild(nb, nb') /\ Careful(nb, nb', taken[t])
  BY <1>1, NoWrite
<1> QED
  BY <1>2, TakeUpJob, ListerDecent DEF HInv

LEMMA NothingDecent ==
  ASSUME HInv, NEW t \in Threads, Step(t, Nothing), nb' = nb
  PROVE  Decent(t)
<1>1. Nothing.doomed = {} /\ Nothing.at = "next" /\ Nothing.then = "done"
  BY DEF Nothing
<1>2. Mild(nb, nb') /\ Careful(nb, nb', taken[t])
  BY NoWrite
<1> QED
  BY <1>1, <1>2, NothingType, ListerDecent

\* a device of discovery's or of the module's own goes on to have its address recorded
LEMMA HonestOnDevice ==
  ASSUME NEW j \in Job, WellFormed(j), j.at \in {"device", "create"}, NEW bare \in BOOLEAN,
         NEW n, NEW m, NEW tk, Honest(j, n, tk), m.dev[Host(j)] \in {"dhcp", "scan"},
         \A a \in Addrs : m.ip[a] = "theirs" => n.ip[a] = "theirs"
  PROVE  LET k == Goes(OnDevice(j, bare), "find")
         IN  k \in Job /\ WellFormed(k) /\ Honest(k, m, tk \cap Trusts(k))
<1> DEFINE o == OnDevice(j, bare)
           k == Goes(o, "find")
<1>1. Host(j) \in Hosts /\ j.addr \in Addrs /\ j.leases[j.addr] # NoLease
  BY HostType DEF WellFormed
<1>2. /\ o \in Job /\ o.iface \in Iface /\ o.addr = j.addr /\ o.leases = j.leases
      /\ o.doomed = j.doomed
  BY <1>1, OnDeviceType
<1>3. o.iface = Dev(Host(j))
  BY DEF OnDevice, Job
<1> HIDE DEF o
<1>4. k \in Job /\ WellFormed(k)
  BY <1>1, <1>2, GoesType DEF Fits, Calls
<1>5. k.at = "find" /\ k.iface = Dev(Host(j)) /\ k.doomed = j.doomed
  BY <1>1, <1>2, <1>3, GoesFields DEF Calls
<1> HIDE DEF k
<1>6. \A h \in Hosts : Dev(h) \in Trusts(k) => h = Host(j)
  BY <1>1, <1>4, <1>5, TrustsOf DEF Dev
<1>7. \A h \in Hosts : VM(h) \notin Trusts(k)
  <2>1. \A h \in Hosts : VM(h) # Dev(Host(j))
    BY DEF VM, Dev
  <2> QED
    BY <1>4, <1>5, <2>1, TrustsOf
<1>8. \A a \in Addrs : Ip(a) \in Trusts(k) => Ip(a) \in Trusts(j)
  BY <1>4, <1>5, TrustsOf
<1>9. Honest(k, m, tk \cap Trusts(k))
  BY <1>5, <1>6, <1>7, <1>8 DEF Honest
<1> QED
  BY <1>4, <1>9 DEF k, o

LEMMA DropDecent ==
  ASSUME HInv, NEW t \in Threads, DropDuplicate(t)
  PROVE  Decent(t)
<1> DEFINE j == job[t]
           tk == taken[t]
           h == Host(j)
           bare == [nb EXCEPT !.dev[h] = "none", !.primary[Dev(h)] = None]
           ok == Dev(h) \notin j.gone
<1>0. j \in Job /\ WellFormed(j) /\ nb \in NetBox /\ Honest(j, nb, tk) /\ j.at = "drop"
  BY DEF HInv, TInv, TypeOK, DropDuplicate, At
<1>1. h \in Hosts /\ j.addr \in Addrs /\ j.iface \in Iface /\ j.then = "link"
      /\ j.leases[j.addr] # NoLease
  BY <1>0, HostType DEF WellFormed
<1>2. PICK addrs \in {{}, {a \in Addrs : nb.on[a] = Dev(h)}} :
        Writes(t, ok, Delete(bare, addrs), "look")
  BY DEF DropDuplicate
<1> DEFINE to == IF ok THEN "look" ELSE "done"
           m == Delete(bare, addrs)
           k == Goes(j, to)
<1>3. /\ k \in Job /\ WellFormed(k) /\ k.doomed = j.doomed
      /\ k.at \in {"look", "next"} /\ k.then # "point"
  <2>1. to \in Calls \cup {"done"} /\ to \in {"look", "done"} /\ Fits(j, to)
    BY <1>1 DEF Calls, Fits
  <2> HIDE DEF to
  <2> QED
    BY <1>0, <1>1, <2>1, GoesType, GoesFields
<1>4. Step(t, k) /\ nb' = IF ok THEN m ELSE nb
  BY <1>2 DEF Writes
<1>5. /\ bare \in NetBox /\ bare.ip = nb.ip /\ bare.on = nb.on /\ bare.vm = nb.vm
      /\ bare.dev = [nb.dev EXCEPT ![h] = "none"]
      /\ bare.primary = [nb.primary EXCEPT ![Dev(h)] = None]
  BY <1>0, <1>1, IfaceType DEF NetBox
<1> HIDE DEF bare, k
<1>6. /\ m.vm = nb.vm /\ m.dev = [nb.dev EXCEPT ![h] = "none"]
      /\ \A a \in Addrs : \/ m.ip[a] = nb.ip[a] /\ m.on[a] = nb.on[a]
                          \/ m.ip[a] = "absent" /\ nb.on[a] = Dev(h)
      /\ \A i \in Iface : m.primary[i] \in {nb.primary[i], None}
  <2>1. \A a \in Addrs : m.ip[a] = (IF a \in addrs THEN "absent" ELSE nb.ip[a])
                         /\ m.on[a] = (IF a \in addrs THEN None ELSE nb.on[a])
    BY <1>5 DEF Delete, NetBox
  <2>2. \A i \in Iface : m.primary[i] \in {bare.primary[i], None}
    BY <1>5 DEF Delete, NetBox
  <2>3. \A i \in Iface : bare.primary[i] \in {nb.primary[i], None}
    BY <1>0, <1>5 DEF NetBox
  <2>4. m.vm = nb.vm /\ m.dev = [nb.dev EXCEPT ![h] = "none"]
    BY <1>5 DEF Delete, NetBox
  <2> HIDE DEF m
  <2> QED
    BY <1>2, <2>1, <2>2, <2>3, <2>4
<1> HIDE DEF m
<1>7. \A g \in Hosts : m.dev[g] = IF g = h THEN "none" ELSE nb.dev[g]
  BY <1>0, <1>1, <1>6 DEF NetBox
<1>8. ok => nb.dev[h] # "none" /\ (Dev(h) \in tk \/ nb.dev[h] = "dhcp")
  BY <1>0, <1>1, TrustsOf DEF Honest
<1>9. Mild(nb, m)
  BY <1>6, <1>7 DEF Mild
<1>10. ok => Careful(nb, m, tk)
  BY <1>1, <1>6, <1>7, <1>8, IfaceType DEF Careful
<1>11. Mild(nb, nb') /\ Careful(nb, nb', tk)
  BY <1>4, <1>9, <1>10, NoWrite
<1> QED
  BY <1>3, <1>4, <1>11, ListerDecent

LEMMA CallIsDecent ==
  ASSUME HInv, NEW t \in Threads, Call(t)
  PROVE  Decent(t)
<1> DEFINE j == job[t]
           tk == taken[t]
<1>0. j \in Job /\ WellFormed(j) /\ nb \in NetBox /\ Honest(j, nb, tk)
  BY DEF HInv, TInv, TypeOK
<1>1. ASSUME NEW a \in Addrs, BeginLease(t, a) PROVE Decent(t)
  <2>1. job[t].leases[a].host \in Hosts
    BY <1>0, <1>1, DhcpAssumption DEF BeginLease, TakeUp, Job, Lease
  <2> QED
    BY <1>0, <1>1, <2>1, MatchType, TakeUpDecent DEF BeginLease
<1>2. ASSUME NEW a \in Addrs, DeleteExpired(t, a) PROVE Decent(t)
  <2>1. CASE Ip(a) \in j.gone
    BY <1>2, <2>1, NothingDecent DEF DeleteExpired, Expires
  <2>2. CASE Ip(a) \notin j.gone
    <3> DEFINE k == [j EXCEPT !.doomed = @ \ {a}]
               m == Delete(nb, {a})
    <3>1. nb' = m /\ Step(t, k) /\ a \in j.doomed
      BY <1>2, <2>2 DEF DeleteExpired
    <3>2. /\ k \in Job /\ WellFormed(k) /\ k.doomed = j.doomed \ {a}
          /\ k.at = j.at /\ k.then = j.then /\ k.iface = j.iface /\ k.addr = j.addr
          /\ k.leases = j.leases /\ k.gone = j.gone
      BY <1>0 DEF Job, WellFormed
    <3>3. /\ m.dev = nb.dev /\ m.vm = nb.vm
          /\ \A b \in Addrs : m.ip[b] = IF b = a THEN "absent" ELSE nb.ip[b]
          /\ \A b \in Addrs \ {a} : m.on[b] = nb.on[b]
          /\ \A i \in Iface : m.primary[i] \in {nb.primary[i], None}
      BY <1>0 DEF Delete, NetBox
    <3> HIDE DEF k, m
    <3>4. Trusts(k) \subseteq Trusts(j) /\ Host(k) = Host(j)
      BY <3>2 DEF Trusts, Host
    <3>5. Honest(k, m, tk \cap Trusts(k))
      <4>1. k.at = "drop" => Dev(Host(k)) \in Trusts(k)
        BY <3>2, HostType, TrustsOf
      <4> QED
        BY <1>0, <3>2, <3>3, <3>4, <4>1 DEF Honest
    <3>6. Mild(nb, m)
      BY <3>3 DEF Mild
    <3>7. Careful(nb, m, tk)
      <4>1. nb.ip[a] # "theirs" \/ Ip(a) \in tk
        BY <1>0, <1>2, <3>1, TrustsOf DEF Honest
      <4> QED
        BY <3>3, <4>1, IfaceType DEF Careful
    <3> QED
      BY <3>1, <3>2, <3>5, <3>6, <3>7 DEF Decent
  <2> QED
    BY <2>1, <2>2
<1>3. CASE Find(t)
  <2>1. j.at = "find" /\ Reads(t, Upsert(nb, j))
    BY <1>3 DEF Find, At
  <2>2. /\ Upsert(nb, j) \in {"add", "assign", "done", "link", "point"}
        /\ Fits(j, Upsert(nb, j))
    BY <1>0, UpsertTo DEF Job, Fits
  <2>3. /\ Upsert(nb, j) = "assign" => nb.ip[j.addr] = "ours"
        /\ Upsert(nb, j) = "point" => j.then = "point"
    BY <1>0 DEF Upsert, Job
  <2>4. Checked(j, nb, Upsert(nb, j))
    BY <2>2, <2>3 DEF Checked
  <2> QED
    BY <2>1, <2>2, <2>4, ReadsDecent DEF Calls
<1>4. CASE Add(t)
  <2> DEFINE n == [nb EXCEPT !.ip[j.addr] = "ours", !.on[j.addr] = j.iface]
             to == IF j.iface = None THEN "done" ELSE j.then
             ok == nb.ip[j.addr] = "absent" /\ j.iface \notin j.gone
  <2>1. j.at = "add" /\ Writes(t, ok, n, to)
    BY <1>4 DEF Add, At
  <2>2. to \in {"done", "link", "point"} /\ Fits(j, to) /\ Checked(j, nb, to)
    BY <1>0 DEF Job, Fits, Checked
  <2>3. /\ n.dev = nb.dev /\ n.vm = nb.vm /\ n.primary = nb.primary
        /\ \A a \in Addrs : a # j.addr => n.ip[a] = nb.ip[a] /\ n.on[a] = nb.on[a]
        /\ j.addr \in Addrs => n.ip[j.addr] = "ours"
    BY <1>0 DEF NetBox
  <2>4. ok => Careful(nb, n, tk)
    BY <2>3 DEF Careful
  <2>5. ok \in BOOLEAN
    OBVIOUS
  <2> HIDE DEF n, to, ok
  <2> QED
    BY <2>1, <2>2, <2>3, <2>4, <2>5, WritesDecent DEF Calls
<1>5. ASSUME NEW at \in Calls \cup {"done"}, j.at \in {"move", "assign"},
             Writes(t, Assignable(nb, j), [nb EXCEPT !.on[j.addr] = j.iface], at),
             Fits(j, at), Checked(j, nb, at)
      PROVE  Decent(t)
  <2> DEFINE n == [nb EXCEPT !.on[j.addr] = j.iface]
             ok == Assignable(nb, j)
  <2>1. /\ n.dev = nb.dev /\ n.vm = nb.vm /\ n.primary = nb.primary /\ n.ip = nb.ip
        /\ \A a \in Addrs : a # j.addr => n.on[a] = nb.on[a]
    BY <1>0 DEF NetBox
  <2>2. nb.ip[j.addr] # "theirs" \/ Ip(j.addr) \in tk
    BY <1>0, <1>5, TrustsOf DEF Honest, WellFormed
  <2>3. Careful(nb, n, tk)
    BY <2>1, <2>2 DEF Careful
  <2>4. ok \in BOOLEAN
    BY DEF Assignable
  <2>5. Writes(t, ok, n, at)
    BY <1>5
  <2> HIDE DEF n, ok
  <2> QED
    BY <1>5, <2>1, <2>3, <2>4, <2>5, WritesDecent
<1>6. CASE Assign(t)
  <2>1. j.then \in {"done", "link", "point"} /\ j.iface \in Iface
    BY <1>0, <1>6 DEF Assign, At, Job, WellFormed
  <2>2. Fits(j, j.then) /\ Checked(j, nb, j.then)
    BY <2>1 DEF Fits, Checked
  <2> QED
    BY <1>5, <1>6, <2>1, <2>2 DEF Assign, At, Calls
<1>7. CASE Move(t)
  BY <1>5, <1>7 DEF Move, At, Calls, Fits, Checked
<1>8. CASE Link(t)
  <2> DEFINE to == IF Managed(nb, j.iface) /\ nb.primary[j.iface] = None /\ j.iface \notin j.gone
                   THEN "point" ELSE "done"
  <2>1. j.at = "link" /\ Reads(t, to) /\ j.iface \in Iface
    BY <1>0, <1>8 DEF Link, At, WellFormed
  <2>2. to \in Calls \cup {"done"} /\ Fits(j, to) /\ Checked(j, nb, to)
    BY <2>1 DEF Calls, Fits, Checked
  <2> HIDE DEF to
  <2> QED
    BY <2>1, <2>2, ReadsDecent
<1>9. CASE Point(t)
  <2> DEFINE n == [nb EXCEPT !.primary[j.iface] = j.addr]
             ok == {Ip(j.addr), j.iface} \cap j.gone = {} /\ nb.on[j.addr] = j.iface
  <2>1. j.at = "point" /\ Writes(t, ok, n, "done") /\ j.iface \in Iface
    BY <1>0, <1>9 DEF Point, At, WellFormed
  <2>2. /\ n.dev = nb.dev /\ n.vm = nb.vm /\ n.ip = nb.ip /\ n.on = nb.on
        /\ \A i \in Iface : i # j.iface => n.primary[i] = nb.primary[i]
    BY <1>0 DEF NetBox
  <2>3. ASSUME ok PROVE Careful(nb, n, tk)
    <3>1. ASSUME NEW h \in Hosts, Dev(h) \notin tk, nb.dev[h] = "human"
          PROVE  n.primary[Dev(h)] = nb.primary[Dev(h)]
      <4>1. Dev(h) # j.iface
        BY <1>0, <2>1, <2>3, <3>1, TrustsOf DEF Honest
      <4> QED
        BY <2>2, <4>1, IfaceType
    <3>2. ASSUME NEW h \in Hosts, VM(h) \notin tk, nb.vm[h] = "human"
          PROVE  n.primary[VM(h)] = nb.primary[VM(h)]
      <4>1. VM(h) # j.iface
        BY <1>0, <2>1, <3>2, TrustsOf DEF Honest
      <4> QED
        BY <2>2, <4>1, IfaceType
    <3> QED
      BY <2>2, <3>1, <3>2 DEF Careful
  <2>4. ok \in BOOLEAN /\ Fits(j, "done") /\ Checked(j, nb, "done")
    BY DEF Fits, Checked
  <2> HIDE DEF n, ok
  <2> QED
    BY <2>1, <2>2, <2>3, <2>4, WritesDecent
<1>10. CASE FindDuplicate(t)
  <2> DEFINE to == IF nb.dev[Host(j)] = "dhcp" THEN "drop" ELSE "look"
  <2>1. j.at = "duplicate" /\ Reads(t, to)
    BY <1>10 DEF FindDuplicate, At
  <2>2. to \in Calls \cup {"done"} /\ Fits(j, to) /\ Checked(j, nb, to)
    BY <1>0, <2>1 DEF Calls, Fits, Checked, WellFormed
  <2> HIDE DEF to
  <2> QED
    BY <2>1, <2>2, ReadsDecent
<1>11. CASE FindLeftover(t)
  <2> DEFINE to == IF nb.ip[j.addr] = "ours" /\ ~SameId(nb.on[j.addr], j.iface)
                   THEN "move" ELSE "find"
  <2>1. j.at = "look" /\ Reads(t, to)
    BY <1>11 DEF FindLeftover, At
  <2>2. to \in Calls \cup {"done"} /\ Fits(j, to) /\ Checked(j, nb, to)
    BY <1>0, <2>1 DEF Calls, Fits, Checked, WellFormed
  <2> HIDE DEF to
  <2> QED
    BY <2>1, <2>2, ReadsDecent
<1>12. CASE DropDuplicate(t)
  BY <1>0, <1>12, DropDecent
<1>13. CASE FindDevice(t)
  <2> DEFINE to == EnsureHostDevice(nb, j)
  <2>1. j.at = "device" /\ nb' = nb /\ to \in {"done", "find", "create"}
    BY <1>13 DEF FindDevice, At, EnsureHostDevice
  <2>2. CASE to = "find"
    <3> DEFINE bare == nb.primary[Dev(Host(j))] = None
               k == Goes(OnDevice(j, bare), "find")
    <3>1. Step(t, k)
      BY <1>13, <2>2 DEF FindDevice
    <3>2. Host(j) \in Hosts
      BY <1>0, <2>1, HostType
    <3>3. nb.dev[Host(j)] \in {"none", "dhcp", "scan", "human"}
      BY <1>0, <3>2 DEF NetBox
    <3>4. nb.dev[Host(j)] \in {"dhcp", "scan"}
      BY <2>2, <3>3 DEF EnsureHostDevice
    <3>5. bare \in BOOLEAN
      OBVIOUS
    <3> HIDE DEF bare
    <3>6. k \in Job /\ WellFormed(k) /\ Honest(k, nb, tk \cap Trusts(k))
      BY <1>0, <2>1, <3>4, <3>5, HonestOnDevice
    <3> HIDE DEF k
    <3> QED
      BY <2>1, <3>1, <3>6, NoWrite DEF Decent
  <2>3. CASE to # "find"
    <3>1. /\ Step(t, Goes(j, to))
          /\ UNCHANGED <<lease, enabled, nb, passVars, spared, changes, faults>>
      BY <1>13, <2>3 DEF FindDevice
    <3>2. Reads(t, to)
      BY <3>1 DEF Reads
    <3>3. Fits(j, to) /\ Checked(j, nb, to) /\ to \in Calls \cup {"done"}
      BY <1>0, <2>1, <2>3 DEF Fits, Checked, WellFormed, Calls
    <3> QED
      BY <2>1, <3>2, <3>3, ReadsDecent
  <2> QED
    BY <2>2, <2>3
<1>14. CASE CreateDevice(t)
  <2> DEFINE h == Host(j)
             n == [nb EXCEPT !.dev[h] = "dhcp"]
  <2>1. j.at = "create" /\ h \in Hosts
    BY <1>0, <1>14, HostType DEF CreateDevice, At
  <2>2. CASE nb.dev[h] = "none"
    <3> DEFINE k == Goes(OnDevice(j, TRUE), "find")
    <3>1. nb' = n /\ Step(t, k)
      BY <1>14, <2>2 DEF CreateDevice
    <3>2. /\ n.ip = nb.ip /\ n.on = nb.on /\ n.vm = nb.vm /\ n.primary = nb.primary
          /\ n.dev[h] = "dhcp" /\ \A g \in Hosts : g # h => n.dev[g] = nb.dev[g]
      BY <1>0, <2>1 DEF NetBox
    <3> HIDE DEF n, h
    <3>3. Mild(nb, n) /\ Careful(nb, n, tk)
      BY <2>2, <3>2 DEF Mild, Careful
    <3>4. k \in Job /\ WellFormed(k) /\ Honest(k, n, tk \cap Trusts(k))
      BY <1>0, <2>1, <3>2, HonestOnDevice DEF h
    <3> HIDE DEF k
    <3> QED
      BY <3>1, <3>3, <3>4 DEF Decent
  <2>3. CASE nb.dev[h] # "none"
    <3>1. Writes(t, FALSE, nb, "done")
      BY <1>14, <2>3 DEF CreateDevice, Writes
    <3>2. Fits(j, "done") /\ Checked(j, nb, "done")
      BY DEF Fits, Checked
    <3> QED
      BY <2>1, <3>1, <3>2, WritesDecent
  <2> QED
    BY <2>2, <2>3
<1>15. CASE SiteLeft(t)
  BY <1>15, NothingDecent DEF SiteLeft
<1>16. CASE ExpiryEnds(t)
  BY <1>16, NothingDecent DEF ExpiryEnds, Expires
<1> QED
  BY <1>1, <1>2, <1>3, <1>4, <1>6, <1>7, <1>8, <1>9, <1>10, <1>11, <1>12, <1>13,
     <1>14, <1>15, <1>16 DEF Call

LEMMA FaultIsDecent ==
  ASSUME HInv, NEW t \in Threads, LeaseFails(t) \/ \E a \in Addrs : LookupFails(t, a)
  PROVE  Decent(t)
<1>1. CASE LeaseFails(t)
  <2>1. /\ job[t] \in Job /\ WellFormed(job[t]) /\ job[t].at # "next"
        /\ Honest(job[t], nb, taken[t])
    BY <1>1 DEF LeaseFails, HInv, TInv, TypeOK
  <2> DEFINE k == Goes(job[t], "done")
  <2>2. k \in Job /\ WellFormed(k) /\ k.doomed = job[t].doomed
        /\ k.at = "next" /\ k.then = "done"
    BY <2>1, GoesType, GoesFields DEF WellFormed, Fits
  <2>3. Step(t, k) /\ nb' = nb
    BY <1>1 DEF LeaseFails
  <2>4. Mild(nb, nb') /\ Careful(nb, nb', taken[t])
    BY <2>3, NoWrite
  <2> HIDE DEF k
  <2> QED
    BY <2>2, <2>3, <2>4, ListerDecent
<1>2. ASSUME NEW a \in Addrs, LookupFails(t, a) PROVE Decent(t)
  BY <1>2, TakeUpDecent DEF LookupFails
<1> QED
  BY <1>1, <1>2

\* a step of one thread leaves all of them honest
LEMMA DecentKeepsHInv ==
  ASSUME HInv, NEW t \in Threads, Decent(t), TInv'
  PROVE  HInv'
<1>1. PICK k \in Job :
        WellFormed(k) /\ Step(t, k) /\ Honest(k, nb', taken[t] \cap Trusts(k))
  BY DEF Decent
<1>2. ASSUME NEW s \in Threads PROVE Honest(job'[s], nb', taken'[s])
  <2>1. /\ job[s] \in Job /\ WellFormed(job[s]) /\ Honest(job[s], nb, taken[s])
        /\ nb \in NetBox /\ nb' \in NetBox /\ taken \in [Threads -> SUBSET Objects]
    BY DEF HInv, TInv, TypeOK
  <2>2. CASE s = t
    BY <1>1, <2>1, <2>2 DEF Step
  <2>3. CASE s # t
    <3>1. /\ job'[s] = [job[s] EXCEPT !.gone = @ \cup (Removed(nb, nb') \cap Holds(job[s]))]
          /\ taken'[s] = taken[s]
      BY <1>1, <2>1, <2>3 DEF Step
    <3> QED
      BY <2>1, <3>1, HonestBeside DEF Decent
  <2> QED
    BY <2>2, <2>3
<1> QED
  BY <1>2 DEF HInv

LEMMA HInvInit == Init => HInv
<1>1. Init => \A t \in Threads : Honest(job[t], nb, taken[t])
  <2>1. Nothing.doomed = {} /\ Nothing.at = "next" /\ Nothing.then = "done"
    BY DEF Nothing
  <2> QED
    BY <2>1, NothingType, TrustsOf DEF Init, Honest
<1> QED
  BY <1>1, TInvInit DEF HInv

\* a person takes over one object
LEMMA PersonTakesOne ==
  ASSUME TInv, NEW o \in Objects, PersonTakes(o)
  PROVE  /\ \A a \in Addrs : nb'.ip[a] = nb.ip[a] \/ o = Ip(a)
         /\ \A h \in Hosts : nb'.dev[h] = nb.dev[h] \/ (o = Dev(h) /\ nb'.dev[h] # "none")
         /\ \A h \in Hosts : nb'.vm[h] = nb.vm[h] \/ o = VM(h)
<1>0. nb \in NetBox
  BY DEF TInv, TypeOK
<1>1. CASE o[1] = "ip"
  <2>1. o = Ip(o[2])
    BY <1>1 DEF Objects, Iface, Ip
  <2>2. nb' = [nb EXCEPT !.ip[o[2]] = "theirs"]
    BY <1>1 DEF PersonTakes
  <2> QED
    BY <1>0, <2>1, <2>2 DEF NetBox
<1>2. CASE o[1] = "vm"
  <2>1. o = VM(o[2])
    BY <1>2 DEF Objects, Iface, VM
  <2>2. nb' = [nb EXCEPT !.vm[o[2]] = "human"]
    BY <1>2 DEF PersonTakes
  <2> QED
    BY <1>0, <2>1, <2>2 DEF NetBox
<1>3. CASE o[1] = "dev"
  <2>1. o = Dev(o[2])
    BY <1>3 DEF Objects, Iface, Dev
  <2>2. nb' = [nb EXCEPT !.dev[o[2]] = "human"]
    BY <1>3 DEF PersonTakes
  <2> QED
    BY <1>0, <2>1, <2>2 DEF NetBox
<1> QED
  BY <1>1, <1>2, <1>3 DEF PersonTakes

LEMMA HInvNext == HInv /\ [Next]_vars => HInv'
<1> SUFFICES ASSUME HInv, [Next]_vars PROVE HInv'
  OBVIOUS
<1>0. TInv' /\ TInv /\ 0 \in Threads
  BY TInvNext, DhcpAssumption DEF HInv, Threads
<1>1. ASSUME NEW t \in Threads, Call(t) PROVE HInv'
  BY <1>0, <1>1, CallIsDecent, DecentKeepsHInv
<1>2. ASSUME NEW t \in Threads, LeaseFails(t) \/ \E a \in Addrs : LookupFails(t, a)
      PROVE  HInv'
  BY <1>0, <1>2, FaultIsDecent, DecentKeepsHInv
<1>3. ASSUME NEW k \in Job, WellFormed(k), k.at = "next", k.then = "done",
             \A a \in k.doomed : nb.ip[a] # "theirs",
             nb' = nb, job' = [job EXCEPT ![0] = k], taken' = taken
      PROVE  HInv'
  <2>1. Honest(k, nb, taken[0])
    BY <1>3, TrustsOf DEF Honest
  <2> QED
    BY <1>0, <1>3, <2>1 DEF HInv, TInv, TypeOK
<1>4. Nothing \in Job /\ WellFormed(Nothing) /\ Nothing.doomed = {}
      /\ Nothing.at = "next" /\ Nothing.then = "done"
  BY NothingType DEF Nothing
<1>5. ASSUME NEW s \in Sites, Poll(s) PROVE HInv'
  <2> DEFINE k == [Nothing EXCEPT !.work = "reconcile", !.site = s, !.leases = lease[s]]
  <2>1. k \in Job /\ WellFormed(k) /\ k.doomed = {} /\ k.at = "next" /\ k.then = "done"
    BY <1>0, <1>4 DEF Nothing, Job, WellFormed, TInv, TypeOK
  <2>2. job' = [job EXCEPT ![0] = k] /\ nb' = nb /\ taken' = taken
    BY <1>5 DEF Poll
  <2> HIDE DEF k
  <2> QED
    BY <1>3, <2>1, <2>2
<1>6. CASE SiteDone
  BY <1>3, <1>4, <1>6 DEF SiteDone
<1>7. CASE BeginExpiry
  <2> DEFINE k == [Nothing EXCEPT !.work = "expire", !.doomed = Expired(nb, seen, fetched)]
  <2>1. k \in Job /\ WellFormed(k) /\ k.at = "next" /\ k.then = "done"
        /\ k.doomed = Expired(nb, seen, fetched)
    BY <1>4 DEF Nothing, Job, WellFormed, Expired
  <2>2. job' = [job EXCEPT ![0] = k] /\ nb' = nb /\ taken' = taken
    BY <1>7 DEF BeginExpiry
  <2>3. \A a \in k.doomed : nb.ip[a] # "theirs"
    BY <2>1 DEF Expired
  <2> HIDE DEF k
  <2> QED
    BY <1>3, <2>1, <2>2, <2>3
<1>8. CASE PassAborts \/ PassCancelled
  <2>1. Honest(Nothing, nb, {})
    BY <1>4, TrustsOf DEF Honest
  <2>2. faults' \in Threads
    BY <1>0, <1>8, FaultType DEF PassAborts, PassCancelled
  <2>3. nb' = nb /\ \/ /\ job' = [job EXCEPT ![0] = Nothing]
                       /\ taken' = [taken EXCEPT ![0] = {}]
                    \/ /\ job' = [job EXCEPT ![faults'] = job[0], ![0] = Nothing]
                       /\ taken' = [taken EXCEPT ![faults'] = taken[0], ![0] = {}]
    BY <1>8 DEF PassAborts, PassCancelled
  <2>4. \A t \in Threads : Honest(job'[t], nb, taken'[t])
    BY <1>0, <2>1, <2>2, <2>3 DEF HInv, TInv, TypeOK
  <2> QED
    BY <1>0, <2>3, <2>4 DEF HInv
<1>9. ASSUME NEW h \in Hosts, GuestAppears(h) \/ DeviceAppears(h) PROVE HInv'
  <2>1. /\ nb'.ip = nb.ip
        /\ \A g \in Hosts : nb.vm[g] = "ours" => nb'.vm[g] = "ours"
        /\ \A g \in Hosts : nb.dev[g] # "none" => nb'.dev[g] = nb.dev[g]
        /\ UNCHANGED <<job, taken>>
    BY <1>0, <1>9 DEF GuestAppears, DeviceAppears, TInv, TypeOK, NetBox
  <2>2. ASSUME NEW t \in Threads PROVE Honest(job[t], nb', taken[t])
    <3>1. job[t] \in Job /\ WellFormed(job[t]) /\ Honest(job[t], nb, taken[t])
      BY DEF HInv, TInv, TypeOK
    <3>2. job[t].at = "drop" => Host(job[t]) \in Hosts
      BY <3>1, HostType
    <3> QED
      BY <2>1, <3>1, <3>2 DEF Honest
  <2> QED
    BY <1>0, <2>1, <2>2 DEF HInv
<1>10. ASSUME NEW o \in Objects, PersonTakes(o) PROVE HInv'
  <2>1. ASSUME NEW t \in Threads PROVE Honest(job[t], nb', taken'[t])
    <3>1. job[t] \in Job /\ WellFormed(job[t]) /\ Honest(job[t], nb, taken[t])
      BY DEF HInv, TInv, TypeOK
    <3>2. /\ \A a \in Addrs : nb'.ip[a] = nb.ip[a] \/ o = Ip(a)
          /\ \A h \in Hosts : nb'.dev[h] = nb.dev[h] \/ (o = Dev(h) /\ nb'.dev[h] # "none")
          /\ \A h \in Hosts : nb'.vm[h] = nb.vm[h] \/ o = VM(h)
      BY <1>0, <1>10, PersonTakesOne
    <3>3. taken'[t] = taken[t] \cup ({o} \cap Trusts(job[t]))
      BY <1>10 DEF PersonTakes
    <3>4. job[t].at = "drop" => Host(job[t]) \in Hosts /\ Dev(Host(job[t])) \in Trusts(job[t])
      BY <3>1, HostType, TrustsOf
    <3> QED
      BY <3>1, <3>2, <3>3, <3>4 DEF Honest
  <2> QED
    BY <1>0, <1>10, <2>1 DEF HInv, PersonTakes
<1>11. CASE UNCHANGED <<nb, job, taken>>
  BY <1>0, <1>11 DEF HInv
<1> QED
  BY <1>0, <1>1, <1>2, <1>5, <1>6, <1>7, <1>8, <1>9, <1>10, <1>11
  DEF Next, PassStep, Faults, Around, StartPass, SkipExpiry, PollFails, LeaseChanges,
      SiteSwitched, vars

(* No thread, abandoned or not, deletes, reassigns or claims a record that is *)
(* not the module's, nor deletes another author's device or points one or a   *)
(* person's virtual machine at an address: wherever a handler raises and      *)
(* whatever others write between any two of its calls, but for what a person  *)
(* took over after the thread read whose it was, and the records on a device  *)
(* that the thread drops.                                                     *)
THEOREM OthersAreSpared == Spec => OthersUntouched
<1>1. HInv /\ [Next]_vars => [\A t \in Threads : Call(t) => Careful(nb, nb', taken[t])]_vars
  BY CallIsDecent DEF Decent
<1> QED
  BY <1>1, HInvInit, HInvNext, PTL DEF Spec, OthersUntouched, Careful
================================================================================
