----------------------------- MODULE Availability -----------------------------
(****************************************************************************)
(* The availability module (sync/availability.py) with its records in the   *)
(* state database (state.py), and the certs module (sync/certs.py) as the   *)
(* other loop that writes the tags of the same devices.                     *)
(*                                                                          *)
(* A NetBox tag update replaces the whole list, and both modules compute it *)
(* from the copy of the device they read at the start of their pass.        *)
(* Availability's copies live until the pass has pinged every host and      *)
(* handled the hosts before this one; those of certs live until the probes  *)
(* of the host are done.                                                    *)
(*                                                                          *)
(* What a pass writes to a device it hands to a worker thread.  Cancelling  *)
(* the pass does not stop the thread: it goes on with its remaining calls,  *)
(* next to whatever passes come later.                                      *)
(*                                                                          *)
(* Time is counted in ticks.  What the database stores as a date is kept    *)
(* here as an age, counted up to Cap.  Excluded prefixes, the throttled     *)
(* writes of last_seen and journal entries are not represented.             *)
(****************************************************************************)
EXTENDS Integers

CONSTANTS Devices,
          Scanned,     \* those discovery created; the others are reservations
          StaleAfter,  \* availability.stale_after
          GraceAfter,  \* lifecycle.stale_grace_delete_days
          MaxLag,      \* how long a pass takes after its pings
          MaxFaults,   \* bound on failing calls and interrupted passes
          Tls,         \* those whose host serves a certificate
          After,       \* those listed after a device with the same primary address
          None

Cap == GraceAfter + MaxLag
Age == 0..Cap
Threads == 0..MaxFaults  \* 0 works for the pass, the others were abandoned by one

ASSUME AvailabilityAssumption ==
  /\ Scanned \subseteq Devices /\ Tls \subseteq Devices
  /\ After \in [Devices -> SUBSET Devices]
  /\ StaleAfter \in Nat \ {0} /\ GraceAfter \in Nat /\ StaleAfter <= GraceAfter
  /\ MaxLag \in Nat /\ MaxFaults \in Nat
  /\ None \notin Devices \cup Age

Tags == SUBSET {"stale", "cert"}
Steps == {"untag", "activate", "tag", "deactivate", "deleteIp", "deleteDevice"}
Idle == [at |-> "done", dev |-> None, tags |-> {}]
Refused == [at |-> "refused", dev |-> None, tags |-> {}]

VARIABLES
  up,       \* the host answers pings
  known,    \* the device is in NetBox
  primary,  \* it has a primary address
  tags,     \* its tags, of the two that these modules move
  offline,  \* its status is offline, not active
  seen,     \* host_state.last_seen, as an age; None when never up
  mark,     \* kv "firstdown:...", as an age; None when absent
  pc,       \* where the pass is
  copy,     \* the tags of the copies the pass works on
  result,   \* the answers of async_multiping
  lag,      \* ticks since they came in
  todo,     \* devices of the pass still to ping and handle
  gone,     \* those of them that were deleted since it read them
  thread,   \* the next call of each thread, its device and its copy's tags
  probing,  \* the devices certs is probing
  held,     \* the tags of its copies of them
  found,    \* those of them whose certificate it has fetched
  silent,   \* (history) ticks since the host last answered a ping of a pass
  torn,     \* (history) devices whose tag and status were parted: see below
  lost,     \* (history) devices one of whose answers no pass has recorded
  late,     \* (history) threads whose host has answered another pass since
  faults

netbox == <<known, primary, tags, offline>>
db == <<seen, mark>>
pass == <<pc, copy, result, lag, todo, gone>>
certs == <<probing, held, found>>
history == <<silent, torn, lost, late>>
vars == <<up, netbox, db, pass, thread, certs, history, faults>>

TypeOK ==
  /\ up \in [Devices -> BOOLEAN] /\ known \in [Devices -> BOOLEAN]
  /\ primary \in [Devices -> BOOLEAN] /\ offline \in [Devices -> BOOLEAN]
  /\ tags \in [Devices -> Tags]
  /\ seen \in [Devices -> Age \cup {None}] /\ mark \in [Devices -> Age \cup {None}]
  /\ pc \in {"idle", "pinging", "next"}
  /\ copy \in [Devices -> Tags]
  /\ probing \subseteq Devices /\ found \subseteq probing /\ held \in [Devices -> Tags]
  /\ result \in [Devices -> BOOLEAN]
  /\ lag \in 0..MaxLag
  /\ todo \subseteq Devices /\ gone \subseteq Devices
  /\ thread \in [Threads -> [at : Steps \cup {"done", "refused"},
                             dev : Devices \cup {None}, tags : Tags]]
  /\ silent \in [Devices -> Age]
  /\ torn \subseteq Devices /\ lost \subseteq Devices /\ late \subseteq Threads
  /\ faults \in 0..MaxFaults

NoTags == [d \in Devices |-> {}]
Never == [d \in Devices |-> None]
NoResults == [d \in Devices |-> FALSE]

Init ==
  /\ up \in [Devices -> BOOLEAN]
  /\ known = [d \in Devices |-> TRUE] /\ primary = [d \in Devices |-> TRUE]
  /\ tags = NoTags /\ offline = [d \in Devices |-> FALSE]
  /\ seen = Never /\ mark = Never
  /\ pc = "idle" /\ copy = NoTags /\ result = NoResults
  /\ lag = 0 /\ todo = {} /\ gone = {} /\ thread = [t \in Threads |-> Idle]
  /\ probing = {} /\ held = NoTags /\ found = {}
  /\ silent = [d \in Devices |-> 0] /\ torn = {} /\ lost = {} /\ late = {}
  /\ faults = 0

-------------------------------------------------------------------------------
(* AvailabilitySync.run                                                     *)

Monitored == {d \in Devices : known[d] /\ primary[d]}

\* ip_to_device keeps the last device of each address
Pinged == {d \in Monitored : After[d] \cap Monitored = {}}

CopiesOf(S) == [d \in Devices |-> IF d \in S THEN tags[d] ELSE {}]

\* mutant: the copy outlives the device's turn
CertsDrop_found(d) ==
  /\ probing' = probing \ {d}
  /\ UNCHANGED <<held, found>>

\* certs is done with a device
CertsDrop(d) ==
  /\ probing' = probing \ {d} /\ found' = found \ {d}
  /\ held' = [held EXCEPT ![d] = {}]

StartPass ==
  /\ pc = "idle" /\ Pinged # {}
  /\ copy' = CopiesOf(Pinged) /\ todo' = Pinged
  /\ pc' = "pinging"
  /\ UNCHANGED <<up, netbox, db, result, lag, gone, thread, certs, history, faults>>

Ping ==
  /\ pc = "pinging"
  /\ result' = [d \in Devices |-> d \in todo /\ up[d]]
  /\ lag' = 0
  /\ pc' = "next"
  /\ silent' = [d \in Devices |-> IF result'[d] THEN 0 ELSE silent[d]]
  /\ lost' = {d \in lost : ~result'[d]}
  /\ late' = late \cup {t \in Threads : \E d \in Devices : thread[t].dev = d /\ result'[d]}
  /\ UNCHANGED <<up, netbox, db, copy, todo, gone, thread, certs, torn, faults>>

\* asyncio.to_thread: the pass waits until its thread is done
HandOver(d, step) ==
  thread' = [thread EXCEPT ![0] = [at |-> step, dev |-> d, tags |-> copy[d]]]

Takes(d) ==
  /\ pc = "next" /\ thread[0].at = "done" /\ d \in todo
  /\ todo' = todo \ {d}

\* record_check and the beginning of _handle_up
HandleUp(d) ==
  /\ Takes(d) /\ result[d]
  /\ seen' = [seen EXCEPT ![d] = lag]
  /\ mark' = [mark EXCEPT ![d] = None]
  /\ IF "stale" \in copy[d] THEN HandOver(d, "untag") ELSE UNCHANGED thread
  /\ UNCHANGED <<up, netbox, pc, copy, result, lag, gone, certs, history, faults>>

\* the device's part of a thread's calls, and the thread goes on to the next
Goes(t, from, to) ==
  /\ thread[t].at = from
  /\ thread' = [thread EXCEPT ![t] = IF to = "done" THEN Idle ELSE [@ EXCEPT !.at = to]]
  /\ late' = IF to = "done" THEN late \ {t} ELSE late
  /\ UNCHANGED <<up, known, pass, certs, silent, torn, lost, faults>>

\* mutant: the tag list is written as it was read
Untag_asRead(t) ==
  /\ Goes(t, "untag", "activate")
  /\ tags' = [tags EXCEPT ![thread[t].dev] = thread[t].tags]
  /\ UNCHANGED <<primary, offline, db>>

\* recover(): remove_tags writes the copy without the tag
Untag(t) ==
  /\ Goes(t, "untag", "activate")
  /\ tags' = [tags EXCEPT ![thread[t].dev] = thread[t].tags \ {"stale"}]
  /\ UNCHANGED <<primary, offline, db>>

\* recover(): the status update
Activate(t) ==
  /\ Goes(t, "activate", "done")
  /\ offline' = [offline EXCEPT ![thread[t].dev] = FALSE]
  /\ UNCHANGED <<primary, tags, db>>

\* how long the host had been failing when it was pinged
FailingFor(age) == IF age = None THEN 0 ELSE age - lag

\* mutant: a host that was never up counts as failing from the start
BeyondThreshold_neverUp(d) == seen[d] # None => FailingFor(seen[d]) >= StaleAfter

\* mutant: only a host that was up once can fail
BeyondThreshold_onceUp(d) == seen[d] # None /\ FailingFor(seen[d]) >= StaleAfter

\* neither last_seen nor, for a host never up, the first failed check is recent
BeyondThreshold(d) ==
  IF seen[d] # None THEN FailingFor(seen[d]) >= StaleAfter
  ELSE mark[d] # None /\ FailingFor(mark[d]) >= StaleAfter

\* _maybe_grace_delete's conditions
BeyondGrace(d) ==
  d \in Scanned /\ seen[d] # None /\ FailingFor(seen[d]) >= GraceAfter

\* record_check and _handle_down, up to its writes to NetBox
HandleDown(d) ==
  /\ Takes(d) /\ ~result[d]
  /\ LET stale == "stale" \in copy[d]
         act == IF stale THEN BeyondGrace(d) ELSE BeyondThreshold(d)
     IN  /\ IF act THEN HandOver(d, IF stale THEN "deleteIp" ELSE "tag")
                   ELSE UNCHANGED thread
         /\ mark' = IF ~stale /\ seen[d] = None /\ mark[d] = None
                    THEN [mark EXCEPT ![d] = lag] ELSE mark
  /\ UNCHANGED <<up, netbox, seen, pc, copy, result, lag, gone, certs, history, faults>>

\* mark_stale(): add_tags writes the copy with the tag
Tag(t) ==
  /\ Goes(t, "tag", "deactivate")
  /\ tags' = [tags EXCEPT ![thread[t].dev] = thread[t].tags \cup {"stale"}]
  /\ UNCHANGED <<primary, offline, db>>

\* mutant: the status is left to the operator
Deactivate_keep(t) ==
  /\ Goes(t, "deactivate", "done")
  /\ UNCHANGED <<primary, tags, offline, db>>

\* mark_stale(): the status update
Deactivate(t) ==
  /\ Goes(t, "deactivate", "done")
  /\ offline' = [offline EXCEPT ![thread[t].dev] = TRUE]
  /\ UNCHANGED <<primary, tags, db>>

\* do_delete(): the primary address, unless it is gone or is not discovery's
DeleteIp(t) ==
  /\ Goes(t, "deleteIp", "deleteDevice")
  /\ \E deleted \in BOOLEAN :
       primary' = IF deleted THEN [primary EXCEPT ![thread[t].dev] = FALSE] ELSE primary
  /\ UNCHANGED <<tags, offline, db>>

\* then the device; the pass, if it still waits, forgets the host.  What others
\* still write to the device is refused.
DeleteDevice(t) ==
  /\ thread[t].at = "deleteDevice"
  /\ LET d == thread[t].dev
     IN  /\ known' = [known EXCEPT ![d] = FALSE]
         /\ seen' = IF t = 0 THEN [seen EXCEPT ![d] = None] ELSE seen
         /\ thread' = [s \in Threads |-> IF s = t THEN Idle
                                         ELSE IF thread[s].dev = d THEN Refused ELSE thread[s]]
         /\ late' = {s \in late : s # t /\ thread[s].dev # d}
         /\ todo' = todo \ {d} /\ gone' = gone \cup (todo \cap {d})
         /\ CertsDrop(d)
  /\ UNCHANGED <<up, primary, tags, offline, mark, pc, copy, result, lag, silent, torn,
                 lost, faults>>

PassEnds ==
  /\ pc = "next" /\ todo \cup gone = {} /\ thread[0].at = "done"
  /\ pc' = "idle" /\ copy' = NoTags /\ result' = NoResults /\ lag' = 0
  /\ UNCHANGED <<up, netbox, db, todo, gone, thread, certs, history, faults>>

\* The pass is over: the answers it has not come to are dropped.
Breaks ==
  /\ pc' = "idle" /\ copy' = NoTags /\ result' = NoResults /\ lag' = 0
  /\ todo' = {} /\ gone' = {}
  /\ lost' = lost \cup {d \in todo : result[d]}
  /\ UNCHANGED <<up, netbox, db, certs, silent>>

\* An exception in the handling of one device leaves run; a cancellation between
\* two devices and the end of the process are no different.
PassAborts ==
  /\ pc # "idle" /\ faults < MaxFaults
  /\ Breaks
  /\ thread' = [thread EXCEPT ![0] = Idle]
  /\ torn' = torn \cup {d \in Devices : thread[0].dev = d
                                        /\ thread[0].at \in {"activate", "deactivate"}}
  /\ faults' = faults + 1
  /\ UNCHANGED late

\* The pass is cancelled while it waits for its thread, which goes on alone.
PassCancelled ==
  /\ thread[0].at \in Steps /\ faults < MaxFaults
  /\ Breaks
  /\ thread' = [thread EXCEPT ![0] = Idle, ![faults + 1] = thread[0]]
  /\ torn' = torn \cup {thread[0].dev}
  /\ faults' = faults + 1
  /\ UNCHANGED late

\* A call on a device that an abandoned thread has deleted: the thread is done,
\* and the pass with it.
ThreadRefused(t) ==
  /\ thread[t].at = "refused"
  /\ thread' = [thread EXCEPT ![t] = Idle]
  /\ IF t = 0 THEN Breaks
     ELSE UNCHANGED <<up, netbox, db, pass, certs, silent, lost>>
  /\ UNCHANGED <<torn, late, faults>>

\* The pass comes to such a device: there is nothing to write, or it is refused.
HandleGone(d) ==
  /\ pc = "next" /\ thread[0].at = "done" /\ d \in gone
  /\ \/ Breaks
     \/ /\ gone' = gone \ {d}
        /\ UNCHANGED <<up, netbox, db, pc, copy, result, lag, todo, certs, silent, lost>>
  /\ UNCHANGED <<thread, torn, late, faults>>

-------------------------------------------------------------------------------
(* CertsSync.run                                                            *)

\* _hosts_with_ips; a host without a certificate is left alone in any case
CertsRead ==
  /\ probing = {}
  /\ probing' = Monitored \cap Tls /\ held' = CopiesOf(probing')
  /\ UNCHANGED <<up, netbox, db, pass, thread, found, history, faults>>

\* fetch_cert
CertsProbe(d) ==
  /\ d \in probing \ found /\ up[d]
  /\ found' = found \cup {d}
  /\ UNCHANGED <<up, netbox, db, pass, thread, probing, held, history, faults>>

\* the host serves none now, the write fails, or the pass ends before it
CertsSkip(d) ==
  /\ d \in probing
  /\ CertsDrop(d)
  /\ UNCHANGED <<up, netbox, db, pass, thread, history, faults>>

\* _apply: the certificate tag is added, removed, or there is nothing to write
CertsApply(d) ==
  /\ d \in found
  /\ CertsDrop(d)
  /\ \E new \in {held[d] \cup {"cert"}, held[d] \ {"cert"}} :
       tags' = IF new # held[d] THEN [tags EXCEPT ![d] = new] ELSE tags
  /\ torn' = IF {"stale"} \cap tags'[d] # {"stale"} \cap tags[d]
             THEN torn \cup {d} ELSE torn
  /\ UNCHANGED <<up, known, primary, offline, db, pass, thread, silent, lost, late, faults>>

-------------------------------------------------------------------------------
(* Time, the hosts, and discovery                                           *)

Older(age) == IF age = None THEN None ELSE IF age < Cap THEN age + 1 ELSE Cap

Tick ==
  /\ pc = "next" => lag < MaxLag
  /\ lag' = IF pc = "next" THEN lag + 1 ELSE 0
  /\ seen' = [d \in Devices |-> Older(seen[d])]
  /\ mark' = [d \in Devices |-> Older(mark[d])]
  /\ silent' = [d \in Devices |-> Older(silent[d])]
  /\ UNCHANGED <<up, netbox, pc, copy, result, todo, gone, thread, certs, torn, lost,
                 late, faults>>

HostFlips(d) ==
  /\ up' = [up EXCEPT ![d] = ~@]
  /\ UNCHANGED <<netbox, db, pass, thread, certs, history, faults>>

\* discovery finds the host: a new device, with a new key, or a primary
\* address for the one there is
Rediscovered(d) ==
  /\ up[d] /\ d \in Scanned \ Monitored
  /\ primary' = [primary EXCEPT ![d] = TRUE]
  /\ known' = [known EXCEPT ![d] = TRUE]
  /\ IF known[d] THEN UNCHANGED <<tags, offline, db, silent, torn, lost>>
     ELSE /\ tags' = [tags EXCEPT ![d] = {}]
          /\ offline' = [offline EXCEPT ![d] = FALSE]
          /\ seen' = [seen EXCEPT ![d] = None]
          /\ mark' = [mark EXCEPT ![d] = None]
          /\ silent' = [silent EXCEPT ![d] = 0]
          /\ torn' = torn \ {d} /\ lost' = lost \ {d}
  /\ UNCHANGED <<up, pass, thread, certs, late, faults>>

-------------------------------------------------------------------------------
\* what a thread does next
Call(t) ==
  \/ Untag(t) \/ Activate(t) \/ Tag(t) \/ Deactivate(t) \/ DeleteIp(t)
  \/ DeleteDevice(t) \/ ThreadRefused(t)

PassStep ==
  \/ StartPass \/ Ping \/ PassEnds \/ Call(0)
  \/ \E d \in Devices : HandleUp(d) \/ HandleDown(d) \/ HandleGone(d)

Next ==
  \/ PassStep \/ PassAborts \/ PassCancelled \/ CertsRead \/ Tick
  \/ \E t \in Threads \ {0} : Call(t)
  \/ \E d \in Devices :
       \/ CertsProbe(d) \/ CertsSkip(d) \/ CertsApply(d)
       \/ HostFlips(d) \/ Rediscovered(d)

Spec == Init /\ [][Next]_vars

\* The scheduler runs pass after pass, a pass ends, time goes on.  Threads that a
\* pass has abandoned may take for ever, which is also how they fail.
FairSpec == Spec /\ WF_vars(PassStep) /\ WF_vars(Tick)

-------------------------------------------------------------------------------
(* Properties                                                               *)

\* The stale tag goes with the offline status, except while the pass's thread is at
\* the device, and once a pass was cut off at it or certs wrote an older copy back.
TagMatchesStatus ==
  \A d \in Devices :
    known[d] /\ d \notin torn /\ thread[0].dev # d => ("stale" \in tags[d] <=> offline[d])

\* No device is tagged stale before stale_after, nor deleted before the grace
\* period, has gone by since its host last answered a ping, however long ago its
\* answers came in and whichever thread does it.  Two exceptions: an answer dropped
\* by an interrupted pass does not count, and a thread that a cancelled pass has
\* left behind does not learn of an answer that a later pass gets.
SilenceBeforeStale ==
  [][\A d \in Devices \ lost, t \in Threads \ late :
       thread[t].dev = d =>
         /\ Tag(t) => silent[d] >= StaleAfter
         /\ DeleteDevice(t) => silent[d] >= GraceAfter]_vars

\* A host that stays down is tagged stale again and again, whatever certs and the
\* threads left behind write, until its device or its address is gone.
StaleInTheEnd ==
  \A d \in Devices :
    <>[](~up[d] /\ d \in Pinged) => []<>("stale" \in tags[d])

\* A host that stays up loses the tag, also when certs or a thread left behind puts
\* it back.
UntaggedInTheEnd ==
  \A d \in Devices :
    <>[](up[d] /\ d \in Pinged) => []<>("stale" \notin tags[d])

\* "bring them back when they respond again": a host that stays up has the active
\* status in the end.
BroughtBack ==
  \A d \in Devices : <>[](up[d] /\ d \in Pinged) => <>[]~offline[d]
================================================================================
