--------------------------- MODULE AvailabilityProofs ---------------------------
(* Theorems about Availability, for any devices, thresholds, delays and faults, *)
(* however many threads cancelled passes leave behind.                          *)
EXTENDS Availability, TLAPS

(* Types *)

LEMMA AgesAreNumbers ==
  /\ Cap \in Nat /\ Age \subseteq Nat /\ 0 \in Age /\ StaleAfter <= GraceAfter
  /\ GraceAfter <= Cap /\ MaxLag <= Cap /\ 0..MaxLag \subseteq Age
  /\ StaleAfter \in Nat /\ GraceAfter \in Nat /\ MaxLag \in Nat /\ MaxFaults \in Nat
  BY AvailabilityAssumption DEF Cap, Age

\* Growing older keeps an age, and which of two is the greater
LEMMA OlderIsAge ==
  /\ \A a \in Age \cup {None} : Older(a) \in Age \cup {None} /\ (Older(a) = None <=> a = None)
  /\ \A a \in Age : Older(a) \in Age /\ Older(a) >= a
  /\ \A a, b \in Age : a >= b => Older(a) >= Older(b)
  <1>1. None \notin Age
    BY AvailabilityAssumption
  <1> QED BY <1>1, AgesAreNumbers DEF Older, Age

\* A thread that has a call to make knows the device it makes it on
Busy == \A t \in Threads :
          IF thread[t].at \in Steps THEN thread[t].dev \in Devices ELSE thread[t].dev = None

\* Only a pass that is past its pings has a thread of its own
Turn == thread[0].at # "done" => pc = "next"

Typed == TypeOK /\ Busy /\ Turn

LEMMA ThreadsAre ==
  /\ 0 \in Threads /\ None \notin Devices /\ None \notin Age
  /\ Idle \in [at : Steps \cup {"done", "refused"}, dev : Devices \cup {None}, tags : Tags]
  /\ Refused \in [at : Steps \cup {"done", "refused"}, dev : Devices \cup {None}, tags : Tags]
  /\ \A f \in 0..MaxFaults : f < MaxFaults => f + 1 \in Threads /\ f + 1 # 0
  BY AvailabilityAssumption DEF Threads, Idle, Refused, Tags

LEMMA InitType == Init => Typed
  BY AgesAreNumbers, ThreadsAre
     DEF Init, Typed, Busy, Turn, TypeOK, NoTags, Never, NoResults, Tags, Idle, Steps

LEMMA CopiesAreTags ==
  ASSUME TypeOK, NEW S
  PROVE  CopiesOf(S) \in [Devices -> Tags]
  BY DEF TypeOK, CopiesOf, Tags

\* A call that succeeds
LEMMA GoesType ==
  ASSUME Typed, NEW t \in Threads, NEW from \in Steps, NEW to \in Steps \cup {"done"},
         Goes(t, from, to)
  PROVE  /\ thread' \in [Threads -> [at : Steps \cup {"done", "refused"},
                                     dev : Devices \cup {None}, tags : Tags]]
         /\ Busy' /\ Turn' /\ late' \subseteq Threads /\ thread[t].dev \in Devices
         /\ thread'[t].at = to
         /\ thread'[t].dev = IF to = "done" THEN None ELSE thread[t].dev
         /\ \A s \in Threads \ {t} : thread'[s] = thread[s]
  <1>1. thread[t].at = from /\ thread[t].dev \in Devices
    BY DEF Goes, Typed, Busy
  <1>2. /\ thread' \in [Threads -> [at : Steps \cup {"done", "refused"},
                                     dev : Devices \cup {None}, tags : Tags]]
        /\ thread'[t].at = to
        /\ thread'[t].dev = IF to = "done" THEN None ELSE thread[t].dev
        /\ \A s \in Threads \ {t} : thread'[s] = thread[s]
    <2>1. CASE to = "done"
      BY <2>1, ThreadsAre DEF Goes, Typed, TypeOK, Idle
    <2>2. CASE to # "done"
      <3>1. thread' = [thread EXCEPT ![t] = [thread[t] EXCEPT !.at = to]]
        BY <2>2 DEF Goes
      <3> QED BY <2>2, <3>1 DEF Typed, TypeOK
    <2> QED BY <2>1, <2>2
  <1>3. late' \subseteq Threads
    BY DEF Goes, Typed, TypeOK
  <1>4. Busy'
    <2> SUFFICES ASSUME NEW s \in Threads
                 PROVE  IF thread'[s].at \in Steps THEN thread'[s].dev \in Devices
                        ELSE thread'[s].dev = None
      BY DEF Busy
    <2>1. CASE s = t
      BY <1>1, <1>2, <2>1 DEF Steps
    <2>2. CASE s # t
      BY <1>2, <2>2 DEF Typed, Busy
    <2> QED BY <2>1, <2>2
  <1>5. Turn'
    <2>1. pc' = pc
      BY DEF Goes, pass
    <2>2. CASE t = 0
      BY <1>1, <2>1, <2>2 DEF Typed, Turn, Steps
    <2>3. CASE t # 0
      BY <1>2, <2>1, <2>3, ThreadsAre DEF Typed, Turn
    <2> QED BY <2>2, <2>3
  <1> QED BY <1>1, <1>2, <1>3, <1>4, <1>5

LEMMA CallType ==
  ASSUME Typed, NEW t \in Threads, Call(t)
  PROVE  Typed'
  <1> USE DEF Typed, TypeOK, netbox, db, pass, certs, history
  <1>1. CASE Untag(t)
    BY <1>1, GoesType DEF Untag, Goes, Tags, Steps
  <1>2. CASE Activate(t)
    BY <1>2, GoesType DEF Activate, Goes, Steps
  <1>3. CASE Tag(t)
    BY <1>3, GoesType DEF Tag, Goes, Tags, Steps
  <1>4. CASE Deactivate(t)
    BY <1>4, GoesType DEF Deactivate, Goes, Steps
  <1>5. CASE DeleteIp(t)
    <2>1. Goes(t, "deleteIp", "deleteDevice") /\ UNCHANGED <<tags, offline, db>>
      BY <1>5 DEF DeleteIp
    <2>2. primary' \in [Devices -> BOOLEAN]
      BY <1>5 DEF DeleteIp
    <2> QED BY <2>1, <2>2, GoesType DEF Goes, Steps
  <1>6. CASE DeleteDevice(t)
    <2>1. /\ known' \in [Devices -> BOOLEAN] /\ seen' \in [Devices -> Age \cup {None}]
          /\ todo' \subseteq Devices /\ gone' \subseteq Devices /\ late' \subseteq Threads
          /\ UNCHANGED <<up, primary, tags, offline, mark, pc, copy, result, lag, silent, torn,
                         lost, faults>>
      BY <1>6 DEF DeleteDevice
    <2>2. probing' \subseteq Devices /\ found' \subseteq probing' /\ held' \in [Devices -> Tags]
      BY <1>6 DEF DeleteDevice, CertsDrop, Tags
    <2>3. \A s \in Threads : thread'[s] \in {thread[s], Idle, Refused}
      BY <1>6 DEF DeleteDevice
    <2>4. /\ thread' \in [Threads -> [at : Steps \cup {"done", "refused"},
                                      dev : Devices \cup {None}, tags : Tags]]
          /\ thread'[0].at # "done" => thread[0].at # "done"
      <3>1. thread' \in [Threads -> [at : Steps \cup {"done", "refused"},
                                     dev : Devices \cup {None}, tags : Tags]]
        BY <1>6, <2>3, ThreadsAre DEF DeleteDevice
      <3>2. thread[t].dev \in Devices
        BY <1>6 DEF DeleteDevice, Busy, Steps
      <3>3. thread[0].dev = thread[t].dev => thread[0].at \in Steps
        BY <3>2, ThreadsAre DEF Busy
      <3>4. thread'[0] = thread[0] \/ thread'[0] = Idle \/ thread[0].at \in Steps
        BY <1>6, <3>3, ThreadsAre DEF DeleteDevice
      <3> QED BY <3>1, <3>4 DEF Idle, Steps
    <2>5. Busy'
      BY <2>3 DEF Busy, Idle, Refused, Steps, Typed
    <2>6. Turn'
      BY <2>1, <2>4 DEF Turn
    <2> QED BY <2>1, <2>2, <2>4, <2>5, <2>6
  <1>7. CASE ThreadRefused(t)
    <2>1. /\ thread' \in [Threads -> [at : Steps \cup {"done", "refused"},
                                      dev : Devices \cup {None}, tags : Tags]]
          /\ thread'[t] = Idle /\ \A s \in Threads \ {t} : thread'[s] = thread[s]
      BY <1>7, ThreadsAre DEF ThreadRefused
    <2>2. Busy'
      BY <2>1 DEF Busy, Idle, Steps
    <2>3. CASE t = 0
      <3>1. Breaks /\ UNCHANGED <<torn, late, faults>>
        BY <1>7, <2>3 DEF ThreadRefused
      <3>2. Turn'
        BY <2>1, <2>3 DEF Turn, Idle
      <3> QED BY <2>1, <2>2, <3>1, <3>2, AgesAreNumbers DEF Breaks, NoTags, NoResults, Tags
    <2>4. CASE t # 0
      <3>1. UNCHANGED <<up, netbox, db, pass, certs, silent, lost, torn, late, faults>>
        BY <1>7, <2>4 DEF ThreadRefused
      <3>2. Turn'
        BY <2>1, <2>4, <3>1, ThreadsAre DEF Turn
      <3> QED BY <2>1, <2>2, <3>1, <3>2
    <2> QED BY <2>3, <2>4
  <1> QED BY <1>1, <1>2, <1>3, <1>4, <1>5, <1>6, <1>7 DEF Call

\* A device that the pass takes in hand: whether it is handed to the thread or not
LEMMA HandOverType ==
  ASSUME Typed, NEW d \in Devices, NEW step \in Steps, pc = "next", pc' = pc,
         thread' = thread \/ HandOver(d, step)
  PROVE  /\ thread' \in [Threads -> [at : Steps \cup {"done", "refused"},
                                     dev : Devices \cup {None}, tags : Tags]]
         /\ Busy' /\ Turn'
  <1>1. CASE thread' = thread
    BY <1>1 DEF Typed, TypeOK, Busy, Turn
  <1>2. CASE HandOver(d, step)
    <2>1. [at |-> step, dev |-> d, tags |-> copy[d]]
            \in [at : Steps \cup {"done", "refused"}, dev : Devices \cup {None}, tags : Tags]
      BY DEF Typed, TypeOK
    <2>2. /\ thread' \in [Threads -> [at : Steps \cup {"done", "refused"},
                                     dev : Devices \cup {None}, tags : Tags]]
          /\ thread'[0].at = step /\ thread'[0].dev = d
          /\ \A s \in Threads \ {0} : thread'[s] = thread[s]
      BY <1>2, <2>1, ThreadsAre DEF HandOver, Typed, TypeOK
    <2> QED BY <2>2 DEF Typed, Busy, Turn
  <1> QED BY <1>1, <1>2

LEMMA NextType == Typed /\ [Next]_vars => Typed'
  <1> SUFFICES ASSUME Typed, [Next]_vars PROVE Typed'
    OBVIOUS
  <1> USE AgesAreNumbers DEF Typed, Busy, Turn, TypeOK, netbox, db, pass, certs, history
  <1>1. CASE StartPass
    BY <1>1, CopiesAreTags DEF StartPass, Pinged, Monitored
  <1>2. CASE Ping
    BY <1>2 DEF Ping
  <1>3. ASSUME NEW t \in Threads, Call(t)
        PROVE  Typed'
    BY <1>3, CallType
  <1>4. CASE PassEnds
    BY <1>4 DEF PassEnds, NoTags, NoResults, Tags
  <1>5. ASSUME NEW d \in Devices, HandleUp(d)
        PROVE  Typed'
    <2>1. thread' = thread \/ HandOver(d, "untag")
      BY <1>5 DEF HandleUp
    <2>2. /\ thread' \in [Threads -> [at : Steps \cup {"done", "refused"},
                                      dev : Devices \cup {None}, tags : Tags]]
          /\ Busy' /\ Turn'
      BY <1>5, <2>1, HandOverType DEF HandleUp, Takes, Steps
    <2>3. lag \in Age
      OBVIOUS
    <2> QED BY <1>5, <2>2, <2>3 DEF HandleUp, Takes
  <1>6. ASSUME NEW d \in Devices, HandleDown(d)
        PROVE  Typed'
    <2>1. thread' = thread \/ HandOver(d, "tag") \/ HandOver(d, "deleteIp")
      BY <1>6 DEF HandleDown
    <2>2. mark' \in [Devices -> Age \cup {None}]
      BY <1>6 DEF HandleDown
    <2>3. /\ thread' \in [Threads -> [at : Steps \cup {"done", "refused"},
                                      dev : Devices \cup {None}, tags : Tags]]
          /\ Busy' /\ Turn'
      BY <1>6, <2>1, HandOverType DEF HandleDown, Takes, Steps
    <2> QED BY <1>6, <2>2, <2>3 DEF HandleDown, Takes
  <1>7. ASSUME NEW d \in Devices, HandleGone(d)
        PROVE  Typed'
    <2>1. UNCHANGED <<thread, torn, late, faults>> /\ thread[0].at = "done"
      BY <1>7 DEF HandleGone
    <2>2. CASE Breaks
      BY <2>1, <2>2 DEF Breaks, NoTags, NoResults, Tags
    <2>3. CASE ~Breaks
      BY <1>7, <2>1, <2>3 DEF HandleGone
    <2> QED BY <2>2, <2>3
  <1>8. CASE PassAborts
    <2>1. /\ thread' \in [Threads -> [at : Steps \cup {"done", "refused"},
                                      dev : Devices \cup {None}, tags : Tags]]
          /\ thread'[0] = Idle /\ \A s \in Threads \ {0} : thread'[s] = thread[s]
      BY <1>8, ThreadsAre DEF PassAborts
    <2>2. Busy' /\ Turn'
      BY <2>1, ThreadsAre DEF Idle, Steps
    <2>3. faults' \in 0..MaxFaults /\ torn' \subseteq Devices
      BY <1>8 DEF PassAborts
    <2> QED BY <1>8, <2>1, <2>2, <2>3 DEF PassAborts, Breaks, NoTags, NoResults, Tags
  <1>9. CASE PassCancelled
    <2>1. faults + 1 \in Threads /\ faults + 1 # 0
      BY <1>9, ThreadsAre DEF PassCancelled
    <2>2. /\ thread' \in [Threads -> [at : Steps \cup {"done", "refused"},
                                      dev : Devices \cup {None}, tags : Tags]]
          /\ thread'[0] = Idle /\ thread'[faults + 1] = thread[0]
          /\ \A s \in Threads \ {0, faults + 1} : thread'[s] = thread[s]
      BY <1>9, <2>1, ThreadsAre DEF PassCancelled
    <2>3. Busy' /\ Turn'
      BY <2>1, <2>2, ThreadsAre DEF Idle, Steps
    <2>4. faults' \in 0..MaxFaults /\ torn' \subseteq Devices
      BY <1>9, ThreadsAre DEF PassCancelled
    <2> QED BY <1>9, <2>2, <2>3, <2>4 DEF PassCancelled, Breaks, NoTags, NoResults, Tags
  <1>10. CASE CertsRead
    BY <1>10, CopiesAreTags DEF CertsRead, Monitored
  <1>11. CASE Tick
    <2>1. lag' \in 0..MaxLag
      BY <1>11 DEF Tick
    <2>2. /\ seen' \in [Devices -> Age \cup {None}] /\ mark' \in [Devices -> Age \cup {None}]
          /\ silent' \in [Devices -> Age]
      BY <1>11, OlderIsAge DEF Tick
    <2> QED BY <1>11, <2>1, <2>2 DEF Tick
  <1>12. ASSUME NEW d \in Devices, CertsProbe(d) \/ CertsSkip(d)
         PROVE  Typed'
    BY <1>12 DEF CertsProbe, CertsSkip, CertsDrop, Tags
  <1>13. ASSUME NEW d \in Devices, CertsApply(d)
         PROVE  Typed'
    <2>1. tags' \in [Devices -> Tags]
      BY <1>13 DEF CertsApply, Tags
    <2> QED BY <1>13, <2>1 DEF CertsApply, CertsDrop, Tags
  <1>14. ASSUME NEW d \in Devices, HostFlips(d)
         PROVE  Typed'
    BY <1>14 DEF HostFlips
  <1>15. ASSUME NEW d \in Devices, Rediscovered(d)
         PROVE  Typed'
    <2>1. UNCHANGED <<up, pass, thread, certs, late, faults>>
      BY <1>15 DEF Rediscovered
    <2>2. primary' \in [Devices -> BOOLEAN] /\ known' \in [Devices -> BOOLEAN]
      BY <1>15 DEF Rediscovered
    <2>3. CASE known[d]
      BY <1>15, <2>1, <2>2, <2>3 DEF Rediscovered
    <2>4. CASE ~known[d]
      <3>1. /\ tags' \in [Devices -> Tags] /\ offline' \in [Devices -> BOOLEAN]
            /\ torn' \subseteq Devices /\ lost' \subseteq Devices
        BY <1>15, <2>4 DEF Rediscovered, Tags
      <3>2. /\ seen' \in [Devices -> Age \cup {None}] /\ mark' \in [Devices -> Age \cup {None}]
            /\ silent' \in [Devices -> Age]
        BY <1>15, <2>4 DEF Rediscovered
      <3> QED BY <2>1, <2>2, <3>1, <3>2
    <2> QED BY <2>3, <2>4
  <1>16. CASE UNCHANGED vars
    BY <1>16 DEF vars
  <1> QED
    BY <1>1, <1>2, <1>3, <1>4, <1>5, <1>6, <1>7, <1>8, <1>9, <1>10, <1>11, <1>12, <1>13,
       <1>14, <1>15, <1>16, ThreadsAre DEF Next, PassStep

----------------------------------------------------------------------------
(* What passes and threads work on *)

\* What the pass still has before it and what a thread works on are in NetBox, and
\* the pass has nothing before it that is in the hand of its thread.
Standing ==
  /\ \A d \in todo : known[d] /\ thread[0].dev # d
  /\ \A t \in Threads : thread[t].dev \in Devices => known[thread[t].dev]
  /\ pc = "idle" => todo = {}
  /\ pc \in {"idle", "pinging"} => result = NoResults
  /\ 0 \notin late

LEMMA InitStanding == Init => Standing
  BY ThreadsAre DEF Init, Standing, NoResults, Idle

\* What a call does to the threads: to its own the next step or the end, to those on
\* the device it deletes the end.
LEMMA CallThreads ==
  ASSUME Typed, NEW t \in Threads, Call(t)
  PROVE  /\ \A s \in Threads : thread'[s].dev \in {thread[s].dev, None}
         /\ \A s \in Threads \ {t} : \/ thread'[s] = thread[s]
                                     \/ DeleteDevice(t) /\ thread[s].dev = thread[t].dev
  <1> USE ThreadsAre DEF Steps
  <1>1. CASE Untag(t)
    <2>1. Goes(t, "untag", "activate")
      BY <1>1 DEF Untag
    <2> QED BY <2>1, GoesType
  <1>2. CASE Activate(t)
    <2>1. Goes(t, "activate", "done")
      BY <1>2 DEF Activate
    <2> QED BY <2>1, GoesType
  <1>3. CASE Tag(t)
    <2>1. Goes(t, "tag", "deactivate")
      BY <1>3 DEF Tag
    <2> QED BY <2>1, GoesType
  <1>4. CASE Deactivate(t)
    <2>1. Goes(t, "deactivate", "done")
      BY <1>4 DEF Deactivate
    <2> QED BY <2>1, GoesType
  <1>5. CASE DeleteIp(t)
    <2>1. Goes(t, "deleteIp", "deleteDevice")
      BY <1>5 DEF DeleteIp
    <2> QED BY <2>1, GoesType
  <1>6. CASE DeleteDevice(t)
    BY <1>6 DEF DeleteDevice, Idle, Refused
  <1>7. CASE ThreadRefused(t)
    BY <1>7 DEF ThreadRefused, Idle, Typed, TypeOK
  <1> QED BY <1>1, <1>2, <1>3, <1>4, <1>5, <1>6, <1>7 DEF Call

LEMMA CallStanding ==
  ASSUME Typed, Standing, NEW t \in Threads, Call(t)
  PROVE  Standing'
  <1> USE ThreadsAre
  <1>1. \A s \in Threads : thread'[s].dev \in {thread[s].dev, None}
    BY CallThreads
  <1>2. CASE DeleteDevice(t)
    <2> DEFINE e == thread[t].dev
    <2>1. /\ known' = [known EXCEPT ![e] = FALSE] /\ todo' = todo \ {e}
          /\ late' = {s \in late : s # t /\ thread[s].dev # e}
          /\ UNCHANGED <<pc, result>>
          /\ \A s \in Threads : thread[s].dev = e => thread'[s].dev = None
      BY <1>2 DEF DeleteDevice, Idle, Refused
    <2>2. \A d \in todo' : known'[d] /\ thread'[0].dev # d
      BY <1>1, <2>1 DEF Standing, Typed, TypeOK
    <2>3. \A s \in Threads : thread'[s].dev \in Devices => known'[thread'[s].dev]
      <3> SUFFICES ASSUME NEW s \in Threads, thread'[s].dev \in Devices
                   PROVE  known'[thread'[s].dev]
        OBVIOUS
      <3>1. thread'[s].dev = thread[s].dev /\ thread[s].dev # e
        BY <1>1, <2>1
      <3>2. known[thread[s].dev]
        BY <3>1 DEF Standing
      <3> QED BY <2>1, <3>1, <3>2 DEF Typed, TypeOK
    <2> QED BY <2>1, <2>2, <2>3 DEF Standing
  <1>3. CASE ThreadRefused(t)
    <2>1. UNCHANGED <<known, late>>
      BY <1>3 DEF ThreadRefused, Breaks, netbox
    <2>2. CASE t = 0
      BY <1>1, <1>3, <2>1, <2>2 DEF ThreadRefused, Breaks, Standing
    <2>3. CASE t # 0
      <3>1. UNCHANGED <<pc, result, todo>>
        BY <1>3, <2>3 DEF ThreadRefused, pass
      <3> QED BY <1>1, <2>1, <3>1 DEF Standing, Typed, TypeOK
    <2> QED BY <2>2, <2>3
  <1>4. CASE ~DeleteDevice(t) /\ ~ThreadRefused(t)
    <2>1. UNCHANGED <<known, pc, result, todo>> /\ late' \subseteq late
      BY <1>4 DEF Call, Untag, Activate, Tag, Deactivate, DeleteIp, Goes, pass
    <2> QED BY <1>1, <2>1 DEF Standing, Typed, TypeOK
  <1> QED BY <1>2, <1>3, <1>4

LEMMA NextStanding == Typed /\ Standing /\ [Next]_vars => Standing'
  <1> SUFFICES ASSUME Typed, Standing, [Next]_vars PROVE Standing'
    OBVIOUS
  <1> USE ThreadsAre DEF Typed, Busy, Turn, TypeOK, Standing, netbox, db, pass, certs, history
  <1>1. CASE StartPass
    BY <1>1 DEF StartPass, Pinged, Monitored, Steps
  <1>2. CASE Ping
    <2>1. 0 \notin late'
      BY <1>2 DEF Ping, Steps
    <2> QED BY <1>2, <2>1 DEF Ping
  <1>3. ASSUME NEW t \in Threads, Call(t)
        PROVE  Standing'
    BY <1>3, CallStanding
  <1>4. CASE PassEnds
    BY <1>4 DEF PassEnds
  <1>5. ASSUME NEW d \in Devices, HandleUp(d) \/ HandleDown(d)
        PROVE  Standing'
    <2>1. /\ UNCHANGED <<known, pc, result, late>> /\ pc = "next" /\ d \in todo
          /\ todo' = todo \ {d}
      BY <1>5 DEF HandleUp, HandleDown, Takes
    <2>2. /\ thread'[0].dev \in {thread[0].dev, d}
          /\ \A s \in Threads \ {0} : thread'[s] = thread[s]
      BY <1>5 DEF HandleUp, HandleDown, HandOver
    <2> QED BY <2>1, <2>2
  <1>6. ASSUME NEW d \in Devices, HandleGone(d)
        PROVE  Standing'
    BY <1>6 DEF HandleGone, Breaks
  <1>7. CASE PassAborts
    <2>1. \A s \in Threads : thread'[s].dev \in {thread[s].dev, None}
      BY <1>7 DEF PassAborts, Idle
    <2> QED BY <1>7, <2>1 DEF PassAborts, Breaks
  <1>8. CASE PassCancelled
    <2>1. \A s \in Threads : thread'[s].dev \in {thread[s].dev, thread[0].dev, None}
      BY <1>8 DEF PassCancelled, Idle
    <2> QED BY <1>8, <2>1 DEF PassCancelled, Breaks
  <1>9. CASE CertsRead \/ Tick
    BY <1>9 DEF CertsRead, Tick
  <1>10. ASSUME NEW d \in Devices,
                CertsProbe(d) \/ CertsSkip(d) \/ CertsApply(d) \/ HostFlips(d)
         PROVE  Standing'
    BY <1>10 DEF CertsProbe, CertsSkip, CertsApply, HostFlips
  <1>11. ASSUME NEW d \in Devices, Rediscovered(d)
         PROVE  Standing'
    BY <1>11 DEF Rediscovered
  <1>12. CASE UNCHANGED vars
    BY <1>12 DEF vars
  <1> QED
    BY <1>1, <1>2, <1>3, <1>4, <1>5, <1>6, <1>7, <1>8, <1>9, <1>10, <1>11, <1>12
       DEF Next, PassStep

----------------------------------------------------------------------------
(* The tag and the status *)

\* A device that nothing has parted from its status is in nobody's hand but the
\* pass's, and then the tag is ahead between the two writes.
InStep(d) ==
  known[d] /\ d \notin torn =>
    /\ \A t \in Threads \ {0} : thread[t].dev # d
    /\ IF thread[0].dev = d /\ thread[0].at = "activate" THEN "stale" \notin tags[d]
       ELSE IF thread[0].dev = d /\ thread[0].at = "deactivate" THEN "stale" \in tags[d]
       ELSE "stale" \in tags[d] <=> offline[d]

AllInStep == \A d \in Devices : InStep(d)

LEMMA InitInStep == Init => AllInStep
  BY ThreadsAre DEF Init, AllInStep, InStep, NoTags, Idle

LEMMA CallInStep ==
  ASSUME Typed, AllInStep, NEW t \in Threads, Call(t), NEW e \in Devices
  PROVE  InStep(e)'
  <1> DEFINE d == thread[t].dev
  <1> USE ThreadsAre
  <1>1. InStep(e)
    BY DEF AllInStep
  <1>2. /\ \A s \in Threads : thread'[s].dev \in {thread[s].dev, None}
        /\ \A s \in Threads \ {t} : \/ thread'[s] = thread[s]
                                    \/ DeleteDevice(t) /\ thread[s].dev = d
    BY CallThreads
  <1>2a. \A s \in Threads : thread[s].dev # e => thread'[s].dev # e
    BY <1>2
  <1>2b. t # 0 => thread'[0] = thread[0] \/ (DeleteDevice(t) /\ thread[0].dev = d)
    BY <1>2
  <1>3. CASE DeleteDevice(t)
    <2>1. /\ UNCHANGED <<tags, offline, torn>> /\ known' = [known EXCEPT ![d] = FALSE]
          /\ thread'[t] = Idle
      BY <1>3 DEF DeleteDevice
    <2>2. CASE e = d
      BY <2>1, <2>2 DEF InStep, Typed, TypeOK
    <2>3. CASE e # d
      <3>1. known'[e] = known[e]
        BY <2>1, <2>3 DEF Typed, TypeOK
      <3>2. thread'[0] = thread[0] \/ (thread[0].dev # e /\ thread'[0].dev # e)
        BY <1>2a, <1>2b, <2>3
      <3> QED BY <1>1, <1>2a, <2>1, <3>1, <3>2 DEF InStep
    <2> QED BY <2>2, <2>3
  <1>4. CASE ThreadRefused(t)
    <2>1. UNCHANGED <<tags, offline, torn, known>> /\ thread[t].dev = None
      BY <1>4 DEF ThreadRefused, Breaks, netbox, Typed, Busy, Steps
    <2>2. thread'[0] = thread[0] \/ (thread[0].dev # e /\ thread'[0].dev # e)
      <3>1. ~DeleteDevice(t) /\ None # e
        BY <1>4 DEF ThreadRefused, DeleteDevice
      <3>2. CASE t = 0
        BY <1>2a, <2>1, <3>1, <3>2
      <3>3. CASE t # 0
        BY <1>2b, <3>1, <3>3
      <3> QED BY <3>2, <3>3
    <2> QED BY <1>1, <1>2a, <2>1, <2>2 DEF InStep
  <1>5. CASE ~DeleteDevice(t) /\ ~ThreadRefused(t)
    <2>1. UNCHANGED <<known, torn>>
      BY <1>5 DEF Call, Untag, Activate, Tag, Deactivate, DeleteIp, Goes
    <2>2. CASE e # d
      <3>1. tags'[e] = tags[e] /\ offline'[e] = offline[e]
        BY <1>5, <2>2 DEF Call, Untag, Activate, Tag, Deactivate, DeleteIp, Typed, TypeOK
      <3>2. thread'[0] = thread[0] \/ (thread[0].dev # e /\ thread'[0].dev # e)
        BY <1>2a, <1>2b, <1>5, <2>2
      <3> QED BY <1>1, <1>2a, <2>1, <3>1, <3>2 DEF InStep
    <2>3. CASE e = d /\ t # 0
      BY <1>1, <2>1, <2>3 DEF InStep
    <2>4. CASE e = d /\ t = 0
      <3>1. \A s \in Threads \ {0} : thread'[s] = thread[s]
        BY <1>2, <1>5, <2>4
      <3>2. CASE Untag(0)
        <4>1. Goes(0, "untag", "activate") /\ "stale" \notin tags'[e]
          BY <2>4, <3>2 DEF Untag, Typed, TypeOK
        <4>2. thread'[0].at = "activate" /\ thread'[0].dev = e
          BY <2>4, <4>1, GoesType DEF Steps
        <4> QED BY <1>1, <2>1, <3>1, <4>1, <4>2 DEF InStep
      <3>3. CASE Activate(0)
        <4>1. /\ Goes(0, "activate", "done") /\ offline'[e] = FALSE /\ tags' = tags
              /\ thread[0].at = "activate"
          BY <2>4, <3>3 DEF Activate, Goes, Typed, TypeOK
        <4>2. thread'[0].at = "done"
          BY <4>1, GoesType DEF Steps
        <4> QED BY <1>1, <2>1, <2>4, <3>1, <4>1, <4>2 DEF InStep
      <3>4. CASE Tag(0)
        <4>1. Goes(0, "tag", "deactivate") /\ "stale" \in tags'[e]
          BY <2>4, <3>4 DEF Tag, Typed, TypeOK
        <4>2. thread'[0].at = "deactivate" /\ thread'[0].dev = e
          BY <2>4, <4>1, GoesType DEF Steps
        <4> QED BY <1>1, <2>1, <3>1, <4>1, <4>2 DEF InStep
      <3>5. CASE Deactivate(0)
        <4>1. /\ Goes(0, "deactivate", "done") /\ offline'[e] = TRUE /\ tags' = tags
              /\ thread[0].at = "deactivate"
          BY <2>4, <3>5 DEF Deactivate, Goes, Typed, TypeOK
        <4>2. thread'[0].at = "done"
          BY <4>1, GoesType DEF Steps
        <4> QED BY <1>1, <2>1, <2>4, <3>1, <4>1, <4>2 DEF InStep
      <3>6. CASE DeleteIp(0)
        <4>1. /\ Goes(0, "deleteIp", "deleteDevice") /\ UNCHANGED <<tags, offline>>
              /\ thread[0].at = "deleteIp"
          BY <3>6 DEF DeleteIp, Goes
        <4>2. thread'[0].at = "deleteDevice"
          BY <4>1, GoesType DEF Steps
        <4> QED BY <1>1, <2>1, <3>1, <4>1, <4>2 DEF InStep
      <3> QED BY <1>5, <2>4, <3>2, <3>3, <3>4, <3>5, <3>6 DEF Call
    <2> QED BY <2>2, <2>3, <2>4
  <1> QED BY <1>3, <1>4, <1>5

LEMMA NextInStep == Typed /\ Standing /\ AllInStep /\ [Next]_vars => AllInStep'
  <1> SUFFICES ASSUME Typed, Standing, AllInStep, [Next]_vars, NEW e \in Devices
               PROVE  InStep(e)'
    BY DEF AllInStep
  <1>a. InStep(e)
    BY DEF AllInStep
  <1> USE ThreadsAre, <1>a DEF InStep, Typed, Turn, Busy, TypeOK, netbox, db, pass, certs, history
  <1>1. CASE StartPass
    BY <1>1 DEF StartPass
  <1>2. CASE Ping
    BY <1>2 DEF Ping
  <1>3. ASSUME NEW t \in Threads, Call(t)
        PROVE  InStep(e)'
    BY <1>3, CallInStep
  <1>4. CASE PassEnds
    BY <1>4 DEF PassEnds
  <1>5. ASSUME NEW d \in Devices, HandleUp(d) \/ HandleDown(d)
        PROVE  InStep(e)'
    <2>1. UNCHANGED <<known, tags, offline, torn>> /\ thread[0].at = "done"
      BY <1>5 DEF HandleUp, HandleDown, Takes
    <2>2. /\ \A s \in Threads \ {0} : thread'[s] = thread[s]
          /\ thread'[0] = thread[0] \/ thread'[0].at \notin {"activate", "deactivate"}
      BY <1>5 DEF HandleUp, HandleDown, HandOver
    <2> QED BY <2>1, <2>2
  <1>6. ASSUME NEW d \in Devices, HandleGone(d)
        PROVE  InStep(e)'
    BY <1>6 DEF HandleGone, Breaks
  <1>7. CASE PassAborts
    <2>1. /\ \A s \in Threads \ {0} : thread'[s] = thread[s]
          /\ thread'[0] = Idle
      BY <1>7 DEF PassAborts
    <2> QED BY <1>7, <2>1 DEF PassAborts, Breaks, Idle
  <1>8. CASE PassCancelled
    <2>1. faults + 1 \in Threads /\ faults + 1 # 0
      BY <1>8 DEF PassCancelled
    <2>2. /\ thread'[0] = Idle /\ thread'[faults + 1] = thread[0]
          /\ \A s \in Threads \ {0, faults + 1} : thread'[s] = thread[s]
      BY <1>8, <2>1 DEF PassCancelled
    <2>3. torn' = torn \cup {thread[0].dev} /\ UNCHANGED <<known, tags, offline>>
      BY <1>8 DEF PassCancelled, Breaks
    <2> QED BY <2>2, <2>3 DEF Idle
  <1>9. CASE CertsRead \/ Tick
    BY <1>9 DEF CertsRead, Tick
  <1>10. ASSUME NEW d \in Devices, CertsProbe(d) \/ CertsSkip(d) \/ HostFlips(d)
         PROVE  InStep(e)'
    BY <1>10 DEF CertsProbe, CertsSkip, HostFlips
  <1>11. ASSUME NEW d \in Devices, CertsApply(d)
         PROVE  InStep(e)'
    <2>1. CASE e = d
      BY <1>11, <2>1 DEF CertsApply
    <2>2. CASE e # d
      BY <1>11, <2>2 DEF CertsApply
    <2> QED BY <2>1, <2>2
  <1>12. ASSUME NEW d \in Devices, Rediscovered(d)
         PROVE  InStep(e)'
    <2>1. CASE e # d \/ known[d]
      BY <1>12, <2>1 DEF Rediscovered
    <2>2. CASE e = d /\ ~known[d]
      <3>1. \A t \in Threads : thread[t].dev # d
        BY <2>2 DEF Standing
      <3>2. tags'[d] = {} /\ offline'[d] = FALSE /\ thread' = thread
        BY <1>12, <2>2 DEF Rediscovered
      <3> QED BY <2>2, <3>1, <3>2
    <2> QED BY <2>1, <2>2
  <1>13. CASE UNCHANGED vars
    BY <1>13 DEF vars
  <1> QED
    BY <1>1, <1>2, <1>3, <1>4, <1>5, <1>6, <1>7, <1>8, <1>9, <1>10, <1>11, <1>12, <1>13
       DEF Next, PassStep

----------------------------------------------------------------------------
(* Silence *)

\* A device whose host answered in this pass, which has not come to it yet
Pending(d) == d \in todo /\ result[d]

\* How long the silence is that a call of a thread rests on
Enough(d, t) ==
  /\ thread[t].at = "tag" => silent[d] >= StaleAfter
  /\ thread[t].at \in {"deleteIp", "deleteDevice"} => silent[d] >= GraceAfter

\* What the database says of a device none of whose answers was dropped: the host
\* has been silent for at least as long, and as long as a decision took for it,
\* unless the host has answered since to another pass than the decision's.
Silence(d) ==
  /\ d \in todo /\ pc # "pinging" => silent[d] >= lag
  /\ known[d] /\ d \notin lost /\ ~Pending(d) =>
       /\ seen[d] # None => silent[d] >= seen[d]
       /\ mark[d] # None => silent[d] >= mark[d]
  /\ d \notin lost =>
       \A t \in Threads \ late : thread[t].dev = d => Enough(d, t)

AllSilence == \A d \in Devices : Silence(d)

\* A decision that the database supports is late enough
LEMMA DecisionsAreLate ==
  ASSUME NEW d, silent[d] \in Nat, lag \in Nat,
         seen[d] # None => seen[d] \in Nat /\ silent[d] >= seen[d],
         mark[d] # None => mark[d] \in Nat /\ silent[d] >= mark[d]
  PROVE  /\ BeyondThreshold(d) => silent[d] >= StaleAfter
         /\ BeyondGrace(d) => silent[d] >= GraceAfter
  <1>1. ASSUME NEW a \in Nat, silent[d] >= a, NEW t \in Nat, a # None, FailingFor(a) >= t
        PROVE  silent[d] >= t
    <2>1. FailingFor(a) = a - lag
      BY <1>1 DEF FailingFor
    <2> QED BY <1>1, <2>1
  <1>2. BeyondGrace(d) => silent[d] >= GraceAfter
    BY <1>1, AgesAreNumbers DEF BeyondGrace
  <1>3. CASE seen[d] # None
    BY <1>1, <1>2, <1>3, AgesAreNumbers DEF BeyondThreshold
  <1>4. CASE seen[d] = None
    BY <1>1, <1>2, <1>4, AgesAreNumbers DEF BeyondThreshold
  <1> QED BY <1>3, <1>4

LEMMA InitSilence == Init => AllSilence
  BY ThreadsAre DEF Init, AllSilence, Silence, Pending, Never, NoResults, Idle

LEMMA HandleDownSilence ==
  ASSUME Typed, Standing, AllSilence, NEW d \in Devices, HandleDown(d)
  PROVE  AllSilence'
  <1>1. /\ pc = "next" /\ d \in todo /\ ~result[d] /\ todo' = todo \ {d}
        /\ thread[0].dev = None /\ known[d]
        /\ UNCHANGED <<known, seen, result, lag, silent, lost, pc, late>>
    BY ThreadsAre DEF HandleDown, Takes, netbox, history, Typed, Busy, Standing, Steps
  <1>2. /\ \A s \in Threads \ {0} : thread'[s] = thread[s]
        /\ \/ thread'[0] = thread[0]
           \/ thread'[0].dev = d /\ thread'[0].at = "tag" /\ BeyondThreshold(d)
           \/ thread'[0].dev = d /\ thread'[0].at = "deleteIp" /\ BeyondGrace(d)
    <2>1. \/ thread' = thread
          \/ HandOver(d, "tag") /\ BeyondThreshold(d)
          \/ HandOver(d, "deleteIp") /\ BeyondGrace(d)
      BY <1>1 DEF HandleDown
    <2> QED BY <2>1, ThreadsAre DEF HandOver, Typed, TypeOK
  <1>3. mark' = mark \/ mark' = [mark EXCEPT ![d] = lag]
    BY DEF HandleDown
  <1>4. /\ mark \in [Devices -> Age \cup {None}] /\ seen \in [Devices -> Age \cup {None}]
        /\ silent \in [Devices -> Age] /\ lag \in Nat
    BY AgesAreNumbers DEF Typed, TypeOK
  <1>5. /\ silent[d] \in Nat /\ silent[d] >= lag
        /\ seen[d] # None => seen[d] \in Nat
        /\ mark[d] # None => mark[d] \in Nat
    BY <1>1, <1>4, AgesAreNumbers DEF AllSilence, Silence
  <1>6. ASSUME d \notin lost
        PROVE  /\ seen[d] # None => silent[d] >= seen[d]
               /\ mark[d] # None => silent[d] >= mark[d]
               /\ BeyondThreshold(d) => silent[d] >= StaleAfter
               /\ BeyondGrace(d) => silent[d] >= GraceAfter
    <2>1. /\ seen[d] # None => silent[d] >= seen[d]
          /\ mark[d] # None => silent[d] >= mark[d]
      BY <1>1, <1>6 DEF AllSilence, Silence, Pending
    <2>2. seen[d] # None => seen[d] \in Nat /\ silent[d] >= seen[d]
      BY <1>5, <2>1
    <2>3. mark[d] # None => mark[d] \in Nat /\ silent[d] >= mark[d]
      BY <1>5, <2>1
    <2>4. /\ BeyondThreshold(d) => silent[d] >= StaleAfter
          /\ BeyondGrace(d) => silent[d] >= GraceAfter
      BY <1>4, <1>5, <2>2, <2>3, DecisionsAreLate
    <2> QED BY <2>1, <2>4
  <1>7. mark'[d] \in {mark[d], lag} /\ \A e \in Devices \ {d} : mark'[e] = mark[e]
    BY <1>3, <1>4
  <1>8. Silence(d)'
    <2>1. d \notin todo' /\ lost' = lost
      BY <1>1
    <2>2. d \notin lost => /\ seen'[d] # None => silent'[d] >= seen'[d]
                           /\ mark'[d] # None => silent'[d] >= mark'[d]
      BY <1>1, <1>5, <1>6, <1>7
    <2>3. ASSUME d \notin lost, NEW t \in Threads \ late, thread'[t].dev = d
          PROVE  Enough(d, t)'
      <3>1. CASE t = 0
        BY <1>1, <1>2, <1>6, <2>3, <3>1, ThreadsAre DEF Enough
      <3>2. CASE t # 0
        BY <1>1, <1>2, <2>3, <3>2 DEF Enough, AllSilence, Silence
      <3> QED BY <3>1, <3>2
    <2> QED BY <1>1, <2>1, <2>2, <2>3 DEF Silence
  <1>9. ASSUME NEW e \in Devices \ {d}
        PROVE  Silence(e)'
    <2>1. mark'[e] = mark[e] /\ (e \in todo' <=> e \in todo)
      BY <1>1, <1>7
    <2>2. \A t \in Threads : thread'[t].dev = e => thread'[t] = thread[t]
      BY <1>2, <1>1, ThreadsAre
    <2>3. Silence(e)
      BY DEF AllSilence
    <2>4. e \notin lost' => \A t \in Threads \ late' :
                             thread'[t].dev = e => Enough(e, t)'
      BY <1>1, <2>2, <2>3 DEF Silence, Enough
    <2> QED BY <1>1, <2>1, <2>3, <2>4 DEF Silence, Pending
  <1> QED BY <1>8, <1>9 DEF AllSilence

LEMMA CallSilence ==
  ASSUME Typed, Standing, AllSilence, NEW t \in Threads, Call(t), NEW e \in Devices
  PROVE  Silence(e)'
  <1> USE ThreadsAre
  <1>1. Silence(e)
    BY DEF AllSilence
  <1>2. /\ \A s \in Threads : thread'[s].dev \in {thread[s].dev, None}
        /\ \A s \in Threads \ {t} : \/ thread'[s] = thread[s]
                                    \/ DeleteDevice(t) /\ thread[s].dev = thread[t].dev
    BY CallThreads
  <1>3. CASE DeleteDevice(t)
    <2> DEFINE d == thread[t].dev
    <2>1. /\ UNCHANGED <<mark, pc, result, lag, silent, lost>>
          /\ todo' = todo \ {d} /\ known' = [known EXCEPT ![d] = FALSE]
          /\ seen' = seen \/ seen' = [seen EXCEPT ![d] = None]
          /\ \A s \in Threads : thread'[s].dev # None =>
               thread'[s] = thread[s] /\ thread[s].dev # d /\ (s \in late => s \in late')
      BY <1>3 DEF DeleteDevice, Idle, Refused
    <2>2. d \in Devices
      BY <1>3 DEF DeleteDevice, Typed, Busy, Steps
    <2>3. CASE e = d
      <3>1. ~known'[e] /\ e \notin todo'
        BY <2>1, <2>3 DEF Typed, TypeOK
      <3>2. \A s \in Threads : thread'[s].dev # e
        BY <2>1, <2>3
      <3> QED BY <2>1, <3>1, <3>2 DEF Silence
    <2>4. CASE e # d
      <3>1. seen'[e] = seen[e] /\ known'[e] = known[e] /\ (e \in todo' <=> e \in todo)
        BY <2>1, <2>4 DEF Typed, TypeOK
      <3>2. e \notin lost' => \A s \in Threads \ late' :
                               thread'[s].dev = e => Enough(e, s)'
        BY <1>1, <2>1 DEF Silence, Enough
      <3> QED BY <1>1, <2>1, <3>1, <3>2 DEF Silence, Pending
    <2> QED BY <2>3, <2>4
  <1>4. CASE ThreadRefused(t)
    <2>1. /\ UNCHANGED <<seen, mark, known, silent, late>> /\ thread[t].dev = None
          /\ \A s \in Threads : thread'[s].dev = e => thread'[s] = thread[s]
      <3>1. UNCHANGED <<seen, mark, known, silent, late>> /\ thread[t].at = "refused"
        BY <1>4 DEF ThreadRefused, Breaks, netbox, db
      <3>2. thread[t].dev = None /\ thread'[t].dev = None
        BY <3>1, <1>2 DEF Typed, Busy, Steps
      <3>3. ~DeleteDevice(t)
        BY <3>1 DEF DeleteDevice
      <3> QED BY <1>2, <3>1, <3>2, <3>3
    <2>2. \/ todo' = {} /\ lost' = lost \cup {d \in todo : result[d]}
          \/ UNCHANGED <<todo, result, lost, pc, lag>>
      BY <1>4 DEF ThreadRefused, Breaks, pass
    <2>3. e \notin lost' => \A s \in Threads \ late' :
                             thread'[s].dev = e => Enough(e, s)'
      BY <1>1, <2>1, <2>2 DEF Silence, Enough
    <2> QED BY <1>1, <2>1, <2>2, <2>3 DEF Silence, Pending
  <1>5. CASE ~DeleteDevice(t) /\ ~ThreadRefused(t)
    <2>1. UNCHANGED <<seen, mark, known, silent, lost, todo, result, pc, lag>>
      BY <1>5 DEF Call, Untag, Activate, Tag, Deactivate, DeleteIp, Goes, db, pass
    <2>2. \/ Goes(t, "untag", "activate") \/ Goes(t, "activate", "done")
          \/ Goes(t, "tag", "deactivate") \/ Goes(t, "deactivate", "done")
          \/ Goes(t, "deleteIp", "deleteDevice")
      BY <1>5 DEF Call, Untag, Activate, Tag, Deactivate, DeleteIp
    <2>3. /\ thread'[t].dev = None \/ (thread'[t].dev = thread[t].dev /\ late' = late)
          /\ thread'[t].at \in {"deleteIp", "deleteDevice"} => thread[t].at = "deleteIp"
          /\ thread'[t].at # "tag"
          /\ \A s \in Threads \ {t} : s \in late' <=> s \in late
      BY <2>2, GoesType DEF Goes, Steps
    <2>4. ASSUME e \notin lost, NEW s \in Threads \ late', thread'[s].dev = e
          PROVE  Enough(e, s)'
      <3>1. CASE s = t
        <4>1. thread[s].dev = e /\ s \notin late
          BY <2>3, <2>4, <3>1
        <4>2. Enough(e, s)
          BY <1>1, <2>4, <4>1 DEF Silence
        <4> QED BY <2>1, <2>3, <3>1, <4>2 DEF Enough
      <3>2. CASE s # t
        BY <1>1, <1>2, <1>5, <2>1, <2>3, <2>4, <3>2 DEF Silence, Enough
      <3> QED BY <3>1, <3>2
    <2> QED BY <1>1, <2>1, <2>4 DEF Silence, Pending
  <1> QED BY <1>3, <1>4, <1>5

\* Silence grows with whatever it is compared with
LEMMA TickSilence ==
  ASSUME Typed, AllSilence, Tick, NEW e \in Devices
  PROVE  Silence(e)'
  <1>1. /\ seen'[e] = Older(seen[e]) /\ mark'[e] = Older(mark[e])
        /\ silent'[e] = Older(silent[e])
        /\ lag' = IF pc = "next" THEN lag + 1 ELSE 0
        /\ pc = "next" => lag < MaxLag
        /\ UNCHANGED <<known, todo, pc, thread, result, lost, late>>
    BY DEF Tick, netbox
  <1>2. /\ seen[e] \in Age \cup {None} /\ mark[e] \in Age \cup {None}
        /\ silent[e] \in Age /\ lag \in 0..MaxLag
    BY DEF Typed, TypeOK
  <1>3. silent'[e] \in Age /\ silent'[e] >= silent[e]
    BY <1>1, <1>2, OlderIsAge
  <1>4. silent[e] \in Nat /\ silent'[e] \in Nat /\ lag \in Nat
    BY <1>2, <1>3, AgesAreNumbers
  <1>5. Silence(e)
    BY DEF AllSilence
  <1>6. e \in todo /\ pc # "pinging" => silent'[e] >= lag'
    <2>1. CASE pc # "next"
      BY <1>1, <1>4, <2>1
    <2>2. CASE pc = "next"
      <3>1. silent'[e] = IF silent[e] < Cap THEN silent[e] + 1 ELSE Cap
        BY <1>1, <1>2, ThreadsAre DEF Older
      <3>2. e \in todo => silent[e] >= lag
        BY <1>5, <2>2 DEF Silence
      <3> QED BY <1>1, <1>4, <2>2, <3>1, <3>2, AgesAreNumbers
    <2> QED BY <2>1, <2>2
  <1>7. known[e] /\ e \notin lost /\ ~Pending(e) =>
          /\ seen'[e] # None => silent'[e] >= seen'[e]
          /\ mark'[e] # None => silent'[e] >= mark'[e]
    BY <1>1, <1>2, <1>5, OlderIsAge DEF Silence
  <1>8. ASSUME NEW t \in Threads, Enough(e, t)
        PROVE  Enough(e, t)'
    <2>1. thread[t].at = "tag" => silent'[e] >= StaleAfter
      BY <1>3, <1>4, <1>8, AgesAreNumbers DEF Enough
    <2>2. thread[t].at \in {"deleteIp", "deleteDevice"} => silent'[e] >= GraceAfter
      BY <1>3, <1>4, <1>8, AgesAreNumbers DEF Enough
    <2> QED BY <1>1, <2>1, <2>2 DEF Enough
  <1> QED BY <1>1, <1>5, <1>6, <1>7, <1>8 DEF Silence, Pending

LEMMA NextSilence == Typed /\ Standing /\ AllSilence /\ [Next]_vars => AllSilence'
  <1> SUFFICES ASSUME Typed, Standing, AllSilence, [Next]_vars, NEW e \in Devices
               PROVE  Silence(e)'
    BY DEF AllSilence
  <1>a. Silence(e)
    BY DEF AllSilence
  <1> USE AgesAreNumbers, ThreadsAre, <1>a
          DEF Silence, Pending, Enough, Typed, Turn, TypeOK, netbox, db, pass, certs, history
  <1>1. CASE StartPass
    <2>1. ~result[e] /\ e \notin todo
      BY <1>1 DEF StartPass, Standing, NoResults
    <2> QED BY <1>1, <2>1 DEF StartPass
  <1>2. CASE Ping
    <2>1. ~result[e] /\ lag' = 0 /\ UNCHANGED <<known, todo, seen, mark, thread>>
      BY <1>2 DEF Ping, Standing, NoResults
    <2>2. CASE result'[e]
      <3>1. e \in todo' /\ silent'[e] = 0 /\ \A t \in Threads \ late' : thread'[t].dev # e
        BY <1>2, <2>2 DEF Ping
      <3> QED BY <2>1, <2>2, <3>1
    <2>3. CASE ~result'[e]
      <3>1. silent'[e] = silent[e] /\ (e \in lost <=> e \in lost') /\ late \subseteq late'
        BY <1>2, <2>3 DEF Ping
      <3>2. silent[e] \in Nat
        OBVIOUS
      <3> QED BY <2>1, <2>3, <3>1, <3>2
    <2> QED BY <2>2, <2>3
  <1>3. ASSUME NEW t \in Threads, Call(t)
        PROVE  Silence(e)'
    BY <1>3, CallSilence
  <1>4. CASE PassEnds
    BY <1>4 DEF PassEnds, NoResults
  <1>5. ASSUME NEW d \in Devices, HandleUp(d)
        PROVE  Silence(e)'
    <2>1. /\ d \in todo /\ todo' = todo \ {d} /\ pc = "next"
          /\ seen' = [seen EXCEPT ![d] = lag] /\ mark' = [mark EXCEPT ![d] = None]
          /\ UNCHANGED <<known, pc, result, lag, silent, lost, late>>
      BY <1>5 DEF HandleUp, Takes
    <2>2. \A t \in Threads : thread'[t] = thread[t] \/ thread'[t].at = "untag"
      BY <1>5 DEF HandleUp, HandOver
    <2>3. CASE e = d
      BY <2>1, <2>2, <2>3
    <2>4. CASE e # d
      BY <2>1, <2>2, <2>4
    <2> QED BY <2>3, <2>4
  <1>6. ASSUME NEW d \in Devices, HandleDown(d)
        PROVE  Silence(e)'
    BY <1>6, HandleDownSilence DEF AllSilence
  <1>7. CASE PassAborts \/ PassCancelled
    <2>1. /\ todo' = {} /\ lost' = lost \cup {d \in todo : result[d]}
          /\ UNCHANGED <<known, seen, mark, silent, late>>
      BY <1>7 DEF PassAborts, PassCancelled, Breaks
    <2>2. ASSUME e \notin lost', NEW t \in Threads \ late, thread'[t].dev = e
          PROVE  Enough(e, t)'
      <3>1. thread'[t] = thread[t] \/ thread'[t] = Idle \/ thread'[t] = thread[0]
        BY <1>7 DEF PassAborts, PassCancelled
      <3>2. thread'[t] = thread[t] \/ thread'[t] = thread[0]
        BY <2>2, <3>1 DEF Idle
      <3> QED BY <2>1, <2>2, <3>2 DEF Standing
    <2> QED BY <2>1, <2>2
  <1>8. ASSUME NEW d \in Devices, HandleGone(d)
        PROVE  Silence(e)'
    <2>1. UNCHANGED <<known, seen, mark, silent, thread, late>>
      BY <1>8 DEF HandleGone, Breaks
    <2>2. CASE Breaks
      BY <2>1, <2>2 DEF Breaks
    <2>3. CASE ~Breaks
      BY <1>8, <2>1, <2>3 DEF HandleGone
    <2> QED BY <2>2, <2>3
  <1>9. CASE CertsRead
    BY <1>9 DEF CertsRead
  <1>10. CASE Tick
    BY <1>10, TickSilence
  <1>11. ASSUME NEW d \in Devices,
                CertsProbe(d) \/ CertsSkip(d) \/ CertsApply(d) \/ HostFlips(d)
         PROVE  Silence(e)'
    BY <1>11 DEF CertsProbe, CertsSkip, CertsApply, HostFlips
  <1>12. ASSUME NEW d \in Devices, Rediscovered(d)
         PROVE  Silence(e)'
    <2>1. UNCHANGED <<pc, todo, result, lag, thread, late>> /\ (e # d => known'[e] = known[e])
      BY <1>12 DEF Rediscovered
    <2>2. CASE known[d]
      BY <1>12, <2>1, <2>2 DEF Rediscovered
    <2>3. CASE ~known[d] /\ e # d
      BY <1>12, <2>1, <2>3 DEF Rediscovered
    <2>4. CASE ~known[d] /\ e = d
      <3>1. e \notin todo /\ \A t \in Threads : thread[t].dev # e
        BY <2>4 DEF Standing
      <3>2. seen'[e] = None /\ mark'[e] = None
        BY <1>12, <2>4 DEF Rediscovered
      <3> QED BY <2>1, <3>1, <3>2
    <2> QED BY <2>2, <2>3, <2>4
  <1>13. CASE UNCHANGED vars
    BY <1>13 DEF vars
  <1> QED
    BY <1>1, <1>2, <1>3, <1>4, <1>5, <1>6, <1>7, <1>8, <1>9, <1>10, <1>11, <1>12, <1>13
       DEF Next, PassStep

----------------------------------------------------------------------------
(* Theorems *)

LEMMA Always == Spec => [](Typed /\ Standing /\ AllInStep /\ AllSilence)
  BY InitType, NextType, InitStanding, NextStanding, InitInStep, NextInStep,
     InitSilence, NextSilence, PTL DEF Spec

\* The variables of Availability have their types; in particular an age is never
\* taken of a date that is not in the database.
THEOREM TypeCorrect == Spec => []TypeOK
  BY Always, PTL DEF Typed

\* The stale tag goes with the offline status wherever the pass's thread is not
\* between the two writes and nothing has parted them, whatever certs and the
\* threads left behind write to others.
THEOREM TagGoesWithStatus == Spec => []TagMatchesStatus
  <1>1. AllInStep => TagMatchesStatus
    BY DEF AllInStep, InStep, TagMatchesStatus
  <1> QED BY Always, <1>1, PTL

\* Nobody is tagged or deleted early: the silence that a decision rests on has been
\* at least as long as its threshold, for any thresholds and any delay in handling,
\* also when it is a thread that a cancelled pass has left behind which carries the
\* decision out, as long as the host has not answered another pass since.
THEOREM NobodyIsEarly == Spec => SilenceBeforeStale
  <1> DEFINE InTime == \A d \in Devices \ lost, t \in Threads \ late :
                         thread[t].dev = d =>
                           /\ Tag(t) => silent[d] >= StaleAfter
                           /\ DeleteDevice(t) => silent[d] >= GraceAfter
  <1>1. AllSilence => InTime
    <2> SUFFICES ASSUME AllSilence, NEW d \in Devices \ lost, NEW t \in Threads \ late,
                        thread[t].dev = d
                 PROVE  /\ Tag(t) => silent[d] >= StaleAfter
                        /\ DeleteDevice(t) => silent[d] >= GraceAfter
      OBVIOUS
    <2>1. Enough(d, t)
      BY DEF AllSilence, Silence
    <2> QED BY <2>1 DEF Enough, Tag, Goes, DeleteDevice
  <1>2. AllSilence /\ [Next]_vars => [InTime]_vars
    BY <1>1
  <1> QED BY <1>2, Always, PTL DEF Spec, SilenceBeforeStale
=============================================================================
