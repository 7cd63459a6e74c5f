-------------------------------- MODULE Engine --------------------------------
(****************************************************************************)
(* The scheduler and the Engine that wraps it (scheduler.py).               *)
(*                                                                          *)
(* One asyncio thread runs Engine.run, the generation watcher, one _loop    *)
(* task per enabled sync module and the web handlers; an action is what one *)
(* of them does between two awaits.  A pass hands its work on NetBox to     *)
(* asyncio.to_thread, body after body, and each body issues as many REST    *)
(* requests as it has to.  Cancelling the task abandons the body under way  *)
(* but cannot stop it: it goes on with its requests, a member of "thread"   *)
(* until it returns, under the configuration it was started with.  Time is  *)
(* abstracted: a timer may fire at any moment.                              *)
(*                                                                          *)
(* An iteration of Engine.run is named by the generation it read, "live":   *)
(* loops and threads of iteration g run under the configuration saved[g].     *)
(****************************************************************************)
EXTENDS Integers

CONSTANTS Modules,   \* the sync modules build_modules can return
          Configs,   \* the configurations the web UI can save
          MaxGen     \* bound on the number of saves

Gens == 0..MaxGen
Config == [configured: BOOLEAN, enabled: SUBSET Modules]

ASSUME EngineAssumption == MaxGen \in Nat /\ Configs \subseteq Config

VARIABLES
  gen,      \* SettingsStore.generation
  saved,    \* saved[g]: the configuration stored as generation g
  stop,     \* the stop event
  pc,       \* where Engine.run is
  live,     \* the generation Engine.run read at the top of this iteration
  reload,   \* reload_evt of this iteration
  trig,     \* Engine.triggers: each module's event, "absent" when not a key
  loop,     \* loop[g][m]: the _loop task of module m started by iteration g
  thread,   \* <<g, m>>: a to_thread body of that task is executing
  owed      \* (history) run_now said "triggered" and no pass started since

vars == <<gen, saved, stop, pc, live, reload, trig, loop, thread, owed>>
engineVars == <<pc, live, reload>>

EnginePc == {"top", "idle", "building", "failed", "empty",
             "scheduling", "draining", "closing", "stopped"}
LoopState == {"none", "waiting", "running", "calling", "recording",
              "cancelled", "done"}

TypeOK ==
  /\ gen \in Gens
  /\ saved \in [Gens -> Config]
  /\ stop \in BOOLEAN
  /\ pc \in EnginePc
  /\ live \in Gens
  /\ reload \in BOOLEAN
  /\ trig \in [Modules -> {"absent", "clear", "set"}]
  /\ loop \in [Gens -> [Modules -> LoopState]]
  /\ thread \subseteq Gens \X Modules
  /\ owed \in [Modules -> BOOLEAN]

Init ==
  /\ gen = 0
  /\ \E c \in Configs : saved = [g \in Gens |-> c]
  /\ stop = FALSE
  /\ pc = "top"
  /\ live = 0
  /\ reload = FALSE
  /\ trig = [m \in Modules |-> "absent"]
  /\ loop = [g \in Gens |-> [m \in Modules |-> "none"]]
  /\ thread = {}
  /\ owed = [m \in Modules |-> FALSE]

\* _wait_any(stop, reload_evt) returns
Woken == stop \/ reload

\* mutant: the watcher fires at every poll
OutOfDate_always == TRUE

\* what makes _watch_generation leave its polling loop
OutOfDate == stop \/ gen # live

\* a _loop task's "while not stop.is_set() and not reload_evt.is_set()"
MayStartPass(g) == ~stop /\ ~reload /\ g = live

-------------------------------------------------------------------------------
(* Engine.run                                                               *)

BeginIteration ==
  /\ pc = "top" /\ ~stop
  /\ live' = gen
  /\ reload' = FALSE
  /\ pc' = IF saved[gen].configured THEN "building" ELSE "idle"
  /\ UNCHANGED <<gen, saved, stop, trig, loop, thread, owed>>

EngineReturns ==
  /\ pc = "top" /\ stop
  /\ pc' = "stopped"
  /\ UNCHANGED <<gen, saved, stop, live, reload, trig, loop, thread, owed>>

\* a poll of _watch_generation that finds the store changed (or stop set)
WatcherFires ==
  /\ pc \in {"idle", "building", "failed", "empty", "scheduling", "draining"}
  /\ ~reload /\ OutOfDate
  /\ reload' = TRUE
  /\ UNCHANGED <<gen, saved, stop, pc, live, trig, loop, thread, owed>>

UnconfiguredWakes ==
  /\ pc = "idle" /\ Woken
  /\ pc' = "top"
  /\ UNCHANGED <<gen, saved, stop, live, reload, trig, loop, thread, owed>>

\* build_context and bootstrap, both awaited in a thread; bootstrap may raise
BootstrapFails ==
  /\ pc = "building"
  /\ pc' = "failed"
  /\ UNCHANGED <<gen, saved, stop, live, reload, trig, loop, thread, owed>>

\* mutant: after a failed bootstrap only a settings change wakes the engine
FailedWakes_settingsOnly ==
  /\ pc = "failed" /\ gen # live
  /\ pc' = "closing"
  /\ UNCHANGED <<gen, saved, stop, live, reload, trig, loop, thread, owed>>

FailedWakes ==
  /\ pc = "failed" /\ Woken
  /\ pc' = "closing"
  /\ UNCHANGED <<gen, saved, stop, live, reload, trig, loop, thread, owed>>

\* build_modules, the fresh trigger events and run_scheduler's create_task calls
BootstrapSucceeds ==
  LET on == saved[live].enabled
  IN /\ pc = "building"
     /\ trig' = [m \in Modules |-> IF m \in on THEN "clear" ELSE "absent"]
     /\ loop' = [loop EXCEPT ![live] =
                   [m \in Modules |-> IF m \in on THEN "waiting" ELSE @[m]]]
     /\ pc' = IF on = {} THEN "empty" ELSE "scheduling"
     /\ UNCHANGED <<gen, saved, stop, live, reload, thread, owed>>

\* run_scheduler wakes and cancels every task that has not finished
CancelLoops ==
  /\ pc = "scheduling" /\ Woken
  /\ loop' = [loop EXCEPT ![live] =
                [m \in Modules |-> IF @[m] \in {"none", "done"} THEN @[m]
                                   ELSE "cancelled"]]
  /\ pc' = "draining"
  /\ UNCHANGED <<gen, saved, stop, live, reload, trig, thread, owed>>

\* mutant: no gather, the scheduler returns once it has cancelled
LoopsFinished_noGather == TRUE

LoopsFinished == \A m \in Modules : loop[live][m] \in {"none", "done"}

\* mutant: the keys go, and a module that asks for its trigger finds none
DropTriggers_keys ==
  /\ pc = "draining" /\ LoopsFinished
  /\ trig' = [m \in {} |-> "absent"]
  /\ pc' = "closing"
  /\ UNCHANGED <<gen, saved, stop, live, reload, loop, thread, owed>>

\* the gather is over, or there was nothing to run: triggers = {}
DropTriggers ==
  /\ \/ pc = "draining" /\ LoopsFinished
     \/ pc = "empty" /\ Woken
  /\ trig' = [m \in Modules |-> "absent"]
  /\ owed' = [m \in Modules |-> FALSE]
  /\ pc' = "closing"
  /\ UNCHANGED <<gen, saved, stop, live, reload, loop, thread>>

CloseContext ==
  /\ pc = "closing"
  /\ pc' = "top"
  /\ UNCHANGED <<gen, saved, stop, live, reload, trig, loop, thread, owed>>

-------------------------------------------------------------------------------
(* The _loop task of module m in iteration g                                *)

SetLoop(g, m, s) == loop' = [loop EXCEPT ![g][m] = s]

\* the jitter or interval timer fired, or the trigger, and nobody said stop
StartPass(g, m) ==
  /\ loop[g][m] = "waiting"
  /\ MayStartPass(g)
  /\ SetLoop(g, m, "running")
  /\ trig' = [trig EXCEPT ![m] = "clear"]
  /\ owed' = [owed EXCEPT ![m] = FALSE]
  /\ UNCHANGED <<gen, saved, stop, thread>> /\ UNCHANGED engineVars

\* the wait ends because of stop or reload_evt
LeaveLoop(g, m) ==
  /\ loop[g][m] = "waiting"
  /\ ~MayStartPass(g)
  /\ SetLoop(g, m, "done")
  /\ UNCHANGED <<gen, saved, stop, trig, thread, owed>> /\ UNCHANGED engineVars

\* module.run() awaits asyncio.to_thread(...)
CallThread(g, m) ==
  /\ loop[g][m] = "running"
  /\ thread' = thread \cup {<<g, m>>}
  /\ SetLoop(g, m, "calling")
  /\ UNCHANGED <<gen, saved, stop, trig, owed>> /\ UNCHANGED engineVars

\* module.run() returned or raised; the status row is about to be written
PassEnds(g, m) ==
  /\ loop[g][m] = "running"
  /\ SetLoop(g, m, "recording")
  /\ UNCHANGED <<gen, saved, stop, trig, thread, owed>> /\ UNCHANGED engineVars

\* mutant: trigger.clear() at the end of a pass instead of at its start
StatusRecorded_clears(g, m) ==
  /\ loop[g][m] = "recording"
  /\ SetLoop(g, m, "waiting")
  /\ trig' = [trig EXCEPT ![m] = "clear"]
  /\ UNCHANGED <<gen, saved, stop, thread, owed>> /\ UNCHANGED engineVars

\* mutant: no "except Exception" around the pass: a failing pass ends the loop
StatusRecorded_leaves(g, m) ==
  /\ loop[g][m] = "recording"
  /\ SetLoop(g, m, "done")
  /\ UNCHANGED <<gen, saved, stop, trig, thread, owed>> /\ UNCHANGED engineVars

\* await status.record(...) is over; wait for the next interval
StatusRecorded(g, m) ==
  /\ loop[g][m] = "recording"
  /\ SetLoop(g, m, "waiting")
  /\ UNCHANGED <<gen, saved, stop, trig, thread, owed>> /\ UNCHANGED engineVars

\* CancelledError is raised at the task's await; _loop does not catch it
LoopCancelled(g, m) ==
  /\ loop[g][m] = "cancelled"
  /\ SetLoop(g, m, "done")
  /\ UNCHANGED <<gen, saved, stop, trig, thread, owed>> /\ UNCHANGED engineVars

-------------------------------------------------------------------------------
(* The worker threads                                                       *)

\* the body returns; its result reaches the task only if it still awaits it
ThreadReturns(g, m) ==
  /\ <<g, m>> \in thread
  /\ thread' = thread \ {<<g, m>>}
  /\ IF loop[g][m] = "calling" THEN SetLoop(g, m, "running") ELSE UNCHANGED loop
  /\ UNCHANGED <<gen, saved, stop, trig, owed>> /\ UNCHANGED engineVars

-------------------------------------------------------------------------------
(* The web handlers and the signal handler                                  *)

\* a handler completes store.replace or store.update_field
SaveConfig(c) ==
  /\ gen < MaxGen
  /\ gen' = gen + 1
  /\ saved' = [saved EXCEPT ![gen + 1] = c]
  /\ UNCHANGED <<stop, trig, loop, thread, owed>> /\ UNCHANGED engineVars

\* Engine.run_now answers True; with no such trigger it answers False and
\* changes nothing
RunNow(m) ==
  /\ trig[m] # "absent"
  /\ trig' = [trig EXCEPT ![m] = "set"]
  /\ owed' = [owed EXCEPT ![m] = TRUE]
  /\ UNCHANGED <<gen, saved, stop, loop, thread>> /\ UNCHANGED engineVars

Stop ==
  /\ ~stop
  /\ stop' = TRUE
  /\ UNCHANGED <<gen, saved, trig, loop, thread, owed>> /\ UNCHANGED engineVars

EngineStep ==
  \/ BeginIteration \/ EngineReturns \/ WatcherFires \/ UnconfiguredWakes
  \/ BootstrapFails \/ FailedWakes \/ BootstrapSucceeds
  \/ CancelLoops \/ DropTriggers \/ CloseContext

LoopStep(g, m) ==
  \/ StartPass(g, m) \/ LeaveLoop(g, m) \/ CallThread(g, m) \/ PassEnds(g, m)
  \/ StatusRecorded(g, m) \/ LoopCancelled(g, m)

OutsideStep == Stop \/ (\E c \in Configs : SaveConfig(c)) \/ (\E m \in Modules : RunNow(m))

Next == \/ EngineStep
        \/ \E g \in Gens, m \in Modules : LoopStep(g, m) \/ ThreadReturns(g, m)
        \/ OutsideStep

Spec == Init /\ [][Next]_vars

(****************************************************************************)
(* Fairness.  The event loop runs every ready task, every timer fires and   *)
(* the watcher polls every 2 s (weak fairness).  Bodies return: each makes  *)
(* finitely many requests.  A pass is a finite piece of code, so a loop     *)
(* that is over and over at a point where the pass may end does end it      *)
(* (strong fairness: CallThread disables PassEnds for a while).             *)
(****************************************************************************)
Fairness ==
  /\ WF_vars(EngineStep)
  /\ \A m \in Modules :
       /\ WF_vars(\E g \in Gens : StartPass(g, m) \/ LeaveLoop(g, m)
                                  \/ StatusRecorded(g, m) \/ LoopCancelled(g, m))
       /\ WF_vars(\E g \in Gens : ThreadReturns(g, m))
       /\ SF_vars(\E g \in Gens : PassEnds(g, m))

FairSpec == Spec /\ Fairness

-------------------------------------------------------------------------------
(* Properties                                                               *)

\* Every task that is not over belongs to the iteration Engine.run is in, for a
\* module its configuration enables, and Engine.run is waiting on the scheduler:
\* loops of two configurations never coexist (the gather in run_scheduler).
LoopsOfOneIteration ==
  \A g \in Gens, m \in Modules :
    loop[g][m] \notin {"none", "done"} =>
      /\ g = live
      /\ pc \in {"scheduling", "draining"}
      /\ m \in saved[live].enabled

\* run_now can only find the triggers of tasks that exist: none survives the
\* iteration that made it ("drop the now-orphaned trigger events").
TriggersHaveLoops ==
  \A m \in Modules :
    trig[m] # "absent" =>
      /\ pc \in {"scheduling", "draining"}
      /\ m \in saved[live].enabled

\* A request run_now accepted stays set until a pass starts after it, or the
\* iteration is torn down: a request made during a pass is not swallowed by it.
RequestKept == \A m \in Modules : owed[m] => trig[m] = "set"

\* Only a pass of the iteration in force hands work to a thread, and never once the
\* loops were cancelled: what a hot reload abandons runs to its end, with any number
\* of requests to NetBox on the way, and has no successor.
NoThreadFromTheDead ==
  [][\A g \in Gens, m \in Modules :
       <<g, m>> \in thread' \ thread => g = live /\ pc = "scheduling"]_vars

\* After SIGTERM the engine returns, although threads may still be writing to NetBox.
StopsWhenAsked == stop ~> (pc = "stopped")

\* An accepted run_now leads to a pass or to the end of its iteration.
RequestAnswered == \A m \in Modules : owed[m] ~> ~owed[m]

-------------------------------------------------------------------------------
(* Engine implements HotReload                                              *)

Abstract == INSTANCE HotReload WITH
  newest   <- gen,
  inForce  <- IF pc \in {"top", "closing", "stopped"} THEN -1 ELSE live,
  stopping <- stop

ImplementsHotReload == Abstract!HRSpec
================================================================================
