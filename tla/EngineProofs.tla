----------------------------- MODULE EngineProofs -----------------------------
(****************************************************************************)
(* Theorems about Engine, for every set of modules, every set of            *)
(* configurations and every bound on the number of saves.                   *)
(****************************************************************************)
EXTENDS Engine, TLAPS

--------------------------------------------------------------------------------
(* The engine's variables always have their types. *)

LEMMA GensNat == Gens \subseteq Nat /\ 0 \in Gens
  BY EngineAssumption DEF Gens

LEMMA InitType == Init => TypeOK
  <1> SUFFICES ASSUME Init PROVE TypeOK
    OBVIOUS
  <1>1. saved \in [Gens -> Config]
    BY EngineAssumption DEF Init
  <1>2. loop \in [Gens -> [Modules -> LoopState]]
    BY DEF Init, LoopState
  <1> QED BY <1>1, <1>2, GensNat DEF Init, TypeOK, EnginePc

LEMMA EngineStepType == TypeOK /\ EngineStep => TypeOK'
  <1> SUFFICES ASSUME TypeOK, EngineStep PROVE TypeOK'
    OBVIOUS
  <1> USE DEF TypeOK, EnginePc, LoopState
  <1>1. CASE BeginIteration
    BY <1>1 DEF BeginIteration
  <1>2. CASE EngineReturns
    BY <1>2 DEF EngineReturns
  <1>3. CASE WatcherFires
    BY <1>3 DEF WatcherFires
  <1>4. CASE UnconfiguredWakes
    BY <1>4 DEF UnconfiguredWakes
  <1>5. CASE BootstrapFails
    BY <1>5 DEF BootstrapFails
  <1>6. CASE FailedWakes
    BY <1>6 DEF FailedWakes
  <1>7. CASE BootstrapSucceeds
    BY <1>7 DEF BootstrapSucceeds
  <1>8. CASE CancelLoops
    BY <1>8 DEF CancelLoops
  <1>9. CASE DropTriggers
    BY <1>9 DEF DropTriggers
  <1>10. CASE CloseContext
    BY <1>10 DEF CloseContext
  <1> QED BY <1>1, <1>2, <1>3, <1>4, <1>5, <1>6, <1>7, <1>8, <1>9, <1>10 DEF EngineStep

LEMMA LoopStepType ==
  ASSUME TypeOK, NEW g \in Gens, NEW m \in Modules, LoopStep(g, m)
  PROVE  TypeOK'
  <1> USE DEF TypeOK, LoopState, SetLoop, engineVars
  <1>1. CASE StartPass(g, m)
    BY <1>1 DEF StartPass
  <1>2. CASE LeaveLoop(g, m)
    BY <1>2 DEF LeaveLoop
  <1>3. CASE CallThread(g, m)
    BY <1>3 DEF CallThread
  <1>4. CASE PassEnds(g, m)
    BY <1>4 DEF PassEnds
  <1>5. CASE StatusRecorded(g, m)
    BY <1>5 DEF StatusRecorded
  <1>6. CASE LoopCancelled(g, m)
    BY <1>6 DEF LoopCancelled
  <1> QED BY <1>1, <1>2, <1>3, <1>4, <1>5, <1>6 DEF LoopStep

LEMMA ThreadReturnsType ==
  ASSUME TypeOK, NEW g \in Gens, NEW m \in Modules, ThreadReturns(g, m)
  PROVE  TypeOK'
  <1> USE DEF TypeOK, LoopState, SetLoop, engineVars
  <1> QED BY ThreadReturns(g, m) DEF ThreadReturns

LEMMA OutsideStepType == TypeOK /\ OutsideStep => TypeOK'
  <1> SUFFICES ASSUME TypeOK, OutsideStep PROVE TypeOK'
    OBVIOUS
  <1> USE DEF TypeOK, engineVars
  <1>1. CASE Stop
    BY <1>1 DEF Stop
  <1>2. ASSUME NEW c \in Configs, SaveConfig(c) PROVE TypeOK'
    BY <1>2, EngineAssumption DEF SaveConfig, Gens
  <1>3. ASSUME NEW m \in Modules, RunNow(m) PROVE TypeOK'
    BY <1>3 DEF RunNow
  <1> QED BY <1>1, <1>2, <1>3 DEF OutsideStep

LEMMA NextType == TypeOK /\ [Next]_vars => TypeOK'
  <1> SUFFICES ASSUME TypeOK, [Next]_vars PROVE TypeOK'
    OBVIOUS
  <1>1. CASE UNCHANGED vars
    BY <1>1 DEF TypeOK, vars
  <1> QED BY <1>1, EngineStepType, LoopStepType, ThreadReturnsType, OutsideStepType DEF Next

\* The type invariant of the engine.
THEOREM TypeCorrect == Spec => []TypeOK
  BY InitType, NextType, PTL DEF Spec

--------------------------------------------------------------------------------
(* The inductive invariant.  Its parts are needed for one another: a save       *)
(* must not change the configuration in force (LiveOld), a cancelled task must  *)
(* not start a thread (DrainingOnlyEnds), and a wake-up must have a reason         *)
(* (WokenForAReason).                                                           *)

\* the configuration in force was saved before
LiveOld == live <= gen

\* once run_scheduler has cancelled its tasks they only end
DrainingOnlyEnds ==
  pc = "draining" =>
    \A m \in Modules : loop[live][m] \in {"none", "done", "cancelled"}

\* reload_evt is set, and loops are cancelled, only when the store moved on or
\* the process stops
WokenForAReason == reload \/ pc = "draining" => OutOfDate

IInv == /\ LiveOld
        /\ DrainingOnlyEnds
        /\ WokenForAReason
        /\ LoopsOfOneIteration
        /\ TriggersHaveLoops
        /\ RequestKept

LEMMA InitIInv == Init => IInv
  <1> SUFFICES ASSUME Init PROVE IInv
    OBVIOUS
  <1> QED BY GensNat DEF Init, IInv, LiveOld, DrainingOnlyEnds, WokenForAReason,
             LoopsOfOneIteration, TriggersHaveLoops, RequestKept

LEMMA EngineStepIInv == TypeOK /\ IInv /\ EngineStep => IInv'
  <1> SUFFICES ASSUME TypeOK, IInv, EngineStep PROVE IInv'
    OBVIOUS
  <1> USE GensNat DEF TypeOK, IInv, LiveOld, DrainingOnlyEnds, WokenForAReason, OutOfDate,
          LoopsOfOneIteration, TriggersHaveLoops, RequestKept
  <1>1. CASE BeginIteration
    BY <1>1 DEF BeginIteration
  <1>2. CASE EngineReturns
    BY <1>2 DEF EngineReturns
  <1>3. CASE WatcherFires
    BY <1>3 DEF WatcherFires
  <1>4. CASE UnconfiguredWakes
    BY <1>4 DEF UnconfiguredWakes
  <1>5. CASE BootstrapFails
    BY <1>5 DEF BootstrapFails
  <1>6. CASE FailedWakes
    BY <1>6 DEF FailedWakes
  <1>7. CASE BootstrapSucceeds
    BY <1>7 DEF BootstrapSucceeds
  <1>8. CASE CancelLoops
    BY <1>8 DEF CancelLoops, Woken
  <1>9. CASE DropTriggers
    BY <1>9 DEF DropTriggers, LoopsFinished
  <1>10. CASE CloseContext
    BY <1>10 DEF CloseContext
  <1> QED BY <1>1, <1>2, <1>3, <1>4, <1>5, <1>6, <1>7, <1>8, <1>9, <1>10 DEF EngineStep

LEMMA LoopStepIInv ==
  ASSUME TypeOK, IInv, NEW g \in Gens, NEW m \in Modules, LoopStep(g, m)
  PROVE  IInv'
  <1> USE DEF TypeOK, IInv, LiveOld, DrainingOnlyEnds, WokenForAReason, OutOfDate,
          LoopsOfOneIteration, TriggersHaveLoops, RequestKept, SetLoop, engineVars
  <1>1. CASE StartPass(g, m)
    BY <1>1 DEF StartPass
  <1>2. CASE LeaveLoop(g, m)
    BY <1>2 DEF LeaveLoop
  <1>3. CASE CallThread(g, m)
    BY <1>3 DEF CallThread
  <1>4. CASE PassEnds(g, m)
    BY <1>4 DEF PassEnds
  <1>5. CASE StatusRecorded(g, m)
    BY <1>5 DEF StatusRecorded
  <1>6. CASE LoopCancelled(g, m)
    BY <1>6 DEF LoopCancelled
  <1> QED BY <1>1, <1>2, <1>3, <1>4, <1>5, <1>6 DEF LoopStep

LEMMA ThreadReturnsIInv ==
  ASSUME TypeOK, IInv, NEW g \in Gens, NEW m \in Modules, ThreadReturns(g, m)
  PROVE  IInv'
  <1> USE DEF TypeOK, IInv, LiveOld, DrainingOnlyEnds, WokenForAReason, OutOfDate,
          LoopsOfOneIteration, TriggersHaveLoops, RequestKept, SetLoop, engineVars
  <1> QED BY ThreadReturns(g, m) DEF ThreadReturns

LEMMA OutsideStepIInv == TypeOK /\ IInv /\ OutsideStep => IInv'
  <1> SUFFICES ASSUME TypeOK, IInv, OutsideStep PROVE IInv'
    OBVIOUS
  <1> USE GensNat DEF TypeOK, IInv, LiveOld, DrainingOnlyEnds, WokenForAReason, OutOfDate,
          LoopsOfOneIteration, TriggersHaveLoops, RequestKept, engineVars
  <1>1. CASE Stop
    BY <1>1 DEF Stop
  <1>2. ASSUME NEW c \in Configs, SaveConfig(c) PROVE IInv'
    <2>1. saved'[live] = saved[live]
      BY <1>2 DEF SaveConfig
    <2> QED BY <1>2, <2>1 DEF SaveConfig
  <1>3. ASSUME NEW m \in Modules, RunNow(m) PROVE IInv'
    BY <1>3 DEF RunNow
  <1> QED BY <1>1, <1>2, <1>3 DEF OutsideStep

LEMMA NextIInv == TypeOK /\ IInv /\ [Next]_vars => IInv'
  <1> SUFFICES ASSUME TypeOK, IInv, [Next]_vars PROVE IInv'
    OBVIOUS
  <1>1. CASE UNCHANGED vars
    BY <1>1 DEF vars, IInv, LiveOld, DrainingOnlyEnds, WokenForAReason, OutOfDate,
                LoopsOfOneIteration, TriggersHaveLoops, RequestKept
  <1> QED BY <1>1, EngineStepIInv, LoopStepIInv, ThreadReturnsIInv, OutsideStepIInv DEF Next

LEMMA Inductive == Spec => [](TypeOK /\ IInv)
  <1>1. Init => TypeOK /\ IInv
    BY InitType, InitIInv
  <1>2. TypeOK /\ IInv /\ [Next]_vars => (TypeOK /\ IInv)'
    BY NextType, NextIInv
  <1> QED BY <1>1, <1>2, PTL DEF Spec

--------------------------------------------------------------------------------
(* The safety theorems                                                          *)

\* Loops of two configurations never coexist: every task that is not over belongs
\* to the iteration Engine.run is in.
THEOREM OneIteration == Spec => []LoopsOfOneIteration
  <1>1. IInv => LoopsOfOneIteration
    BY DEF IInv
  <1> QED BY <1>1, Inductive, PTL

\* run_now never finds a trigger whose loop is gone.
THEOREM NoOrphanTrigger == Spec => []TriggersHaveLoops
  <1>1. IInv => TriggersHaveLoops
    BY DEF IInv
  <1> QED BY <1>1, Inductive, PTL

\* A request that run_now accepted is not lost before a pass starts.
THEOREM RequestNotLost == Spec => []RequestKept
  <1>1. IInv => RequestKept
    BY DEF IInv
  <1> QED BY <1>1, Inductive, PTL

\* Nothing but a pass of the iteration in force hands work to a thread; this says
\* nothing of the requests that threads abandoned by a hot reload still make.
THEOREM OnlyTheLivingStartThreads == Spec => NoThreadFromTheDead
  <1>1. TypeOK /\ IInv /\ [Next]_vars =>
          [\A g \in Gens, m \in Modules :
             <<g, m>> \in thread' \ thread => g = live /\ pc = "scheduling"]_vars
    <2> SUFFICES ASSUME TypeOK, IInv, Next, NEW g \in Gens, NEW m \in Modules,
                        <<g, m>> \in thread' \ thread
                 PROVE  g = live /\ pc = "scheduling"
      OBVIOUS
    <2>1. ~EngineStep
      BY DEF EngineStep, BeginIteration, EngineReturns, WatcherFires, UnconfiguredWakes,
             BootstrapFails, FailedWakes, BootstrapSucceeds, CancelLoops, DropTriggers,
             CloseContext
    <2>2. ~OutsideStep
      BY DEF OutsideStep, Stop, SaveConfig, RunNow
    <2>3. PICK h \in Gens, n \in Modules : LoopStep(h, n) \/ ThreadReturns(h, n)
      BY <2>1, <2>2 DEF Next
    <2>4. CallThread(h, n)
      BY <2>3 DEF LoopStep, StartPass, LeaveLoop, PassEnds, StatusRecorded,
                  LoopCancelled, ThreadReturns
    <2>5. g = h /\ m = n
      BY <2>4 DEF CallThread
    <2> QED BY <2>4, <2>5 DEF CallThread, IInv, LoopsOfOneIteration, DrainingOnlyEnds
  <1> QED BY <1>1, Inductive, PTL DEF Spec, NoThreadFromTheDead

--------------------------------------------------------------------------------
(* Who waits for whom: the safety half of StopsWhenAsked and RequestAnswered.   *)

\* a task that awaits to_thread has a body that is executing
ThreadsAreUnderWay ==
  \A g \in Gens, m \in Modules : loop[g][m] = "calling" => <<g, m>> \in thread

\* what the gather of run_scheduler waits for: a task that has a CancelledError to raise
TeardownHasItsNext ==
  pc = "draining" => LoopsFinished \/ \E m \in Modules : loop[live][m] = "cancelled"

LEMMA NextThreadsAreUnderWay ==
  ASSUME TypeOK, ThreadsAreUnderWay, [Next]_vars PROVE ThreadsAreUnderWay'
  <1> USE DEF TypeOK, ThreadsAreUnderWay
  <1>1. CASE BootstrapSucceeds
    BY <1>1 DEF BootstrapSucceeds
  <1>2. CASE CancelLoops
    BY <1>2 DEF CancelLoops
  <1>3. CASE UNCHANGED <<loop, thread>>
    BY <1>3
  <1>4. CASE EngineStep
    BY <1>1, <1>2, <1>3, <1>4 DEF EngineStep, BeginIteration, EngineReturns, WatcherFires,
       UnconfiguredWakes, BootstrapFails, FailedWakes, DropTriggers, CloseContext
  <1>5. CASE OutsideStep \/ UNCHANGED vars
    BY <1>3, <1>5 DEF OutsideStep, Stop, SaveConfig, RunNow, vars
  <1>6. ASSUME NEW g \in Gens, NEW m \in Modules, LoopStep(g, m) PROVE ThreadsAreUnderWay'
    BY <1>6 DEF LoopStep, StartPass, LeaveLoop, CallThread, PassEnds, StatusRecorded,
                LoopCancelled, SetLoop
  <1>7. ASSUME NEW g \in Gens, NEW m \in Modules, ThreadReturns(g, m) PROVE ThreadsAreUnderWay'
    BY <1>7 DEF ThreadReturns, SetLoop
  <1> QED BY <1>4, <1>5, <1>6, <1>7 DEF Next

\* Nothing waits for what does not come: a pass awaits only a thread that is executing,
\* and once the engine tears an iteration down it waits for no thread at all.
THEOREM NothingWaitsInVain == Spec => [](ThreadsAreUnderWay /\ TeardownHasItsNext)
  <1>1. Init => ThreadsAreUnderWay
    BY DEF Init, ThreadsAreUnderWay
  <1>2. TypeOK /\ ThreadsAreUnderWay /\ [Next]_vars => ThreadsAreUnderWay'
    BY NextThreadsAreUnderWay
  <1>3. IInv => TeardownHasItsNext
    BY DEF IInv, DrainingOnlyEnds, TeardownHasItsNext, LoopsFinished
  <1> QED BY <1>1, <1>2, <1>3, Inductive, PTL DEF Spec

--------------------------------------------------------------------------------
(* Engine implements the safety part of HotReload                               *)

LEMMA InitRefines == Init => Abstract!HRInit
  BY DEF Init, Abstract!HRInit, Abstract!NoGen

LEMMA StepRefines == TypeOK /\ IInv /\ [Next]_vars => [Abstract!HRNext]_(Abstract!hrVars)
  <1> SUFFICES ASSUME TypeOK, IInv, [Next]_vars
               PROVE  [Abstract!HRNext]_(Abstract!hrVars)
    OBVIOUS
  <1>0. live # -1 /\ gen \in Nat
    BY GensNat DEF TypeOK
  <1> USE <1>0 DEF Abstract!HRNext, Abstract!hrVars, Abstract!SaveNewer,
          Abstract!TakeNewest, Abstract!GiveUp, Abstract!RequestStop, Abstract!NoGen
  <1>1. CASE BeginIteration
    BY <1>1 DEF BeginIteration
  <1>2. CASE EngineReturns
    BY <1>2 DEF EngineReturns
  <1>3. CASE WatcherFires
    BY <1>3 DEF WatcherFires
  <1>4. CASE UnconfiguredWakes
    BY <1>4 DEF UnconfiguredWakes, Woken, IInv, WokenForAReason, OutOfDate
  <1>5. CASE BootstrapFails
    BY <1>5 DEF BootstrapFails
  <1>6. CASE FailedWakes
    BY <1>6 DEF FailedWakes, Woken, IInv, WokenForAReason, OutOfDate
  <1>7. CASE BootstrapSucceeds
    BY <1>7 DEF BootstrapSucceeds
  <1>8. CASE CancelLoops
    BY <1>8 DEF CancelLoops
  <1>9. CASE DropTriggers
    BY <1>9 DEF DropTriggers, Woken, IInv, WokenForAReason, OutOfDate
  <1>10. CASE CloseContext
    BY <1>10 DEF CloseContext
  <1>11. ASSUME NEW g \in Gens, NEW m \in Modules, LoopStep(g, m) \/ ThreadReturns(g, m)
         PROVE  UNCHANGED <<gen, stop, pc, live>>
    BY <1>11 DEF LoopStep, StartPass, LeaveLoop, CallThread, PassEnds,
                 StatusRecorded, LoopCancelled, ThreadReturns, engineVars
  <1>12. CASE OutsideStep
    BY <1>12 DEF OutsideStep, Stop, SaveConfig, RunNow, engineVars
  <1>13. CASE UNCHANGED vars
    BY <1>13 DEF vars
  <1> QED BY <1>1, <1>2, <1>3, <1>4, <1>5, <1>6, <1>7, <1>8, <1>9, <1>10, <1>11, <1>12, <1>13
          DEF Next, EngineStep

\* Whatever is in force was the newest configuration when it was taken and is given
\* up only for a newer one or a stop.
THEOREM EngineHotReloads == Spec => Abstract!HRSafety
  BY InitRefines, StepRefines, Inductive, PTL DEF Spec, Abstract!HRSafety
================================================================================
