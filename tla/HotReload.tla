------------------------------- MODULE HotReload -------------------------------
(****************************************************************************)
(* What the sync engine promises about configuration (README: "Configuration *)
(* edits apply immediately -- the sync engine hot-reloads without a restart"), *)
(* without saying how: at most one generation is in force; it is the newest  *)
(* one when it is taken; it is given up only because a newer one was saved   *)
(* or the process stops; and both happen without waiting for another event.  *)
(****************************************************************************)
EXTENDS Integers

VARIABLES newest,    \* generation of the last saved configuration
          inForce,   \* generation the engine works under, or NoGen
          stopping   \* shutdown was requested

hrVars == <<newest, inForce, stopping>>

NoGen == -1

HRInit == newest = 0 /\ inForce = NoGen /\ stopping = FALSE

SaveNewer == newest' = newest + 1 /\ UNCHANGED <<inForce, stopping>>

TakeNewest == /\ inForce = NoGen /\ ~stopping
              /\ inForce' = newest
              /\ UNCHANGED <<newest, stopping>>

GiveUp == /\ inForce # NoGen
          /\ inForce # newest \/ stopping
          /\ inForce' = NoGen
          /\ UNCHANGED <<newest, stopping>>

RequestStop == stopping' = TRUE /\ UNCHANGED <<newest, inForce>>

HRNext == SaveNewer \/ TakeNewest \/ GiveUp \/ RequestStop

HRSafety == HRInit /\ [][HRNext]_hrVars

HRSpec == HRSafety /\ WF_hrVars(TakeNewest) /\ WF_hrVars(GiveUp)
================================================================================
