------------------------------ MODULE MCCleanup ------------------------------
(* Cleanup for TLC: a device in each of two sites, a virtual machine whose id  *)
(* is also a device's, two addresses and a cable.                             *)
EXTENDS Cleanup

CONSTANTS d1, d2, v1, a1, a2, home, lab

MCNum == [o \in {d1, d2, v1} |-> IF o = d2 THEN 2 ELSE 1]
MCSite == [d \in {d1, d2} |-> IF d = d1 THEN home ELSE lab]
MCRequests == [kinds: {1..4, {2, 3}}, site: {home, Any}, dry: BOOLEAN]

\* One device and one address may be a person's (or the address to come); the
\* others are ours, and at most the first device or address fails the other filters
MCInit ==
  /\ Init
  /\ \A o \in {d1, v1, a2} \cup Cables : rec[o] = "ours"
  /\ fits \in {Objects, Objects \ {d1}, Objects \ {a1}}
MCSpec == MCInit /\ [][Next]_vars
=============================================================================
