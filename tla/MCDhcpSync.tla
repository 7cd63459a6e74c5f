------------------------------ MODULE MCDhcpSync ------------------------------
(* Two sites, one of them unknown to NetBox, whose networks overlap in a1.  A *)
(* reservation of either host and a dynamic lease of the first; the virtual   *)
(* machine's interface of h1 has the number of the device's of h2.            *)
EXTENDS DhcpSync

CONSTANTS s1, s2, a1, a2, h1, h2

MCScope == [s \in Sites |-> IF s = s1 THEN {a1} ELSE {a1, a2}]

MCLeases == {[kind |-> "dynamic", host |-> h1], [kind |-> "reserved", host |-> h1],
             [kind |-> "reserved", host |-> h2]}

MCNumber == [i \in Iface |-> IF i \in {VM(h1), Dev(h2)} THEN 1
                             ELSE IF i = Dev(h1) THEN 2 ELSE 3]

MCInit == /\ Init
          /\ lease[s1][a1] # NoLease /\ lease[s1][a1].host = h1
          /\ lease[s2][a1] = NoLease /\ lease[s2][a2].host \in {h2, None}
          /\ \A h \in Hosts : nb.dev[h] = "none"
          /\ nb.vm[h2] = "none"

MCSpec == MCInit /\ [][Next]_vars /\ WF_vars(PassStep)
================================================================================
