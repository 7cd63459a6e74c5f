------------------------------- MODULE MCProxmox -------------------------------
(* A VM with the one name and a container on the other node, where they may   *)
(* meet under one name, or without one.                                       *)
EXTENDS Proxmox

CONSTANTS g1, g2, n1, n2, web

MCInit ==
  /\ Init
  /\ loc[g1] = n1 /\ label[g1] = web
  /\ loc[g2] = n2 => label[g2] = None
  /\ loc[g2] \in {n2, None}

MCSpec == MCInit /\ [][Next]_vars /\ Fairness
================================================================================
