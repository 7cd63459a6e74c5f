------------------------------- MODULE MCEngine -------------------------------
(* An instance of Engine for TLC: two modules; configurations that leave the  *)
(* engine unconfigured, without a module, in dry-run mode, and with both.     *)
EXTENDS Engine

CONSTANTS dhcp, lldp

Unset == [configured |-> FALSE, enabled |-> {dhcp}]
Both  == [configured |-> TRUE, enabled |-> {dhcp, lldp}]
One   == [configured |-> TRUE, enabled |-> {dhcp}]
Quiet == [configured |-> TRUE, enabled |-> {}]

MCConfigs == {Unset, Both, One, Quiet}
================================================================================
