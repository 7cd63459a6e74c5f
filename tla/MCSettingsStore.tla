---------------------------- MODULE MCSettingsStore ----------------------------
(* An instance of SettingsStore for TLC: two forms, two values each. *)
EXTENDS SettingsStore

CONSTANTS netbox, sites

MCEmpty    == [f \in Fields |-> 0]
MCRestored == [f \in Fields |-> 1]
MCYaml     == [f \in Fields |-> IF f = netbox THEN 1 ELSE 0]
================================================================================
