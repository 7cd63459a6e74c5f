---------------------------- MODULE MCAvailability ----------------------------
(* One device found by discovery whose host serves a certificate.  The pass   *)
(* holds nothing that two devices share: what another device does to this one *)
(* is to raise before it is handled, and PassAborts does that to it.          *)
EXTENDS Availability

CONSTANT nas

MCAfter == [d \in Devices |-> {}]
================================================================================
