---------------------------- MODULE ProvisioningMC ----------------------------
(* Constant values for TLC. *)
EXTENDS Provisioning

CONSTANTS p1, p2, p3
==============================================================================
