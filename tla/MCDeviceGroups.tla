-------------------------- MODULE MCDeviceGroups ----------------------------
(***************************************************************************)
(* Three device-groups: every set of links among them, present or not.     *)
(***************************************************************************)
EXTENDS DeviceGroups, TLC

=============================================================================
