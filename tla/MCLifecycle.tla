---------------------------- MODULE MCLifecycle ----------------------------
(***************************************************************************)
(* A small instance of Lifecycle for TLC, on the hosts of MCLaunch.        *)
(***************************************************************************)
EXTENDS Lifecycle, MCLaunch

\* with everything, and without each thing a launch asks for by name
LackingHosts == {Whole(5), NoSwtpm, NoSystem, NoFirmware}
=============================================================================
