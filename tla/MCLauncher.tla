---------------------------- MODULE MCLauncher ----------------------------
(***************************************************************************)
(* Launcher with two acceptance checks, one smoke command beside the       *)
(* launcher, and two containers one after the other.                       *)
(***************************************************************************)
EXTENDS Launcher

MCCommands == {"command"}
=============================================================================
