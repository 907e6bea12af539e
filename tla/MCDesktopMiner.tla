---------------------------- MODULE MCDesktopMiner ----------------------------
(* Small instances of DesktopMiner for TLC. *)
EXTENDS DesktopMiner
=============================================================================
