---------------------------- MODULE MCLiveScripts ----------------------------
(***************************************************************************)
(* A small instance of LiveScripts: the four scripts, or the drill whose   *)
(* report is checked.                                                      *)
(***************************************************************************)
EXTENDS LiveScripts

AllScripts == OnDeployed \cup OnOwnSlab
Drills     == {"stress-bankrun"}
=============================================================================
