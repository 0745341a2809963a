----------------------------- MODULE MCApSwitch -----------------------------
(* Small instance of ApSwitch: two shells beside the daemon.                *)
EXTENDS ApSwitch
=============================================================================
