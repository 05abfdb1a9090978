---------------------------- MODULE MCUpgradePanel --------------------------
(* Two tasks, two processes, a silence of one failed round.                *)
EXTENDS UpgradePanel
=============================================================================
