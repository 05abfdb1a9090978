------------------------------ MODULE MCUpgrade ------------------------------
(* Values of the constants of Upgrade for TLC.                             *)
EXTENDS Upgrade, TLC

None    == {}
Newest  == {Last}
\* Two earlier upgrades left their backups.
TwoOld  == {1, 2}
\* Names that sort like the versions: v0.7.6 .. v0.7.9.
InOrder == [v \in Release |-> v]
\* v0.7.8, v0.7.9, v0.7.10, v0.7.11: the later two sort first.
DigitCarry == <<3, 4, 1, 2>>
=============================================================================
