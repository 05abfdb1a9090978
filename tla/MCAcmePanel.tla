----------------------------- MODULE MCAcmePanel -----------------------------
(* Two domains; the service has one slot and forgets the oldest task.      *)
EXTENDS AcmePanel
CONSTANTS d1, d2
MCKeys == {d1, d2}
==============================================================================
