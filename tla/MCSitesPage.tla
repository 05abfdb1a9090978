---------------------------- MODULE MCSitesPage -----------------------------
(* Two domains, which are symmetric.                                       *)
EXTENDS SitesPage

Symmetry == Permutations(Domain)
=============================================================================
