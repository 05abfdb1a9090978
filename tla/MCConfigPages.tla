--------------------------- MODULE MCConfigPages ----------------------------
(* One page, two calls at a time, one or two rule names: pages, calls and   *)
(* names are symmetric.  Rules and Hidden are what others publish.          *)
EXTENDS ConfigPages, TLC

Rules == {Rule(n) : n \in Name}
Hidden == {S("sites"), S("ips"), S("rest"), S("hook"), S("ai")}

Symmetry == Permutations(Page) \cup Permutations(Call) \cup Permutations(Name)
=============================================================================
