---------------------------- MODULE MCPlaneReload ----------------------------
(* Values of the constants of PlaneReload for TLC.                         *)
EXTENDS PlaneReload, TLC
CONSTANTS s1, s2, d1, d2, g1, g2, q1

TwoSites == {s1, s2}
TwoDefs  == {d1, d2}
Groups   == {g1, g2}
OneRequest == {q1}

Doc(sites, groups, geo) ==
  [sites |-> sites, groups |-> groups, geo |-> geo]

Boot == Doc((s1 :> d1) @@ (s2 :> d1), g1, "embedded")

\* One definition changes, a site goes, the lists change, the geo section goes or
\* moves to a file.
Documents ==
  {Boot,
   Doc((s1 :> d1) @@ (s2 :> d2), g1, "embedded"),
   Doc(s1 :> d1, g2, "none"),
   Doc((s1 :> d2) @@ (s2 :> d1), g2, "file")}
=============================================================================
