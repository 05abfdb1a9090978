--------------------------- MODULE MCConfigCenter ---------------------------
(* Values of the constants of ConfigCenter for TLC.                        *)
EXTENDS ConfigCenter, TLC
CONSTANTS p1, p2, s1, s2, a, b, bad, broken, webhook, shipper

OnePublisher  == {p1}
TwoPublishers == {p1, p2}
OneSite       == {s1}
TwoSites      == {s1, s2}
NoSection     == {}
LegacySection == {s2}
Good          == {a, b}
GoodBroken    == {a, broken}
AllGood       == {a, b, broken}
AllValues     == {a, bad, broken}
Broken        == {broken}
None          == {}
BothBuilders  == {webhook, shipper}
Shippers      == {shipper}
OneBuilder    == {webhook}
Bad           == {bad}
Symmetric     == Permutations(Publisher)
=============================================================================
