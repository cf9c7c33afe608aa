--------------------------- MODULE MCStaticRoutes ---------------------------
(* Instances of StaticRoutes for TLC: the model values are named by the     *)
(* configurations, the small sets and the mutated operations are here.      *)
EXTENDS StaticRoutes, TLC

CONSTANTS u1, u2, d1, d2, h1, h2, r1, r2

OneUser   == {u1}
TwoUsers  == {u1, u2}
NoAdmin   == {}
OneAdmin  == {u2}
TwoDests  == {d1, d2}
OneHop    == {h1}
TwoHops   == {h1, h2}
NoDistances == {}
OneDistance == {1}
Serial     == {r1}
Concurrent == {r1, r2}
Definite == {"ok", "refused"}
AllEnds  == AllAnswers

(* Slots, destinations and next hops are interchangeable, and no action     *)
(* reads the journal or the history variables: runs that ask nothing of them*)
(* ignore them.                                                             *)
PathSymmetry == Permutations(Dests) \union Permutations(Hops)
SlotSymmetry == Permutations(Requests)
NoJournal == <<routes, router, req, broken, cut>>
NoHistory == <<routes, router, req>>
=============================================================================
