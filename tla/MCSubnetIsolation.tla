------------------------- MODULE MCSubnetIsolation -------------------------
(* Instances of SubnetIsolation for TLC.                                    *)
EXTENDS SubnetIsolation, TLC

CONSTANTS n1, n2, s1, s2, r1, r2

OneName    == {n1}
TwoNames   == {n1, n2}
OneService == {s1}
TwoServices == {s1, s2}
NoService  == {}
Serial     == {r1}
Concurrent == {r1, r2}
Acked      == {"ok"}
Definite   == {"ok", "refused"}
AllEnds    == {"ok", "refused", "lost"}

(* Interchangeable values, and a view without the history variable for the  *)
(* runs that do not ask about it.                                           *)
Interchangeable == Permutations(Requests) \union Permutations(Names)
NoHistory == <<subnets, rules, router, req>>
=============================================================================
