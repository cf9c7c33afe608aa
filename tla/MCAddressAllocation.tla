------------------------ MODULE MCAddressAllocation ------------------------
(* An instance of AddressAllocation for TLC.                                *)
EXTENDS AddressAllocation, TLC

CONSTANTS m1, m2, r1, r2

OneSubnet   == {1}
TwoMachines == {m1, m2}
TwoSlots    == {r1, r2}
TwoHosts    == {2, 3}
Zero        == {0}
JustTwo     == {2}

(* {host:2-4}, {host:6-2} and {host:4-3}; the template starts with the      *)
(* first.                                                                   *)
ThreeRanges == {[low |-> 2, size |-> 3], [low |-> 6, size |-> -3], [low |-> 4, size |-> 0]}
OneTemplate == [t \in {1} |-> [low |-> 2, size |-> 3]]

Interchangeable == Permutations(Machines) \union Permutations(Requests)
=============================================================================
