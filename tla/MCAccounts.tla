----------------------------- MODULE MCAccounts -----------------------------
(* An instance of Accounts for TLC.                                         *)
EXTENDS Accounts, TLC

CONSTANTS n1, n2, n3, r1, r2

ThreeNames == {n1, n2, n3}
TwoSlots == {r1, r2}
Interchangeable == Permutations(Names) \union Permutations(Requests)
=============================================================================
