-------------------------- MODULE MCFirewallPolicies --------------------------
(* An instance of FirewallPolicies for TLC.                                 *)
EXTENDS FirewallPolicies, TLC

CONSTANTS u1, u2, n1, n2, v1, v2, r1, r2

TwoUsers   == {u1, u2}
TwoNames   == {n1, n2}
TwoValues  == {v1, v2}
TwoSlots   == {r1, r2}
OneNumber  == {1}
AllAnswers == {"ok", "refused", "lost"}

Interchangeable == Permutations(Users) \union Permutations(Names)
                   \union Permutations(Values) \union Permutations(Requests)
=============================================================================
