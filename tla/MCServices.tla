------------------------------ MODULE MCServices ------------------------------
(***************************************************************************)
(* An instance of Services for TLC.  The components share the values of     *)
(* their data: each has its own use for them, and one permutation of the    *)
(* values serves all.                                                       *)
(***************************************************************************)
EXTENDS Services, TLC

CONSTANTS r1, r2, q1, a1, a2, b1, b2

TwoSlots      == {r1, r2}
OneRemover    == {q1}
AllAnswers    == {"ok", "refused", "lost"}
OneOnly       == {1}
NoneOrOne     == {0, 1}
CreateFailure == {"create", "failure"}
TwoAs         == {a1, a2}   \* external addresses, machines, resources
TwoBs         == {b1, b2}   \* subnets

Interchangeable == Permutations(TwoSlots) \union Permutations(TwoAs)
                   \union Permutations(TwoBs)
=============================================================================
