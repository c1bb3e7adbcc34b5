----------------------------- MODULE MCSignedApi -----------------------------
(* Instances of SignedApi for TLC. *)
EXTENDS SignedApi, TLC

CONSTANTS m1, m2, w1, w2   \* model values

\* A clock that is too slow for the window, a right one, and one at the far
\* edge of the window.
Offsets == {-2, 0, 1}

Symmetry == Permutations({m1, m2}) \cup Permutations({w1, w2})
=============================================================================
