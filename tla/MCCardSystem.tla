----------------------------- MODULE MCCardSystem -----------------------------
(* Instances of CardSystem for TLC. *)
EXTENDS CardSystem, TLC

CONSTANTS c1, h1, h2, s1, s2, r1, r2   \* model values

activation(h) ==
  [action |-> "ACTIVATE", card |-> c1, hwid |-> h, session |-> null,
   takeover |-> FALSE, policy |-> null]

verification(h, s, t, p) ==
  [action |-> "VERIFY", card |-> c1, hwid |-> h, session |-> s,
   takeover |-> t, policy |-> p]

\* Activations from two machines, and a heartbeat without a session.
LicenceCalls == {activation(h1), activation(h2), verification(h1, null, FALSE, "kick-old")}

Symmetry == Permutations({r1, r2})
=============================================================================
