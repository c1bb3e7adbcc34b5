----------------------------- MODULE MCCardVerdicts -----------------------------
(* Instances of CardVerdicts for TLC. *)
EXTENDS CardVerdicts, TLC

CONSTANTS c1, h1, h2, s1, s2, r1, r2   \* model values

activation(h) ==
  [action |-> "ACTIVATE", card |-> c1, hwid |-> h, session |-> null,
   takeover |-> FALSE, policy |-> null]

verification(h, s, t, p) ==
  [action |-> "VERIFY", card |-> c1, hwid |-> h, session |-> s,
   takeover |-> t, policy |-> p]

\* Activations from two machines, and a heartbeat without a session.
LicenceCalls == {activation(h1), activation(h2), verification(h1, null, FALSE, "kick-old")}

\* Two processes on one machine and the activations of two machines: each
\* process starts up or runs, and a startup beat meets either policy.
SessionCalls ==
  {activation(h1), activation(h2),
   verification(h1, s1, FALSE, "kick-old"),
   verification(h1, s1, TRUE, "kick-old"),
   verification(h1, s2, FALSE, "block-new"),
   verification(h1, s2, TRUE, "block-new")}

\* The same under one policy.
KickOldCalls ==
  {activation(h1), activation(h2)} \cup
  {verification(h1, s, t, "kick-old") : s \in {s1, s2}, t \in BOOLEAN}

Symmetry == Permutations({r1, r2})
=============================================================================
