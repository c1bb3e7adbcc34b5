---------------------------- MODULE MCConsoleRaces ----------------------------
(* Instances of ConsoleRaces for TLC. *)
EXTENDS ConsoleRaces, TLC

CONSTANTS c1, h1, h2, r1, r2, a1, a2   \* model values

activation(h) ==
  [action |-> "ACTIVATE", card |-> c1, hwid |-> h, session |-> null,
   takeover |-> FALSE, policy |-> null]

Activations == {activation(h1), activation(h2)}

\* Activations from two machines, and a heartbeat without a session.
LicenceCalls ==
  Activations \cup
  {[action |-> "VERIFY", card |-> c1, hwid |-> h1, session |-> null,
    takeover |-> FALSE, policy |-> "kick-old"]}

Symmetry == Permutations({a1, a2}) \cup Permutations({r1, r2})
=============================================================================
