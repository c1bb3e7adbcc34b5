------------------------------- MODULE MCConsole -------------------------------
(* An instance of Console for TLC: the sessions of the real build, where one  *)
(* button stands for all that write, and the whole card list of the demo.     *)
EXTENDS Console

\* A card that runs.
SomeCards == <<[status |-> "ACTIVE", activated |-> TRUE, bound |-> TRUE, days |-> 1]>>

SomeFilters == [build \in BOOLEAN |-> IF build THEN {"any", "BANNED"} ELSE {"any"}]

SomeSorts ==
  [build \in BOOLEAN |-> IF build THEN {<<"status", "desc">>} ELSE {}]

SomeButtons ==
  [build \in BOOLEAN |->
     IF build THEN {"ban", "unban", "remove", "batch", "extend"} ELSE {"unbind"}]
=============================================================================
