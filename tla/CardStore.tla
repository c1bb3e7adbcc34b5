------------------------------ MODULE CardStore ------------------------------
(***************************************************************************)
(* The CardKey table (prisma/schema.prisma) and the wall clock, which the  *)
(* handlers of CardService and AdminService share. Every statement the     *)
(* code sends is one atomic step on the table: updateMany is a single      *)
(* UPDATE ... WHERE that either hits its row or misses.                    *)
(***************************************************************************)
EXTENDS CardLogic

CONSTANTS
  CardId,      \* the cards, identified by id and by code
  Grants,      \* durationDays a batch may have been generated with
  MaxClock     \* bound: the clock stops here

ASSUME StoreAssumption ==
  /\ null \notin CardRow
  /\ Grants \subseteq Optional(Nat \ {0})
  /\ MaxClock \in Nat

VARIABLES
  cards,       \* the table: a row for every card, null where there is none
  clock        \* new Date()

storeVars == <<cards, clock>>

\* A row as createMany leaves it: every other column has its default.
IssuedRow(durationDays) ==
  [status |-> "UNUSED", hwid |-> null, durationDays |-> durationDays,
   activated |-> FALSE, expiresAt |-> null, sessionId |-> null,
   sessionSeenAt |-> null, lastSeenAt |-> null]

InitStore ==
  /\ cards \in [CardId -> {IssuedRow(g) : g \in Grants}]
  /\ clock = 0

Exists(c) == cards[c] # null

\* UPDATE of the row of card c to the value row.
SetRow(c, row) == cards' = [cards EXCEPT ![c] = row]

Tick ==
  /\ clock < MaxClock
  /\ clock' = clock + 1
  /\ UNCHANGED cards
=============================================================================
