----------------------------- MODULE ConsoleRaces -----------------------------
(***************************************************************************)
(* CardSystem with a history of what happens between the read and the      *)
(* write of a console operation. The server takes the console's requests   *)
(* as they come: two of them may work on one card, and each writes what it *)
(* decided on the row it read (admin/admin.service.ts).                    *)
(***************************************************************************)
EXTENDS CardSystem

VARIABLES
  found,       \* [Operator -> the targets an unban found BANNED]
  overtaken    \* [Operator -> <<target, op>> for the unbans and extensions
               \* by others since the operation read its rows]

rvars == <<vars, found, overtaken>>

\* The step is b's write, and it changes card c.
Wrote(b, c) ==
  adm[b].op # "idle" /\ adm'[b].op = "idle" /\ cards'[c] # cards[c]

\* The operations that write what they worked out from the row they read.
Judged == {"unban", "extend"}

\* What the step, a write of another such operation, does to the targets of a.
Overtaking(a) ==
  {p \in adm[a].targets \X Judged :
     \E b \in Operator \ {a} : Wrote(b, p[1]) /\ adm[b].op = p[2]}

RInit ==
  /\ Init
  /\ found = [a \in Operator |-> {}]
  /\ overtaken = [a \in Operator |-> {}]

RNext ==
  /\ Next
  /\ found' = [a \in Operator |->
       IF adm'[a].op = "idle" THEN {}
       ELSE IF adm[a].op = "idle"
       THEN {c \in adm'[a].targets : adm'[a].op = "unban" /\ cards[c].status = "BANNED"}
       ELSE found[a]]
  /\ overtaken' = [a \in Operator |->
       IF adm[a].op \notin Judged \/ adm'[a].op = "idle" THEN {}
       ELSE overtaken[a] \cup Overtaking(a)]

RSpec == RInit /\ [][RNext]_rvars

-----------------------------------------------------------------------------

\* The status that a row's activation and expiry call for, at an instant
\* between at and the present.
RightStatus(row, at) ==
  /\ row.status # "BANNED"
  /\ row.status = "UNUSED" <=> ~row.activated
  /\ row.status = "EXPIRED" => isExpired(row, clock)
  /\ row.status = "ACTIVE" => ~isExpired(row, at)

\* The step is a's unban of a card it had found banned.
Unbans(a, c) == adm[a].op = "unban" /\ c \in found[a] /\ Wrote(a, c)

UnbanRight(a) ==
  \A c \in CardId :
    Unbans(a, c) /\ {<<c, "unban">>, <<c, "extend">>} \cap overtaken[a] = {}
      => RightStatus(cards'[c], adm[a].at)

\* A banned card that is unbanned gets the status its row calls for, whatever
\* clients, bans, unbinds and the clock do between the read and the write of
\* the unban: only another unban, or an extension, of that card in between
\* can make the status a wrong one (admin.service.ts:110-119).
UnbanRestores == [][\A a \in Operator : UnbanRight(a)]_rvars

\* The step is a's extension of c, and another extension wrote c after a read it.
OvertakenExtension(a, c) ==
  /\ adm[a].op = "extend" /\ adm'[a].op = "idle"
  /\ <<c, "extend">> \in overtaken[a]

\* Licensed time is lost in one way only: two extensions of a card overlap,
\* and the one that writes last counts from what the first had not added yet
\* (admin.service.ts:77-94). Activations, bans, unbinds, the clock and a card's
\* lapse never make an extension shorten what it extends. (Without unban: after
\* a stale one an activation may start a running licence anew.)
TimeLostInOverlapOnly ==
  [][\A c \in CardId :
       TimeKept(c) \/ \E a \in Operator : OvertakenExtension(a, c)]_rvars

\* An unban leaves a banned card with the right status, always: unban "Restores
\* a banned card to its correct status based on activation/expiry"
\* (admin.service.ts:109).
UnbanCorrect ==
  [][\A a \in Operator, c \in CardId :
       Unbans(a, c) => RightStatus(cards'[c], adm[a].at)]_rvars
=============================================================================
