------------------------------- MODULE MockApi -------------------------------
(***************************************************************************)
(* The backend of the console's demo build, frontend/src/api/mock.ts: an   *)
(* array of cards that each call reads or writes at once. A card is known  *)
(* by its place in the array; null is the place of a deleted one. Of the   *)
(* three filters, which are alike, the one on the status is kept.          *)
(***************************************************************************)
EXTENDS Integers, SequencesExt

CONSTANTS
  null,        \* no value, no card
  PageSize,    \* pageSize
  MaxDays      \* bound: no card with more days left is extended

\* A card: "bound" tells whether it has a hwid, "days" is the grant before the
\* activation and what is left of it after.
MockCard == [status : {"UNUSED", "ACTIVE", "EXPIRED", "BANNED"},
             activated : BOOLEAN,
             bound : BOOLEAN,
             days : Nat \cup {null}]

makeCard(days) ==
  [status |-> "UNUSED", activated |-> FALSE, bound |-> FALSE, days |-> days]

-----------------------------------------------------------------------------
(* The list.                                                               *)

\* The place in the lifecycle, or the expiry with cards that have none last.
Rank(card, by) ==
  IF by = "status"
  THEN CASE card.status = "UNUSED" -> 0 [] card.status = "ACTIVE" -> 1
         [] card.status = "EXPIRED" -> 2 [] OTHER -> 3
  ELSE IF card.activated /\ card.days # null THEN card.days ELSE MaxDays * 2 + 1

Matching(db, p) ==
  {i \in DOMAIN db : db[i] # null /\ p.status \in {"any", db[i].status}}

\* The newest first; a sort is stable.
Precedes(db, p, i, j) ==
  LET ri == Rank(db[i], p.sortBy)  rj == Rank(db[j], p.sortBy)
  IN  IF p.sortBy = "none" \/ ri = rj THEN i > j
      ELSE IF p.sortOrder = "asc" THEN ri < rj ELSE ri > rj

Sorted(db, p) ==
  SetToSortSeq(Matching(db, p), LAMBDA i, j : Precedes(db, p, i, j))

\* The cards of a page, and the number of matches. The answer holds the cards
\* themselves, not copies, so that of a card it tells nothing but which it is.
listCards(db, p) ==
  LET total == Cardinality(Matching(db, p))
      last  == IF p.page * PageSize < total THEN p.page * PageSize ELSE total
  IN  [items |-> SubSeq(Sorted(db, p), (p.page - 1) * PageSize + 1, last),
       total |-> total]

-----------------------------------------------------------------------------
(* The writes; those of a card that is gone do nothing.                    *)

ban(db, i) == IF db[i] = null THEN db ELSE [db EXCEPT ![i].status = "BANNED"]

unban(db, i) ==
  IF db[i] = null THEN db
  ELSE [db EXCEPT ![i].status =
            IF db[i].activated THEN "ACTIVE" ELSE "UNUSED"]

unbind(db, i) == IF db[i] = null THEN db ELSE [db EXCEPT ![i].bound = FALSE]

remove(db, i) == [db EXCEPT ![i] = null]

Extendable(card) ==
  /\ card # null
  /\ card.status \notin {"BANNED", "EXPIRED"}
  /\ card.days # null /\ card.days <= MaxDays

extendCards(db, targets) ==
  [i \in DOMAIN db |->
     IF i \in targets /\ Extendable(db[i])
     THEN [db[i] EXCEPT !.days = @ + 1] ELSE db[i]]

createBatch(db, count, days) == db \o [k \in 1 .. count |-> makeCard(days)]
=============================================================================
