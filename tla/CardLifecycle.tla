----------------------------- MODULE CardLifecycle -----------------------------
(***************************************************************************)
(* What the server promises of its cards, without requests and clock: a    *)
(* card is activated once, by one machine; it leaves a machine only by     *)
(* being unbound, and a status only for a later one; only an extension     *)
(* moves the end of a running licence; a deleted card stays deleted.       *)
(* CardSystem implements it as long as the console does not unban.         *)
(***************************************************************************)
EXTENDS Integers

CONSTANTS
  CardId,      \* the cards
  Hwid,        \* the machines
  null         \* no machine, no end

VARIABLE
  life         \* [CardId -> what CardLife says of the card]

\* kind: issued for a number of days, or for good; activated: its clock was
\* started; holder: the machine it is bound to; end: when its licence ends.
CardLife == [status : {"UNUSED", "ACTIVE", "EXPIRED", "BANNED", "DELETED"},
             kind : {"timed", "permanent", "none"},
             activated : BOOLEAN,
             holder : Hwid \cup {null},
             end : Nat \cup {null}]

Issued(kind) ==
  [status |-> "UNUSED", kind |-> kind, activated |-> FALSE,
   holder |-> null, end |-> null]

Deleted ==
  [status |-> "DELETED", kind |-> "none", activated |-> FALSE,
   holder |-> null, end |-> null]

-----------------------------------------------------------------------------
(* How the life of one card may go on, from l to m.                        *)

\* The first machine starts the clock; a permanent licence gets no end.
FirstUse(l, m) ==
  /\ l.status = "UNUSED" /\ ~l.activated
  /\ m.holder # null
  /\ m.end = null <=> l.kind = "permanent"
  /\ m = [l EXCEPT !.status = "ACTIVE", !.activated = TRUE,
                   !.holder = m.holder, !.end = m.end]

\* A running licence that was issued for a time is found to be over.
Lapse(l, m) ==
  /\ l.status = "ACTIVE" /\ l.kind = "timed"
  /\ m = [l EXCEPT !.status = "EXPIRED"]

\* The next machine of a running licence that was unbound.
Bind(l, m) ==
  /\ l.status = "ACTIVE" /\ l.holder = null
  /\ m = [l EXCEPT !.holder = m.holder]

Unbind(l, m) == m = [l EXCEPT !.holder = null]

\* The end of a licence that was ever started is moved, whatever its status
\* has become since the console looked.
Extend(l, m) ==
  /\ l.activated /\ l.kind = "timed"
  /\ m.end # null
  /\ m = [l EXCEPT !.end = m.end]

Ban(l, m) == m = [l EXCEPT !.status = "BANNED"]

\* Nothing is left of a deleted card.
Delete(l, m) == m = Deleted

LifeStep(l, m) ==
  /\ l.status # "DELETED"
  /\ \/ FirstUse(l, m) \/ Lapse(l, m) \/ Bind(l, m) \/ Unbind(l, m)
     \/ Extend(l, m) \/ Ban(l, m) \/ Delete(l, m)

-----------------------------------------------------------------------------

LifeInit == life \in [CardId -> {Issued("timed"), Issued("permanent")}]

\* A bulk extension moves several cards at once.
LifeNext ==
  /\ life' \in [CardId -> CardLife]
  /\ \A c \in CardId : life'[c] # life[c] => LifeStep(life[c], life'[c])

LifeSpec == LifeInit /\ [][LifeNext]_life
=============================================================================
