----------------------------- MODULE AdminService -----------------------------
(***************************************************************************)
(* The console's operations on issued cards, admin/admin.service.ts: ban,  *)
(* unban, unbind, remove and the bulk extension. Each reads first and then *)
(* writes by id alone, with no condition on what the row has become.       *)
(***************************************************************************)
EXTENDS CardStore

CONSTANTS
  Operator,    \* the console requests the server handles at the same time
  AdminOps,    \* the operations in use
  ExtendDays,  \* the days an extension may add
  MaxDays,     \* bound: no card with a longer grant is extended
  MaxExpiry    \* bound: no card with a later expiry is extended

AdminOp == {"ban", "unban", "unbind", "remove", "extend"}

\* The columns a write may depend on, as they were read.
Terms == [activated : BOOLEAN, durationDays : Optional(Nat),
          expiresAt : Optional(Time)]

TermsOf(row) == [activated |-> row.activated, durationDays |-> row.durationDays,
                 expiresAt |-> row.expiresAt]

ASSUME AdminAssumption ==
  /\ AdminOps \subseteq AdminOp
  /\ ExtendDays \subseteq Nat \ {0}
  /\ MaxDays \in Nat
  /\ MaxExpiry \in Nat
  /\ null \notin Terms

VARIABLE
  adm          \* [Operator -> [op, targets, seen, at]]

Nothing == [c \in CardId |-> null]

\* targets: the cards to write; seen: their terms when they were read, where
\* the write depends on them; at: when that was.
NoOp == [op |-> "idle", targets |-> {}, seen |-> Nothing, at |-> 0]

Operation == [op : AdminOp \cup {"idle"},
              targets : SUBSET CardId,
              seen : [CardId -> Optional(Terms)],
              at : Time]

InitAdmin == adm = [a \in Operator |-> NoOp]

Begin(a, op, targets, seen) ==
  /\ op \in AdminOps
  /\ adm[a].op = "idle"
  /\ adm' = [adm EXCEPT ![a] = [op |-> op, targets |-> targets,
                                seen |-> seen, at |-> clock]]
  /\ UNCHANGED storeVars

Done(a) == adm' = [adm EXCEPT ![a] = NoOp]

-----------------------------------------------------------------------------
(* The reads. mustGet of a card that is gone answers 404 and does nothing. *)

mustGet(a) ==
  \E c \in CardId, op \in {"ban", "unbind", "remove"} :
    /\ Exists(c)
    /\ Begin(a, op, {c}, Nothing)

\* unban is the one that looks at the row it gets.
UnbanRead(a) ==
  \E c \in CardId :
    /\ Exists(c)
    /\ Begin(a, "unban", {c}, [Nothing EXCEPT ![c] = TermsOf(cards[c])])

WithinBounds(row) ==
  /\ row.durationDays # null => row.durationDays <= MaxDays
  /\ row.expiresAt # null => row.expiresAt <= MaxExpiry

\* findMany: the ids given or the filters can single out any set of cards;
\* the rows to skip drop out.
ExtendRead(a) ==
  \E T \in SUBSET CardId :
    /\ T # {}
    /\ \A c \in T : /\ Exists(c)
                    /\ ~ExtensionSkips(cards[c])
                    /\ WithinBounds(cards[c])
    /\ Begin(a, "extend", T,
             [c \in CardId |-> IF c \in T THEN TermsOf(cards[c]) ELSE null])

-----------------------------------------------------------------------------
(* The writes. Between the read and the write lie an await and the instant *)
(* "now" is taken, anywhere from adm[a].at to the present. The update of a *)
(* row that is gone fails and the request ends in an error (AbortAdmin).   *)
(* Every operation but extend has exactly one target.                      *)

Writing(a, op) == adm[a].op = op

ban(a) ==
  /\ Writing(a, "ban")
  /\ \E c \in adm[a].targets :
       /\ Exists(c)
       /\ SetRow(c, [cards[c] EXCEPT !.status = "BANNED"])
  /\ Done(a)
  /\ UNCHANGED clock

\* Bug variant: activation is not looked at.
StatusAfterBan_AlwaysActive(row, now) ==
  IF isExpired(row, now) THEN "EXPIRED" ELSE "ACTIVE"

StatusAfterBan(row, now) ==
  IF ~row.activated THEN "UNUSED"
  ELSE IF isExpired(row, now) THEN "EXPIRED" ELSE "ACTIVE"

unban(a) ==
  /\ Writing(a, "unban")
  /\ \E c \in adm[a].targets, now \in adm[a].at .. clock :
       /\ Exists(c)
       /\ SetRow(c, [cards[c] EXCEPT
                       !.status = StatusAfterBan(adm[a].seen[c], now)])
  /\ Done(a)
  /\ UNCHANGED clock

unbind(a) ==
  /\ Writing(a, "unbind")
  /\ \E c \in adm[a].targets :
       /\ Exists(c)
       /\ SetRow(c, [cards[c] EXCEPT !.hwid = null])
  /\ Done(a)
  /\ UNCHANGED clock

remove(a) ==
  /\ Writing(a, "remove")
  /\ \E c \in adm[a].targets : Exists(c) /\ SetRow(c, null)
  /\ Done(a)
  /\ UNCHANGED clock

\* Bug variant: whatever the row has become, it runs again once extended.
ExtendedRow_Reactivates(row, seen, days, now) ==
  IF seen.activated
  THEN [row EXCEPT !.expiresAt = ExtensionExpiry(seen, days, now),
                   !.status = "ACTIVE"]
  ELSE [row EXCEPT !.durationDays = seen.durationDays + days]

\* The one column computeExtension sets, chosen by the row that was read and
\* written into the row that is there.
ExtendedRow(row, seen, days, now) ==
  IF seen.activated
  THEN [row EXCEPT !.expiresAt = ExtensionExpiry(seen, days, now)]
  ELSE [row EXCEPT !.durationDays = seen.durationDays + days]

\* One transaction: all the updates, or none when a row is gone.
extendCards(a) ==
  /\ Writing(a, "extend")
  /\ \A c \in adm[a].targets : Exists(c)
  /\ \E now \in adm[a].at .. clock, days \in ExtendDays :
       cards' = [c \in CardId |->
                   IF c \in adm[a].targets
                   THEN ExtendedRow(cards[c], adm[a].seen[c], days, now)
                   ELSE cards[c]]
  /\ Done(a)
  /\ UNCHANGED clock

\* A row is gone, the database fails or the process dies: nothing is written.
AbortAdmin(a) ==
  /\ adm[a].op # "idle"
  /\ Done(a)
  /\ UNCHANGED storeVars

AdminRead(a) == mustGet(a) \/ UnbanRead(a) \/ ExtendRead(a)

AdminWrite(a) ==
  ban(a) \/ unban(a) \/ unbind(a) \/ remove(a) \/ extendCards(a)

AdminStep(a) == AdminRead(a) \/ AdminWrite(a) \/ AbortAdmin(a)
=============================================================================
