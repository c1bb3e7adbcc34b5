------------------------------ MODULE CardSystem ------------------------------
(***************************************************************************)
(* The licence server: the client handlers (CardService) and the console's *)
(* operations (AdminService) interleaving on one table, while time passes. *)
(***************************************************************************)
EXTENDS CardService, AdminService

vars == <<cards, clock, req, adm>>

Init == InitStore /\ InitService /\ InitAdmin

TimePasses == Tick /\ UNCHANGED <<req, adm>>

ClientStep(r) == RequestStep(r) /\ UNCHANGED adm

ConsoleStep(a) == AdminStep(a) /\ UNCHANGED req

Next ==
  \/ TimePasses
  \/ \E r \in Request : ClientStep(r)
  \/ \E a \in Operator : ConsoleStep(a)

Spec == Init /\ [][Next]_vars

-----------------------------------------------------------------------------
(* Types.                                                                  *)

\* Presence and session marks are instants gone by.
StampsPast(row) ==
  /\ row.sessionSeenAt # null => row.sessionSeenAt <= clock
  /\ row.lastSeenAt # null => row.lastSeenAt <= clock

StoreOK ==
  /\ cards \in [CardId -> Optional(CardRow)]
  /\ clock \in Time
  /\ \A c \in CardId : Exists(c) => StampsPast(cards[c])

ServiceOK ==
  /\ req \in [Request -> Handler]
  /\ \A r \in Request :
       /\ req[r].at <= clock
       /\ req[r].pc # "idle" => req[r].call \in Calls
       /\ req[r].pc \notin {"idle", "find"} => req[r].d \in Decision

AdminOK ==
  /\ adm \in [Operator -> Operation]
  /\ \A a \in Operator : adm[a].at <= clock

\* The table, the handlers and the console operations have the types of the
\* code's records, and no stored instant but an expiry lies in the future.
TypeOK == StoreOK /\ ServiceOK /\ AdminOK

-----------------------------------------------------------------------------
(* Safety.                                                                 *)

ConsistentTerms(row) ==
  /\ row.status \in {"ACTIVE", "EXPIRED"} => row.activated
  /\ row.status = "EXPIRED" => row.expiresAt # null
  /\ row.activated => (row.expiresAt = null <=> row.durationDays = null)
  /\ ~row.activated => row.expiresAt = null

\* Status, activation, grant and expiry of every row agree whatever handlers
\* interleave: a running or expired licence was activated, an expired one
\* has an expiry, a permanent grant never gets one and a timed grant always
\* does (activation, mark-expired, unban and extension all write a part).
LicenceTermsConsistent ==
  \A c \in CardId : Exists(c) => ConsistentTerms(cards[c])

\* A pending activation writes an expiry that fits the card's grant.
PendingGrant(r) ==
  req[r].pc = "activate" /\ Row(r) # null =>
    (req[r].d.expiresAt = null <=> Row(r).durationDays = null)

\* Only a card with a finite grant is about to be marked EXPIRED.
PendingExpiry(r) ==
  req[r].pc \in {"markExpired", "expireAgain"} /\ Row(r) # null =>
    Row(r).durationDays # null

\* The terms an operation read still tell the card's kind of grant and do not
\* anticipate its activation; an extension has something finite to extend.
PendingTerms(a, c) ==
  LET seen == adm[a].seen[c]
  IN  /\ seen # null
      /\ seen.activated => (seen.expiresAt = null <=> seen.durationDays = null)
      /\ ~seen.activated => seen.expiresAt = null
      /\ adm[a].op = "extend" =>
           IF seen.activated THEN seen.expiresAt # null
           ELSE seen.durationDays # null
      /\ Exists(c) =>
           /\ seen.durationDays = null <=> cards[c].durationDays = null
           /\ seen.activated => cards[c].activated

\* What a handler or an operation decided on a row that may have changed
\* since still fits the card's grant when it is written.
PlansConsistent ==
  /\ \A r \in Request : PendingGrant(r) /\ PendingExpiry(r)
  /\ \A a \in Operator : \A c \in adm[a].targets :
       adm[a].op \in {"unban", "extend"} => PendingTerms(a, c)

Rows(c) == cards[c] # null /\ cards'[c] # null

BannedRowKept(r) ==
  req'[r] # req[r] =>
    \A c \in CardId :
      Exists(c) /\ cards[c].status \in {"BANNED", "EXPIRED"} =>
        cards'[c] = cards[c]

\* No client request ever writes a row that is BANNED or EXPIRED at that
\* moment, whatever it read before: a ban that overtakes a running handler
\* wins (every WHERE of CardService asks for the status it relies on).
BannedRowFrozen == [][\A r \in Request : BannedRowKept(r)]_vars

LiveSession(row) ==
  /\ row.sessionId # null
  /\ row.sessionSeenAt + SessionStale >= clock

SessionLost(c) ==
  Rows(c) /\ LiveSession(cards[c]) /\ cards'[c].sessionId # cards[c].sessionId

TakenOver(c, r) ==
  /\ req[r].pc = "claim" /\ req'[r].pc = "log"
  /\ req[r].call.card = c
  /\ Displacing(req[r].call)
  /\ req[r].call.hwid = cards[c].hwid

Handover(c) == SessionLost(c) => \E r \in Request : TakenOver(c, r)

\* A session that was refreshed within the stale window is displaced only by
\* a startup beat under the kick-old policy, made from the device the card is
\* bound to (the claim of applySession).
SessionHandover == [][\A c \in CardId : Handover(c)]_vars

DeviceKept(c) ==
  Rows(c) /\ cards[c].hwid # null => cards'[c].hwid \in {null, cards[c].hwid}

\* A device is replaced by another one only through the console's unbind:
\* no step takes the card from one hardware id straight to another.
DeviceNeverSwapped == [][\A c \in CardId : DeviceKept(c)]_vars

Extending(a, c) == adm[a].op = "extend" /\ c \in adm[a].targets

ClockKept(c) ==
  Rows(c) /\ cards[c].activated /\ cards'[c].expiresAt # cards[c].expiresAt
    => \E a \in Operator : Extending(a, c) /\ adm'[a].op = "idle"

\* Once a licence runs, its expiry is moved by the write of an extension only:
\* no race of activations restarts the clock.
TermKept == [][\A c \in CardId : ClockKept(c)]_vars

TimeKept(c) ==
  Rows(c) =>
    /\ cards[c].expiresAt # null =>
         /\ cards'[c].expiresAt # null
         /\ cards'[c].expiresAt >= cards[c].expiresAt
    /\ cards[c].durationDays # null =>
         /\ cards'[c].durationDays # null
         /\ cards'[c].durationDays >= cards[c].durationDays

\* No step takes licensed time away: the expiry of an activated card and the
\* grant of a card never decrease. The console's extension promises as much: it
\* "Adds time regardless of whether the card is activated" (card-logic.ts:187).
TimeNeverShrinks == [][\A c \in CardId : TimeKept(c)]_vars

\* A card marked EXPIRED has outlived its expiry (card-logic.ts:57, "an
\* ACTIVE card crossed its expiry").
ExpiredMeansLapsed ==
  \A c \in CardId :
    Exists(c) /\ cards[c].status = "EXPIRED" => isExpired(cards[c], clock)

-----------------------------------------------------------------------------
(* The life of every card, as its row tells it.                            *)

LifeOf(row) ==
  IF row = null
  THEN [status |-> "DELETED", kind |-> "none", activated |-> FALSE,
        holder |-> null, end |-> null]
  ELSE [status |-> row.status,
        kind |-> IF row.durationDays = null THEN "permanent" ELSE "timed",
        activated |-> row.activated, holder |-> row.hwid, end |-> row.expiresAt]

Lifecycle == INSTANCE CardLifecycle WITH life <- [c \in CardId |-> LifeOf(cards[c])]

\* However the handlers of its requests interleave with a console that does not
\* unban, every card goes through a life of CardLifecycle: it is activated once,
\* BANNED and EXPIRED are left for no earlier status, no device is swapped for
\* another, and only an extension moves the end of a licence.
LivesALife == Lifecycle!LifeSpec
=============================================================================
