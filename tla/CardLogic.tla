------------------------------ MODULE CardLogic ------------------------------
(***************************************************************************)
(* The pure rules of the licence server, card/card-logic.ts: what a row of *)
(* the CardKey table means, and what the two client endpoints and the      *)
(* bulk extension decide from one row and one instant.                     *)
(***************************************************************************)
EXTENDS Integers

CONSTANTS
  Hwid,           \* hardware ids a client may send
  SessionId,      \* session tokens a client process may send
  null,           \* an absent value, and the absence of a row
  Day,            \* clock units in one day
  SessionStale    \* sessionStaleMs: clock units after which a session is stale

ASSUME LogicAssumption ==
  /\ null \notin Hwid \cup SessionId \cup Nat
  /\ Day \in Nat \ {0}
  /\ SessionStale \in Nat \ {0}

\* What a startup beat does to a live session of another process.
Policy == {"kick-old", "block-new"}

Status == {"UNUSED", "ACTIVE", "EXPIRED", "BANNED"}

Time == Nat

Optional(S) == S \cup {null}

\* A row of CardKey. The code never reads the value of activatedAt, only
\* whether it is set: "activated" stands for activatedAt # null.
CardRow == [status : Status,
            hwid : Optional(Hwid),
            durationDays : Optional(Nat),
            activated : BOOLEAN,
            expiresAt : Optional(Time),
            sessionId : Optional(SessionId),
            sessionSeenAt : Optional(Time),
            lastSeenAt : Optional(Time)]

ResultCode == {"OK", "NOT_FOUND", "BANNED", "EXPIRED", "HWID_MISMATCH",
               "NOT_ACTIVATED", "CONCURRENT_SESSION"}

Effect == {"none", "activate", "markExpired", "rebind", "session", "heartbeat"}

\* A decision carries at most one write to attempt ("session" stands for a
\* heartbeat with a session intent, which takes precedence over the plain
\* one), and "valid" is always result = "OK". expiresAt is the expiry an
\* activation writes; the expiry reported to the client is left out.
Decision == [result : ResultCode, effect : Effect, expiresAt : Optional(Time)]

Verdict(result, effect) ==
  [result |-> result, effect |-> effect, expiresAt |-> null]

\* Bug variant: every activation grants a licence for ever.
Granted_ForEver(expiresAt) ==
  [result |-> "OK", effect |-> "activate", expiresAt |-> null]

\* The activation of an UNUSED card.
Granted(expiresAt) ==
  [result |-> "OK", effect |-> "activate", expiresAt |-> expiresAt]

-----------------------------------------------------------------------------

computeExpiry(now, durationDays) ==
  IF durationDays = null THEN null ELSE now + durationDays * Day

\* Bug variant of isExpired: the boundary instant still counts as licensed.
isExpired_Late(card, now) == card.expiresAt # null /\ card.expiresAt < now

isExpired(card, now) == card.expiresAt # null /\ card.expiresAt <= now

decideActivate(card, hwid, now) ==
  CASE card.status = "BANNED"  -> Verdict("BANNED", "none")
    [] card.status = "UNUSED"  -> Granted(computeExpiry(now, card.durationDays))
    [] card.status = "EXPIRED" -> Verdict("EXPIRED", "none")
    [] card.status = "ACTIVE"  ->
         IF isExpired(card, now)
         THEN Verdict("EXPIRED", "markExpired")
         ELSE IF card.hwid = null
         THEN Verdict("OK", "rebind")
         ELSE IF card.hwid # hwid
         THEN Verdict("HWID_MISMATCH", "none")
         ELSE Verdict("OK", "none")

decideVerify(card, hwid, session, now) ==
  CASE card.status = "BANNED"  -> Verdict("BANNED", "none")
    [] card.status = "UNUSED"  -> Verdict("NOT_ACTIVATED", "none")
    [] card.status = "EXPIRED" -> Verdict("EXPIRED", "none")
    [] card.status = "ACTIVE"  ->
         IF isExpired(card, now)
         THEN Verdict("EXPIRED", "markExpired")
         ELSE IF card.hwid # hwid
         THEN Verdict("HWID_MISMATCH", "none")
         ELSE Verdict("OK", IF session = null THEN "heartbeat" ELSE "session")

\* computeExtension, split into "skip" and the row's new terms.
ExtensionSkips(card) ==
  \/ card.status \in {"BANNED", "EXPIRED"}
  \/ card.activated /\ card.expiresAt = null
  \/ ~card.activated /\ card.durationDays = null

Later(s, t) == IF s > t THEN s ELSE t

\* Bug variant: the days are always counted from now, which shortens a
\* licence that still has more than "days" left.
ExtensionExpiry_FromNow(card, days, now) == now + days * Day

ExtensionExpiry(card, days, now) == Later(card.expiresAt, now) + days * Day
=============================================================================
