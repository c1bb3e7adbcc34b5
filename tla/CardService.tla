----------------------------- MODULE CardService -----------------------------
(***************************************************************************)
(* The handlers of POST /client/activate and /client/verify, CardService   *)
(* .run and .applySession in card/card.service.ts. A handler is a sequence *)
(* of awaited statements; between two of them any other handler may run.   *)
(* Each action below is one statement and the code up to the next await.   *)
(***************************************************************************)
EXTENDS CardStore

CONSTANTS
  Request,     \* the client requests the server handles at the same time
  Calls        \* the calls clients make

\* A call: the envelope's fields, and the policy the server handles it under,
\* which verify reads from its configuration call by call. An activation has
\* neither session nor policy.
Call == [action : {"ACTIVATE", "VERIFY"},
         card : CardId,
         hwid : Hwid,
         session : Optional(SessionId),
         takeover : BOOLEAN,
         policy : Optional(Policy)]

ASSUME ServiceAssumption ==
  /\ Calls \subseteq Call
  /\ null \notin Call \cup Decision
  /\ \A call \in Calls :
       IF call.action = "ACTIVATE"
       THEN call.session = null /\ call.policy = null /\ ~call.takeover
       ELSE call.policy # null

\* Where a handler is: "idle" (none running), or the statement it sends next.
\* "logUnknown" writes the VerifyLog row of a code that was not found, with
\* no cardId; "log" the row of a card that was.
Pc == {"idle", "find", "activate", "reread", "markExpired", "rebind", "claim",
       "recheck", "expireAgain", "touch", "log", "logUnknown"}

VARIABLE
  req          \* [Request -> [pc, call, at, d]]: at is "now", d the decision

Idle == [pc |-> "idle", call |-> null, at |-> 0, d |-> null]

Handler == [pc : Pc, call : Optional(Call), at : Time, d : Optional(Decision)]

InitService == req = [r \in Request |-> Idle]

\* The row the handler works on, and the verdict on it.
Row(r) == cards[req[r].call.card]

decide(call, row, at) ==
  IF call.action = "ACTIVATE" THEN decideActivate(row, call.hwid, at)
  ELSE decideVerify(row, call.hwid, call.session, at)

NotFound == Verdict("NOT_FOUND", "none")

\* The statement that follows a decision: the write it implies, or the log.
\* A decision has at most one effect, so the writes it skips are no steps.
StepFor(d) ==
  CASE d.effect = "activate"    -> "activate"
    [] d.effect = "markExpired" -> "markExpired"
    [] d.effect = "rebind"      -> "rebind"
    [] d.effect = "session"     -> "claim"
    [] d.effect = "heartbeat"   -> "touch"
    [] OTHER                    -> "log"

Goto(r, pc) == req' = [req EXCEPT ![r].pc = pc]

\* The log and the reply need the result alone: what else a handler holds is
\* dropped when only they are left.
Finish(r, result, pc) ==
  req' = [req EXCEPT ![r].pc = pc, ![r].at = 0, ![r].d = Verdict(result, "none")]

Conclude(r, d, pc) ==
  IF pc = "log" THEN Finish(r, d.result, pc)
  ELSE req' = [req EXCEPT ![r].d = d, ![r].pc = pc]

-----------------------------------------------------------------------------
(* The WHERE clauses and the data of the updates.                          *)

\* Bug variant: the activation does not ask for an UNUSED row.
ActivateWhere_Any(row) == row # null

ActivateWhere(row) == row # null /\ row.status = "UNUSED"

ActivatedRow(row, h) ==
  [row EXCEPT !.status = "ACTIVE", !.hwid = h.call.hwid, !.activated = TRUE,
              !.expiresAt = h.d.expiresAt]

\* Bug variant: any row is marked, a BANNED one included.
ActiveRow_Any(row) == row # null

ActiveRow(row) == row # null /\ row.status = "ACTIVE"

RebindWhere(row) == ActiveRow(row) /\ row.hwid = null

\* Bug variant: the next machine gets the full grant again.
ReboundRow_RestartsClock(row, h) ==
  [row EXCEPT !.hwid = h.call.hwid,
              !.expiresAt = computeExpiry(h.at, row.durationDays)]

ReboundRow(row, h) == [row EXCEPT !.hwid = h.call.hwid]

BoundRow(row, h) == ActiveRow(row) /\ row.hwid = h.call.hwid

\* Bug variant: the presence mark is the licence's expiry.
TouchedRow_StampsExpiry(row, h) == [row EXCEPT !.lastSeenAt = row.expiresAt]

TouchedRow(row, h) == [row EXCEPT !.lastSeenAt = h.at]

StaleSession(row, at) ==
  row.sessionSeenAt # null /\ row.sessionSeenAt + SessionStale < at

\* A startup beat under the policy that lets it take a live session.
Displacing(call) == call.takeover /\ call.policy = "kick-old"

\* Bug variant: the session the process already holds is not let through.
ClaimWhere_NotOwn(row, h) ==
  /\ BoundRow(row, h)
  /\ Displacing(h.call) \/ row.sessionId = null \/ StaleSession(row, h.at)

\* Bug variant: a session is never stale.
ClaimWhere_NeverStale(row, h) ==
  /\ BoundRow(row, h)
  /\ \/ Displacing(h.call)
     \/ row.sessionId \in {null, h.call.session}

\* Bug variant: a startup beat steals the session whatever the policy.
ClaimWhere_AnyTakeover(row, h) ==
  /\ BoundRow(row, h)
  /\ \/ h.call.takeover
     \/ row.sessionId \in {null, h.call.session}
     \/ StaleSession(row, h.at)

ClaimWhere(row, h) ==
  /\ BoundRow(row, h)
  /\ \/ Displacing(h.call)
     \/ row.sessionId \in {null, h.call.session}
     \/ StaleSession(row, h.at)

\* Bug variant: the mark tells when the session was claimed, not its last beat.
ClaimedRow_FirstBeat(row, h) ==
  [row EXCEPT !.sessionId = h.call.session, !.lastSeenAt = h.at,
              !.sessionSeenAt = IF row.sessionId = h.call.session THEN @ ELSE h.at]

ClaimedRow(row, h) ==
  [row EXCEPT !.sessionId = h.call.session, !.sessionSeenAt = h.at,
              !.lastSeenAt = h.at]

-----------------------------------------------------------------------------
(* The statements.                                                         *)

\* A request arrives; "now" is read before the first await.
Arrive(r, call) ==
  /\ req[r].pc = "idle"
  /\ req' = [req EXCEPT ![r] =
               [pc |-> "find", call |-> call, at |-> clock, d |-> null]]
  /\ UNCHANGED storeVars

Start(r) == \E call \in Calls : Arrive(r, call)

FindUnknown(r) ==
  /\ req[r].pc = "find"
  /\ Row(r) = null
  /\ Finish(r, "NOT_FOUND", "logUnknown")
  /\ UNCHANGED storeVars

Find(r) ==
  /\ req[r].pc = "find"
  /\ Row(r) # null
  /\ LET d == decide(req[r].call, Row(r), req[r].at)
     IN  Conclude(r, d, StepFor(d))
  /\ UNCHANGED storeVars

Activate(r) ==
  /\ req[r].pc = "activate"
  /\ ActivateWhere(Row(r))
  /\ SetRow(req[r].call.card, ActivatedRow(Row(r), req[r]))
  /\ Finish(r, req[r].d.result, "log")
  /\ UNCHANGED clock

\* Bug variant: the count is not looked at, so the loser is told OK.
LoseActivation_Unnoticed(r) ==
  /\ req[r].pc = "activate"
  /\ ~ActivateWhere(Row(r))
  /\ Finish(r, req[r].d.result, "log")
  /\ UNCHANGED storeVars

LoseActivation(r) ==
  /\ req[r].pc = "activate"
  /\ ~ActivateWhere(Row(r))
  /\ Goto(r, "reread")
  /\ UNCHANGED storeVars

RereadUnknown(r) ==
  /\ req[r].pc = "reread"
  /\ Row(r) = null
  /\ Finish(r, "NOT_FOUND", "logUnknown")
  /\ UNCHANGED storeVars

\* The second decision is applied like the first, except that an activation
\* it asks for is not attempted: the "if (decision.activate)" is behind.
AfterReread(d) == IF d.effect = "activate" THEN "log" ELSE StepFor(d)

Reread(r) ==
  /\ req[r].pc = "reread"
  /\ Row(r) # null
  /\ LET d == decide(req[r].call, Row(r), req[r].at)
     IN  Conclude(r, d, AfterReread(d))
  /\ UNCHANGED storeVars

\* The three updates whose count nobody looks at: hit or miss, the handler
\* goes on to the log with the verdict it has.
MarkExpired(r) ==
  /\ req[r].pc \in {"markExpired", "expireAgain"}
  /\ IF ActiveRow(Row(r))
     THEN SetRow(req[r].call.card, [Row(r) EXCEPT !.status = "EXPIRED"])
     ELSE UNCHANGED cards
  /\ Finish(r, req[r].d.result, "log")
  /\ UNCHANGED clock

Rebind(r) ==
  /\ req[r].pc = "rebind"
  /\ IF RebindWhere(Row(r))
     THEN SetRow(req[r].call.card, ReboundRow(Row(r), req[r]))
     ELSE UNCHANGED cards
  /\ Finish(r, req[r].d.result, "log")
  /\ UNCHANGED clock

Touch(r) ==
  /\ req[r].pc = "touch"
  /\ IF BoundRow(Row(r), req[r])
     THEN SetRow(req[r].call.card, TouchedRow(Row(r), req[r]))
     ELSE UNCHANGED cards
  /\ Finish(r, req[r].d.result, "log")
  /\ UNCHANGED clock

Claim(r) ==
  /\ req[r].pc = "claim"
  /\ ClaimWhere(Row(r), req[r])
  /\ SetRow(req[r].call.card, ClaimedRow(Row(r), req[r]))
  /\ Finish(r, req[r].d.result, "log")
  /\ UNCHANGED clock

\* Bug variant: the count is not looked at, so the process that does not hold
\* the session is told OK.
MissClaim_Unnoticed(r) ==
  /\ req[r].pc = "claim"
  /\ ~ClaimWhere(Row(r), req[r])
  /\ Finish(r, req[r].d.result, "log")
  /\ UNCHANGED storeVars

MissClaim(r) ==
  /\ req[r].pc = "claim"
  /\ ~ClaimWhere(Row(r), req[r])
  /\ Goto(r, "recheck")
  /\ UNCHANGED storeVars

\* What applySession makes of a claim that missed.
MissVerdict(row, h) ==
  IF row = null THEN NotFound
  ELSE LET base == decideVerify(row, h.call.hwid, null, h.at)
       IN  IF base.result = "OK"
           THEN Verdict("CONCURRENT_SESSION", "none")
           ELSE base

Recheck(r) ==
  /\ req[r].pc = "recheck"
  /\ LET d == MissVerdict(Row(r), req[r])
     IN  Conclude(r, d, IF d.effect = "markExpired" THEN "expireAgain" ELSE "log")
  /\ UNCHANGED storeVars

\* The reply, after the log row is written. The log of a card that is gone
\* breaks the foreign key of VerifyLog.cardId: that request ends in an error
\* (LogFails) and no verdict is answered.
Reply(r) ==
  /\ \/ req[r].pc = "logUnknown"
     \/ req[r].pc = "log" /\ Row(r) # null
  /\ req' = [req EXCEPT ![r] = Idle]
  /\ UNCHANGED storeVars

LogFails(r) ==
  /\ req[r].pc = "log"
  /\ Row(r) = null
  /\ req' = [req EXCEPT ![r] = Idle]
  /\ UNCHANGED storeVars

\* The process dies, or a statement fails, between two statements: what was
\* written stays, the handler is gone, the client gets no verdict. A restart
\* of the server is this step for every handler.
Abort(r) ==
  /\ req[r].pc # "idle"
  /\ req' = [req EXCEPT ![r] = Idle]
  /\ UNCHANGED storeVars

\* The statements on the table, up to the verdict.
Statement(r) ==
  \/ FindUnknown(r) \/ Find(r)
  \/ Activate(r) \/ LoseActivation(r) \/ RereadUnknown(r) \/ Reread(r)
  \/ MarkExpired(r) \/ Rebind(r) \/ Touch(r)
  \/ Claim(r) \/ MissClaim(r) \/ Recheck(r)

HandlerStep(r) == Statement(r) \/ Reply(r) \/ LogFails(r)

RequestStep(r) == Start(r) \/ HandlerStep(r) \/ Abort(r)
=============================================================================
