--------------------------- MODULE CardSystem_proofs ---------------------------
(***************************************************************************)
(* Invariants and action properties of CardSystem, for any cards, devices, *)
(* sessions, requests, operators and bounds.                               *)
(***************************************************************************)
EXTENDS CardSystem, TLAPS

-----------------------------------------------------------------------------
(* Facts about the pure rules of CardLogic, and the statements they lead to. *)

\* An instant and a number of days make an instant.
LEMMA ExpiryType ==
  ASSUME NEW now \in Time, NEW days \in Optional(Nat)
  PROVE  /\ computeExpiry(now, days) \in Optional(Time)
         /\ computeExpiry(now, days) = null <=> days = null
<1>1. CASE days = null
  BY <1>1 DEF computeExpiry, Optional
<1>2. CASE days # null
  <2>1. days \in Nat /\ Day \in Nat
    BY <1>2, LogicAssumption DEF Optional
  <2>2. days * Day \in Nat
    BY <2>1
  <2>3. now + days * Day \in Nat
    BY <2>2 DEF Time
  <2>4. now + days * Day # null
    BY <2>3, LogicAssumption
  <2> QED
    BY <1>2, <2>3, <2>4 DEF computeExpiry, Optional, Time
<1> QED
  BY <1>1, <1>2

\* decideActivate yields a decision; it activates UNUSED cards only, with the
\* expiry of their grant, and marks only ACTIVE cards that have an expiry.
LEMMA ActivateDecides ==
  ASSUME NEW row \in CardRow, NEW hwid \in Hwid, NEW now \in Time
  PROVE  LET d == decideActivate(row, hwid, now)
         IN  /\ d \in Decision
             /\ d.effect = "activate" =>
                  /\ row.status = "UNUSED"
                  /\ d.expiresAt = null <=> row.durationDays = null
             /\ d.effect = "markExpired" =>
                  row.status = "ACTIVE" /\ row.expiresAt # null
             /\ d.effect \notin {"session", "heartbeat"}
             /\ d.result # "CONCURRENT_SESSION"
<1> DEFINE d == decideActivate(row, hwid, now)
<1>1. row.durationDays \in Optional(Nat)
  BY DEF CardRow
<1>2. CASE row.status = "UNUSED"
  <2>1. d = Granted(computeExpiry(now, row.durationDays))
    BY <1>2 DEF decideActivate
  <2> QED
    BY <1>1, <1>2, <2>1, ExpiryType DEF Granted, Decision, ResultCode, Effect
<1>3. CASE row.status \in {"BANNED", "EXPIRED"}
  BY <1>3 DEF decideActivate, Verdict, Decision, ResultCode, Effect, Optional
<1>4. CASE row.status = "ACTIVE"
  BY <1>4 DEF decideActivate, Verdict, Decision, ResultCode, Effect, Optional,
    isExpired
<1> QED
  BY <1>2, <1>3, <1>4 DEF CardRow, Status

\* decideVerify yields a decision; it never activates, marks only ACTIVE cards
\* that have an expiry, and attaches a session exactly when one was sent.
LEMMA VerifyDecides ==
  ASSUME NEW row \in CardRow, NEW hwid \in Hwid, NEW session, NEW now \in Time
  PROVE  LET d == decideVerify(row, hwid, session, now)
         IN  /\ d \in Decision
             /\ d.effect \notin {"activate", "rebind"}
             /\ d.effect = "markExpired" =>
                  row.status = "ACTIVE" /\ row.expiresAt # null
             /\ d.effect = "session" => session # null
             /\ d.result # "CONCURRENT_SESSION"
<1>3. CASE row.status \in {"BANNED", "EXPIRED", "UNUSED"}
  BY <1>3 DEF decideVerify, Verdict, Decision, ResultCode, Effect, Optional
<1>4. CASE row.status = "ACTIVE"
  BY <1>4 DEF decideVerify, Verdict, Decision, ResultCode, Effect, Optional,
    isExpired
<1> QED
  BY <1>3, <1>4 DEF CardRow, Status

\* The decision of either endpoint.
LEMMA Decides ==
  ASSUME NEW row \in CardRow, NEW call \in Calls, NEW now \in Time
  PROVE  LET d == decide(call, row, now)
         IN  /\ d \in Decision
             /\ d.effect = "activate" =>
                  /\ row.status = "UNUSED"
                  /\ d.expiresAt = null <=> row.durationDays = null
             /\ d.effect = "markExpired" =>
                  row.status = "ACTIVE" /\ row.expiresAt # null
             /\ d.effect = "session" => call.session # null
             /\ d.result # "CONCURRENT_SESSION"
<1>1. call.hwid \in Hwid
  BY ServiceAssumption DEF Call
<1> QED
  BY <1>1, ActivateDecides, VerifyDecides DEF decide

\* The statement that follows a decision is one of the handler's.
LEMMA StepType ==
  ASSUME NEW d \in Decision
  PROVE  /\ StepFor(d) \in Pc \ {"idle", "find", "expireAgain"}
         /\ StepFor(d) = "activate" <=> d.effect = "activate"
         /\ StepFor(d) = "markExpired" <=> d.effect = "markExpired"
         /\ StepFor(d) = "claim" <=> d.effect = "session"
  BY DEF StepFor, Pc, Decision, Effect

\* An extension adds to the later of the expiry and the present.
LEMMA ExtensionType ==
  ASSUME NEW seen, seen.expiresAt \in Time, NEW days \in Nat, NEW now \in Time
  PROVE  /\ ExtensionExpiry(seen, days, now) \in Time
         /\ ExtensionExpiry(seen, days, now) >= seen.expiresAt
<1>1. Day \in Nat
  BY LogicAssumption
<1>2. days * Day \in Nat
  BY <1>1
<1> QED
  BY <1>2 DEF ExtensionExpiry, Later, Time

-----------------------------------------------------------------------------
(* Type correctness.                                                       *)

\* A statement that writes one row keeps the table typed.
LEMMA SetRowType ==
  ASSUME StoreOK, NEW c \in CardId, NEW row \in Optional(CardRow),
         row # null => StampsPast(row),
         SetRow(c, row), UNCHANGED clock
  PROVE  StoreOK'
BY StoreAssumption DEF StoreOK, SetRow, StampsPast, Exists, Optional

\* A handler that moves on keeps the handlers typed.
LEMMA HandlerType ==
  ASSUME ServiceOK, StoreOK, NEW r \in Request, NEW h \in Handler,
         h.at <= clock,
         h.pc # "idle" => h.call \in Calls,
         h.pc \notin {"idle", "find"} => h.d \in Decision,
         req' = [req EXCEPT ![r] = h],
         UNCHANGED clock
  PROVE  ServiceOK'
BY DEF ServiceOK

LEMMA IdleType == Idle \in Handler
BY DEF Idle, Handler, Pc, Optional, Time

LEMMA VerdictType ==
  ASSUME NEW result \in ResultCode
  PROVE  Verdict(result, "none") \in Decision
BY DEF Verdict, Decision, Effect, Optional

LEMMA FinishType ==
  ASSUME ServiceOK, StoreOK, NEW r \in Request, NEW result \in ResultCode,
         req[r].pc # "idle",
         NEW pc \in {"log", "logUnknown"}, Finish(r, result, pc),
         UNCHANGED clock
  PROVE  ServiceOK'
<1> DEFINE d == Verdict(result, "none")
           h == [req[r] EXCEPT !.pc = pc, !.at = 0, !.d = d]
<1>1. d \in Decision
  BY VerdictType
<1>2. req[r] \in Handler /\ req[r].call \in Calls /\ clock \in Nat
  BY DEF ServiceOK, StoreOK, Time
<1>3. req' = [req EXCEPT ![r] = h]
  BY DEF Finish, ServiceOK, Handler
<1> HIDE DEF d
<1>4. pc \in Pc
  BY DEF Pc
<1>5. h \in Handler
  BY <1>1, <1>2, <1>4 DEF Handler, Optional, Time
<1>6. h.call \in Calls /\ h.d \in Decision /\ h.at <= clock
  BY <1>1, <1>2 DEF Handler
<1> HIDE DEF h
<1> QED
  BY <1>3, <1>5, <1>6, HandlerType

LEMMA GotoType ==
  ASSUME ServiceOK, StoreOK, NEW r \in Request, NEW pc \in Pc \ {"idle"},
         req[r].pc \notin {"idle", "find"}, Goto(r, pc), UNCHANGED clock
  PROVE  ServiceOK'
<1> DEFINE h == [req[r] EXCEPT !.pc = pc]
<1>1. req' = [req EXCEPT ![r] = h]
  BY DEF Goto, ServiceOK, Handler
<1>2. h \in Handler /\ h.call \in Calls /\ h.d \in Decision /\ h.at <= clock
  BY DEF ServiceOK, StoreOK, Handler
<1> QED
  BY <1>1, <1>2, HandlerType

LEMMA ConcludeType ==
  ASSUME ServiceOK, StoreOK, NEW r \in Request, NEW d \in Decision,
         NEW pc \in Pc \ {"idle"},
         req[r].pc # "idle", Conclude(r, d, pc), UNCHANGED clock
  PROVE  ServiceOK'
<1>1. CASE pc = "log"
  BY <1>1, FinishType DEF Conclude, Decision
<1>2. CASE pc # "log"
  <2> DEFINE h == [req[r] EXCEPT !.d = d, !.pc = pc]
  <2>1. req' = [req EXCEPT ![r] = h]
    BY <1>2 DEF Conclude, ServiceOK, Handler
  <2>2. h \in Handler /\ h.call \in Calls /\ h.d \in Decision /\ h.at <= clock
    BY DEF ServiceOK, StoreOK, Handler, Optional
  <2> QED
    BY <2>1, <2>2, HandlerType
<1> QED
  BY <1>1, <1>2

\* The row a running handler works on.
LEMMA RowType ==
  ASSUME StoreOK, ServiceOK, NEW r \in Request, req[r].pc # "idle"
  PROVE  /\ req[r].call \in Calls
         /\ req[r].call.card \in CardId
         /\ req[r].call.hwid \in Hwid
         /\ req[r].call.session \in Optional(SessionId)
         /\ req[r].at \in Time
         /\ req[r].at <= clock
         /\ Row(r) # null => Row(r) \in CardRow /\ StampsPast(Row(r))
<1>1. req[r].call \in Calls
  BY DEF ServiceOK
<1>2. req[r].call \in Call
  BY <1>1, ServiceAssumption
<1> QED
  BY <1>1, <1>2 DEF ServiceOK, StoreOK, Handler, Call, Row, Exists, Optional

\* Every statement of a handler keeps the types.
LEMMA ClientTypes ==
  ASSUME TypeOK, NEW r \in Request, RequestStep(r)
  PROVE  StoreOK' /\ ServiceOK'
<1> USE DEF TypeOK
<1> DEFINE c == req[r].call.card
<1>0. req[r].at \in Time /\ clock \in Time
  BY DEF ServiceOK, StoreOK, Handler
<1>1. CASE Start(r)
  <2>1. PICK call \in Calls : req' = [req EXCEPT ![r] =
                 [pc |-> "find", call |-> call, at |-> clock, d |-> null]]
    BY <1>1 DEF Start, Arrive
  <2> DEFINE h == [pc |-> "find", call |-> call, at |-> clock, d |-> null]
  <2>2. /\ h \in Handler
        /\ h.at <= clock /\ h.call \in Calls /\ h.pc = "find"
    BY <1>0, ServiceAssumption DEF Handler, Pc, Optional, Time
  <2> HIDE DEF h
  <2>3. ServiceOK'
    BY <1>1, <2>1, <2>2, HandlerType DEF Start, Arrive, storeVars, h
  <2> QED
    BY <1>1, <2>3 DEF Start, Arrive, storeVars, StoreOK, StampsPast, Exists
<1>2. CASE FindUnknown(r) \/ RereadUnknown(r)
  <2>1. ServiceOK'
    BY <1>2, FinishType DEF FindUnknown, RereadUnknown, storeVars, ResultCode
  <2> QED
    BY <1>2, <2>1 DEF FindUnknown, RereadUnknown, storeVars, StoreOK, StampsPast, Exists
<1>3. CASE Find(r) \/ Reread(r)
  <2> DEFINE d == decide(req[r].call, Row(r), req[r].at)
  <2>1. Row(r) \in CardRow /\ req[r].call \in Calls /\ req[r].pc # "idle"
    BY <1>3, RowType DEF Find, Reread
  <2>2. d \in Decision
    BY <2>1, <1>0, Decides
  <2>3. StepFor(d) \in Pc \ {"idle"} /\ AfterReread(d) \in Pc \ {"idle"}
    BY <2>2, StepType DEF AfterReread, Pc
  <2>4. ServiceOK'
    BY <1>3, <2>1, <2>2, <2>3, ConcludeType DEF Find, Reread, storeVars
  <2> QED
    BY <1>3, <2>4 DEF Find, Reread, storeVars, StoreOK, StampsPast, Exists
<1>4. CASE Activate(r)
  <2>1. Row(r) \in CardRow /\ StampsPast(Row(r)) /\ c \in CardId
        /\ req[r].call.hwid \in Hwid
    BY <1>4, RowType DEF Activate, ActivateWhere
  <2>2. req[r].d \in Decision
    BY <1>4 DEF Activate, ServiceOK
  <2>3. ActivatedRow(Row(r), req[r]) \in CardRow
    BY <2>1, <2>2 DEF ActivatedRow, CardRow, Decision, Status, Optional
  <2>4. StampsPast(ActivatedRow(Row(r), req[r]))
    BY <2>1 DEF ActivatedRow, StampsPast, CardRow
  <2>5. StoreOK'
    BY <1>4, <2>1, <2>3, <2>4, SetRowType DEF Activate, Optional
  <2> QED
    BY <1>4, <2>2, <2>5, FinishType DEF Activate, Decision
<1>5. CASE LoseActivation(r) \/ MissClaim(r)
  <2>1. ServiceOK'
    BY <1>5, GotoType DEF LoseActivation, MissClaim, storeVars, Pc
  <2> QED
    BY <1>5, <2>1 DEF LoseActivation, MissClaim, storeVars, StoreOK, StampsPast, Exists
<1>6. CASE MarkExpired(r)
  <2>1. req[r].d \in Decision
    BY <1>6 DEF MarkExpired, ServiceOK
  <2>2. ServiceOK'
    BY <1>6, <2>1, FinishType DEF MarkExpired, Decision
  <2>3. CASE ActiveRow(Row(r))
    <3>1. Row(r) \in CardRow /\ StampsPast(Row(r)) /\ c \in CardId
      BY <1>6, <2>3, RowType DEF MarkExpired, ActiveRow
    <3>2. [Row(r) EXCEPT !.status = "EXPIRED"] \in CardRow
      BY <3>1 DEF CardRow, Status
    <3>3. StampsPast([Row(r) EXCEPT !.status = "EXPIRED"])
      BY <3>1 DEF StampsPast, CardRow
    <3> QED
      BY <1>6, <2>2, <2>3, <3>1, <3>2, <3>3, SetRowType DEF MarkExpired, Optional
  <2>4. CASE ~ActiveRow(Row(r))
    BY <1>6, <2>2, <2>4 DEF MarkExpired, StoreOK, StampsPast, Exists
  <2> QED
    BY <2>3, <2>4
<1>7. CASE Rebind(r)
  <2>1. req[r].d \in Decision
    BY <1>7 DEF Rebind, ServiceOK
  <2>2. ServiceOK'
    BY <1>7, <2>1, FinishType DEF Rebind, Decision
  <2>3. CASE RebindWhere(Row(r))
    <3>1. Row(r) \in CardRow /\ StampsPast(Row(r)) /\ c \in CardId
          /\ req[r].call.hwid \in Hwid
      BY <1>7, <2>3, RowType DEF Rebind, RebindWhere, ActiveRow
    <3>2. ReboundRow(Row(r), req[r]) \in CardRow
      BY <3>1 DEF ReboundRow, CardRow, Optional
    <3>3. StampsPast(ReboundRow(Row(r), req[r]))
      BY <3>1 DEF StampsPast, CardRow, ReboundRow
    <3> QED
      BY <1>7, <2>2, <2>3, <3>1, <3>2, <3>3, SetRowType DEF Rebind, Optional
  <2>4. CASE ~RebindWhere(Row(r))
    BY <1>7, <2>2, <2>4 DEF Rebind, StoreOK, StampsPast, Exists
  <2> QED
    BY <2>3, <2>4
<1>8. CASE Touch(r)
  <2>1. req[r].d \in Decision
    BY <1>8 DEF Touch, ServiceOK
  <2>2. ServiceOK'
    BY <1>8, <2>1, FinishType DEF Touch, Decision
  <2>3. CASE BoundRow(Row(r), req[r])
    <3>1. Row(r) \in CardRow /\ StampsPast(Row(r)) /\ c \in CardId
          /\ req[r].at \in Time /\ req[r].at <= clock
      BY <1>8, <2>3, RowType DEF Touch, BoundRow, ActiveRow
    <3>2. TouchedRow(Row(r), req[r]) \in CardRow
      BY <3>1 DEF TouchedRow, CardRow, Optional
    <3>3. StampsPast(TouchedRow(Row(r), req[r]))
      BY <3>1 DEF StampsPast, CardRow, TouchedRow
    <3> QED
      BY <1>8, <2>2, <2>3, <3>1, <3>2, <3>3, SetRowType DEF Touch, Optional
  <2>4. CASE ~BoundRow(Row(r), req[r])
    BY <1>8, <2>2, <2>4 DEF Touch, StoreOK, StampsPast, Exists
  <2> QED
    BY <2>3, <2>4
<1>9. CASE Claim(r)
  <2>1. req[r].d \in Decision
    BY <1>9 DEF Claim, ServiceOK
  <2>2. ServiceOK'
    BY <1>9, <2>1, FinishType DEF Claim, Decision
  <2>3. Row(r) \in CardRow /\ StampsPast(Row(r)) /\ c \in CardId
        /\ req[r].at \in Time /\ req[r].at <= clock
        /\ req[r].call.session \in Optional(SessionId)
    BY <1>9, RowType DEF Claim, ClaimWhere, BoundRow, ActiveRow
  <2>4. ClaimedRow(Row(r), req[r]) \in CardRow
    BY <2>3 DEF ClaimedRow, CardRow, Optional
  <2>5. StampsPast(ClaimedRow(Row(r), req[r]))
    BY <2>3 DEF StampsPast, CardRow, ClaimedRow
  <2> QED
    BY <1>9, <2>2, <2>3, <2>4, <2>5, SetRowType DEF Claim, Optional
<1>10. CASE Recheck(r)
  <2> DEFINE d == MissVerdict(Row(r), req[r])
  <2>1. d \in Decision
    <3>1. CASE Row(r) = null
      BY <3>1, VerdictType DEF MissVerdict, NotFound, ResultCode
    <3>2. CASE Row(r) # null
      <4>1. Row(r) \in CardRow /\ req[r].call.hwid \in Hwid
        BY <1>10, <3>2, RowType DEF Recheck
      <4>2. decideVerify(Row(r), req[r].call.hwid, null, req[r].at) \in Decision
        BY <4>1, <1>0, VerifyDecides
      <4> QED
        BY <3>2, <4>2, VerdictType DEF MissVerdict, ResultCode
    <3> QED
      BY <3>1, <3>2
  <2>2. ServiceOK'
    BY <1>10, <2>1, ConcludeType DEF Recheck, storeVars, Pc
  <2> QED
    BY <1>10, <2>2 DEF Recheck, storeVars, StoreOK, StampsPast, Exists
<1>11. CASE Reply(r) \/ LogFails(r) \/ Abort(r)
  <2>1. req' = [req EXCEPT ![r] = Idle] /\ UNCHANGED storeVars
    BY <1>11 DEF Reply, LogFails, Abort
  <2>2. Idle \in Handler /\ Idle.at <= clock /\ Idle.pc = "idle"
    BY <1>0, IdleType DEF Idle, Time
  <2>3. ServiceOK'
    BY <2>1, <2>2, HandlerType DEF storeVars
  <2> QED
    BY <2>1, <2>3 DEF storeVars, StoreOK, StampsPast, Exists
<1> QED
  BY <1>1, <1>2, <1>3, <1>4, <1>5, <1>6, <1>7, <1>8, <1>9, <1>10, <1>11
    DEF RequestStep, HandlerStep, Statement

LEMMA TermsType ==
  ASSUME NEW row \in CardRow
  PROVE  TermsOf(row) \in Terms
BY DEF TermsOf, Terms, CardRow

LEMMA NoOpType == NoOp \in Operation /\ NoOp.at = 0
BY DEF NoOp, Operation, Nothing, Optional, Time

\* An operation that begins, and one that ends, keep the operations typed.
LEMMA BeginType ==
  ASSUME AdminOK, StoreOK, NEW a \in Operator, NEW op \in AdminOp,
         NEW targets \in SUBSET CardId,
         NEW seen \in [CardId -> Optional(Terms)],
         Begin(a, op, targets, seen)
  PROVE  AdminOK' /\ UNCHANGED storeVars
<1> DEFINE o == [op |-> op, targets |-> targets, seen |-> seen, at |-> clock]
<1>1. o \in Operation /\ o.at = clock /\ clock \in Nat
  BY DEF Operation, StoreOK, Time
<1>2. adm' = [adm EXCEPT ![a] = o] /\ UNCHANGED storeVars
  BY DEF Begin
<1> HIDE DEF o
<1> QED
  BY <1>1, <1>2 DEF AdminOK, storeVars

LEMMA DoneType ==
  ASSUME AdminOK, StoreOK, NEW a \in Operator, Done(a), UNCHANGED clock
  PROVE  AdminOK'
BY NoOpType DEF AdminOK, StoreOK, Done, Time

\* The row an extension writes is a row, when the terms it read have something
\* finite to extend.
LEMMA ExtendedType ==
  ASSUME NEW row \in CardRow, NEW seen \in Terms,
         IF seen.activated THEN seen.expiresAt # null ELSE seen.durationDays # null,
         NEW days \in Nat, NEW now \in Time
  PROVE  LET new == ExtendedRow(row, seen, days, now)
         IN  /\ new \in CardRow
             /\ new.sessionSeenAt = row.sessionSeenAt
             /\ new.lastSeenAt = row.lastSeenAt
             /\ new.activated = row.activated
             /\ new.status = row.status
             /\ new.hwid = row.hwid
             /\ new.sessionId = row.sessionId
             /\ seen.activated =>
                  new.durationDays = row.durationDays /\ new.expiresAt # null
             /\ ~seen.activated =>
                  new.expiresAt = row.expiresAt /\ new.durationDays # null
<1>1. CASE seen.activated
  <2> DEFINE t == ExtensionExpiry(seen, days, now)
  <2>1. seen.expiresAt \in Time
    <3>1. seen.expiresAt \in Optional(Time)
      BY DEF Terms
    <3>2. seen.expiresAt # null
      BY <1>1
    <3> QED
      BY <3>1, <3>2 DEF Optional
  <2>2. t \in Time
    BY <2>1, ExtensionType
  <2>3. t # null
    BY <2>2, LogicAssumption DEF Time
  <2> HIDE DEF t
  <2>4. ExtendedRow(row, seen, days, now) = [row EXCEPT !.expiresAt = t]
    BY <1>1 DEF ExtendedRow, t
  <2>5. [row EXCEPT !.expiresAt = t] \in CardRow
    BY <2>2 DEF CardRow, Optional
  <2> QED
    BY <1>1, <2>3, <2>4, <2>5 DEF CardRow
<1>2. CASE ~seen.activated
  <2> DEFINE n == seen.durationDays + days
  <2>1. n \in Nat /\ n # null
    BY <1>2, LogicAssumption DEF Terms, Optional
  <2> HIDE DEF n
  <2>2. ExtendedRow(row, seen, days, now) = [row EXCEPT !.durationDays = n]
    BY <1>2 DEF ExtendedRow, n
  <2>3. [row EXCEPT !.durationDays = n] \in CardRow
    BY <2>1 DEF CardRow, Optional
  <2> QED
    BY <1>2, <2>1, <2>2, <2>3 DEF CardRow
<1> QED
  BY <1>1, <1>2

\* Every statement of a console operation keeps the types. An extension needs
\* its plan: the terms it read must have something finite to extend.
LEMMA ConsoleTypes ==
  ASSUME TypeOK, PlansConsistent, NEW a \in Operator, AdminStep(a)
  PROVE  StoreOK' /\ AdminOK'
<1> USE DEF TypeOK
<1>0. Nothing \in [CardId -> Optional(Terms)]
  BY DEF Nothing, Optional
<1>1. CASE AdminRead(a)
  <2>1. AdminOK' /\ UNCHANGED storeVars
    <3>1. CASE mustGet(a)
      BY <3>1, <1>0, BeginType DEF mustGet, AdminOp
    <3>2. CASE UnbanRead(a)
      <4>1. PICK c \in CardId : Exists(c)
              /\ Begin(a, "unban", {c}, [Nothing EXCEPT ![c] = TermsOf(cards[c])])
        BY <3>2 DEF UnbanRead
      <4>2. cards[c] \in CardRow
        BY <4>1 DEF StoreOK, Exists, Optional
      <4>3. [Nothing EXCEPT ![c] = TermsOf(cards[c])]
              \in [CardId -> Optional(Terms)]
        BY <4>2, <1>0, TermsType DEF Optional
      <4> QED
        BY <4>1, <4>3, BeginType DEF AdminOp
    <3>3. CASE ExtendRead(a)
      <4>1. PICK T \in SUBSET CardId :
              /\ \A c \in T : Exists(c)
              /\ Begin(a, "extend", T,
                   [c \in CardId |-> IF c \in T THEN TermsOf(cards[c]) ELSE null])
        BY <3>3 DEF ExtendRead
      <4>2. \A c \in T : TermsOf(cards[c]) \in Terms
        BY <4>1, TermsType DEF StoreOK, Exists, Optional
      <4>3. [c \in CardId |-> IF c \in T THEN TermsOf(cards[c]) ELSE null]
              \in [CardId -> Optional(Terms)]
        BY <4>2 DEF Optional
      <4> QED
        BY <4>1, <4>3, BeginType DEF AdminOp
    <3> QED
      BY <1>1, <3>1, <3>2, <3>3 DEF AdminRead
  <2> QED
    BY <2>1 DEF storeVars, StoreOK, StampsPast, Exists
<1>2. CASE AdminWrite(a)
  <2>0. adm[a] \in Operation
    BY DEF AdminOK
  <2>1. AdminOK' /\ UNCHANGED clock
    BY <1>2, DoneType DEF AdminWrite, ban, unban, unbind, remove, extendCards
  <2>2. ASSUME NEW c \in CardId, Exists(c)
        PROVE  cards[c] \in CardRow /\ StampsPast(cards[c])
    BY <2>2 DEF StoreOK, Exists, Optional
  <2>3. CASE ban(a)
    <3>1. PICK c \in CardId : Exists(c)
                /\ SetRow(c, [cards[c] EXCEPT !.status = "BANNED"])
      BY <2>0, <2>3 DEF ban, Operation
    <3>2. [cards[c] EXCEPT !.status = "BANNED"] \in CardRow
      BY <3>1, <2>2 DEF CardRow, Status
    <3>3. StampsPast([cards[c] EXCEPT !.status = "BANNED"])
      BY <3>1, <2>2 DEF CardRow, StampsPast
    <3> QED
      BY <2>1, <3>1, <3>2, <3>3, SetRowType DEF Optional
  <2>4. CASE unban(a)
    <3>1. PICK c \in CardId, now \in adm[a].at .. clock : Exists(c)
                /\ SetRow(c, [cards[c] EXCEPT
                               !.status = StatusAfterBan(adm[a].seen[c], now)])
      BY <2>0, <2>4 DEF unban, Operation
    <3> DEFINE status == StatusAfterBan(adm[a].seen[c], now)
    <3>2. status \in Status
      BY DEF StatusAfterBan, Status
    <3> HIDE DEF status
    <3>3. [cards[c] EXCEPT !.status = status] \in CardRow
      BY <3>1, <3>2, <2>2 DEF CardRow
    <3>4. StampsPast([cards[c] EXCEPT !.status = status])
      BY <3>1, <2>2 DEF CardRow, StampsPast
    <3> QED
      BY <2>1, <3>1, <3>3, <3>4, SetRowType DEF Optional, status
  <2>5. CASE unbind(a)
    <3>1. PICK c \in CardId : Exists(c)
                /\ SetRow(c, [cards[c] EXCEPT !.hwid = null])
      BY <2>0, <2>5 DEF unbind, Operation
    <3>2. [cards[c] EXCEPT !.hwid = null] \in CardRow
      BY <3>1, <2>2 DEF CardRow, Optional
    <3>3. StampsPast([cards[c] EXCEPT !.hwid = null])
      BY <3>1, <2>2 DEF CardRow, StampsPast
    <3> QED
      BY <2>1, <3>1, <3>2, <3>3, SetRowType DEF Optional
  <2>6. CASE remove(a)
    <3>1. PICK c \in CardId : SetRow(c, null)
      BY <2>0, <2>6 DEF remove, Operation
    <3> QED
      BY <2>1, <3>1, SetRowType DEF Optional
  <2>7. CASE extendCards(a)
    <3>1. PICK now \in adm[a].at .. clock, days \in ExtendDays :
            cards' = [c \in CardId |->
                        IF c \in adm[a].targets
                        THEN ExtendedRow(cards[c], adm[a].seen[c], days, now)
                        ELSE cards[c]]
      BY <2>7 DEF extendCards
    <3>2. now \in Time /\ days \in Nat
      BY <3>1, <2>0, AdminAssumption DEF Operation, StoreOK, Time
    <3>3. ASSUME NEW c \in adm[a].targets
          PROVE  /\ cards'[c] \in CardRow
                 /\ StampsPast(cards'[c])
      <4>1. c \in CardId /\ Exists(c) /\ cards[c] \in CardRow /\ StampsPast(cards[c])
        BY <2>0, <2>2, <2>7 DEF extendCards, Operation
      <4>2. PendingTerms(a, c) /\ adm[a].op = "extend"
        BY <2>7 DEF PlansConsistent, extendCards, Writing
      <4>3. /\ adm[a].seen[c] \in Terms
            /\ IF adm[a].seen[c].activated THEN adm[a].seen[c].expiresAt # null
               ELSE adm[a].seen[c].durationDays # null
        BY <4>1, <4>2, <2>0 DEF PendingTerms, Operation, Optional
      <4>4. cards'[c] = ExtendedRow(cards[c], adm[a].seen[c], days, now)
        BY <3>1, <4>1
      <4> QED
        BY <3>2, <4>1, <4>3, <4>4, ExtendedType DEF StampsPast
    <3>4. ASSUME NEW c \in CardId, c \notin adm[a].targets
          PROVE  cards'[c] = cards[c]
      BY <3>1, <3>4
    <3>5. \A c \in CardId : cards'[c] \in Optional(CardRow)
      BY <3>3, <3>4 DEF StoreOK, Optional
    <3>6. cards' \in [CardId -> Optional(CardRow)]
      BY <3>1, <3>5
    <3>7. \A c \in CardId : cards'[c] # null => StampsPast(cards'[c])
      BY <3>3, <3>4 DEF StoreOK, Exists
    <3> QED
      BY <2>1, <3>6, <3>7 DEF StoreOK, Exists, StampsPast
  <2> QED
    BY <1>2, <2>3, <2>4, <2>5, <2>6, <2>7 DEF AdminWrite
<1>3. CASE AbortAdmin(a)
  BY <1>3, DoneType DEF AbortAdmin, storeVars, StoreOK, StampsPast, Exists
<1> QED
  BY <1>1, <1>2, <1>3 DEF AdminStep

-----------------------------------------------------------------------------
(* The licence terms.                                                      *)

\* The inductive invariant: types and consistent rows alone are not enough,
\* since a handler writes what it decided on a row read earlier.
IInv == TypeOK /\ LicenceTermsConsistent /\ PlansConsistent

\* What one step may make of a row: it keeps the kind of grant, never takes
\* the activation back, and leaves the terms consistent.
Evolves(old, new) ==
  /\ old # null
  /\ old.durationDays = null <=> new.durationDays = null
  /\ old.activated => new.activated
  /\ ConsistentTerms(new)

AllEvolve == \A c \in CardId : cards'[c] # null => Evolves(cards[c], cards'[c])

LEMMA StutterEvolves ==
  ASSUME LicenceTermsConsistent, UNCHANGED cards
  PROVE  AllEvolve
BY DEF LicenceTermsConsistent, AllEvolve, Evolves, Exists

LEMMA SetRowEvolves ==
  ASSUME IInv, NEW c \in CardId, NEW row, SetRow(c, row),
         row # null => Evolves(cards[c], row)
  PROVE  AllEvolve
BY DEF IInv, TypeOK, StoreOK, SetRow, AllEvolve, Evolves, LicenceTermsConsistent,
  Exists

\* Every write of a client handler evolves its row.
LEMMA ClientEvolves ==
  ASSUME IInv, NEW r \in Request, RequestStep(r)
  PROVE  AllEvolve
<1> USE DEF IInv, TypeOK
<1> DEFINE c == req[r].call.card
<1>0. ASSUME Row(r) # null, req[r].pc # "idle"
      PROVE  /\ c \in CardId /\ Row(r) = cards[c]
             /\ Row(r) \in CardRow /\ ConsistentTerms(Row(r))
  BY <1>0, RowType DEF LicenceTermsConsistent, Exists, Row
<1>1. CASE Activate(r)
  <2>1. /\ c \in CardId /\ Row(r) = cards[c] /\ Row(r) # null
        /\ Row(r) \in CardRow /\ ConsistentTerms(Row(r))
    BY <1>0, <1>1 DEF Activate, ActivateWhere
  <2>2. req[r].d.expiresAt = null <=> Row(r).durationDays = null
    BY <1>1, <2>1 DEF Activate, PlansConsistent, PendingGrant
  <2>3. Evolves(Row(r), ActivatedRow(Row(r), req[r]))
    BY <2>1, <2>2 DEF Evolves, ActivatedRow, CardRow, ConsistentTerms
  <2> QED
    BY <1>1, <2>1, <2>3, SetRowEvolves DEF Activate
<1>2. CASE MarkExpired(r) /\ ActiveRow(Row(r))
  <2>1. /\ c \in CardId /\ Row(r) = cards[c] /\ Row(r) # null
        /\ Row(r) \in CardRow /\ ConsistentTerms(Row(r))
        /\ Row(r).status = "ACTIVE"
    BY <1>0, <1>2 DEF MarkExpired, ActiveRow
  <2>2. Row(r).durationDays # null
    BY <1>2, <2>1 DEF MarkExpired, PlansConsistent, PendingExpiry
  <2>3. Evolves(Row(r), [Row(r) EXCEPT !.status = "EXPIRED"])
    BY <2>1, <2>2 DEF Evolves, CardRow, ConsistentTerms
  <2> QED
    BY <1>2, <2>1, <2>3, SetRowEvolves DEF MarkExpired
<1>3. CASE Rebind(r) /\ RebindWhere(Row(r))
  <2>1. /\ c \in CardId /\ Row(r) = cards[c] /\ Row(r) # null
        /\ Row(r) \in CardRow /\ ConsistentTerms(Row(r))
    BY <1>0, <1>3 DEF Rebind, RebindWhere, ActiveRow
  <2>2. Evolves(Row(r), ReboundRow(Row(r), req[r]))
    BY <2>1 DEF Evolves, CardRow, ConsistentTerms, ReboundRow
  <2> QED
    BY <1>3, <2>1, <2>2, SetRowEvolves DEF Rebind
<1>4. CASE Touch(r) /\ BoundRow(Row(r), req[r])
  <2>1. /\ c \in CardId /\ Row(r) = cards[c] /\ Row(r) # null
        /\ Row(r) \in CardRow /\ ConsistentTerms(Row(r))
    BY <1>0, <1>4 DEF Touch, BoundRow, ActiveRow
  <2>2. Evolves(Row(r), TouchedRow(Row(r), req[r]))
    BY <2>1 DEF Evolves, CardRow, ConsistentTerms, TouchedRow
  <2> QED
    BY <1>4, <2>1, <2>2, SetRowEvolves DEF Touch
<1>5. CASE Claim(r)
  <2>1. /\ c \in CardId /\ Row(r) = cards[c] /\ Row(r) # null
        /\ Row(r) \in CardRow /\ ConsistentTerms(Row(r))
    BY <1>0, <1>5 DEF Claim, ClaimWhere, BoundRow, ActiveRow
  <2>2. Evolves(Row(r), ClaimedRow(Row(r), req[r]))
    BY <2>1 DEF Evolves, CardRow, ConsistentTerms, ClaimedRow
  <2> QED
    BY <1>5, <2>1, <2>2, SetRowEvolves DEF Claim
<1>6. CASE UNCHANGED cards
  BY <1>6, StutterEvolves
<1> QED
  BY <1>1, <1>2, <1>3, <1>4, <1>5, <1>6 DEF RequestStep, HandlerStep, Statement, Start, Arrive,
    FindUnknown, Find, LoseActivation, RereadUnknown, Reread, MarkExpired,
    Rebind, Touch, MissClaim, Recheck, Reply, LogFails, Abort, storeVars

\* Every write of the console evolves its rows.
LEMMA ConsoleEvolves ==
  ASSUME IInv, NEW a \in Operator, AdminStep(a)
  PROVE  AllEvolve
<1> USE DEF IInv, TypeOK
<1>0. ASSUME NEW c \in CardId, Exists(c)
      PROVE  cards[c] \in CardRow /\ cards[c] # null /\ ConsistentTerms(cards[c])
  BY <1>0 DEF StoreOK, Exists, Optional, LicenceTermsConsistent
<1>1. adm[a] \in Operation
  BY DEF AdminOK
<1>2. CASE ban(a)
  <2>1. PICK c \in CardId : Exists(c)
              /\ SetRow(c, [cards[c] EXCEPT !.status = "BANNED"])
    BY <1>1, <1>2 DEF ban, Operation
  <2>2. Evolves(cards[c], [cards[c] EXCEPT !.status = "BANNED"])
    BY <1>0, <2>1 DEF Evolves, CardRow, ConsistentTerms
  <2> QED
    BY <2>1, <2>2, SetRowEvolves
<1>3. CASE unban(a)
  <2>1. PICK c \in adm[a].targets, now \in adm[a].at .. clock : Exists(c)
              /\ SetRow(c, [cards[c] EXCEPT
                             !.status = StatusAfterBan(adm[a].seen[c], now)])
    BY <1>3 DEF unban
  <2> DEFINE seen == adm[a].seen[c]
             status == StatusAfterBan(seen, now)
  <2>2. c \in CardId /\ cards[c] \in CardRow /\ cards[c] # null
        /\ ConsistentTerms(cards[c])
    BY <1>0, <1>1, <2>1 DEF Operation
  <2>3. PendingTerms(a, c)
    BY <1>3, <2>1 DEF PlansConsistent, unban, Writing
  <2>4. /\ status \in {"ACTIVE", "EXPIRED"} => cards[c].activated
        /\ status = "EXPIRED" => cards[c].expiresAt # null
    BY <2>1, <2>2, <2>3 DEF StatusAfterBan, PendingTerms, isExpired,
      ConsistentTerms, CardRow
  <2> HIDE DEF status
  <2>5. Evolves(cards[c], [cards[c] EXCEPT !.status = status])
    BY <2>2, <2>4 DEF Evolves, CardRow, ConsistentTerms
  <2> QED
    BY <2>1, <2>2, <2>5, SetRowEvolves DEF status
<1>4. CASE unbind(a)
  <2>1. PICK c \in CardId : Exists(c)
              /\ SetRow(c, [cards[c] EXCEPT !.hwid = null])
    BY <1>1, <1>4 DEF unbind, Operation
  <2>2. Evolves(cards[c], [cards[c] EXCEPT !.hwid = null])
    BY <1>0, <2>1 DEF Evolves, CardRow, ConsistentTerms
  <2> QED
    BY <2>1, <2>2, SetRowEvolves
<1>5. CASE remove(a)
  <2>1. PICK c \in CardId : SetRow(c, null)
    BY <1>1, <1>5 DEF remove, Operation
  <2> QED
    BY <2>1, SetRowEvolves
<1>6. CASE extendCards(a)
  <2>1. PICK now \in adm[a].at .. clock, days \in ExtendDays :
          cards' = [c \in CardId |->
                      IF c \in adm[a].targets
                      THEN ExtendedRow(cards[c], adm[a].seen[c], days, now)
                      ELSE cards[c]]
    BY <1>6 DEF extendCards
  <2>2. now \in Time /\ days \in Nat
    BY <2>1, <1>1, AdminAssumption DEF Operation, StoreOK, Time
  <2>3. ASSUME NEW c \in adm[a].targets
        PROVE  Evolves(cards[c], cards'[c])
    <3>1. /\ c \in CardId /\ cards[c] \in CardRow /\ cards[c] # null
          /\ ConsistentTerms(cards[c])
      BY <1>0, <1>1, <1>6 DEF extendCards, Operation
    <3>2. PendingTerms(a, c) /\ adm[a].op = "extend" /\ Exists(c)
      BY <1>6 DEF PlansConsistent, extendCards, Writing
    <3> DEFINE seen == adm[a].seen[c]
               new == ExtendedRow(cards[c], seen, days, now)
    <3>3. /\ seen \in Terms
          /\ IF seen.activated THEN seen.expiresAt # null
             ELSE seen.durationDays # null
      BY <3>1, <3>2, <1>1 DEF PendingTerms, Operation, Optional
    <3>4. /\ seen.durationDays = null <=> cards[c].durationDays = null
          /\ seen.activated => cards[c].activated
          /\ seen.activated => seen.durationDays # null
      BY <3>2, <3>3 DEF PendingTerms
    <3> HIDE DEF new, seen
    <3>5. cards'[c] = new
      BY <2>1, <3>1 DEF new, seen
    <3>6. /\ new \in CardRow
          /\ new.activated = cards[c].activated
          /\ new.status = cards[c].status
          /\ seen.activated =>
               new.durationDays = cards[c].durationDays /\ new.expiresAt # null
          /\ ~seen.activated =>
               new.expiresAt = cards[c].expiresAt /\ new.durationDays # null
      BY <2>2, <3>1, <3>3, ExtendedType DEF new
    <3>7. CASE seen.activated
      BY <3>1, <3>3, <3>4, <3>5, <3>6, <3>7 DEF Evolves, ConsistentTerms
    <3>8. CASE ~seen.activated
      BY <3>1, <3>3, <3>4, <3>5, <3>6, <3>8 DEF Evolves, ConsistentTerms
    <3> QED
      BY <3>7, <3>8
  <2>4. ASSUME NEW c \in CardId, c \notin adm[a].targets, cards'[c] # null
        PROVE  Evolves(cards[c], cards'[c])
    <3>1. cards'[c] = cards[c]
      BY <2>1, <2>4
    <3> QED
      BY <1>0, <2>4, <3>1 DEF Evolves, Exists
  <2> QED
    BY <2>3, <2>4 DEF AllEvolve
<1>7. CASE UNCHANGED cards
  BY <1>7, StutterEvolves
<1> QED
  BY <1>2, <1>3, <1>4, <1>5, <1>6, <1>7 DEF AdminStep, AdminRead, AdminWrite,
    mustGet, UnbanRead, ExtendRead, Begin, AbortAdmin, storeVars

\* So does every step.
LEMMA NextEvolves == IInv /\ [Next]_vars => AllEvolve
<1> SUFFICES ASSUME IInv, [Next]_vars PROVE AllEvolve
  OBVIOUS
<1>1. CASE UNCHANGED cards
  BY <1>1, StutterEvolves DEF IInv
<1>2. ASSUME NEW r \in Request, RequestStep(r) PROVE AllEvolve
  BY <1>2, ClientEvolves
<1>3. ASSUME NEW a \in Operator, AdminStep(a) PROVE AllEvolve
  BY <1>3, ConsoleEvolves
<1> QED
  BY <1>1, <1>2, <1>3 DEF Next, TimePasses, Tick, ClientStep, ConsoleStep, vars

\* Terms read of a row that evolves remain good to write.
LEMMA TermsKept ==
  ASSUME TypeOK, AllEvolve, NEW a \in Operator, NEW c \in CardId,
         adm'[a] = adm[a], PendingTerms(a, c)
  PROVE  PendingTerms(a, c)'
BY DEF PendingTerms, AllEvolve, Evolves, Exists

\* The plans of a handler that does not step.
LEMMA HandlerPlanKept ==
  ASSUME TypeOK, AllEvolve, NEW r \in Request, req'[r] = req[r],
         PendingGrant(r), PendingExpiry(r)
  PROVE  PendingGrant(r)' /\ PendingExpiry(r)'
<1>1. CASE req[r].pc = "idle"
  BY <1>1 DEF PendingGrant, PendingExpiry
<1>2. CASE req[r].pc # "idle"
  <2>1. req[r].call.card \in CardId
    BY <1>2, RowType DEF TypeOK
  <2> QED
    BY <2>1 DEF PendingGrant, PendingExpiry, AllEvolve, Evolves, Row
<1> QED
  BY <1>1, <1>2

\* The plans of a handler that steps: a fresh decision fits the row it read.
LEMMA HandlerPlanMade ==
  ASSUME IInv, NEW r \in Request, RequestStep(r)
  PROVE  PendingGrant(r)' /\ PendingExpiry(r)'
<1> USE DEF IInv, TypeOK
<1> DEFINE row == Row(r)
<1>0. req \in [Request -> Handler] /\ req[r] \in Handler
  BY DEF ServiceOK
<1>1. CASE Find(r) \/ Reread(r)
  <2> DEFINE d == decide(req[r].call, row, req[r].at)
  <2>1. /\ row # null /\ row \in CardRow
        /\ req[r].call \in Calls /\ req[r].at \in Time
        /\ ConsistentTerms(row)
    BY <1>1, RowType DEF Find, Reread, LicenceTermsConsistent, Exists, Row
  <2>2. /\ d \in Decision
        /\ d.effect = "activate" => d.expiresAt = null <=> row.durationDays = null
        /\ d.effect = "markExpired" => row.status = "ACTIVE" /\ row.expiresAt # null
    BY <2>1, Decides
  <2>3. d.effect = "markExpired" => row.durationDays # null
    BY <2>1, <2>2 DEF ConsistentTerms
  <2>4. PICK pc \in Pc : Conclude(r, d, pc) /\ (pc = StepFor(d) \/ pc = "log")
    <3>1. StepFor(d) \in Pc /\ AfterReread(d) \in {StepFor(d), "log"}
      BY <2>2, StepType DEF AfterReread
    <3>2. AfterReread(d) \in Pc
      BY <3>1 DEF Pc
    <3> QED
      BY <1>1, <3>1, <3>2 DEF Find, Reread
  <2>5. /\ req'[r].pc = pc
        /\ req'[r].call = req[r].call
        /\ pc # "log" => req'[r].d = d
    <3> HIDE DEF d
    <3> QED
      BY <2>4, <1>0 DEF Conclude, Finish, Handler
  <2>6. UNCHANGED cards
    BY <1>1 DEF Find, Reread, storeVars
  <2>7. /\ pc = "activate" => d.effect = "activate"
        /\ pc = "markExpired" => d.effect = "markExpired"
        /\ pc # "expireAgain"
    BY <2>2, <2>4, StepType
  <2> HIDE DEF d
  <2> QED
    BY <2>2, <2>3, <2>5, <2>6, <2>7 DEF PendingGrant, PendingExpiry, Row
<1>2. CASE Recheck(r)
  <2> DEFINE d == MissVerdict(row, req[r])
             pc == IF d.effect = "markExpired" THEN "expireAgain" ELSE "log"
  <2>1. d.effect = "markExpired" => row # null /\ row.durationDays # null
    <3>1. CASE row = null
      BY <3>1 DEF MissVerdict, NotFound, Verdict
    <3>2. CASE row # null
      <4>1. row \in CardRow /\ req[r].call.hwid \in Hwid /\ req[r].at \in Time
            /\ ConsistentTerms(row)
        BY <1>2, <3>2, RowType DEF Recheck, LicenceTermsConsistent, Exists, Row
      <4> DEFINE base == decideVerify(row, req[r].call.hwid, null, req[r].at)
      <4>2. base.effect = "markExpired" => row.status = "ACTIVE" /\ row.expiresAt # null
        BY <4>1, VerifyDecides
      <4>3. d = base \/ d.effect = "none"
        BY <3>2 DEF MissVerdict, Verdict
      <4> QED
        BY <3>2, <4>1, <4>2, <4>3 DEF ConsistentTerms
    <3> QED
      BY <3>1, <3>2
  <2>2. req'[r].pc = pc /\ req'[r].call = req[r].call /\ UNCHANGED cards
    BY <1>0, <1>2 DEF Recheck, Conclude, Finish, Handler, storeVars
  <2> HIDE DEF d
  <2> QED
    BY <2>1, <2>2 DEF PendingGrant, PendingExpiry, Row
<1>3. CASE ~(Find(r) \/ Reread(r) \/ Recheck(r))
  <2>1. req'[r].pc \notin {"activate", "markExpired", "expireAgain"}
    BY <1>0, <1>3 DEF RequestStep, HandlerStep, Statement, Start, Arrive, FindUnknown, Activate,
      LoseActivation, RereadUnknown, MarkExpired, Rebind, Touch, Claim, MissClaim,
      Reply, LogFails, Abort, Finish, Goto, Handler, Idle
  <2> QED
    BY <2>1 DEF PendingGrant, PendingExpiry
<1> QED
  BY <1>1, <1>2, <1>3

\* A handler's statement leaves the other handlers alone.
LEMMA OthersStay ==
  ASSUME ServiceOK, NEW r \in Request, RequestStep(r), NEW q \in Request \ {r}
  PROVE  req'[q] = req[q]
BY DEF ServiceOK, RequestStep, HandlerStep, Statement, Start, Arrive, FindUnknown, Find, Activate,
  LoseActivation, RereadUnknown, Reread, MarkExpired, Rebind, Touch, Claim,
  MissClaim, Recheck, Reply, LogFails, Abort, Finish, Goto, Conclude

\* The plans of an operation that steps: what it reads fits the rows it read.
LEMMA OperationPlanMade ==
  ASSUME IInv, NEW a \in Operator, AdminStep(a),
         NEW c \in adm'[a].targets, adm'[a].op \in {"unban", "extend"}
  PROVE  PendingTerms(a, c)'
<1> USE DEF IInv, TypeOK
<1>1. adm \in [Operator -> Operation] /\ cards \in [CardId -> Optional(CardRow)]
  BY DEF AdminOK, StoreOK
<1>2. \A x \in CardId : Exists(x) =>
        /\ cards[x] \in CardRow /\ ConsistentTerms(cards[x])
        /\ TermsOf(cards[x]) \in Terms /\ TermsOf(cards[x]) # null
  <2> SUFFICES ASSUME NEW x \in CardId, Exists(x)
               PROVE  /\ cards[x] \in CardRow /\ ConsistentTerms(cards[x])
                      /\ TermsOf(cards[x]) \in Terms /\ TermsOf(cards[x]) # null
    OBVIOUS
  <2>1. cards[x] \in CardRow /\ ConsistentTerms(cards[x])
    BY <1>1 DEF Exists, Optional, LicenceTermsConsistent
  <2> QED
    BY <2>1, TermsType, AdminAssumption
<1>3. CASE UnbanRead(a)
  <2>1. PICK x \in CardId : Exists(x)
          /\ Begin(a, "unban", {x}, [Nothing EXCEPT ![x] = TermsOf(cards[x])])
    BY <1>3 DEF UnbanRead
  <2>2. /\ adm'[a].op = "unban" /\ adm'[a].targets = {x}
        /\ adm'[a].seen[x] = TermsOf(cards[x]) /\ UNCHANGED cards
    BY <1>1, <2>1 DEF Begin, Nothing, storeVars
  <2> QED
    BY <1>2, <2>1, <2>2 DEF PendingTerms, TermsOf, ConsistentTerms, CardRow, Exists
<1>4. CASE ExtendRead(a)
  <2>1. PICK T \in SUBSET CardId :
          /\ \A x \in T : Exists(x) /\ ~ExtensionSkips(cards[x])
          /\ Begin(a, "extend", T,
               [x \in CardId |-> IF x \in T THEN TermsOf(cards[x]) ELSE null])
    BY <1>4 DEF ExtendRead
  <2>2. /\ adm'[a].op = "extend" /\ adm'[a].targets = T
        /\ \A x \in T : adm'[a].seen[x] = TermsOf(cards[x])
        /\ UNCHANGED cards
    BY <1>1, <2>1 DEF Begin, storeVars
  <2> QED
    BY <1>2, <2>1, <2>2 DEF PendingTerms, TermsOf, ConsistentTerms, CardRow,
      ExtensionSkips, Exists
<1>5. CASE ~UnbanRead(a) /\ ~ExtendRead(a)
  <2>1. adm'[a].op \notin {"unban", "extend"}
    BY <1>1, <1>5 DEF AdminStep, AdminRead, AdminWrite, mustGet, Begin, ban, unban,
      unbind, remove, extendCards, AbortAdmin, Done, NoOp
  <2> QED
    BY <2>1
<1> QED
  BY <1>3, <1>4, <1>5

LEMMA OtherOperatorsStay ==
  ASSUME AdminOK, NEW a \in Operator, AdminStep(a), NEW b \in Operator \ {a}
  PROVE  adm'[b] = adm[b]
BY DEF AdminOK, AdminStep, AdminRead, AdminWrite, mustGet, UnbanRead, ExtendRead,
  Begin, ban, unban, unbind, remove, extendCards, AbortAdmin, Done

-----------------------------------------------------------------------------
(* The invariance theorems.                                                *)

LEMMA InitIInv == Init => IInv
<1> SUFFICES ASSUME Init PROVE IInv
  OBVIOUS
<1> USE DEF Init, InitStore, InitService, InitAdmin
<1>1. \A g \in Grants : IssuedRow(g) \in CardRow /\ ConsistentTerms(IssuedRow(g))
        /\ StampsPast(IssuedRow(g))
  BY StoreAssumption DEF IssuedRow, CardRow, ConsistentTerms, StampsPast, Status,
    Optional
<1>2. \A c \in CardId : cards[c] \in CardRow /\ ConsistentTerms(cards[c])
        /\ StampsPast(cards[c])
  BY <1>1
<1>3. StoreOK /\ LicenceTermsConsistent
  BY <1>2 DEF StoreOK, LicenceTermsConsistent, Optional, Time
<1>4. ServiceOK
  BY IdleType DEF ServiceOK, Idle
<1>5. AdminOK
  BY NoOpType DEF AdminOK
<1>6. PlansConsistent
  BY DEF PlansConsistent, PendingGrant, PendingExpiry, Idle, NoOp
<1> QED
  BY <1>3, <1>4, <1>5, <1>6 DEF IInv, TypeOK

LEMMA StepIInv == IInv /\ [Next]_vars => IInv'
<1> SUFFICES ASSUME IInv, [Next]_vars PROVE IInv'
  OBVIOUS
<1> USE DEF IInv, TypeOK
<1>1. CASE TimePasses
  <2>1. UNCHANGED <<cards, req, adm>> /\ clock' = clock + 1
    BY <1>1 DEF TimePasses, Tick
  <2>2. StoreOK' /\ ServiceOK' /\ AdminOK'
    <3>1. clock \in Nat /\ clock' \in Nat /\ clock' >= clock
      BY <2>1 DEF StoreOK, Time
    <3>2. StoreOK'
      <4>1. ASSUME NEW c \in CardId, Exists(c)
            PROVE  /\ cards[c].sessionSeenAt # null => cards[c].sessionSeenAt <= clock'
                   /\ cards[c].lastSeenAt # null => cards[c].lastSeenAt <= clock'
        BY <4>1, <3>1 DEF StoreOK, StampsPast, Exists, Optional, CardRow, Time
      <4> QED
        BY <4>1, <2>1, <3>1 DEF StoreOK, StampsPast, Exists, Time
    <3>3. ServiceOK'
      BY <2>1, <3>1 DEF ServiceOK, Handler, Time
    <3>4. AdminOK'
      BY <2>1, <3>1 DEF AdminOK, Operation, Time
    <3> QED
      BY <3>2, <3>3, <3>4
  <2>3. LicenceTermsConsistent' /\ PlansConsistent'
    BY <2>1 DEF LicenceTermsConsistent, Exists, PlansConsistent, PendingGrant,
      PendingExpiry, PendingTerms, Row
  <2> QED
    BY <2>2, <2>3
<1>2. ASSUME NEW r \in Request, ClientStep(r)
      PROVE  IInv'
  <2>1. RequestStep(r) /\ UNCHANGED adm
    BY <1>2 DEF ClientStep
  <2>2. AllEvolve
    BY <2>1, ClientEvolves
  <2>3. StoreOK' /\ ServiceOK' /\ UNCHANGED clock
    BY <2>1, ClientTypes DEF RequestStep, HandlerStep, Statement, Start, Arrive, FindUnknown, Find,
      Activate, LoseActivation, RereadUnknown, Reread, MarkExpired, Rebind, Touch,
      Claim, MissClaim, Recheck, Reply, LogFails, Abort, storeVars
  <2>4. AdminOK'
    BY <2>1, <2>3 DEF AdminOK
  <2>5. LicenceTermsConsistent'
    BY <2>2 DEF AllEvolve, Evolves, LicenceTermsConsistent, Exists
  <2>6. ASSUME NEW q \in Request
        PROVE  PendingGrant(q)' /\ PendingExpiry(q)'
    <3>1. CASE q = r
      BY <3>1, <2>1, HandlerPlanMade
    <3>2. CASE q # r
      BY <3>2, <2>1, <2>2, OthersStay, HandlerPlanKept DEF PlansConsistent
    <3> QED
      BY <3>1, <3>2
  <2>7. ASSUME NEW a \in Operator, NEW c \in adm'[a].targets,
               adm'[a].op \in {"unban", "extend"}
        PROVE  PendingTerms(a, c)'
    <3>1. adm'[a] = adm[a] /\ c \in CardId
      BY <2>1, <2>7 DEF AdminOK, Operation
    <3> QED
      BY <3>1, <2>2, <2>7, TermsKept DEF PlansConsistent
  <2> QED
    BY <2>3, <2>4, <2>5, <2>6, <2>7 DEF PlansConsistent
<1>3. ASSUME NEW a \in Operator, ConsoleStep(a)
      PROVE  IInv'
  <2>1. AdminStep(a) /\ UNCHANGED req
    BY <1>3 DEF ConsoleStep
  <2>2. AllEvolve
    BY <2>1, ConsoleEvolves
  <2>3. StoreOK' /\ AdminOK' /\ UNCHANGED clock
    BY <2>1, ConsoleTypes DEF AdminStep, AdminRead, AdminWrite, mustGet, UnbanRead,
      ExtendRead, Begin, ban, unban, unbind, remove, extendCards, AbortAdmin,
      storeVars
  <2>4. ServiceOK'
    BY <2>1, <2>3 DEF ServiceOK
  <2>5. LicenceTermsConsistent'
    BY <2>2 DEF AllEvolve, Evolves, LicenceTermsConsistent, Exists
  <2>6. ASSUME NEW q \in Request
        PROVE  PendingGrant(q)' /\ PendingExpiry(q)'
    BY <2>1, <2>2, HandlerPlanKept DEF PlansConsistent
  <2>7. ASSUME NEW b \in Operator, NEW c \in adm'[b].targets,
               adm'[b].op \in {"unban", "extend"}
        PROVE  PendingTerms(b, c)'
    <3>1. CASE b = a
      BY <3>1, <2>1, <2>7, OperationPlanMade
    <3>2. CASE b # a
      <4>1. adm'[b] = adm[b]
        BY <3>2, <2>1, OtherOperatorsStay
      <4>2. c \in CardId /\ PendingTerms(b, c)
        BY <4>1, <2>7 DEF AdminOK, Operation, PlansConsistent
      <4> QED
        BY <4>1, <4>2, <2>2, TermsKept
    <3> QED
      BY <3>1, <3>2
  <2> QED
    BY <2>3, <2>4, <2>5, <2>6, <2>7 DEF PlansConsistent
<1>4. CASE UNCHANGED vars
  BY <1>4 DEF vars, StoreOK, StampsPast, ServiceOK, AdminOK, LicenceTermsConsistent,
    Exists, PlansConsistent, PendingGrant, PendingExpiry, PendingTerms, Row
<1> QED
  BY <1>1, <1>2, <1>3, <1>4 DEF Next

\* The inductive invariant holds throughout.
THEOREM Invariance == Spec => []IInv
BY InitIInv, StepIInv, PTL DEF Spec

\* Types: the table, the handlers and the operations stay within their
\* records, and no presence or session mark lies in the future.
THEOREM Typing == Spec => []TypeOK
<1>1. IInv => TypeOK
  BY DEF IInv
<1> QED
  BY <1>1, Invariance, PTL

\* Licence terms: status, activation, grant and expiry of every card agree in
\* every interleaving of handlers, console operations, failures and time.
THEOREM LicenceTerms == Spec => []LicenceTermsConsistent
<1>1. IInv => LicenceTermsConsistent
  BY DEF IInv
<1> QED
  BY <1>1, Invariance, PTL

\* Plans: what is about to be written fits the card, however long ago the
\* row it was decided on was read.
THEOREM Plans == Spec => []PlansConsistent
<1>1. IInv => PlansConsistent
  BY DEF IInv
<1> QED
  BY <1>1, Invariance, PTL

-----------------------------------------------------------------------------
(* What a client step may do to a row.                                     *)

\* A client step writes at most the row its handler works on, and that row is
\* UNUSED or ACTIVE when it does. Its session changes only by a claim, its
\* device only from none or by an activation, its expiry only by an activation.
LEMMA ClientWrites ==
  ASSUME TypeOK, NEW r \in Request, RequestStep(r),
         NEW c \in CardId, cards'[c] # cards[c]
  PROVE  /\ cards[c] \in CardRow /\ cards'[c] # null
         /\ cards[c].status \in {"UNUSED", "ACTIVE"}
         /\ c = req[r].call.card
         /\ cards'[c].sessionId # cards[c].sessionId => Claim(r)
         /\ cards'[c].hwid # cards[c].hwid =>
              Activate(r) \/ cards[c].hwid = null
         /\ cards'[c].expiresAt # cards[c].expiresAt => Activate(r)
         /\ cards'[c].durationDays = cards[c].durationDays
<1> USE DEF TypeOK
<1>0. cards \in [CardId -> Optional(CardRow)] /\ req \in [Request -> Handler]
  BY DEF StoreOK, ServiceOK
<1>1. ASSUME NEW row, SetRow(req[r].call.card, row), Row(r) # null
      PROVE  /\ c = req[r].call.card /\ cards[c] = Row(r) /\ cards'[c] = row
             /\ cards[c] \in CardRow
  BY <1>0, <1>1 DEF SetRow, Row, Optional
<1>2. CASE Activate(r)
  <2>1. Row(r) # null /\ Row(r).status = "UNUSED"
        /\ SetRow(req[r].call.card, ActivatedRow(Row(r), req[r]))
    BY <1>2 DEF Activate, ActivateWhere
  <2>2. /\ c = req[r].call.card /\ cards[c] = Row(r) /\ cards[c] \in CardRow
        /\ cards'[c] = ActivatedRow(Row(r), req[r])
    BY <2>1, <1>1
  <2>a. req[r].pc # "idle" /\ req[r].d.expiresAt \in Optional(Time)
    BY <1>2 DEF Activate, ServiceOK, Decision
  <2>b. req[r].call.hwid \in Hwid
    BY <2>a, RowType
  <2>c. ActivatedRow(Row(r), req[r]) \in CardRow
    BY <2>2, <2>a, <2>b DEF ActivatedRow, CardRow, Optional, Status
  <2>3. ActivatedRow(Row(r), req[r]) # null
    BY <2>c, StoreAssumption
  <2>4. /\ cards'[c].sessionId = cards[c].sessionId
        /\ cards'[c].durationDays = cards[c].durationDays
    BY <2>2 DEF ActivatedRow, CardRow
  <2> QED
    BY <1>2, <2>1, <2>2, <2>3, <2>4
<1>3. CASE MarkExpired(r) /\ ActiveRow(Row(r))
  <2>1. Row(r) # null /\ Row(r).status = "ACTIVE"
        /\ SetRow(req[r].call.card, [Row(r) EXCEPT !.status = "EXPIRED"])
    BY <1>3 DEF MarkExpired, ActiveRow
  <2>2. /\ c = req[r].call.card /\ cards[c] = Row(r) /\ cards[c] \in CardRow
        /\ cards'[c] = [Row(r) EXCEPT !.status = "EXPIRED"]
    BY <2>1, <1>1
  <2>3. [Row(r) EXCEPT !.status = "EXPIRED"] \in CardRow
    BY <2>2 DEF CardRow, Status
  <2> QED
    BY <2>1, <2>2, <2>3, StoreAssumption DEF CardRow
<1>4. CASE Rebind(r) /\ RebindWhere(Row(r))
  <2>1. Row(r) # null /\ Row(r).status = "ACTIVE" /\ Row(r).hwid = null
        /\ SetRow(req[r].call.card, ReboundRow(Row(r), req[r]))
        /\ req[r].pc # "idle"
    BY <1>4 DEF Rebind, RebindWhere, ActiveRow
  <2>2. /\ c = req[r].call.card /\ cards[c] = Row(r) /\ cards[c] \in CardRow
        /\ cards'[c] = ReboundRow(Row(r), req[r])
    BY <2>1, <1>1
  <2>3. ReboundRow(Row(r), req[r]) \in CardRow
    BY <2>1, <2>2, RowType DEF ReboundRow, CardRow, Optional
  <2> QED
    BY <2>1, <2>2, <2>3, StoreAssumption DEF CardRow, ReboundRow
<1>5. CASE Touch(r) /\ BoundRow(Row(r), req[r])
  <2>1. Row(r) # null /\ Row(r).status = "ACTIVE"
        /\ SetRow(req[r].call.card, TouchedRow(Row(r), req[r]))
        /\ req[r].pc # "idle"
    BY <1>5 DEF Touch, BoundRow, ActiveRow
  <2>2. /\ c = req[r].call.card /\ cards[c] = Row(r) /\ cards[c] \in CardRow
        /\ cards'[c] = TouchedRow(Row(r), req[r])
    BY <2>1, <1>1
  <2>3. TouchedRow(Row(r), req[r]) \in CardRow
    BY <2>1, <2>2, RowType DEF TouchedRow, CardRow, Optional
  <2> QED
    BY <2>1, <2>2, <2>3, StoreAssumption DEF CardRow, TouchedRow
<1>6. CASE Claim(r)
  <2>1. Row(r) # null /\ Row(r).status = "ACTIVE"
        /\ SetRow(req[r].call.card, ClaimedRow(Row(r), req[r]))
        /\ req[r].pc # "idle"
    BY <1>6 DEF Claim, ClaimWhere, BoundRow, ActiveRow
  <2>2. /\ c = req[r].call.card /\ cards[c] = Row(r) /\ cards[c] \in CardRow
        /\ cards'[c] = ClaimedRow(Row(r), req[r])
    BY <2>1, <1>1
  <2>3. ClaimedRow(Row(r), req[r]) \in CardRow
    BY <2>1, <2>2, RowType DEF ClaimedRow, CardRow, Optional
  <2>4. /\ cards'[c].hwid = cards[c].hwid
        /\ cards'[c].expiresAt = cards[c].expiresAt
        /\ cards'[c].durationDays = cards[c].durationDays
    BY <2>2 DEF CardRow, ClaimedRow
  <2>5. cards'[c] # null
    BY <2>2, <2>3, StoreAssumption
  <2> QED
    BY <1>6, <2>1, <2>2, <2>4, <2>5
<1> QED
  BY <1>2, <1>3, <1>4, <1>5, <1>6 DEF RequestStep, HandlerStep, Statement, Start, Arrive,
    FindUnknown, Find, LoseActivation, RereadUnknown, Reread, MarkExpired,
    Rebind, Touch, MissClaim, Recheck, Reply, LogFails, Abort, storeVars

\* Bans win: no client request ever writes a BANNED or EXPIRED row, however
\* stale the decision it acts on.
THEOREM BansWin == Spec => BannedRowFrozen
<1>1. IInv /\ [Next]_vars => [\A r \in Request : BannedRowKept(r)]_vars
  <2> SUFFICES ASSUME IInv, Next, NEW r \in Request
               PROVE  BannedRowKept(r)
    OBVIOUS
  <2>1. ASSUME NEW q \in Request, ClientStep(q)
        PROVE  BannedRowKept(r)
    BY <2>1, ClientWrites DEF ClientStep, BannedRowKept, IInv, Exists
  <2>2. CASE TimePasses \/ \E a \in Operator : ConsoleStep(a)
    BY <2>2 DEF TimePasses, ConsoleStep, BannedRowKept
  <2> QED
    BY <2>1, <2>2 DEF Next
<1> QED
  BY <1>1, Invariance, PTL DEF Spec, BannedRowFrozen

\* The console never touches a session.
LEMMA ConsoleKeepsSession ==
  ASSUME IInv, NEW a \in Operator, AdminStep(a),
         NEW c \in CardId, cards[c] # null, cards'[c] # null
  PROVE  cards'[c].sessionId = cards[c].sessionId
<1> USE DEF IInv, TypeOK
<1>0. adm[a] \in Operation /\ cards[c] \in CardRow
      /\ cards \in [CardId -> Optional(CardRow)]
  BY DEF AdminOK, StoreOK, Optional
<1>1. CASE extendCards(a)
  <2>1. PICK now \in adm[a].at .. clock, days \in ExtendDays :
          cards' = [x \in CardId |->
                      IF x \in adm[a].targets
                      THEN ExtendedRow(cards[x], adm[a].seen[x], days, now)
                      ELSE cards[x]]
    BY <1>1 DEF extendCards
  <2> QED
    BY <1>0, <2>1 DEF ExtendedRow, CardRow
<1>2. CASE UNCHANGED cards
  BY <1>2
<1>3. CASE ban(a) \/ unban(a) \/ unbind(a) \/ remove(a)
  BY <1>0, <1>3 DEF ban, unban, unbind, remove, SetRow, CardRow
<1> QED
  BY <1>1, <1>2, <1>3 DEF AdminStep, AdminRead, AdminWrite, mustGet, UnbanRead,
    ExtendRead, Begin, AbortAdmin, storeVars

\* Sessions: a session refreshed within the stale window is displaced only by
\* a startup beat from the card's own device under kick-old.
THEOREM Sessions == Spec => SessionHandover
<1>1. IInv /\ [Next]_vars => [\A c \in CardId : Handover(c)]_vars
  <2> SUFFICES ASSUME IInv, Next, NEW c \in CardId, SessionLost(c)
               PROVE  \E q \in Request : TakenOver(c, q)
    BY DEF Handover
  <2>1. ASSUME NEW r \in Request, ClientStep(r)
        PROVE  \E q \in Request : TakenOver(c, q)
    <3>1. Claim(r) /\ c = req[r].call.card /\ cards[c] \in CardRow
      BY <2>1, ClientWrites DEF ClientStep, IInv, SessionLost, Rows
    <3>2. /\ ClaimWhere(cards[c], req[r])
          /\ cards'[c] = ClaimedRow(cards[c], req[r])
          /\ req[r].pc = "claim" /\ req'[r].pc = "log"
      BY <3>1 DEF Claim, Row, SetRow, Finish, IInv, TypeOK, StoreOK, ServiceOK,
        Handler
    <3>3. req[r].at \in Nat /\ req[r].at <= clock /\ clock \in Nat
      BY DEF IInv, TypeOK, StoreOK, ServiceOK, Handler, Time
    <3>4. cards'[c].sessionId = req[r].call.session
      BY <3>1, <3>2 DEF ClaimedRow, CardRow
    <3>5. cards[c].sessionId \notin {null, req[r].call.session}
      BY <3>4 DEF SessionLost, LiveSession
    <3>6. ~StaleSession(cards[c], req[r].at)
      BY <3>1, <3>3, LogicAssumption DEF SessionLost, StaleSession,
        LiveSession, CardRow,
        Optional, Time
    <3> QED
      BY <3>1, <3>2, <3>5, <3>6 DEF ClaimWhere, BoundRow, TakenOver
  <2>2. CASE TimePasses
    BY <2>2 DEF TimePasses, Tick, SessionLost
  <2>3. ASSUME NEW a \in Operator, ConsoleStep(a)
        PROVE  \E q \in Request : TakenOver(c, q)
    BY <2>3, ConsoleKeepsSession DEF ConsoleStep, SessionLost, Rows
  <2> QED
    BY <2>1, <2>2, <2>3 DEF Next
<1> QED
  BY <1>1, Invariance, PTL DEF Spec, SessionHandover
=============================================================================
