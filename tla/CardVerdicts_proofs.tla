-------------------------- MODULE CardVerdicts_proofs --------------------------
(***************************************************************************)
(* The verdicts of CardVerdicts: a handler reads the row, writes and       *)
(* answers in several steps while others change the row, and yet answers   *)
(* what was true at some moment in between. For any number of requests and *)
(* cards; each theorem says which console operations it does without.      *)
(***************************************************************************)
EXTENDS CardVerdicts, CardLife_proofs

-----------------------------------------------------------------------------
(* The history and the system it observes.                                 *)

LEMMA Observes == HSpec => Spec
<1>1. HInit => Init
  BY DEF HInit
<1>2. [HNext]_hvars => [Next]_vars
  BY DEF HNext, hvars
<1> QED
  BY <1>1, <1>2, PTL DEF HSpec, Spec

\* What is true of the request now.
Now(r) == TruthsOf(Row(r), req[r].call, req[r].at)

Deciding(h) == h.pc # "idle" /\ ~Answering(h)

\* What a handler that is answering has witnessed, claims apart.
AnswerTold(r) ==
  LET h == req[r]
  IN  /\ h.call.action = "ACTIVATE" => h.d.result # "CONCURRENT_SESSION"
      /\ h.d.result \notin {"OK", "CONCURRENT_SESSION"} => TrueOnce(r)
      /\ h.call.action = "VERIFY" /\ h.call.session = null /\ h.d.result = "OK"
           => TrueOnce(r)

\* What a handler knows at each of its statements.
Told(r) ==
  LET h == req[r]
  IN  /\ Deciding(h) => Now(r) \subseteq truths[r]
      /\ h.pc \in {"activate", "reread", "rebind"} => h.call.action = "ACTIVATE"
      /\ h.pc \in {"touch", "claim", "recheck"} => h.call.action = "VERIFY"
      /\ h.pc \in {"activate", "rebind", "claim"} => h.d.result = "OK"
      /\ h.pc = "claim" => h.call.session # null
      /\ h.pc = "touch" => h.d.result = "OK" /\ TrueOnce(r)
      /\ h.pc \in {"markExpired", "expireAgain"} =>
           h.d.result = "EXPIRED" /\ TrueOnce(r)
      /\ Answering(h) => AnswerTold(r)

HistoryOK == truths \in [Request -> SUBSET ResultCode]

ToldInv == IInv /\ HistoryOK /\ \A r \in Request : Told(r)

\* While a handler decides, the history takes in what becomes true.
LEMMA WitnessDeciding ==
  ASSUME HNext, NEW r \in Request, Deciding(req[r]), req'[r].pc # "idle",
         req'[r].call = req[r].call
  PROVE  LET now == truths[r] \cup
                    TruthsOf(cards'[req[r].call.card], req[r].call, req[r].at)
         IN  truths'[r] = IF Answering(req'[r])
                          THEN now \cap {req'[r].d.result} ELSE now
BY DEF HNext, Witness, Deciding

LEMMA WitnessRest ==
  ASSUME HNext, NEW r \in Request
  PROVE  /\ req'[r].pc = "idle" => truths'[r] = {}
         /\ req'[r].pc # "idle" /\ Answering(req[r]) => truths'[r] = truths[r]
         /\ req'[r].pc # "idle" /\ req[r].pc = "idle" =>
              LET now == truths[r] \cup
                         TruthsOf(cards'[req'[r].call.card], req'[r].call, req'[r].at)
              IN  truths'[r] = IF Answering(req'[r])
                               THEN now \cap {req'[r].d.result} ELSE now
BY DEF HNext, Witness, Answering

\* The decision on a row is true of the row, unless a write is still to make
\* it so: an activation, a rebinding, a claim.
LEMMA DecisionTrue ==
  ASSUME NEW row \in CardRow, NEW call \in Calls, NEW at \in Time
  PROVE  LET d == decide(call, row, at)
         IN  /\ IF d.effect \in {"activate", "rebind", "session"}
                THEN d.result = "OK" ELSE d.result \in TruthsOf(row, call, at)
             /\ d.effect \in {"activate", "rebind"} => call.action = "ACTIVATE"
             /\ d.effect \in {"heartbeat", "session"} => call.action = "VERIFY"
             /\ d.effect = "session" => Licensed(row, call, at)
             /\ d.effect = "heartbeat" => d.result = "OK"
             /\ d.effect = "markExpired" => d.result = "EXPIRED"
             /\ d.result # "CONCURRENT_SESSION"
<1> DEFINE d == decide(call, row, at)
<1>0. /\ row # null /\ row.status \in Status
      /\ row.expiresAt \in Optional(Nat) /\ at \in Nat /\ null \notin Nat
      /\ call.action \in {"ACTIVATE", "VERIFY"}
      /\ call.action = "ACTIVATE" => call.session = null
  BY LogicAssumption, StoreAssumption, ServiceAssumption DEF CardRow, Call, Time
<1>1. isExpired(row, at) <=> row.expiresAt \in 0 .. at
  BY <1>0 DEF isExpired, Optional
<1>2. ~isExpired(row, at) => (row.expiresAt # null => row.expiresAt > at)
  BY <1>0 DEF isExpired, Optional
<1>3. CASE row.status # "ACTIVE"
  BY <1>0, <1>3 DEF decide, decideActivate, decideVerify, Status, Verdict, Granted,
    TruthsOf, ResultCode
<1>4. CASE row.status = "ACTIVE" /\ isExpired(row, at)
  BY <1>0, <1>1, <1>4 DEF decide, decideActivate, decideVerify, Verdict, TruthsOf,
    ResultCode
<1>5. CASE row.status = "ACTIVE" /\ ~isExpired(row, at) /\ call.action = "ACTIVATE"
  BY <1>0, <1>2, <1>5 DEF decide, decideActivate, Verdict, TruthsOf, ResultCode,
    Licensed, HoldsSession
<1>6. CASE row.status = "ACTIVE" /\ ~isExpired(row, at) /\ call.action = "VERIFY"
  BY <1>0, <1>2, <1>6 DEF decide, decideVerify, Verdict, TruthsOf, ResultCode,
    Licensed, HoldsSession
<1> QED
  BY <1>0, <1>3, <1>4, <1>5, <1>6

\* The verdict on a claim that missed: a conflict only where the licence runs
\* on this device, and any other one true.
LEMMA MissTrue ==
  ASSUME NEW h, h.call \in Calls, h.at \in Time, NEW row \in Optional(CardRow)
  PROVE  LET d == MissVerdict(row, h)
         IN  /\ d.result # "OK"
             /\ d.result # "CONCURRENT_SESSION" => d.result \in TruthsOf(row, h.call, h.at)
             /\ d.result = "CONCURRENT_SESSION" => row # null /\ row.status = "ACTIVE"
             /\ d.effect = "markExpired" => d.result = "EXPIRED"
<1>1. CASE row = null
  BY <1>1 DEF MissVerdict, NotFound, Verdict, TruthsOf
<1>2. CASE row # null
  <2> DEFINE base == decideVerify(row, h.call.hwid, null, h.at)
  <2>0. /\ row \in CardRow /\ row.status \in Status
        /\ row.expiresAt \in Optional(Nat) /\ h.at \in Nat /\ null \notin Nat
    BY <1>2, LogicAssumption DEF CardRow, Time, Optional
  <2>1. isExpired(row, h.at) <=> row.expiresAt \in 0 .. h.at
    BY <2>0 DEF isExpired, Optional
  <2>2. /\ base.result = "OK" => row.status = "ACTIVE"
        /\ base.result # "OK" => base.result \in TruthsOf(row, h.call, h.at)
        /\ base.result # "CONCURRENT_SESSION"
        /\ base.effect = "markExpired" => base.result = "EXPIRED"
    <3>1. CASE row.status # "ACTIVE"
      BY <1>2, <2>0, <3>1 DEF decideVerify, Status, Verdict, TruthsOf, ResultCode
    <3>2. CASE row.status = "ACTIVE"
      BY <1>2, <2>0, <2>1, <3>2 DEF decideVerify, Verdict, TruthsOf, ResultCode
    <3> QED
      BY <3>1, <3>2
  <2> HIDE DEF base
  <2>3. MissVerdict(row, h) = IF base.result = "OK"
                              THEN Verdict("CONCURRENT_SESSION", "none") ELSE base
    BY <1>2 DEF MissVerdict, base
  <2> QED
    BY <1>2, <2>2, <2>3 DEF Verdict
<1> QED
  BY <1>1, <1>2

-----------------------------------------------------------------------------
(* Steps.                                                                  *)

\* A handler that does not step witnesses what the others do.
LEMMA BystanderTold ==
  ASSUME ToldInv, HNext, NEW r \in Request, req'[r] = req[r]
  PROVE  /\ Told(r)'
         /\ req[r].pc # "idle" => truths[r] \subseteq truths'[r]
<1>1. CASE req[r].pc = "idle"
  BY <1>1 DEF Told, Deciding, Answering
<1>2. CASE Answering(req[r])
  <2>1. truths'[r] = truths[r] /\ req[r].pc # "idle"
    BY <1>2, WitnessRest DEF Answering
  <2> QED
    BY <1>2, <2>1 DEF ToldInv, Told, Deciding, Answering, AnswerTold, TrueOnce
<1>3. CASE Deciding(req[r])
  <2>1. /\ truths'[r] = truths[r] \cup TruthsOf(cards'[req[r].call.card],
                                               req[r].call, req[r].at)
        /\ ~Answering(req[r])
    BY <1>3, WitnessDeciding DEF Deciding
  <2>2. Now(r)' \subseteq truths'[r] /\ truths[r] \subseteq truths'[r]
    BY <2>1 DEF Now, Row
  <2> QED
    BY <2>1, <2>2 DEF ToldInv, Told, AnswerTold, TrueOnce, Answering
<1> QED
  BY <1>1, <1>2, <1>3 DEF Deciding

\* A handler that goes on deciding keeps what it witnessed.
LEMMA MovesOn ==
  ASSUME ToldInv, HNext, NEW r \in Request, Deciding(req[r]), Deciding(req'[r]),
         req'[r].call = req[r].call, req'[r].at = req[r].at
  PROVE  Now(r)' \subseteq truths'[r] /\ truths[r] \subseteq truths'[r]
<1>1. truths'[r] = truths[r] \cup TruthsOf(cards'[req[r].call.card],
                                           req[r].call, req[r].at)
  BY WitnessDeciding DEF Deciding
<1> QED
  BY <1>1 DEF Now, Row

\* A handler that has its result answers what it witnessed.
LEMMA Concludes ==
  ASSUME ToldInv, HNext, NEW r \in Request, Deciding(req[r]),
         NEW result \in ResultCode, NEW pc \in {"log", "logUnknown"},
         Finish(r, result, pc)
  PROVE  /\ req'[r].pc = pc /\ req'[r].call = req[r].call /\ req'[r].d.result = result
         /\ TrueOnce(r)' <=>
              \/ result \in truths[r]
              \/ result \in TruthsOf(cards'[req[r].call.card], req[r].call, req[r].at)
<1>1. /\ req'[r].pc = pc /\ req'[r].call = req[r].call
      /\ req'[r].d.result = result
  BY DEF ToldInv, IInv, TypeOK, ServiceOK, Handler, Finish, Verdict
<1>2. truths'[r] = {result} \cap
        (truths[r] \cup TruthsOf(cards'[req[r].call.card], req[r].call, req[r].at))
  BY <1>1, WitnessDeciding DEF Answering
<1> QED
  BY <1>1, <1>2 DEF TrueOnce

LEMMA ConcludesTold ==
  ASSUME ToldInv, HNext, NEW r \in Request, Deciding(req[r]),
         NEW result \in ResultCode, NEW pc \in {"log", "logUnknown"},
         Finish(r, result, pc),
         result = "CONCURRENT_SESSION" => req[r].call.action = "VERIFY",
         result \notin {"OK", "CONCURRENT_SESSION"} => result \in truths[r],
         req[r].call.action = "VERIFY" /\ req[r].call.session = null /\ result = "OK"
           => result \in truths[r]
  PROVE  Told(r)'
<1>1. /\ req'[r].pc = pc /\ req'[r].call = req[r].call /\ req'[r].d.result = result
      /\ result \in truths[r] => TrueOnce(r)'
  BY Concludes
<1>2. req[r].call.action \in {"ACTIVATE", "VERIFY"}
  <2>1. req[r].call \in Call
    BY ServiceAssumption DEF ToldInv, IInv, TypeOK, ServiceOK, Deciding
  <2> QED
    BY <2>1 DEF Call
<1>3. AnswerTold(r)'
  BY <1>1, <1>2 DEF AnswerTold
<1> QED
  BY <1>1, <1>3 DEF Told, Deciding, Answering

\* Where a decision leads.
LEMMA DecisionTold ==
  ASSUME ToldInv, HNext, NEW r \in Request, Deciding(req[r]), Row(r) # null,
         NEW pc, pc \in {StepFor(decide(req[r].call, Row(r), req[r].at)), "log"},
         pc = "log" => decide(req[r].call, Row(r), req[r].at).effect \in {"none", "activate"},
         Conclude(r, decide(req[r].call, Row(r), req[r].at), pc)
  PROVE  Told(r)'
<1> DEFINE d == decide(req[r].call, Row(r), req[r].at)
<1>0. /\ Row(r) \in CardRow /\ req[r].call \in Calls /\ req[r].at \in Time
      /\ req[r] \in Handler /\ req \in [Request -> Handler]
  BY RowType DEF ToldInv, IInv, TypeOK, ServiceOK, Deciding
<1>1. /\ IF d.effect \in {"activate", "rebind", "session"}
         THEN d.result = "OK" ELSE d.result \in Now(r)
      /\ d.effect \in {"activate", "rebind"} => req[r].call.action = "ACTIVATE"
      /\ d.effect \in {"heartbeat", "session"} => req[r].call.action = "VERIFY"
      /\ d.effect = "heartbeat" => d.result = "OK"
      /\ d.effect = "markExpired" => d.result = "EXPIRED"
      /\ d.result # "CONCURRENT_SESSION"
  BY <1>0, DecisionTrue DEF Now
<1>2. d \in Decision /\ (d.effect = "session" => req[r].call.session # null)
  BY <1>0, Decides
<1>3. Now(r) \subseteq truths[r]
  BY DEF ToldInv, Told
<1>5. CASE pc = "log"
  <2>1. Finish(r, d.result, "log") /\ d.result \in ResultCode
    BY <1>2, <1>5 DEF Conclude, Decision
  <2>2. d.effect = "activate" => d.result = "OK" /\ req[r].call.action # "VERIFY"
    BY <1>1
  <2>3. d.effect = "none" => d.result \in truths[r]
    BY <1>1, <1>3
  <2> HIDE DEF d
  <2> QED
    BY <1>1, <1>5, <2>1, <2>2, <2>3, ConcludesTold DEF d
<1>6. CASE pc # "log"
  <2>1. /\ req'[r].pc = pc /\ req'[r].d = d
        /\ req'[r].call = req[r].call /\ req'[r].at = req[r].at
    <3> HIDE DEF d
    <3> QED
      BY <1>0, <1>6 DEF Conclude, Handler, d
  <2>2. pc = StepFor(d)
    BY <1>6
  <2> HIDE DEF d
  <2>3. /\ pc \in {"activate", "markExpired", "rebind", "claim", "touch"}
        /\ pc = "activate" <=> d.effect = "activate"
        /\ pc = "markExpired" <=> d.effect = "markExpired"
        /\ pc = "rebind" <=> d.effect = "rebind"
        /\ pc = "claim" <=> d.effect = "session"
        /\ pc = "touch" <=> d.effect = "heartbeat"
    BY <1>2, <1>6, <2>2 DEF StepFor, Decision, Effect
  <2>4. Deciding(req'[r]) /\ ~Answering(req'[r])
    BY <2>1, <2>3 DEF Deciding, Answering
  <2>5. Now(r)' \subseteq truths'[r] /\ truths[r] \subseteq truths'[r]
    BY <2>1, <2>4, MovesOn
  <2>6. pc \in {"markExpired", "touch"} => TrueOnce(r)'
    BY <1>1, <1>3, <2>1, <2>3, <2>5 DEF TrueOnce
  <2> QED
    BY <1>1, <1>2, <2>1, <2>3, <2>4, <2>5, <2>6 DEF Told
<1> QED
  BY <1>5, <1>6

\* A handler that steps: what it knows next.
LEMMA HandlerTold ==
  ASSUME ToldInv, HNext, NEW r \in Request, RequestStep(r)
  PROVE  Told(r)'
<1>0. /\ req[r] \in Handler /\ req \in [Request -> Handler] /\ Told(r)
      /\ req[r].pc \notin {"idle", "find"} => req[r].d.result \in ResultCode
      /\ req[r].pc # "idle" =>
           /\ req[r].call \in Calls /\ req[r].at \in Time
           /\ Row(r) \in Optional(CardRow)
  BY RowType DEF ToldInv, IInv, TypeOK, ServiceOK, Decision, Optional
<1>1. CASE Start(r)
  <2>1. PICK call \in Calls : req' = [req EXCEPT ![r] =
                 [pc |-> "find", call |-> call, at |-> clock, d |-> null]]
    BY <1>1 DEF Start, Arrive
  <2>2. req'[r] = [pc |-> "find", call |-> call, at |-> clock, d |-> null]
    BY <1>0, <2>1
  <2>3. Now(r)' \subseteq truths'[r]
    <3>1. req[r].pc = "idle" /\ req'[r].pc = "find" /\ ~Answering(req'[r])
      BY <1>1, <2>2 DEF Start, Arrive, Answering
    <3>2. truths'[r] = truths[r] \cup
            TruthsOf(cards'[req'[r].call.card], req'[r].call, req'[r].at)
      BY <3>1, WitnessRest
    <3> QED
      BY <3>2 DEF Now, Row
  <2> QED
    BY <2>2, <2>3 DEF Told, Answering
<1>2. CASE FindUnknown(r) \/ RereadUnknown(r)
  <2>1. Deciding(req[r]) /\ Now(r) = {"NOT_FOUND"}
    BY <1>2 DEF FindUnknown, RereadUnknown, Deciding, Answering, Now, TruthsOf
  <2>2. "NOT_FOUND" \in truths[r]
    BY <1>0, <2>1 DEF Told
  <2>3. Finish(r, "NOT_FOUND", "logUnknown")
    BY <1>2 DEF FindUnknown, RereadUnknown
  <2> QED
    BY <2>1, <2>2, <2>3, ConcludesTold DEF ResultCode
<1>3. CASE Find(r)
  <2>1. Deciding(req[r]) /\ Row(r) # null
    BY <1>3 DEF Find, Deciding, Answering
  <2> DEFINE d == decide(req[r].call, Row(r), req[r].at)
  <2>2. d \in Decision
    <3>1. Row(r) \in CardRow /\ req[r].call \in Calls /\ req[r].at \in Time
      BY <1>0, <2>1 DEF Optional, Deciding
    <3> QED
      BY <3>1, Decides
  <2>3. StepFor(d) = "log" => d.effect = "none"
    BY <2>2 DEF StepFor, Decision, Effect
  <2> QED
    BY <1>3, <2>1, <2>3, DecisionTold DEF Find
<1>4. CASE Reread(r)
  <2>1. Deciding(req[r]) /\ Row(r) # null
    BY <1>4 DEF Reread, Deciding, Answering
  <2> DEFINE d == decide(req[r].call, Row(r), req[r].at)
  <2>2. d \in Decision
    <3>1. Row(r) \in CardRow /\ req[r].call \in Calls /\ req[r].at \in Time
      BY <1>0, <2>1 DEF Optional, Deciding
    <3> QED
      BY <3>1, Decides
  <2>3. AfterReread(d) = "log" => d.effect \in {"none", "activate"}
    BY <2>2 DEF AfterReread, StepFor, Decision, Effect
  <2>4. AfterReread(d) \in {StepFor(d), "log"} /\ Conclude(r, d, AfterReread(d))
    BY <1>4 DEF AfterReread, Reread
  <2> HIDE DEF d
  <2> QED
    BY <2>1, <2>3, <2>4, DecisionTold DEF d
<1>5. CASE Activate(r) \/ Rebind(r) \/ Claim(r) \/ Touch(r) \/ MarkExpired(r)
  <2>1. Deciding(req[r]) /\ req[r].d.result \in ResultCode
    BY <1>0, <1>5 DEF Activate, Rebind, Claim, Touch, MarkExpired, Deciding, Answering
  <2>2. Finish(r, req[r].d.result, "log")
    BY <1>5 DEF Activate, Rebind, Claim, Touch, MarkExpired
  <2>3. /\ req[r].d.result \in {"OK", "EXPIRED"}
        /\ req[r].d.result = "EXPIRED" => TrueOnce(r)
        /\ req[r].call.action = "VERIFY" /\ req[r].call.session = null
             => TrueOnce(r)
    BY <1>0, <1>5 DEF Told, Activate, Rebind, Claim, Touch, MarkExpired
  <2> QED
    BY <2>1, <2>2, <2>3, ConcludesTold DEF TrueOnce
<1>6. CASE LoseActivation(r) \/ MissClaim(r)
  <2>1. PICK pc \in {"reread", "recheck"} :
          /\ req' = [req EXCEPT ![r].pc = pc]
          /\ IF pc = "reread" THEN req[r].pc = "activate" ELSE req[r].pc = "claim"
    BY <1>6 DEF LoseActivation, MissClaim, Goto
  <2>2. req'[r] = [req[r] EXCEPT !.pc = pc]
    BY <1>0, <2>1
  <2>3. /\ req'[r].pc = pc /\ req'[r].call = req[r].call /\ req'[r].at = req[r].at
    BY <1>0, <2>2 DEF Handler
  <2>4. Deciding(req[r]) /\ Deciding(req'[r]) /\ ~Answering(req'[r])
    BY <2>1, <2>3 DEF Deciding, Answering
  <2>5. Now(r)' \subseteq truths'[r]
    BY <2>3, <2>4, MovesOn
  <2> QED
    BY <1>0, <2>1, <2>3, <2>4, <2>5 DEF Told
<1>7. CASE Recheck(r)
  <2> DEFINE d == MissVerdict(Row(r), req[r])
             pc == IF d.effect = "markExpired" THEN "expireAgain" ELSE "log"
  <2>1. /\ d.result # "OK"
        /\ d.result # "CONCURRENT_SESSION" => d.result \in Now(r)
        /\ d.effect = "markExpired" => d.result = "EXPIRED"
    BY <1>0, <1>7, MissTrue DEF Recheck, Now
  <2>2. Deciding(req[r]) /\ req[r].call.action = "VERIFY"
    BY <1>0, <1>7 DEF Recheck, Deciding, Answering, Told
  <2>3. d.result # "CONCURRENT_SESSION" => d.result \in truths[r]
    BY <1>0, <2>1, <2>2 DEF Told
  <2>4. Conclude(r, d, pc)
    BY <1>7 DEF Recheck
  <2>5. d.result \in ResultCode
    BY <2>1 DEF Now, TruthsOf, ResultCode
  <2> HIDE DEF d
  <2>6. CASE d.effect = "markExpired"
    <3>1. /\ req'[r].pc = "expireAgain" /\ req'[r].d = d
          /\ req'[r].call = req[r].call /\ req'[r].at = req[r].at
      BY <1>0, <2>4, <2>6 DEF Conclude, Handler
    <3>2. Deciding(req'[r]) /\ ~Answering(req'[r])
      BY <3>1 DEF Deciding, Answering
    <3>3. Now(r)' \subseteq truths'[r] /\ truths[r] \subseteq truths'[r]
      BY <2>2, <3>1, <3>2, MovesOn
    <3> QED
      BY <2>1, <2>3, <2>6, <3>1, <3>2, <3>3 DEF Told, TrueOnce
  <2>7. CASE d.effect # "markExpired"
    <3>1. Finish(r, d.result, "log")
      BY <2>4, <2>7 DEF Conclude
    <3> QED
      BY <2>1, <2>2, <2>3, <2>5, <3>1, ConcludesTold
  <2> QED
    BY <2>6, <2>7
<1>8. CASE Reply(r) \/ LogFails(r) \/ Abort(r)
  <2>1. req'[r].pc = "idle"
    BY <1>0, <1>8 DEF Reply, LogFails, Abort, Idle
  <2> QED
    BY <2>1 DEF Told, Deciding, Answering
<1> QED
  BY <1>1, <1>2, <1>3, <1>4, <1>5, <1>6, <1>7, <1>8
    DEF RequestStep, HandlerStep, Statement

\* A step is a handler's, or no handler's.
LEMMA Steps ==
  ASSUME IInv, HNext, NEW r \in Request
  PROVE  RequestStep(r) \/ req'[r] = req[r]
<1>1. ASSUME NEW q \in Request, RequestStep(q), q # r
      PROVE  req'[r] = req[r]
  BY <1>1, OthersStay DEF IInv, TypeOK
<1> QED
  BY <1>1 DEF HNext, Next, TimePasses, ClientStep, ConsoleStep

LEMMA StepTold == ToldInv /\ [HNext]_hvars => ToldInv'
<1> SUFFICES ASSUME ToldInv, [HNext]_hvars PROVE ToldInv'
  OBVIOUS
<1>1. CASE UNCHANGED hvars
  <2>1. UNCHANGED <<cards, clock, req, adm, truths>>
    BY <1>1 DEF hvars, vars
  <2>2. IInv'
    BY StepIInv, <2>1 DEF ToldInv, vars
  <2>3. ASSUME NEW r \in Request PROVE Told(r)'
    BY <2>1 DEF ToldInv, Told, Deciding, Answering, Now, Row, TrueOnce, AnswerTold
  <2> QED
    BY <2>1, <2>2, <2>3 DEF ToldInv, HistoryOK
<1>2. CASE HNext
  <2>1. IInv'
    BY <1>2, StepIInv DEF HNext, ToldInv
  <2>2. \A r \in Request : Told(r)'
    BY <1>2, Steps, BystanderTold, HandlerTold DEF ToldInv
  <2>3. HistoryOK'
    <3>1. ASSUME NEW r \in Request
          PROVE  Witness(req[r], req'[r], truths[r]) \in SUBSET ResultCode
      BY DEF ToldInv, HistoryOK, Witness, TruthsOf, ResultCode
    <3> QED
      BY <1>2, <3>1 DEF HistoryOK, HNext
  <2> QED
    BY <2>1, <2>2, <2>3 DEF ToldInv
<1> QED
  BY <1>1, <1>2

\* Nothing has been asked, nothing witnessed.
LEMMA InitTold == HInit => ToldInv
<1> SUFFICES ASSUME HInit PROVE ToldInv
  OBVIOUS
<1>1. IInv
  BY InitIInv DEF HInit
<1>2. \A r \in Request : Told(r)
  BY DEF HInit, Init, InitService, Idle, Told, Deciding, Answering
<1> QED
  BY <1>1, <1>2 DEF ToldInv, HistoryOK, HInit

\* The invariant of the history.
THEOREM History == HSpec => []ToldInv
BY InitTold, StepTold, PTL DEF HSpec

Refusal(r) ==
  /\ Answering(req[r]) /\ req[r].d.result \notin {"OK", "CONCURRENT_SESSION"}
       => TrueOnce(r)
  /\ Answered(r, "VERIFY", {"OK"}) /\ req[r].call.session = null => TrueOnce(r)

\* Every refusal except a conflict is true at some moment while the request
\* runs, as is an OK to a heartbeat without a session: whatever the console
\* does and however many requests race (card.service.ts:56-185).
THEOREM Refusals == HSpec => [](\A r \in Request : Refusal(r))
<1>1. ToldInv => \A r \in Request : Refusal(r)
  BY DEF ToldInv, Told, AnswerTold, Refusal, Answered
<1> QED
  BY <1>1, History, PTL

-----------------------------------------------------------------------------
(* The OK to a heartbeat with a session is written by the claim, on a row  *)
(* whose term was looked at earlier: it is true as long as no term is cut  *)
(* short in between.                                                       *)

InTerm(row, at) ==
  row.activated /\ (row.expiresAt # null => row.expiresAt > at)

GrantTold(r) ==
  /\ req[r].pc = "claim" /\ Row(r) # null => InTerm(Row(r), req[r].at)
  /\ Answered(r, "VERIFY", {"OK"}) => TrueOnce(r)

VerdictInv == ToldInv /\ \A r \in Request : GrantTold(r)

NoTermCut == \A c \in CardId : TimeKept(c)

\* A licence in its term stays in it.
LEMMA StaysInTerm ==
  ASSUME IInv, [Next]_vars, NEW c \in CardId, TimeKept(c), NEW at \in Time,
         cards'[c] # null, InTerm(cards[c], at)
  PROVE  InTerm(cards'[c], at)
<1>1. /\ cards[c] # null /\ ConsistentTerms(cards'[c])
      /\ cards[c].durationDays = null <=> cards'[c].durationDays = null
      /\ cards[c].activated => cards'[c].activated
  BY NextEvolves DEF AllEvolve, Evolves
<1>2. /\ cards[c] \in CardRow /\ ConsistentTerms(cards[c])
  BY <1>1 DEF IInv, TypeOK, StoreOK, LicenceTermsConsistent, Exists, Optional
<1>3. cards'[c] \in CardRow
  BY StepIInv DEF IInv, TypeOK, StoreOK, Optional
<1>4. cards'[c].activated
  BY <1>1 DEF InTerm
<1>5. ASSUME cards'[c].expiresAt # null
      PROVE  cards'[c].expiresAt > at
  <2>1. cards[c].expiresAt # null
    BY <1>1, <1>2, <1>4, <1>5 DEF ConsistentTerms, InTerm
  <2>2. cards[c].expiresAt > at /\ cards'[c].expiresAt >= cards[c].expiresAt
    BY <1>1, <2>1 DEF InTerm, TimeKept, Rows
  <2>3. cards[c].expiresAt \in Nat /\ cards'[c].expiresAt \in Nat /\ at \in Nat
    BY <1>2, <1>3, <1>5, <2>1 DEF CardRow, Optional, Time
  <2> QED
    BY <2>2, <2>3
<1> QED
  BY <1>4, <1>5 DEF InTerm

\* A handler that does not step.
LEMMA BystanderGrant ==
  ASSUME VerdictInv, HNext, NoTermCut, NEW r \in Request, req'[r] = req[r]
  PROVE  GrantTold(r)'
<1>1. ASSUME req[r].pc = "claim", Row(r)' # null
      PROVE  InTerm(Row(r)', req[r].at)
  <2>1. req[r].call.card \in CardId /\ req[r].at \in Time
    BY <1>1, RowType DEF VerdictInv, ToldInv, IInv, TypeOK
  <2>2. Row(r) # null
    BY <1>1, <2>1, NextEvolves DEF VerdictInv, ToldInv, HNext, AllEvolve, Evolves, Row
  <2>3. InTerm(cards[req[r].call.card], req[r].at) /\ TimeKept(req[r].call.card)
    BY <1>1, <2>1, <2>2 DEF VerdictInv, GrantTold, NoTermCut, Row
  <2> QED
    BY <1>1, <2>1, <2>3, StaysInTerm DEF VerdictInv, ToldInv, HNext, Row
<1>2. ASSUME Answered(r, "VERIFY", {"OK"})
      PROVE  TrueOnce(r)'
  <2>1. truths'[r] = truths[r]
    BY <1>2, WitnessRest DEF Answered, Answering
  <2> QED
    BY <1>2, <2>1 DEF VerdictInv, GrantTold, TrueOnce
<1> QED
  BY <1>1, <1>2 DEF GrantTold, Answered, Answering

\* What a claim that hits makes true.
LEMMA ClaimTrue ==
  ASSUME VerdictInv, HNext, NEW r \in Request, Claim(r)
  PROVE  TrueOnce(r)'
<1>1. /\ Row(r) # null /\ Row(r).status = "ACTIVE"
      /\ Row(r).hwid = req[r].call.hwid /\ req[r].pc = "claim"
      /\ SetRow(req[r].call.card, ClaimedRow(Row(r), req[r]))
      /\ Finish(r, req[r].d.result, "log")
  BY DEF Claim, ClaimWhere, BoundRow, ActiveRow
<1>2. /\ req[r].call.card \in CardId /\ Row(r) \in CardRow /\ req[r].d.result = "OK"
      /\ Deciding(req[r]) /\ req[r].call.session \in Optional(SessionId)
  BY <1>1, RowType DEF VerdictInv, ToldInv, IInv, TypeOK, Told, Deciding, Answering
<1> DEFINE new == cards'[req[r].call.card]
<1>3. new = ClaimedRow(Row(r), req[r])
  BY <1>1, <1>2 DEF SetRow, VerdictInv, ToldInv, IInv, TypeOK, StoreOK
<1>4. /\ new.status = "ACTIVE" /\ new.hwid = req[r].call.hwid
      /\ new.sessionId = req[r].call.session /\ new.expiresAt = Row(r).expiresAt
  BY <1>1, <1>2, <1>3 DEF ClaimedRow, CardRow
<1>5. new # null
  <2>1. req[r].at \in Time
    BY <1>1, RowType DEF VerdictInv, ToldInv, IInv, TypeOK
  <2>2. ClaimedRow(Row(r), req[r]) \in CardRow
    BY <1>2, <2>1 DEF ClaimedRow, CardRow, Optional
  <2> QED
    BY <1>3, <2>2, StoreAssumption
<1>6. InTerm(Row(r), req[r].at)
  BY <1>1 DEF VerdictInv, GrantTold
<1> HIDE DEF new
<1>7. "OK" \in TruthsOf(new, req[r].call, req[r].at)
  BY <1>4, <1>5, <1>6 DEF TruthsOf, ResultCode, Licensed, HoldsSession, InTerm
<1> QED
  BY <1>1, <1>2, <1>7, Concludes DEF new, ResultCode, VerdictInv

\* A handler that steps.
LEMMA HandlerGrant ==
  ASSUME VerdictInv, HNext, NEW r \in Request, RequestStep(r)
  PROVE  GrantTold(r)'
<1>0. /\ ToldInv /\ Told(r) /\ req[r] \in Handler /\ req \in [Request -> Handler]
      /\ req[r].pc # "idle" =>
           /\ req[r].call \in Calls /\ req[r].at \in Time
           /\ Row(r) # null => Row(r) \in CardRow /\ ConsistentTerms(Row(r))
           /\ Row(r) \in Optional(CardRow)
  BY RowType DEF VerdictInv, ToldInv, IInv, TypeOK, ServiceOK, LicenceTermsConsistent,
    Exists, Row, Optional
<1>1. CASE Find(r) \/ Reread(r)
  <2> DEFINE d == decide(req[r].call, Row(r), req[r].at)
  <2>1. /\ Row(r) \in CardRow /\ req[r].call \in Calls /\ req[r].at \in Time
        /\ ConsistentTerms(Row(r)) /\ Deciding(req[r]) /\ UNCHANGED cards
    BY <1>0, <1>1 DEF Find, Reread, Deciding, Answering, storeVars
  <2>2. /\ d.effect \notin {"activate", "rebind", "session"} => d.result \in truths[r]
        /\ d.effect \in {"activate", "rebind"} => req[r].call.action = "ACTIVATE"
        /\ d.effect = "session" => Licensed(Row(r), req[r].call, req[r].at)
        /\ d \in Decision
    BY <1>0, <2>1, DecisionTrue, Decides DEF Told, Now
  <2>3. PICK pc : Conclude(r, d, pc) /\ pc \in {StepFor(d), "log"}
                  /\ (pc = "log" => d.effect \in {"none", "activate"})
    <3>1. StepFor(d) = "log" => d.effect = "none"
      BY <2>2 DEF StepFor, Decision, Effect
    <3>2. CASE Find(r)
      BY <3>1, <3>2 DEF Find
    <3>3. CASE Reread(r)
      BY <3>1, <3>3 DEF Reread, AfterReread
    <3> QED
      BY <1>1, <3>2, <3>3
  <2> HIDE DEF d
  <2>4. CASE pc = "log"
    <3>1. Finish(r, d.result, "log") /\ d.result \in ResultCode
      BY <2>2, <2>3, <2>4 DEF Conclude, Decision
    <3>2. /\ req'[r].pc = "log" /\ req'[r].call = req[r].call
          /\ d.result \in truths[r] => TrueOnce(r)'
      BY <1>0, <2>1, <3>1, Concludes
    <3>3. req[r].call.action = "VERIFY" => d.result \in truths[r]
      BY <2>2, <2>3, <2>4
    <3> QED
      BY <3>2, <3>3 DEF GrantTold, Answered
  <2>5. CASE pc # "log"
    <3>1. /\ req'[r].pc = pc /\ req'[r].call = req[r].call /\ req'[r].at = req[r].at
          /\ pc \notin {"log", "logUnknown"}
          /\ pc = "claim" => d.effect = "session"
      BY <1>0, <2>2, <2>3, <2>5 DEF Conclude, Handler, StepFor, Decision, Effect
    <3>2. d.effect = "session" => InTerm(Row(r), req[r].at)
      BY <2>1, <2>2 DEF Licensed, InTerm, ConsistentTerms
    <3> QED
      BY <2>1, <3>1, <3>2 DEF GrantTold, Answered, Answering, Row
  <2> QED
    BY <2>4, <2>5
<1>2. CASE Claim(r)
  <2>1. req'[r].pc = "log"
    BY <1>0, <1>2 DEF Claim, Finish, Handler
  <2> QED
    BY <1>2, <2>1, ClaimTrue DEF GrantTold
<1>3. CASE Activate(r) \/ Rebind(r) \/ Touch(r) \/ MarkExpired(r)
  <2>1. /\ Deciding(req[r]) /\ Finish(r, req[r].d.result, "log")
        /\ req[r].d.result \in {"OK", "EXPIRED"}
        /\ req[r].call.action = "VERIFY" => TrueOnce(r)
    BY <1>0, <1>3 DEF Activate, Rebind, Touch, MarkExpired, Deciding, Answering, Told
  <2>2. /\ req'[r].pc = "log" /\ req'[r].call = req[r].call
        /\ TrueOnce(r) => TrueOnce(r)'
    BY <1>0, <2>1, Concludes DEF ResultCode, TrueOnce
  <2> QED
    BY <2>1, <2>2 DEF GrantTold, Answered
<1>4. CASE Recheck(r)
  <2> DEFINE d == MissVerdict(Row(r), req[r])
  <2>1. d.result # "OK"
    BY <1>0, <1>4, MissTrue DEF Recheck
  <2> HIDE DEF d
  <2>2. req'[r].pc # "claim" /\ req'[r].d.result # "OK"
    BY <1>0, <1>4, <2>1 DEF Recheck, Conclude, Finish, Handler, Verdict, d
  <2> QED
    BY <2>2 DEF GrantTold, Answered
<1>5. CASE Start(r) \/ LoseActivation(r) \/ MissClaim(r) \/ Reply(r) \/ LogFails(r)
           \/ Abort(r)
  <2>1. req'[r].pc \in {"find", "reread", "recheck", "idle"}
    BY <1>0, <1>5 DEF Start, Arrive, LoseActivation, MissClaim, Goto, Reply, LogFails,
      Abort, Idle, Handler
  <2> QED
    BY <2>1 DEF GrantTold, Answered, Answering
<1>6. CASE FindUnknown(r) \/ RereadUnknown(r)
  <2>1. req'[r].pc = "logUnknown" /\ req'[r].d.result = "NOT_FOUND"
    BY <1>0, <1>6 DEF FindUnknown, RereadUnknown, Finish, Handler, Verdict
  <2> QED
    BY <2>1 DEF GrantTold, Answered
<1> QED
  BY <1>1, <1>2, <1>3, <1>4, <1>5, <1>6 DEF RequestStep, HandlerStep, Statement

LEMMA StepVerdict ==
  ASSUME VerdictInv, [HNext]_hvars, [NoTermCut]_vars
  PROVE  VerdictInv'
<1>1. ToldInv'
  BY StepTold DEF VerdictInv
<1>2. CASE UNCHANGED hvars
  BY <1>1, <1>2 DEF hvars, vars, VerdictInv, GrantTold, Answered, Answering, TrueOnce,
    Row
<1>3. CASE HNext /\ NoTermCut
  BY <1>1, <1>3, Steps, BystanderGrant, HandlerGrant DEF VerdictInv, ToldInv
<1>4. CASE HNext /\ UNCHANGED vars
  <2>1. NoTermCut
    <3>1. ASSUME NEW c \in CardId PROVE TimeKept(c)
      BY <1>4 DEF vars, TimeKept, Rows, VerdictInv, ToldInv, IInv, TypeOK, StoreOK,
        Optional, CardRow, Time
    <3> QED
      BY <3>1 DEF NoTermCut
  <2> QED
    BY <1>1, <1>4, <2>1, Steps, BystanderGrant, HandlerGrant DEF VerdictInv, ToldInv
<1> QED
  BY <1>2, <1>3, <1>4

\* In every behaviour in which no term is cut short, whatever the console does
\* otherwise, each OK to a heartbeat and each refusal is true at some moment
\* while the request runs: the process held its session on a licence in force.
THEOREM VerdictsHold == HSpec /\ TimeNeverShrinks => []VerdictInv
<1>1. HInit => VerdictInv
  <2> SUFFICES ASSUME HInit PROVE VerdictInv
    OBVIOUS
  <2>1. ToldInv
    BY InitTold
  <2> QED
    BY <2>1 DEF HInit, Init, InitService, Idle, VerdictInv, GrantTold, Answered, Answering
<1>2. VerdictInv /\ [HNext]_hvars /\ [NoTermCut]_vars => VerdictInv'
  BY StepVerdict
<1>3. TimeNeverShrinks <=> [][NoTermCut]_vars
  BY PTL DEF TimeNeverShrinks, NoTermCut
<1> QED
  BY <1>1, <1>2, <1>3, PTL DEF HSpec

\* Without unban, and where no two extensions of a card overlap, no term is cut
\* short, so every such verdict is true, for any number of console requests.
THEOREM Verdicts ==
  ASSUME "unban" \notin AdminOps
  PROVE  HSpec /\ []NoOverlap => []VerdictTrue
<1>1. VerdictInv => VerdictTrue
  BY DEF VerdictInv, ToldInv, GrantTold, Told, AnswerTold, VerdictTrue, Answered
<1> QED
  BY <1>1, Observes, TimeOnlyGrows, VerdictsHold, PTL

-----------------------------------------------------------------------------
(* A console that neither unbans nor unbinds. With either a card may come  *)
(* back to a state it had left between two reads of a handler.             *)

NoUnbind == \A a \in Operator : adm[a].op # "unbind"

\* What every row of such a table keeps to.
Settled(row) ==
  /\ row.activated => row.hwid # null
  /\ row.sessionId # null => row.sessionSeenAt # null
  /\ row.durationDays # null => row.durationDays > 0

SettledInv ==
  /\ LifeInv
  /\ NoUnbind
  /\ \A c \in CardId : Exists(c) => Settled(cards[c])

\* What a step leaves of a row: it is not new again, a ban or an expiry is not
\* lifted, an activated licence keeps its device.
Keeps(old, new) ==
  /\ old.status # "UNUSED" => new.status # "UNUSED"
  /\ old.status \in {"BANNED", "EXPIRED"} => new.status \in {"BANNED", "EXPIRED"}
  /\ old.activated => new.activated /\ new.hwid = old.hwid

\* The writes of the client handlers, one by one.
LEMMA ClientForms ==
  ASSUME TypeOK, NEW r \in Request, RequestStep(r),
         NEW c \in CardId, cards'[c] # cards[c]
  PROVE  \/ cards[c].status = "UNUSED" /\ cards'[c] = ActivatedRow(cards[c], req[r])
         \/ /\ cards[c].status = "ACTIVE"
            /\ \/ cards'[c] = [cards[c] EXCEPT !.status = "EXPIRED"]
               \/ cards[c].hwid = null /\ cards'[c] = ReboundRow(cards[c], req[r])
               \/ cards'[c] = TouchedRow(cards[c], req[r])
               \/ cards'[c] = ClaimedRow(cards[c], req[r])
<1>0. cards \in [CardId -> Optional(CardRow)]
  BY DEF TypeOK, StoreOK
<1>1. ASSUME NEW row, SetRow(req[r].call.card, row)
      PROVE  cards[c] = Row(r) /\ cards'[c] = row
  BY <1>0, <1>1 DEF SetRow, Row
<1>2. CASE Activate(r)
  BY <1>1, <1>2 DEF Activate, ActivateWhere
<1>3. CASE MarkExpired(r)
  BY <1>1, <1>3 DEF MarkExpired, ActiveRow
<1>4. CASE Rebind(r)
  BY <1>1, <1>4 DEF Rebind, RebindWhere, ActiveRow
<1>5. CASE Touch(r)
  BY <1>1, <1>5 DEF Touch, BoundRow, ActiveRow
<1>6. CASE Claim(r)
  BY <1>1, <1>6 DEF Claim, ClaimWhere, BoundRow, ActiveRow
<1> QED
  BY <1>2, <1>3, <1>4, <1>5, <1>6 DEF RequestStep, HandlerStep, Statement, Start,
    Arrive, FindUnknown, Find, LoseActivation, RereadUnknown, Reread, MissClaim,
    Recheck, Reply, LogFails, Abort, storeVars

LEMMA ClientSettled ==
  ASSUME SettledInv, NEW r \in Request, RequestStep(r),
         NEW c \in CardId, cards[c] # null, cards'[c] # null
  PROVE  Settled(cards'[c]) /\ Keeps(cards[c], cards'[c])
<1>0. /\ cards[c] \in CardRow /\ Settled(cards[c]) /\ ConsistentTerms(cards[c])
      /\ FreshRow(cards[c]) /\ TypeOK /\ null \notin Hwid \cup Nat
  BY LogicAssumption DEF SettledInv, LifeInv, IInv, TypeOK, StoreOK, Optional, Exists,
    LicenceTermsConsistent
<1>1. CASE cards'[c] = cards[c]
  BY <1>0, <1>1 DEF Keeps
<1>2. CASE cards'[c] # cards[c]
  <2>1. c = req[r].call.card /\ req[r].pc # "idle"
    <3>1. c = req[r].call.card
      BY <1>0, <1>2, ClientWrites
    <3>2. req[r].pc = "idle" => UNCHANGED cards
      BY DEF RequestStep, HandlerStep, Statement, Start, Arrive, FindUnknown, Find,
        Activate, LoseActivation, RereadUnknown, Reread, MarkExpired, Rebind, Touch,
        Claim, MissClaim, Recheck, Reply, LogFails, Abort, storeVars
    <3> QED
      BY <1>2, <3>1, <3>2
  <2>2. req[r].call.hwid \in Hwid /\ req[r].at \in Nat
    BY <1>0, <2>1, RowType DEF TypeOK, Time
  <2>3. CASE cards[c].status = "UNUSED" /\ cards'[c] = ActivatedRow(cards[c], req[r])
    BY <1>0, <2>2, <2>3 DEF ActivatedRow, CardRow, Settled, Keeps, FreshRow
  <2>4. CASE cards[c].status = "ACTIVE"
             /\ cards'[c] = [cards[c] EXCEPT !.status = "EXPIRED"]
    BY <1>0, <2>4 DEF CardRow, Settled, Keeps
  <2>5. CASE cards[c].status = "ACTIVE" /\ cards[c].hwid = null
    BY <1>0, <2>5 DEF ConsistentTerms, Settled
  <2>6. CASE cards[c].status = "ACTIVE" /\ cards'[c] = TouchedRow(cards[c], req[r])
    BY <1>0, <2>6 DEF TouchedRow, CardRow, Settled, Keeps
  <2>7. CASE cards[c].status = "ACTIVE" /\ cards'[c] = ClaimedRow(cards[c], req[r])
    BY <1>0, <2>2, <2>7 DEF ClaimedRow, CardRow, Settled, Keeps
  <2> QED
    BY <1>0, <1>2, <2>3, <2>4, <2>5, <2>6, <2>7, ClientForms
<1> QED
  BY <1>1, <1>2

LEMMA ConsoleSettled ==
  ASSUME SettledInv, NEW a \in Operator, AdminStep(a),
         NEW c \in CardId, cards[c] # null, cards'[c] # null
  PROVE  Settled(cards'[c]) /\ Keeps(cards[c], cards'[c])
<1>0. /\ cards \in [CardId -> Optional(CardRow)] /\ cards[c] \in CardRow
      /\ Settled(cards[c]) /\ adm[a] \in Operation
      /\ adm[a].op \notin {"unban", "unbind"} /\ null \notin Nat
  BY LogicAssumption DEF SettledInv, LifeInv, NoUnban, NoUnbind, IInv, TypeOK, StoreOK,
    AdminOK, Optional, Exists
<1>1. CASE extendCards(a)
  <2>1. PICK now \in adm[a].at .. clock, days \in ExtendDays :
          cards'[c] = IF c \in adm[a].targets
                      THEN ExtendedRow(cards[c], adm[a].seen[c], days, now)
                      ELSE cards[c]
    BY <1>1 DEF extendCards
  <2>2. CASE c \notin adm[a].targets
    BY <1>0, <2>1, <2>2 DEF Keeps
  <2>3. CASE c \in adm[a].targets /\ adm[a].seen[c].activated
    BY <1>0, <2>1, <2>3 DEF ExtendedRow, CardRow, Settled, Keeps
  <2>4. CASE c \in adm[a].targets /\ ~adm[a].seen[c].activated
    <3> DEFINE n == adm[a].seen[c].durationDays + days
    <3>1. adm[a].seen[c].durationDays \in Nat
      <4>1. PendingTerms(a, c) /\ adm[a].op = "extend"
        BY <1>1, <2>4 DEF SettledInv, LifeInv, IInv, PlansConsistent, extendCards, Writing
      <4>2. adm[a].seen[c] \in Optional(Terms)
        BY <1>0 DEF Operation
      <4> QED
        BY <2>4, <4>1, <4>2 DEF PendingTerms, Optional, Terms
    <3>2. n > 0
      BY <2>1, <3>1, AdminAssumption
    <3> HIDE DEF n
    <3>3. cards'[c] = [cards[c] EXCEPT !.durationDays = n]
      BY <2>1, <2>4 DEF ExtendedRow, n
    <3> QED
      BY <1>0, <3>2, <3>3 DEF CardRow, Settled, Keeps
  <2> QED
    BY <2>2, <2>3, <2>4
<1>2. CASE UNCHANGED cards
  BY <1>0, <1>2 DEF Keeps
<1>3. CASE ban(a) \/ remove(a)
  BY <1>0, <1>3 DEF ban, remove, SetRow, CardRow, Settled, Keeps
<1> QED
  BY <1>0, <1>1, <1>2, <1>3 DEF AdminStep, AdminRead, AdminWrite, mustGet, UnbanRead,
    ExtendRead, Begin, AbortAdmin, storeVars, unban, unbind, Writing

\* A row that is there was there, and is as the step before left it.
LEMMA NextSettled ==
  ASSUME SettledInv, [Next]_vars, NEW c \in CardId, cards'[c] # null
  PROVE  cards[c] # null /\ Settled(cards'[c]) /\ Keeps(cards[c], cards'[c])
<1>1. cards[c] # null
  BY NextEvolves DEF SettledInv, LifeInv, AllEvolve, Evolves
<1>2. CASE UNCHANGED cards
  BY <1>1, <1>2 DEF SettledInv, Exists, Keeps
<1>3. ASSUME NEW r \in Request, RequestStep(r)
      PROVE  Settled(cards'[c]) /\ Keeps(cards[c], cards'[c])
  BY <1>1, <1>3, ClientSettled
<1>4. ASSUME NEW a \in Operator, AdminStep(a)
      PROVE  Settled(cards'[c]) /\ Keeps(cards[c], cards'[c])
  BY <1>1, <1>4, ConsoleSettled
<1> QED
  BY <1>1, <1>2, <1>3, <1>4 DEF Next, TimePasses, Tick, ClientStep, ConsoleStep, vars

LEMMA StepSettled ==
  ASSUME "unban" \notin AdminOps, "unbind" \notin AdminOps, SettledInv, [Next]_vars
  PROVE  SettledInv'
<1>1. LifeInv'
  BY StepLife DEF SettledInv
<1>2. NoUnbind'
  <2>0. adm \in [Operator -> Operation]
    BY DEF SettledInv, LifeInv, IInv, TypeOK, AdminOK
  <2>1. ASSUME NEW a \in Operator, AdminStep(a)
        PROVE  NoUnbind'
    BY <2>0, <2>1 DEF SettledInv, NoUnbind, AdminStep, AdminRead, AdminWrite, mustGet,
      UnbanRead, ExtendRead, Begin, ban, unban, unbind, remove, extendCards,
      AbortAdmin, Done, NoOp
  <2>2. CASE UNCHANGED adm
    BY <2>2 DEF SettledInv, NoUnbind
  <2> QED
    BY <2>1, <2>2 DEF Next, TimePasses, ClientStep, ConsoleStep, vars
<1>3. \A c \in CardId : cards'[c] # null => Settled(cards'[c])
  BY NextSettled
<1> QED
  BY <1>1, <1>2, <1>3 DEF SettledInv, Exists

\* Without unban and unbind: an activated licence has a device, a session its
\* mark, and a timed grant at least a day.
THEOREM SettledRows ==
  ASSUME "unban" \notin AdminOps, "unbind" \notin AdminOps
  PROVE  Spec => []SettledInv
<1>1. Init => SettledInv
  <2> SUFFICES ASSUME Init PROVE SettledInv
    OBVIOUS
  <2>1. \A g \in Grants : Settled(IssuedRow(g))
    BY StoreAssumption DEF IssuedRow, Settled, Optional
  <2> QED
    BY <2>1, InitLife DEF SettledInv, NoUnbind, Init, InitStore, InitAdmin, NoOp
<1>2. SettledInv /\ [Next]_vars => SettledInv'
  BY StepSettled
<1> QED
  BY <1>1, <1>2, PTL DEF Spec

-----------------------------------------------------------------------------
(* The conflict a claim that missed is answered with: between the miss and *)
(* the second look the card keeps its device, and what ends its licence is *)
(* not undone, so a licence found running then was running at the miss.    *)

Over(row) == row = null \/ row.status \in {"BANNED", "EXPIRED"}

RivalTold(r) ==
  LET h == req[r]
  IN  /\ h.pc \in {"claim", "recheck"} /\ Row(r) # null =>
           Row(r).activated /\ Row(r).hwid = h.call.hwid
      /\ h.pc = "recheck" => Over(Row(r)) \/ "CONCURRENT_SESSION" \in truths[r]
      /\ Answered(r, "VERIFY", {"CONCURRENT_SESSION"}) => TrueOnce(r)

RivalInv == \A r \in Request : RivalTold(r)

\* A handler that does not step.
LEMMA BystanderRival ==
  ASSUME VerdictInv, SettledInv, HNext, NEW r \in Request, RivalTold(r), req'[r] = req[r]
  PROVE  RivalTold(r)'
<1>1. req[r].pc # "idle" => req[r].call.card \in CardId
  BY RowType DEF SettledInv, LifeInv, IInv, TypeOK
<1>2. ASSUME req[r].pc # "idle", Row(r)' # null
      PROVE  Row(r) # null /\ Keeps(Row(r), Row(r)')
  BY <1>1, <1>2, NextSettled DEF HNext, Row
<1>3. req[r].pc \in {"claim", "recheck"} /\ Row(r)' # null =>
        Row(r)'.activated /\ Row(r)'.hwid = req[r].call.hwid
  BY <1>2 DEF RivalTold, Keeps
<1>4. ASSUME req[r].pc = "recheck"
      PROVE  Over(Row(r)') \/ "CONCURRENT_SESSION" \in truths'[r]
  <2>1. truths[r] \subseteq truths'[r]
    BY <1>4, BystanderTold DEF VerdictInv
  <2>2. Over(Row(r)) => Over(Row(r)')
    BY <1>2, <1>4 DEF Over, Keeps
  <2> QED
    BY <1>4, <2>1, <2>2 DEF RivalTold
<1>5. ASSUME Answered(r, "VERIFY", {"CONCURRENT_SESSION"})
      PROVE  TrueOnce(r)'
  <2>1. truths'[r] = truths[r]
    BY <1>5, WitnessRest DEF Answered, Answering
  <2> QED
    BY <1>5, <2>1 DEF RivalTold, TrueOnce
<1> QED
  BY <1>3, <1>4, <1>5 DEF RivalTold, Answered, Answering

\* A claim that misses a licence that is not over met a rival's live session.
LEMMA MissRival ==
  ASSUME VerdictInv, SettledInv, HNext, NEW r \in Request, RivalTold(r), MissClaim(r)
  PROVE  RivalTold(r)'
<1>0. /\ req[r] \in Handler /\ req \in [Request -> Handler] /\ ToldInv /\ Told(r)
      /\ req[r].pc = "claim" /\ ~ClaimWhere(Row(r), req[r]) /\ cards' = cards
      /\ req' = [req EXCEPT ![r].pc = "recheck"]
  BY DEF VerdictInv, ToldInv, IInv, TypeOK, ServiceOK, MissClaim, Goto, storeVars
<1>1. /\ req'[r].pc = "recheck" /\ req'[r].call = req[r].call
      /\ req'[r].at = req[r].at
  BY <1>0 DEF Handler
<1>2. Now(r)' \subseteq truths'[r]
  BY <1>0, <1>1, MovesOn DEF Deciding, Answering
<1>3. Row(r)' = Row(r)
  BY <1>0, <1>1 DEF Row
<1>4. ASSUME ~Over(Row(r))
      PROVE  "CONCURRENT_SESSION" \in Now(r)
  <2>1. /\ req[r].call.card \in CardId /\ req[r].at \in Nat /\ null \notin Nat
        /\ Row(r) \in CardRow /\ Row(r) # null
    BY <1>0, <1>4, RowType, LogicAssumption DEF VerdictInv, ToldInv, IInv, TypeOK, Over,
      Time
  <2>2. Settled(Row(r)) /\ FreshRow(Row(r))
    BY <2>1 DEF SettledInv, LifeInv, Exists, Row
  <2>3. Row(r).activated /\ Row(r).hwid = req[r].call.hwid
    BY <1>0, <2>1 DEF RivalTold
  <2>4. Row(r).status = "ACTIVE"
    BY <1>4, <2>1, <2>2, <2>3 DEF Over, CardRow, Status, FreshRow
  <2>5. Licensed(Row(r), req[r].call, req[r].at)
    BY <1>0, <2>1, <2>3, <2>4 DEF VerdictInv, GrantTold, InTerm, Licensed
  <2>6. /\ ~Displacing(req[r].call)
        /\ Row(r).sessionId \notin {null, req[r].call.session}
        /\ ~StaleSession(Row(r), req[r].at)
    BY <1>0, <2>1, <2>3, <2>4 DEF ClaimWhere, BoundRow, ActiveRow
  <2>7. Row(r).sessionSeenAt \in Nat
    BY <2>1, <2>2, <2>6 DEF Settled, CardRow, Optional, Time
  <2>8. Row(r).sessionSeenAt + SessionStale >= req[r].at
    BY <2>1, <2>6, <2>7, LogicAssumption DEF StaleSession
  <2>9. RivalSession(Row(r), req[r].call, req[r].at)
    BY <1>0, <2>6, <2>8 DEF RivalSession, Told
  <2> QED
    BY <2>1, <2>5, <2>9 DEF Now, TruthsOf, ResultCode
<1>5. Now(r)' = Now(r)
  BY <1>1, <1>3 DEF Now
<1> QED
  BY <1>0, <1>1, <1>2, <1>3, <1>4, <1>5 DEF RivalTold, Answered, Answering

\* A handler that steps.
LEMMA HandlerRival ==
  ASSUME VerdictInv, SettledInv, HNext, NEW r \in Request, RivalTold(r), RequestStep(r)
  PROVE  RivalTold(r)'
<1>0. /\ ToldInv /\ Told(r) /\ req[r] \in Handler /\ req \in [Request -> Handler]
      /\ req[r].pc # "idle" =>
           /\ req[r].call \in Calls /\ req[r].at \in Time
           /\ Row(r) # null => Row(r) \in CardRow /\ ConsistentTerms(Row(r))
           /\ Row(r) \in Optional(CardRow)
  BY RowType DEF VerdictInv, ToldInv, IInv, TypeOK, ServiceOK, LicenceTermsConsistent,
    Exists, Row, Optional
<1>1. CASE Find(r) \/ Reread(r)
  <2> DEFINE d == decide(req[r].call, Row(r), req[r].at)
  <2>1. /\ Row(r) \in CardRow /\ req[r].call \in Calls /\ req[r].at \in Time
        /\ ConsistentTerms(Row(r)) /\ UNCHANGED cards
    BY <1>0, <1>1 DEF Find, Reread, storeVars
  <2>2. /\ d.effect = "session" => Licensed(Row(r), req[r].call, req[r].at)
        /\ d.result # "CONCURRENT_SESSION" /\ d \in Decision
    BY <2>1, DecisionTrue, Decides
  <2>3. PICK pc : Conclude(r, d, pc) /\ pc \in {StepFor(d), "log"}
    BY <1>1 DEF Find, Reread, AfterReread
  <2> HIDE DEF d
  <2>4. /\ req'[r].pc = pc /\ req'[r].call = req[r].call
        /\ req'[r].d.result = d.result
        /\ pc # "recheck" /\ (pc = "claim" => d.effect = "session")
    BY <1>0, <2>2, <2>3 DEF Conclude, Finish, Verdict, Handler, StepFor, Decision, Effect
  <2>5. d.effect = "session" => Row(r).activated /\ Row(r).hwid = req[r].call.hwid
    BY <2>1, <2>2 DEF Licensed, ConsistentTerms
  <2> QED
    BY <2>1, <2>2, <2>4, <2>5 DEF RivalTold, Answered, Row
<1>2. CASE MissClaim(r)
  BY <1>2, MissRival
<1>3. CASE Recheck(r)
  <2> DEFINE d == MissVerdict(Row(r), req[r])
  <2>1. d.result = "CONCURRENT_SESSION" => Row(r) # null /\ Row(r).status = "ACTIVE"
    BY <1>0, <1>3, MissTrue DEF Recheck
  <2>2. d.effect = "markExpired" => d.result = "EXPIRED"
    BY <1>0, <1>3, MissTrue DEF Recheck
  <2> HIDE DEF d
  <2>3. PICK pc \in {"expireAgain", "log"} :
          Conclude(r, d, pc) /\ (pc = "expireAgain" => d.effect = "markExpired")
    BY <1>3 DEF Recheck, d
  <2>4. req'[r].pc = pc /\ req'[r].d.result = d.result
    BY <1>0, <2>3 DEF Conclude, Finish, Verdict, Handler
  <2>5. ASSUME pc = "log", d.result = "CONCURRENT_SESSION"
        PROVE  TrueOnce(r)'
    <3>1. "CONCURRENT_SESSION" \in truths[r]
      BY <1>3, <2>1, <2>5 DEF RivalTold, Recheck, Over
    <3>2. Finish(r, "CONCURRENT_SESSION", "log") /\ Deciding(req[r])
      BY <1>3, <2>3, <2>5 DEF Conclude, Recheck, Deciding, Answering
    <3> QED
      BY <1>0, <3>1, <3>2, Concludes DEF ResultCode
  <2> QED
    BY <2>2, <2>4, <2>5 DEF RivalTold, Answered, Answering
<1>4. CASE Activate(r) \/ Rebind(r) \/ Claim(r) \/ Touch(r) \/ MarkExpired(r)
  <2>1. Finish(r, req[r].d.result, "log") /\ req[r].d.result \in {"OK", "EXPIRED"}
    BY <1>0, <1>4 DEF Activate, Rebind, Claim, Touch, MarkExpired, Told
  <2>2. req'[r].pc = "log" /\ req'[r].d.result = req[r].d.result
    BY <1>0, <2>1 DEF Finish, Verdict, Handler
  <2> QED
    BY <2>1, <2>2 DEF RivalTold, Answered
<1>5. CASE Start(r) \/ LoseActivation(r) \/ Reply(r) \/ LogFails(r) \/ Abort(r)
  <2>1. req'[r].pc \in {"find", "reread", "idle"}
    BY <1>0, <1>5 DEF Start, Arrive, LoseActivation, Goto, Reply, LogFails, Abort, Idle,
      Handler
  <2> QED
    BY <2>1 DEF RivalTold, Answered, Answering
<1>6. CASE FindUnknown(r) \/ RereadUnknown(r)
  <2>1. req'[r].pc = "logUnknown" /\ req'[r].d.result = "NOT_FOUND"
    BY <1>0, <1>6 DEF FindUnknown, RereadUnknown, Finish, Handler, Verdict
  <2> QED
    BY <2>1 DEF RivalTold, Answered
<1> QED
  BY <1>1, <1>2, <1>3, <1>4, <1>5, <1>6 DEF RequestStep, HandlerStep, Statement

LEMMA StepRival ==
  ASSUME VerdictInv, SettledInv, RivalInv, [HNext]_hvars
  PROVE  RivalInv'
<1>1. CASE UNCHANGED hvars
  BY <1>1 DEF hvars, vars, RivalInv, RivalTold, Answered, Answering, TrueOnce, Row
<1>2. CASE HNext
  BY <1>2, Steps, BystanderRival, HandlerRival DEF RivalInv, VerdictInv, ToldInv
<1> QED
  BY <1>1, <1>2

\* A console that neither unbans nor unbinds, and whose extensions of a card do
\* not overlap: an answer CONCURRENT_SESSION means that at some moment while the
\* request ran another process held a live session of the licence, in force on
\* this device, and that the request was no startup beat under kick-old.
THEOREM Conflicts ==
  ASSUME "unban" \notin AdminOps, "unbind" \notin AdminOps
  PROVE  HSpec /\ []NoOverlap => []ConflictVerdictTrue
<1>1. HInit => RivalInv
  BY DEF HInit, Init, InitService, Idle, RivalInv, RivalTold, Answered, Answering
<1>2. VerdictInv /\ SettledInv /\ RivalInv /\ [HNext]_hvars => RivalInv'
  BY StepRival
<1>3. RivalInv => ConflictVerdictTrue
  BY DEF RivalInv, RivalTold, ConflictVerdictTrue
<1>4. Spec => []SettledInv
  BY SettledRows
<1>5. HSpec /\ []NoOverlap => []VerdictInv
  BY Observes, TimeOnlyGrows, VerdictsHold, PTL
<1> QED
  BY <1>1, <1>2, <1>3, <1>4, <1>5, Observes, PTL DEF HSpec

-----------------------------------------------------------------------------
(* The grant of an activation: the row it hits runs on its device with the *)
(* full term ahead, and a row another activation took is looked at again.  *)

ActivationTold(r) ==
  LET h == req[r]
  IN  /\ h.pc = "activate" /\ h.d.expiresAt # null => h.d.expiresAt > h.at
      /\ h.pc = "reread" => Row(r) = null \/ Row(r).status # "UNUSED"
      /\ h.pc # "rebind"
      /\ Answered(r, "ACTIVATE", {"OK"}) => TrueOnce(r)

ActivationInv == \A r \in Request : ActivationTold(r)

\* What the two decisions that grant something found, and what they write.
LEMMA DecisionGrants ==
  ASSUME NEW row \in CardRow, NEW call \in Calls, NEW at \in Time
  PROVE  LET d == decide(call, row, at)
         IN  /\ d.effect = "activate" =>
                  /\ row.status = "UNUSED"
                  /\ d.expiresAt = computeExpiry(at, row.durationDays)
             /\ d.effect = "rebind" => row.status = "ACTIVE" /\ row.hwid = null
<1>1. row.status \in Status /\ call.action \in {"ACTIVATE", "VERIFY"}
  BY ServiceAssumption DEF CardRow, Call
<1>2. CASE row.status # "ACTIVE"
  BY <1>1, <1>2 DEF decide, decideActivate, decideVerify, Status, Verdict, Granted
<1>3. CASE row.status = "ACTIVE"
  BY <1>1, <1>3 DEF decide, decideActivate, decideVerify, Verdict
<1> QED
  BY <1>2, <1>3

\* A grant of at least a day ends later than now.
LEMMA GrantLasts ==
  ASSUME NEW at \in Nat, NEW days \in Optional(Nat), days # null => days > 0,
         computeExpiry(at, days) # null
  PROVE  computeExpiry(at, days) > at
<1>1. /\ days \in Nat /\ days > 0 /\ Day \in Nat /\ Day > 0
      /\ computeExpiry(at, days) = at + days * Day
  BY LogicAssumption DEF computeExpiry, Optional
<1>2. days * Day >= Day
  <2>1. days - 1 \in Nat /\ (days - 1) * Day >= 0
    BY <1>1
  <2>2. days * Day = (days - 1) * Day + Day
    BY <1>1
  <2> QED
    BY <1>1, <2>1, <2>2
<1>3. days * Day \in Nat
  BY <1>1
<1> QED
  BY <1>1, <1>2, <1>3

\* A handler that does not step.
LEMMA BystanderActivation ==
  ASSUME ToldInv, SettledInv, HNext, NEW r \in Request, ActivationTold(r),
         req'[r] = req[r]
  PROVE  ActivationTold(r)'
<1>1. ASSUME req[r].pc = "reread", Row(r)' # null
      PROVE  Row(r)'.status # "UNUSED"
  <2>1. req[r].call.card \in CardId
    BY <1>1, RowType DEF SettledInv, LifeInv, IInv, TypeOK
  <2>2. Row(r) # null /\ Keeps(Row(r), Row(r)')
    BY <1>1, <2>1, NextSettled DEF HNext, Row
  <2> QED
    BY <1>1, <2>2 DEF ActivationTold, Keeps
<1>2. ASSUME Answered(r, "ACTIVATE", {"OK"})
      PROVE  TrueOnce(r)'
  <2>1. truths'[r] = truths[r]
    BY <1>2, WitnessRest DEF Answered, Answering
  <2> QED
    BY <1>2, <2>1 DEF ActivationTold, TrueOnce
<1> QED
  BY <1>1, <1>2 DEF ActivationTold, Answered, Answering

\* What an activation that hits makes true.
LEMMA ActivateTrue ==
  ASSUME ToldInv, HNext, NEW r \in Request, ActivationTold(r), Activate(r)
  PROVE  TrueOnce(r)'
<1>1. /\ req[r].pc = "activate" /\ req[r].d.result = "OK"
      /\ req[r].call.action = "ACTIVATE" /\ Row(r) # null
      /\ SetRow(req[r].call.card, ActivatedRow(Row(r), req[r]))
      /\ Finish(r, req[r].d.result, "log") /\ Deciding(req[r])
  BY DEF Activate, ActivateWhere, ToldInv, Told, Deciding, Answering
<1>2. /\ req[r].call.card \in CardId /\ req[r].call \in Calls /\ req[r].at \in Time
      /\ Row(r) \in CardRow /\ req[r].d \in Decision /\ req[r].call.hwid \in Hwid
  BY <1>1, RowType DEF ToldInv, IInv, TypeOK, ServiceOK
<1>3. req[r].call.session = null
  BY <1>1, <1>2, ServiceAssumption
<1> DEFINE new == cards'[req[r].call.card]
<1>4. new = ActivatedRow(Row(r), req[r])
  BY <1>1, <1>2 DEF SetRow, ToldInv, IInv, TypeOK, StoreOK
<1>5. /\ new.status = "ACTIVE" /\ new.hwid = req[r].call.hwid
      /\ new.expiresAt = req[r].d.expiresAt
  BY <1>2, <1>4 DEF ActivatedRow, CardRow
<1>6. new # null
  <2>1. ActivatedRow(Row(r), req[r]) \in CardRow
    BY <1>2 DEF ActivatedRow, CardRow, Decision, Optional, Status
  <2> QED
    BY <1>4, <2>1, StoreAssumption
<1> HIDE DEF new
<1>7. Licensed(new, req[r].call, req[r].at)
  BY <1>1, <1>5 DEF Licensed, ActivationTold
<1>8. "OK" \in TruthsOf(new, req[r].call, req[r].at)
  BY <1>3, <1>6, <1>7 DEF TruthsOf, ResultCode, HoldsSession
<1> QED
  BY <1>1, <1>8, Concludes DEF new, ResultCode

\* A handler that steps.
LEMMA HandlerActivation ==
  ASSUME ToldInv, SettledInv, HNext, NEW r \in Request, ActivationTold(r), RequestStep(r)
  PROVE  ActivationTold(r)'
<1>0. /\ Told(r) /\ req[r] \in Handler /\ req \in [Request -> Handler]
      /\ req[r].pc # "idle" =>
           /\ req[r].call \in Calls /\ req[r].at \in Time /\ req[r].at \in Nat
           /\ Row(r) # null => Row(r) \in CardRow /\ ConsistentTerms(Row(r))
                                 /\ Settled(Row(r))
  BY RowType DEF SettledInv, ToldInv, IInv, TypeOK, ServiceOK, LicenceTermsConsistent,
    Exists, Row, Time
<1>1. CASE Find(r) \/ Reread(r)
  <2> DEFINE d == decide(req[r].call, Row(r), req[r].at)
  <2>1. /\ Row(r) \in CardRow /\ req[r].call \in Calls /\ req[r].at \in Time
        /\ req[r].at \in Nat /\ ConsistentTerms(Row(r)) /\ Settled(Row(r))
        /\ Deciding(req[r]) /\ Now(r) \subseteq truths[r]
    BY <1>0, <1>1 DEF Find, Reread, Deciding, Answering, Told
  <2>2. /\ d.effect = "activate" =>
             /\ Row(r).status = "UNUSED"
             /\ d.expiresAt = computeExpiry(req[r].at, Row(r).durationDays)
        /\ d.effect # "rebind"
    BY <2>1, DecisionGrants DEF ConsistentTerms, Settled
  <2>3. /\ d \in Decision
        /\ d.effect \notin {"activate", "session"} => d.result \in truths[r]
        /\ d.effect = "session" => req[r].call.action = "VERIFY"
    BY <2>1, <2>2, DecisionTrue, Decides DEF Now
  <2>4. PICK pc : /\ Conclude(r, d, pc) /\ pc \in {StepFor(d), "log"}
                  /\ pc = "log" => d.effect = "none"
    <3>1. StepFor(d) = "log" => d.effect = "none"
      BY <2>3 DEF StepFor, Decision, Effect
    <3>2. CASE Find(r)
      BY <3>1, <3>2 DEF Find
    <3>3. CASE Reread(r)
      <4>1. d.effect # "activate"
        BY <2>2, <3>3 DEF Reread, ActivationTold
      <4> QED
        BY <3>1, <3>3, <4>1 DEF Reread, AfterReread
    <3> QED
      BY <1>1, <3>2, <3>3
  <2>5. d.effect = "activate" /\ d.expiresAt # null => d.expiresAt > req[r].at
    BY <2>1, <2>2, GrantLasts DEF Settled, CardRow
  <2> HIDE DEF d
  <2>6. CASE pc = "log"
    <3>1. Finish(r, d.result, "log") /\ d.result \in ResultCode /\ d.result \in truths[r]
      BY <2>3, <2>4, <2>6 DEF Conclude, Decision
    <3>2. req'[r].pc = "log" /\ TrueOnce(r)'
      BY <2>1, <3>1, Concludes
    <3> QED
      BY <3>2 DEF ActivationTold, Answered
  <2>7. CASE pc # "log"
    <3>1. /\ req'[r].pc = pc /\ req'[r].at = req[r].at /\ req'[r].d = d
          /\ pc \notin {"log", "logUnknown", "reread", "rebind"}
          /\ pc = "activate" => d.effect = "activate"
      BY <1>0, <2>2, <2>3, <2>4, <2>7 DEF Conclude, Handler, StepFor, Decision, Effect
    <3> QED
      BY <2>5, <3>1 DEF ActivationTold, Answered, Answering
  <2> QED
    BY <2>6, <2>7
<1>2. CASE Activate(r)
  <2>1. req'[r].pc = "log"
    BY <1>0, <1>2 DEF Activate, Finish, Handler
  <2> QED
    BY <1>2, <2>1, ActivateTrue DEF ActivationTold
<1>3. CASE LoseActivation(r)
  <2>1. /\ req'[r].pc = "reread" /\ req'[r].call = req[r].call /\ cards' = cards
        /\ Row(r) = null \/ Row(r).status # "UNUSED"
    BY <1>0, <1>3 DEF LoseActivation, Goto, Handler, ActivateWhere, storeVars
  <2> QED
    BY <2>1 DEF ActivationTold, Answered, Answering, Row
<1>4. CASE Touch(r) \/ Claim(r) \/ MarkExpired(r)
  <2>1. /\ Finish(r, req[r].d.result, "log")
        /\ req[r].call.action = "VERIFY" \/ req[r].d.result = "EXPIRED"
    BY <1>0, <1>4 DEF Touch, Claim, MarkExpired, Told
  <2>2. req'[r].pc = "log" /\ req'[r].call = req[r].call
          /\ req'[r].d.result = req[r].d.result
    BY <1>0, <2>1 DEF Finish, Verdict, Handler
  <2> QED
    BY <2>1, <2>2 DEF ActivationTold, Answered
<1>5. CASE Recheck(r)
  <2> DEFINE d == MissVerdict(Row(r), req[r])
  <2>1. req[r].call.action = "VERIFY"
    BY <1>0, <1>5 DEF Recheck, Told
  <2>2. PICK pc \in {"expireAgain", "log"} : Conclude(r, d, pc)
    BY <1>5 DEF Recheck
  <2> HIDE DEF d
  <2>3. req'[r].pc = pc /\ req'[r].call = req[r].call
    BY <1>0, <2>2 DEF Conclude, Finish, Handler
  <2> QED
    BY <2>1, <2>3 DEF ActivationTold, Answered
<1>6. CASE Start(r) \/ MissClaim(r) \/ Reply(r) \/ LogFails(r) \/ Abort(r)
  <2>1. req'[r].pc \in {"find", "recheck", "idle"}
    BY <1>0, <1>6 DEF Start, Arrive, MissClaim, Goto, Reply, LogFails, Abort, Idle,
      Handler
  <2> QED
    BY <2>1 DEF ActivationTold, Answered, Answering
<1>7. CASE FindUnknown(r) \/ RereadUnknown(r)
  <2>1. req'[r].pc = "logUnknown" /\ req'[r].d.result = "NOT_FOUND"
    BY <1>0, <1>7 DEF FindUnknown, RereadUnknown, Finish, Handler, Verdict
  <2> QED
    BY <2>1 DEF ActivationTold, Answered
<1>8. ~Rebind(r)
  BY DEF Rebind, ActivationTold
<1> QED
  BY <1>1, <1>2, <1>3, <1>4, <1>5, <1>6, <1>7, <1>8
    DEF RequestStep, HandlerStep, Statement

LEMMA StepActivation ==
  ASSUME ToldInv, SettledInv, ActivationInv, [HNext]_hvars
  PROVE  ActivationInv'
<1>1. CASE UNCHANGED hvars
  BY <1>1 DEF hvars, vars, ActivationInv, ActivationTold, Answered, Answering, TrueOnce,
    Row
<1>2. CASE HNext
  BY <1>2, Steps, BystanderActivation, HandlerActivation DEF ActivationInv, ToldInv
<1> QED
  BY <1>1, <1>2

\* With a console that neither unbans nor unbinds, extensions and deletions
\* included, an activation answered OK left the licence active on that device
\* with time ahead at some moment while it ran (card.service.ts:72-93).
THEOREM ActivationGrants ==
  ASSUME "unban" \notin AdminOps, "unbind" \notin AdminOps
  PROVE  HSpec => []ActivationGrantTrue
<1>1. HInit => ActivationInv
  BY DEF HInit, Init, InitService, Idle, ActivationInv, ActivationTold, Answered,
    Answering
<1>2. ToldInv /\ SettledInv /\ ActivationInv /\ [HNext]_hvars => ActivationInv'
  BY StepActivation
<1>3. ActivationInv => ActivationGrantTrue
  BY DEF ActivationInv, ActivationTold, ActivationGrantTrue
<1>4. Spec => []SettledInv
  BY SettledRows
<1> QED
  BY <1>1, <1>2, <1>3, <1>4, Observes, History, PTL DEF HSpec
=============================================================================
