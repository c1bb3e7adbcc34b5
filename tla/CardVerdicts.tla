----------------------------- MODULE CardVerdicts -----------------------------
(***************************************************************************)
(* CardSystem with a history variable: the verdicts that were true of a    *)
(* request at some moment while its handler ran. A handler reads the clock *)
(* once and the table several times, and answers later: its answer should  *)
(* be one that was true in between.                                        *)
(***************************************************************************)
EXTENDS CardSystem

VARIABLE
  truths       \* [Request -> set of the verdicts true since the request came]

hvars == <<vars, truths>>

-----------------------------------------------------------------------------
(* What a verdict says of a row and of the instant "at" a request arrived, *)
(* told without the decision functions.                                    *)

\* The licence runs, has time left at that instant, and is this device's.
Licensed(row, call, at) ==
  /\ row.status = "ACTIVE"
  /\ row.expiresAt # null => row.expiresAt > at
  /\ row.hwid = call.hwid

\* The licence's session is this process's, when it names one.
HoldsSession(row, call) ==
  call.session # null => row.sessionId = call.session

\* Another process's session holds the licence: refreshed within the stale
\* window, and not to be taken over by this beat.
RivalSession(row, call, at) ==
  /\ call.session # null
  /\ row.sessionId \notin {null, call.session}
  /\ row.sessionSeenAt + SessionStale >= at
  /\ ~Displacing(call)

TruthsOf(row, call, at) ==
  IF row = null THEN {"NOT_FOUND"}
  ELSE {v \in ResultCode :
    \/ v = "BANNED" /\ row.status = "BANNED"
    \/ v = "NOT_ACTIVATED" /\ row.status = "UNUSED"
    \/ v = "EXPIRED" /\ row.status # "BANNED"
         /\ (row.status = "EXPIRED" \/ row.expiresAt \in 0 .. at)
    \/ v = "HWID_MISMATCH" /\ row.status = "ACTIVE" /\ row.hwid # call.hwid
    \/ v = "OK" /\ Licensed(row, call, at) /\ HoldsSession(row, call)
    \/ v = "CONCURRENT_SESSION"
         /\ Licensed(row, call, at) /\ RivalSession(row, call, at)}

Answering(h) == h.pc \in {"log", "logUnknown"}

\* The verdicts true in the state a step leads to, for a handler of pre-state
\* h and post-state h1 (a Start sets call and at). The table is looked at up
\* to the last statement before the log; of a verdict that stands, only
\* whether it was true is kept.
Witness(h, h1, known) ==
  IF h1.pc = "idle" THEN {}
  ELSE IF Answering(h) THEN known
  ELSE LET at == IF h.pc = "idle" THEN h1.at ELSE h.at
           now == known \cup TruthsOf(cards'[h1.call.card], h1.call, at)
       IN  IF Answering(h1) THEN now \cap {h1.d.result} ELSE now

HInit == Init /\ truths = [r \in Request |-> {}]

HNext ==
  /\ Next
  /\ truths' = [r \in Request |-> Witness(req[r], req'[r], truths[r])]

HSpec == HInit /\ [][HNext]_hvars

-----------------------------------------------------------------------------

Answered(r, action, results) ==
  /\ Answering(req[r])
  /\ req[r].call.action = action
  /\ req[r].d.result \in results

TrueOnce(r) == req[r].d.result \in truths[r]

\* Every refusal, and every OK to a heartbeat, was true at some moment while
\* the request ran: the licence was banned, gone, lapsed or another device's;
\* or it ran on this device, and this process held its session.
VerdictTrue ==
  \A r \in Request :
    \/ Answered(r, "VERIFY", ResultCode \ {"CONCURRENT_SESSION"})
    \/ Answered(r, "ACTIVATE", ResultCode \ {"OK"})
    => TrueOnce(r)

\* An OK to an activation was true at some moment while it ran: the licence
\* was active on this device, with time left. README.md:340, "One-device-
\* per-license HWID binding", and card.service.ts:93 "(race-safe)".
ActivationGrantTrue ==
  \A r \in Request : Answered(r, "ACTIVATE", {"OK"}) => TrueOnce(r)

\* A CONCURRENT_SESSION answer means that at some moment a live session of
\* another process held the licence (card.service.ts:154, "the miss was a
\* live rival session"), and never meets a startup beat under kick-old.
ConflictVerdictTrue ==
  \A r \in Request : Answered(r, "VERIFY", {"CONCURRENT_SESSION"}) => TrueOnce(r)
=============================================================================
