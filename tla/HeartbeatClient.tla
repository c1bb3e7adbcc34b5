---------------------------- MODULE HeartbeatClient ----------------------------
(***************************************************************************)
(* The heartbeat loop of the reference clients (client-example/verify.js   *)
(* and client-example/rust/src/main.rs) against the real handler of        *)
(* CardService: several processes of one machine hold one licence. A       *)
(* process claims the session with its first beat, then beats every        *)
(* Interval, and exits when the answer says so or when anything fails.     *)
(*                                                                         *)
(* A process waits for the answer to a beat before it sleeps and sends the *)
(* next one, so each has at most one request: Request is also the set of   *)
(* the processes, and a process is its own session id. Only differences of *)
(* instants matter: the clock stays at MaxClock, and as time passes every  *)
(* stored instant recedes from it.                                         *)
(***************************************************************************)
EXTENDS CardService

CONSTANTS
  Licence,     \* the card the processes share
  Machine,     \* the machine they run on
  Interval,    \* HEARTBEAT_INTERVAL_S
  MaxTrip      \* a beat is sent, handled and answered within this time

ASSUME ClientAssumption ==
  /\ Licence \in CardId /\ Machine \in Hwid
  /\ Request \subseteq SessionId
  /\ Interval \in Nat \ {0} /\ MaxTrip \in Nat \ {0}
  /\ Interval + 3 * MaxTrip <= SessionStale
  /\ SessionStale + MaxTrip < MaxClock

VARIABLES
  policy,      \* MULTIOPEN_POLICY of the server
  proc,        \* [Request -> [pc, takeover, age]]: age of the beat or the sleep
  wire,        \* [Request -> "none", the "request", or the result answered]
  lost         \* history: how long ago a running process lost the licence

cvars == <<cards, clock, req, policy, proc, wire, lost>>

row == cards[Licence]

Running(p) == proc[p].pc \in {"waiting", "sleeping"}

Holding(p) == row.status = "ACTIVE" /\ row.sessionId = p

\* An activated licence without expiry, bound to the machine.
InitClient ==
  /\ cards = [c \in CardId |->
                [IssuedRow(null) EXCEPT !.status = "ACTIVE", !.activated = TRUE,
                                        !.hwid = Machine]]
  /\ clock = MaxClock
  /\ InitService
  /\ policy \in Policy
  /\ proc = [p \in Request |-> [pc |-> "off", takeover |-> TRUE, age |-> 0]]
  /\ wire = [p \in Request |-> "none"]
  /\ lost = [p \in Request |-> null]

\* The body the server decodes and the policy it reads for it.
Beat(p) ==
  [action |-> "VERIFY", card |-> Licence, hwid |-> Machine, session |-> p,
   takeover |-> proc[p].takeover, policy |-> policy]

Put(p, place) == wire' = [wire EXCEPT ![p] = place]

Become(p, pc) == proc' = [proc EXCEPT ![p].pc = pc, ![p].age = 0]

\* A process that stops has nothing left to lose.
Stop(p, pc) == Become(p, pc) /\ lost' = [lost EXCEPT ![p] = null]

-----------------------------------------------------------------------------
(* The loop.                                                               *)

\* The first beat; the flag is still set.
Launch(p) ==
  /\ proc[p].pc = "off"
  /\ Become(p, "waiting")
  /\ Put(p, "request")
  /\ UNCHANGED <<storeVars, req, policy, lost>>

\* Bug variant: the flag is never cleared, so every beat takes over.
Accepted_KeepsTakeover(p) ==
  /\ wire[p] = "OK"
  /\ Become(p, "sleeping")
  /\ UNCHANGED lost

\* An OK: later beats only maintain the session.
Accepted(p) ==
  /\ wire[p] = "OK"
  /\ proc' = [proc EXCEPT ![p] = [pc |-> "sleeping", takeover |-> FALSE, age |-> 0]]
  /\ UNCHANGED lost

\* Exit code 3 on a conflict, 1 on any other refusal.
Refused(p) ==
  \/ wire[p] = "CONCURRENT_SESSION" /\ Stop(p, "kicked")
  \/ wire[p] \in ResultCode \ {"OK", "CONCURRENT_SESSION"} /\ Stop(p, "invalid")

Hear(p) ==
  /\ proc[p].pc = "waiting"
  /\ wire[p] \in ResultCode
  /\ Accepted(p) \/ Refused(p)
  /\ Put(p, "none")
  /\ UNCHANGED <<storeVars, req, policy>>

Wake(p) ==
  /\ proc[p].pc = "sleeping" /\ proc[p].age >= Interval
  /\ Become(p, "waiting")
  /\ Put(p, "request")
  /\ UNCHANGED <<storeVars, req, policy, lost>>

\* Exit code 2, or a kill: a thrown network error, a status other than 200,
\* a payload that does not verify, a crash. What is on the wire or in a
\* handler may go on without the process.
Die(p) ==
  /\ Running(p)
  /\ proc' = [proc EXCEPT ![p].pc = "failed"]
  /\ lost' = [lost EXCEPT ![p] = null]
  /\ UNCHANGED <<storeVars, req, policy, wire>>

\* The request or the answer is lost on the way, or nobody hears it.
Drop(p) ==
  /\ wire[p] # "none" /\ proc[p].pc = "failed"
  /\ Put(p, "none")
  /\ UNCHANGED <<storeVars, req, policy, proc, lost>>

-----------------------------------------------------------------------------
(* The server and the console.                                             *)

\* A running process loses the licence when the row it held passes to
\* another session, or when the card is banned.
MarkLost ==
  lost' = [p \in Request |->
             IF /\ Running(p) /\ lost[p] = null
                /\ \/ Holding(p) /\ ~Holding(p)'
                   \/ row.status = "ACTIVE" /\ row'.status # "ACTIVE"
             THEN 0 ELSE lost[p]]

BeatArrives(p) ==
  /\ wire[p] = "request"
  /\ Arrive(p, Beat(p))
  /\ Put(p, "none")
  /\ UNCHANGED <<policy, proc, lost>>

Serve(p) == Statement(p) /\ MarkLost /\ UNCHANGED <<policy, proc, wire>>

Answer(p) ==
  /\ Reply(p)
  /\ Put(p, req[p].d.result)
  /\ UNCHANGED <<policy, proc, lost>>

\* The handler dies: a process that waits for it gets an error and exits.
ServerFails(p) ==
  /\ Abort(p)
  /\ IF proc[p].pc = "waiting"
     THEN Stop(p, "failed")
     ELSE UNCHANGED <<proc, lost>>
  /\ UNCHANGED <<policy, wire>>

\* The write of the console's ban.
Revoke ==
  /\ row.status = "ACTIVE"
  /\ SetRow(Licence, [row EXCEPT !.status = "BANNED"])
  /\ MarkLost
  /\ UNCHANGED <<clock, req, policy, proc, wire>>

-----------------------------------------------------------------------------
(* Time.                                                                   *)

\* A beat is under way, even when its process is gone.
Busy(p) == proc[p].pc = "waiting" \/ wire[p] = "request" \/ req[p].pc # "idle"

Recede(t) == IF t \in {null, 0} THEN t ELSE t - 1

\* The history stops at an age that is over any deadline.
Older(age) == IF age = null \/ age = SessionStale THEN age ELSE age + 1

\* Time passes while no beat is overdue and no sleeper has to wake up.
Pass ==
  /\ \A p \in Request :
       /\ Busy(p) => proc[p].age < MaxTrip
       /\ proc[p].pc = "sleeping" => proc[p].age < Interval
  /\ cards' = [cards EXCEPT ![Licence].sessionSeenAt = Recede(@),
                            ![Licence].lastSeenAt = Recede(@)]
  /\ req' = [p \in Request |-> [req[p] EXCEPT !.at = Recede(@)]]
  /\ proc' = [p \in Request |->
                IF Busy(p) \/ proc[p].pc = "sleeping"
                THEN [proc[p] EXCEPT !.age = @ + 1] ELSE proc[p]]
  /\ lost' = [p \in Request |-> Older(lost[p])]
  /\ UNCHANGED <<clock, policy, wire>>

ClientMoves(p) ==
  \/ Launch(p) \/ Hear(p) \/ Wake(p) \/ Die(p) \/ Drop(p)

ServerMoves(p) == BeatArrives(p) \/ Serve(p) \/ Answer(p) \/ ServerFails(p)

ClientNext ==
  \/ \E p \in Request : ClientMoves(p) \/ ServerMoves(p)
  \/ Revoke
  \/ Pass

ClientSpec == InitClient /\ [][ClientNext]_cvars

\* Time goes on, a beat reaches the server or its process fails, handlers
\* run, and a process reacts to its answer and to its timer. Nobody has to
\* launch a process, ban the card or break anything.
FairClientSpec ==
  /\ ClientSpec
  /\ WF_cvars(Pass)
  /\ \A p \in Request :
       /\ WF_cvars(BeatArrives(p) \/ Drop(p))
       /\ WF_cvars(Serve(p) \/ Answer(p))
       /\ WF_cvars(Hear(p) \/ Wake(p))

-----------------------------------------------------------------------------

Displaced(p) == Running(p) /\ Holding(p) /\ ~Holding(p)' /\ row'.status = "ACTIVE"

Startup(q) == req[q].pc = "claim" /\ req'[q].pc = "log" /\ Displacing(req[q].call)

\* A process that beats on schedule is displaced only by the startup beat of
\* another one, and only under kick-old: however handlers and time interleave,
\* no maintaining beat finds its session stale.
SessionKept ==
  [][\A p \in Request : Displaced(p) => \E q \in Request \ {p} : Startup(q)]_cvars

\* A process whose session was taken or whose card was banned has stopped
\* after one interval and two trips, and never gets the session back
\* (verify.js:13, "EXIT if the server reports CONCURRENT_SESSION").
StopsInTime ==
  \A p \in Request : lost[p] # null => lost[p] <= Interval + 2 * MaxTrip

\* As long as nothing failed and the card is not banned, a process that was
\* told to go left the licence to one that runs: two that start at the same
\* time never throw each other out.
OneSurvives ==
  (\E p \in Request : proc[p].pc = "kicked") =>
    \/ row.status = "BANNED"
    \/ \E p \in Request : Running(p) \/ proc[p].pc = "failed"

\* In the end at most one process runs (one online instance per licence).
OneRemains ==
  <>[](\A p, q \in Request : Running(p) /\ Running(q) => p = q)
=============================================================================
