------------------------ MODULE HeartbeatClient_proofs ------------------------
(***************************************************************************)
(* The reference clients' loop against the server, for any number of       *)
(* processes and any interval, trip and stale window that fit together: a  *)
(* process is where its last beat is, knows what it was told, and is never *)
(* further behind the row than its beats are old.                          *)
(***************************************************************************)
EXTENDS HeartbeatClient, TLAPS

-----------------------------------------------------------------------------
(* Types.                                                                  *)

LicenceRow ==
  [status : {"ACTIVE", "BANNED"}, hwid : {Machine}, durationDays : {null},
   activated : {TRUE}, expiresAt : {null}, sessionId : Optional(Request),
   sessionSeenAt : Optional(0 .. MaxClock), lastSeenAt : Optional(0 .. MaxClock)]

Process ==
  [pc : {"off", "waiting", "sleeping", "kicked", "invalid", "failed"},
   takeover : BOOLEAN, age : Nat]

\* What a process may be told.
Told == {"OK", "BANNED", "CONCURRENT_SESSION"}

\* The licence has no term to run out and no other device, so its row keeps
\* but the status, the session and the marks.
RowOK ==
  /\ cards \in [CardId -> LicenceRow]
  /\ row.sessionId # null => row.sessionSeenAt # null

ClientTypeOK ==
  /\ RowOK
  /\ clock = MaxClock
  /\ policy \in Policy
  /\ req \in [Request -> Handler]
  /\ proc \in [Request -> Process]
  /\ wire \in [Request -> {"none", "request"} \cup Told]
  /\ lost \in [Request -> Optional(0 .. SessionStale)]

BeatOf(p) ==
  [action : {"VERIFY"}, card : {Licence}, hwid : {Machine}, session : {p},
   takeover : BOOLEAN, policy : Policy]

-----------------------------------------------------------------------------
(* The inductive invariant, process by process.                            *)

\* The beat has not met the row yet.
Sent(p) == wire[p] = "request" \/ req[p].pc \in {"find", "claim"}

\* The server has decided, whether the process knows it or not.
IsTold(p, result) ==
  wire[p] = result \/ (req[p].pc = "log" /\ req[p].d.result = result)

\* A startup beat that has not met the row yet.
Eager(p) ==
  \/ wire[p] = "request" /\ proc[p].takeover
  \/ req[p].pc \in {"find", "claim"} /\ req[p].call.takeover

\* The handler of a beat only finds, claims and looks again.
BeatOK(p) ==
  LET h == req[p]
  IN  /\ h.pc \in {"idle", "find", "claim", "recheck", "log"}
      /\ h.pc # "idle" => h.call \in BeatOf(p)
      /\ h.pc = "claim" => h.d.result = "OK"
      /\ h.pc = "log" => h.d.result \in Told

\* A beat is on its way to the server, or there, or on its way back.
OnePlace(p) ==
  /\ wire[p] # "none" => req[p].pc = "idle"
  /\ proc[p].pc \in {"off", "sleeping", "kicked", "invalid"} =>
       wire[p] = "none" /\ req[p].pc = "idle"
  /\ proc[p].pc = "waiting" => wire[p] # "none" \/ req[p].pc # "idle"
  /\ proc[p].pc = "sleeping" => ~proc[p].takeover

\* No beat is overdue, and "now" of its handler is no older than the beat.
OnTime(p) ==
  /\ Busy(p) => proc[p].age <= MaxTrip
  /\ proc[p].pc = "sleeping" => proc[p].age <= Interval
  /\ req[p].at <= MaxClock
  /\ req[p].pc \in {"find", "claim", "recheck"} =>
       req[p].at + proc[p].age >= MaxClock

\* A startup beat comes from a process that never held the session. Who is
\* refused has lost: the session is another's and stays another's.
Standing(p) ==
  /\ proc[p].pc = "off" \/ Eager(p) => row.sessionId # p
  /\ proc[p].pc = "kicked" \/ req[p].pc = "recheck"
       \/ IsTold(p, "CONCURRENT_SESSION") =>
         row.status = "BANNED" \/ row.sessionId \notin {null, p}
  /\ proc[p].pc = "invalid" \/ IsTold(p, "BANNED") => row.status = "BANNED"

\* The mark of the session a process holds is as old as its last beat.
Marked(p) ==
  Holding(p) =>
    /\ proc[p].pc = "sleeping" =>
         row.sessionSeenAt + MaxTrip + proc[p].age >= MaxClock
    /\ proc[p].pc = "waiting" /\ Sent(p) =>
         row.sessionSeenAt + MaxTrip + Interval + proc[p].age >= MaxClock
    /\ proc[p].pc = "waiting" /\ IsTold(p, "OK") =>
         row.sessionSeenAt + proc[p].age >= MaxClock

\* A process that lost the licence: since when at most, and why it will not
\* get it back. The session that took it is too fresh to be stale in time.
Losing(p) ==
  lost[p] # null =>
    /\ Running(p)
    /\ proc[p].pc = "sleeping" => lost[p] <= MaxTrip + proc[p].age
    /\ proc[p].pc = "waiting" => lost[p] <= MaxTrip + Interval + proc[p].age
    /\ proc[p].pc = "waiting" /\ IsTold(p, "OK") => lost[p] <= proc[p].age
    /\ \/ row.status = "BANNED"
       \/ /\ row.sessionId \notin {null, p} /\ ~Eager(p)
          /\ row.sessionSeenAt + MaxTrip + lost[p] >= MaxClock

ProcessInv(p) ==
  BeatOK(p) /\ OnePlace(p) /\ OnTime(p) /\ Standing(p) /\ Marked(p) /\ Losing(p)

ClientInv == ClientTypeOK /\ \A p \in Request : ProcessInv(p)

-----------------------------------------------------------------------------

LEMMA Numbers ==
  /\ Interval \in Nat /\ MaxTrip \in Nat /\ SessionStale \in Nat /\ MaxClock \in Nat
  /\ Interval > 0 /\ MaxTrip > 0
  /\ Interval + MaxTrip + MaxTrip + MaxTrip <= SessionStale
  /\ SessionStale + MaxTrip < MaxClock
  /\ null \notin Nat /\ null \notin Request /\ null \notin Hwid
  /\ Licence \in CardId /\ Machine \in Hwid
BY ClientAssumption, LogicAssumption, StoreAssumption

LEMMA RowIs ==
  ASSUME RowOK
  PROVE  /\ row \in LicenceRow /\ row \in CardRow /\ row # null
         /\ row.status \in {"ACTIVE", "BANNED"} /\ row.hwid = Machine
         /\ row.expiresAt = null /\ row.sessionId \in Optional(Request)
         /\ row.sessionSeenAt \in Optional(0 .. MaxClock)
<1>1. row \in LicenceRow
  BY Numbers DEF RowOK, row
<1>2. row \in CardRow
  <2>1. /\ {"ACTIVE", "BANNED"} \subseteq Status /\ {Machine} \subseteq Optional(Hwid)
        /\ {null} \subseteq Optional(Nat)
    BY Numbers DEF Status, Optional
  <2>2. /\ Optional(Request) \subseteq Optional(SessionId)
        /\ Optional(0 .. MaxClock) \subseteq Optional(Time)
    BY Numbers, ClientAssumption DEF Optional, Time
  <2>3. {null} \subseteq Optional(Time)
    BY DEF Optional
  <2> QED
    BY <1>1, <2>1, <2>2, <2>3 DEF LicenceRow, CardRow
<1> QED
  BY <1>1, <1>2, StoreAssumption DEF LicenceRow

\* A process whose own state and whose row are as they were.
LEMMA Undisturbed ==
  ASSUME NEW p \in Request, ProcessInv(p), row' = row, req'[p] = req[p],
         proc'[p] = proc[p], wire'[p] = wire[p], lost'[p] = lost[p]
  PROVE  ProcessInv(p)'
BY DEF ProcessInv, BeatOK, OnePlace, OnTime, Standing, Marked, Losing, Sent, IsTold,
  Eager, Busy, Holding, Running

\* A step of one process or its handler that does not touch the row.
Local(p) ==
  /\ row' = row
  /\ \A q \in Request \ {p} :
       /\ req'[q] = req[q] /\ proc'[q] = proc[q]
       /\ wire'[q] = wire[q] /\ lost'[q] = lost[q]

LEMMA LocalStep ==
  ASSUME ClientInv, ClientTypeOK', NEW p \in Request, Local(p), ProcessInv(p)'
  PROVE  ClientInv'
<1>1. ASSUME NEW q \in Request PROVE ProcessInv(q)'
  <2>1. CASE q = p
    BY <2>1
  <2>2. CASE q # p
    BY <2>2, Undisturbed DEF ClientInv, Local
  <2> QED
    BY <2>1, <2>2
<1> QED
  BY <1>1 DEF ClientInv

-----------------------------------------------------------------------------
(* The process.                                                            *)

LEMMA Becomes ==
  ASSUME proc \in [Request -> Process], NEW p \in Request,
         NEW pc \in {"waiting", "kicked", "invalid", "failed"}, Become(p, pc)
  PROVE  /\ proc'[p].pc = pc /\ proc'[p].age = 0
         /\ proc'[p].takeover = proc[p].takeover
         /\ proc' \in [Request -> Process]
         /\ \A q \in Request \ {p} : proc'[q] = proc[q]
<1>1. /\ proc'[p] = [proc[p] EXCEPT !.pc = pc, !.age = 0]
      /\ \A q \in Request \ {p} : proc'[q] = proc[q]
  BY DEF Become
<1>2. proc'[p].pc = pc /\ proc'[p].age = 0
  BY <1>1 DEF Process
<1>3. proc'[p].takeover = proc[p].takeover
  BY <1>1 DEF Process
<1>4. proc'[p] \in Process
  <2>1. ASSUME NEW old \in Process
        PROVE  [old EXCEPT !.pc = pc, !.age = 0] \in Process
    BY DEF Process
  <2> QED
    BY <1>1, <2>1
<1>5. proc' \in [Request -> Process]
  BY <1>4 DEF Become
<1> QED
  BY <1>1, <1>2, <1>3, <1>5

LEMMA LaunchKeeps ==
  ASSUME ClientInv, NEW p \in Request, Launch(p) PROVE ClientInv'
<1>1. /\ UNCHANGED <<cards, clock, req, policy, lost>> /\ proc[p].pc = "off"
      /\ Become(p, "waiting") /\ wire' = [wire EXCEPT ![p] = "request"]
      /\ ClientTypeOK /\ ProcessInv(p)
  BY DEF Launch, Put, storeVars, ClientInv
<1>2. wire'[p] = "request" /\ \A q \in Request \ {p} : wire'[q] = wire[q]
  BY <1>1 DEF ClientTypeOK
<1>3. /\ proc'[p].pc = "waiting" /\ proc'[p].age = 0
      /\ proc'[p].takeover = proc[p].takeover /\ proc' \in [Request -> Process]
      /\ \A q \in Request \ {p} : proc'[q] = proc[q]
  BY <1>1, Becomes DEF ClientTypeOK
<1>4. ClientTypeOK'
  BY <1>1, <1>3 DEF ClientTypeOK, RowOK, row
<1>5. Local(p)
  BY <1>1, <1>2, <1>3 DEF Local, row
<1>6. ProcessInv(p)'
  <2>1. row' = row /\ req'[p] = req[p] /\ lost'[p] = lost[p]
    BY <1>1, <1>5 DEF Local
  <2>2. lost[p] = null /\ row.sessionId # p /\ req[p].pc = "idle"
    BY <1>1 DEF ProcessInv, Losing, Running, Standing, OnePlace
  <2>3. BeatOK(p)' /\ OnePlace(p)' /\ OnTime(p)'
    BY <1>1, <1>2, <1>3, <2>1, <2>2, Numbers DEF ProcessInv, BeatOK, OnePlace, OnTime,
      Busy
  <2>4. Standing(p)' /\ Marked(p)' /\ Losing(p)'
    BY <1>2, <1>3, <2>1, <2>2 DEF Standing, IsTold, Marked, Holding, Losing
  <2> QED
    BY <2>3, <2>4 DEF ProcessInv
<1> QED
  BY <1>4, <1>5, <1>6, LocalStep

LEMMA HearKeeps ==
  ASSUME ClientInv, NEW p \in Request, Hear(p) PROVE ClientInv'
<1>1. /\ UNCHANGED <<cards, clock, req, policy>> /\ proc[p].pc = "waiting"
      /\ wire' = [wire EXCEPT ![p] = "none"] /\ wire[p] \in ResultCode
      /\ ClientTypeOK /\ ProcessInv(p) /\ proc[p] \in Process
  BY DEF Hear, Put, storeVars, ClientInv, ClientTypeOK
<1>2. req[p].pc = "idle" /\ req'[p] = req[p] /\ wire'[p] = "none"
  BY <1>1 DEF ProcessInv, OnePlace, ResultCode, ClientTypeOK
<1>3. CASE Accepted(p)
  <2>1. /\ proc' = [proc EXCEPT ![p] = [pc |-> "sleeping", takeover |-> FALSE, age |-> 0]]
        /\ lost' = lost /\ wire[p] = "OK"
    BY <1>3 DEF Accepted
  <2>2. proc'[p] = [pc |-> "sleeping", takeover |-> FALSE, age |-> 0]
    BY <1>1, <2>1 DEF ClientTypeOK
  <2>3. ClientTypeOK'
    BY <1>1, <2>1 DEF ClientTypeOK, RowOK, row, Process
  <2>4. Local(p)
    BY <1>1, <2>1 DEF Local, ClientTypeOK, row
  <2>5. row' = row /\ lost'[p] = lost[p]
    BY <2>1, <2>4 DEF Local
  <2>6. BeatOK(p)' /\ OnePlace(p)' /\ OnTime(p)' /\ Standing(p)'
    BY <1>1, <1>2, <2>2, <2>5, Numbers DEF ProcessInv, BeatOK, OnePlace, OnTime, Busy,
      Standing, IsTold, Eager
  <2>7. proc[p].age <= MaxTrip /\ proc[p].age \in Nat
    BY <1>1 DEF ProcessInv, OnTime, Busy, Process
  <2>8. Marked(p)'
    <3>1. ASSUME Holding(p)
          PROVE  row.sessionSeenAt + MaxTrip >= MaxClock
      <4>1. row.sessionSeenAt + proc[p].age >= MaxClock
        BY <1>1, <2>1, <3>1 DEF ProcessInv, Marked, IsTold
      <4>2. row.sessionSeenAt \in Nat
        BY <1>1, <3>1, RowIs, Numbers DEF ClientTypeOK, RowOK, Holding, Optional
      <4> QED
        BY <2>7, <4>1, <4>2, Numbers
    <3>2. Holding(p)' => Holding(p)
      BY <2>5 DEF Holding
    <3>3. ASSUME Holding(p)
          PROVE  row.sessionSeenAt + MaxTrip + 0 >= MaxClock
      <4>1. row.sessionSeenAt \in Nat
        BY <1>1, <3>3, RowIs, Numbers DEF ClientTypeOK, RowOK, Holding, Optional
      <4> QED
        BY <3>1, <3>3, <4>1, Numbers
    <3> QED
      BY <2>2, <2>5, <3>2, <3>3 DEF Marked
  <2>9. Losing(p)'
    <3>1. ASSUME lost[p] # null
          PROVE  lost[p] <= MaxTrip + 0
      <4>1. lost[p] <= proc[p].age /\ lost[p] \in Nat
        BY <1>1, <2>1, <3>1, Numbers DEF ProcessInv, Losing, IsTold, ClientTypeOK, Optional
      <4> QED
        BY <2>7, <4>1, Numbers
    <3>2. ~Eager(p)'
      BY <1>2 DEF Eager
    <3> QED
      BY <1>1, <2>2, <2>5, <3>1, <3>2 DEF ProcessInv, Losing, Running
  <2> QED
    BY <2>3, <2>4, <2>6, <2>8, <2>9, LocalStep DEF ProcessInv
<1>4. CASE Refused(p)
  <2>1. PICK pc \in {"kicked", "invalid"} :
          /\ Become(p, pc)
          /\ lost' = [lost EXCEPT ![p] = null]
          /\ IF pc = "kicked" THEN wire[p] = "CONCURRENT_SESSION"
             ELSE wire[p] \in ResultCode \ {"OK", "CONCURRENT_SESSION"}
    BY <1>4 DEF Refused, Stop
  <2>2. lost'[p] = null /\ \A q \in Request \ {p} : lost'[q] = lost[q]
    BY <2>1 DEF ClientTypeOK, ClientInv
  <2>3. /\ proc'[p].pc = pc /\ proc'[p].age = 0 /\ proc' \in [Request -> Process]
        /\ \A q \in Request \ {p} : proc'[q] = proc[q]
    BY <1>1, <2>1, Becomes DEF ClientTypeOK
  <2>4. ClientTypeOK'
    BY <1>1, <2>1, <2>3, Numbers DEF ClientTypeOK, RowOK, row, Optional
  <2>5. Local(p) /\ row' = row
    BY <1>1, <2>2, <2>3 DEF Local, ClientTypeOK, row
  <2>6. pc = "invalid" => wire[p] = "BANNED"
    BY <1>1, <2>1 DEF ClientTypeOK, ResultCode, Told
  <2>7. BeatOK(p)' /\ OnePlace(p)' /\ OnTime(p)'
    BY <1>1, <1>2, <2>3, Numbers DEF ProcessInv, BeatOK, OnePlace, OnTime, Busy
  <2>8. Standing(p)'
    BY <1>1, <1>2, <2>1, <2>3, <2>5, <2>6 DEF ProcessInv, Standing, IsTold, Eager
  <2>9. Marked(p)' /\ Losing(p)'
    BY <2>2, <2>3 DEF Marked, Losing
  <2> QED
    BY <2>4, <2>5, <2>7, <2>8, <2>9, LocalStep DEF ProcessInv
<1> QED
  BY <1>3, <1>4 DEF Hear

LEMMA WakeKeeps ==
  ASSUME ClientInv, NEW p \in Request, Wake(p) PROVE ClientInv'
<1>1. /\ UNCHANGED <<cards, clock, req, policy, lost>> /\ proc[p].pc = "sleeping"
      /\ Become(p, "waiting") /\ wire' = [wire EXCEPT ![p] = "request"]
      /\ ClientTypeOK /\ ProcessInv(p) /\ proc[p] \in Process
  BY DEF Wake, Put, storeVars, ClientInv, ClientTypeOK
<1>2. wire'[p] = "request" /\ \A q \in Request \ {p} : wire'[q] = wire[q]
  BY <1>1 DEF ClientTypeOK
<1>3. /\ proc'[p].pc = "waiting" /\ proc'[p].age = 0
      /\ proc'[p].takeover = proc[p].takeover /\ proc' \in [Request -> Process]
      /\ \A q \in Request \ {p} : proc'[q] = proc[q]
  BY <1>1, Becomes DEF ClientTypeOK
<1>4. ClientTypeOK'
  BY <1>1, <1>3 DEF ClientTypeOK, RowOK, row
<1>5. Local(p)
  BY <1>1, <1>2, <1>3 DEF Local, row
<1>6. row' = row /\ req'[p] = req[p] /\ lost'[p] = lost[p]
  BY <1>1, <1>5 DEF Local
<1>7. /\ req[p].pc = "idle" /\ ~proc[p].takeover
      /\ proc[p].age <= Interval /\ proc[p].age \in Nat
  BY <1>1 DEF ProcessInv, OnePlace, OnTime, Process
<1>8. BeatOK(p)' /\ OnePlace(p)' /\ OnTime(p)' /\ Standing(p)'
  BY <1>1, <1>2, <1>3, <1>6, <1>7, Numbers DEF ProcessInv, BeatOK, OnePlace, OnTime, Busy,
    Standing, IsTold, Eager
<1>9. Marked(p)'
  <2>1. ASSUME Holding(p)
        PROVE  row.sessionSeenAt + MaxTrip + Interval + 0 >= MaxClock
    <3>1. row.sessionSeenAt + MaxTrip + proc[p].age >= MaxClock
      BY <1>1, <2>1 DEF ProcessInv, Marked
    <3>2. row.sessionSeenAt \in Nat
      BY <1>1, <2>1, RowIs, Numbers DEF ClientTypeOK, RowOK, Holding, Optional
    <3> QED
      BY <1>7, <3>1, <3>2, Numbers
  <2>2. Holding(p)' => Holding(p)
    BY <1>6 DEF Holding
  <2>3. ~IsTold(p, "OK")'
    BY <1>2, <1>6, <1>7 DEF IsTold
  <2> QED
    BY <1>3, <1>6, <2>1, <2>2, <2>3 DEF Marked
<1>10. Losing(p)'
  <2>1. ASSUME lost[p] # null
        PROVE  lost[p] <= MaxTrip + Interval + 0
    <3>1. lost[p] <= MaxTrip + proc[p].age /\ lost[p] \in Nat
      BY <1>1, <2>1, Numbers DEF ProcessInv, Losing, ClientTypeOK, Optional
    <3> QED
      BY <1>7, <3>1, Numbers
  <2>2. ~Eager(p)' /\ ~IsTold(p, "OK")'
    BY <1>2, <1>3, <1>6, <1>7 DEF Eager, IsTold
  <2> QED
    BY <1>1, <1>3, <1>6, <2>1, <2>2 DEF ProcessInv, Losing, Running
<1> QED
  BY <1>4, <1>5, <1>8, <1>9, <1>10, LocalStep DEF ProcessInv

LEMMA DieKeeps ==
  ASSUME ClientInv, NEW p \in Request, Die(p) PROVE ClientInv'
<1>1. /\ UNCHANGED <<cards, clock, req, policy, wire>> /\ Running(p)
      /\ proc' = [proc EXCEPT ![p].pc = "failed"]
      /\ lost' = [lost EXCEPT ![p] = null]
      /\ ClientTypeOK /\ ProcessInv(p) /\ proc[p] \in Process
  BY DEF Die, storeVars, ClientInv, ClientTypeOK
<1>2. /\ proc'[p] = [proc[p] EXCEPT !.pc = "failed"] /\ lost'[p] = null
      /\ \A q \in Request \ {p} : proc'[q] = proc[q] /\ lost'[q] = lost[q]
  BY <1>1 DEF ClientTypeOK
<1>3. proc'[p].pc = "failed" /\ proc'[p].age = proc[p].age
  BY <1>1, <1>2 DEF Process
<1>4. proc'[p].takeover = proc[p].takeover
  BY <1>1, <1>2 DEF Process
<1>5. proc' \in [Request -> Process]
  <2>1. ASSUME NEW old \in Process
        PROVE  [old EXCEPT !.pc = "failed"] \in Process
    BY DEF Process
  <2>2. proc'[p] \in Process
    BY <1>1, <1>2, <2>1
  <2> QED
    BY <1>1, <2>2 DEF ClientTypeOK
<1>6. ClientTypeOK'
  BY <1>1, <1>5, Numbers DEF ClientTypeOK, RowOK, row, Optional
<1>7. Local(p) /\ row' = row /\ req'[p] = req[p] /\ wire'[p] = wire[p]
  BY <1>1, <1>2 DEF Local, row
<1>8. BeatOK(p)' /\ OnePlace(p)'
  BY <1>1, <1>3, <1>7 DEF ProcessInv, BeatOK, OnePlace
<1>9. OnTime(p)'
  BY <1>1, <1>3, <1>7 DEF ProcessInv, OnTime, Busy
<1>10. Standing(p)'
  BY <1>1, <1>3, <1>4, <1>7 DEF ProcessInv, Standing, IsTold, Eager
<1>11. Marked(p)' /\ Losing(p)'
  BY <1>2, <1>3 DEF Marked, Losing
<1> QED
  BY <1>6, <1>7, <1>8, <1>9, <1>10, <1>11, LocalStep DEF ProcessInv

LEMMA DropKeeps ==
  ASSUME ClientInv, NEW p \in Request, Drop(p) PROVE ClientInv'
<1>1. /\ UNCHANGED <<cards, clock, req, policy, proc, lost>> /\ proc[p].pc = "failed"
      /\ wire' = [wire EXCEPT ![p] = "none"]
      /\ ClientTypeOK /\ ProcessInv(p)
  BY DEF Drop, Put, storeVars, ClientInv
<1>2. wire'[p] = "none" /\ \A q \in Request \ {p} : wire'[q] = wire[q]
  BY <1>1 DEF ClientTypeOK
<1>3. ClientTypeOK'
  BY <1>1 DEF ClientTypeOK, RowOK, row
<1>4. /\ Local(p) /\ row' = row /\ req'[p] = req[p] /\ proc'[p] = proc[p]
      /\ lost'[p] = lost[p]
  BY <1>1, <1>2 DEF Local, row
<1>5. ProcessInv(p)'
  BY <1>1, <1>2, <1>4 DEF ProcessInv, BeatOK, OnePlace, OnTime, Busy, Standing, IsTold,
    Eager, Marked, Losing, Running
<1> QED
  BY <1>3, <1>4, <1>5, LocalStep

-----------------------------------------------------------------------------
(* The server.                                                             *)

LEMMA BeatArrivesKeeps ==
  ASSUME ClientInv, NEW p \in Request, BeatArrives(p) PROVE ClientInv'
<1>1. /\ UNCHANGED <<cards, clock, policy, proc, lost>>
      /\ wire[p] = "request" /\ req[p].pc = "idle"
      /\ req' = [req EXCEPT ![p] =
                   [pc |-> "find", call |-> Beat(p), at |-> clock, d |-> null]]
      /\ wire' = [wire EXCEPT ![p] = "none"]
      /\ ClientTypeOK /\ ProcessInv(p) /\ proc[p] \in Process
  BY DEF BeatArrives, Arrive, Put, storeVars, ClientInv, ClientTypeOK
<1>2. /\ req'[p] = [pc |-> "find", call |-> Beat(p), at |-> MaxClock, d |-> null]
      /\ wire'[p] = "none"
      /\ \A q \in Request \ {p} : req'[q] = req[q] /\ wire'[q] = wire[q]
  BY <1>1 DEF ClientTypeOK
<1>3. Beat(p) \in BeatOf(p) /\ Beat(p) \in Call
  <2>1. proc[p].takeover \in BOOLEAN
    BY <1>1 DEF Process
  <2>2. Beat(p) \in BeatOf(p)
    BY <1>1, <2>1 DEF Beat, BeatOf, ClientTypeOK
  <2>3. p \in Optional(SessionId) /\ policy \in Optional(Policy)
    BY <1>1, ClientAssumption DEF Optional, ClientTypeOK
  <2>4. Beat(p) \in Call
    BY <1>1, <2>1, <2>3, Numbers DEF Beat, Call
  <2> QED
    BY <2>2, <2>4
<1>4. [pc |-> "find", call |-> Beat(p), at |-> MaxClock, d |-> null] \in Handler
  BY <1>3, Numbers DEF Handler, Pc, Optional, Time
<1>5. ClientTypeOK'
  BY <1>1, <1>2, <1>4 DEF ClientTypeOK, RowOK, row
<1>6. Local(p) /\ row' = row /\ proc'[p] = proc[p] /\ lost'[p] = lost[p]
  BY <1>1, <1>2 DEF Local, row
<1>7. BeatOK(p)' /\ OnePlace(p)'
  BY <1>1, <1>2, <1>3, <1>6 DEF ProcessInv, BeatOK, OnePlace
<1>8. OnTime(p)'
  <2>1. Busy(p) /\ proc[p].age \in Nat
    BY <1>1 DEF Busy, Process
  <2> QED
    BY <1>1, <1>2, <1>6, <2>1, Numbers DEF ProcessInv, OnTime
<1>9. /\ Eager(p)' <=> Eager(p)
      /\ Sent(p)' /\ Sent(p) /\ \A v \in Told : ~IsTold(p, v)'
  BY <1>1, <1>2 DEF Eager, Sent, IsTold, Beat, Told
<1>10. Standing(p)'
  BY <1>1, <1>2, <1>6, <1>9 DEF ProcessInv, Standing, Told
<1>11. Marked(p)' /\ Losing(p)'
  BY <1>1, <1>6, <1>9 DEF ProcessInv, Marked, Losing, Holding, Running, Told
<1> QED
  BY <1>5, <1>6, <1>7, <1>8, <1>10, <1>11, LocalStep DEF ProcessInv

LEMMA AnswerKeeps ==
  ASSUME ClientInv, NEW p \in Request, Answer(p) PROVE ClientInv'
<1>1. /\ UNCHANGED <<cards, clock, policy, proc, lost>> /\ req[p].pc = "log"
      /\ req' = [req EXCEPT ![p] = Idle]
      /\ wire' = [wire EXCEPT ![p] = req[p].d.result]
      /\ ClientTypeOK /\ ProcessInv(p)
  BY DEF Answer, Reply, Put, storeVars, ClientInv, ProcessInv, BeatOK
<1>2. /\ req'[p] = Idle /\ wire'[p] = req[p].d.result /\ wire[p] = "none"
      /\ req[p].d.result \in Told
      /\ \A q \in Request \ {p} : req'[q] = req[q] /\ wire'[q] = wire[q]
  BY <1>1 DEF ClientTypeOK, ProcessInv, BeatOK, OnePlace
<1>3. Idle \in Handler
  BY Numbers DEF Idle, Handler, Pc, Optional, Time
<1>4. ClientTypeOK'
  BY <1>1, <1>2, <1>3 DEF ClientTypeOK, RowOK, row
<1>5. Local(p) /\ row' = row /\ proc'[p] = proc[p] /\ lost'[p] = lost[p]
  BY <1>1, <1>2 DEF Local, row
<1>6. BeatOK(p)' /\ OnePlace(p)' /\ OnTime(p)'
  BY <1>1, <1>2, <1>5, Numbers DEF ProcessInv, BeatOK, OnePlace, OnTime, Busy, Idle, Told
<1>7. /\ ~Eager(p)' /\ ~Sent(p)'
      /\ \A v \in Told : IsTold(p, v)' <=> IsTold(p, v)
  BY <1>1, <1>2 DEF Eager, Sent, IsTold, Idle, Told
<1>8. Standing(p)' /\ Marked(p)' /\ Losing(p)'
  BY <1>1, <1>2, <1>5, <1>7 DEF ProcessInv, Standing, Marked, Losing, Holding, Running,
    Told, Idle
<1> QED
  BY <1>4, <1>5, <1>6, <1>8, LocalStep DEF ProcessInv

LEMMA ServerFailsKeeps ==
  ASSUME ClientInv, NEW p \in Request, ServerFails(p) PROVE ClientInv'
<1>1. /\ UNCHANGED <<cards, clock, policy, wire>> /\ req[p].pc # "idle"
      /\ req' = [req EXCEPT ![p] = Idle]
      /\ ClientTypeOK /\ ProcessInv(p)
  BY DEF ServerFails, Abort, storeVars, ClientInv
<1>2. /\ req'[p] = Idle /\ wire'[p] = "none"
      /\ \A q \in Request \ {p} : req'[q] = req[q] /\ wire'[q] = wire[q]
  BY <1>1 DEF ClientTypeOK, ProcessInv, OnePlace
<1>3. Idle \in Handler /\ Idle.pc = "idle" /\ Idle.at = 0
  BY Numbers DEF Idle, Handler, Pc, Optional, Time
<1>4. /\ proc'[p].pc = "failed" /\ lost'[p] = null
      /\ proc' \in [Request -> Process] /\ lost' \in [Request -> Optional(0 .. SessionStale)]
      /\ \A q \in Request \ {p} : proc'[q] = proc[q] /\ lost'[q] = lost[q]
  <2>1. CASE proc[p].pc = "waiting"
    <3>1. Become(p, "failed") /\ lost' = [lost EXCEPT ![p] = null]
      BY <2>1 DEF ServerFails, Stop
    <3> QED
      BY <1>1, <3>1, Becomes DEF ClientTypeOK, Optional
  <2>2. CASE proc[p].pc # "waiting"
    <3>1. proc' = proc /\ lost' = lost
      BY <2>2 DEF ServerFails
    <3>2. proc[p].pc = "failed"
      BY <1>1, <2>2 DEF ClientTypeOK, ProcessInv, OnePlace, Process
    <3> QED
      BY <1>1, <3>1, <3>2 DEF ClientTypeOK, ProcessInv, Losing, Running
  <2> QED
    BY <2>1, <2>2
<1>5. ClientTypeOK'
  BY <1>1, <1>3, <1>4 DEF ClientTypeOK, RowOK, row
<1>6. Local(p) /\ row' = row
  BY <1>1, <1>2, <1>4 DEF Local, row
<1>7. BeatOK(p)' /\ OnePlace(p)' /\ OnTime(p)'
  BY <1>2, <1>3, <1>4, Numbers DEF BeatOK, OnePlace, OnTime, Busy
<1>8. Standing(p)' /\ Marked(p)' /\ Losing(p)'
  BY <1>2, <1>3, <1>4 DEF Standing, Marked, Losing, Eager, IsTold
<1> QED
  BY <1>5, <1>6, <1>7, <1>8, LocalStep DEF ProcessInv

\* The handler of a beat, and its row.
LEMMA BeatHandler ==
  ASSUME ClientInv, NEW p \in Request, req[p].pc # "idle"
  PROVE  /\ req[p] \in Handler /\ req[p].call \in BeatOf(p) /\ Row(p) = row
         /\ req[p].call.action = "VERIFY" /\ req[p].call.hwid = Machine
         /\ req[p].call.session = p /\ req[p].call.card = Licence
         /\ row # null /\ row.status \in {"ACTIVE", "BANNED"} /\ row.hwid = Machine
         /\ row.expiresAt = null
<1>1. req[p] \in Handler /\ req[p].call \in BeatOf(p) /\ RowOK
  BY DEF ClientInv, ClientTypeOK, ProcessInv, BeatOK
<1>2. req[p].call.card = Licence
  BY <1>1 DEF BeatOf
<1> QED
  BY <1>1, <1>2, RowIs DEF BeatOf, Row, row

\* The statements a beat comes to.
LEMMA BeatStatements ==
  ASSUME ClientInv, NEW p \in Request, Statement(p)
  PROVE  \/ Claim(p)
         \/ /\ UNCHANGED storeVars
            /\ \/ /\ req[p].pc = "find" /\ row.status = "ACTIVE"
                  /\ Conclude(p, Verdict("OK", "session"), "claim")
               \/ /\ req[p].pc \in {"find", "recheck"} /\ row.status = "BANNED"
                  /\ Finish(p, "BANNED", "log")
               \/ /\ req[p].pc = "claim" /\ ~ClaimWhere(row, req[p])
                  /\ Goto(p, "recheck")
               \/ /\ req[p].pc = "recheck" /\ row.status = "ACTIVE"
                  /\ Finish(p, "CONCURRENT_SESSION", "log")
<1>1. req[p].pc \in {"find", "claim", "recheck"}
  BY DEF Statement, FindUnknown, Find, Activate, LoseActivation, RereadUnknown, Reread,
    MarkExpired, Rebind, Touch, Claim, MissClaim, Recheck, ClientInv, ProcessInv, BeatOK
<1>2. /\ Row(p) = row /\ row # null /\ row.status \in {"ACTIVE", "BANNED"}
      /\ row.hwid = Machine /\ row.expiresAt = null
      /\ req[p].call.action = "VERIFY" /\ req[p].call.hwid = Machine
      /\ req[p].call.session # null
  <2>1. p # null
    BY Numbers
  <2> QED
    BY <1>1, <2>1, BeatHandler
<1>3. ASSUME NEW session
      PROVE  decideVerify(row, Machine, session, req[p].at) =
               IF row.status = "BANNED" THEN Verdict("BANNED", "none")
               ELSE Verdict("OK", IF session = null THEN "heartbeat" ELSE "session")
  BY <1>2 DEF decideVerify, isExpired
<1>4. CASE Find(p)
  <2> DEFINE d == decide(req[p].call, row, req[p].at)
  <2>1. d = IF row.status = "BANNED" THEN Verdict("BANNED", "none")
            ELSE Verdict("OK", "session")
    BY <1>2, <1>3 DEF decide
  <2>2. Conclude(p, d, StepFor(d)) /\ req[p].pc = "find" /\ UNCHANGED storeVars
    BY <1>2, <1>4 DEF Find
  <2> HIDE DEF d
  <2>3. CASE row.status = "BANNED"
    <3>1. StepFor(d) = "log" /\ d.result = "BANNED"
      BY <2>1, <2>3 DEF StepFor, Verdict
    <3> QED
      BY <2>2, <2>3, <3>1 DEF Conclude
  <2>4. CASE row.status = "ACTIVE"
    <3>1. d = Verdict("OK", "session") /\ StepFor(d) = "claim"
      BY <2>1, <2>4 DEF StepFor, Verdict
    <3> QED
      BY <2>2, <2>4, <3>1
  <2> QED
    BY <1>2, <2>3, <2>4
<1>5. CASE Recheck(p)
  <2> DEFINE d == MissVerdict(row, req[p])
  <2>1. d = IF row.status = "BANNED" THEN Verdict("BANNED", "none")
            ELSE Verdict("CONCURRENT_SESSION", "none")
    <3> DEFINE base == decideVerify(row, req[p].call.hwid, null, req[p].at)
    <3>1. base = IF row.status = "BANNED" THEN Verdict("BANNED", "none")
                 ELSE Verdict("OK", "heartbeat")
      BY <1>2, <1>3
    <3> HIDE DEF base
    <3>2. d = IF base.result = "OK" THEN Verdict("CONCURRENT_SESSION", "none") ELSE base
      BY <1>2 DEF MissVerdict, base
    <3> QED
      BY <3>1, <3>2 DEF Verdict
  <2>2. /\ Conclude(p, d, IF d.effect = "markExpired" THEN "expireAgain" ELSE "log")
        /\ req[p].pc = "recheck" /\ UNCHANGED storeVars
    BY <1>2, <1>5 DEF Recheck
  <2> HIDE DEF d
  <2>3. Finish(p, d.result, "log")
    BY <2>1, <2>2 DEF Conclude, Verdict
  <2>4. d.result = IF row.status = "BANNED" THEN "BANNED" ELSE "CONCURRENT_SESSION"
    BY <2>1 DEF Verdict
  <2> QED
    BY <1>2, <2>2, <2>3, <2>4
<1>6. CASE MissClaim(p)
  BY <1>2, <1>6 DEF MissClaim
<1>7. ~FindUnknown(p)
  BY <1>2 DEF FindUnknown
<1> QED
  BY <1>1, <1>4, <1>5, <1>6, <1>7 DEF Statement, Activate, LoseActivation, RereadUnknown,
    Reread, MarkExpired, Rebind, Touch

\* A handler with its verdict.
LEMMA Finished ==
  ASSUME req \in [Request -> Handler], NEW p \in Request, NEW result \in ResultCode,
         Finish(p, result, "log")
  PROVE  /\ req'[p].pc = "log" /\ req'[p].call = req[p].call /\ req'[p].at = 0
         /\ req'[p].d.result = result /\ req' \in [Request -> Handler]
         /\ \A q \in Request \ {p} : req'[q] = req[q]
<1> DEFINE v == Verdict(result, "none")
<1>1. v \in Optional(Decision) /\ v.result = result
  BY DEF Verdict, Decision, Effect, Optional
<1>2. req' = [req EXCEPT ![p].pc = "log", ![p].at = 0, ![p].d = v]
  BY DEF Finish
<1> HIDE DEF v
<1>3. req'[p] = [req[p] EXCEPT !.pc = "log", !.at = 0, !.d = v] /\ req[p] \in Handler
  BY <1>2
<1>4. req'[p] \in Handler
  <2>1. [req[p] EXCEPT !.pc = "log"] \in Handler
    BY <1>3 DEF Handler, Pc
  <2>2. ASSUME NEW old \in Handler
        PROVE  [old EXCEPT !.at = 0, !.d = v] \in Handler
    BY <1>1 DEF Handler, Time
  <2>3. req'[p] = [[req[p] EXCEPT !.pc = "log"] EXCEPT !.at = 0, !.d = v]
    BY <1>3 DEF Handler
  <2> QED
    BY <2>1, <2>2, <2>3
<1>5. /\ req'[p].pc = "log" /\ req'[p].call = req[p].call
      /\ req'[p].at = 0 /\ req'[p].d = v
  BY <1>3 DEF Handler
<1> QED
  BY <1>1, <1>2, <1>4, <1>5

\* A statement that does not touch the row takes nothing from anybody.
LEMMA NothingLost ==
  ASSUME ClientInv, MarkLost, cards' = cards, UNCHANGED proc
  PROVE  lost' = lost
<1>1. \A p \in Request : (Holding(p)' <=> Holding(p)) /\ row' = row
  BY DEF Holding, row
<1>2. lost' = [p \in Request |-> lost[p]]
  BY <1>1 DEF MarkLost
<1> QED
  BY <1>2 DEF ClientInv, ClientTypeOK

LEMMA DecideKeeps ==
  ASSUME ClientInv, NEW p \in Request, Serve(p), ~Claim(p) PROVE ClientInv'
<1>1. /\ UNCHANGED <<cards, clock, policy, proc, wire>> /\ Statement(p)
      /\ ClientTypeOK /\ ProcessInv(p) /\ req \in [Request -> Handler]
      /\ req[p].pc \in {"find", "claim", "recheck"}
  BY BeatStatements DEF Serve, storeVars, ClientInv, ClientTypeOK
<1>2. lost' = lost
  BY <1>1, NothingLost DEF Serve
<1>3. /\ req[p] \in Handler /\ req[p].call \in BeatOf(p) /\ req[p].call.session = p
      /\ req[p].call.hwid = Machine /\ row.hwid = Machine
      /\ row.status \in {"ACTIVE", "BANNED"} /\ row # null
  BY <1>1, BeatHandler
<1>4. /\ wire[p] = "none" /\ wire'[p] = "none" /\ row' = row
      /\ proc'[p] = proc[p] /\ lost'[p] = lost[p] /\ policy' = policy
      /\ Busy(p) /\ proc[p].pc \notin {"off", "sleeping", "kicked", "invalid"}
  BY <1>1, <1>2 DEF ProcessInv, OnePlace, row, Busy
<1>5. CASE /\ req[p].pc = "find" /\ row.status = "ACTIVE"
           /\ Conclude(p, Verdict("OK", "session"), "claim")
  <2> DEFINE v == Verdict("OK", "session")
  <2>1. v \in Optional(Decision) /\ v.result = "OK"
    BY DEF Verdict, Decision, ResultCode, Effect, Optional
  <2>2. req' = [req EXCEPT ![p].d = v, ![p].pc = "claim"]
    BY <1>5 DEF Conclude
  <2> HIDE DEF v
  <2>3. req'[p] = [req[p] EXCEPT !.d = v, !.pc = "claim"]
    BY <1>1, <2>2
  <2>4. /\ req'[p].pc = "claim" /\ req'[p].call = req[p].call /\ req'[p].at = req[p].at
        /\ req'[p].d.result = "OK" /\ req'[p] \in Handler
    <3>1. req'[p] \in Handler
      BY <1>3, <2>1, <2>3 DEF Handler, Pc
    <3> QED
      BY <1>3, <2>1, <2>3, <3>1 DEF Handler
  <2>5. ClientTypeOK'
    BY <1>1, <1>2, <2>2, <2>4 DEF ClientTypeOK, RowOK, row
  <2>6. Local(p)
    BY <1>1, <1>2, <2>2 DEF Local, row
  <2>7. BeatOK(p)' /\ OnePlace(p)' /\ OnTime(p)'
    BY <1>1, <1>3, <1>4, <2>4 DEF ProcessInv, BeatOK, OnePlace, OnTime, Busy
  <2>8. Standing(p)' /\ Marked(p)' /\ Losing(p)'
    BY <1>1, <1>4, <1>5, <2>4 DEF ProcessInv, Standing, Marked, Losing, Holding, Running,
      Eager, Sent, IsTold
  <2> QED
    BY <2>5, <2>6, <2>7, <2>8, LocalStep DEF ProcessInv
<1>6. CASE req[p].pc = "claim" /\ ~ClaimWhere(row, req[p]) /\ Goto(p, "recheck")
  <2>1. req' = [req EXCEPT ![p].pc = "recheck"]
    BY <1>6 DEF Goto
  <2>2. req'[p] = [req[p] EXCEPT !.pc = "recheck"]
    BY <1>1, <2>1
  <2>3. /\ req'[p].pc = "recheck" /\ req'[p].call = req[p].call
        /\ req'[p].at = req[p].at /\ req'[p] \in Handler
    BY <1>3, <2>2 DEF Handler, Pc
  <2>4. ClientTypeOK'
    BY <1>1, <1>2, <2>1, <2>3 DEF ClientTypeOK, RowOK, row
  <2>5. Local(p)
    BY <1>1, <1>2, <2>1 DEF Local, row
  <2>6. BeatOK(p)' /\ OnePlace(p)' /\ OnTime(p)'
    BY <1>1, <1>3, <1>4, <1>6, <2>3 DEF ProcessInv, BeatOK, OnePlace, OnTime, Busy
  <2>7. row.status = "BANNED" \/ row.sessionId \notin {null, p}
    BY <1>3, <1>6 DEF ClaimWhere, BoundRow, ActiveRow
  <2>8. Standing(p)' /\ Marked(p)' /\ Losing(p)'
    BY <1>1, <1>4, <1>6, <2>3, <2>7 DEF ProcessInv, Standing, Marked, Losing, Holding,
      Running, Eager, Sent, IsTold
  <2> QED
    BY <2>4, <2>5, <2>6, <2>8, LocalStep DEF ProcessInv
<1>7. ASSUME NEW result \in {"BANNED", "CONCURRENT_SESSION"}, Finish(p, result, "log"),
             req[p].pc \in {"find", "recheck"},
             result = "BANNED" => row.status = "BANNED",
             result = "CONCURRENT_SESSION" => req[p].pc = "recheck"
      PROVE  ClientInv'
  <2>4. /\ req'[p].pc = "log" /\ req'[p].call = req[p].call /\ req'[p].at = 0
        /\ req'[p].d.result = result /\ req' \in [Request -> Handler]
        /\ \A q \in Request \ {p} : req'[q] = req[q]
    BY <1>1, <1>7, Finished DEF ResultCode
  <2>5. ClientTypeOK'
    BY <1>1, <1>2, <2>4 DEF ClientTypeOK, RowOK, row
  <2>6. Local(p)
    BY <1>1, <1>2, <2>4 DEF Local, row
  <2>7. BeatOK(p)' /\ OnePlace(p)' /\ OnTime(p)'
    BY <1>1, <1>3, <1>4, <2>4, Numbers DEF ProcessInv, BeatOK, OnePlace, OnTime, Busy, Told
  <2>8. Standing(p)' /\ Marked(p)' /\ Losing(p)'
    BY <1>1, <1>4, <1>7, <2>4 DEF ProcessInv, Standing, Marked, Losing, Holding, Running,
      Eager, Sent, IsTold
  <2> QED
    BY <2>5, <2>6, <2>7, <2>8, LocalStep DEF ProcessInv
<1> QED
  BY <1>1, <1>5, <1>6, <1>7, BeatStatements

-----------------------------------------------------------------------------
(* The steps that touch the row.                                           *)

\* A claim hits for who has not lost the licence, and displaces a running
\* process only at the startup of another one.
LEMMA ClaimHits ==
  ASSUME ClientInv, NEW p \in Request, Claim(p)
  PROVE  /\ req[p].pc = "claim" /\ row.status = "ACTIVE" /\ wire[p] = "none"
         /\ lost[p] = null
         /\ \A q \in Request \ {p} : Running(q) /\ Holding(q) => Displacing(req[p].call)
<1>1. /\ req[p].pc = "claim" /\ ClientTypeOK /\ ProcessInv(p)
      /\ ClaimWhere(Row(p), req[p])
  BY DEF Claim, ClientInv
<1>2. /\ Row(p) = row /\ req[p] \in Handler /\ req[p].call.session = p
  BY <1>1, BeatHandler
<1>3. /\ row.status = "ACTIVE" /\ wire[p] = "none"
      /\ Displacing(req[p].call) \/ row.sessionId \in {null, p}
           \/ StaleSession(row, req[p].at)
  BY <1>1, <1>2 DEF ClaimWhere, BoundRow, ActiveRow, ProcessInv, OnePlace
<1>4. req[p].at \in Nat /\ req[p].at <= MaxClock
  BY <1>1, <1>2 DEF Handler, Time, ProcessInv, OnTime
<1>5. lost[p] = null
  <2> SUFFICES ASSUME lost[p] # null PROVE FALSE
    OBVIOUS
  <2>1. proc[p].pc = "waiting" /\ proc[p].age \in Nat /\ proc[p].age <= MaxTrip
    BY <1>1 DEF ProcessInv, Losing, Running, OnePlace, OnTime, Busy, ClientTypeOK, Process
  <2>2. /\ lost[p] <= MaxTrip + Interval + proc[p].age /\ lost[p] \in Nat
        /\ row.sessionId \notin {null, p} /\ ~Eager(p)
        /\ row.sessionSeenAt + MaxTrip + lost[p] >= MaxClock
    BY <1>1, <1>3, <2>1, Numbers DEF ProcessInv, Losing, ClientTypeOK, Optional
  <2>3. row.sessionSeenAt \in Nat /\ row.sessionSeenAt + SessionStale < req[p].at
    BY <1>1, <1>3, <2>2, RowIs, Numbers
      DEF Eager, Displacing, StaleSession, ClientTypeOK, Optional
  <2> QED
    BY <1>4, <2>1, <2>2, <2>3, Numbers
<1>6. ASSUME NEW q \in Request, q # p, Running(q), Holding(q), ~Displacing(req[p].call)
      PROVE  FALSE
  <2>1. /\ ProcessInv(q) /\ row.sessionId = q /\ q # null /\ q \notin {null, p}
        /\ proc[q].age \in Nat
    BY <1>1, <1>6, Numbers DEF ClientInv, Holding, ClientTypeOK, Process
  <2>2. row.sessionSeenAt \in Nat /\ row.sessionSeenAt + SessionStale < req[p].at
    BY <1>1, <1>3, <1>6, <2>1, RowIs, Numbers DEF StaleSession, ClientTypeOK, Optional
  <2>3. CASE proc[q].pc = "sleeping"
    <3>1. /\ proc[q].age <= Interval
          /\ row.sessionSeenAt + MaxTrip + proc[q].age >= MaxClock
      BY <1>6, <2>1, <2>3 DEF ProcessInv, OnTime, Marked
    <3> QED
      BY <1>4, <2>1, <2>2, <3>1, Numbers
  <2>4. CASE proc[q].pc = "waiting" /\ Sent(q)
    <3>1. /\ proc[q].age <= MaxTrip
          /\ row.sessionSeenAt + MaxTrip + Interval + proc[q].age >= MaxClock
      BY <1>6, <2>1, <2>4 DEF ProcessInv, OnTime, Marked, Busy
    <3> QED
      BY <1>4, <2>1, <2>2, <3>1, Numbers
  <2>5. CASE proc[q].pc = "waiting" /\ IsTold(q, "OK")
    <3>1. /\ proc[q].age <= MaxTrip
          /\ row.sessionSeenAt + proc[q].age >= MaxClock
      BY <1>6, <2>1, <2>5 DEF ProcessInv, OnTime, Marked, Busy
    <3> QED
      BY <1>4, <2>1, <2>2, <3>1, Numbers
  <2>6. proc[q].pc = "waiting" =>
          \/ Sent(q) \/ IsTold(q, "OK") \/ req[q].pc = "recheck"
          \/ IsTold(q, "BANNED") \/ IsTold(q, "CONCURRENT_SESSION")
    <3>1. wire[q] \in {"none", "request"} \cup Told
      BY <1>1 DEF ClientTypeOK
    <3> QED
      BY <2>1, <3>1 DEF ProcessInv, OnePlace, BeatOK, Sent, IsTold, Told
  <2> QED
    BY <1>3, <1>6, <2>1, <2>3, <2>4, <2>5, <2>6 DEF Running, ProcessInv, Standing
<1> QED
  BY <1>1, <1>3, <1>5, <1>6

LEMMA ClaimKeeps ==
  ASSUME ClientInv, NEW p \in Request, Serve(p), Claim(p) PROVE ClientInv'
<1>1. /\ UNCHANGED <<clock, policy, proc, wire>> /\ MarkLost /\ req[p].pc = "claim"
      /\ SetRow(req[p].call.card, ClaimedRow(Row(p), req[p]))
      /\ Finish(p, req[p].d.result, "log")
      /\ ClientTypeOK /\ ProcessInv(p)
  BY DEF Serve, Claim, ClientInv
<1>2. /\ req[p] \in Handler /\ req[p].call \in BeatOf(p) /\ req[p].call.session = p
      /\ req[p].call.card = Licence /\ Row(p) = row /\ req[p].d.result = "OK"
      /\ p # null
  BY <1>1, BeatHandler, Numbers DEF ProcessInv, BeatOK
<1>3. /\ row.status = "ACTIVE" /\ wire[p] = "none" /\ lost[p] = null
      /\ row \in LicenceRow
  BY <1>1, ClaimHits, RowIs DEF ClientTypeOK
<1>4. /\ req[p].at \in 0 .. MaxClock /\ proc[p].age \in Nat /\ proc[p].age <= MaxTrip
      /\ req[p].at + proc[p].age >= MaxClock
  BY <1>1, <1>2, Numbers DEF ProcessInv, OnTime, Busy, Handler, Time, ClientTypeOK, Process
<1>5. /\ cards' = [cards EXCEPT ![Licence] = ClaimedRow(row, req[p])]
      /\ row' = ClaimedRow(row, req[p])
  BY <1>1, <1>2, Numbers DEF SetRow, ClientTypeOK, RowOK, row
<1>6. /\ row'.status = "ACTIVE" /\ row'.sessionId = p /\ row'.sessionSeenAt = req[p].at
      /\ row' \in LicenceRow
  <2>1. p \in Optional(Request) /\ req[p].at \in Optional(0 .. MaxClock)
    BY <1>4 DEF Optional
  <2> QED
    BY <1>2, <1>3, <1>5, <2>1 DEF ClaimedRow, LicenceRow
<1>7. /\ req'[p].pc = "log" /\ req'[p].call = req[p].call /\ req'[p].at = 0
      /\ req'[p].d.result = "OK" /\ req' \in [Request -> Handler]
      /\ \A q \in Request \ {p} : req'[q] = req[q]
  BY <1>1, <1>2, Finished DEF ResultCode, ClientTypeOK
<1>8. ASSUME NEW q \in Request
      PROVE  /\ lost'[q] = IF Running(q) /\ lost[q] = null /\ Holding(q) /\ q # p
                           THEN 0 ELSE lost[q]
             /\ Holding(q)' => q = p
  BY <1>1, <1>3, <1>6 DEF MarkLost, Holding
<1>9. ClientTypeOK'
  <2>1. RowOK'
    <3>1. cards' \in [CardId -> LicenceRow]
      BY <1>1, <1>5, <1>6 DEF ClientTypeOK, RowOK
    <3>2. row'.sessionSeenAt # null
      BY <1>4, <1>6, Numbers
    <3> QED
      BY <3>1, <3>2 DEF RowOK
  <2>2. lost' \in [Request -> Optional(0 .. SessionStale)]
    <3>1. \A q \in Request : lost'[q] \in Optional(0 .. SessionStale)
      BY <1>1, <1>8, Numbers DEF ClientTypeOK, Optional
    <3> QED
      BY <1>1, <3>1 DEF MarkLost
  <2> QED
    BY <1>1, <1>7, <2>1, <2>2 DEF ClientTypeOK
<1>10. ProcessInv(p)'
  <2>1. lost'[p] = null /\ wire'[p] = "none" /\ proc'[p] = proc[p]
    BY <1>1, <1>3, <1>8
  <2>2. BeatOK(p)' /\ OnePlace(p)' /\ OnTime(p)'
    BY <1>1, <1>2, <1>7, <2>1, Numbers DEF ProcessInv, BeatOK, OnePlace, OnTime, Busy, Told
  <2>3. Standing(p)' /\ Marked(p)' /\ Losing(p)'
    BY <1>1, <1>4, <1>6, <1>7, <2>1 DEF ProcessInv, OnePlace, Standing, Marked, Losing,
      Eager, Sent, IsTold
  <2> QED
    BY <2>2, <2>3 DEF ProcessInv
<1>11. ASSUME NEW q \in Request, q # p
       PROVE  ProcessInv(q)'
  <2>1. /\ ProcessInv(q) /\ req'[q] = req[q] /\ wire'[q] = wire[q] /\ proc'[q] = proc[q]
    BY <1>1, <1>7, <1>11 DEF ClientInv
  <2>2. BeatOK(q)' /\ OnePlace(q)' /\ OnTime(q)'
    BY <2>1 DEF ProcessInv, BeatOK, OnePlace, OnTime, Busy
  <2>3. Standing(q)' /\ Marked(q)'
    BY <1>2, <1>3, <1>6, <1>8, <1>11, <2>1 DEF ProcessInv, Standing, Marked, Eager, IsTold
  <2>4. ASSUME lost[q] # null
        PROVE  Losing(q)'
    <3>1. lost[q] \in Nat /\ lost'[q] = lost[q]
      BY <1>1, <1>8, <2>4, Numbers DEF ClientTypeOK, Optional
    <3>2. row'.sessionSeenAt + MaxTrip + lost'[q] >= MaxClock
      BY <1>4, <1>6, <3>1, Numbers
    <3>3. row'.sessionId \notin {null, q} /\ ~Eager(q)'
      BY <1>2, <1>3, <1>6, <1>11, <2>1, <2>4 DEF ProcessInv, Losing, Eager
    <3>4. /\ Running(q)'
          /\ proc'[q].pc = "sleeping" => lost'[q] <= MaxTrip + proc'[q].age
          /\ proc'[q].pc = "waiting" => lost'[q] <= MaxTrip + Interval + proc'[q].age
          /\ proc'[q].pc = "waiting" /\ IsTold(q, "OK")' => lost'[q] <= proc'[q].age
      BY <2>1, <2>4, <3>1 DEF ProcessInv, Losing, Running, IsTold
    <3> QED
      BY <3>2, <3>3, <3>4 DEF Losing
  <2>5. ASSUME lost[q] = null /\ Running(q) /\ Holding(q)
        PROVE  Losing(q)'
    <3>1. lost'[q] = 0 /\ proc[q].age \in Nat
      BY <1>1, <1>8, <1>11, <2>5 DEF ClientTypeOK, Process
    <3>2. row'.sessionSeenAt + MaxTrip + lost'[q] >= MaxClock
      BY <3>1, <1>4, <1>6, Numbers
    <3>3. row'.sessionId \notin {null, q} /\ ~Eager(q)'
      BY <1>2, <1>6, <1>11, <2>1, <2>5 DEF ProcessInv, Standing, Holding, Eager
    <3>4. /\ Running(q)'
          /\ proc'[q].pc = "sleeping" => lost'[q] <= MaxTrip + proc'[q].age
          /\ proc'[q].pc = "waiting" => lost'[q] <= MaxTrip + Interval + proc'[q].age
          /\ proc'[q].pc = "waiting" /\ IsTold(q, "OK")' => lost'[q] <= proc'[q].age
      BY <2>1, <2>5, <3>1, Numbers DEF Running
    <3> QED
      BY <3>2, <3>3, <3>4 DEF Losing
  <2>6. ASSUME lost[q] = null /\ ~(Running(q) /\ Holding(q))
        PROVE  Losing(q)'
    <3>1. lost'[q] = null
      BY <1>8, <2>6
    <3> QED
      BY <3>1 DEF Losing
  <2> QED
    BY <2>2, <2>3, <2>4, <2>5, <2>6 DEF ProcessInv
<1> QED
  BY <1>9, <1>10, <1>11 DEF ClientInv

LEMMA RevokeKeeps == ClientInv /\ Revoke => ClientInv'
<1> SUFFICES ASSUME ClientInv, Revoke PROVE ClientInv'
  OBVIOUS
<1>1. /\ UNCHANGED <<clock, req, policy, proc, wire>> /\ row.status = "ACTIVE" /\ MarkLost
      /\ cards' = [cards EXCEPT ![Licence] = [row EXCEPT !.status = "BANNED"]]
      /\ ClientTypeOK /\ row \in LicenceRow
  BY RowIs DEF Revoke, SetRow, ClientInv, ClientTypeOK
<1>2. row' = [row EXCEPT !.status = "BANNED"]
  BY <1>1, Numbers DEF ClientTypeOK, RowOK, row
<1>3. /\ row'.status = "BANNED" /\ row'.sessionId = row.sessionId
      /\ row'.sessionSeenAt = row.sessionSeenAt /\ row' \in LicenceRow
  BY <1>1, <1>2 DEF LicenceRow
<1>4. ASSUME NEW p \in Request
      PROVE  lost'[p] = IF Running(p) /\ lost[p] = null THEN 0 ELSE lost[p]
  BY <1>1, <1>3 DEF MarkLost
<1>5. ClientTypeOK'
  <2>1. RowOK'
    <3>1. cards' \in [CardId -> LicenceRow]
      BY <1>1, <1>2, <1>3 DEF ClientTypeOK, RowOK
    <3> QED
      BY <1>1, <1>3, <3>1 DEF ClientTypeOK, RowOK
  <2>2. lost' \in [Request -> Optional(0 .. SessionStale)]
    <3>1. \A p \in Request : lost'[p] \in Optional(0 .. SessionStale)
      BY <1>1, <1>4, Numbers DEF ClientTypeOK, Optional
    <3> QED
      BY <1>1, <3>1 DEF MarkLost
  <2> QED
    BY <1>1, <2>1, <2>2 DEF ClientTypeOK
<1>6. ASSUME NEW p \in Request
      PROVE  ProcessInv(p)'
  <2>1. /\ ProcessInv(p) /\ req'[p] = req[p] /\ wire'[p] = wire[p] /\ proc'[p] = proc[p]
        /\ proc[p].age \in Nat
    BY <1>1 DEF ClientInv, ClientTypeOK, Process
  <2>2. BeatOK(p)' /\ OnePlace(p)' /\ OnTime(p)'
    BY <2>1 DEF ProcessInv, BeatOK, OnePlace, OnTime, Busy
  <2>3. Standing(p)' /\ Marked(p)'
    BY <1>3, <2>1 DEF ProcessInv, Standing, Marked, Eager, IsTold, Holding
  <2>4. ASSUME lost'[p] = null
        PROVE  Losing(p)'
    BY <2>4 DEF Losing
  <2>5. ASSUME lost'[p] # null
        PROVE  Losing(p)'
    <3>1. /\ Running(p)'
          /\ proc'[p].pc = "sleeping" => lost'[p] <= MaxTrip + proc'[p].age
          /\ proc'[p].pc = "waiting" => lost'[p] <= MaxTrip + Interval + proc'[p].age
          /\ proc'[p].pc = "waiting" /\ IsTold(p, "OK")' => lost'[p] <= proc'[p].age
      <4>1. CASE lost[p] = null
        <5>1. lost'[p] = 0 /\ Running(p)
          BY <1>4, <2>5, <4>1
        <5> QED
          BY <2>1, <5>1, Numbers DEF Running
      <4>2. CASE lost[p] # null
        <5>1. lost'[p] = lost[p]
          BY <1>4, <4>2
        <5> QED
          BY <2>1, <4>2, <5>1 DEF ProcessInv, Losing, Running, IsTold
      <4> QED
        BY <4>1, <4>2
    <3> QED
      BY <1>3, <3>1 DEF Losing
  <2> QED
    BY <2>2, <2>3, <2>4, <2>5 DEF ProcessInv
<1> QED
  BY <1>5, <1>6 DEF ClientInv

LEMMA Receding ==
  ASSUME NEW t \in Optional(0 .. MaxClock)
  PROVE  /\ Recede(t) \in Optional(0 .. MaxClock)
         /\ Recede(t) = null <=> t = null
         /\ t # null => /\ t \in Nat /\ Recede(t) \in Nat
                        /\ Recede(t) + 1 >= t /\ Recede(t) <= t
<1>1. CASE t \in {null, 0}
  BY <1>1, Numbers DEF Recede, Optional
<1>2. CASE t \notin {null, 0}
  <2>1. t \in Nat /\ t > 0 /\ t <= MaxClock /\ Recede(t) = t - 1
    BY <1>2, Numbers DEF Recede, Optional
  <2>2. Recede(t) \in 0 .. MaxClock
    BY <2>1, Numbers
  <2> QED
    BY <2>1, <2>2, Numbers DEF Optional
<1> QED
  BY <1>1, <1>2

LEMMA PassKeeps == ClientInv /\ Pass => ClientInv'
<1> SUFFICES ASSUME ClientInv, Pass PROVE ClientInv'
  OBVIOUS
<1>1. /\ UNCHANGED <<clock, policy, wire>> /\ ClientTypeOK /\ row \in LicenceRow
      /\ cards' = [cards EXCEPT ![Licence].sessionSeenAt = Recede(@),
                                ![Licence].lastSeenAt = Recede(@)]
      /\ req' = [p \in Request |-> [req[p] EXCEPT !.at = Recede(@)]]
      /\ proc' = [p \in Request |->
                    IF Busy(p) \/ proc[p].pc = "sleeping"
                    THEN [proc[p] EXCEPT !.age = @ + 1] ELSE proc[p]]
      /\ lost' = [p \in Request |-> Older(lost[p])]
  BY RowIs DEF Pass, ClientInv, ClientTypeOK
<1>2. row' = [row EXCEPT !.sessionSeenAt = Recede(row.sessionSeenAt),
                         !.lastSeenAt = Recede(row.lastSeenAt)]
  BY <1>1, Numbers DEF ClientTypeOK, RowOK, row, LicenceRow
<1>3. /\ row'.status = row.status /\ row'.sessionId = row.sessionId
      /\ row'.sessionSeenAt = Recede(row.sessionSeenAt) /\ row' \in LicenceRow
  <2>1. /\ Recede(row.sessionSeenAt) \in Optional(0 .. MaxClock)
        /\ Recede(row.lastSeenAt) \in Optional(0 .. MaxClock)
    BY <1>1, Receding DEF LicenceRow
  <2> QED
    BY <1>1, <1>2, <2>1 DEF LicenceRow
<1>4. row.sessionSeenAt # null =>
        /\ row.sessionSeenAt \in Nat /\ row'.sessionSeenAt \in Nat
        /\ row'.sessionSeenAt + 1 >= row.sessionSeenAt
  BY <1>1, <1>3, Receding DEF LicenceRow
<1>5. ASSUME NEW p \in Request
      PROVE  /\ req'[p] \in Handler /\ req'[p].pc = req[p].pc
             /\ req'[p].call = req[p].call /\ req'[p].d = req[p].d
             /\ req[p].at \in Nat /\ req'[p].at \in Nat
             /\ req'[p].at + 1 >= req[p].at /\ req'[p].at <= req[p].at
  <2>1. /\ req'[p] = [req[p] EXCEPT !.at = Recede(req[p].at)] /\ req[p] \in Handler
        /\ req[p].at \in Optional(0 .. MaxClock) /\ req[p].at # null
    BY <1>1, Numbers DEF ClientTypeOK, ClientInv, ProcessInv, OnTime, Handler, Time, Optional
  <2>2. /\ Recede(req[p].at) \in Nat /\ req[p].at \in Nat
        /\ Recede(req[p].at) + 1 >= req[p].at /\ Recede(req[p].at) <= req[p].at
    BY <2>1, Receding
  <2> QED
    BY <2>1, <2>2 DEF Handler, Time
<1>6. ASSUME NEW p \in Request
      PROVE  /\ proc'[p] \in Process /\ proc'[p].pc = proc[p].pc
             /\ proc'[p].takeover = proc[p].takeover /\ proc[p].age \in Nat
             /\ proc'[p].age = IF Busy(p) \/ proc[p].pc = "sleeping"
                               THEN proc[p].age + 1 ELSE proc[p].age
  <2>1. proc[p] \in Process /\ proc[p].age \in Nat
    BY <1>1 DEF ClientTypeOK, Process
  <2>2. CASE Busy(p) \/ proc[p].pc = "sleeping"
    <3>1. proc'[p] = [proc[p] EXCEPT !.age = proc[p].age + 1]
      BY <1>1, <2>2
    <3>2. proc'[p].pc = proc[p].pc /\ proc'[p].age = proc[p].age + 1
      BY <2>1, <3>1 DEF Process
    <3>3. proc'[p].takeover = proc[p].takeover
      BY <2>1, <3>1 DEF Process
    <3>4. proc'[p] \in Process
      <4>1. ASSUME NEW old \in Process, NEW n \in Nat
            PROVE  [old EXCEPT !.age = n] \in Process
        BY Zenon DEF Process
      <4>2. proc[p].age + 1 \in Nat
        BY <2>1
      <4> QED
        BY <2>1, <3>1, <4>1, <4>2
    <3> QED
      BY <2>1, <2>2, <3>2, <3>3, <3>4
  <2>3. CASE ~(Busy(p) \/ proc[p].pc = "sleeping")
    BY <1>1, <2>1, <2>3
  <2> QED
    BY <2>2, <2>3
<1>7. ASSUME NEW p \in Request
      PROVE  /\ lost'[p] = Older(lost[p])
             /\ lost'[p] = null <=> lost[p] = null
             /\ lost[p] # null => lost[p] \in 0 .. SessionStale /\ lost'[p] \in 0 .. SessionStale
  <2>1. lost'[p] = Older(lost[p]) /\ lost[p] \in Optional(0 .. SessionStale)
    BY <1>1 DEF ClientTypeOK
  <2> QED
    BY <2>1, Numbers DEF Older, Optional
<1>8. ClientTypeOK'
  <2>1. RowOK'
    <3>1. cards' \in [CardId -> LicenceRow]
      <4>1. cards' = [cards EXCEPT ![Licence] = row']
        BY <1>1, <1>2, Numbers DEF ClientTypeOK, RowOK, row
      <4> QED
        BY <1>1, <1>3, <4>1 DEF ClientTypeOK, RowOK
    <3> QED
      BY <1>1, <1>3, <1>4, <3>1, Numbers DEF ClientTypeOK, RowOK
  <2>2. lost' \in [Request -> Optional(0 .. SessionStale)]
    BY <1>1, <1>7 DEF Optional
  <2>3. req' \in [Request -> Handler] /\ proc' \in [Request -> Process]
    BY <1>1, <1>5, <1>6
  <2> QED
    BY <1>1, <2>1, <2>2, <2>3 DEF ClientTypeOK
<1>9. ASSUME NEW p \in Request
      PROVE  ProcessInv(p)'
  <2>1. /\ ProcessInv(p) /\ wire'[p] = wire[p]
        /\ Busy(p)' <=> Busy(p)
        /\ Busy(p) => proc[p].age < MaxTrip
        /\ proc[p].pc = "sleeping" => proc[p].age < Interval
    BY <1>1, <1>5, <1>6 DEF ClientInv, Pass, Busy
  <2>2. /\ Eager(p)' <=> Eager(p)
        /\ Sent(p)' <=> Sent(p)
        /\ Running(p)' <=> Running(p)
        /\ \A v \in Told : IsTold(p, v)' <=> IsTold(p, v)
    BY <1>5, <1>6, <2>1 DEF Eager, Sent, IsTold, Running
  <2>3. BeatOK(p)' /\ OnePlace(p)'
    BY <1>5, <1>6, <2>1 DEF ProcessInv, BeatOK, OnePlace
  <2>4. OnTime(p)'
    <3>1. req[p].pc \in {"find", "claim", "recheck"} =>
            Busy(p) /\ req[p].at + proc[p].age >= MaxClock
      BY <2>1 DEF ProcessInv, OnTime, Busy
    <3>2. req[p].at <= MaxClock
      BY <2>1 DEF ProcessInv, OnTime
    <3> QED
      BY <1>5, <1>6, <2>1, <3>1, <3>2, Numbers DEF OnTime
  <2>5. Standing(p)'
    BY <1>3, <1>5, <1>6, <2>1, <2>2 DEF ProcessInv, Standing, Told
  <2>6. Marked(p)'
    <3>1. ASSUME Holding(p)
          PROVE  row.sessionSeenAt \in Nat /\ row'.sessionSeenAt \in Nat
                 /\ row'.sessionSeenAt + 1 >= row.sessionSeenAt
      BY <1>1, <1>4, <3>1, Numbers DEF Holding, ClientTypeOK, RowOK
    <3>2. proc[p].pc = "waiting" => Busy(p)
      BY DEF Busy
    <3>3. Holding(p)' <=> Holding(p)
      BY <1>3 DEF Holding
    <3> QED
      BY <1>6, <2>1, <2>2, <3>1, <3>2, <3>3, Numbers DEF ProcessInv, Marked, Told
  <2>7. Losing(p)'
    <3> SUFFICES ASSUME lost'[p] # null PROVE Losing(p)'
      BY DEF Losing
    <3>1. /\ Running(p) /\ lost[p] # null /\ lost[p] \in Nat
          /\ proc[p].pc = "sleeping" => lost[p] <= MaxTrip + proc[p].age
          /\ proc[p].pc = "waiting" => lost[p] <= MaxTrip + Interval + proc[p].age
          /\ proc[p].pc = "waiting" /\ IsTold(p, "OK") => lost[p] <= proc[p].age
          /\ \/ row.status = "BANNED"
             \/ /\ row.sessionId \notin {null, p} /\ ~Eager(p)
                /\ row.sessionSeenAt + MaxTrip + lost[p] >= MaxClock
      BY <1>7, <2>1, Numbers DEF ProcessInv, Losing
    <3>2. proc[p].pc \in {"waiting", "sleeping"} /\ (proc[p].pc = "waiting" => Busy(p))
      BY <3>1 DEF Running, Busy
    <3>3. proc'[p].age = proc[p].age + 1 /\ proc[p].age \in Nat
      BY <1>6, <3>2
    <3>4. lost'[p] = lost[p] + 1
      <4>1. lost[p] < SessionStale
        BY <2>1, <3>1, <3>2, <3>3, Numbers
      <4> QED
        BY <1>7, <3>1, <4>1 DEF Older
    <3>5. row.status # "BANNED" =>
            row'.sessionSeenAt + MaxTrip + lost'[p] >= MaxClock
      <4>1. row.sessionId # null =>
              /\ row.sessionSeenAt \in Nat /\ row'.sessionSeenAt \in Nat
              /\ row'.sessionSeenAt + 1 >= row.sessionSeenAt
        BY <1>1, <1>4 DEF ClientTypeOK, RowOK
      <4> QED
        BY <3>1, <3>4, <4>1, Numbers
    <3>6. /\ Running(p)'
          /\ proc'[p].pc = "sleeping" => lost'[p] <= MaxTrip + proc'[p].age
          /\ proc'[p].pc = "waiting" => lost'[p] <= MaxTrip + Interval + proc'[p].age
          /\ proc'[p].pc = "waiting" /\ IsTold(p, "OK")' => lost'[p] <= proc'[p].age
      BY <1>6, <2>2, <3>1, <3>3, <3>4, Numbers DEF Told
    <3> QED
      BY <1>3, <2>2, <3>1, <3>5, <3>6 DEF Losing
  <2> QED
    BY <2>3, <2>4, <2>5, <2>6, <2>7 DEF ProcessInv
<1> QED
  BY <1>8, <1>9 DEF ClientInv

-----------------------------------------------------------------------------
(* The theorems.                                                           *)

LEMMA InitClientInv == InitClient => ClientInv
<1> SUFFICES ASSUME InitClient PROVE ClientInv
  OBVIOUS
<1> DEFINE first == [IssuedRow(null) EXCEPT !.status = "ACTIVE", !.activated = TRUE,
                                           !.hwid = Machine]
<1>1. /\ cards = [c \in CardId |-> first] /\ clock = MaxClock
      /\ req = [p \in Request |-> Idle] /\ policy \in Policy
      /\ proc = [p \in Request |-> [pc |-> "off", takeover |-> TRUE, age |-> 0]]
      /\ wire = [p \in Request |-> "none"] /\ lost = [p \in Request |-> null]
  BY DEF InitClient, InitService
<1>2. first \in LicenceRow /\ first.sessionId = null
  BY DEF IssuedRow, LicenceRow, Optional
<1> HIDE DEF first
<1>3. row = first
  BY <1>1, Numbers DEF row
<1>4. Idle \in Handler /\ Idle.pc = "idle" /\ Idle.at = 0
  BY Numbers DEF Idle, Handler, Pc, Optional, Time
<1>5. ClientTypeOK
  <2>1. RowOK
    BY <1>1, <1>2, <1>3 DEF RowOK
  <2>2. \A p \in Request : [pc |-> "off", takeover |-> TRUE, age |-> 0] \in Process
    BY DEF Process
  <2> QED
    BY <1>1, <1>4, <2>1, <2>2 DEF ClientTypeOK, Optional
<1>6. ASSUME NEW p \in Request
      PROVE  ProcessInv(p)
  <2>1. /\ req[p] = Idle /\ wire[p] = "none" /\ lost[p] = null
        /\ proc[p].pc = "off" /\ proc[p].age = 0 /\ p # null
    BY <1>1, Numbers
  <2>2. BeatOK(p) /\ OnePlace(p) /\ OnTime(p)
    BY <1>4, <2>1, Numbers DEF BeatOK, OnePlace, OnTime, Busy
  <2>3. Standing(p) /\ Marked(p) /\ Losing(p)
    BY <1>2, <1>3, <1>4, <2>1 DEF Standing, IsTold, Marked, Holding, Losing
  <2> QED
    BY <2>2, <2>3 DEF ProcessInv
<1> QED
  BY <1>5, <1>6 DEF ClientInv

LEMMA StepClientInv == ClientInv /\ [ClientNext]_cvars => ClientInv'
<1> SUFFICES ASSUME ClientInv, [ClientNext]_cvars PROVE ClientInv'
  OBVIOUS
<1>1. ASSUME NEW p \in Request, ClientMoves(p)
      PROVE  ClientInv'
  BY <1>1, LaunchKeeps, HearKeeps, WakeKeeps, DieKeeps, DropKeeps DEF ClientMoves
<1>2. ASSUME NEW p \in Request, ServerMoves(p)
      PROVE  ClientInv'
  BY <1>2, BeatArrivesKeeps, DecideKeeps, ClaimKeeps, AnswerKeeps, ServerFailsKeeps
    DEF ServerMoves
<1>3. CASE UNCHANGED cvars
  <2>1. /\ row' = row /\ ClientTypeOK'
        /\ UNCHANGED <<cards, clock, req, policy, proc, wire, lost>>
    BY <1>3 DEF cvars, ClientInv, ClientTypeOK, RowOK, row
  <2> QED
    BY <2>1, Undisturbed DEF ClientInv
<1> QED
  BY <1>1, <1>2, <1>3, RevokeKeeps, PassKeeps DEF ClientNext

THEOREM ClientInvariant == ClientSpec => []ClientInv
BY InitClientInv, StepClientInv, PTL DEF ClientSpec

\* A process whose session was taken, or whose licence was banned, has stopped
\* one interval and two trips later, and never holds the session again, however
\* deaths, delays and server failures fall (verify.js:13).
THEOREM Stops == ClientSpec => []StopsInTime
<1>1. ClientInv => StopsInTime
  <2> SUFFICES ASSUME ClientInv, NEW p \in Request, lost[p] # null
               PROVE  lost[p] <= Interval + 2 * MaxTrip
    BY DEF StopsInTime
  <2>1. /\ ProcessInv(p) /\ proc[p].age \in Nat /\ lost[p] \in Nat
    BY Numbers DEF ClientInv, ClientTypeOK, Process, Optional
  <2>2. CASE proc[p].pc = "sleeping"
    <3>1. proc[p].age <= Interval /\ lost[p] <= MaxTrip + proc[p].age
      BY <2>1, <2>2 DEF ProcessInv, OnTime, Losing
    <3> QED
      BY <2>1, <3>1, Numbers
  <2>3. CASE proc[p].pc = "waiting"
    <3>1. proc[p].age <= MaxTrip /\ lost[p] <= MaxTrip + Interval + proc[p].age
      BY <2>1, <2>3 DEF ProcessInv, OnTime, Losing, Busy
    <3> QED
      BY <2>1, <3>1, Numbers
  <2> QED
    BY <2>1, <2>2, <2>3 DEF ProcessInv, Losing, Running
<1> QED
  BY <1>1, ClientInvariant, PTL

\* Processes never throw each other out to the last: of those that compete for
\* a licence that is not banned, the one whose session it is was not told to go.
THEOREM Survives == ClientSpec => []OneSurvives
<1>1. ClientInv => OneSurvives
  <2> SUFFICES ASSUME ClientInv, NEW p \in Request, proc[p].pc = "kicked",
                      row.status # "BANNED"
               PROVE  \E q \in Request : Running(q) \/ proc[q].pc = "failed"
    BY DEF OneSurvives
  <2>1. row.sessionId # null
    BY DEF ClientInv, ProcessInv, Standing
  <2>2. PICK q \in Request : row.sessionId = q
    BY <2>1, RowIs DEF ClientInv, ClientTypeOK, Optional
  <2>3. proc[q].pc \notin {"off", "kicked", "invalid"}
    BY <2>1, <2>2 DEF ClientInv, ProcessInv, Standing
  <2>4. proc[q].pc \in {"off", "waiting", "sleeping", "kicked", "invalid", "failed"}
    BY DEF ClientInv, ClientTypeOK, Process
  <2> QED
    BY <2>3, <2>4 DEF Running
<1> QED
  BY <1>1, ClientInvariant, PTL

\* Only a claim gives the session to another process.
LEMMA StepKept ==
  ASSUME ClientInv, [ClientNext]_cvars, NEW p \in Request, Displaced(p)
  PROVE  \E q \in Request \ {p} : Startup(q)
<1>1. /\ Running(p) /\ Holding(p) /\ ~Holding(p)' /\ row'.status = "ACTIVE"
      /\ row' # row
  BY DEF Displaced, Holding
<1>2. cards' # cards
  BY <1>1 DEF row
<1>3. ~Revoke
  <2> SUFFICES ASSUME Revoke PROVE row'.status = "BANNED"
    BY <1>1
  <2>1. cards' = [cards EXCEPT ![Licence] = [row EXCEPT !.status = "BANNED"]]
    BY DEF Revoke, SetRow
  <2>2. row' = [row EXCEPT !.status = "BANNED"] /\ row \in LicenceRow
    BY <2>1, RowIs, Numbers DEF ClientInv, ClientTypeOK, RowOK, row
  <2> QED
    BY <2>2 DEF LicenceRow
<1>4. ~Pass
  <2> SUFFICES ASSUME Pass PROVE Holding(p)' <=> Holding(p)
    BY <1>1
  <2>1. cards' = [cards EXCEPT ![Licence].sessionSeenAt = Recede(@),
                               ![Licence].lastSeenAt = Recede(@)]
    BY DEF Pass
  <2>2. /\ row \in LicenceRow
        /\ row' = [row EXCEPT !.sessionSeenAt = Recede(row.sessionSeenAt),
                              !.lastSeenAt = Recede(row.lastSeenAt)]
    BY <2>1, RowIs, Numbers DEF ClientInv, ClientTypeOK, RowOK, row
  <2> QED
    BY <2>2 DEF LicenceRow, Holding
<1>5. PICK q \in Request : Serve(q) /\ Claim(q)
  BY <1>2, <1>3, <1>4, BeatStatements DEF ClientNext, ClientMoves, ServerMoves, Launch,
    Hear, Wake, Die, Drop, BeatArrives, Arrive, Serve, Answer, Reply, ServerFails, Abort,
    storeVars, cvars
<1>6. /\ req[q].pc = "claim" /\ ClientTypeOK /\ Finish(q, req[q].d.result, "log")
      /\ SetRow(req[q].call.card, ClaimedRow(Row(q), req[q]))
      /\ req[q].d.result = "OK"
  BY <1>5 DEF Claim, ClientInv, ProcessInv, BeatOK
<1>7. q # p
  <2>1. /\ Row(q) = row /\ req[q].call.card = Licence /\ req[q].call.session = q
    BY <1>6, BeatHandler
  <2>2. row' = ClaimedRow(row, req[q]) /\ row \in LicenceRow
    BY <1>6, <2>1, RowIs, Numbers DEF SetRow, ClientTypeOK, RowOK, row
  <2>3. row'.sessionId = q
    BY <2>1, <2>2 DEF ClaimedRow, LicenceRow
  <2> QED
    BY <1>1, <2>3 DEF Holding
<1>8. Displacing(req[q].call)
  BY <1>1, <1>5, <1>7, ClaimHits
<1>9. req'[q].pc = "log"
  BY <1>6, Finished DEF ClientTypeOK, ResultCode
<1> QED
  BY <1>6, <1>7, <1>8, <1>9 DEF Startup

\* A running process loses a licence in force only to the startup beat of
\* another one under kick-old: no schedule lets its session grow stale.
THEOREM Kept == ClientSpec => SessionKept
<1>1. ClientInv /\ [ClientNext]_cvars =>
        [\A p \in Request : Displaced(p) => \E q \in Request \ {p} : Startup(q)]_cvars
  BY StepKept
<1> QED
  BY <1>1, ClientInvariant, PTL DEF ClientSpec, SessionKept
=============================================================================
