------------------------------ MODULE SignedApi ------------------------------
(***************************************************************************)
(* The guard in front of the client endpoints, crypto/signature.guard.ts,  *)
(* and the nonce store behind it, consumeNonce of redis/redis.service.ts.  *)
(* The network may deliver a signed message late, several times, damaged   *)
(* or never; the guard is to let a message through once in the life of its *)
(* nonce. A message has a random nonce of its own: the nonce is the        *)
(* message. Clients' clocks may be wrong by any amount.                    *)
(***************************************************************************)
EXTENDS Integers, Sequences

CONSTANTS
  Message,     \* the messages clients sign
  Worker,      \* the requests the server handles at the same time
  null,        \* an absent value
  MaxSkew,     \* MAX_SKEW_MS
  NonceTtl,    \* NONCE_TTL_S
  Offset,      \* how far a client's clock may be ahead (or behind, < 0)
  Lag,         \* the longest a request waits for Redis, resends included
  MaxClock     \* bound: the clock stops here

ASSUME ApiAssumption ==
  /\ null \notin Message \cup Int
  /\ MaxSkew \in Nat /\ NonceTtl \in Nat /\ Lag \in Nat /\ MaxClock \in Nat
  /\ Offset \subseteq Int

VARIABLES
  clock,       \* Date.now() of the server, and the time of Redis
  store,       \* "redis" with REDIS_URL set, else "memory"
  nonces,      \* [Message -> when the nonce expires, null: not stored]
  stamp,       \* [Message -> x-timestamp, null: not sent yet]
  guard,       \* [Worker -> [msg, at]]: what consumeNonce is awaited for
  passed,      \* history: the instants a message passed with this store
  answers      \* history: the answers given to its deliveries

avars == <<clock, store, nonces, stamp, guard, passed, answers>>

Free == [msg |-> null, at |-> 0]

InitApi ==
  /\ clock = 0
  /\ store \in {"memory", "redis"}
  /\ nonces = [m \in Message |-> null]
  /\ stamp = [m \in Message |-> null]
  /\ guard = [w \in Worker |-> Free]
  /\ passed = [m \in Message |-> <<>>]
  /\ answers = [m \in Message |-> {}]

-----------------------------------------------------------------------------
(* The checks.                                                             *)

Fresh(m) ==
  /\ clock - stamp[m] <= MaxSkew
  /\ stamp[m] - clock <= MaxSkew

\* The Map drops a nonce at the very instant it expires, Redis after it.
Remembered(m) ==
  /\ nonces[m] # null
  /\ IF store = "memory" THEN nonces[m] > clock ELSE nonces[m] >= clock

\* Bug variant: a nonce is kept for the skew and no longer.
Expiry_Skew(now) == now + MaxSkew

Expiry(now) == now + NonceTtl

\* Every consumption sweeps the Map first; SET NX writes its own key alone.
Stored(m) ==
  [n \in Message |->
     IF n = m /\ ~Remembered(m) THEN Expiry(clock)
     ELSE IF store = "memory" /\ ~Remembered(n) THEN null
     ELSE nonces[n]]

\* The guard's answer to one delivery of m.
AnswerTo(m, result) ==
  /\ answers' = [answers EXCEPT ![m] = @ \cup {result}]
  /\ passed' = [passed EXCEPT ![m] = IF result = "accepted"
                                     THEN Append(@, clock) ELSE @]

\* Bug variant: SET without NX never fails.
Result_Plain(m) == "accepted"

Result(m) == IF Remembered(m) THEN "replayed" ELSE "accepted"

-----------------------------------------------------------------------------
(* The deliveries. canActivate runs to its await in one go; with the Map,  *)
(* consumeNonce does too.                                                  *)

Send(m) ==
  /\ stamp[m] = null
  /\ \E o \in Offset : stamp' = [stamp EXCEPT ![m] = clock + o]
  /\ UNCHANGED <<clock, store, nonces, guard, passed, answers>>

Idle(w) == guard[w] = Free

Refuse(w, m, result) ==
  /\ AnswerTo(m, result)
  /\ UNCHANGED <<clock, store, nonces, stamp, guard>>

Await(w, m) ==
  /\ guard' = [guard EXCEPT ![w] = [msg |-> m, at |-> clock]]
  /\ UNCHANGED <<clock, store, nonces, stamp, passed, answers>>

ConsumeInMemory(m) ==
  /\ nonces' = Stored(m)
  /\ AnswerTo(m, Result(m))
  /\ UNCHANGED <<clock, store, stamp, guard>>

\* Bug variant: the nonce is consumed before the signature is checked.
Deliver_NonceFirst(w, m, intact) ==
  /\ stamp[m] # null /\ Idle(w)
  /\ \/ ~Fresh(m) /\ Refuse(w, m, "stale")
     \/ /\ Fresh(m) /\ ~intact
        /\ nonces' = Stored(m)
        /\ AnswerTo(m, "bad signature")
        /\ UNCHANGED <<clock, store, stamp, guard>>
     \/ Fresh(m) /\ intact /\ store = "memory" /\ ConsumeInMemory(m)
     \/ Fresh(m) /\ intact /\ store = "redis" /\ Await(w, m)

\* A copy of m arrives, intact, or with bytes or headers that its signature
\* does not match.
Deliver(w, m, intact) ==
  /\ stamp[m] # null /\ Idle(w)
  /\ \/ ~Fresh(m) /\ Refuse(w, m, "stale")
     \/ Fresh(m) /\ ~intact /\ Refuse(w, m, "bad signature")
     \/ Fresh(m) /\ intact /\ store = "memory" /\ ConsumeInMemory(m)
     \/ Fresh(m) /\ intact /\ store = "redis" /\ Await(w, m)

\* SET key 1 EX ttl NX, and the answer it gets.
ConsumeInRedis(w) ==
  /\ ~Idle(w)
  /\ LET m == guard[w].msg
     IN nonces' = Stored(m) /\ AnswerTo(m, Result(m))
  /\ guard' = [guard EXCEPT ![w] = Free]
  /\ UNCHANGED <<clock, store, stamp>>

\* The connection breaks after the SET was executed and before its answer is
\* read; ioredis connects again and sends the statement once more.
LoseReply(w) ==
  /\ ~Idle(w)
  /\ nonces' = Stored(guard[w].msg)
  /\ answers' = [answers EXCEPT ![guard[w].msg] = @ \cup {"unheard"}]
  /\ UNCHANGED <<clock, store, stamp, guard, passed>>

\* The retries end, with or without the key written: the request does too,
\* in an error. Nothing falls back to the Map.
RedisFails(w) ==
  /\ ~Idle(w)
  /\ nonces' \in {nonces, Stored(guard[w].msg)}
  /\ AnswerTo(guard[w].msg, "error")
  /\ guard' = [guard EXCEPT ![w] = Free]
  /\ UNCHANGED <<clock, store, stamp>>

\* The server restarts: the Map is lost and its history with it; Redis is not,
\* and the requests that wait for it end without an answer.
Restart ==
  /\ guard' = [w \in Worker |-> Free]
  /\ IF store = "memory"
     THEN /\ nonces' = [m \in Message |-> null]
          /\ passed' = [m \in Message |-> <<>>]
          /\ answers' = [m \in Message |-> {}]
     ELSE UNCHANGED <<nonces, passed, answers>>
  /\ UNCHANGED <<clock, store, stamp>>

Elapse ==
  /\ clock < MaxClock
  /\ \A w \in Worker : ~Idle(w) => clock - guard[w].at < Lag
  /\ clock' = clock + 1
  /\ UNCHANGED <<store, nonces, stamp, guard, passed, answers>>

ApiNext ==
  \/ \E m \in Message : Send(m)
  \/ \E w \in Worker, m \in Message, intact \in BOOLEAN : Deliver(w, m, intact)
  \/ \E w \in Worker : ConsumeInRedis(w) \/ LoseReply(w) \/ RedisFails(w)
  \/ Restart
  \/ Elapse

ApiSpec == InitApi /\ [][ApiNext]_avars

-----------------------------------------------------------------------------

\* No two copies of a message pass within the life of a nonce, by however many
\* requests at once they are delivered and whatever becomes of the answers of
\* Redis, while the store lives (signature.guard.ts:40, "a nonce may be used
\* once within its TTL").
OncePerTtl ==
  \A m \in Message : \A i, j \in DOMAIN passed[m] :
    i < j => passed[m][i] + NonceTtl <= passed[m][j]

\* A message passes again, however late, only where its stamp is so far ahead
\* that it stays in the skew window for the whole life of the nonce its first
\* passing left (signature.guard.ts:5-6): with the constants of the code, a
\* message that passed with a stamp a full minute ahead. Redis adds the time
\* the request waits for it.
OnceUnlessAhead ==
  \A m \in Message :
    Len(passed[m]) > 1 =>
      IF store = "memory" THEN passed[m][1] + NonceTtl <= stamp[m] + MaxSkew
      ELSE passed[m][1] + NonceTtl < stamp[m] + MaxSkew + Lag

\* Only a copy that passed, that ended in an error on its way to Redis, or
\* whose answer from Redis was lost, makes another delivery a replay: a late
\* or damaged copy leaves the message acceptable (signature.guard.ts:29-43).
ReplayExplained ==
  \A m \in Message :
    "replayed" \in answers[m] =>
      answers[m] \cap {"accepted", "error", "unheard"} # {}

-----------------------------------------------------------------------------
(* What a comment says of the code and the code does not keep.             *)

\* A message passes at most once: nonces are remembered "a bit longer than the
\* skew window" (signature.guard.ts:6). A copy is acceptable from one skew
\* before its stamp to one skew after it, which is no shorter than NonceTtl.
AcceptedOnce == \A m \in Message : Len(passed[m]) <= 1
=============================================================================
