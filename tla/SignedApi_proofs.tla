--------------------------- MODULE SignedApi_proofs ---------------------------
(***************************************************************************)
(* For any messages, any number of concurrent requests, any clocks and any *)
(* windows: how far apart the guard of SignedApi lets a message through,   *)
(* when it does so twice, and what a replay goes back to.                  *)
(***************************************************************************)
EXTENDS SignedApi, TLAPS

Waiting == {Free} \cup [msg : Message, at : Nat]

Answer == {"accepted", "replayed", "stale", "bad signature", "error", "unheard"}

\* The state has the types of the code's values.
TypeOK ==
  /\ clock \in Nat
  /\ store \in {"memory", "redis"}
  /\ nonces \in [Message -> Int \cup {null}]
  /\ stamp \in [Message -> Int \cup {null}]
  /\ guard \in [Worker -> Waiting]
  /\ passed \in [Message -> Seq(Nat)]
  /\ answers \in [Message -> SUBSET Answer]

\* A request that waits for Redis carries a message that was fresh when it
\* was checked, at most Lag ago.
Awaited(w) ==
  guard[w].msg # null =>
    /\ store = "redis"
    /\ stamp[guard[w].msg] # null
    /\ guard[w].at - stamp[guard[w].msg] <= MaxSkew
    /\ clock - guard[w].at <= Lag

\* An entry of the store that expires at t is gone.
Gone(t) == IF store = "memory" THEN t <= clock ELSE t < clock

Last(m) == passed[m][Len(passed[m])]

\* The nonce of the last copy that passed is stored for its whole life.
Kept(m) ==
  passed[m] # <<>> =>
    /\ stamp[m] # null
    /\ \/ Gone(Last(m) + NonceTtl)
       \/ nonces[m] # null /\ nonces[m] >= Last(m) + NonceTtl

\* The passings of a message, a life of its nonce apart.
Apart(m) ==
  \A i, j \in DOMAIN passed[m] :
    i < j => passed[m][i] + NonceTtl <= passed[m][j]

\* The last instant at which a copy that was fresh can pass.
Latest(m) == IF store = "memory" THEN stamp[m] + MaxSkew ELSE stamp[m] + MaxSkew + Lag

\* A message that passed again outlived its nonce.
Outlived(m) ==
  Len(passed[m]) > 1 =>
    IF store = "memory" THEN passed[m][1] + NonceTtl <= stamp[m] + MaxSkew
    ELSE passed[m][1] + NonceTtl < stamp[m] + MaxSkew + Lag

Passings(m) == Kept(m) /\ Apart(m) /\ Outlived(m)

IInv ==
  /\ TypeOK
  /\ \A w \in Worker : Awaited(w)
  /\ \A m \in Message : Passings(m)

-----------------------------------------------------------------------------

LEMMA InitInv == InitApi => IInv
<1> SUFFICES ASSUME InitApi PROVE IInv
  OBVIOUS
<1>1. TypeOK
  BY DEF InitApi, TypeOK, Free, Waiting
<1>2. \A w \in Worker : Awaited(w)
  BY DEF InitApi, Awaited, Free
<1>3. ASSUME NEW m \in Message PROVE Passings(m)
  <2>1. passed[m] = <<>>
    BY DEF InitApi
  <2> QED
    BY <2>1 DEF Passings, Kept, Apart, Outlived
<1> QED
  BY <1>1, <1>2, <1>3 DEF IInv

LEMMA RememberedMeans ==
  ASSUME TypeOK, NEW m \in Message
  PROVE  Remembered(m) <=> nonces[m] # null /\ ~Gone(nonces[m])
<1>1. clock \in Nat /\ nonces[m] \in Int \cup {null}
  BY DEF TypeOK
<1> QED
  BY <1>1 DEF Remembered, Gone

\* What the store holds after a consumption: an entry for the message, and of
\* the others what was still remembered, or all of it.
LEMMA StoredFacts ==
  ASSUME TypeOK, NEW m \in Message
  PROVE  /\ Stored(m) \in [Message -> Int \cup {null}]
         /\ Stored(m)[m] = IF Remembered(m) THEN nonces[m] ELSE clock + NonceTtl
         /\ \A n \in Message \ {m} :
              \/ Stored(m)[n] = nonces[n]
              \/ nonces[n] # null /\ Gone(nonces[n]) /\ Stored(m)[n] = null
              \/ nonces[n] = null /\ Stored(m)[n] = null
<1>1. /\ clock \in Nat /\ NonceTtl \in Nat
      /\ store \in {"memory", "redis"} /\ null \notin Int
      /\ \A n \in Message : nonces[n] \in Int \cup {null}
  BY ApiAssumption DEF TypeOK
<1>2. ASSUME NEW n \in Message
      PROVE  /\ Stored(m)[n] = IF n = m /\ ~Remembered(m) THEN clock + NonceTtl
                              ELSE IF store = "memory" /\ ~Remembered(n) THEN null
                              ELSE nonces[n]
             /\ Stored(m)[n] \in Int \cup {null}
  BY <1>1 DEF Stored, Expiry
<1>3. Stored(m)[m] = IF Remembered(m) THEN nonces[m] ELSE clock + NonceTtl
  BY <1>2
<1>4. ASSUME NEW n \in Message \ {m}, Stored(m)[n] # nonces[n]
      PROVE  nonces[n] # null /\ Gone(nonces[n]) /\ Stored(m)[n] = null
  BY <1>1, <1>2, <1>4, RememberedMeans
<1>5. Stored(m) = [n \in Message |-> Stored(m)[n]]
  BY DEF Stored
<1> QED
  BY <1>2, <1>3, <1>4, <1>5

\* An entry the store lets go of, or renews, was gone: whatever the SET of one
\* message does, answered or not, the passings of all stay remembered.
LEMMA StoringKeeps ==
  ASSUME IInv, NEW m \in Message, NEW n \in Message,
         nonces' = Stored(m), passed'[n] = passed[n], UNCHANGED <<clock, store, stamp>>
  PROVE  Passings(n)'
<1>0. TypeOK /\ Passings(n)
  BY DEF IInv
<1>1. Apart(n)' /\ Outlived(n)'
  BY <1>0 DEF Passings, Apart, Outlived
<1>2. Kept(n)'
  <2> SUFFICES ASSUME passed[n] # <<>>, ~Gone(Last(n) + NonceTtl)
               PROVE  nonces'[n] # null /\ nonces'[n] >= Last(n) + NonceTtl
    BY <1>0 DEF Passings, Kept, Last, Gone
  <2>1. /\ Last(n) \in Nat /\ NonceTtl \in Nat /\ clock \in Nat
        /\ nonces[n] \in Int \cup {null}
    <3>1. passed[n] \in Seq(Nat) /\ passed[n] # <<>>
      BY <1>0 DEF TypeOK
    <3> QED
      BY <1>0, <3>1, ApiAssumption DEF TypeOK, Last
  <2>2. nonces[n] # null /\ nonces[n] >= Last(n) + NonceTtl
    BY <1>0 DEF Passings, Kept
  <2>3. ~Gone(nonces[n])
    BY <2>1, <2>2 DEF Gone
  <2>4. Remembered(n)
    BY <1>0, <2>2, <2>3, RememberedMeans
  <2>5. nonces'[n] = nonces[n]
    BY <1>0, <2>2, <2>3, <2>4, StoredFacts
  <2> QED
    BY <2>2, <2>5
<1> QED
  BY <1>1, <1>2 DEF Passings

\* One more instant at the end of a sequence of instants.
LEMMA AppendFacts ==
  ASSUME NEW s \in Seq(Nat), NEW t \in Nat
  PROVE  LET s1 == Append(s, t)
         IN  /\ Len(s) \in Nat /\ Len(s1) = Len(s) + 1
             /\ s1[Len(s) + 1] = t
             /\ DOMAIN s1 = 1 .. (Len(s) + 1)
             /\ DOMAIN s = 1 .. Len(s)
             /\ \A i \in 1 .. Len(s) : s1[i] = s[i] /\ s[i] \in Nat
             /\ s1 # <<>>
<1> DEFINE s1 == Append(s, t)
<1>1. /\ Len(s) \in Nat /\ Len(s1) = Len(s) + 1 /\ s1 \in Seq(Nat)
      /\ DOMAIN s = 1 .. Len(s)
  OBVIOUS
<1>2. s1[Len(s) + 1] = t /\ \A i \in 1 .. Len(s) : s1[i] = s[i] /\ s[i] \in Nat
  OBVIOUS
<1>3. DOMAIN s1 = 1 .. (Len(s) + 1) /\ s1 # <<>>
  <2>1. DOMAIN s1 = 1 .. Len(s1)
    BY <1>1
  <2>2. s1 # <<>>
    BY <1>1
  <2> QED
    BY <1>1, <2>1, <2>2
<1> QED
  BY <1>1, <1>2, <1>3

\* A passing of a message that is not remembered comes a life of the nonce
\* after the last one, and no later than a fresh copy can pass.
LEMMA PassingKeeps ==
  ASSUME IInv, NEW m \in Message, stamp[m] # null, clock <= Latest(m),
         ~Remembered(m), nonces' = Stored(m),
         passed'[m] = Append(passed[m], clock), UNCHANGED <<clock, store, stamp>>
  PROVE  Passings(m)'
<1>0. TypeOK /\ Passings(m)
  BY DEF IInv
<1>1. /\ clock \in Nat /\ NonceTtl \in Nat /\ MaxSkew \in Nat /\ Lag \in Nat
      /\ stamp[m] \in Int /\ nonces[m] \in Int \cup {null} /\ null \notin Int
      /\ passed[m] \in Seq(Nat)
  BY <1>0, ApiAssumption DEF TypeOK
<1>2. /\ Len(passed[m]) \in Nat /\ Len(passed'[m]) = Len(passed[m]) + 1
      /\ passed'[m][Len(passed[m]) + 1] = clock
      /\ DOMAIN passed'[m] = 1 .. (Len(passed[m]) + 1)
      /\ DOMAIN passed[m] = 1 .. Len(passed[m])
      /\ \A i \in 1 .. Len(passed[m]) :
           passed'[m][i] = passed[m][i] /\ passed[m][i] \in Nat
      /\ passed'[m] # <<>>
  <2>1. passed[m] \in Seq(Nat) /\ clock \in Nat
    BY <1>1
  <2>2. LET s1 == Append(passed[m], clock)
        IN  /\ Len(passed[m]) \in Nat /\ Len(s1) = Len(passed[m]) + 1
            /\ s1[Len(passed[m]) + 1] = clock
            /\ DOMAIN s1 = 1 .. (Len(passed[m]) + 1)
            /\ DOMAIN passed[m] = 1 .. Len(passed[m])
            /\ \A i \in 1 .. Len(passed[m]) :
                 s1[i] = passed[m][i] /\ passed[m][i] \in Nat
            /\ s1 # <<>>
    BY ONLY <2>1, AppendFacts
  <2> QED
    BY <2>2, Zenon
<1>3. nonces'[m] = clock + NonceTtl
  BY <1>0, StoredFacts
<1>4. Kept(m)'
  <2>1. Last(m)' = clock
    BY <1>2 DEF Last
  <2> QED
    BY <1>1, <1>2, <1>3, <2>1 DEF Kept
<1>5. ASSUME NEW i \in 1 .. Len(passed[m])
      PROVE  Gone(passed[m][i] + NonceTtl)
  <2>1. Len(passed[m]) \in 1 .. Len(passed[m]) /\ passed[m] # <<>>
    BY <1>1, <1>2
  <2>2. Last(m) \in Nat /\ passed[m][i] \in Nat
    BY <1>2, <2>1 DEF Last
  <2>3. passed[m][i] <= Last(m)
    <3>1. CASE i = Len(passed[m])
      BY <2>2, <3>1 DEF Last
    <3>2. CASE i # Len(passed[m])
      <4>1. i < Len(passed[m])
        BY <1>2, <3>2
      <4>2. passed[m][i] + NonceTtl <= Last(m)
        BY <1>0, <1>2, <2>1, <4>1 DEF Passings, Apart, Last
      <4> QED
        BY <1>1, <2>2, <4>2
    <3> QED
      BY <3>1, <3>2
  <2>4. Gone(Last(m) + NonceTtl)
    <3> SUFFICES ASSUME nonces[m] # null, nonces[m] >= Last(m) + NonceTtl
                 PROVE  Gone(Last(m) + NonceTtl)
      BY <1>0, <2>1 DEF Passings, Kept
    <3>1. Gone(nonces[m])
      BY <1>0, RememberedMeans
    <3> QED
      BY <1>1, <2>2, <3>1 DEF Gone
  <2> QED
    BY <1>1, <2>2, <2>3, <2>4 DEF Gone
<1>6. Apart(m)'
  <2> SUFFICES ASSUME NEW i \in DOMAIN passed'[m], NEW j \in DOMAIN passed'[m], i < j
               PROVE  passed'[m][i] + NonceTtl <= passed'[m][j]
    BY DEF Apart
  <2>1. i \in 1 .. Len(passed[m])
    BY <1>2
  <2>2. CASE j = Len(passed[m]) + 1
    BY <1>1, <1>2, <1>5, <2>1, <2>2 DEF Gone
  <2>3. CASE j \in 1 .. Len(passed[m])
    BY <1>0, <1>2, <2>1, <2>3 DEF Passings, Apart
  <2> QED
    BY <1>2, <2>2, <2>3
<1>7. Outlived(m)'
  <2> SUFFICES ASSUME Len(passed'[m]) > 1
               PROVE  IF store = "memory"
                      THEN passed'[m][1] + NonceTtl <= stamp[m] + MaxSkew
                      ELSE passed'[m][1] + NonceTtl < stamp[m] + MaxSkew + Lag
    BY DEF Outlived
  <2>1. 1 \in 1 .. Len(passed[m])
    BY <1>2
  <2>2. Gone(passed[m][1] + NonceTtl) /\ passed'[m][1] = passed[m][1]
        /\ passed[m][1] \in Nat
    BY <1>2, <1>5, <2>1
  <2> DEFINE first == passed[m][1]
             sent == stamp[m]
  <2>3. first \in Nat /\ sent \in Int /\ passed'[m][1] = first
    BY <1>1, <2>2
  <2>4. Gone(first + NonceTtl) /\ clock <= Latest(m)
    BY <2>2
  <2> HIDE DEF first
  <2>5. IF store = "memory" THEN first + NonceTtl <= sent + MaxSkew
        ELSE first + NonceTtl < sent + MaxSkew + Lag
    <3> HIDE DEF sent
    <3>1. /\ store = "memory" => clock <= sent + MaxSkew
          /\ store # "memory" => clock <= sent + MaxSkew + Lag
      BY <2>4 DEF Latest, sent
    <3>2. CASE store = "memory"
      <4>1. first + NonceTtl <= clock
        BY ONLY <2>4, <3>2 DEF Gone
      <4> QED
        BY ONLY <1>1, <2>3, <3>1, <3>2, <4>1
    <3>3. CASE store # "memory"
      <4>1. first + NonceTtl < clock
        BY ONLY <2>4, <3>3 DEF Gone
      <4> QED
        BY ONLY <1>1, <2>3, <3>1, <3>3, <4>1
    <3> QED
      BY ONLY <3>2, <3>3
  <2> QED
    BY ONLY <2>3, <2>5
<1> QED
  BY <1>4, <1>6, <1>7 DEF Passings

\* A consumption and the answer it gets keep the invariant of every message.
LEMMA ConsumeKeeps ==
  ASSUME IInv, NEW m \in Message, stamp[m] # null, clock <= Latest(m),
         nonces' = Stored(m), AnswerTo(m, Result(m)), UNCHANGED <<clock, store, stamp>>
  PROVE  /\ nonces' \in [Message -> Int \cup {null}]
         /\ passed' \in [Message -> Seq(Nat)]
         /\ answers' \in [Message -> SUBSET Answer]
         /\ \A n \in Message : Passings(n)'
<1>1. TypeOK
  BY DEF IInv
<1>2. nonces' \in [Message -> Int \cup {null}]
  BY <1>1, StoredFacts
<1>3. /\ passed' \in [Message -> Seq(Nat)]
      /\ answers' \in [Message -> SUBSET Answer]
      /\ \A n \in Message \ {m} : passed'[n] = passed[n]
      /\ passed'[m] = IF Remembered(m) THEN passed[m] ELSE Append(passed[m], clock)
  <2>1. /\ passed \in [Message -> Seq(Nat)] /\ answers \in [Message -> SUBSET Answer]
        /\ clock \in Nat
    BY <1>1 DEF TypeOK
  <2>2. Result(m) \in Answer
        /\ (Result(m) = "accepted" <=> ~Remembered(m))
    BY DEF Result, Answer
  <2>3. Append(passed[m], clock) \in Seq(Nat)
    BY <2>1
  <2> QED
    BY <2>1, <2>2, <2>3 DEF AnswerTo
<1>4. ASSUME NEW n \in Message
      PROVE  Passings(n)'
  <2>1. CASE n = m /\ ~Remembered(m)
    BY <1>3, <2>1, PassingKeeps
  <2>2. CASE n # m \/ Remembered(m)
    BY <1>3, <2>2, StoringKeeps
  <2> QED
    BY <2>1, <2>2
<1> QED
  BY <1>2, <1>3, <1>4

-----------------------------------------------------------------------------

\* Steps that leave the store and the passings of a message alone, or take the
\* clock on.
LEMMA PassingsStay ==
  ASSUME IInv, NEW m \in Message, UNCHANGED <<store, nonces, passed>>,
         clock' \in Nat, clock' >= clock, stamp[m] # null => stamp'[m] = stamp[m]
  PROVE  Passings(m)'
<1>1. /\ passed[m] \in Seq(Nat) /\ NonceTtl \in Nat /\ clock \in Nat
      /\ Passings(m)
  BY ApiAssumption DEF IInv, TypeOK
<1>2. Apart(m)'
  BY <1>1 DEF Passings, Apart
<1>3. Kept(m)'
  <2> SUFFICES ASSUME passed[m] # <<>>
               PROVE  /\ stamp'[m] # null
                      /\ \/ (Gone(Last(m) + NonceTtl))'
                         \/ nonces[m] # null /\ nonces[m] >= Last(m) + NonceTtl
    BY DEF Kept, Last
  <2>1. Last(m) \in Nat
    BY <1>1 DEF Last
  <2>2. Gone(Last(m) + NonceTtl) => (Gone(Last(m) + NonceTtl))'
    BY <1>1, <2>1 DEF Gone, Last
  <2> QED
    BY <1>1, <2>2 DEF Passings, Kept
<1>4. Outlived(m)'
  <2>1. Len(passed[m]) > 1 => passed[m] # <<>>
    BY <1>1
  <2>2. Len(passed[m]) > 1 => stamp'[m] = stamp[m]
    BY <1>1, <2>1 DEF Passings, Kept
  <2> QED
    BY <1>1, <2>2 DEF Passings, Outlived
<1> QED
  BY <1>2, <1>3, <1>4 DEF Passings

LEMMA SendInv ==
  ASSUME IInv, NEW m \in Message, Send(m)
  PROVE  IInv'
<1>1. PICK o \in Offset : stamp' = [stamp EXCEPT ![m] = clock + o]
  BY DEF Send
<1>2. o \in Int /\ clock \in Nat /\ null \notin Int
  BY ApiAssumption DEF IInv, TypeOK
<1>3. TypeOK'
  BY <1>1, <1>2 DEF IInv, TypeOK, Send
<1>4. stamp[m] = null /\ \A n \in Message : stamp[n] # null => stamp'[n] = stamp[n]
  BY <1>1 DEF IInv, TypeOK, Send
<1>5. ASSUME NEW w \in Worker PROVE Awaited(w)'
  BY <1>4 DEF IInv, TypeOK, Send, Waiting, Free, Awaited
<1>6. ASSUME NEW n \in Message PROVE Passings(n)'
  <2>1. clock' = clock /\ clock \in Nat /\ UNCHANGED <<store, nonces, passed>>
    BY <1>2 DEF Send
  <2> QED
    BY <1>4, <2>1, PassingsStay
<1> QED
  BY <1>3, <1>5, <1>6 DEF IInv

LEMMA DeliverInv ==
  ASSUME IInv, NEW w \in Worker, NEW m \in Message, NEW intact \in BOOLEAN,
         Deliver(w, m, intact)
  PROVE  IInv'
<1>0. /\ TypeOK /\ stamp[m] # null /\ stamp[m] \in Int /\ clock \in Nat
      /\ MaxSkew \in Nat /\ Lag \in Nat /\ null \notin Message
  BY ApiAssumption DEF IInv, TypeOK, Deliver
<1>1. ASSUME NEW r \in Answer, r # "accepted", Refuse(w, m, r)
      PROVE  IInv'
  <2>1. /\ passed' = passed
        /\ answers' \in [Message -> SUBSET Answer]
    BY <1>0, <1>1 DEF Refuse, TypeOK, AnswerTo
  <2>2. UNCHANGED <<clock, store, nonces, stamp, guard>>
    BY <1>1 DEF Refuse
  <2>3. \A n \in Message : Passings(n)'
    <3>1. /\ clock' \in Nat /\ clock' >= clock /\ stamp' = stamp
          /\ UNCHANGED <<store, nonces, passed>>
      BY <1>0, <2>1, <2>2
    <3> QED
      BY <3>1, PassingsStay
  <2>4. TypeOK' /\ \A v \in Worker : Awaited(v)'
    BY <2>1, <2>2 DEF IInv, TypeOK, Awaited
  <2> QED
    BY <2>3, <2>4 DEF IInv
<1>2. ASSUME Fresh(m), store = "memory", ConsumeInMemory(m)
      PROVE  IInv'
  <2>1. clock <= Latest(m)
    BY <1>0, <1>2 DEF Fresh, Latest
  <2>2. /\ nonces' = Stored(m) /\ AnswerTo(m, Result(m))
        /\ UNCHANGED <<clock, store, stamp, guard>>
    BY <1>2 DEF ConsumeInMemory
  <2>3. /\ nonces' \in [Message -> Int \cup {null}]
        /\ passed' \in [Message -> Seq(Nat)]
        /\ answers' \in [Message -> SUBSET Answer]
        /\ \A n \in Message : Passings(n)'
    BY <1>0, <2>1, <2>2, ConsumeKeeps
  <2>4. TypeOK' /\ \A v \in Worker : Awaited(v)'
    BY <2>2, <2>3 DEF IInv, TypeOK, Awaited
  <2> QED
    BY <2>3, <2>4 DEF IInv
<1>3. ASSUME Fresh(m), store = "redis", Await(w, m)
      PROVE  IInv'
  <2>1. guard' = [guard EXCEPT ![w] = [msg |-> m, at |-> clock]]
        /\ UNCHANGED <<clock, store, nonces, stamp, passed, answers>>
    BY <1>3 DEF Await
  <2>2. TypeOK'
    <3>1. [msg |-> m, at |-> clock] \in Waiting
      BY <1>0 DEF Waiting
    <3>2. guard' \in [Worker -> Waiting]
      BY <1>0, <2>1, <3>1 DEF TypeOK
    <3> QED
      BY <1>0, <2>1, <3>2 DEF TypeOK
  <2>3. \A n \in Message : Passings(n)'
    <3>1. /\ clock' \in Nat /\ clock' >= clock /\ stamp' = stamp
          /\ UNCHANGED <<store, nonces, passed>>
      BY <1>0, <2>1
    <3> QED
      BY <3>1, PassingsStay
  <2>4. ASSUME NEW v \in Worker PROVE Awaited(v)'
    <3>1. CASE v = w
      <4>1. guard'[v] = [msg |-> m, at |-> clock]
        BY <1>0, <2>1, <3>1 DEF TypeOK
      <4>2. clock - stamp[m] <= MaxSkew
        BY <1>3 DEF Fresh
      <4> QED
        BY <1>0, <1>3, <2>1, <4>1, <4>2 DEF Awaited
    <3>2. CASE v # w
      <4>1. guard'[v] = guard[v]
        BY <1>0, <2>1, <3>2 DEF TypeOK
      <4> QED
        BY <2>1, <4>1 DEF IInv, Awaited
    <3> QED
      BY <3>1, <3>2
  <2> QED
    BY <2>2, <2>3, <2>4 DEF IInv
<1>4. ASSUME Refuse(w, m, "stale") \/ Refuse(w, m, "bad signature")
      PROVE  IInv'
  BY <1>1, <1>4 DEF Answer
<1> QED
  BY <1>2, <1>3, <1>4 DEF Deliver

\* A request that Redis answers, or that fails on the way, is over.
LEMMA Released ==
  ASSUME IInv, NEW w \in Worker, guard' = [guard EXCEPT ![w] = Free],
         UNCHANGED <<clock, store, stamp>>
  PROVE  /\ guard' \in [Worker -> Waiting]
         /\ \A v \in Worker : Awaited(v)'
<1>1. guard' \in [Worker -> Waiting]
  BY DEF IInv, TypeOK, Waiting
<1>2. ASSUME NEW v \in Worker PROVE Awaited(v)'
  <2>1. guard'[v] = IF v = w THEN Free ELSE guard[v]
    BY DEF IInv, TypeOK
  <2> QED
    BY <2>1 DEF IInv, Awaited, Free
<1> QED
  BY <1>1, <1>2

\* What waits for Redis is a message, which can still pass.
LEMMA StillAcceptable ==
  ASSUME IInv, NEW w \in Worker, ~Idle(w)
  PROVE  /\ guard[w].msg \in Message
         /\ stamp[guard[w].msg] # null
         /\ clock <= Latest(guard[w].msg)
<1>0. TypeOK /\ MaxSkew \in Nat /\ Lag \in Nat /\ null \notin Message
  BY ApiAssumption DEF IInv
<1>1. guard[w].msg \in Message /\ guard[w].at \in Nat
  <2>1. guard[w] # Free /\ guard[w] \in Waiting
    BY <1>0 DEF Idle, TypeOK
  <2> QED
    BY <2>1 DEF Waiting
<1>2. /\ stamp[guard[w].msg] # null /\ guard[w].at - stamp[guard[w].msg] <= MaxSkew
      /\ clock - guard[w].at <= Lag /\ store = "redis"
  BY <1>0, <1>1 DEF IInv, Awaited
<1>3. stamp[guard[w].msg] \in Int /\ clock \in Nat
  BY <1>0, <1>1, <1>2 DEF TypeOK
<1> QED
  BY <1>0, <1>1, <1>2, <1>3 DEF Latest

LEMMA ConsumeInRedisInv ==
  ASSUME IInv, NEW w \in Worker, ConsumeInRedis(w)
  PROVE  IInv'
<1> DEFINE m == guard[w].msg
<1>1. m \in Message /\ stamp[m] # null /\ clock <= Latest(m)
  BY StillAcceptable DEF ConsumeInRedis
<1>2. /\ UNCHANGED <<clock, store, stamp>> /\ guard' = [guard EXCEPT ![w] = Free]
      /\ nonces' = Stored(m) /\ AnswerTo(m, Result(m))
  BY DEF ConsumeInRedis
<1>3. /\ guard' \in [Worker -> Waiting]
      /\ \A v \in Worker : Awaited(v)'
  BY <1>2, Released
<1> HIDE DEF m
<1>4. /\ nonces' \in [Message -> Int \cup {null}]
      /\ passed' \in [Message -> Seq(Nat)]
      /\ answers' \in [Message -> SUBSET Answer]
      /\ \A n \in Message : Passings(n)'
  BY <1>1, <1>2, ConsumeKeeps
<1>5. TypeOK'
  BY <1>2, <1>3, <1>4 DEF IInv, TypeOK
<1> QED
  BY <1>3, <1>4, <1>5 DEF IInv

LEMMA LoseReplyInv ==
  ASSUME IInv, NEW w \in Worker, LoseReply(w)
  PROVE  IInv'
<1> DEFINE m == guard[w].msg
<1>0. TypeOK /\ m \in Message
  BY StillAcceptable DEF LoseReply, IInv
<1>1. /\ nonces' = Stored(m) /\ answers' = [answers EXCEPT ![m] = @ \cup {"unheard"}]
      /\ UNCHANGED <<clock, store, stamp, guard, passed>>
  BY DEF LoseReply
<1> HIDE DEF m
<1>2. TypeOK'
  <2>1. nonces' \in [Message -> Int \cup {null}]
    BY <1>0, <1>1, StoredFacts
  <2>2. answers' \in [Message -> SUBSET Answer]
    BY <1>0, <1>1 DEF TypeOK, Answer
  <2> QED
    BY <1>0, <1>1, <2>1, <2>2 DEF TypeOK
<1>3. \A v \in Worker : Awaited(v)'
  BY <1>1 DEF IInv, Awaited
<1>4. \A n \in Message : Passings(n)'
  BY <1>0, <1>1, StoringKeeps
<1> QED
  BY <1>2, <1>3, <1>4 DEF IInv

LEMMA RedisFailsInv ==
  ASSUME IInv, NEW w \in Worker, RedisFails(w)
  PROVE  IInv'
<1> DEFINE m == guard[w].msg
<1>0. TypeOK /\ m \in Message
  BY StillAcceptable DEF RedisFails, IInv
<1>1. /\ UNCHANGED <<clock, store, stamp>> /\ guard' = [guard EXCEPT ![w] = Free]
      /\ nonces' \in {nonces, Stored(m)} /\ AnswerTo(m, "error")
  BY DEF RedisFails
<1>2. /\ guard' \in [Worker -> Waiting]
      /\ \A v \in Worker : Awaited(v)'
  BY <1>1, Released
<1> HIDE DEF m
<1>3. /\ passed' = passed
      /\ answers' \in [Message -> SUBSET Answer]
  <2>1. "error" \in Answer
    BY DEF Answer
  <2> QED
    BY <1>0, <1>1, <2>1 DEF TypeOK, AnswerTo
<1>4. TypeOK'
  <2>1. nonces' \in [Message -> Int \cup {null}]
    BY <1>0, <1>1, StoredFacts DEF TypeOK
  <2> QED
    BY <1>0, <1>1, <1>2, <1>3, <2>1 DEF TypeOK
<1>5. ASSUME NEW n \in Message PROVE Passings(n)'
  <2>1. CASE nonces' = nonces
    <3>1. clock \in Nat /\ clock' = clock
      BY <1>0, <1>1 DEF TypeOK
    <3> QED
      BY <1>1, <1>3, <2>1, <3>1, PassingsStay
  <2>2. CASE nonces' = Stored(m)
    BY <1>0, <1>1, <1>3, <2>2, StoringKeeps
  <2> QED
    BY <1>1, <2>1, <2>2
<1> QED
  BY <1>2, <1>4, <1>5 DEF IInv

LEMMA RestartInv == IInv /\ Restart => IInv'
<1> SUFFICES ASSUME IInv, Restart PROVE IInv'
  OBVIOUS
<1>1. /\ guard' = [w \in Worker |-> Free] /\ Free \in Waiting
      /\ UNCHANGED <<clock, store, stamp>>
  BY DEF Restart, Waiting
<1>2. TypeOK'
  <2>1. /\ nonces' \in [Message -> Int \cup {null}]
        /\ passed' \in [Message -> Seq(Nat)]
        /\ answers' \in [Message -> SUBSET Answer]
    <3>1. CASE store = "memory"
      <4>1. /\ nonces' = [m \in Message |-> null]
            /\ passed' = [m \in Message |-> <<>>]
            /\ answers' = [m \in Message |-> {}]
        BY <3>1 DEF Restart
      <4>2. <<>> \in Seq(Nat)
        OBVIOUS
      <4> QED
        BY <4>1, <4>2
    <3>2. CASE store # "memory"
      BY <3>2 DEF Restart, IInv, TypeOK
    <3> QED
      BY <3>1, <3>2
  <2> QED
    BY <1>1, <2>1 DEF IInv, TypeOK
<1>3. \A w \in Worker : Awaited(w)'
  BY <1>1 DEF Awaited, Free
<1>4. ASSUME NEW m \in Message PROVE Passings(m)'
  <2>1. CASE store = "memory"
    <3>1. passed'[m] = <<>>
      BY <2>1 DEF Restart
    <3> QED
      BY <3>1 DEF Passings, Kept, Apart, Outlived
  <2>2. CASE store # "memory"
    <3>1. UNCHANGED <<nonces, passed>> /\ clock \in Nat
      BY <2>2 DEF Restart, IInv, TypeOK
    <3> QED
      BY <1>1, <3>1, PassingsStay
  <2> QED
    BY <2>1, <2>2
<1> QED
  BY <1>2, <1>3, <1>4 DEF IInv

LEMMA ElapseInv == IInv /\ Elapse => IInv'
<1> SUFFICES ASSUME IInv, Elapse PROVE IInv'
  OBVIOUS
<1>0. /\ clock \in Nat /\ Lag \in Nat /\ clock' = clock + 1
      /\ UNCHANGED <<store, nonces, stamp, guard, passed, answers>>
  BY ApiAssumption DEF IInv, TypeOK, Elapse
<1>1. TypeOK'
  BY <1>0 DEF IInv, TypeOK
<1>2. ASSUME NEW w \in Worker PROVE Awaited(w)'
  <2>1. guard[w].msg # null => ~Idle(w)
    BY DEF Idle, Free
  <2>2. guard[w].at \in Nat
    <3>1. guard[w] \in Waiting
      BY DEF IInv, TypeOK
    <3> QED
      BY <3>1 DEF Waiting, Free
  <2>3. guard[w].msg # null => clock - guard[w].at < Lag
    BY <2>1 DEF Elapse
  <2> QED
    BY <1>0, <2>2, <2>3 DEF IInv, Awaited
<1>3. ASSUME NEW m \in Message PROVE Passings(m)'
  BY <1>0, PassingsStay
<1> QED
  BY <1>1, <1>2, <1>3 DEF IInv

LEMMA StepInv == IInv /\ [ApiNext]_avars => IInv'
<1> SUFFICES ASSUME IInv, [ApiNext]_avars PROVE IInv'
  OBVIOUS
<1>1. CASE UNCHANGED avars
  <2>1. ASSUME NEW m \in Message PROVE Passings(m)'
    BY <1>1, PassingsStay DEF avars, IInv, TypeOK
  <2> QED
    BY <1>1, <2>1 DEF avars, IInv, TypeOK, Awaited
<1>2. ASSUME NEW m \in Message, Send(m) PROVE IInv'
  BY <1>2, SendInv
<1>3. ASSUME NEW w \in Worker, NEW m \in Message, NEW intact \in BOOLEAN,
             Deliver(w, m, intact)
      PROVE  IInv'
  BY <1>3, DeliverInv
<1>4. ASSUME NEW w \in Worker, ConsumeInRedis(w) \/ LoseReply(w) \/ RedisFails(w)
      PROVE  IInv'
  BY <1>4, ConsumeInRedisInv, LoseReplyInv, RedisFailsInv
<1>5. CASE Restart
  BY <1>5, RestartInv
<1>6. CASE Elapse
  BY <1>6, ElapseInv
<1> QED
  BY <1>1, <1>2, <1>3, <1>4, <1>5, <1>6 DEF ApiNext

THEOREM Invariance == ApiSpec => []IInv
BY InitInv, StepInv, PTL DEF ApiSpec

\* No two copies of a message pass the guard within the life of a nonce
\* (signature.guard.ts:40), whatever the clocks of the clients, the delays, the
\* requests at work and the answers Redis loses.
THEOREM OncePerLife == ApiSpec => []OncePerTtl
<1>1. IInv => OncePerTtl
  BY DEF IInv, Passings, Apart, OncePerTtl
<1> QED
  BY <1>1, Invariance, PTL

\* A message that passes twice was stamped so far ahead that the skew window
\* outlived the nonce (signature.guard.ts:5-6): no other clock, delay or
\* failure of Redis lets a copy through again.
THEOREM TwiceOnlyAhead == ApiSpec => []OnceUnlessAhead
<1>1. IInv => OnceUnlessAhead
  BY DEF IInv, Passings, Outlived, OnceUnlessAhead
<1> QED
  BY <1>1, Invariance, PTL

-----------------------------------------------------------------------------
(* Why a message is known: what the store remembers was put there by a     *)
(* copy that passed, that failed, or whose answer from Redis was lost.     *)

Used(m) == answers[m] \cap {"accepted", "error", "unheard"} # {}

Explained ==
  \A m \in Message : nonces[m] # null \/ "replayed" \in answers[m] => Used(m)

\* An answer to m leaves the others' answers alone and forgets none of m's.
LEMMA AnswerFacts ==
  ASSUME TypeOK, NEW m \in Message, NEW r \in Answer, AnswerTo(m, r)
  PROVE  /\ answers'[m] = answers[m] \cup {r}
         /\ \A n \in Message \ {m} : answers'[n] = answers[n]
BY DEF TypeOK, AnswerTo

\* A consumption that is answered as the store says keeps every entry of the
\* store and every replay explained.
LEMMA ConsumeExplained ==
  ASSUME TypeOK, Explained, NEW m \in Message,
         nonces' = Stored(m), AnswerTo(m, Result(m))
  PROVE  Explained'
<1>1. Result(m) \in Answer
  BY DEF Result, Answer
<1>2. /\ answers'[m] = answers[m] \cup {Result(m)}
      /\ \A n \in Message \ {m} : answers'[n] = answers[n]
  BY <1>1, AnswerFacts
<1>3. \A n \in Message \ {m} : nonces'[n] # null => nonces[n] # null
  BY StoredFacts
<1>4. Used(m)'
  <2>1. CASE Remembered(m)
    BY <1>2, <2>1 DEF Remembered, Explained, Used
  <2>2. CASE ~Remembered(m)
    BY <1>2, <2>2 DEF Result, Used
  <2> QED
    BY <2>1, <2>2
<1>5. ASSUME NEW n \in Message, n # m,
             nonces'[n] # null \/ "replayed" \in answers'[n]
      PROVE  Used(n)'
  BY <1>2, <1>3, <1>5 DEF Explained, Used
<1> QED
  BY <1>4, <1>5 DEF Explained

\* A refusal stores nothing and is no replay.
LEMMA RefuseExplained ==
  ASSUME TypeOK, Explained, NEW m \in Message, NEW w \in Worker,
         NEW r \in {"stale", "bad signature"}, Refuse(w, m, r)
  PROVE  Explained'
<1>1. r \in Answer /\ r # "replayed" /\ AnswerTo(m, r) /\ nonces' = nonces
  BY DEF Answer, Refuse
<1>2. /\ answers'[m] = answers[m] \cup {r}
      /\ \A n \in Message \ {m} : answers'[n] = answers[n]
  BY <1>1, AnswerFacts
<1>3. ASSUME NEW n \in Message, nonces'[n] # null \/ "replayed" \in answers'[n]
      PROVE  Used(n)'
  <2>1. nonces[n] # null \/ "replayed" \in answers[n]
    BY <1>1, <1>2, <1>3
  <2>2. Used(n)
    BY <2>1 DEF Explained
  <2> QED
    BY <1>2, <2>2 DEF Used
<1> QED
  BY <1>3 DEF Explained

\* A failure on the way to Redis, or a lost answer, explains the key it may
\* have written.
LEMMA FailureExplained ==
  ASSUME TypeOK, Explained, NEW m \in Message,
         nonces' = nonces \/ nonces' = Stored(m),
         NEW r \in {"error", "unheard"},
         answers' = [answers EXCEPT ![m] = @ \cup {r}]
  PROVE  Explained'
<1>1. /\ answers'[m] = answers[m] \cup {r}
      /\ \A n \in Message \ {m} : answers'[n] = answers[n]
  BY DEF TypeOK
<1>2. \A n \in Message \ {m} : nonces'[n] # null => nonces[n] # null
  BY StoredFacts
<1>3. Used(m)'
  BY <1>1 DEF Used
<1>4. ASSUME NEW n \in Message, n # m,
             nonces'[n] # null \/ "replayed" \in answers'[n]
      PROVE  Used(n)'
  BY <1>1, <1>2, <1>4 DEF Explained, Used
<1> QED
  BY <1>3, <1>4 DEF Explained

LEMMA StepExplained == IInv /\ Explained /\ [ApiNext]_avars => Explained'
<1> SUFFICES ASSUME IInv, Explained, [ApiNext]_avars PROVE Explained'
  OBVIOUS
<1>0. TypeOK /\ null \notin Message
  BY ApiAssumption DEF IInv
<1>1. CASE UNCHANGED <<nonces, answers>>
  BY <1>1 DEF Explained, Used
<1>2. ASSUME NEW w \in Worker, NEW m \in Message, NEW intact \in BOOLEAN,
             Deliver(w, m, intact)
      PROVE  Explained'
  <2>1. \/ Refuse(w, m, "stale") \/ Refuse(w, m, "bad signature")
        \/ ConsumeInMemory(m) \/ Await(w, m)
    BY <1>2 DEF Deliver
  <2>2. CASE Refuse(w, m, "stale") \/ Refuse(w, m, "bad signature")
    BY <1>0, <2>2, RefuseExplained
  <2>3. CASE ConsumeInMemory(m)
    BY <1>0, <2>3, ConsumeExplained DEF ConsumeInMemory
  <2>4. CASE Await(w, m)
    BY <1>1, <2>4 DEF Await
  <2> QED
    BY <2>1, <2>2, <2>3, <2>4
<1>3. ASSUME NEW w \in Worker, ConsumeInRedis(w) \/ LoseReply(w) \/ RedisFails(w)
      PROVE  Explained'
  <2>1. guard[w].msg \in Message
    BY <1>3, StillAcceptable DEF ConsumeInRedis, LoseReply, RedisFails
  <2>2. CASE ConsumeInRedis(w)
    BY <1>0, <2>1, <2>2, ConsumeExplained DEF ConsumeInRedis
  <2>3. CASE LoseReply(w)
    BY <1>0, <2>1, <2>3, FailureExplained DEF LoseReply
  <2>4. CASE RedisFails(w)
    <3>1. nonces' = nonces \/ nonces' = Stored(guard[w].msg)
      BY <2>4 DEF RedisFails
    <3>2. answers' = [answers EXCEPT ![guard[w].msg] = @ \cup {"error"}]
      BY <2>4 DEF RedisFails, AnswerTo
    <3> QED
      BY <1>0, <2>1, <3>1, <3>2, FailureExplained
  <2> QED
    BY <1>3, <2>2, <2>3, <2>4
<1>4. CASE Restart
  <2>1. CASE store = "memory"
    BY <1>4, <2>1 DEF Restart, Explained
  <2>2. CASE store # "memory"
    BY <1>1, <1>4, <2>2 DEF Restart
  <2> QED
    BY <2>1, <2>2
<1> QED
  BY <1>1, <1>2, <1>3, <1>4 DEF ApiNext, Send, Elapse, avars

\* A message is refused as a replay only after a copy of it passed the guard,
\* failed on its way to Redis, or lost the answer of Redis and was sent again:
\* copies that come late or damaged, in any number and order, never use a
\* message up, because the guard checks the skew and the signature before it
\* consumes the nonce (signature.guard.ts:29-43).
THEOREM ReplaysKnown == ApiSpec => []ReplayExplained
<1>1. InitApi => Explained
  BY DEF InitApi, Explained
<1>2. Explained => ReplayExplained
  BY DEF Explained, Used, ReplayExplained
<1> QED
  BY <1>1, <1>2, InitInv, StepInv, StepExplained, PTL DEF ApiSpec
=============================================================================
