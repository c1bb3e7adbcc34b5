---------------------------- MODULE CardLife_proofs ----------------------------
(***************************************************************************)
(* What holds of a card's life as long as unban is not in use: devices are *)
(* not swapped, clocks not restarted, time is lost only where extensions   *)
(* overlap, and CardSystem implements CardLifecycle. With unban they fail: *)
(* the row it writes may not be the one it read.                           *)
(***************************************************************************)
EXTENDS CardSystem_proofs

\* A card never activated has no device; one shown as UNUSED is such a card.
FreshRow(row) ==
  /\ row.status = "UNUSED" => ~row.activated
  /\ ~row.activated => row.hwid = null

NoUnban == \A a \in Operator : adm[a].op # "unban"

LifeInv ==
  /\ IInv
  /\ NoUnban
  /\ \A c \in CardId : Exists(c) => FreshRow(cards[c])

-----------------------------------------------------------------------------

\* Every write of a client handler keeps a row fresh, or activates it.
LEMMA ClientFresh ==
  ASSUME IInv, NEW r \in Request, RequestStep(r),
         NEW c \in CardId, cards[c] # null, FreshRow(cards[c]), cards'[c] # null
  PROVE  FreshRow(cards'[c])
<1>1. CASE cards'[c] = cards[c]
  BY <1>1
<1>2. CASE cards'[c] # cards[c]
  <2>0. c = req[r].call.card /\ cards[c] \in CardRow /\ Row(r) = cards[c]
        /\ ConsistentTerms(cards[c])
    BY <1>2, ClientWrites DEF IInv, Row, LicenceTermsConsistent, Exists
  <2>1. ASSUME NEW row, SetRow(req[r].call.card, row)
        PROVE  cards'[c] = row
    BY <2>0, <2>1 DEF SetRow, IInv, TypeOK, StoreOK
  <2>2. CASE Activate(r)
    <3>1. cards'[c] = ActivatedRow(cards[c], req[r])
      BY <2>0, <2>1, <2>2 DEF Activate
    <3> QED
      BY <2>0, <3>1 DEF ActivatedRow, CardRow, FreshRow
  <2>3. CASE MarkExpired(r)
    <3>1. cards'[c] = [cards[c] EXCEPT !.status = "EXPIRED"]
      BY <1>2, <2>0, <2>1, <2>3 DEF MarkExpired
    <3> QED
      BY <2>0, <3>1 DEF CardRow, FreshRow
  <2>4. CASE Rebind(r)
    <3>1. cards'[c] = ReboundRow(cards[c], req[r]) /\ cards[c].status = "ACTIVE"
      BY <1>2, <2>0, <2>1, <2>4 DEF Rebind, RebindWhere, ActiveRow
    <3> QED
      BY <2>0, <3>1 DEF ReboundRow, CardRow, FreshRow, ConsistentTerms
  <2>5. CASE Touch(r)
    <3>1. cards'[c] = TouchedRow(cards[c], req[r])
      BY <1>2, <2>0, <2>1, <2>5 DEF Touch
    <3> QED
      BY <2>0, <3>1 DEF TouchedRow, CardRow, FreshRow
  <2>6. CASE Claim(r)
    <3>1. cards'[c] = ClaimedRow(cards[c], req[r])
      BY <2>0, <2>1, <2>6 DEF Claim
    <3> QED
      BY <2>0, <3>1 DEF ClaimedRow, CardRow, FreshRow
  <2> QED
    BY <1>2, <2>2, <2>3, <2>4, <2>5, <2>6 DEF RequestStep, HandlerStep, Statement, Start, Arrive,
      FindUnknown, Find, LoseActivation, RereadUnknown, Reread, MissClaim,
      Recheck, Reply, LogFails, Abort, storeVars
<1> QED
  BY <1>1, <1>2

\* The console, unban apart, bans, unbinds, deletes and extends.
LEMMA ConsoleWrites ==
  ASSUME IInv, NEW a \in Operator, AdminStep(a), adm[a].op # "unban",
         NEW c \in CardId, cards[c] # null, cards'[c] # null
  PROVE  /\ cards'[c].status \in {cards[c].status, "BANNED"}
         /\ cards'[c].activated = cards[c].activated
         /\ cards'[c].hwid \in {null, cards[c].hwid}
         /\ \/ cards'[c].expiresAt # cards[c].expiresAt
            \/ cards'[c].durationDays # cards[c].durationDays
            => extendCards(a) /\ Extending(a, c) /\ adm'[a].op = "idle"
<1> USE DEF IInv, TypeOK
<1>0. adm[a] \in Operation /\ cards[c] \in CardRow
      /\ cards \in [CardId -> Optional(CardRow)]
  BY DEF AdminOK, StoreOK, Optional
<1>1. CASE extendCards(a)
  <2>1. PICK now \in adm[a].at .. clock, days \in ExtendDays :
          cards' = [x \in CardId |->
                      IF x \in adm[a].targets
                      THEN ExtendedRow(cards[x], adm[a].seen[x], days, now)
                      ELSE cards[x]]
    BY <1>1 DEF extendCards
  <2>2. adm[a].op = "extend" /\ adm'[a].op = "idle"
    BY <1>1 DEF extendCards, Writing, Done, NoOp, AdminOK
  <2> QED
    BY <1>0, <1>1, <2>1, <2>2 DEF ExtendedRow, CardRow, Extending
<1>2. CASE UNCHANGED cards
  BY <1>2
<1>3. CASE ban(a) \/ unbind(a) \/ remove(a)
  BY <1>0, <1>3 DEF ban, unbind, remove, SetRow, CardRow
<1> QED
  BY <1>1, <1>2, <1>3 DEF AdminStep, AdminRead, AdminWrite, mustGet, UnbanRead,
    ExtendRead, Begin, AbortAdmin, storeVars, unban, Writing

-----------------------------------------------------------------------------

LEMMA InitLife == Init => LifeInv
<1> SUFFICES ASSUME Init
             PROVE  LifeInv
  OBVIOUS
<1>1. IInv
  BY InitIInv
<1>2. NoUnban
  BY DEF Init, InitAdmin, NoOp, NoUnban
<1>3. \A c \in CardId : FreshRow(cards[c])
  BY DEF Init, InitStore, IssuedRow, FreshRow
<1> QED
  BY <1>1, <1>2, <1>3 DEF LifeInv

LEMMA UnbanStaysOut ==
  ASSUME "unban" \notin AdminOps, IInv, NoUnban, [Next]_vars
  PROVE  NoUnban'
<1>0. adm \in [Operator -> Operation]
  BY DEF IInv, TypeOK, AdminOK
<1>1. ASSUME NEW a \in Operator, AdminStep(a)
      PROVE  NoUnban'
  BY <1>0, <1>1 DEF NoUnban, AdminStep, AdminRead, AdminWrite, mustGet,
    UnbanRead, ExtendRead, Begin, ban, unban, unbind, remove, extendCards,
    AbortAdmin, Done, NoOp
<1>2. CASE UNCHANGED adm
  BY <1>2 DEF NoUnban
<1> QED
  BY <1>1, <1>2 DEF Next, TimePasses, ClientStep, ConsoleStep, vars

LEMMA StepLife ==
  ASSUME "unban" \notin AdminOps, LifeInv, [Next]_vars
  PROVE  LifeInv'
<1>1. IInv'
  BY StepIInv DEF LifeInv
<1>2. NoUnban'
  BY UnbanStaysOut DEF LifeInv
<1>3. ASSUME NEW c \in CardId, cards'[c] # null
      PROVE  FreshRow(cards'[c])
  <2>1. ASSUME NEW r \in Request, RequestStep(r)
        PROVE  FreshRow(cards'[c])
    <3>1. cards[c] # null
      BY <1>3, <2>1, ClientEvolves DEF LifeInv, AllEvolve, Evolves
    <3> QED
      BY <1>3, <2>1, <3>1, ClientFresh DEF LifeInv, Exists
  <2>2. ASSUME NEW a \in Operator, AdminStep(a)
        PROVE  FreshRow(cards'[c])
    <3>1. cards[c] # null
      BY <1>3, <2>2, ConsoleEvolves DEF LifeInv, AllEvolve, Evolves
    <3> QED
      BY <1>3, <2>2, <3>1, ConsoleWrites DEF LifeInv, NoUnban, Exists, FreshRow
  <2>3. CASE UNCHANGED cards
    BY <1>3, <2>3 DEF LifeInv, Exists
  <2> QED
    BY <2>1, <2>2, <2>3 DEF Next, TimePasses, Tick, ClientStep, ConsoleStep, vars
<1> QED
  BY <1>1, <1>2, <1>3 DEF LifeInv, Exists

\* The strengthened invariant holds as long as unban is not in use.
THEOREM Life == ASSUME "unban" \notin AdminOps PROVE Spec => []LifeInv
<1>1. LifeInv /\ [Next]_vars => LifeInv'
  BY StepLife
<1> QED
  BY <1>1, InitLife, PTL DEF Spec

\* Without unban, no race takes a card from one device straight to another.
THEOREM Devices ==
  ASSUME "unban" \notin AdminOps PROVE Spec => DeviceNeverSwapped
<1>1. LifeInv /\ [Next]_vars => [\A c \in CardId : DeviceKept(c)]_vars
  <2> SUFFICES ASSUME LifeInv, Next, NEW c \in CardId,
                      Rows(c), cards[c].hwid # null
               PROVE  cards'[c].hwid \in {null, cards[c].hwid}
    BY DEF DeviceKept
  <2>0. cards[c].status # "UNUSED" /\ IInv /\ NoUnban
    BY DEF LifeInv, FreshRow, Exists, Rows
  <2>1. ASSUME NEW r \in Request, RequestStep(r),
               cards'[c].hwid # cards[c].hwid
        PROVE  FALSE
    <3>1. Activate(r) /\ c = req[r].call.card
      BY <2>0, <2>1, ClientWrites DEF IInv
    <3> QED
      BY <2>0, <3>1 DEF Activate, ActivateWhere, Row
  <2>2. ASSUME NEW a \in Operator, AdminStep(a)
        PROVE  cards'[c].hwid \in {null, cards[c].hwid}
    BY <2>0, <2>2, ConsoleWrites DEF NoUnban, Rows
  <2> QED
    BY <2>1, <2>2 DEF Next, TimePasses, Tick, ClientStep, ConsoleStep
<1> QED
  BY <1>1, Life, PTL DEF Spec, DeviceNeverSwapped

\* Without unban, the expiry of a running licence is moved by the write of an
\* extension only, however many machines race to activate it.
THEOREM RunningClock ==
  ASSUME "unban" \notin AdminOps PROVE Spec => TermKept
<1>1. LifeInv /\ [Next]_vars => [\A c \in CardId : ClockKept(c)]_vars
  <2> SUFFICES ASSUME LifeInv, Next, NEW c \in CardId,
                      Rows(c), cards[c].activated,
                      cards'[c].expiresAt # cards[c].expiresAt
               PROVE  \E a \in Operator : Extending(a, c) /\ adm'[a].op = "idle"
    BY DEF ClockKept
  <2>0. cards[c].status # "UNUSED" /\ IInv /\ NoUnban
    BY DEF LifeInv, FreshRow, Exists, Rows
  <2>1. ASSUME NEW r \in Request, RequestStep(r)
        PROVE  FALSE
    <3>1. Activate(r) /\ c = req[r].call.card
      BY <2>0, <2>1, ClientWrites DEF IInv
    <3> QED
      BY <2>0, <3>1 DEF Activate, ActivateWhere, Row
  <2>2. ASSUME NEW a \in Operator, AdminStep(a)
        PROVE  Extending(a, c) /\ adm'[a].op = "idle"
    BY <2>0, <2>2, ConsoleWrites DEF NoUnban, Rows
  <2> QED
    BY <2>1, <2>2 DEF Next, TimePasses, Tick, ClientStep, ConsoleStep
<1> QED
  BY <1>1, Life, PTL DEF Spec, TermKept

-----------------------------------------------------------------------------
(* Licensed time. An extension that writes the terms that are still there  *)
(* adds to them. Two extensions of one card may each overwrite what the    *)
(* other added; nothing else comes between an extension and its card.      *)

\* The terms an extension read are the card's, the column it writes at least.
Current(a, c) ==
  LET seen == adm[a].seen[c]
  IN  IF seen.activated
      THEN cards[c].activated /\ cards[c].expiresAt = seen.expiresAt
      ELSE cards[c].durationDays = seen.durationDays

\* Without unban, no client step moves the end or the grant of a licence that
\* has begun.
LEMMA ClientTerms ==
  ASSUME LifeInv, NEW r \in Request, RequestStep(r), NEW c \in CardId, cards[c] # null
  PROVE  /\ cards'[c] # null
         /\ cards'[c].durationDays = cards[c].durationDays
         /\ cards[c].activated =>
              cards'[c].activated /\ cards'[c].expiresAt = cards[c].expiresAt
<1>1. CASE cards'[c] = cards[c]
  BY <1>1
<1>2. CASE cards'[c] # cards[c]
  <2>1. /\ cards'[c] # null /\ c = req[r].call.card
        /\ cards'[c].durationDays = cards[c].durationDays
        /\ cards'[c].expiresAt # cards[c].expiresAt => Activate(r)
    BY <1>2, ClientWrites DEF LifeInv, IInv
  <2>2. cards[c].activated => cards'[c].activated
    BY <2>1, ClientEvolves DEF LifeInv, AllEvolve, Evolves
  <2>3. Activate(r) => ~cards[c].activated
    BY <2>1 DEF Activate, ActivateWhere, Row, LifeInv, FreshRow, Exists
  <2> QED
    BY <2>1, <2>2, <2>3
<1> QED
  BY <1>1, <1>2

\* What an extension reads is what the card has.
LEMMA ExtensionReads ==
  ASSUME IInv, NEW a \in Operator, AdminStep(a), NEW c \in CardId, Extending(a, c)'
  PROVE  cards' = cards /\ Current(a, c)'
<1>0. adm \in [Operator -> Operation]
  BY DEF IInv, TypeOK, AdminOK
<1>1. CASE ExtendRead(a)
  <2>1. PICK T \in SUBSET CardId :
          Begin(a, "extend", T,
               [x \in CardId |-> IF x \in T THEN TermsOf(cards[x]) ELSE null])
        /\ \A x \in T : Exists(x)
    BY <1>1 DEF ExtendRead
  <2>2. /\ adm'[a].targets = T /\ UNCHANGED cards
        /\ \A x \in T : adm'[a].seen[x] = TermsOf(cards[x])
    BY <1>0, <2>1 DEF Begin, storeVars
  <2>3. c \in T
    BY <2>2 DEF Extending
  <2>4. /\ adm'[a].seen[c].activated = cards[c].activated
        /\ adm'[a].seen[c].expiresAt = cards[c].expiresAt
        /\ adm'[a].seen[c].durationDays = cards[c].durationDays
    <3>1. adm'[a].seen[c] = TermsOf(cards[c])
      BY <2>2, <2>3
    <3> QED
      BY <3>1 DEF TermsOf
  <2>5. cards' = cards /\ cards'[c] = cards[c]
    BY <2>2
  <2> QED
    BY <2>4, <2>5 DEF Current
<1>2. CASE ~ExtendRead(a)
  <2>1. adm'[a].op # "extend"
    BY <1>0, <1>2 DEF AdminStep, AdminRead, AdminWrite, mustGet, UnbanRead,
      Begin, ban, unban, unbind, remove, extendCards, AbortAdmin, Done, NoOp
  <2> QED
    BY <2>1 DEF Extending
<1> QED
  BY <1>1, <1>2

\* What an extension has read stays current, as long as no other extension
\* writes the card.
LEMMA CurrentStays ==
  ASSUME LifeInv, [Next]_vars, NEW a \in Operator, NEW c \in CardId,
         Extending(a, c)', cards'[c] # null,
         Extending(a, c) /\ Exists(c) => Current(a, c),
         \A b \in Operator \ {a} : ~(Extending(b, c) /\ extendCards(b)
                                       /\ cards'[c] # cards[c])
  PROVE  Current(a, c)'
<1>1. ASSUME NEW b \in Operator, AdminStep(b)
      PROVE  Current(a, c)'
  <2>1. CASE b = a
    BY <1>1, <2>1, ExtensionReads DEF LifeInv
  <2>2. CASE b # a
    <3>1. cards[c] # null
      BY <1>1, ConsoleEvolves DEF LifeInv, AllEvolve, Evolves
    <3>2. adm'[a] = adm[a]
      BY <1>1, <2>2, OtherOperatorsStay DEF LifeInv, IInv, TypeOK
    <3>3. Current(a, c)
      BY <3>1, <3>2 DEF Extending, Exists
    <3>4. /\ cards'[c].activated = cards[c].activated
          /\ cards'[c].expiresAt = cards[c].expiresAt
          /\ cards'[c].durationDays = cards[c].durationDays
      BY <1>1, <2>2, <3>1, ConsoleWrites DEF LifeInv, NoUnban
    <3> QED
      BY <3>2, <3>3, <3>4 DEF Current
  <2> QED
    BY <2>1, <2>2
<1>2. ASSUME NEW r \in Request, RequestStep(r), UNCHANGED adm
      PROVE  Current(a, c)'
  <2>1. cards[c] # null
    BY <1>2, ClientEvolves DEF LifeInv, AllEvolve, Evolves
  <2>2. Current(a, c)
    BY <1>2, <2>1 DEF Extending, Exists
  <2> QED
    BY <1>2, <2>1, <2>2, ClientTerms DEF Current
<1>3. CASE UNCHANGED <<cards, adm>>
  BY <1>3 DEF Extending, Exists, Current
<1> QED
  BY <1>1, <1>2, <1>3 DEF Next, TimePasses, Tick, ClientStep, ConsoleStep, vars

\* An extension of current terms adds to what it writes.
LEMMA ExtensionAdds ==
  ASSUME LifeInv, NEW a \in Operator, extendCards(a), NEW c \in CardId, Rows(c),
         Extending(a, c) => Current(a, c)
  PROVE  TimeKept(c)
<1>0. /\ adm[a] \in Operation /\ cards[c] \in CardRow /\ clock \in Nat
      /\ adm[a].op = "extend" /\ null \notin Nat
  BY LogicAssumption DEF LifeInv, IInv, TypeOK, AdminOK, StoreOK, Optional,
    Rows, extendCards, Writing, Time
<1>1. PICK now \in adm[a].at .. clock, days \in ExtendDays :
        cards'[c] = IF c \in adm[a].targets
                    THEN ExtendedRow(cards[c], adm[a].seen[c], days, now)
                    ELSE cards[c]
  BY DEF extendCards
<1>2. now \in Time /\ days \in Nat
  BY <1>0, <1>1, AdminAssumption DEF Operation, Time
<1>3. cards[c].expiresAt \in Optional(Nat) /\ cards[c].durationDays \in Optional(Nat)
  BY <1>0 DEF CardRow, Time
<1>4. CASE c \notin adm[a].targets
  BY <1>1, <1>3, <1>4 DEF TimeKept, Optional
<1>5. CASE c \in adm[a].targets
  <2> DEFINE seen == adm[a].seen[c]
  <2>1. Current(a, c) /\ PendingTerms(a, c)
    BY <1>0, <1>5 DEF LifeInv, IInv, PlansConsistent, Extending, Rows
  <2>2. CASE seen.activated
    <3> DEFINE t == ExtensionExpiry(seen, days, now)
    <3>1. seen.expiresAt = cards[c].expiresAt /\ seen.expiresAt \in Time
      BY <1>0, <1>3, <2>1, <2>2 DEF Current, PendingTerms, Optional, Time
    <3>2. t \in Nat /\ t >= seen.expiresAt
      BY <1>2, <3>1, ExtensionType DEF Time
    <3> HIDE DEF t
    <3>3. cards'[c] = [cards[c] EXCEPT !.expiresAt = t]
      BY <1>1, <1>5, <2>2 DEF ExtendedRow, t
    <3>4. cards'[c].expiresAt = t /\ cards'[c].durationDays = cards[c].durationDays
      BY <1>0, <3>3 DEF CardRow
    <3> QED
      BY <1>0, <1>3, <3>1, <3>2, <3>4 DEF TimeKept, Optional
  <2>3. CASE ~seen.activated
    <3> DEFINE n == seen.durationDays + days
    <3>1. seen.durationDays = cards[c].durationDays /\ seen.durationDays \in Nat
      BY <1>0, <1>3, <2>1, <2>3 DEF Current, PendingTerms, Optional
    <3>2. n \in Nat /\ n >= seen.durationDays
      BY <1>2, <3>1
    <3> HIDE DEF n
    <3>3. cards'[c] = [cards[c] EXCEPT !.durationDays = n]
      BY <1>1, <1>5, <2>3 DEF ExtendedRow, n
    <3>4. cards'[c].durationDays = n /\ cards'[c].expiresAt = cards[c].expiresAt
      BY <1>0, <3>3 DEF CardRow
    <3> QED
      BY <1>0, <1>3, <3>1, <3>2, <3>4 DEF TimeKept, Optional
  <2> QED
    BY <2>2, <2>3
<1> QED
  BY <1>4, <1>5

\* A step that takes licensed time away is the write of an extension whose
\* terms are no longer the card's.
LEMMA TimeLost ==
  ASSUME LifeInv, Next, NEW c \in CardId, ~TimeKept(c)
  PROVE  \E a \in Operator :
           extendCards(a) /\ Extending(a, c) /\ Exists(c) /\ ~Current(a, c)
           /\ adm'[a].op = "idle"
<1>0. /\ Rows(c) /\ cards[c] \in CardRow /\ ConsistentTerms(cards[c])
      /\ null \notin Nat /\ Exists(c)
  BY LogicAssumption DEF TimeKept, LifeInv, IInv, TypeOK, StoreOK, Optional, Rows,
    LicenceTermsConsistent, Exists
<1>1. \/ cards'[c].durationDays # cards[c].durationDays
      \/ cards[c].activated /\ cards'[c].expiresAt # cards[c].expiresAt
  BY <1>0 DEF TimeKept, ConsistentTerms, CardRow, Optional, Time
<1>2. ASSUME NEW r \in Request, RequestStep(r)
      PROVE  FALSE
  BY <1>0, <1>1, <1>2, ClientTerms DEF Rows
<1>3. ASSUME NEW a \in Operator, AdminStep(a)
      PROVE  extendCards(a) /\ Extending(a, c) /\ ~Current(a, c) /\ adm'[a].op = "idle"
  <2>1. extendCards(a) /\ Extending(a, c) /\ adm'[a].op = "idle"
    BY <1>0, <1>1, <1>3, ConsoleWrites DEF LifeInv, NoUnban, Rows
  <2> QED
    BY <1>0, <2>1, ExtensionAdds
<1> QED
  BY <1>0, <1>1, <1>2, <1>3 DEF Next, TimePasses, Tick, ClientStep, ConsoleStep

\* No two console requests extend one card at the same time.
NoOverlap ==
  \A a, b \in Operator, c \in CardId :
    Extending(a, c) /\ Extending(b, c) => a = b

TermInv ==
  /\ LifeInv
  /\ \A a \in Operator, c \in CardId :
       Extending(a, c) /\ Exists(c) => Current(a, c)

LEMMA StepTerm ==
  ASSUME "unban" \notin AdminOps, NoOverlap, TermInv, [Next]_vars
  PROVE  TermInv'
<1>1. LifeInv'
  BY StepLife DEF TermInv
<1>2. ASSUME NEW a \in Operator, NEW c \in CardId, Extending(a, c)', cards'[c] # null
      PROVE  Current(a, c)'
  <2>1. ASSUME NEW b \in Operator \ {a}, Extending(b, c), extendCards(b)
        PROVE  FALSE
    <3>1. AdminStep(b)
      BY <2>1 DEF AdminStep, AdminWrite
    <3>2. adm'[a] = adm[a]
      BY <3>1, OtherOperatorsStay DEF TermInv, LifeInv, IInv, TypeOK
    <3>3. Extending(a, c)
      BY <1>2, <3>2 DEF Extending
    <3> QED
      BY <2>1, <3>3 DEF NoOverlap
  <2> QED
    BY <1>2, <2>1, CurrentStays DEF TermInv
<1> QED
  BY <1>1, <1>2 DEF TermInv, Exists

\* Without unban, and in every behaviour in which no two extensions of a card
\* overlap, no step shortens a licence or a grant: whatever clients and the
\* rest of the console do in between, an extension adds its days to the term
\* the card has (admin.service.ts:78-100).
THEOREM TimeOnlyGrows ==
  ASSUME "unban" \notin AdminOps
  PROVE  Spec /\ []NoOverlap => TimeNeverShrinks
<1>1. Init => TermInv
  BY InitLife DEF TermInv, Init, InitAdmin, Extending, NoOp
<1>2. NoOverlap /\ TermInv /\ [Next]_vars => TermInv'
  BY StepTerm
<1>3. TermInv /\ [Next]_vars => [\A c \in CardId : TimeKept(c)]_vars
  BY TimeLost DEF TermInv
<1> QED
  BY <1>1, <1>2, <1>3, PTL DEF Spec, TimeNeverShrinks

-----------------------------------------------------------------------------
(* Refinement: the lives of CardLifecycle.                                 *)

\* A row tells a life of the abstract specification's type.
LEMMA LifeType ==
  ASSUME NEW row \in Optional(CardRow)
  PROVE  LifeOf(row) \in Lifecycle!CardLife
<1>1. CASE row = null
  BY <1>1 DEF LifeOf, Lifecycle!CardLife
<1>2. CASE row \in CardRow /\ row # null
  BY <1>2 DEF LifeOf, Lifecycle!CardLife, CardRow, Optional, Status, Time
<1> QED
  BY <1>1, <1>2 DEF Optional

\* What the life of a row that is there says.
LEMMA LifeFields ==
  ASSUME NEW row \in CardRow
  PROVE  LifeOf(row) =
           [status |-> row.status,
            kind |-> IF row.durationDays = null THEN "permanent" ELSE "timed",
            activated |-> row.activated, holder |-> row.hwid,
            end |-> row.expiresAt]
BY StoreAssumption DEF LifeOf

\* A card's life is over exactly when its row is gone.
LEMMA LifeOver ==
  ASSUME NEW row \in Optional(CardRow)
  PROVE  LifeOf(row).status = "DELETED" <=> row = null
BY DEF LifeOf, Optional, CardRow, Status

-----------------------------------------------------------------------------

\* The issued cards begin their lives.
LEMMA LifeBegins == Init => Lifecycle!LifeInit
<1> SUFFICES ASSUME Init, NEW c \in CardId
             PROVE  LifeOf(cards[c]) \in {Lifecycle!Issued("timed"), Lifecycle!Issued("permanent")}
  BY DEF Lifecycle!LifeInit
<1>1. PICK g \in Grants : cards[c] = IssuedRow(g)
  BY DEF Init, InitStore
<1>2. IssuedRow(g) \in CardRow
  BY StoreAssumption DEF IssuedRow, CardRow, Optional, Status
<1>3. LifeOf(IssuedRow(g)) = Lifecycle!Issued(IF g = null THEN "permanent" ELSE "timed")
  <2>1. LET row == IssuedRow(g)
        IN  /\ row.status = "UNUSED" /\ row.durationDays = g
            /\ row.activated = FALSE /\ row.hwid = null /\ row.expiresAt = null
    BY DEF IssuedRow
  <2> QED
    BY <1>2, <2>1, LifeFields DEF Lifecycle!Issued
<1> QED
  BY <1>1, <1>3

\* A statement of a client handler that writes a card is its first use, its
\* lapse, a new machine, or leaves its life where it is.
LEMMA ClientLives ==
  ASSUME LifeInv, IInv', NEW r \in Request, RequestStep(r),
         NEW c \in CardId, LifeOf(cards'[c]) # LifeOf(cards[c])
  PROVE  Lifecycle!LifeStep(LifeOf(cards[c]), LifeOf(cards'[c]))
<1>0. /\ IInv /\ TypeOK /\ TypeOK'
      /\ cards[c] \in CardRow /\ cards[c] # null /\ cards'[c] # null
      /\ c = req[r].call.card /\ Row(r) = cards[c]
  BY ClientWrites, StoreAssumption DEF LifeInv, IInv, Row
<1> DEFINE l == LifeOf(cards[c])
           m == LifeOf(cards'[c])
<1>a. /\ FreshRow(cards[c]) /\ ConsistentTerms(cards[c]) /\ ConsistentTerms(cards'[c])
      /\ cards'[c] \in CardRow
  BY <1>0 DEF LifeInv, IInv, LicenceTermsConsistent, Exists, TypeOK, StoreOK, Optional
<1>c. /\ l = [status |-> cards[c].status,
              kind |-> IF cards[c].durationDays = null THEN "permanent" ELSE "timed",
              activated |-> cards[c].activated, holder |-> cards[c].hwid,
              end |-> cards[c].expiresAt]
      /\ m = [status |-> cards'[c].status,
              kind |-> IF cards'[c].durationDays = null THEN "permanent" ELSE "timed",
              activated |-> cards'[c].activated, holder |-> cards'[c].hwid,
              end |-> cards'[c].expiresAt]
  BY <1>0, <1>a, LifeFields
<1>b. LifeOf(cards[c]).status # "DELETED"
  BY <1>0, LifeOver DEF Optional
<1>1. ASSUME NEW row, SetRow(req[r].call.card, row)
      PROVE  cards'[c] = row
  BY <1>0, <1>1 DEF SetRow, TypeOK, StoreOK
<1>2. CASE Activate(r)
  <2>1. cards'[c] = ActivatedRow(cards[c], req[r]) /\ cards[c].status = "UNUSED"
    BY <1>0, <1>1, <1>2 DEF Activate, ActivateWhere
  <2>2. cards'[c].hwid \in Hwid
    BY <1>0, <1>2, <2>1, RowType DEF TypeOK, Activate, ActivatedRow, CardRow
  <2>3. /\ cards'[c].status = "ACTIVE" /\ cards'[c].activated = TRUE
        /\ cards'[c].durationDays = cards[c].durationDays
    BY <1>0, <2>1 DEF ActivatedRow, CardRow
  <2>4. /\ cards[c].activated = FALSE /\ cards'[c].hwid # null
        /\ cards'[c].expiresAt = null <=> cards[c].durationDays = null
    BY <1>0, <1>a, <2>1, <2>2, <2>3, LogicAssumption
      DEF CardRow, FreshRow, ConsistentTerms
  <2> HIDE DEF l, m
  <2>a. l.kind = "permanent" <=> cards[c].durationDays = null
    BY <1>c
  <2>b. m = [l EXCEPT !.status = "ACTIVE", !.activated = TRUE,
                      !.holder = m.holder, !.end = m.end]
    <3>1. l \in Lifecycle!CardLife /\ m \in Lifecycle!CardLife
      BY <1>0, <1>a, LifeType DEF l, m, Optional
    <3>2. m.status = "ACTIVE" /\ m.activated = TRUE /\ m.kind = l.kind
      BY <1>c, <2>3
    <3> QED
      BY <3>1, <3>2 DEF Lifecycle!CardLife
  <2>c. /\ l.status = "UNUSED" /\ l.activated = FALSE
        /\ m.holder = cards'[c].hwid /\ m.end = cards'[c].expiresAt
    BY <1>c, <2>1, <2>4
  <2>5. Lifecycle!FirstUse(l, m)
    BY <2>4, <2>a, <2>b, <2>c DEF Lifecycle!FirstUse
  <2> QED
    BY <1>b, <2>5 DEF Lifecycle!LifeStep, l, m
<1>3. CASE MarkExpired(r)
  <2>1. cards'[c] = [cards[c] EXCEPT !.status = "EXPIRED"]
        /\ cards[c].status = "ACTIVE"
    BY <1>0, <1>1, <1>3 DEF MarkExpired, ActiveRow
  <2>2. /\ cards'[c].status = "EXPIRED" /\ cards'[c].activated = cards[c].activated
        /\ cards'[c].durationDays = cards[c].durationDays
        /\ cards'[c].hwid = cards[c].hwid /\ cards'[c].expiresAt = cards[c].expiresAt
    BY <1>0, <2>1 DEF CardRow
  <2>3. cards[c].durationDays # null
    BY <1>a, <2>1, <2>2 DEF ConsistentTerms
  <2> HIDE DEF l, m
  <2>4. Lifecycle!Lapse(l, m)
    BY <1>c, <2>1, <2>2, <2>3 DEF Lifecycle!Lapse
  <2> QED
    BY <1>b, <2>4 DEF Lifecycle!LifeStep, l, m
<1>4. CASE Rebind(r)
  <2>1. cards'[c] = ReboundRow(cards[c], req[r])
        /\ cards[c].status = "ACTIVE" /\ cards[c].hwid = null
    BY <1>0, <1>1, <1>4 DEF Rebind, RebindWhere, ActiveRow
  <2>2. /\ cards'[c].status = cards[c].status
        /\ cards'[c].activated = cards[c].activated
        /\ cards'[c].durationDays = cards[c].durationDays
        /\ cards'[c].expiresAt = cards[c].expiresAt
    BY <1>0, <2>1 DEF ReboundRow, CardRow
  <2> HIDE DEF l, m
  <2>3. Lifecycle!Bind(l, m)
    BY <1>c, <2>1, <2>2 DEF Lifecycle!Bind
  <2> QED
    BY <1>b, <2>3 DEF Lifecycle!LifeStep, l, m
<1>5. CASE Touch(r)
  <2>1. cards'[c] = TouchedRow(cards[c], req[r])
    BY <1>0, <1>1, <1>5 DEF Touch
  <2> QED
    BY <1>0, <2>1 DEF TouchedRow, CardRow, LifeOf
<1>6. CASE Claim(r)
  <2>1. cards'[c] = ClaimedRow(cards[c], req[r])
    BY <1>0, <1>1, <1>6 DEF Claim
  <2> QED
    BY <1>0, <2>1 DEF ClaimedRow, CardRow, LifeOf
<1> QED
  BY <1>2, <1>3, <1>4, <1>5, <1>6 DEF RequestStep, HandlerStep, Statement, Start,
    Arrive, FindUnknown, Find, LoseActivation, RereadUnknown, Reread, MissClaim,
    Recheck, Reply, LogFails, Abort, storeVars

\* An operation of the console other than unban bans, unbinds, deletes or
\* extends; an extension of a grant that has not started is no step.
LEMMA ConsoleLives ==
  ASSUME LifeInv, IInv', NEW a \in Operator, AdminStep(a),
         NEW c \in CardId, LifeOf(cards'[c]) # LifeOf(cards[c])
  PROVE  Lifecycle!LifeStep(LifeOf(cards[c]), LifeOf(cards'[c]))
<1>0. /\ IInv /\ NoUnban
      /\ cards \in [CardId -> Optional(CardRow)] /\ cards'[c] \in Optional(CardRow)
      /\ adm[a] \in Operation
  BY DEF LifeInv, IInv, TypeOK, StoreOK, AdminOK
<1>1. cards[c] # null
  BY <1>0, ConsoleEvolves DEF AllEvolve, Evolves
<1>2. cards[c] \in CardRow /\ LifeOf(cards[c]).status # "DELETED"
  BY <1>0, <1>1, LifeOver DEF Optional
<1>3. ASSUME NEW d \in CardId, NEW row, SetRow(d, row)
      PROVE  c = d /\ cards'[c] = row
  BY <1>0, <1>3 DEF SetRow
<1>4. CASE ban(a)
  <2>1. PICK d \in adm[a].targets : SetRow(d, [cards[d] EXCEPT !.status = "BANNED"])
    BY <1>4 DEF ban
  <2>2. cards'[c] = [cards[c] EXCEPT !.status = "BANNED"]
    BY <1>0, <1>3, <2>1 DEF Operation
  <2>3. cards'[c] # null
    BY <1>0, <1>2, <2>2, StoreAssumption DEF CardRow, Status
  <2>4. Lifecycle!Ban(LifeOf(cards[c]), LifeOf(cards'[c]))
    BY <1>1, <1>2, <2>2, <2>3 DEF CardRow, LifeOf, Lifecycle!Ban
  <2> QED
    BY <1>2, <2>4 DEF Lifecycle!LifeStep
<1>5. CASE unbind(a)
  <2>1. PICK d \in adm[a].targets : SetRow(d, [cards[d] EXCEPT !.hwid = null])
    BY <1>5 DEF unbind
  <2>2. cards'[c] = [cards[c] EXCEPT !.hwid = null]
    BY <1>0, <1>3, <2>1 DEF Operation
  <2>3. cards'[c] # null
    BY <1>0, <1>2, <2>2, StoreAssumption DEF CardRow, Optional
  <2>4. Lifecycle!Unbind(LifeOf(cards[c]), LifeOf(cards'[c]))
    BY <1>1, <1>2, <2>2, <2>3 DEF CardRow, LifeOf, Lifecycle!Unbind
  <2> QED
    BY <1>2, <2>4 DEF Lifecycle!LifeStep
<1>6. CASE remove(a)
  <2>1. cards'[c] = null
    BY <1>0, <1>3, <1>6 DEF remove, Operation
  <2>2. Lifecycle!Delete(LifeOf(cards[c]), LifeOf(cards'[c]))
    BY <2>1 DEF LifeOf, Lifecycle!Delete, Lifecycle!Deleted
  <2> QED
    BY <1>2, <2>2 DEF Lifecycle!LifeStep
<1>7. CASE extendCards(a)
  <2>1. PICK now \in adm[a].at .. clock, days \in ExtendDays :
          cards' = [x \in CardId |->
                      IF x \in adm[a].targets
                      THEN ExtendedRow(cards[x], adm[a].seen[x], days, now)
                      ELSE cards[x]]
    BY <1>7 DEF extendCards
  <2>2. c \in adm[a].targets
        /\ cards'[c] = ExtendedRow(cards[c], adm[a].seen[c], days, now)
    BY <1>0, <2>1
  <2>3. PendingTerms(a, c) /\ adm[a].op = "extend"
    BY <1>0, <1>7, <2>2 DEF IInv, PlansConsistent, extendCards, Writing
  <2> DEFINE new == ExtendedRow(cards[c], adm[a].seen[c], days, now)
  <2>4. /\ now \in Time /\ days \in Nat /\ adm[a].seen[c] \in Terms
        /\ IF adm[a].seen[c].activated THEN adm[a].seen[c].expiresAt # null
           ELSE adm[a].seen[c].durationDays # null
    BY <1>0, <2>1, <2>2, <2>3, AdminAssumption
      DEF IInv, TypeOK, StoreOK, Operation, Optional, Time, PendingTerms
  <2>5. /\ new \in CardRow /\ new # null
        /\ new.activated = cards[c].activated
        /\ new.status = cards[c].status
        /\ new.hwid = cards[c].hwid
        /\ adm[a].seen[c].activated =>
             new.durationDays = cards[c].durationDays /\ new.expiresAt # null
        /\ ~adm[a].seen[c].activated =>
             new.expiresAt = cards[c].expiresAt /\ new.durationDays # null
    BY <1>2, <2>4, ExtendedType, StoreAssumption
  <2>6. /\ adm[a].seen[c].activated => cards[c].activated
        /\ adm[a].seen[c].durationDays = null <=> cards[c].durationDays = null
        /\ adm[a].seen[c].activated => adm[a].seen[c].durationDays # null
    BY <1>1, <2>3, <2>4 DEF PendingTerms, Exists
  <2> HIDE DEF new
  <2>7. CASE adm[a].seen[c].activated
    <3>1. Lifecycle!Extend(LifeOf(cards[c]), LifeOf(new))
      BY <1>1, <2>5, <2>6, <2>7 DEF LifeOf, Lifecycle!Extend
    <3> QED
      BY <1>2, <2>2, <3>1 DEF Lifecycle!LifeStep, new
  <2>8. CASE ~adm[a].seen[c].activated
    <3>1. LifeOf(new) = LifeOf(cards[c])
      BY <1>1, <2>4, <2>5, <2>6, <2>8 DEF LifeOf
    <3> QED
      BY <2>2, <3>1 DEF new
  <2> QED
    BY <2>7, <2>8
<1>8. CASE unban(a)
  BY <1>0, <1>8 DEF unban, Writing, NoUnban
<1> QED
  BY <1>4, <1>5, <1>6, <1>7, <1>8 DEF AdminStep, AdminRead, AdminWrite, mustGet,
    UnbanRead, ExtendRead, Begin, AbortAdmin, storeVars

-----------------------------------------------------------------------------

\* Every step takes every card one step on in its life, or leaves it there.
LEMMA LivesGoOn ==
  ASSUME LifeInv, IInv', [Next]_vars
  PROVE  [Lifecycle!LifeNext]_([c \in CardId |-> LifeOf(cards[c])])
<1>1. [c \in CardId |-> LifeOf(cards'[c])] \in [CardId -> Lifecycle!CardLife]
  BY LifeType DEF IInv, TypeOK, StoreOK
<1>2. ASSUME NEW c \in CardId, LifeOf(cards'[c]) # LifeOf(cards[c])
      PROVE  Lifecycle!LifeStep(LifeOf(cards[c]), LifeOf(cards'[c]))
  BY <1>2, ClientLives, ConsoleLives
    DEF Next, TimePasses, Tick, ClientStep, ConsoleStep, vars
<1> QED
  BY <1>1, <1>2 DEF Lifecycle!LifeNext

\* Without unban, the licence server keeps the promises of CardLifecycle, for
\* any number of cards, machines, requests and console operations.
THEOREM Implements ==
  ASSUME "unban" \notin AdminOps PROVE Spec => LivesALife
<1>1. LifeInv /\ LifeInv' /\ [Next]_vars
        => [Lifecycle!LifeNext]_([c \in CardId |-> LifeOf(cards[c])])
  BY LivesGoOn DEF LifeInv
<1> QED
  BY <1>1, LifeBegins, Life, PTL DEF Spec, LivesALife, Lifecycle!LifeSpec
=============================================================================
