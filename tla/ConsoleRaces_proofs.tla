------------------------- MODULE ConsoleRaces_proofs -------------------------
(***************************************************************************)
(* Console operations that overlap, any number of them: what an unban does *)
(* to the card it found banned, and how licensed time can be lost.         *)
(***************************************************************************)
EXTENDS ConsoleRaces, CardLife_proofs

LEMMA Underlies == RSpec => Spec
<1>1. RInit => Init
  BY DEF RInit
<1>2. [RNext]_rvars => [Next]_vars
  BY DEF RNext, rvars
<1> QED
  BY <1>1, <1>2, PTL DEF RSpec, Spec

HistoryOK ==
  /\ found \in [Operator -> SUBSET CardId]
  /\ overtaken \in [Operator -> SUBSET (CardId \X Judged)]

\* No unban or extension wrote c since a read it.
Alone(a, c) == {<<c, "unban">>, <<c, "extend">>} \cap overtaken[a] = {}

\* The row of a card that a found banned, and that nobody unbanned or extended
\* since, is banned still and has the terms that were read.
StillBanned(a, c) ==
  adm[a].op = "unban" /\ c \in found[a] /\ Alone(a, c) /\ Exists(c) =>
    /\ c \in adm[a].targets
    /\ cards[c].status = "BANNED"
    /\ adm[a].seen[c] = TermsOf(cards[c])

\* The terms an extension read are current until another extension writes.
StillCurrent(a, c) ==
  Extending(a, c) /\ <<c, "extend">> \notin overtaken[a] /\ Exists(c) => Current(a, c)

-----------------------------------------------------------------------------
(* The history.                                                            *)

LEMMA HistoryStep ==
  ASSUME IInv, HistoryOK, RNext, NEW a \in Operator
  PROVE  /\ found'[a] = IF adm'[a].op = "idle" THEN {}
                        ELSE IF adm[a].op = "idle"
                        THEN {c \in adm'[a].targets :
                                adm'[a].op = "unban" /\ cards[c].status = "BANNED"}
                        ELSE found[a]
         /\ overtaken'[a] = IF adm[a].op \notin Judged \/ adm'[a].op = "idle" THEN {}
                            ELSE overtaken[a] \cup Overtaking(a)
BY DEF RNext

LEMMA HistoryType == IInv /\ HistoryOK /\ RNext => HistoryOK'
<1> SUFFICES ASSUME IInv, HistoryOK, RNext PROVE HistoryOK'
  OBVIOUS
<1>1. IInv'
  BY StepIInv DEF RNext
<1>2. ASSUME NEW a \in Operator
      PROVE  found'[a] \in SUBSET CardId /\ overtaken'[a] \in SUBSET (CardId \X Judged)
  <2>1. adm[a].targets \in SUBSET CardId /\ adm'[a].targets \in SUBSET CardId
    BY <1>1 DEF IInv, TypeOK, AdminOK, Operation
  <2>2. Overtaking(a) \in SUBSET (CardId \X Judged)
    BY <2>1 DEF Overtaking
  <2> QED
    BY <2>1, <2>2, HistoryStep DEF HistoryOK
<1>3. /\ found' = [a \in Operator |-> found'[a]]
      /\ overtaken' = [a \in Operator |-> overtaken'[a]]
  BY DEF RNext
<1> QED
  BY <1>2, <1>3 DEF HistoryOK

\* A write of another unban or extension to a target is noted.
LEMMA Noted ==
  ASSUME IInv, HistoryOK, RNext, NEW a \in Operator, NEW b \in Operator \ {a},
         NEW c \in CardId, c \in adm[a].targets, adm[a].op \in Judged,
         adm'[a].op # "idle", adm[b].op \in Judged, adm'[b].op = "idle",
         cards'[c] # cards[c]
  PROVE  <<c, adm[b].op>> \in overtaken'[a]
<1>1. <<c, adm[b].op>> \in Overtaking(a)
  BY DEF Overtaking, Wrote, Judged
<1> QED
  BY <1>1, HistoryStep

\* What was noted stays noted while the operation runs.
LEMMA NotedStays ==
  ASSUME IInv, HistoryOK, RNext, NEW a \in Operator,
         adm[a].op \in Judged, adm'[a].op # "idle"
  PROVE  overtaken[a] \subseteq overtaken'[a]
BY HistoryStep

\* A console step is a read, which begins an operation, or the end of one.
LEMMA ConsoleMoves ==
  ASSUME IInv, NEW a \in Operator, AdminStep(a)
  PROVE  \/ adm[a].op = "idle" /\ adm'[a].op # "idle" /\ AdminRead(a) /\ cards' = cards
         \/ adm[a].op # "idle" /\ adm'[a].op = "idle"
<1>1. adm \in [Operator -> Operation]
  BY DEF IInv, TypeOK, AdminOK
<1>2. CASE AdminRead(a)
  <2>1. PICK op \in AdminOp : \E targets, seen : Begin(a, op, targets, seen)
    BY <1>2 DEF AdminRead, mustGet, UnbanRead, ExtendRead, AdminOp
  <2>2. adm[a].op = "idle" /\ adm'[a].op = op /\ cards' = cards
    BY <1>1, <2>1 DEF Begin, storeVars
  <2> QED
    BY <1>2, <2>2 DEF AdminOp
<1>3. CASE AdminWrite(a)
  BY <1>1, <1>3 DEF AdminWrite, ban, unban, unbind, remove, extendCards, Writing,
    Done, NoOp
<1>4. CASE AbortAdmin(a)
  BY <1>1, <1>4 DEF AbortAdmin, Done, NoOp
<1> QED
  BY <1>2, <1>3, <1>4 DEF AdminStep

-----------------------------------------------------------------------------
(* Unban.                                                                  *)

BannedInv ==
  /\ IInv
  /\ HistoryOK
  /\ \A a \in Operator, c \in CardId : StillBanned(a, c)

\* An unban reads the terms of the row it gets.
LEMMA UnbanReads ==
  ASSUME IInv, NEW a \in Operator, AdminRead(a), NEW c \in adm'[a].targets,
         adm'[a].op = "unban"
  PROVE  adm'[a].seen[c] = TermsOf(cards[c]) /\ cards' = cards
<1>0. adm \in [Operator -> Operation]
  BY DEF IInv, TypeOK, AdminOK
<1>1. CASE UnbanRead(a)
  <2>1. PICK x \in CardId : Exists(x)
          /\ Begin(a, "unban", {x}, [Nothing EXCEPT ![x] = TermsOf(cards[x])])
    BY <1>1 DEF UnbanRead
  <2>2. /\ adm'[a].targets = {x} /\ cards' = cards
        /\ adm'[a].seen[x] = TermsOf(cards[x])
    BY <1>0, <2>1 DEF Begin, Nothing, storeVars
  <2> QED
    BY <2>2
<1>2. CASE ~UnbanRead(a)
  <2>1. adm'[a].op # "unban"
    BY <1>0, <1>2 DEF AdminRead, mustGet, ExtendRead, Begin
  <2> QED
    BY <2>1
<1> QED
  BY <1>1, <1>2

\* Bans, unbinds and deletions leave a banned row banned, on its terms, or gone.
LEMMA BannedStays ==
  ASSUME IInv, NEW b \in Operator, AdminStep(b), NEW c \in CardId,
         adm[b].op \notin {"unban", "extend"},
         Exists(c), cards[c].status = "BANNED", cards'[c] # null
  PROVE  cards'[c].status = "BANNED" /\ TermsOf(cards'[c]) = TermsOf(cards[c])
<1>0. cards[c] \in CardRow /\ cards \in [CardId -> Optional(CardRow)]
      /\ adm[b] \in Operation
  BY DEF IInv, TypeOK, StoreOK, AdminOK, Exists, Optional
<1>1. CASE UNCHANGED cards
  BY <1>1
<1>2. CASE ban(b) \/ unbind(b) \/ remove(b)
  BY <1>0, <1>2 DEF ban, unbind, remove, SetRow, CardRow, TermsOf
<1> QED
  BY <1>1, <1>2 DEF AdminStep, AdminRead, AdminWrite, mustGet, UnbanRead, ExtendRead,
    Begin, AbortAdmin, storeVars, unban, extendCards, Writing

LEMMA StepStillBanned ==
  ASSUME BannedInv, RNext, NEW a \in Operator, NEW c \in CardId
  PROVE  StillBanned(a, c)'
<1> SUFFICES ASSUME adm'[a].op = "unban", c \in found'[a], Alone(a, c)', cards'[c] # null
             PROVE  /\ c \in adm'[a].targets
                    /\ cards'[c].status = "BANNED"
                    /\ adm'[a].seen[c] = TermsOf(cards'[c])
  BY DEF StillBanned, Exists
<1>0. IInv /\ TypeOK /\ HistoryOK /\ Next /\ cards[c] # null
  BY NextEvolves DEF BannedInv, RNext, IInv, AllEvolve, Evolves
<1>1. ASSUME adm'[a] = adm[a]
      PROVE  /\ c \in adm[a].targets /\ cards[c].status = "BANNED"
             /\ adm[a].seen[c] = TermsOf(cards[c])
  <2>1. c \in found[a]
    BY <1>0, <1>1, HistoryStep
  <2>2. Alone(a, c)
    BY <1>0, <1>1, NotedStays DEF Alone, Judged
  <2> QED
    BY <1>0, <1>1, <2>1, <2>2 DEF BannedInv, StillBanned, Exists
<1>2. CASE UNCHANGED <<cards, adm>>
  BY <1>1, <1>2
<1>3. ASSUME NEW r \in Request, RequestStep(r), UNCHANGED adm
      PROVE  /\ c \in adm'[a].targets /\ cards'[c].status = "BANNED"
             /\ adm'[a].seen[c] = TermsOf(cards'[c])
  <2>1. cards[c].status = "BANNED"
    BY <1>1, <1>3
  <2>2. cards'[c] = cards[c]
    BY <1>0, <1>3, <2>1, ClientWrites
  <2> QED
    BY <1>1, <1>3, <2>2
<1>4. ASSUME AdminStep(a)
      PROVE  /\ c \in adm'[a].targets /\ cards'[c].status = "BANNED"
             /\ adm'[a].seen[c] = TermsOf(cards'[c])
  <2>1. adm[a].op = "idle" /\ AdminRead(a)
    BY <1>0, <1>4, ConsoleMoves
  <2>2. c \in adm'[a].targets /\ cards[c].status = "BANNED"
    BY <1>0, <2>1, HistoryStep
  <2> QED
    BY <1>0, <2>1, <2>2, UnbanReads
<1>5. ASSUME NEW b \in Operator \ {a}, AdminStep(b)
      PROVE  /\ c \in adm'[a].targets /\ cards'[c].status = "BANNED"
             /\ adm'[a].seen[c] = TermsOf(cards'[c])
  <2>1. adm'[a] = adm[a]
    BY <1>0, <1>5, OtherOperatorsStay DEF TypeOK
  <2>2. /\ c \in adm[a].targets /\ cards[c].status = "BANNED"
        /\ adm[a].seen[c] = TermsOf(cards[c])
    BY <1>1, <2>1
  <2>3. CASE cards'[c] = cards[c]
    BY <2>1, <2>2, <2>3
  <2>4. CASE cards'[c] # cards[c]
    <3>1. adm[b].op # "idle" /\ adm'[b].op = "idle"
      BY <1>0, <1>5, <2>4, ConsoleMoves
    <3>2. adm[a].op \in Judged /\ adm'[a].op # "idle"
      BY <2>1 DEF Judged
    <3>3. adm[b].op \notin {"unban", "extend"}
      BY <1>0, <2>2, <2>4, <3>1, <3>2, Noted DEF Alone, Judged
    <3> QED
      BY <1>0, <1>5, <2>1, <2>2, <3>3, BannedStays DEF Exists
  <2> QED
    BY <2>3, <2>4
<1> QED
  BY <1>0, <1>2, <1>3, <1>4, <1>5
    DEF Next, TimePasses, Tick, ClientStep, ConsoleStep

LEMMA InitBanned == RInit => BannedInv
<1> SUFFICES ASSUME RInit PROVE BannedInv
  OBVIOUS
<1>1. IInv
  BY InitIInv DEF RInit
<1>2. HistoryOK
  BY DEF RInit, HistoryOK
<1>3. \A a \in Operator : found[a] = {}
  BY DEF RInit
<1> QED
  BY <1>1, <1>2, <1>3 DEF BannedInv, StillBanned

LEMMA StepBanned == BannedInv /\ [RNext]_rvars => BannedInv'
<1> SUFFICES ASSUME BannedInv, [RNext]_rvars PROVE BannedInv'
  OBVIOUS
<1>1. IInv'
  BY StepIInv DEF BannedInv, RNext, rvars
<1>2. CASE UNCHANGED rvars
  BY <1>1, <1>2 DEF rvars, vars, BannedInv, HistoryOK, StillBanned, Alone, Exists
<1>3. CASE RNext
  BY <1>1, <1>3, HistoryType, StepStillBanned DEF BannedInv
<1> QED
  BY <1>2, <1>3

\* The write of an unban that reaches its card.
LEMMA UnbanWrites ==
  ASSUME IInv, Next, NEW a \in Operator, NEW c \in CardId,
         adm[a].op = "unban", Wrote(a, c)
  PROVE  \E now \in adm[a].at .. clock :
           /\ Exists(c)
           /\ cards'[c] = [cards[c] EXCEPT !.status = StatusAfterBan(adm[a].seen[c], now)]
<1>0. TypeOK /\ adm[a] \in Operation /\ cards \in [CardId -> Optional(CardRow)]
  BY DEF IInv, TypeOK, AdminOK, StoreOK
<1>1. adm'[a] # adm[a] /\ cards'[c] # cards[c]
  BY DEF Wrote
<1>2. AdminStep(a)
  <2>1. PICK b \in Operator : AdminStep(b)
    BY <1>1 DEF Next, TimePasses, ClientStep, ConsoleStep
  <2>2. b = a
    BY <1>0, <1>1, <2>1, OtherOperatorsStay DEF TypeOK
  <2> QED
    BY <2>1, <2>2
<1>3. unban(a)
  BY <1>1, <1>2 DEF AdminStep, AdminRead, AdminWrite, mustGet, UnbanRead, ExtendRead,
    Begin, AbortAdmin, storeVars, ban, unbind, remove, extendCards, Writing
<1>4. PICK d \in adm[a].targets, now \in adm[a].at .. clock :
        /\ Exists(d)
        /\ SetRow(d, [cards[d] EXCEPT !.status = StatusAfterBan(adm[a].seen[d], now)])
  BY <1>3 DEF unban
<1>5. d = c
  BY <1>0, <1>1, <1>4 DEF SetRow
<1>6. cards'[c] = [cards[c] EXCEPT !.status = StatusAfterBan(adm[a].seen[c], now)]
  BY <1>0, <1>4, <1>5 DEF SetRow
<1> QED
  BY <1>4, <1>5, <1>6

\* A status worked out from the row's own terms is right.
LEMMA RightFromOwnTerms ==
  ASSUME NEW row \in CardRow, NEW at \in Nat, clock \in Nat, NEW now \in at .. clock
  PROVE  RightStatus([row EXCEPT !.status = StatusAfterBan(TermsOf(row), now)], at)
<1> DEFINE status == StatusAfterBan(TermsOf(row), now)
<1>1. /\ TermsOf(row).activated = row.activated
      /\ TermsOf(row).expiresAt = row.expiresAt
      /\ row.activated \in BOOLEAN /\ row.expiresAt \in Nat \cup {null}
  BY DEF TermsOf, CardRow, Optional, Time
<1>2. /\ status \in {"UNUSED", "EXPIRED", "ACTIVE"}
      /\ status = "UNUSED" <=> ~row.activated
      /\ status = "EXPIRED" => row.expiresAt # null /\ row.expiresAt <= now
      /\ status = "ACTIVE" => ~(row.expiresAt # null /\ row.expiresAt <= now)
  BY <1>1 DEF StatusAfterBan, isExpired
<1> HIDE DEF status
<1> DEFINE new == [row EXCEPT !.status = status]
<1>3. /\ new.status = status /\ new.activated = row.activated
      /\ new.expiresAt = row.expiresAt
  BY DEF CardRow
<1> HIDE DEF new
<1>4. RightStatus(new, at)
  BY <1>1, <1>2, <1>3, LogicAssumption DEF RightStatus, isExpired
<1> QED
  BY <1>4 DEF new, status

\* A banned card that is unbanned gets the status its row calls for, unless
\* another unban or an extension of the card comes in between: for any number
\* of clients and console requests, and all five operations
\* (admin.service.ts:110-119).
THEOREM Unbanned == RSpec => UnbanRestores
<1>1. BannedInv /\ [RNext]_rvars => [\A a \in Operator : UnbanRight(a)]_rvars
  <2> SUFFICES ASSUME BannedInv, RNext, NEW a \in Operator, NEW c \in CardId,
                      Unbans(a, c), Alone(a, c)
               PROVE  RightStatus(cards'[c], adm[a].at)
    BY DEF UnbanRight, Alone
  <2>1. IInv /\ Next /\ adm[a].op = "unban" /\ c \in found[a] /\ Wrote(a, c)
    BY DEF BannedInv, RNext, Unbans
  <2>2. PICK now \in adm[a].at .. clock :
          /\ Exists(c)
          /\ cards'[c] = [cards[c] EXCEPT !.status = StatusAfterBan(adm[a].seen[c], now)]
    BY <2>1, UnbanWrites
  <2>3. adm[a].seen[c] = TermsOf(cards[c])
    BY <2>1, <2>2 DEF BannedInv, StillBanned
  <2>4. cards[c] \in CardRow /\ adm[a].at \in Nat /\ clock \in Nat
    BY <2>1, <2>2 DEF IInv, TypeOK, StoreOK, AdminOK, Operation, Optional, Exists, Time
  <2> QED
    BY <2>2, <2>3, <2>4, RightFromOwnTerms
<1> QED
  BY <1>1, InitBanned, StepBanned, PTL DEF RSpec, UnbanRestores

-----------------------------------------------------------------------------
(* Extensions.                                                             *)

ExtensionInv ==
  /\ HistoryOK
  /\ \A a \in Operator, c \in CardId : StillCurrent(a, c)

LEMMA StepStillCurrent ==
  ASSUME LifeInv, ExtensionInv, RNext, NEW a \in Operator, NEW c \in CardId
  PROVE  StillCurrent(a, c)'
<1> SUFFICES ASSUME Extending(a, c)', <<c, "extend">> \notin overtaken'[a],
                    cards'[c] # null
             PROVE  Current(a, c)'
  BY DEF StillCurrent, Exists
<1>0. IInv /\ HistoryOK /\ Next /\ adm'[a].op # "idle"
  BY DEF LifeInv, ExtensionInv, RNext, Extending
<1>1. Extending(a, c) /\ Exists(c) => Current(a, c)
  <2> SUFFICES ASSUME Extending(a, c), Exists(c)
               PROVE  Current(a, c)
    OBVIOUS
  <2>1. <<c, "extend">> \notin overtaken[a]
    BY <1>0, NotedStays DEF Extending, Judged
  <2> QED
    BY <2>1 DEF ExtensionInv, StillCurrent
<1>2. ASSUME NEW b \in Operator \ {a}, Extending(b, c), extendCards(b),
             cards'[c] # cards[c]
      PROVE  FALSE
  <2>1. AdminStep(b)
    BY <1>2 DEF AdminStep, AdminWrite
  <2>2. adm'[a] = adm[a] /\ adm[b].op = "extend" /\ adm'[b].op = "idle"
    BY <1>0, <1>2, <2>1, OtherOperatorsStay, ConsoleMoves
      DEF IInv, TypeOK, Extending
  <2>3. <<c, adm[b].op>> \in overtaken'[a]
    BY <1>0, <1>2, <2>2, Noted DEF Extending, Judged
  <2> QED
    BY <2>2, <2>3
<1> QED
  BY <1>0, <1>1, <1>2, CurrentStays

LEMMA StepExtension ==
  ASSUME LifeInv, ExtensionInv, [RNext]_rvars
  PROVE  ExtensionInv'
<1>1. CASE UNCHANGED rvars
  BY <1>1 DEF rvars, vars, ExtensionInv, HistoryOK, StillCurrent, Extending, Exists,
    Current
<1>2. CASE RNext
  BY <1>2, HistoryType, StepStillCurrent DEF ExtensionInv, LifeInv
<1> QED
  BY <1>1, <1>2

\* Without unban, licensed time is lost only by an extension that another
\* extension of the same card overtook between its read and its write, for
\* any number of clients and console requests (admin.service.ts:77-94).
THEOREM LostTime ==
  ASSUME "unban" \notin AdminOps PROVE RSpec => TimeLostInOverlapOnly
<1>1. RInit => ExtensionInv
  BY DEF RInit, Init, InitAdmin, NoOp, ExtensionInv, HistoryOK, StillCurrent, Extending
<1>2. LifeInv /\ ExtensionInv /\ [RNext]_rvars => ExtensionInv'
  BY StepExtension
<1>3. LifeInv /\ ExtensionInv /\ [RNext]_rvars
        => [\A c \in CardId :
              TimeKept(c) \/ \E a \in Operator : OvertakenExtension(a, c)]_rvars
  <2> SUFFICES ASSUME LifeInv, ExtensionInv, RNext, NEW c \in CardId, ~TimeKept(c)
               PROVE  \E a \in Operator : OvertakenExtension(a, c)
    OBVIOUS
  <2>1. PICK a \in Operator :
          extendCards(a) /\ Extending(a, c) /\ Exists(c) /\ ~Current(a, c)
          /\ adm'[a].op = "idle"
    BY TimeLost DEF RNext
  <2>2. <<c, "extend">> \in overtaken[a]
    BY <2>1 DEF ExtensionInv, StillCurrent
  <2> QED
    BY <2>1, <2>2 DEF OvertakenExtension, Extending
<1> QED
  BY <1>1, <1>2, <1>3, Underlies, Life, PTL DEF RSpec, TimeLostInOverlapOnly
=============================================================================
