--------------------------- MODULE BatchIssue_proofs ---------------------------
(***************************************************************************)
(* For any set of codes, any number of batches issued at the same time and *)
(* any bound on the rounds, the codes BatchIssue answers are the batch's   *)
(* own, belong to no other batch, leave no inserted card out, and are as   *)
(* many as were asked for unless the rounds ran out.                       *)
(***************************************************************************)
EXTENDS BatchIssue, FiniteSetTheorems, TLAPS

Job == [pc : {"new", "draw", "confirm", "done", "dead"},
        codes : SUBSET Code, rounds : Nat]

TypeOK ==
  /\ table \in [Code -> Batch \cup {old, null}]
  /\ count \in [Batch -> Nat]
  /\ job \in [Batch -> Job]
  /\ created \in [Batch -> [Code -> {0, 1}]]
  /\ given \in [Batch -> SUBSET Code]
  /\ removed \in SUBSET Code

\* A card in the table was inserted by the batch it names.
OwnerGave(b) == \A c \in Code : table[c] = b => c \in given[b]

\* A card that was inserted is still its batch's, or was deleted.
GivenKept(b) == \A c \in given[b] : table[c] = b \/ c \in removed

\* What a batch lists, it inserted.
ListedGiven(b) == Listed(b) \subseteq given[b]

\* What a batch inserted and nobody deleted is on its list, unless the round
\* that drew it is still to be confirmed or the batch has died.
GivenListed(b) ==
  job[b].pc # "dead" =>
    given[b] \subseteq
      Listed(b) \cup removed \cup (IF job[b].pc = "confirm" THEN job[b].codes ELSE {})

IInv ==
  /\ TypeOK
  /\ \A b \in Batch :
       OwnerGave(b) /\ GivenKept(b) /\ ListedGiven(b) /\ GivenListed(b)

-----------------------------------------------------------------------------

\* A run that leaves its round behind is still one.
LEMMA JobLeft ==
  ASSUME TypeOK, NEW b \in Batch, NEW pc \in {"done", "draw", "dead"},
         job' = [job EXCEPT ![b].pc = pc, ![b].codes = {}]
  PROVE  job' \in [Batch -> Job]
<1>1. job[b] \in Job
  BY DEF TypeOK
<1>2. [job[b] EXCEPT !.pc = pc, !.codes = {}] \in Job
  BY <1>1 DEF Job
<1>3. job' = [job EXCEPT ![b] = [job[b] EXCEPT !.pc = pc, !.codes = {}]]
  BY DEF TypeOK
<1> QED
  BY <1>2, <1>3 DEF TypeOK

LEMMA InitInv == InitBatch => IInv
BY BatchAssumption
   DEF InitBatch, IInv, TypeOK, Job, OwnerGave, GivenKept, ListedGiven, GivenListed,
       Listed

LEMMA CreateInv ==
  ASSUME IInv, NEW b \in Batch, BatchCreate(b)
  PROVE  IInv'
<1>1. TypeOK'
  BY DEF IInv, TypeOK, Job, BatchCreate
<1>2. ASSUME NEW d \in Batch
      PROVE  (OwnerGave(d) /\ GivenKept(d) /\ ListedGiven(d) /\ GivenListed(d))'
  <2>1. /\ OwnerGave(d) /\ GivenKept(d) /\ ListedGiven(d) /\ GivenListed(d)
        /\ UNCHANGED <<table, created, given, removed>>
    BY DEF IInv, BatchCreate
  <2>2. job'[d].pc = "confirm" <=> job[d].pc = "confirm"
    BY DEF IInv, TypeOK, Job, BatchCreate
  <2>3. /\ job'[d].pc = "dead" <=> job[d].pc = "dead"
        /\ job'[d].codes = job[d].codes
    BY DEF IInv, TypeOK, Job, BatchCreate
  <2> QED
    BY <2>1, <2>2, <2>3 DEF OwnerGave, GivenKept, ListedGiven, GivenListed, Listed
<1> QED
  BY <1>1, <1>2 DEF IInv

LEMMA InsertInv ==
  ASSUME IInv, NEW b \in Batch, DrawAndInsert(b)
  PROVE  IInv'
<1>1. PICK codes \in SUBSET Code :
        /\ table' = [c \in Code |-> IF c \in Fresh(codes) THEN b ELSE table[c]]
        /\ given' = [given EXCEPT ![b] = @ \cup Fresh(codes)]
        /\ job' = [job EXCEPT ![b] = [pc |-> "confirm", codes |-> codes,
                                      rounds |-> @.rounds + 1]]
  BY DEF DrawAndInsert, kSubset
<1>2. /\ TypeOK /\ Fresh(codes) \subseteq codes
      /\ \A c \in Fresh(codes) : table[c] = null
      /\ UNCHANGED <<count, created, removed>> /\ job[b].pc = "draw"
  BY DEF IInv, Fresh, DrawAndInsert
<1>3. TypeOK'
  BY <1>1, <1>2 DEF TypeOK, Job
<1>4. \A d \in Batch \ {b} : given'[d] = given[d] /\ job'[d] = job[d]
  BY <1>1, <1>2 DEF TypeOK
<1>5. /\ given'[b] = given[b] \cup Fresh(codes)
      /\ job'[b].pc = "confirm" /\ job'[b].codes = codes
  BY <1>1, <1>2 DEF TypeOK
<1>6. \A c \in Code : table'[c] = IF c \in Fresh(codes) THEN b ELSE table[c]
  BY <1>1
<1>7. ASSUME NEW d \in Batch
      PROVE  (OwnerGave(d) /\ GivenKept(d) /\ ListedGiven(d) /\ GivenListed(d))'
  <2>0. /\ OwnerGave(d) /\ GivenKept(d) /\ ListedGiven(d) /\ GivenListed(d)
        /\ given[d] \subseteq Code /\ d # null
    BY <1>2, BatchAssumption DEF IInv, TypeOK
  <2>1. CASE d = b
    <3>1. OwnerGave(d)' /\ GivenKept(d)'
      BY <1>2, <1>5, <1>6, <2>0, <2>1 DEF OwnerGave, GivenKept
    <3>2. ListedGiven(d)'
      BY <1>2, <1>5, <2>0, <2>1 DEF ListedGiven, Listed
    <3>3. GivenListed(d)'
      BY <1>2, <1>5, <2>0, <2>1 DEF GivenListed, Listed
    <3> QED
      BY <3>1, <3>2, <3>3
  <2>2. CASE d # b
    <3>1. OwnerGave(d)'
      BY <1>4, <1>6, <2>0, <2>2 DEF OwnerGave
    <3>2. GivenKept(d)'
      BY <1>2, <1>4, <1>6, <2>0, <2>2 DEF GivenKept
    <3>3. ListedGiven(d)' /\ GivenListed(d)'
      BY <1>2, <1>4, <2>0, <2>2 DEF ListedGiven, GivenListed, Listed
    <3> QED
      BY <3>1, <3>2, <3>3
  <2> QED
    BY <2>1, <2>2
<1> QED
  BY <1>3, <1>7 DEF IInv

LEMMA ConfirmInv ==
  ASSUME IInv, NEW b \in Batch, Confirm(b)
  PROVE  IInv'
<1>1. /\ created' = [created EXCEPT ![b] = Pushed(b, Inserted(b))]
      /\ UNCHANGED <<table, count, given, removed>> /\ job[b].pc = "confirm"
  BY DEF Confirm
<1>2. TypeOK
  BY DEF IInv
<1>0. Inserted(b) \subseteq Code
  <2>1. job[b] \in Job
    BY <1>2 DEF TypeOK
  <2> QED
    BY <2>1 DEF Job, Inserted
<1>3. PICK pc \in {"done", "draw"} :
        job' = [job EXCEPT ![b].pc = pc, ![b].codes = {}]
  BY DEF Confirm
<1>4. /\ Pushed(b, Inserted(b)) \in [Code -> {0, 1}]
      /\ created'[b] = Pushed(b, Inserted(b))
      /\ \A d \in Batch \ {b} : created'[d] = created[d]
  BY <1>1, <1>2 DEF TypeOK, Pushed
<1>5. TypeOK'
  <2>1. job' \in [Batch -> Job]
    BY <1>2, <1>3, JobLeft
  <2> QED
    BY <1>1, <1>2, <1>4, <2>1 DEF TypeOK
<1>6. Listed(b)' = Listed(b) \cup Inserted(b)
  <2>1. \A c \in Code :
          created'[b][c] = IF c \in Inserted(b) /\ created[b][c] = 0
                           THEN 1 ELSE created[b][c]
    BY <1>4 DEF Pushed
  <2>2. \A c \in Code : created[b][c] \in {0, 1}
    BY <1>2 DEF TypeOK
  <2> QED
    BY <1>0, <2>1, <2>2 DEF Listed
<1>7. ASSUME NEW d \in Batch
      PROVE  (OwnerGave(d) /\ GivenKept(d) /\ ListedGiven(d) /\ GivenListed(d))'
  <2>0. /\ OwnerGave(d) /\ GivenKept(d) /\ ListedGiven(d) /\ GivenListed(d)
        /\ given[d] \subseteq Code
    BY <1>2 DEF IInv, TypeOK
  <2>1. OwnerGave(d)' /\ GivenKept(d)'
    BY <1>1, <2>0 DEF OwnerGave, GivenKept
  <2>2. CASE d = b
    <3>1. ListedGiven(d)'
      <4>1. Inserted(b) \subseteq given[b]
        BY <1>0, <2>0, <2>2 DEF OwnerGave, Inserted
      <4> QED
        BY <1>1, <1>6, <2>0, <2>2, <4>1 DEF ListedGiven
    <3>2. ASSUME NEW c \in given[b] PROVE c \in Listed(b)' \cup removed
      <4>1. c \in Listed(b) \cup removed \cup job[b].codes
        BY <1>1, <2>0, <2>2 DEF GivenListed
      <4>2. c \in job[b].codes => c \in Inserted(b) \/ c \in removed
        BY <2>0, <2>2 DEF GivenKept, Inserted
      <4> QED
        BY <1>6, <4>1, <4>2
    <3>3. GivenListed(d)'
      BY <1>1, <2>2, <3>2 DEF GivenListed
    <3> QED
      BY <2>1, <3>1, <3>3
  <2>3. CASE d # b
    <3>1. job'[d] = job[d] /\ Listed(d)' = Listed(d)
      BY <1>2, <1>3, <1>4, <2>3 DEF TypeOK, Listed
    <3> QED
      BY <1>1, <2>0, <2>1, <3>1 DEF ListedGiven, GivenListed
  <2> QED
    BY <2>2, <2>3
<1> QED
  BY <1>5, <1>7 DEF IInv

LEMMA CrashInv ==
  ASSUME IInv, NEW b \in Batch, Crash(b)
  PROVE  IInv'
<1>1. TypeOK'
  BY JobLeft DEF IInv, TypeOK, Crash
<1>2. /\ job'[b].pc = "dead" /\ \A d \in Batch \ {b} : job'[d] = job[d]
      /\ UNCHANGED <<table, created, given, removed>>
  BY DEF IInv, TypeOK, Crash
<1> QED
  BY <1>1, <1>2
     DEF IInv, OwnerGave, GivenKept, ListedGiven, GivenListed, Listed

LEMMA RemoveInv ==
  ASSUME IInv, NEW c \in Code, Remove(c)
  PROVE  IInv'
<1>1. TypeOK'
  BY DEF IInv, TypeOK, Remove
<1>2. /\ \A k \in Code : table'[k] = IF k = c THEN null ELSE table[k]
      /\ removed' = removed \cup {c}
      /\ UNCHANGED <<job, created, given>>
  BY DEF IInv, TypeOK, Remove
<1>3. ASSUME NEW d \in Batch
      PROVE  (OwnerGave(d) /\ GivenKept(d) /\ ListedGiven(d) /\ GivenListed(d))'
  <2>1. /\ OwnerGave(d) /\ GivenKept(d) /\ ListedGiven(d) /\ GivenListed(d)
        /\ given[d] \subseteq Code /\ d # null
    BY BatchAssumption DEF IInv, TypeOK
  <2> QED
    BY <1>2, <2>1 DEF OwnerGave, GivenKept, ListedGiven, GivenListed, Listed
<1> QED
  BY <1>1, <1>3 DEF IInv

LEMMA StepInv == IInv /\ [BatchNext]_bvars => IInv'
<1> SUFFICES ASSUME IInv, [BatchNext]_bvars PROVE IInv'
  OBVIOUS
<1>1. CASE UNCHANGED bvars
  BY <1>1 DEF bvars, IInv, TypeOK, OwnerGave, GivenKept, ListedGiven,
              GivenListed, Listed
<1>2. ASSUME NEW b \in Batch, BatchStep(b) \/ Crash(b) PROVE IInv'
  BY <1>2, CreateInv, InsertInv, ConfirmInv, CrashInv DEF BatchStep
<1>3. ASSUME NEW c \in Code, Remove(c) PROVE IInv'
  BY <1>3, RemoveInv
<1> QED
  BY <1>1, <1>2, <1>3 DEF BatchNext

LEMMA Inductive == BatchSpec => []IInv
BY InitInv, StepInv, PTL DEF BatchSpec

-----------------------------------------------------------------------------
(* How many codes a batch lists.                                           *)

\* A list without repetitions is as long as it has codes.
LEMMA LengthIs ==
  ASSUME NEW list \in [Code -> {0, 1}]
  PROVE  Length(list) = Cardinality({c \in Code : list[c] > 0})
<1> DEFINE codes == {c \in Code : list[c] > 0}
           places == {place \in Code \X (1 .. Rounds) : place[2] <= list[place[1]]}
           at == [c \in codes |-> <<c, 1>>]
<1>1. places = {<<c, 1>> : c \in codes}
  <2>1. ASSUME NEW place \in places PROVE place[1] \in codes /\ place = <<place[1], 1>>
    <3>1. PICK c \in Code, k \in 1 .. Rounds : place = <<c, k>>
      OBVIOUS
    <3>2. k \in Int /\ k >= 1 /\ k <= list[c] /\ list[c] \in {0, 1}
      BY <3>1, BatchAssumption
    <3> QED
      BY <3>1, <3>2
  <2>2. ASSUME NEW c \in codes PROVE <<c, 1>> \in places
    <3>1. list[c] = 1 /\ 1 \in 1 .. Rounds
      BY BatchAssumption
    <3> QED
      BY <3>1
  <2> QED
    BY <2>1, <2>2
<1>2. at \in Bijection(codes, places)
  <2> HIDE DEF places, codes
  <2>1. at \in [codes -> places] /\ \A c \in codes : at[c] = <<c, 1>>
    BY <1>1
  <2>2. \A c, d \in codes : at[c] = at[d] => c = d
    BY <2>1
  <2>3. \A place \in places : \E c \in codes : at[c] = place
    BY <1>1, <2>1
  <2> QED
    BY <2>1, <2>2, <2>3 DEF Bijection, Injection, Surjection, IsInjective
<1>3. IsFiniteSet(codes)
  BY EnoughCodes, FS_Subset
<1>4. Cardinality(places) = Cardinality(codes)
  <2>1. ExistsBijection(codes, places)
    BY <1>2 DEF ExistsBijection
  <2> QED
    BY <1>3, <2>1, FS_Bijection
<1> QED
  BY <1>4 DEF Length

\* A batch lists no more than it was asked for, a round under way can bring it
\* no further, and only a batch whose rounds ran out is short of its count.
CountOK(b) ==
  LET have == Cardinality(Listed(b))  round == Cardinality(job[b].codes)
  IN  /\ have <= count[b]
      /\ job[b].pc = "confirm" => have + round <= count[b]
      /\ job[b].pc \in {"new", "draw"} => job[b].rounds < Rounds
      /\ job[b].rounds <= Rounds
      /\ job[b].pc = "done" => have = count[b] \/ job[b].rounds = Rounds

CountInv == \A b \in Batch : CountOK(b)

LEMMA Finite ==
  ASSUME NEW S \in SUBSET Code
  PROVE  IsFiniteSet(S) /\ Cardinality(S) \in Nat
BY EnoughCodes, FS_Subset, FS_CardinalityType

LEMMA InitCount == InitBatch => CountInv
<1> SUFFICES ASSUME InitBatch, NEW b \in Batch PROVE CountOK(b)
  BY DEF CountInv
<1>1. /\ job[b].pc = "new" /\ job[b].rounds = 0 /\ count[b] \in 1 .. MaxCount
      /\ Listed(b) = {}
  BY DEF InitBatch, Listed
<1> QED
  BY <1>1, FS_EmptySet, BatchAssumption DEF CountOK

\* What a step leaves of a batch keeps its count.
LEMMA CountKept ==
  ASSUME NEW b \in Batch, CountOK(b), TypeOK, UNCHANGED count,
         job'[b] = job[b], created'[b] = created[b]
  PROVE  CountOK(b)'
BY DEF CountOK, Listed

LEMMA CreateCount ==
  ASSUME IInv, CountInv, NEW b \in Batch, BatchCreate(b)
  PROVE  CountInv'
<1>1. TypeOK
  BY DEF IInv
<1>2. /\ job'[b].pc = "draw" /\ job'[b].codes = job[b].codes
      /\ job'[b].rounds = job[b].rounds /\ job[b].pc = "new"
      /\ \A d \in Batch \ {b} : job'[d] = job[d]
      /\ UNCHANGED <<count, created>>
  BY <1>1 DEF BatchCreate, TypeOK, Job
<1>3. CountOK(b)'
  BY <1>2 DEF CountInv, CountOK, Listed
<1> QED
  BY <1>1, <1>2, <1>3, CountKept DEF CountInv

LEMMA InsertCount ==
  ASSUME IInv, CountInv, NEW b \in Batch, DrawAndInsert(b)
  PROVE  CountInv'
<1>1. TypeOK
  BY DEF IInv
<1>2. PICK codes \in SUBSET Code :
        /\ Cardinality(codes) = count[b] - Length(created[b])
        /\ job' = [job EXCEPT ![b] = [pc |-> "confirm", codes |-> codes,
                                      rounds |-> @.rounds + 1]]
  BY DEF DrawAndInsert, kSubset
<1>3. /\ job[b].pc = "draw" /\ job[b].rounds \in Nat
      /\ job'[b].pc = "confirm" /\ job'[b].codes = codes
      /\ job'[b].rounds = job[b].rounds + 1
      /\ \A d \in Batch \ {b} : job'[d] = job[d]
      /\ UNCHANGED <<count, created>>
  BY <1>1, <1>2 DEF DrawAndInsert, TypeOK, Job
<1>4. Length(created[b]) = Cardinality(Listed(b))
  BY <1>1, LengthIs DEF TypeOK, Listed
<1>5. CountOK(b)'
  <2>1. Listed(b) \in SUBSET Code /\ Listed(b)' = Listed(b)
    BY <1>3 DEF Listed
  <2>2. Cardinality(Listed(b)) \in Nat /\ count[b] \in Nat
    BY <1>1, <2>1, Finite DEF TypeOK
  <2> QED
    BY <1>2, <1>3, <1>4, <2>1, <2>2, BatchAssumption DEF CountInv, CountOK
<1> QED
  BY <1>1, <1>3, <1>5, CountKept DEF CountInv

LEMMA ConfirmCount ==
  ASSUME IInv, CountInv, NEW b \in Batch, Confirm(b)
  PROVE  CountInv'
<1>1. TypeOK /\ job[b] \in Job /\ Rounds \in Nat /\ count[b] \in Nat
  BY BatchAssumption DEF IInv, TypeOK
<1> DEFINE list == Pushed(b, Inserted(b))
           over == Length(list) >= count[b] \/ job[b].rounds >= Rounds
<1>2. /\ job[b].pc = "confirm"
      /\ created' = [created EXCEPT ![b] = list]
      /\ job' = [job EXCEPT ![b].pc = IF over THEN "done" ELSE "draw",
                            ![b].codes = {}]
      /\ UNCHANGED count
  BY DEF Confirm
<1>3. /\ Inserted(b) \subseteq job[b].codes /\ job[b].codes \subseteq Code
      /\ job[b].rounds \in Nat
  BY <1>1 DEF Inserted, Job
<1>4. list \in [Code -> {0, 1}]
  BY <1>1 DEF TypeOK, Pushed
<1> HIDE DEF list
<1>5. created'[b] = list /\ \A d \in Batch \ {b} : created'[d] = created[d]
  BY <1>1, <1>2 DEF TypeOK
<1>6. Listed(b)' = {c \in Code : list[c] > 0}
  BY <1>5 DEF Listed
<1>7. Listed(b)' = Listed(b) \cup Inserted(b)
  <2>1. \A c \in Code :
          list[c] = IF c \in Inserted(b) /\ created[b][c] = 0 THEN 1 ELSE created[b][c]
    BY DEF list, Pushed
  <2>2. \A c \in Code : created[b][c] \in {0, 1}
    BY <1>1 DEF TypeOK
  <2> QED
    BY <1>3, <1>6, <2>1, <2>2 DEF Listed
<1>8. Cardinality(Listed(b)') <= count[b]
  <2>1. Listed(b) \in SUBSET Code /\ Inserted(b) \in SUBSET Code
    BY <1>3 DEF Listed
  <2>2. /\ IsFiniteSet(Listed(b)) /\ IsFiniteSet(Inserted(b)) /\ IsFiniteSet(job[b].codes)
        /\ Cardinality(Listed(b)) \in Nat /\ Cardinality(Inserted(b)) \in Nat
        /\ Cardinality(job[b].codes) \in Nat
        /\ Cardinality(Listed(b) \cap Inserted(b)) \in Nat
    BY <1>3, <2>1, Finite
  <2>3. Cardinality(Inserted(b)) <= Cardinality(job[b].codes)
    BY <1>3, <2>2, FS_Subset
  <2>4. Cardinality(Listed(b) \cup Inserted(b)) =
          Cardinality(Listed(b)) + Cardinality(Inserted(b))
            - Cardinality(Listed(b) \cap Inserted(b))
    BY <2>2, FS_Union
  <2>5. Cardinality(Listed(b)) + Cardinality(job[b].codes) <= count[b]
    BY <1>2 DEF CountInv, CountOK
  <2> QED
    BY <1>1, <1>7, <2>2, <2>3, <2>4, <2>5
<1>9. Cardinality(Listed(b)') \in Nat /\ Length(list) = Cardinality(Listed(b)')
  BY <1>4, <1>6, Finite, LengthIs
<1>10. /\ job'[b].pc = IF over THEN "done" ELSE "draw"
       /\ job'[b].rounds = job[b].rounds
       /\ \A d \in Batch \ {b} : job'[d] = job[d]
  BY <1>1, <1>2 DEF TypeOK, Job
<1>11. CountOK(b)'
  <2>1. job[b].rounds <= Rounds
    BY DEF CountInv, CountOK
  <2> HIDE DEF over
  <2>2. over <=> Cardinality(Listed(b)') = count[b] \/ job[b].rounds = Rounds
    BY <1>1, <1>3, <1>8, <1>9, <2>1 DEF over
  <2>3. ~over => job[b].rounds < Rounds
    BY <1>1, <1>3, <2>1, <2>2
  <2> QED
    BY <1>2, <1>8, <1>10, <2>1, <2>2, <2>3 DEF CountOK
<1> QED
  BY <1>1, <1>2, <1>5, <1>10, <1>11, CountKept DEF CountInv

LEMMA CrashCount ==
  ASSUME IInv, CountInv, NEW b \in Batch, Crash(b)
  PROVE  CountInv'
<1>1. TypeOK
  BY DEF IInv
<1>2. /\ job'[b].pc = "dead" /\ job'[b].rounds = job[b].rounds
      /\ \A d \in Batch \ {b} : job'[d] = job[d]
      /\ UNCHANGED <<count, created>>
  BY <1>1 DEF Crash, TypeOK, Job
<1>3. CountOK(b)'
  BY <1>2 DEF CountInv, CountOK, Listed
<1> QED
  BY <1>1, <1>2, <1>3, CountKept DEF CountInv

LEMMA StepCount == IInv /\ CountInv /\ [BatchNext]_bvars => CountInv'
<1> SUFFICES ASSUME IInv, CountInv, [BatchNext]_bvars PROVE CountInv'
  OBVIOUS
<1>1. CASE UNCHANGED bvars
  BY <1>1 DEF bvars, CountInv, CountOK, Listed
<1>2. ASSUME NEW b \in Batch, BatchStep(b) \/ Crash(b) PROVE CountInv'
  BY <1>2, CreateCount, InsertCount, ConfirmCount, CrashCount DEF BatchStep
<1>3. ASSUME NEW c \in Code, Remove(c) PROVE CountInv'
  BY <1>3 DEF Remove, CountInv, CountOK, Listed
<1> QED
  BY <1>1, <1>2, <1>3 DEF BatchNext

LEMMA Counted == BatchSpec => []CountInv
BY InitCount, StepCount, Inductive, PTL DEF BatchSpec

-----------------------------------------------------------------------------

\* The codes a batch answers are codes it inserted (card.service.ts:206).
THEOREM Owned == BatchSpec => []CodesOwned
<1>1. IInv => CodesOwned
  BY DEF IInv, ListedGiven, CodesOwned
<1> QED
  BY <1>1, Inductive, PTL

\* Batches issued at the same time never answer the same code, as long as its
\* card is not deleted in between.
THEOREM Exclusive == BatchSpec => []CodesExclusive
<1>1. IInv => CodesExclusive
  <2> SUFFICES ASSUME IInv, NEW b \in Batch, NEW d \in Batch, b # d,
                      NEW c \in Listed(b) \cap Listed(d)
               PROVE  c \in removed
    BY DEF CodesExclusive
  <2> QED
    BY DEF IInv, ListedGiven, GivenKept
<1> QED
  BY <1>1, Inductive, PTL

\* Every card a batch inserted and nobody deleted is in its answer.
THEOREM Complete == BatchSpec => []NoOrphan
<1>1. IInv => NoOrphan
  BY DEF IInv, GivenListed, NoOrphan, Answered
<1> QED
  BY <1>1, Inductive, PTL

\* A batch answers each code once and as many as were asked for, or its rounds
\* ran out (card.service.ts:181).
THEOREM Exact == BatchSpec => []ExactCount
<1>1. IInv /\ CountInv => ExactCount
  <2> SUFFICES ASSUME IInv, CountInv, NEW b \in Batch, Answered(b)
               PROVE  /\ \A c \in Code : created[b][c] <= 1
                      /\ Length(created[b]) <= count[b]
                      /\ Length(created[b]) < count[b] => job[b].rounds = Rounds
    BY DEF ExactCount
  <2>1. created[b] \in [Code -> {0, 1}] /\ count[b] \in Nat
    BY DEF IInv, TypeOK
  <2>2. Length(created[b]) = Cardinality(Listed(b))
    BY <2>1, LengthIs DEF Listed
  <2>3. Cardinality(Listed(b)) \in Nat
    BY Finite DEF Listed
  <2>4. \A c \in Code : created[b][c] <= 1
    BY <2>1
  <2> QED
    BY <2>1, <2>2, <2>3, <2>4 DEF CountInv, CountOK, Answered
<1> QED
  BY <1>1, Inductive, Counted, PTL
=============================================================================
