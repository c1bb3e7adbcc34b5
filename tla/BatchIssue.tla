------------------------------ MODULE BatchIssue ------------------------------
(***************************************************************************)
(* The issue of cards, generateBatch in card/card.service.ts. A batch      *)
(* draws random codes, inserts them with skipDuplicates, asks the table    *)
(* which of them are its own, and draws again for those that were not, for *)
(* a bounded number of rounds. Several batches run at the same time, on a  *)
(* table that holds older cards and from which the console deletes.        *)
(***************************************************************************)
EXTENDS Integers, FiniteSetsExt

CONSTANTS
  Code,        \* the codes generateCode may draw
  Batch,       \* the batches being issued
  Taken,       \* the codes of the cards that were there before
  old,         \* the batch of those cards
  null,        \* no card has the code
  MaxCount,    \* bound: the largest count asked for
  Rounds       \* the rounds a batch may take (20 in the code)

ASSUME BatchAssumption ==
  /\ null \notin Batch /\ old \notin Batch /\ old # null
  /\ Taken \subseteq Code
  /\ MaxCount \in Nat \ {0} /\ Rounds \in Nat \ {0}

\* The draw ends: a batch asks for no more codes than there are.
ASSUME EnoughCodes == IsFiniteSet(Code) /\ MaxCount <= Cardinality(Code)

VARIABLES
  table,       \* [Code -> batchId of the card with that code, or null]
  count,       \* [Batch -> the count asked for]
  job,         \* [Batch -> [pc, codes, rounds]]: a run of generateBatch
  created,     \* [Batch -> [Code -> how often "created" lists the code]]
  given,       \* history: [Batch -> the codes its createMany inserted]
  removed      \* history: the codes the console deleted a card of

bvars == <<table, count, job, created, given, removed>>

InitBatch ==
  /\ table = [c \in Code |-> IF c \in Taken THEN old ELSE null]
  /\ count \in [Batch -> 1 .. MaxCount]
  /\ job = [b \in Batch |-> [pc |-> "new", codes |-> {}, rounds |-> 0]]
  /\ created = [b \in Batch |-> [c \in Code |-> 0]]
  /\ given = [b \in Batch |-> {}]
  /\ removed = {}

\* created.length: a round pushes a code once at most, so the places where
\* the list has a code are its first to its Rounds-th.
Length(list) ==
  Cardinality({place \in Code \X (1 .. Rounds) : place[2] <= list[place[1]]})

Listed(b) == {c \in Code : created[b][c] > 0}

Running(b) == job[b].pc \in {"draw", "confirm"}

-----------------------------------------------------------------------------
(* The statements of generateBatch.                                        *)

BatchCreate(b) ==
  /\ job[b].pc = "new"
  /\ job' = [job EXCEPT ![b].pc = "draw"]
  /\ UNCHANGED <<table, count, created, given, removed>>

\* Bug variant: a card that is there is overwritten.
Fresh_Overwrites(codes) == codes

\* What createMany inserts: skipDuplicates passes over the codes in use.
Fresh(codes) == {c \in codes : table[c] = null}

\* Bug variant: the round is not counted.
DrawAndInsert_Unbounded(b) ==
  /\ job[b].pc = "draw"
  /\ \E codes \in kSubset(count[b] - Length(created[b]), Code) :
       /\ table' = [c \in Code |-> IF c \in Fresh(codes) THEN b ELSE table[c]]
       /\ given' = [given EXCEPT ![b] = @ \cup Fresh(codes)]
       /\ job' = [job EXCEPT ![b].pc = "confirm", ![b].codes = codes]
  /\ UNCHANGED <<count, created, removed>>

\* A round: "need" different codes are drawn and sent to createMany.
DrawAndInsert(b) ==
  /\ job[b].pc = "draw"
  /\ \E codes \in kSubset(count[b] - Length(created[b]), Code) :
       /\ table' = [c \in Code |-> IF c \in Fresh(codes) THEN b ELSE table[c]]
       /\ given' = [given EXCEPT ![b] = @ \cup Fresh(codes)]
       /\ job' = [job EXCEPT ![b] = [pc |-> "confirm", codes |-> codes,
                                     rounds |-> @.rounds + 1]]
  /\ UNCHANGED <<count, created, removed>>

\* Bug variant: the query does not ask for the batch.
Inserted_AnyBatch(b) == {c \in job[b].codes : table[c] # null}

Inserted(b) == {c \in job[b].codes : table[c] = b}

\* Bug variant: codes are pushed without a look at the list.
Pushed_Again(b, codes) ==
  [c \in Code |-> IF c \in codes THEN created[b][c] + 1 ELSE created[b][c]]

\* Bug variant: the list is the last round's.
Pushed_LastRound(b, codes) == [c \in Code |-> IF c \in codes THEN 1 ELSE 0]

\* created with the codes it does not list yet.
Pushed(b, codes) ==
  [c \in Code |-> IF c \in codes /\ created[b][c] = 0 THEN 1 ELSE created[b][c]]

\* findMany confirms what landed; the loop goes round, or generateBatch
\* returns and the codes are answered.
Confirm(b) ==
  /\ job[b].pc = "confirm"
  /\ LET list == Pushed(b, Inserted(b))
         over == Length(list) >= count[b] \/ job[b].rounds >= Rounds
     IN  /\ created' = [created EXCEPT ![b] = list]
         /\ job' = [job EXCEPT ![b].pc = IF over THEN "done" ELSE "draw",
                               ![b].codes = {}]
  /\ UNCHANGED <<table, count, given, removed>>

\* A statement fails or the server dies: the cards inserted so far stay.
Crash(b) ==
  /\ Running(b)
  /\ job' = [job EXCEPT ![b].pc = "dead", ![b].codes = {}]
  /\ UNCHANGED <<table, count, created, given, removed>>

\* The console deletes a card, of any batch.
Remove(c) ==
  /\ table[c] # null
  /\ table' = [table EXCEPT ![c] = null]
  /\ removed' = removed \cup {c}
  /\ UNCHANGED <<count, job, created, given>>

BatchStep(b) == BatchCreate(b) \/ DrawAndInsert(b) \/ Confirm(b)

BatchNext ==
  \/ \E b \in Batch : BatchStep(b) \/ Crash(b)
  \/ \E c \in Code : Remove(c)

BatchSpec == InitBatch /\ [][BatchNext]_bvars

\* The database answers the statements of a batch that was asked for.
FairBatchSpec ==
  /\ BatchSpec
  /\ \A b \in Batch : WF_bvars(DrawAndInsert(b) \/ Confirm(b))

-----------------------------------------------------------------------------

Answered(b) == job[b].pc = "done"

\* Every code a batch answers was inserted by it: a code that collided with an
\* older card or with a card of a batch issued at the same time is not sold a
\* second time (card.service.ts:206, "Confirm which of these codes actually
\* landed").
CodesOwned == \A b \in Batch : Answered(b) => Listed(b) \subseteq given[b]

\* Two batches answer the same code only if its card was deleted in between.
CodesExclusive ==
  \A b, d \in Batch :
    b # d /\ Answered(b) /\ Answered(d) => Listed(b) \cap Listed(d) \subseteq removed

\* The answer has no code twice, and as many as were asked for unless the
\* rounds ran out (card.service.ts:181, "tops up any collisions until the
\* requested count is inserted").
ExactCount ==
  \A b \in Batch : Answered(b) =>
    /\ \A c \in Code : created[b][c] <= 1
    /\ Length(created[b]) <= count[b]
    /\ Length(created[b]) < count[b] => job[b].rounds = Rounds

\* No card of a batch that was answered is missing from the answer: every row
\* a round inserted, and nobody deleted, is known to who asked for it.
NoOrphan ==
  \A b \in Batch : Answered(b) => given[b] \subseteq Listed(b) \cup removed

\* A batch is answered or fails, even when no code is left to draw.
BatchEnds == \A b \in Batch : Running(b) ~> ~Running(b)
=============================================================================
