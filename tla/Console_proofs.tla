---------------------------- MODULE Console_proofs ----------------------------
(***************************************************************************)
(* The card list of the demo build ends up showing the cards as they are,  *)
(* for any cards to start with, any filters, sorts and buttons, and any    *)
(* number of calls under way.                                              *)
(***************************************************************************)
EXTENDS Console, SequenceTheorems, FiniteSetTheorems, TLAPS

\* MockApi counts as Console does.
LEMMA MockCounts == \A S : Mock!Cardinality(S) = Cardinality(S)
BY DEF Mock!Cardinality, Cardinality

-----------------------------------------------------------------------------
(* The list of the mock and its pages.                                     *)

\* A page that is not beyond the last one begins with a card.
LEMMA PageStarts ==
  ASSUME NEW total \in Nat, NEW page \in Nat \ {0}, total > 0,
         page <= PageCount(total)
  PROVE  (page - 1) * PageSize + 1 <= total
<1> DEFINE count == PageCount(total)
<1>1. PageSize \in Nat /\ PageSize >= 1
  BY ConsoleAssumption
<1>2. count \in Int /\ count * PageSize <= total + PageSize - 1
  BY <1>1 DEF PageCount
<1> HIDE DEF count
<1>3. page \in Int /\ (count - page) * PageSize >= 0 /\ page <= count
  <2>1. count - page \in Nat
    BY <1>2 DEF count
  <2> QED
    BY <1>1, <2>1 DEF count
<1>4. (count - page) * PageSize = count * PageSize - page * PageSize
  BY <1>1, <1>2, <1>3
<1>5. (page - 1) * PageSize = page * PageSize - PageSize
  BY <1>1, <1>3
<1>6. count * PageSize \in Int /\ page * PageSize \in Int
  BY <1>1, <1>2, <1>3
<1> QED
  BY <1>1, <1>2, <1>3, <1>4, <1>5, <1>6

\* Cards make at least one page.
LEMMA PagesExist ==
  ASSUME NEW total \in Nat, total > 0
  PROVE  PageCount(total) \in Nat \ {0}
<1> DEFINE count == PageCount(total)
<1>1. PageSize \in Nat /\ PageSize >= 1
  BY ConsoleAssumption
<1>2. count \in Int /\ total + PageSize - 1 < (count + 1) * PageSize
  BY <1>1 DEF PageCount
<1> HIDE DEF count
<1>3. ASSUME count <= 0 PROVE FALSE
  <2>1. -count \in Nat
    BY <1>2, <1>3
  <2>2. (-count) * PageSize \in Nat
    BY <1>1, <2>1
  <2>3. (count + 1) * PageSize = PageSize - (-count) * PageSize
    BY <1>1, <1>2
  <2> QED
    BY <1>1, <1>2, <2>2, <2>3
<1> QED
  BY <1>2, <1>3 DEF count

Table == Seq(Mock!MockCard \cup {null})

Query ==
  [status    : Filters[TRUE] \cup Filters[FALSE],
   sortBy    : {"none"} \cup {sort[1] : sort \in Sorts[TRUE] \cup Sorts[FALSE]},
   sortOrder : {"none"} \cup {sort[2] : sort \in Sorts[TRUE] \cup Sorts[FALSE]},
   page      : Nat \ {0}]

\* The number of matches is one, and a page that exists is not empty.
LEMMA ListIs ==
  ASSUME NEW d \in Table, NEW q \in Query
  PROVE  LET list == Mock!listCards(d, q)
         IN  /\ list.total \in Nat
             /\ list.total > 0 /\ q.page <= PageCount(list.total) => list.items # <<>>
<1> DEFINE total == Cardinality(Mock!Matching(d, q))
           last == IF q.page * PageSize < total THEN q.page * PageSize ELSE total
           first == (q.page - 1) * PageSize + 1
           all == Mock!Sorted(d, q)
<1>1. /\ Mock!listCards(d, q).total = total
      /\ Mock!listCards(d, q).items = SubSeq(all, first, last)
  BY MockCounts DEF Mock!listCards
<1>2. total \in Nat
  <2>1. DOMAIN d = 1 .. Len(d) /\ Len(d) \in Nat
    BY LenProperties DEF Table
  <2>2. Mock!Matching(d, q) \in SUBSET (1 .. Len(d))
    BY <2>1 DEF Mock!Matching
  <2>3. IsFiniteSet(1 .. Len(d))
    BY <2>1, FS_Interval
  <2> QED
    BY <2>2, <2>3, FS_Subset, FS_CardinalityType
<1>3. ASSUME total > 0, q.page <= PageCount(total)
      PROVE  SubSeq(all, first, last) # <<>>
  <2>1. q.page \in Nat \ {0} /\ PageSize \in Nat \ {0}
    BY ConsoleAssumption DEF Query
  <2>2. first <= total
    BY <1>2, <1>3, <2>1, PageStarts
  <2> HIDE DEF total
  <2>3. /\ q.page * PageSize \in Int /\ (q.page - 1) * PageSize \in Int
        /\ (q.page - 1) * PageSize = q.page * PageSize - PageSize
    BY <2>1
  <2>4. first \in Int /\ last \in Int /\ first <= last
    BY <1>2, <2>1, <2>2, <2>3
  <2> DEFINE cards == {all[i] : i \in first .. last}
  <2> HIDE DEF first, last, all
  <2>5. \A i \in first .. last : all[i] \in cards
    OBVIOUS
  <2> HIDE DEF cards
  <2>6. /\ SubSeq(all, first, last) \in Seq(cards)
        /\ Len(SubSeq(all, first, last)) = last - first + 1
    BY <2>4, <2>5, SubSeqProperties
  <2> DEFINE items == SubSeq(all, first, last)
  <2>7. Len(items) # 0
    BY <2>4, <2>6
  <2> HIDE DEF items
  <2>8. items # <<>>
    BY <2>7, EmptySeq
  <2> QED
    BY <2>8 DEF items
<1> QED
  BY <1>1, <1>2, <1>3

-----------------------------------------------------------------------------
(* Types.                                                                  *)

Answers == {Mock!listCards(d, q) : d \in Table, q \in Query} \cup {NoData}

Pages == {list.items : list \in Answers}

Ids == UNION {Range(page) : page \in Pages}

Writes == {"act", "batch", "extend"}

Op == Writes \cup {"list", "login", "stats", "pubkey"}

CallSet ==
  [op : Op, data : Answers,
   live : BOOLEAN, auth : BOOLEAN]

Dialog == {"delete", "batch", "extend"}

UiSet ==
  [query : Query, asked : Query,
   rows : Pages, total : Nat,
   selected : SUBSET Ids, loading : BOOLEAN, dialogs : SUBSET Dialog,
   scope : {"ids", "filter"}, doomed : Ids \cup {0}]

TypeOK ==
  /\ demo \in BOOLEAN /\ token \in BOOLEAN /\ storage \in BOOLEAN
  /\ db \in Table
  /\ ui \in UiSet
  /\ calls \in Seq(CallSet)

LEMMA FirstType == FirstQuery \in Query
<1>1. "any" \in Filters[TRUE]
  BY ConsoleAssumption
<1>2. 1 \in Nat \ {0}
  OBVIOUS
<1> QED
  BY <1>1, <1>2 DEF FirstQuery, Query

LEMMA NoDataType == NoData \in Answers /\ NoData.items = <<>> /\ NoData.total = 0
BY DEF NoData, Answers

\* An answer counts its cards.
LEMMA AnswerCounts == \A list \in Answers : list.total \in Nat
<1> TAKE list \in Answers
<1>1. CASE list = NoData
  BY <1>1, NoDataType
<1>2. CASE \E d \in Table, q \in Query : list = Mock!listCards(d, q)
  BY <1>2, ListIs
<1> QED
  BY <1>1, <1>2 DEF Answers

LEMMA FreshType == FreshUi \in UiSet
<1>1. NoData.items = <<>> /\ NoData \in Answers
  BY NoDataType
<1>2. <<>> \in Pages
  BY <1>1 DEF Pages
<1>3. {} \in SUBSET Ids /\ {} \in SUBSET Dialog /\ 0 \in Nat /\ 0 \in Ids \cup {0}
  OBVIOUS
<1> QED
  BY <1>2, <1>3, FirstType DEF FreshUi, UiSet

\* What the functions of the mock make of its array.
LEMMA TableWrites ==
  ASSUME NEW d \in Table, NEW i
  PROVE  /\ Mock!ban(d, i) \in Table
         /\ Mock!unban(d, i) \in Table
         /\ Mock!unbind(d, i) \in Table
         /\ Mock!remove(d, i) \in Table
<1> DEFINE Slot == Mock!MockCard \cup {null}
<1>1. ASSUME NEW v, i \in DOMAIN d => v \in Slot
      PROVE  [d EXCEPT ![i] = v] \in Table
  <2>1. DOMAIN d = 1 .. Len(d) /\ Len(d) \in Nat /\ d \in [1 .. Len(d) -> Slot]
    BY LenProperties DEF Table
  <2> HIDE DEF Slot
  <2>2. [d EXCEPT ![i] = v] \in [1 .. Len(d) -> Slot]
    BY <1>1, <2>1
  <2> QED
    BY <2>1, <2>2, SeqDef DEF Table, Slot
<1>2. i \in DOMAIN d => d[i] \in Slot
  BY LenProperties, ElementOfSeq DEF Table
<1>3. Mock!remove(d, i) \in Table
  BY <1>1 DEF Mock!remove
<1>4. ASSUME d[i] # null
      PROVE  /\ i \in DOMAIN d => [d[i] EXCEPT !.status = "BANNED"] \in Slot
             /\ i \in DOMAIN d => [d[i] EXCEPT !.status = "ACTIVE"] \in Slot
             /\ i \in DOMAIN d => [d[i] EXCEPT !.status = "UNUSED"] \in Slot
             /\ i \in DOMAIN d => [d[i] EXCEPT !.bound = FALSE] \in Slot
  BY <1>2, <1>4 DEF Mock!MockCard
<1> HIDE DEF Slot
<1>5. Mock!ban(d, i) \in Table
  <2>1. CASE d[i] = null
    BY <2>1 DEF Mock!ban
  <2>2. CASE d[i] # null
    <3>1. [d EXCEPT ![i] = [d[i] EXCEPT !.status = "BANNED"]] \in Table
      BY <1>1, <1>4, <2>2
    <3> QED
      BY <2>2, <3>1 DEF Mock!ban
  <2> QED
    BY <2>1, <2>2
<1>6. Mock!unbind(d, i) \in Table
  <2>1. CASE d[i] = null
    BY <2>1 DEF Mock!unbind
  <2>2. CASE d[i] # null
    <3>1. [d EXCEPT ![i] = [d[i] EXCEPT !.bound = FALSE]] \in Table
      BY <1>1, <1>4, <2>2
    <3> QED
      BY <2>2, <3>1 DEF Mock!unbind
  <2> QED
    BY <2>1, <2>2
<1>7. Mock!unban(d, i) \in Table
  <2>1. CASE d[i] = null
    BY <2>1 DEF Mock!unban
  <2>2. CASE d[i] # null
    <3>1. /\ [d EXCEPT ![i] = [d[i] EXCEPT !.status = "ACTIVE"]] \in Table
          /\ [d EXCEPT ![i] = [d[i] EXCEPT !.status = "UNUSED"]] \in Table
      BY <1>1, <1>4, <2>2
    <3> QED
      BY <2>2, <3>1 DEF Mock!unban
  <2> QED
    BY <2>1, <2>2
<1> QED
  BY <1>3, <1>5, <1>6, <1>7

LEMMA TableExtends ==
  ASSUME NEW d \in Table, NEW targets
  PROVE  Mock!extendCards(d, targets) \in Table
<1> DEFINE Slot == Mock!MockCard \cup {null}
           Card(i) == IF i \in targets /\ Mock!Extendable(d[i])
                      THEN [d[i] EXCEPT !.days = @ + 1] ELSE d[i]
<1>1. DOMAIN d = 1 .. Len(d) /\ Len(d) \in Nat /\ \A i \in 1 .. Len(d) : d[i] \in Slot
  BY LenProperties, ElementOfSeq DEF Table
<1>2. ASSUME NEW i \in 1 .. Len(d) PROVE Card(i) \in Slot
  <2>1. d[i] \in Slot
    BY <1>1
  <2>2. ASSUME Mock!Extendable(d[i]) PROVE [d[i] EXCEPT !.days = @ + 1] \in Slot
    <3>1. d[i] \in Mock!MockCard /\ d[i].days \in Nat
      BY <2>1, <2>2 DEF Mock!Extendable, Mock!MockCard
    <3>2. d[i].days + 1 \in Nat
      BY <3>1
    <3> QED
      BY <3>1, <3>2 DEF Mock!MockCard
  <2> QED
    BY <2>1, <2>2
<1>3. Mock!extendCards(d, targets) = [i \in 1 .. Len(d) |-> Card(i)]
  BY <1>1 DEF Mock!extendCards
<1> HIDE DEF Card, Slot
<1>4. [i \in 1 .. Len(d) |-> Card(i)] \in [1 .. Len(d) -> Slot]
  BY <1>2
<1> QED
  BY <1>1, <1>3, <1>4, SeqDef DEF Table, Slot

LEMMA TableGrows ==
  ASSUME NEW d \in Table, NEW days \in Durations
  PROVE  Mock!createBatch(d, 1, days) \in Table
<1>1. Mock!makeCard(days) \in Mock!MockCard
  BY ConsoleAssumption DEF Mock!makeCard, Mock!MockCard
<1> DEFINE new == [k \in 1 .. 1 |-> Mock!makeCard(days)]
<1>2. new \in [1 .. 1 -> Mock!MockCard \cup {null}]
  BY <1>1
<1>3. new \in Table
  BY <1>2, SeqDef DEF Table
<1> HIDE DEF new
<1>4. d \o new \in Table
  BY <1>3, ConcatProperties DEF Table
<1> QED
  BY <1>4 DEF Mock!createBatch, new

-----------------------------------------------------------------------------
(* What the operators on the state of the list leave alone.                *)

\* Two states of the list with the same table, of the same page of the same load.
Alike(u, v) ==
  /\ v \in UiSet
  /\ v.query.page = u.query.page
  /\ v.asked = u.asked /\ v.rows = u.rows /\ v.total = u.total

LEMMA LoadingIs ==
  ASSUME NEW u \in UiSet, NEW q \in Query
  PROVE  /\ Loading(u, q) \in UiSet
         /\ Loading(u, q).query = q /\ Loading(u, q).asked = q
         /\ Loading(u, q).rows = u.rows /\ Loading(u, q).total = u.total
BY DEF Loading, UiSet

LEMMA QueryType == \A u \in UiSet : u.query \in Query /\ u.query.page \in Nat \ {0}
BY DEF UiSet, Query

LEMMA ClosedIs ==
  ASSUME NEW u \in UiSet, NEW dialog
  PROVE  /\ Alike(u, Closed(u, dialog))
         /\ Closed(u, dialog).query = u.query
<1> DEFINE left == u.dialogs \ {dialog}
           doomed == IF "delete" \in left THEN u.doomed ELSE 0
           scope == IF "extend" \in left THEN u.scope ELSE "ids"
           v == [u EXCEPT !.dialogs = left, !.doomed = doomed, !.scope = scope]
<1>1. Closed(u, dialog) = v
  BY DEF Closed
<1>2. left \in SUBSET Dialog /\ doomed \in Ids \cup {0} /\ scope \in {"ids", "filter"}
  BY DEF UiSet
<1> HIDE DEF left, doomed, scope
<1>3. v \in UiSet /\ v.query = u.query /\ v.asked = u.asked /\ v.rows = u.rows
      /\ v.total = u.total
  BY <1>2 DEF UiSet
<1> HIDE DEF v
<1> QED
  BY <1>1, <1>3 DEF Alike

\* What the operator does to the list without a call.
LEMMA LocalEdits ==
  ASSUME NEW u \in UiSet
  PROVE  /\ \A s \in Filters[TRUE] \cup Filters[FALSE] : Alike(u, [u EXCEPT !.query.status = s])
         /\ \A id \in Ids : Alike(u, [u EXCEPT !.dialogs = {"delete"}, !.doomed = id])
         /\ Alike(u, [u EXCEPT !.dialogs = {"batch"}])
         /\ \A ids \in SUBSET Ids : Alike(u, [u EXCEPT !.selected = ids])
         /\ \A sc \in {"ids", "filter"} :
              /\ Alike(u, [u EXCEPT !.scope = sc])
              /\ Alike(u, [u EXCEPT !.dialogs = {"extend"}, !.scope = sc])
         /\ Alike(u, [u EXCEPT !.loading = FALSE])
<1>1. ASSUME NEW s \in Filters[TRUE] \cup Filters[FALSE]
      PROVE  Alike(u, [u EXCEPT !.query.status = s])
  <2> DEFINE q == [u.query EXCEPT !.status = s]
  <2>1. u.query \in Query
    BY QueryType
  <2>2. q \in Query /\ q.page = u.query.page
    BY <2>1 DEF Query
  <2>3. [u EXCEPT !.query.status = s] = [u EXCEPT !.query = q]
    BY DEF UiSet
  <2> HIDE DEF q
  <2>4. Alike(u, [u EXCEPT !.query = q])
    BY <2>2 DEF Alike, UiSet
  <2> QED
    BY <2>3, <2>4
<1>2. \A id \in Ids : Alike(u, [u EXCEPT !.dialogs = {"delete"}, !.doomed = id])
  BY DEF Alike, UiSet, Dialog
<1>3. Alike(u, [u EXCEPT !.dialogs = {"batch"}])
  BY DEF Alike, UiSet, Dialog
<1>4. \A ids \in SUBSET Ids : Alike(u, [u EXCEPT !.selected = ids])
  BY DEF Alike, UiSet
<1>5. \A sc \in {"ids", "filter"} :
        /\ Alike(u, [u EXCEPT !.scope = sc])
        /\ Alike(u, [u EXCEPT !.dialogs = {"extend"}, !.scope = sc])
  BY DEF Alike, UiSet, Dialog
<1>6. Alike(u, [u EXCEPT !.loading = FALSE])
  BY DEF Alike, UiSet
<1> QED
  BY <1>1, <1>2, <1>3, <1>4, <1>5, <1>6

-----------------------------------------------------------------------------
(* The calls under way.                                                    *)

Writing(c) == c.live /\ c.op \in Writes

Listing(c) == c.live /\ c.op = "list"

\* The table is what the last load asks for.
Shows(d, u) ==
  LET list == Mock!listCards(d, u.asked)
  IN  /\ u.rows = list.items /\ u.total = list.total
      /\ u.total > 0 => u.rows # <<>>

\* Unless a write of this view is still to be answered, and then a load follows,
\* the last load under way, or the table when there is none, has the cards
\* as they are.
Current(s, d, u) ==
  (\A i \in 1 .. Len(s) : ~Writing(s[i])) =>
    /\ \A i \in 1 .. Len(s) :
         Listing(s[i]) /\ (\A j \in 1 .. Len(s) : j > i => ~Listing(s[j])) =>
           s[i].data = Mock!listCards(d, u.asked)
    /\ (\A i \in 1 .. Len(s) : ~Listing(s[i])) => Shows(d, u)

\* The calls that are left when one is answered.
LEMMA RestIs ==
  ASSUME NEW S, NEW s \in Seq(S), NEW i \in 1 .. Len(s)
  PROVE  /\ RemoveAt(s, i) \in Seq(S)
         /\ i = 1 => /\ Len(RemoveAt(s, i)) = Len(s) - 1
                     /\ \A j \in 1 .. Len(s) - 1 : RemoveAt(s, i)[j] = s[j + 1]
<1> DEFINE front == SubSeq(s, 1, i - 1)
           back == SubSeq(s, i + 1, Len(s))
<1>1. Len(s) \in Nat /\ i \in Int /\ 1 <= i /\ i <= Len(s)
  BY LenProperties
<1>2. \A k \in 1 .. Len(s) : s[k] \in S
  BY ElementOfSeq
<1>3. front \in Seq(S) /\ Len(front) = i - 1
  BY <1>1, <1>2, SubSeqProperties
<1>4. /\ back \in Seq(S) /\ Len(back) = Len(s) - i
      /\ \A k \in 1 .. Len(s) - i : back[k] = s[i + k]
  <2>1. \A k \in i + 1 .. Len(s) : s[k] \in S
    BY <1>1, <1>2
  <2>2. i + 1 \in Int /\ Len(s) \in Int /\ Len(s) - (i + 1) + 1 = Len(s) - i
    BY <1>1
  <2>3. /\ back \in Seq(S)
        /\ Len(back) = IF i + 1 <= Len(s) THEN Len(s) - (i + 1) + 1 ELSE 0
        /\ \A k \in 1 .. Len(s) - (i + 1) + 1 : back[k] = s[i + 1 + k - 1]
    BY <2>1, <2>2, SubSeqProperties
  <2> HIDE DEF back
  <2>4. \A k \in 1 .. Len(s) - i : back[k] = s[i + k]
    <3> TAKE k \in 1 .. Len(s) - i
    <3>1. k \in 1 .. Len(s) - (i + 1) + 1 /\ i + 1 + k - 1 = i + k
      BY <1>1
    <3> QED
      BY <2>3, <3>1
  <2> QED
    BY <1>1, <2>3, <2>4
<1>5. RemoveAt(s, i) = front \o back
  BY DEF RemoveAt
<1> HIDE DEF front, back
<1>6. /\ front \o back \in Seq(S)
      /\ Len(front \o back) = Len(front) + Len(back)
      /\ \A k \in 1 .. Len(front) + Len(back) : (front \o back)[k] =
           IF k <= Len(front) THEN front[k] ELSE back[k - Len(front)]
  BY <1>3, <1>4, ConcatProperties
<1>7. ASSUME i = 1, NEW j \in 1 .. Len(s) - 1
      PROVE  (front \o back)[j] = s[j + 1]
  <2>1. Len(front) = 0 /\ Len(back) = Len(s) - 1 /\ ~(j <= 0) /\ j - 0 = j
    BY <1>1, <1>3, <1>4, <1>7
  <2>2. (front \o back)[j] = back[j]
    BY <1>6, <2>1
  <2>3. back[j] = s[1 + j] /\ 1 + j = j + 1
    BY <1>4, <1>7
  <2> QED
    BY <2>2, <2>3
<1>8. i = 1 => Len(front \o back) = Len(s) - 1
  <2> HAVE i = 1
  <2> QED
    BY <1>1, <1>3, <1>4, <1>6
<1> QED
  BY <1>5, <1>6, <1>7, <1>8

\* A call that is added.
LEMMA AppendIs ==
  ASSUME NEW S, NEW s \in Seq(S), NEW c \in S
  PROVE  /\ Append(s, c) \in Seq(S) /\ Len(s) \in Nat
         /\ Len(Append(s, c)) = Len(s) + 1
         /\ Append(s, c)[Len(s) + 1] = c
         /\ \A i \in 1 .. Len(s) : Append(s, c)[i] = s[i]
BY LenProperties

LEMMA AppendList ==
  ASSUME NEW s \in Seq(CallSet), NEW c \in CallSet, NEW d, NEW u,
         Listing(c), c.data = Mock!listCards(d, u.asked)
  PROVE  Current(Append(s, c), d, u)
<1> DEFINE t == Append(s, c)
<1>1. Len(s) \in Nat /\ Len(t) = Len(s) + 1 /\ t[Len(t)] = c
  BY AppendIs
<1> HIDE DEF t
<1>2. Len(t) \in 1 .. Len(t) /\ \A i \in 1 .. Len(t) : i = Len(t) \/ Len(t) > i
  BY <1>1
<1> QED
  BY <1>1, <1>2 DEF Current, t

LEMMA AppendWrite ==
  ASSUME NEW s \in Seq(CallSet), NEW c \in CallSet, NEW d, NEW u, Writing(c)
  PROVE  Current(Append(s, c), d, u)
<1>1. Len(s) + 1 \in 1 .. Len(Append(s, c)) /\ Append(s, c)[Len(s) + 1] = c
  BY AppendIs
<1> QED
  BY <1>1 DEF Current

LEMMA AppendOther ==
  ASSUME NEW s \in Seq(CallSet), NEW c \in CallSet, NEW d, NEW u,
         ~Writing(c), ~Listing(c), Current(s, d, u)
  PROVE  Current(Append(s, c), d, u)
<1> DEFINE t == Append(s, c)  n == Len(s)
<1>1. n \in Nat /\ Len(t) = n + 1 /\ t[n + 1] = c /\ \A i \in 1 .. n : t[i] = s[i]
  BY AppendIs
<1>2. ~Writing(c) /\ ~Listing(c)
  OBVIOUS
<1> HIDE DEF t, n
<1>3. \A i \in 1 .. n + 1 : i \in 1 .. n \/ i = n + 1
  BY <1>1
<1>4. \A i \in 1 .. n : i \in 1 .. n + 1
  BY <1>1
<1>5. Current(s, d, u) <=>
        ((\A i \in 1 .. n : ~Writing(s[i])) =>
          /\ \A i \in 1 .. n :
               Listing(s[i]) /\ (\A j \in 1 .. n : j > i => ~Listing(s[j])) =>
                 s[i].data = Mock!listCards(d, u.asked)
          /\ (\A i \in 1 .. n : ~Listing(s[i])) => Shows(d, u))
  BY DEF Current, n
<1>6. SUFFICES ASSUME \A i \in 1 .. n + 1 : ~Writing(t[i])
      PROVE  /\ \A i \in 1 .. n + 1 :
                  Listing(t[i]) /\ (\A j \in 1 .. n + 1 : j > i => ~Listing(t[j])) =>
                    t[i].data = Mock!listCards(d, u.asked)
             /\ (\A i \in 1 .. n + 1 : ~Listing(t[i])) => Shows(d, u)
  BY <1>1 DEF Current, t
<1>7. \A i \in 1 .. n : ~Writing(s[i])
  BY <1>1, <1>4, <1>6
<1>8. ASSUME NEW i \in 1 .. n + 1, Listing(t[i]),
             \A j \in 1 .. n + 1 : j > i => ~Listing(t[j])
      PROVE  t[i].data = Mock!listCards(d, u.asked)
  <2>1. i \in 1 .. n /\ t[i] = s[i]
    BY <1>1, <1>2, <1>3, <1>8
  <2>2. \A j \in 1 .. n : j > i => ~Listing(s[j])
    BY <1>1, <1>4, <1>8
  <2> QED
    BY <1>5, <1>7, <1>8, <2>1, <2>2
<1>9. ASSUME \A i \in 1 .. n + 1 : ~Listing(t[i]) PROVE Shows(d, u)
  <2>1. \A i \in 1 .. n : ~Listing(s[i])
    BY <1>1, <1>4, <1>9
  <2> QED
    BY <1>5, <1>7, <2>1
<1> QED
  BY <1>8, <1>9

\* After the first answer each call stands one place further to the front.
LEMMA RestShifts ==
  ASSUME NEW S, NEW s \in Seq(S), 1 \in 1 .. Len(s)
  PROVE  LET t == RemoveAt(s, 1)
         IN  /\ \A i \in 1 .. Len(t) : i + 1 \in 1 .. Len(s) /\ t[i] = s[i + 1]
             /\ \A k \in 1 .. Len(s) : k # 1 => k - 1 \in 1 .. Len(t) /\ s[k] = t[k - 1]
<1> DEFINE t == RemoveAt(s, 1)  n == Len(t)
<1>1. Len(s) \in Nat /\ Len(s) >= 1
  BY LenProperties
<1>2. n = Len(s) - 1 /\ \A i \in 1 .. Len(s) - 1 : t[i] = s[i + 1]
  BY RestIs
<1> HIDE DEF n, t
<1>3. \A i \in 1 .. n : i + 1 \in 1 .. Len(s) /\ t[i] = s[i + 1]
  BY <1>1, <1>2
<1>4. ASSUME NEW k \in 1 .. Len(s), k # 1 PROVE k - 1 \in 1 .. n /\ s[k] = t[k - 1]
  <2>1. k - 1 \in 1 .. n /\ (k - 1) + 1 = k
    BY <1>1, <1>2, <1>4
  <2> QED
    BY <1>3, <2>1
<1> QED
  BY <1>3, <1>4 DEF n, t

\* The first answer, of a call that neither wrote nor asked for the list.
LEMMA RestOther ==
  ASSUME NEW s \in Seq(CallSet), 1 \in 1 .. Len(s), NEW d, NEW u,
         ~Writing(s[1]), ~Listing(s[1]), Current(s, d, u)
  PROVE  Current(RemoveAt(s, 1), d, u)
<1> DEFINE t == RemoveAt(s, 1)  n == Len(t)
<1>2. \A i \in 1 .. n : i + 1 \in 1 .. Len(s) /\ t[i] = s[i + 1]
  BY RestShifts
<1>3. \A k \in 1 .. Len(s) : k # 1 => k - 1 \in 1 .. n /\ s[k] = t[k - 1]
  BY RestShifts
<1> HIDE DEF t, n
<1>4. SUFFICES ASSUME \A i \in 1 .. n : ~Writing(t[i])
      PROVE  /\ \A i \in 1 .. n :
                  Listing(t[i]) /\ (\A j \in 1 .. n : j > i => ~Listing(t[j])) =>
                    t[i].data = Mock!listCards(d, u.asked)
             /\ (\A i \in 1 .. n : ~Listing(t[i])) => Shows(d, u)
  BY DEF Current, t, n
<1>5. \A k \in 1 .. Len(s) : ~Writing(s[k])
  BY <1>3, <1>4
<1>6. /\ \A i \in 1 .. Len(s) :
           Listing(s[i]) /\ (\A j \in 1 .. Len(s) : j > i => ~Listing(s[j])) =>
             s[i].data = Mock!listCards(d, u.asked)
      /\ (\A i \in 1 .. Len(s) : ~Listing(s[i])) => Shows(d, u)
  BY <1>5 DEF Current
<1>7. ASSUME NEW i \in 1 .. n, Listing(t[i]),
             \A j \in 1 .. n : j > i => ~Listing(t[j])
      PROVE  t[i].data = Mock!listCards(d, u.asked)
  <2>1. i + 1 \in 1 .. Len(s) /\ t[i] = s[i + 1]
    BY <1>2
  <2>2. ASSUME NEW j \in 1 .. Len(s), j > i + 1 PROVE ~Listing(s[j])
    <3>1. j # 1 /\ j - 1 > i
      BY <2>2
    <3> QED
      BY <1>3, <1>7, <3>1
  <2> QED
    BY <1>6, <1>7, <2>1, <2>2
<1>8. ASSUME \A i \in 1 .. n : ~Listing(t[i]) PROVE Shows(d, u)
  <2>1. \A k \in 1 .. Len(s) : ~Listing(s[k])
    BY <1>3, <1>8
  <2> QED
    BY <1>6, <2>1
<1> QED
  BY <1>7, <1>8

\* The first answer brings the list.
LEMMA RestListed ==
  ASSUME NEW s \in Seq(CallSet), 1 \in 1 .. Len(s), NEW d, NEW u, NEW v,
         Listing(s[1]), Current(s, d, u), v.asked = u.asked,
         v.rows = s[1].data.items, v.total = s[1].data.total,
         s[1].data = Mock!listCards(d, u.asked) => (v.total > 0 => v.rows # <<>>)
  PROVE  Current(RemoveAt(s, 1), d, v)
<1> DEFINE t == RemoveAt(s, 1)  n == Len(t)
<1>2. \A i \in 1 .. n : i + 1 \in 1 .. Len(s) /\ t[i] = s[i + 1]
  BY RestShifts
<1>3. \A k \in 1 .. Len(s) : k # 1 => k - 1 \in 1 .. n /\ s[k] = t[k - 1]
  BY RestShifts
<1> HIDE DEF t, n
<1>4. SUFFICES ASSUME \A i \in 1 .. n : ~Writing(t[i])
      PROVE  /\ \A i \in 1 .. n :
                  Listing(t[i]) /\ (\A j \in 1 .. n : j > i => ~Listing(t[j])) =>
                    t[i].data = Mock!listCards(d, v.asked)
             /\ (\A i \in 1 .. n : ~Listing(t[i])) => Shows(d, v)
  BY DEF Current, t, n
<1>5. \A k \in 1 .. Len(s) : ~Writing(s[k])
  <2>1. ~Writing(s[1])
    BY DEF Writing, Listing, Writes
  <2> QED
    BY <1>3, <1>4, <2>1
<1>6. \A i \in 1 .. Len(s) :
        Listing(s[i]) /\ (\A j \in 1 .. Len(s) : j > i => ~Listing(s[j])) =>
          s[i].data = Mock!listCards(d, u.asked)
  BY <1>5 DEF Current
<1>7. ASSUME NEW i \in 1 .. n, Listing(t[i]),
             \A j \in 1 .. n : j > i => ~Listing(t[j])
      PROVE  t[i].data = Mock!listCards(d, v.asked)
  <2>1. i + 1 \in 1 .. Len(s) /\ t[i] = s[i + 1]
    BY <1>2
  <2>2. ASSUME NEW j \in 1 .. Len(s), j > i + 1 PROVE ~Listing(s[j])
    <3>1. j # 1 /\ j - 1 > i
      BY <2>2
    <3> QED
      BY <1>3, <1>7, <3>1
  <2> QED
    BY <1>6, <1>7, <2>1, <2>2
<1>8. ASSUME \A i \in 1 .. n : ~Listing(t[i]) PROVE Shows(d, v)
  <2>1. \A k \in 1 .. Len(s) : k > 1 => ~Listing(s[k])
    BY <1>3, <1>8
  <2>2. s[1].data = Mock!listCards(d, u.asked)
    BY <1>6, <2>1
  <2> QED
    BY <2>2 DEF Shows
<1> QED
  BY <1>7, <1>8

\* A table that was not touched is as current as it was.
LEMMA AlikeCurrent ==
  ASSUME NEW s, NEW d, NEW u, NEW v, Alike(u, v), Current(s, d, u)
  PROVE  Current(s, d, v)
BY DEF Alike, Current, Shows

-----------------------------------------------------------------------------
(* The invariant.                                                          *)

\* The page asked for is the page in the form.
Paged == ui.query.page = ui.asked.page

Fresh == demo /\ view = "cards" => Current(calls, db, ui)

ConsoleInv == TypeOK /\ Paged /\ Fresh

LEMMA CallIs ==
  ASSUME TypeOK, NEW op \in Op, NEW data \in Answers
  PROVE  /\ Call(op, data) \in CallSet
         /\ Call(op, data).op = op /\ Call(op, data).data = data
         /\ op # "login" => Call(op, data).live
<1> DEFINE live == op # "login"  auth == ~demo /\ storage
<1>1. live \in BOOLEAN /\ auth \in BOOLEAN
  OBVIOUS
<1>2. Call(op, data) = [op |-> op, data |-> data, live |-> live, auth |-> auth]
  BY DEF Call
<1>3. op # "login" => live
  OBVIOUS
<1> HIDE DEF live, auth
<1>4. Call(op, data) \in CallSet
  BY <1>1, <1>2 DEF CallSet, Op
<1> QED
  BY <1>2, <1>3, <1>4

\* The call of a view that is gone.
LEMMA SilentIs ==
  ASSUME NEW c \in CallSet, NEW live \in BOOLEAN
  PROVE  /\ [c EXCEPT !.live = live] \in CallSet
         /\ [c EXCEPT !.live = live].live = live
         /\ [c EXCEPT !.live = live].op = c.op
BY DEF CallSet

LEMMA ListCallIs ==
  ASSUME TypeOK, NEW q \in Query
  PROVE  /\ ListCall(q) \in CallSet /\ Listing(ListCall(q))
         /\ ListCall(q).data = Mock!listCards(db, q)
<1>1. Mock!listCards(db, q) \in Answers
  BY DEF TypeOK, Answers
<1> DEFINE data == Mock!listCards(db, q)
<1> HIDE DEF data
<1>2. data \in Answers /\ ListCall(q) = Call("list", data)
  BY <1>1 DEF ListCall, data
<1>3. "list" \in Op /\ "list" # "login"
  BY DEF Op
<1>4. /\ Call("list", data) \in CallSet
      /\ Call("list", data).op = "list" /\ Call("list", data).data = data
      /\ Call("list", data).live
  BY <1>2, <1>3, CallIs
<1> QED
  BY <1>2, <1>4 DEF Listing, data

LEMMA InitInv == InitConsole => ConsoleInv
<1> SUFFICES ASSUME InitConsole PROVE ConsoleInv
  OBVIOUS
<1>1. db \in Table
  <2>1. Mock!MockCard \subseteq Mock!MockCard \cup {null}
    OBVIOUS
  <2> QED
    BY <2>1, SeqMonotonic, ConsoleAssumption DEF InitConsole, Table
<1>2. ui \in UiSet /\ Paged
  BY FreshType DEF InitConsole, FreshUi, Paged
<1>3. calls \in Seq(CallSet)
  BY EmptySeq DEF InitConsole
<1>4. demo \in BOOLEAN /\ token \in BOOLEAN /\ storage \in BOOLEAN /\ view = "none"
  BY DEF InitConsole
<1> QED
  BY <1>1, <1>2, <1>3, <1>4 DEF ConsoleInv, TypeOK, Fresh

\* A load by a click.
LEMMA LoadInv ==
  ASSUME ConsoleInv, NEW q \in Query, load(q)
  PROVE  ConsoleInv'
<1>1. TypeOK /\ ui \in UiSet /\ calls \in Seq(CallSet)
  BY DEF ConsoleInv, TypeOK
<1>2. /\ ui' = Loading(ui, q) /\ calls' = Append(calls, ListCall(q))
      /\ UNCHANGED <<demo, token, storage, view, db>>
  BY DEF load, sessionVars, pageVars
<1>3. /\ ui' \in UiSet /\ ui'.query = q /\ ui'.asked = q
  BY <1>1, <1>2, LoadingIs
<1>4. /\ ListCall(q) \in CallSet /\ Listing(ListCall(q))
      /\ ListCall(q).data = Mock!listCards(db, ui'.asked)
  BY <1>1, <1>3, ListCallIs
<1>5. calls' \in Seq(CallSet) /\ Current(calls', db, ui')
  BY <1>1, <1>2, <1>4, AppendList, AppendIs
<1> QED
  BY <1>1, <1>2, <1>3, <1>5 DEF ConsoleInv, TypeOK, Paged, Fresh

\* What touches nothing that was loaded.
LEMMA AlikeInv ==
  ASSUME ConsoleInv, Alike(ui, ui'),
         UNCHANGED <<demo, token, storage, view, db, calls>>
  PROVE  ConsoleInv'
<1>1. Fresh'
  BY AlikeCurrent DEF ConsoleInv, Fresh
<1>2. TypeOK' /\ Paged'
  BY DEF ConsoleInv, TypeOK, Paged, Alike
<1> QED
  BY <1>1, <1>2 DEF ConsoleInv

LEMMA LocalInv ==
  ASSUME ConsoleInv, NEW state, Alike(ui, state), Locally(state)
  PROVE  ConsoleInv'
BY AlikeInv DEF Locally, sessionVars, pageVars

\* A write of the view: a load will follow its answer.
LEMMA WriteInv ==
  ASSUME ConsoleInv, NEW op \in Writes, NEW table \in Table, write(op, table),
         Alike(ui, ui')
  PROVE  ConsoleInv'
<1> DEFINE c == Call(op, NoData)
<1>1. /\ db' \in Table /\ calls' = Append(calls, c)
      /\ UNCHANGED <<demo, token, storage, view>>
  BY DEF write, sessionVars, pageVars, ConsoleInv, TypeOK
<1>2. c \in CallSet /\ Writing(c)
  <2>1. op \in Op /\ op # "login"
    BY DEF Op, Writes
  <2>2. c \in CallSet /\ c.op = op /\ c.live
    BY <2>1, CallIs, NoDataType DEF ConsoleInv
  <2> QED
    BY <2>2 DEF Writing
<1> HIDE DEF c
<1>3. calls \in Seq(CallSet)
  BY DEF ConsoleInv, TypeOK
<1>4. calls' \in Seq(CallSet) /\ Current(calls', db', ui')
  BY <1>1, <1>2, <1>3, AppendWrite, AppendIs
<1> QED
  BY <1>1, <1>4 DEF ConsoleInv, TypeOK, Paged, Fresh, Alike

LEMMA SameUi == ASSUME ConsoleInv, UNCHANGED ui PROVE Alike(ui, ui')
BY DEF ConsoleInv, TypeOK, Alike

LEMMA ShownIds == ASSUME ConsoleInv PROVE Shown \subseteq Ids
<1>1. ui.rows \in Pages
  BY DEF ConsoleInv, TypeOK, UiSet
<1> QED
  BY <1>1 DEF Shown, Ids

\* The values of the running build are among those of both.
LEMMA BuildValues ==
  ASSUME demo \in BOOLEAN
  PROVE  /\ Filters[demo] \subseteq Filters[TRUE] \cup Filters[FALSE]
         /\ Sorts[demo] \subseteq Sorts[TRUE] \cup Sorts[FALSE]
<1>1. demo = TRUE \/ demo = FALSE
  OBVIOUS
<1>2. CASE demo = TRUE
  BY <1>2
<1>3. CASE demo = FALSE
  BY <1>3
<1> QED
  BY <1>1, <1>2, <1>3

LEMMA PageQuery ==
  ASSUME ConsoleInv, NEW page \in Nat \ {0}
  PROVE  [ui.query EXCEPT !.page = page] \in Query
<1>1. ui.query \in Query
  BY QueryType DEF ConsoleInv, TypeOK
<1> QED
  BY <1>1 DEF Query

LEMMA SortQuery ==
  ASSUME ConsoleInv, NEW sort \in Sorts[demo]
  PROVE  [ui.query EXCEPT !.sortBy = sort[1], !.sortOrder = sort[2], !.page = 1] \in Query
<1>1. ui.query \in Query
  BY QueryType DEF ConsoleInv, TypeOK
<1>2. sort \in Sorts[TRUE] \cup Sorts[FALSE]
  BY BuildValues DEF ConsoleInv, TypeOK
<1> DEFINE by == {"none"} \cup {each[1] : each \in Sorts[TRUE] \cup Sorts[FALSE]}
           order == {"none"} \cup {each[2] : each \in Sorts[TRUE] \cup Sorts[FALSE]}
           s1 == sort[1]  s2 == sort[2]
<1>3. s1 \in by /\ s2 \in order /\ 1 \in Nat \ {0}
  <2>1. s1 \in by /\ s2 \in order
    BY <1>2, Zenon
  <2> HIDE DEF by, order, s1, s2
  <2> QED
    BY <2>1
<1>4. Query = [status : Filters[TRUE] \cup Filters[FALSE], sortBy : by,
               sortOrder : order, page : Nat \ {0}]
  BY DEF Query
<1> HIDE DEF by, order, s1, s2
<1>5. [ui.query EXCEPT !.sortBy = s1, !.sortOrder = s2, !.page = 1] \in Query
  BY <1>1, <1>3, <1>4
<1> QED
  BY <1>5 DEF s1, s2

\* The card list as the operator uses it.
LEMMA UseInv ==
  ASSUME ConsoleInv, UseCards
  PROVE  ConsoleInv'
<1>0. /\ TypeOK /\ ui \in UiSet /\ db \in Table /\ demo \in BOOLEAN
      /\ ui.query \in Query
  BY QueryType DEF ConsoleInv, TypeOK
<1>1. ASSUME NEW s \in Filters[demo], EditFilter(s) PROVE ConsoleInv'
  <2>1. s \in Filters[TRUE] \cup Filters[FALSE]
    BY <1>0, BuildValues
  <2> QED
    BY <1>0, <1>1, <2>1, LocalEdits, LocalInv DEF EditFilter
<1>2. ASSUME search PROVE ConsoleInv'
  <2>1. [ui.query EXCEPT !.page = 1] \in Query
    BY PageQuery
  <2> QED
    BY <1>2, <2>1, LoadInv DEF search
<1>3. ASSUME NEW sort \in Sorts[demo], onSortChange(sort[1], sort[2]) PROVE ConsoleInv'
  <2>1. [ui.query EXCEPT !.sortBy = sort[1], !.sortOrder = sort[2], !.page = 1] \in Query
    BY SortQuery
  <2> QED
    BY <1>3, <2>1, LoadInv DEF onSortChange
<1>4. ASSUME NEW p \in 1 .. PageCount(ui.total) \ {ui.query.page}, ChangePage(p)
      PROVE  ConsoleInv'
  <2>1. p \in Nat \ {0}
    BY <1>4
  <2>2. [ui.query EXCEPT !.page = p] \in Query
    BY <2>1, PageQuery
  <2> QED
    BY <1>4, <2>2, LoadInv DEF ChangePage
<1>5. ASSUME NEW id \in Shown, AskDelete(id) PROVE ConsoleInv'
  <2>1. id \in Ids
    BY ShownIds
  <2> QED
    BY <1>0, <1>5, <2>1, LocalEdits, LocalInv DEF AskDelete
<1>6. ASSUME NEW id \in Shown, NEW button \in Buttons[demo], act(id, button)
      PROVE  ConsoleInv'
  <2>1. PICK table \in Table : write("act", table)
    BY <1>0, <1>6, TableWrites DEF act
  <2>2. Alike(ui, ui')
    BY <1>6, SameUi DEF act
  <2> QED
    BY <2>1, <2>2, WriteInv DEF Writes
<1>7. ASSUME confirmDelete PROVE ConsoleInv'
  <2>1. write("act", Mock!remove(db, ui.doomed)) /\ Mock!remove(db, ui.doomed) \in Table
    BY <1>0, <1>7, TableWrites DEF confirmDelete
  <2>2. Alike(ui, ui')
    BY <1>0, <1>7, ClosedIs DEF confirmDelete
  <2> QED
    BY <2>1, <2>2, WriteInv DEF Writes
<1>8. ASSUME OpenBatch PROVE ConsoleInv'
  BY <1>0, <1>8, LocalEdits, LocalInv DEF OpenBatch
<1>9. ASSUME NEW days \in Durations, createBatch(days) PROVE ConsoleInv'
  <2>1. write("batch", Mock!createBatch(db, 1, days)) /\ Mock!createBatch(db, 1, days) \in Table
    BY <1>0, <1>9, TableGrows DEF createBatch
  <2>2. Alike(ui, ui')
    BY <1>9, SameUi DEF createBatch
  <2> QED
    BY <2>1, <2>2, WriteInv DEF Writes
<1>10. ASSUME NEW ids \in SUBSET Shown, onSelectionChange(ids) PROVE ConsoleInv'
  <2>1. ids \in SUBSET Ids
    BY ShownIds
  <2> QED
    BY <1>0, <1>10, <2>1, LocalEdits, LocalInv DEF onSelectionChange
<1>11. ASSUME openExtend PROVE ConsoleInv'
  <2> DEFINE scope == IF ui.selected # {} THEN "ids" ELSE "filter"
  <2>1. scope \in {"ids", "filter"}
    OBVIOUS
  <2>2. Locally([ui EXCEPT !.dialogs = {"extend"}, !.scope = scope])
    BY <1>11 DEF openExtend
  <2> HIDE DEF scope
  <2> QED
    BY <1>0, <2>1, <2>2, LocalEdits, LocalInv
<1>12. ASSUME NEW scope \in {"ids", "filter"}, ChooseScope(scope) PROVE ConsoleInv'
  BY <1>0, <1>12, LocalEdits, LocalInv DEF ChooseScope
<1>13. ASSUME submitExtend PROVE ConsoleInv'
  <2>1. /\ write("extend", Mock!extendCards(db, Targets))
        /\ Mock!extendCards(db, Targets) \in Table
    BY <1>0, <1>13, TableExtends DEF submitExtend
  <2>2. Alike(ui, ui')
    BY <1>13, SameUi DEF submitExtend
  <2> QED
    BY <2>1, <2>2, WriteInv DEF Writes
<1>14. ASSUME NEW dialog \in ui.dialogs, CloseDialog(dialog) PROVE ConsoleInv'
  BY <1>0, <1>14, ClosedIs, LocalInv DEF CloseDialog
<1> QED
  BY <1>1, <1>2, <1>3, <1>4, <1>5, <1>6, <1>7, <1>8, <1>9, <1>10, <1>11, <1>12,
     <1>13, <1>14 DEF UseCards

-----------------------------------------------------------------------------
(* Session and navigation.                                                 *)

\* Another view than the list, or none: nothing is promised.
LEMMA ElsewhereInv ==
  ASSUME ConsoleInv, view' # "cards", UNCHANGED demo, ui' \in UiSet, Paged',
         token' \in BOOLEAN, storage' \in BOOLEAN, db' \in Table,
         calls' \in Seq(CallSet)
  PROVE  ConsoleInv'
BY DEF ConsoleInv, TypeOK, Fresh

LEMMA SubmitInv == ASSUME ConsoleInv, Submit PROVE ConsoleInv'
<1>1. /\ calls' = Append(calls, Call("login", NoData)) /\ view' # "cards"
      /\ UNCHANGED <<demo, token, storage, db, ui>>
  BY DEF Submit, sessionVars, pageVars
<1>2. "login" \in Op
  BY DEF Op
<1>3. Call("login", NoData) \in CallSet
  BY <1>2, CallIs, NoDataType DEF ConsoleInv
<1>4. calls' \in Seq(CallSet)
  BY <1>1, <1>3, AppendIs DEF ConsoleInv, TypeOK
<1> QED
  BY <1>1, <1>4, ElsewhereInv DEF ConsoleInv, TypeOK, Paged

\* The session changes; the view and its list stay for now.
LEMMA SessionInv ==
  ASSUME ConsoleInv, UNCHANGED <<demo, view, db, ui, calls>>,
         token' \in BOOLEAN, storage' \in BOOLEAN
  PROVE  ConsoleInv'
BY DEF ConsoleInv, TypeOK, Paged, Fresh

LEMMA LeaveInv == ASSUME ConsoleInv, Leave PROVE ConsoleInv'
BY SessionInv DEF Leave, logout

LEMMA VisitInv == ASSUME ConsoleInv, NEW to, Visit(to) PROVE ConsoleInv'
BY SessionInv DEF Visit, sessionVars, ConsoleInv, TypeOK

LEMMA OtherTabInv == ASSUME ConsoleInv, OtherTab PROVE ConsoleInv'
<1>1. storage' \in BOOLEAN
  BY DEF OtherTab, ConsoleInv, TypeOK
<1> QED
  BY <1>1, SessionInv DEF OtherTab, pageVars, ConsoleInv, TypeOK

LEMMA ReloadInv == ASSUME ConsoleInv, Reload PROVE ConsoleInv'
<1>1. /\ view' # "cards" /\ ui' = FreshUi /\ calls' = <<>> /\ db' = Seed
      /\ token' = storage /\ UNCHANGED <<demo, storage>>
  BY DEF Reload
<1>2. db' \in Table
  <2>1. Mock!MockCard \subseteq Mock!MockCard \cup {null}
    OBVIOUS
  <2> QED
    BY <1>1, <2>1, SeqMonotonic, ConsoleAssumption DEF Table
<1>3. ui' \in UiSet /\ Paged'
  BY <1>1, FreshType DEF FreshUi, Paged
<1>4. calls' \in Seq(CallSet)
  BY <1>1, EmptySeq
<1> QED
  BY <1>1, <1>2, <1>3, <1>4, ElsewhereInv DEF ConsoleInv, TypeOK

\* The calls of a view that is left are still under way, for nobody.
LEMMA OrphansIs ==
  ASSUME TypeOK
  PROVE  /\ Orphans \in Seq(CallSet)
         /\ \A i \in 1 .. Len(Orphans) : ~Orphans[i].live
<1>1. calls \in Seq(CallSet) /\ DOMAIN calls = 1 .. Len(calls) /\ Len(calls) \in Nat
  BY LenProperties DEF TypeOK
<1> DEFINE orphan(k) == [calls[k] EXCEPT !.live = FALSE, !.data = NoData]
<1>2. ASSUME NEW k \in 1 .. Len(calls) PROVE orphan(k) \in CallSet /\ ~orphan(k).live
  <2>1. calls[k] \in CallSet
    BY <1>1, ElementOfSeq
  <2> QED
    BY <2>1, NoDataType DEF CallSet
<1>3. Orphans = [k \in 1 .. Len(calls) |-> orphan(k)]
  BY <1>1 DEF Orphans
<1> HIDE DEF orphan
<1>4. Orphans \in [1 .. Len(calls) -> CallSet]
  BY <1>2, <1>3
<1>5. Orphans \in Seq(CallSet)
  BY <1>1, <1>4, SeqDef
<1>6. 1 .. Len(Orphans) = 1 .. Len(calls)
  BY <1>3, <1>5, LenProperties
<1> QED
  BY <1>2, <1>3, <1>5, <1>6

LEMMA ArrivedInv == ASSUME ConsoleInv, Arrived PROVE ConsoleInv'
<1>0. TypeOK /\ db \in Table /\ token \in BOOLEAN /\ storage \in BOOLEAN
  BY DEF ConsoleInv, TypeOK
<1>1. view' = nav /\ Mounted(nav) /\ UNCHANGED <<demo, token, storage, db>>
  BY DEF Arrived, sessionVars
<1>2. Orphans \in Seq(CallSet)
  BY <1>0, OrphansIs
<1>3. FreshUi \in UiSet /\ FreshUi.query = FirstQuery /\ FreshUi.asked = FirstQuery
  BY FreshType DEF FreshUi
<1>4. CASE nav = "cards"
  <2>1. /\ ui' = [FreshUi EXCEPT !.loading = TRUE]
        /\ calls' = Append(Orphans, ListCall(FirstQuery))
    BY <1>1, <1>4 DEF Mounted
  <2>2. ui' \in UiSet /\ ui'.query = FirstQuery /\ ui'.asked = FirstQuery
    BY <1>3, <2>1 DEF UiSet
  <2>3. /\ ListCall(FirstQuery) \in CallSet /\ Listing(ListCall(FirstQuery))
        /\ ListCall(FirstQuery).data = Mock!listCards(db, ui'.asked)
    BY <1>0, <2>2, ListCallIs, FirstType
  <2>4. calls' \in Seq(CallSet) /\ Current(calls', db, ui')
    BY <1>2, <2>1, <2>3, AppendList, AppendIs
  <2> QED
    BY <1>0, <1>1, <2>2, <2>4 DEF ConsoleInv, TypeOK, Paged, Fresh
<1>5. CASE nav # "cards"
  <2>1. ui' = FreshUi
    BY <1>1, <1>5 DEF Mounted
  <2>2. calls' \in Seq(CallSet)
    <3>1. "stats" \in Op
      BY DEF Op
    <3>2. Call("stats", NoData) \in CallSet
      BY <1>0, <3>1, CallIs, NoDataType
    <3>3. calls' = Orphans \/ calls' = Append(Orphans, Call("stats", NoData))
      BY <1>1, <1>5 DEF Mounted
    <3> QED
      BY <1>2, <3>2, <3>3, AppendIs
  <2> QED
    BY <1>0, <1>1, <1>3, <1>5, <2>1, <2>2, ElsewhereInv DEF Paged
<1> QED
  BY <1>4, <1>5

-----------------------------------------------------------------------------
(* Answers.                                                                *)

\* An answer that fails or is refused: never in the demo.
LEMMA RejectedInv ==
  ASSUME ConsoleInv, ~demo, NEW i \in 1 .. Len(calls),
         Rejected(calls[i], RemoveAt(calls, i)),
         token' \in BOOLEAN, storage' \in BOOLEAN
  PROVE  ConsoleInv'
<1>1. /\ calls' = RemoveAt(calls, i) /\ UNCHANGED <<demo, view, db>>
      /\ ui' = ui \/ ui' = [ui EXCEPT !.loading = FALSE]
  BY DEF Rejected
<1>2. ui \in UiSet /\ calls \in Seq(CallSet)
  BY DEF ConsoleInv, TypeOK
<1>3. Alike(ui, ui')
  BY <1>1, <1>2, LocalEdits, SameUi
<1>4. calls' \in Seq(CallSet)
  BY <1>1, <1>2, RestIs
<1> QED
  BY <1>1, <1>3, <1>4 DEF ConsoleInv, TypeOK, Paged, Fresh, Alike

\* After a write the list is loaded again.
LEMMA DoneInv ==
  ASSUME ConsoleInv, NEW i \in 1 .. Len(calls), demo => i = 1,
         calls[i].op \in Writes, Done(calls[i], RemoveAt(calls, i)),
         UNCHANGED <<demo, view, db, token, storage>>
  PROVE  ConsoleInv'
<1> DEFINE c == calls[i]  rest == RemoveAt(calls, i)
<1>0. TypeOK /\ ui \in UiSet /\ calls \in Seq(CallSet) /\ ui.query \in Query
  BY QueryType DEF ConsoleInv, TypeOK
<1>1. rest \in Seq(CallSet)
  BY <1>0, RestIs
<1> HIDE DEF rest
<1>2. CASE c.live
  <2>1. /\ ui' = Closed(Loading(ui, ui.query), c.op)
        /\ calls' = Append(rest, ListCall(ui.query))
    BY <1>2 DEF Done, rest
  <2>2. /\ Loading(ui, ui.query) \in UiSet
        /\ Loading(ui, ui.query).query = ui.query /\ Loading(ui, ui.query).asked = ui.query
    BY <1>0, LoadingIs
  <2>3. ui' \in UiSet /\ ui'.query = ui.query /\ ui'.asked = ui.query
    BY <2>1, <2>2, ClosedIs DEF Alike
  <2>4. /\ ListCall(ui.query) \in CallSet /\ Listing(ListCall(ui.query))
        /\ ListCall(ui.query).data = Mock!listCards(db, ui'.asked)
    BY <1>0, <2>3, ListCallIs
  <2>5. calls' \in Seq(CallSet) /\ Current(calls', db, ui')
    BY <1>1, <2>1, <2>4, AppendList, AppendIs
  <2> QED
    BY <1>0, <2>3, <2>5 DEF ConsoleInv, TypeOK, Paged, Fresh
<1>3. CASE ~c.live
  <2> DEFINE late == [Call("list", NoData) EXCEPT !.live = FALSE]
  <2>1. calls' = Append(rest, late) /\ ui' = ui
    BY <1>3 DEF Done, rest
  <2>2. late \in CallSet /\ ~late.live
    <3>1. "list" \in Op
      BY DEF Op
    <3>2. Call("list", NoData) \in CallSet
      BY <1>0, <3>1, CallIs, NoDataType
    <3> QED
      BY <3>2, SilentIs
  <2> HIDE DEF late
  <2>3. ~Writing(late) /\ ~Listing(late)
    BY <2>2 DEF Writing, Listing
  <2>4. calls' \in Seq(CallSet)
    BY <1>1, <2>1, <2>2, AppendIs
  <2>5. ASSUME demo, view = "cards" PROVE Current(calls', db, ui)
    <3>1. i = 1 /\ ~Writing(calls[1]) /\ ~Listing(calls[1]) /\ Current(calls, db, ui)
      BY <1>3, <2>5 DEF Writing, Listing, ConsoleInv, Fresh
    <3>2. Current(rest, db, ui)
      BY <1>0, <3>1, RestOther DEF rest
    <3> QED
      BY <1>1, <2>1, <2>2, <2>3, <3>2, AppendOther
  <2> QED
    BY <1>0, <2>1, <2>4, <2>5 DEF ConsoleInv, TypeOK, Paged, Fresh
<1> QED
  BY <1>2, <1>3

\* The rows of a load, or the last page when the one asked for is beyond it.
LEMMA ListedInv ==
  ASSUME ConsoleInv, NEW i \in 1 .. Len(calls), demo => i = 1,
         Listing(calls[i]), Listed(calls[i].data, RemoveAt(calls, i)),
         UNCHANGED <<demo, view, db, token, storage>>
  PROVE  ConsoleInv'
<1> DEFINE data == calls[i].data  rest == RemoveAt(calls, i)
           shown == [ui EXCEPT !.rows = data.items, !.total = data.total,
                               !.selected = {}, !.loading = FALSE]
           last == IF data.total = 0 THEN 1 ELSE PageCount(data.total)
           query == [ui.query EXCEPT !.page = last]
<1>0. /\ TypeOK /\ ui \in UiSet /\ calls \in Seq(CallSet) /\ ui.query \in Query
      /\ db \in Table
  BY QueryType DEF ConsoleInv, TypeOK
<1>1. calls[i] \in CallSet /\ data \in Answers /\ data.total \in Nat
  <2>1. calls[i] \in CallSet
    BY <1>0, ElementOfSeq
  <2>2. data \in Answers
    BY <2>1 DEF CallSet
  <2> QED
    BY <2>1, <2>2, AnswerCounts
<1>2. rest \in Seq(CallSet)
  BY <1>0, RestIs
<1>3. CASE ui.query.page <= last
  <2>1. ui' = shown /\ calls' = rest
    BY <1>3 DEF Listed
  <2>2. data.items \in Pages /\ {} \in SUBSET Ids
    BY <1>1 DEF Pages
  <2>3. /\ shown \in UiSet /\ shown.query = ui.query /\ shown.asked = ui.asked
        /\ shown.rows = data.items /\ shown.total = data.total
    <3> HIDE DEF data
    <3> QED
      BY <1>0, <1>1, <2>2 DEF UiSet
  <2>4. ASSUME demo, view = "cards" PROVE Current(rest, db, shown)
    <3>1. i = 1 /\ Listing(calls[1]) /\ Current(calls, db, ui)
      BY <2>4 DEF ConsoleInv, Fresh
    <3>2. ASSUME calls[1].data = Mock!listCards(db, ui.asked), shown.total > 0
          PROVE  shown.rows # <<>>
      <4>1. ui.asked \in Query /\ ui.asked.page = ui.query.page
        BY <1>0 DEF ConsoleInv, Paged, UiSet
      <4>2. data = Mock!listCards(db, ui.asked) /\ data.total > 0
        BY <2>3, <3>1, <3>2
      <4>3. ui.asked.page <= PageCount(data.total)
        <5> HIDE DEF data
        <5> QED
          BY <1>1, <1>3, <4>1, <4>2
      <4>4. data.items # <<>>
        <5> HIDE DEF data
        <5> QED
          BY <1>0, <4>1, <4>2, <4>3, ListIs
      <4> QED
        BY <2>3, <4>4
    <3> HIDE DEF shown
    <3>3. Current(RemoveAt(calls, 1), db, shown)
      BY <1>0, <2>3, <3>1, <3>2, RestListed
    <3> QED
      BY <3>1, <3>3
  <2> HIDE DEF shown, rest
  <2> QED
    BY <1>0, <1>2, <2>1, <2>3, <2>4 DEF ConsoleInv, TypeOK, Paged, Fresh
<1>4. CASE ~(ui.query.page <= last)
  <2>1. ui' = Loading(shown, query) /\ calls' = Append(rest, ListCall(query))
    BY <1>4 DEF Listed
  <2>2. data.items \in Pages /\ {} \in SUBSET Ids
    BY <1>1 DEF Pages
  <2>3. shown \in UiSet
    <3> HIDE DEF data
    <3> QED
      BY <1>0, <1>1, <2>2 DEF UiSet
  <2>4. query \in Query
    <3>1. last \in Nat \ {0}
      <4> HIDE DEF data
      <4> QED
        BY <1>1, PagesExist
    <3> HIDE DEF last
    <3> QED
      BY <1>0, <3>1 DEF Query
  <2> HIDE DEF shown, query, rest
  <2>5. ui' \in UiSet /\ ui'.query = query /\ ui'.asked = query
    BY <2>1, <2>3, <2>4, LoadingIs
  <2>6. /\ ListCall(query) \in CallSet /\ Listing(ListCall(query))
        /\ ListCall(query).data = Mock!listCards(db, ui'.asked)
    BY <1>0, <2>4, <2>5, ListCallIs
  <2>7. calls' \in Seq(CallSet) /\ Current(calls', db, ui')
    BY <1>2, <2>1, <2>6, AppendList, AppendIs
  <2> QED
    BY <1>0, <2>5, <2>7 DEF ConsoleInv, TypeOK, Paged, Fresh
<1> QED
  BY <1>3, <1>4

\* Any other answer leaves the list alone.
LEMMA QuietInv ==
  ASSUME ConsoleInv, NEW i \in 1 .. Len(calls), demo => i = 1,
         ~Writing(calls[i]), ~Listing(calls[i]),
         \/ calls' = RemoveAt(calls, i)
         \/ \E c \in CallSet : /\ ~Writing(c) /\ ~Listing(c)
                              /\ calls' = Append(RemoveAt(calls, i), c),
         UNCHANGED <<demo, view, db, ui>>,
         token' \in BOOLEAN, storage' \in BOOLEAN
  PROVE  ConsoleInv'
<1> DEFINE rest == RemoveAt(calls, i)
<1>0. TypeOK /\ calls \in Seq(CallSet)
  BY DEF ConsoleInv, TypeOK
<1>1. rest \in Seq(CallSet)
  BY <1>0, RestIs
<1>2. calls' \in Seq(CallSet)
  BY <1>1, AppendIs
<1>3. ASSUME demo, view = "cards" PROVE Current(calls', db, ui)
  <2>1. Current(rest, db, ui)
    BY <1>0, <1>3, RestOther DEF ConsoleInv, Fresh
  <2> QED
    BY <1>1, <2>1, AppendOther
<1> QED
  BY <1>0, <1>2, <1>3 DEF ConsoleInv, TypeOK, Paged, Fresh

LEMMA SucceededInv ==
  ASSUME ConsoleInv, NEW i \in 1 .. Len(calls), demo => i = 1,
         Succeeded(calls[i], RemoveAt(calls, i))
  PROVE  ConsoleInv'
<1> DEFINE c == calls[i]  rest == RemoveAt(calls, i)
<1>0. /\ TypeOK /\ c \in CallSet /\ c.op \in Op
  <2>1. TypeOK /\ calls \in Seq(CallSet)
    BY DEF ConsoleInv, TypeOK
  <2>2. c \in CallSet
    BY <2>1, ElementOfSeq
  <2> QED
    BY <2>1, <2>2 DEF CallSet
<1>1. /\ UNCHANGED <<demo, view, db>>
      /\ IF c.op = "login" THEN LoggedIn ELSE UNCHANGED <<sessionVars, nav>>
      /\ CASE c.op \in {"act", "batch", "extend"} -> Done(c, rest)
           [] c.op = "list" /\ c.live -> Listed(c.data, rest)
           [] c.op = "stats" ->
                /\ calls' = Append(rest, [Call("pubkey", NoData) EXCEPT !.live = c.live])
                /\ UNCHANGED ui
           [] OTHER -> calls' = rest /\ UNCHANGED ui
  BY DEF Succeeded
<1> HIDE DEF c, rest
<1>2. token' \in BOOLEAN /\ storage' \in BOOLEAN
  BY <1>0, <1>1 DEF LoggedIn, setSession, sessionVars, TypeOK
<1>3. c.op # "login" => UNCHANGED <<token, storage>>
  BY <1>1 DEF sessionVars
<1>4. CASE c.op \in Writes
  <2>1. Done(c, rest)
    BY <1>1, <1>4 DEF Writes
  <2>2. UNCHANGED <<demo, view, db, token, storage>>
    BY <1>1, <1>3, <1>4 DEF Writes
  <2> QED
    BY <1>4, <2>1, <2>2, DoneInv DEF c, rest
<1>5. CASE Listing(c)
  <2>1. Listed(c.data, rest)
    BY <1>1, <1>5 DEF Listing
  <2>2. UNCHANGED <<demo, view, db, token, storage>>
    BY <1>1, <1>3, <1>5 DEF Listing
  <2> QED
    BY <1>5, <2>1, <2>2, ListedInv DEF c, rest
<1>6. CASE c.op \notin Writes /\ ~Listing(c)
  <2>1. ~Writing(c)
    BY <1>6 DEF Writing
  <2>2. CASE c.op = "stats"
    <3> DEFINE next == [Call("pubkey", NoData) EXCEPT !.live = c.live]
    <3>1. calls' = Append(rest, next) /\ UNCHANGED ui
      BY <1>1, <2>2
    <3>2. next \in CallSet /\ next.op = "pubkey"
      <4>1. "pubkey" \in Op
        BY DEF Op
      <4>2. Call("pubkey", NoData) \in CallSet /\ Call("pubkey", NoData).op = "pubkey"
        BY <1>0, <4>1, CallIs, NoDataType
      <4>3. c.live \in BOOLEAN
        BY <1>0 DEF CallSet
      <4> QED
        BY <4>2, <4>3, SilentIs
    <3> HIDE DEF next
    <3>3. ~Writing(next) /\ ~Listing(next)
      BY <3>2 DEF Writing, Listing, Writes
    <3> QED
      BY <1>1, <1>2, <1>6, <2>1, <3>1, <3>2, <3>3, QuietInv DEF c, rest
  <2>3. CASE c.op # "stats"
    <3>1. calls' = rest /\ UNCHANGED ui
      BY <1>1, <1>6, <2>3 DEF Writes, Listing
    <3> QED
      BY <1>1, <1>2, <1>6, <2>1, <3>1, QuietInv DEF c, rest
  <2> QED
    BY <2>2, <2>3
<1> QED
  BY <1>4, <1>5, <1>6

LEMMA AnswerInv == ASSUME ConsoleInv, SomeAnswer PROVE ConsoleInv'
<1>0. TypeOK /\ DOMAIN calls = 1 .. Len(calls)
  BY LenProperties DEF ConsoleInv, TypeOK
<1>1. PICK i \in 1 .. Len(calls) : Answer(i)
  BY <1>0 DEF SomeAnswer
<1>2. CASE (demo => i = 1) /\ Succeeded(calls[i], RemoveAt(calls, i))
  BY <1>2, SucceededInv
<1>3. CASE ~demo /\ Unauthorized(calls[i], RemoveAt(calls, i))
  <2>1. Rejected(calls[i], RemoveAt(calls, i)) /\ token' = FALSE /\ storage' = FALSE
    BY <1>3 DEF Unauthorized, logout
  <2> QED
    BY <1>3, <2>1, RejectedInv
<1>4. CASE ~demo /\ Failed(calls[i], RemoveAt(calls, i))
  <2>1. Rejected(calls[i], RemoveAt(calls, i)) /\ UNCHANGED <<token, storage>>
    BY <1>4 DEF Failed, sessionVars
  <2> QED
    BY <1>0, <1>4, <2>1, RejectedInv DEF TypeOK
<1> QED
  BY <1>1, <1>2, <1>3, <1>4 DEF Answer

LEMMA StepInv == ConsoleInv /\ [ConsoleNext]_convars => ConsoleInv'
<1> SUFFICES ASSUME ConsoleInv, [ConsoleNext]_convars PROVE ConsoleInv'
  OBVIOUS
<1>1. CASE UNCHANGED convars
  BY <1>1, SessionInv DEF convars, sessionVars, pageVars, ConsoleInv, TypeOK
<1>2. CASE ConsoleNext
  BY <1>2, UseInv, SubmitInv, LeaveInv, VisitInv, ArrivedInv, ReloadInv, AnswerInv,
     OtherTabInv DEF ConsoleNext
<1> QED
  BY <1>1, <1>2

LEMMA Inductive == ConsoleSpec => []ConsoleInv
BY InitInv, StepInv, PTL DEF ConsoleSpec

\* In the demo, whatever is clicked while calls are under way, the list ends
\* up showing the cards as they are, and never an empty page when there are
\* cards (Cards.vue, load after every write; the mock answers in order).
THEOREM ListCurrent == ConsoleSpec => []TableCurrent
<1>1. ConsoleInv => TableCurrent
  <2> SUFFICES ASSUME ConsoleInv, demo, view = "cards",
                      \A i \in DOMAIN calls : ~calls[i].live
               PROVE  Shows(db, ui)
    BY DEF TableCurrent, Shows
  <2>1. \A i \in 1 .. Len(calls) : ~Writing(calls[i]) /\ ~Listing(calls[i])
    BY LenProperties DEF ConsoleInv, TypeOK, Writing, Listing
  <2> QED
    BY <2>1 DEF ConsoleInv, Fresh, Current
<1> QED
  BY <1>1, Inductive, PTL
=============================================================================
