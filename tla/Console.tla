-------------------------------- MODULE Console --------------------------------
(***************************************************************************)
(* One browser tab of the console: session (store/auth.ts), navigation     *)
(* (router/index.ts), API calls (api/index.ts), and the card list          *)
(* (views/Cards.vue). The tab runs one handler at a time; between a call   *)
(* and its answer anything else may happen, and a handler whose view is    *)
(* gone goes on. Calls go to the real server, whose answers come in any    *)
(* order, or in the demo build to MockApi, whose answers come in the order *)
(* of the calls and never fail.                                            *)
(***************************************************************************)
EXTENDS Integers, SequencesExt

CONSTANTS
  null,        \* no value, no card
  Seed,        \* the cards the demo starts with
  PageSize,    \* query.pageSize
  Filters,     \* bound, by build: the values of the status filter in use
  Sorts,       \* bound, by build: the sorts in use, <<column, direction>>
  Buttons,     \* bound, by build: the buttons in use
  Durations,   \* bound: the days of a new batch, null for permanent
  MaxCards,    \* bound: the demo generates no more cards
  MaxDays,     \* bound: the demo extends no card with more days left
  MaxCalls     \* bound: calls under way when the operator does something

Mock == INSTANCE MockApi

ASSUME ConsoleAssumption ==
  /\ Seed \in Seq(Mock!MockCard)
  /\ \A build \in BOOLEAN : "any" \in Filters[build]
  /\ Durations \subseteq Nat \cup {null}
  /\ PageSize \in Nat \ {0} /\ MaxCards \in Nat /\ MaxDays \in Nat
  /\ MaxCalls \in Nat \ {0}

VARIABLES
  demo,        \* VITE_DEMO
  db,          \* the mock's array; the real server's cards stay as they are
  token,       \* whether the store has one: it tells no two apart
  storage,     \* whether localStorage has one, which all tabs share
  view,        \* the current route; "none" while the page loads
  nav,         \* the navigation under way, or "none"
  ui,          \* the state of the card list
  excused,     \* history: a call of this view failed, not for want of a
               \* token, or was answered on the token of another tab
  calls        \* the calls under way, oldest first

sessionVars == <<token, storage>>
pageVars == <<view, nav, excused>>
convars == <<demo, db, sessionVars, pageVars, ui, calls>>

View == {"login", "cards", "dashboard"}

FirstQuery == [status |-> "any", sortBy |-> "none", sortOrder |-> "none", page |-> 1]

\* "asked" is a history: the parameters of the last load.
FreshUi == [query |-> FirstQuery, asked |-> FirstQuery, rows |-> <<>>, total |-> 0,
            selected |-> {}, loading |-> FALSE, dialogs |-> {},
            scope |-> "ids", doomed |-> 0]

\* beforeEach: where a navigation ends, with or without a session.
beforeEach(to, tok) ==
  CASE to # "login" /\ ~tok -> "login"
    [] to = "login" /\ tok  -> "cards"
    [] OTHER                -> to

\* router.push; going where one is cancels the navigation under way.
push(to, tok) == LET end == beforeEach(to, tok) IN IF end = view THEN "none" ELSE end

InitConsole ==
  /\ demo \in BOOLEAN
  /\ db = Seed
  /\ token = FALSE /\ storage = FALSE
  /\ view = "none" /\ nav = beforeEach("cards", FALSE)
  /\ ui = FreshUi /\ excused = FALSE
  /\ calls = <<>>

-----------------------------------------------------------------------------
(* Calls. auth: the request carries a token, that of localStorage (the     *)
(* mock does not look); live: the view that called is still there.         *)

Call(op, data) ==
  [op |-> op, data |-> data, live |-> op # "login",
   auth |-> ~demo /\ storage]

NoData == [items |-> <<>>, total |-> 0]

\* The call of a load; the mock computes its answer at once.
ListCall(query) == Call("list", Mock!listCards(db, query))

Loading(state, query) ==
  [state EXCEPT !.query = query, !.asked = query, !.loading = TRUE]

Ready == view = "cards" /\ Len(calls) < MaxCalls

\* load, by a click on the page: with the form as it is, or with a new page.
load(query) ==
  /\ Ready /\ ui.dialogs = {}
  /\ ui' = Loading(ui, query)
  /\ calls' = Append(calls, ListCall(query))
  /\ UNCHANGED <<demo, sessionVars, pageVars, db>>

\* A call that writes; the mock's array changes at once.
write(op, table) ==
  /\ Ready
  /\ db' = IF demo THEN table ELSE db
  /\ calls' = Append(calls, Call(op, NoData))
  /\ UNCHANGED <<demo, sessionVars, pageVars>>

\* What touches the state of the card list alone.
Locally(state) ==
  /\ view = "cards"
  /\ ui' = state
  /\ UNCHANGED <<demo, sessionVars, pageVars, db, calls>>

\* What a closed dialog held is forgotten: it is set when the dialog opens.
Closed(state, dialog) ==
  LET left == state.dialogs \ {dialog}
  IN  [state EXCEPT !.dialogs = left,
                    !.doomed  = IF "delete" \in left THEN @ ELSE 0,
                    !.scope   = IF "extend" \in left THEN @ ELSE "ids"]

-----------------------------------------------------------------------------
(* The card list. A dialog covers the page, the loading mask the table.    *)

EditFilter(s) == ui.dialogs = {} /\ Locally([ui EXCEPT !.query.status = s])

search == load([ui.query EXCEPT !.page = 1])

onSortChange(by, order) ==
  /\ ~ui.loading
  /\ load([ui.query EXCEPT !.sortBy = by, !.sortOrder = order, !.page = 1])

ChangePage(p) == load([ui.query EXCEPT !.page = p])

\* Which of ban and unban a row offers depends on the state it was last drawn
\* in: either is taken.
act(id, button) ==
  /\ ~ui.loading /\ ui.dialogs = {}
  /\ button \in Buttons[demo]
  /\ \/ button = "ban"    /\ write("act", Mock!ban(db, id))
     \/ button = "unban"  /\ write("act", Mock!unban(db, id))
     \/ button = "unbind" /\ write("act", Mock!unbind(db, id))
  /\ UNCHANGED ui

\* The question keeps the row it was asked for.
AskDelete(id) ==
  /\ "remove" \in Buttons[demo]
  /\ ~ui.loading /\ ui.dialogs = {}
  /\ Locally([ui EXCEPT !.dialogs = {"delete"}, !.doomed = id])

confirmDelete ==
  /\ "delete" \in ui.dialogs
  /\ write("act", Mock!remove(db, ui.doomed))
  /\ ui' = Closed(ui, "delete")

OpenBatch ==
  /\ "batch" \in Buttons[demo]
  /\ ui.dialogs = {}
  /\ Locally([ui EXCEPT !.dialogs = {"batch"}])

\* The dialog stays open until the answer, and may be confirmed again.
createBatch(days) ==
  /\ "batch" \in ui.dialogs
  /\ Len(db) < MaxCards
  /\ write("batch", Mock!createBatch(db, 1, days))
  /\ UNCHANGED ui

onSelectionChange(ids) ==
  /\ "extend" \in Buttons[demo]
  /\ ~ui.loading /\ ui.dialogs = {}
  /\ Locally([ui EXCEPT !.selected = ids])

openExtend ==
  /\ "extend" \in Buttons[demo]
  /\ ui.dialogs = {}
  /\ Locally([ui EXCEPT !.dialogs = {"extend"},
                        !.scope = IF ui.selected # {} THEN "ids" ELSE "filter"])

ChooseScope(scope) ==
  /\ "extend" \in ui.dialogs
  /\ scope = "ids" => ui.selected # {}
  /\ Locally([ui EXCEPT !.scope = scope])

\* The cards ticked, or those the form's filter matches, searched or not.
Targets == IF ui.scope = "ids" THEN ui.selected ELSE Mock!Matching(db, ui.query)

submitExtend ==
  /\ "extend" \in ui.dialogs
  /\ ui.scope = "ids" => ui.selected # {}
  /\ write("extend", Mock!extendCards(db, Targets))
  /\ UNCHANGED ui

CloseDialog(dialog) ==
  /\ dialog \in ui.dialogs
  /\ Locally(Closed(ui, dialog))

Shown == Range(ui.rows)

PageCount(total) == (total + PageSize - 1) \div PageSize

UseCards ==
  \/ \E s \in Filters[demo] : EditFilter(s)
  \/ search
  \/ \E sort \in Sorts[demo] : onSortChange(sort[1], sort[2])
  \/ \E p \in 1 .. PageCount(ui.total) \ {ui.query.page} : ChangePage(p)
  \/ \E id \in Shown : AskDelete(id) \/ \E button \in Buttons[demo] : act(id, button)
  \/ confirmDelete
  \/ OpenBatch \/ \E days \in Durations : createBatch(days)
  \/ \E ids \in SUBSET Shown : onSelectionChange(ids)
  \/ openExtend \/ \E scope \in {"ids", "filter"} : ChooseScope(scope)
  \/ submitExtend
  \/ \E dialog \in ui.dialogs : CloseDialog(dialog)

-----------------------------------------------------------------------------
(* Session and navigation.                                                 *)

setSession == token' = TRUE /\ storage' = TRUE

logout == token' = FALSE /\ storage' = FALSE

\* Login.vue; Enter in the password field submits again.
Submit ==
  /\ view = "login" /\ Len(calls) < MaxCalls
  /\ calls' = Append(calls, Call("login", NoData))
  /\ UNCHANGED <<demo, sessionVars, pageVars, db, ui>>

\* The button of Layout.vue.
Leave ==
  /\ view \in {"cards", "dashboard"} /\ ui.dialogs = {}
  /\ logout
  /\ nav' = push("login", FALSE)
  /\ UNCHANGED <<demo, view, excused, db, ui, calls>>

\* A link of Layout.vue, or the browser's buttons.
Visit(to) ==
  /\ view # "none" /\ Len(calls) < MaxCalls
  /\ nav' = push(to, token)
  /\ UNCHANGED <<demo, sessionVars, view, excused, db, ui, calls>>

Orphans == [k \in DOMAIN calls |-> [calls[k] EXCEPT !.live = FALSE, !.data = NoData]]

\* Bug variant: the card list does not load when it opens.
Mounted_Empty(v) ==
  /\ ui' = FreshUi
  /\ calls' = IF v = "dashboard" THEN Append(Orphans, Call("stats", NoData)) ELSE Orphans

\* onMounted: a view starts anew and asks for its data.
Mounted(v) ==
  CASE v = "cards" ->
         /\ ui' = [FreshUi EXCEPT !.loading = TRUE]
         /\ calls' = Append(Orphans, ListCall(FirstQuery))
    [] v = "dashboard" ->
         ui' = FreshUi /\ calls' = Append(Orphans, Call("stats", NoData))
    [] OTHER -> ui' = FreshUi /\ calls' = Orphans

\* The navigation ends: its guard was asked when it began.
Arrived ==
  /\ nav # "none"
  /\ view' = nav /\ nav' = "none" /\ excused' = FALSE
  /\ Mounted(nav)
  /\ UNCHANGED <<demo, sessionVars, db>>

\* The page is loaded again: the store is read from localStorage, what was
\* under way is gone, and so is what was done to the demo's cards.
Reload ==
  /\ token' = storage /\ UNCHANGED storage
  /\ view' = "none" /\ nav' = beforeEach("cards", storage)
  /\ ui' = FreshUi /\ excused' = FALSE
  /\ calls' = <<>> /\ db' = Seed
  /\ UNCHANGED demo

-----------------------------------------------------------------------------
(* The answers, each with the code of its caller up to the next await.     *)

\* Bug variant: the list is not loaded again after what was done.
Done_NoLoad(c, rest) == calls' = rest /\ UNCHANGED ui

\* The dialog that asked for it closes, and the list is loaded again; nobody
\* looks at the list of a view that is gone.
Done(c, rest) ==
  IF c.live
  THEN /\ ui' = Closed(Loading(ui, ui.query), c.op)
       /\ calls' = Append(rest, ListCall(ui.query))
  ELSE /\ calls' = Append(rest, [Call("list", NoData) EXCEPT !.live = FALSE])
       /\ UNCHANGED ui

\* The table clears its selection when it gets new rows, and the pagination
\* asks for the last page when the one shown is beyond it.
Listed(data, rest) ==
  LET shown == [ui EXCEPT !.rows = data.items, !.total = data.total,
                          !.selected = {}, !.loading = FALSE]
      last  == IF data.total = 0 THEN 1 ELSE PageCount(data.total)
      query == [ui.query EXCEPT !.page = last]
  IN  IF ui.query.page <= last
      THEN ui' = shown /\ calls' = rest
      ELSE /\ ui' = Loading(shown, query)
           /\ calls' = Append(rest, ListCall(query))

\* A new session, and its first view, whatever the view is by now.
LoggedIn == setSession /\ nav' = push("cards", TRUE)

Succeeded(c, rest) ==
  /\ UNCHANGED <<demo, view, db>>
  /\ excused' = (excused \/ (c.live /\ ~token))
  /\ IF c.op = "login" THEN LoggedIn ELSE UNCHANGED <<sessionVars, nav>>
  /\ CASE c.op \in {"act", "batch", "extend"} -> Done(c, rest)
       [] c.op = "list" /\ c.live -> Listed(c.data, rest)
       [] c.op = "stats" ->
            /\ calls' = Append(rest, [Call("pubkey", NoData) EXCEPT !.live = c.live])
            /\ UNCHANGED ui
       [] OTHER -> calls' = rest /\ UNCHANGED ui

\* load's finally; the other callers show a message, or nothing.
Rejected(c, rest) ==
  /\ calls' = rest
  /\ ui' = IF c.op = "list" /\ c.live THEN [ui EXCEPT !.loading = FALSE] ELSE ui
  /\ UNCHANGED <<demo, view, db>>

\* The interceptor's answer to a 401, of a session that may be another one.
Unauthorized(c, rest) ==
  /\ logout
  /\ nav' = IF view = "login" THEN nav ELSE push("login", FALSE)
  /\ UNCHANGED excused
  /\ Rejected(c, rest)

\* Any other error, or no answer at all.
Failed(c, rest) ==
  /\ excused' = (excused \/ c.live)
  /\ UNCHANGED <<sessionVars, nav>>
  /\ Rejected(c, rest)

\* A call without a token is refused, one with a token when it is no longer
\* good, a login when the password is wrong.
Answer(i) ==
  LET c == calls[i]  rest == RemoveAt(calls, i)
  IN  \/ demo /\ i = 1 /\ Succeeded(c, rest)
      \/ ~demo /\ (c.auth \/ c.op = "login") /\ Succeeded(c, rest)
      \/ ~demo /\ Unauthorized(c, rest)
      \/ ~demo /\ Failed(c, rest)

SomeAnswer == \E i \in DOMAIN calls : Answer(i)

\* Another tab logs in or out; in the demo nothing depends on it.
OtherTab ==
  /\ ~demo
  /\ storage' = ~storage
  /\ UNCHANGED <<demo, db, token, pageVars, ui, calls>>

ConsoleNext ==
  \/ UseCards
  \/ Submit \/ Leave \/ \E to \in View : Visit(to)
  \/ Arrived \/ Reload
  \/ SomeAnswer
  \/ OtherTab

ConsoleSpec == InitConsole /\ [][ConsoleNext]_convars

\* Navigations end and calls are answered or fail.
FairConsoleSpec ==
  ConsoleSpec /\ WF_convars(Arrived) /\ WF_convars(SomeAnswer)

-----------------------------------------------------------------------------

\* In the demo, once nothing is under way, the table shows the cards as they
\* are, filtered and sorted as last asked, whatever was clicked meanwhile: every
\* change is followed by a load, and no older answer overtakes a newer one. Nor
\* does it show the empty page left behind by a list that got shorter.
TableCurrent ==
  demo /\ view = "cards" /\ (\A i \in DOMAIN calls : ~calls[i].live) =>
    LET list == Mock!listCards(db, ui.asked)
    IN  /\ ui.rows = list.items /\ ui.total = list.total
        /\ ui.total > 0 => ui.rows # <<>>

Sessionless == view \in {"cards", "dashboard"} /\ ~token /\ ~storage

\* A view that needs a session does not stay without one: a late 401 may empty
\* the store while the navigation after a login is under way, and then the
\* first call of the view it opens leads back to the login.
SessionlessLeaves == Sessionless ~> ~Sessionless \/ excused
=============================================================================
