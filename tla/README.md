# Keyline: specifications, checks and proofs

Keyline is a licence server. Operators issue cards (licence codes) in a web
console; native programs activate a card on their machine and then verify it as
a heartbeat. The server is a NestJS process over one PostgreSQL table of cards;
requests run as sequences of awaited database statements and interleave at
every `await`. There are no explicit locks: the code relies on conditional
updates (`updateMany` with a `where`, looking at the count or not).

Around that core stand the guard that keeps signed requests from passing twice,
the heartbeat loop of the reference clients, the issue of card batches, and the
console's single-page front end with an in-memory demo backend.

The specifications are about what these can do together: handlers, console and
clock to a card, processes of one machine to a session, copies of a message to a
nonce store, batches to the table of codes, and answers in any order to a browser
tab; and about which promises survive every interleaving, crash and stale read.

## 1. Inventory

Paths are relative to `src/`; the server's code is in `backend/src/`.

| part | code | state | operations | hard about it |
|---|---|---|---|---|
| card rules | `card/card-logic.ts` | none | computeExpiry, isExpired, decideActivate, decideVerify, computeExtension, generateCode | boundaries of time; which of status, activation, grant and expiry each rule reads |
| card table | `prisma/schema.prisma` | CardKey rows (status, hwid, durationDays, activatedAt, expiresAt, session, presence), VerifyLog | single-statement updates | shared by every request |
| client card service | `card/card.service.ts` | per request: `now`, the row as read, the decision | activate, verify (run, applySession), generateBatch | every step acts on a decision made from an older row; lost races are re-decided once |
| console card service | `admin/admin.service.ts` | per request: the row as read | ban, unban, unbind, remove, extendCards; listCards, stats | read first, then an unconditional write by id |
| controllers, DTOs | `client/`, `admin/admin.controller.ts` | none | the HTTP endpoints | concurrent requests |
| heartbeat config | `config/heartbeat.ts` | environment | policy, stale window, online window | must fit the clients' interval |
| request guard, nonces | `crypto/signature.guard.ts`, `redis/redis.service.ts` | nonce store (Redis or memory) | canActivate, consumeNonce | boundary of two windows, restarts |
| response signing | `crypto/crypto.service.ts`, `response-sign.interceptor.ts` | keys | HMAC, Ed25519 | stateless |
| administrators | `admin/auth.service.ts`, `jwt*.ts` | Admin rows | login, seeding | library code |
| reference clients | `client-example/verify.js`, `rust/src/main.rs` | session token, takeover flag | startup beat, heartbeat loop | interval against stale window; exit on conflict |
| console front end | `frontend/src/views/`, `api/index.ts`, `store/auth.ts`, `router/index.ts` | token, route, list, filters, selection, dialogs | login, logout, navigation, load, search, act, extend | answers out of order, answers for views and sessions that are gone |
| demo backend | `frontend/src/api/mock.ts` | an array of cards | the console's API | answers after 150 ms, in order |
| deployment | `deploy.sh`, `docker-compose.yml` | files | run by hand | none |

How the parts meet: a client request passes the guard, then its handler runs in
CardService and the answer is signed. A console request carries a token, then runs
in AdminService. The two services share the CardKey table and nothing else.
The heartbeat loop talks to the verify handler only; the front end to the
console's endpoints, or in the demo build to the mock; its tabs share
localStorage.

What makes each part correct:

* rows: status, activation, grant and expiry agree (an EXPIRED card has an
  expiry; a permanent card never gets one; a running card was activated);
* activation: one machine wins, the clock starts once, the losers are told
  the truth;
* verdicts: what a client is told was true at some moment while its request ran;
* bans: a ban wins over every client request already running;
* sessions: a live session is displaced only as the multi-open policy says;
* extension: time is lost only where two extensions of a card overlap;
* unban: a banned card comes back with the status its row calls for;
* requests: a signed message passes the guard once in the life of its nonce, and is
  called a replay only for a reason;
* clients: a process that beats in time keeps its session until a newer process
  starts, one that lost it stops in time, and one of several remains;
* batches: no code is sold twice, no card of an answered batch is forgotten;
* console: the list ends up showing the cards as they are, and no view that
  needs a session stays open without one.

## 2. Modules

| module | models | state |
|---|---|---|
| `CardLogic` | the pure rules of `card-logic.ts` | none |
| `CardStore` | the CardKey table and the wall clock | `cards`, `clock` |
| `CardService` | the handlers of activate and verify, one action per awaited statement | `req` |
| `AdminService` | the console's operations, each a read and a write | `adm` |
| `CardSystem` | both services on one table; invariants and action properties | all four |
| `CardVerdicts` | CardSystem with a history variable: which verdicts were true while a request ran | `truths` |
| `ConsoleRaces` | CardSystem with a history of what overtakes a console operation between its read and its write | `found`, `overtaken` |
| `CardLifecycle` | abstract specification: the life of a card without requests and clock | `life` |
| `HeartbeatClient` | the clients' heartbeat loop over the handlers of `CardService` | `policy`, `proc`, `wire` and the server's |
| `SignedApi` | the signature guard and the nonce store, Redis or in memory | `nonces`, `guard`, `stamp`, `store`, `clock`; history: `passed`, `answers` |
| `BatchIssue` | generateBatch, several batches at once | `table`, `job`, `created` |
| `MockApi` | the demo backend's functions on its array | none |
| `Console` | a browser tab: session, navigation, card list, calls under way | `token`, `storage`, `view`, `nav`, `ui`, `calls`, `db` |
| `MCCardSystem`, `MCConsoleRaces`, `MCCardVerdicts`, `MCHeartbeatClient`, `MCSignedApi`, `MCBatchIssue`, `MCConsole` | instances for TLC | |
| `CardSystem_proofs` | lemmas on the rules; theorems that hold whatever operations are used | |
| `CardLife_proofs` | theorems that hold when unban is not used; that `CardSystem` implements `CardLifecycle` | |
| `ConsoleRaces_proofs` | theorems on console operations that overlap | |
| `CardVerdicts_proofs` | theorems on what clients are told | |
| `HeartbeatClient_proofs`, `SignedApi_proofs`, `BatchIssue_proofs`, `Console_proofs` | theorems about the module each is named after | |

`CardLogic` and `CardStore` are extended by `CardService` and `AdminService`,
these by `CardSystem`, and that by `CardVerdicts` and `ConsoleRaces`. `HeartbeatClient` extends
`CardService`: it drives the same actions, with the clients' loop in the place of
arbitrary calls. `CardSystem` instantiates `CardLifecycle` with `life` as a
function of its rows; `Console` instantiates `MockApi`.

### State and actions against the code

`cards[c]` is the row of card `c`, or `null` when it was deleted. A card is
identified by its id and its code alike. `activated` stands for `activatedAt`
being set: nothing reads its value. `clock` is `new Date()`, in units of which
`Day` make a day; the stale window `SessionStale` is in the same unit.

`req[r]` is a running handler of CardService.run: `pc` the statement it sends
next, `call` the request, `at` the instant `now` it read on arrival, `d` its
decision. The actions follow the code's awaits:

    Start        a request arrives, now = new Date()
    Find(Unknown)      findUnique by code, decide
    Activate / LoseActivation    updateMany where UNUSED, count 1 / count 0
    Reread(Unknown)    read and decide again, once
    MarkExpired        updateMany where ACTIVE, set EXPIRED
    Rebind             updateMany where ACTIVE and unbound
    Claim / MissClaim  applySession's updateMany, count 1 / count 0
    Recheck            applySession's read after a miss
    Touch              updateMany of lastSeenAt
    Reply / LogFails   verifyLog.create succeeds / breaks its foreign key
    Abort              the process dies or a statement fails

`Abort` of every handler is a restart of the server: handlers keep nothing
outside the table. A decision carries at most one write, so the writes it skips
are no steps (`StepFor`); the one exception in the code, an activation decided
by the second read, is never attempted (`AfterReread`).

`adm[a]` is a running console operation: `targets` the cards it will write,
`seen` the columns it read where the write depends on them, `at` when. The
reads are `mustGet`, `UnbanRead` and `ExtendRead` (after which the rows to skip
are gone), the writes `ban`, `unban`, `unbind`, `remove` and `extendCards`. As
in the code a write has no condition beyond the row being there. `unban` and
`extendCards` take their own `now` between the read and the write: any instant
from `at` to the present.

`ConsoleRaces` adds no behaviour: `found[a]` are the targets an unban found BANNED when it
read them, `overtaken[a]` the unbans and extensions by others that wrote to the targets of
an unban or extension since then. The properties say of a write what may have come between.

The policy and the stale window are read by each verify request from the
environment; the policy is a field of the call, so that it may change between
two requests.

`CardLifecycle` has one variable: for each card its status, whether it was issued
for a time or for good, whether its clock was started, its machine and its end.
`LifeOf` computes these from a row. A step of a life is a first use, a lapse, a
binding, an unbinding, an extension, a ban or a deletion; nothing else may
happen to a card, and a bulk extension moves several at once.

`HeartbeatClient`: `proc[p]` is a process in its loop: waiting for an answer,
sleeping, or over, with the takeover flag and the age of its beat or sleep.
`wire[p]` is its request or answer on the way. The server's side are the actions
`Arrive`, `Statement`, `Reply` and `Abort` of `CardService`. A process whose request fails in any
way exits, as both clients do; what it sent may be handled all the same. Time is
relative: instead of a growing clock, every stored instant recedes (`Pass`), up to
`MaxClock`, beyond which the code does not tell instants apart.

`SignedApi`: a delivery is one run of canActivate up to its await. With the
in-memory store the whole check is one step, with Redis the guard waits and the
atomic `SET NX` is a step of its own, up to `Lag` later. The client library is made with
`maxRetriesPerRequest: 2`: when the connection breaks, it connects again and repeats the
statement that was not answered, whether or not it was executed. `LoseReply` is the
execution whose answer is lost, any number of times within `Lag`, `ConsumeInRedis` the
one whose answer is read, `RedisFails` the end of the retries, an error for the request.
`stamp` is the timestamp the client signed, by a clock that is off by a value of
`Offset`, any set of integers. `passed[m]` are the instants at which copies of a message
passed, `answers[m]` what its deliveries were told.

`BatchIssue`: `table` gives each code the batch of its card. A round is
`DrawAndInsert` (any set of as many different codes as are still needed, inserted
but for those in use) and `Confirm` (the query by code and batch). The two are
separate awaits, between which other batches and the console's deletions run.

`Console`: a call has its operation, whether it carried a token, whether the view
that made it is still there, and in the demo its answer, computed when it was
made. `Answer` takes one call that is under way and runs the code behind its
await. The real server may accept a call with a token, refuse it (401) or
fail; the mock answers in order. `nav` is a navigation whose guard was asked and
whose view is not shown yet. Two things come from the component library and are
taken from its behaviour: the table drops its selection when it gets new rows, and
the pagination asks for the last page when the page shown is beyond it.

Data is abstracted to what the rules tell apart: codes, hardware ids and
session tokens are model values; the expiry a client is shown, the text of the
log, notes and batches are left out.

Statements are atomic. That is what the code asks of the database: `updateMany` is one
conditional UPDATE, `update` and `delete` are by primary key, `$transaction`
of the extension commits all its updates or none. The rows it updates get values
computed before it began, so that taking its commit as one step loses no
outcome.

## 3. Runs

Each run of the card table has one card: rows do not interact except in a bulk extension,
whose updates are independent per card. Two client requests are enough for every race
of two handlers and, as handlers are reused, for histories of any length; so are two
console operations, as a write overtakes an operation by one other at a time. A day
and the stale window last one unit (`Day = 1`, `SessionStale = 1`). In `sessions` the clock
goes to 2, so that a licence starts and lapses, and a session is refreshed,
grows stale and is taken. In `licence_races` and `term_races`, where
sessions play no part, it goes to 1 with a grant of one day, so that a licence
still lapses. `MaxClock` stops the clock; `MaxDays` and `MaxExpiry` bound what
is extended further: one extension in `licence_races`, two on top of each other in
`term_races`, where the second may be overtaken. `licence_races` has two operators and one request,
`term_races` two of both, and neither unban nor deletion. Symmetry is used between requests,
operators, messages or workers, never under liveness.

| run | question | actors | properties |
|---|---|---|---|
| `licence_races` | do the columns of a row stay in agreement, does a ban win, does an unban give a banned card the status it should have? | 2 operators with all five operations; 1 request of 2 machines; timed and permanent cards | TypeOK, LicenceTermsConsistent, PlansConsistent, BannedRowFrozen, UnbanRestores |
| `term_races` | is a clock restarted, a device swapped, a life one that was not meant, time lost? | 2 operators with ban, unbind, extend; activations from 2 machines; timed and permanent cards | DeviceNeverSwapped, TermKept, LivesALife, TimeLostInOverlapOnly |
| `sessions` | are clients told the truth, and do sessions change hands as the policy says? | 2 requests: 2 machines, 2 processes, both policies; ban, remove | VerdictTrue, ActivationGrantTrue, ConflictVerdictTrue, SessionHandover |
| `heartbeats` | who holds a licence that several processes want? | 2 processes of one machine, either policy; delays, deaths, server failures, a ban | StopsInTime, OneSurvives, SessionKept, OneRemains |
| `signed_api` | can a signed message pass twice, or be refused for no reason? | 2 messages, 2 workers, either store; clocks behind, right and ahead; late, repeated and damaged copies, lost answers, failures, restarts | OncePerTtl, OnceUnlessAhead, ReplayExplained |
| `batches` | whose are the codes a batch answers? | 2 batches, 3 codes of which 1 is in use, 2 rounds; deletions, crashes | CodesOwned, CodesExclusive, ExactCount, NoOrphan, BatchEnds |
| `console` | does the list end up right, and the session with the view? | 1 tab, the demo with up to 2 cards or the real server; 2 calls at once, another tab | TableCurrent, SessionlessLeaves |

Bounds of the other runs. `heartbeats`: an interval of 2 and trips of up to 1 are
the least that tell a beat in flight from a sleep, and the stale window is 5, exactly
`Interval + 3 * MaxTrip`. `SessionKept` needs one interval and two trips, below
which a process in time is displaced by a heartbeat; the third trip is for the
process that lost its session and must not get it back before it stops, since the
mark of the session that took it may be one trip old from the start. Two processes suffice for a
session to go back and forth; ages stop counting at the stale window, beyond which the code
tells none apart. `signed_api`: the skew is 1 and
a nonce lives 2, twice as long, as in the code (60 s and 120 s); a request waits for
Redis up to 1. The offsets are -2 (stale from the start), 0, and 1 (the edge of the
window, where a copy does pass twice). The clock goes to 4, beyond the life of the
first nonce and the second passing. `batches`: with 3 codes, one of them in use, and
batches of up to 2, codes collide with old cards and between batches, and batches run dry; the
code's 20 rounds are 2, enough for a second round to go wrong. `console`: a
page holds one card and the demo has up to two, so that there are two pages and a
deletion empties the second; the operator starts nothing while two calls are under way; one
button stands for all that write in the real build, whose cards the tab does
not own.

The runs leave console operations out where the code breaks the property
with them; what it then does has a run of its own that TLC refutes:

| run | what TLC finds |
|---|---|
| `rebind_race` | two machines activate an unbound card; both read it unbound, one binds it, both are answered OK (`card.service.ts:94` does not look at the count) |
| `expired_after_extension` | a request reads a lapsed card, the console extends it, the request marks it EXPIRED for good (`card.service.ts:86` has no expiry in its `where`) |
| `false_conflict` | a heartbeat's claim misses because of a ban that is lifted before the re-read: answered CONCURRENT_SESSION with no other session (`card.service.ts:155`), on which the reference clients exit |
| `stale_unban` | two operators unban one banned, never activated card; both read it, the first makes it UNUSED, a waiting activation takes it, the second makes the running licence UNUSED (`admin.service.ts:117`) |
| `clock_ahead` | a message stamped a full skew ahead passes, its nonce runs out while the stamp is still acceptable, a copy passes again: nonces are not remembered "a bit longer than the skew window" (`signature.guard.ts:6`), which is as long as their life |

The boundaries of the positive results follow from these. `term_races` has no
unban: after `stale_unban` an activation starts a running licence anew. `UnbanRestores` and
`TimeLostInOverlapOnly` name the overlaps of console operations in which the code goes
wrong, and no others: an unban overtaken by another one, as in `stale_unban`, or by an
extension, and an extension overtaken by another one, which then puts back a
smaller grant or an earlier end than there was, although an extension "adds time"
(`card-logic.ts:187`). Unbans of cards that are not banned are in the run, but
`UnbanRestores` speaks of banned ones, as the comment in the code does and as the console
offers them. `sessions` has no unbind (`rebind_race`) and no unban (`false_conflict`).

Two more things the models show have no run of their own. When the answer to `SET NX` is
lost, the statement sent again finds the key, and the only copy of a message is called a
replay: `ReplayExplained` counts the lost answer among the explanations, although the comment at
`redis.service.ts:30` has a nonce refused only if it was used. And a request whose `SET` fails
ends in an error (`RedisFails`): there is no fall-back to memory when the server is
unreachable, which the comment at `redis.service.ts:6` promises; the store is chosen by
`REDIS_URL` alone.

`truths[r]`, the history variable of CardVerdicts, collects the verdicts that
are true of request `r` in each state from its arrival to the last statement
before its log; `TruthsOf` says what a verdict means in terms of the row,
without the decision functions. The three verdict properties ask that the answer be
among them.

### Fairness

The safety runs need none. `FairClientSpec` (`heartbeats`) has weak fairness on the steps of
a running handler (a statement sent to the database is answered or fails), on the
passing of time, on the arrival of a beat or the failure of its process, and on a
process's reaction to its answer and its timer: sockets end and timers fire. Nobody has
to start a process. `FairBatchSpec` has weak fairness on the statements of a batch, not on
the request for one. `FairConsoleSpec` has it on the end of a navigation (a lazily loaded
view) and on the answers as a whole, not on each call: which answer comes first is open.

Deadlock is checked in the runs of the card table: a request may always arrive.
In `heartbeats`, `signed_api` and `batches` it is not: all processes exit,
all time passes, all batches are answered. In `console` the tab can be left alone.

The timing assumption of `heartbeats` is not in the code: it is named as an ASSUME
(`ClientAssumption`) and holds for the default values (interval 120 s, stale window
360 s) as long as a beat takes less than 80 s. A shorter stale window, which the
configuration allows, is outside the model.

`signed_api` assumes nothing about clocks or windows. `OnceUnlessAhead` says at which
stamps a message may pass again: with the in-memory store those for which
`passed + NonceTtl <= stamp + MaxSkew`, which with the constants of the code and the
check on arrival is a stamp exactly 60 s ahead of the server, and with Redis those that
reach that edge in the time a request waits for it. `clock_ahead` shows the case. A
restart with the in-memory store forgets the nonces, and a copy of a message from before may
pass again; the model starts its history anew there, so the three properties are about one
life of the store.

### Mutants

Every property of every passing run is paired in `PROJECT.json` with a bug
variant of a definition of the model (`isExpired_Late`, `ClaimWhere_NeverStale`,
...), defined beside the original, under which TLC refutes the property.

## 4. Proofs

Every invariant that a passing run checks is a theorem, and so is every action
property, those of `ConsoleRaces` included. They hold for any sets of cards, devices,
sessions, requests, operators, processes, batches, messages and codes, and any bounds, under the
assumptions listed below. Some ask for more: that the console does without an operation, or,
of the behaviour at hand, that no two extensions of one card overlap (`NoOverlap`). What
breaks without them is described in section 3 and below; whether `Conflicts` needs `NoOverlap`
for more than its proof, which builds on `Verdicts`, is open.

The card table:

| module | theorem | statement | asks for |
|---|---|---|---|
| `CardSystem_proofs` | `Typing` | `Spec => []TypeOK` | |
| | `LicenceTerms` | `Spec => []LicenceTermsConsistent` | |
| | `Plans` | `Spec => []PlansConsistent` | |
| | `BansWin` | `Spec => BannedRowFrozen` | |
| | `Sessions` | `Spec => SessionHandover` | |
| `CardLife_proofs` | `Devices` | `Spec => DeviceNeverSwapped` | no unban |
| | `RunningClock` | `Spec => TermKept` | no unban |
| | `Implements` | `Spec => LivesALife` | no unban |
| `ConsoleRaces_proofs` | `Unbanned` | `RSpec => UnbanRestores` | |
| | `LostTime` | `RSpec => TimeLostInOverlapOnly` | no unban |
| `CardVerdicts_proofs` | `Refusals` | `HSpec => [](\A r \in Request : Refusal(r))` | |
| | `VerdictsHold` | `HSpec /\ TimeNeverShrinks => []VerdictInv` | |
| | `Verdicts` | `HSpec /\ []NoOverlap => []VerdictTrue` | no unban |
| | `Conflicts` | `HSpec /\ []NoOverlap => []ConflictVerdictTrue` | no unban, no unbind |
| | `ActivationGrants` | `HSpec => []ActivationGrantTrue` | no unban, no unbind |

The other components:

| module | theorem | statement |
|---|---|---|
| `HeartbeatClient_proofs` | `Stops`, `Survives`, `Kept` | `ClientSpec => []StopsInTime`, `[]OneSurvives`, `SessionKept` |
| `SignedApi_proofs` | `OncePerLife`, `TwiceOnlyAhead`, `ReplaysKnown` | `ApiSpec => []OncePerTtl`, `[]OnceUnlessAhead`, `[]ReplayExplained` |
| `BatchIssue_proofs` | `Owned`, `Exclusive`, `Complete`, `Exact` | `BatchSpec => []CodesOwned`, `[]CodesExclusive`, `[]NoOrphan`, `[]ExactCount` |
| `Console_proofs` | `ListCurrent` | `ConsoleSpec => []TableCurrent` |

### Assumptions

* `LogicAssumption`, `StoreAssumption`, `ServiceAssumption`, `AdminAssumption`:
  windows and days are positive, a timed card is issued for at least a day
  (`@Min(1)` in the DTO), `null` is no value of any type, an activation carries no session.
* `ClientAssumption`: an interval and three trips fit into the stale window, and
  ages are told apart up to a trip beyond it.
* `ApiAssumption`: types only; the windows, the wait for Redis and the clients' clocks
  are any numbers.
* `BatchAssumption`, `EnoughCodes`: counts and rounds are positive; the codes are
  a finite set with at least as many as a batch asks for.
* `ConsoleAssumption`: pages are not empty, each build's filter can be "any",
  durations are numbers or none.

### The argument, card table

`LicenceTermsConsistent` is not inductive: an activation writes
an expiry computed from an earlier read of the grant, an unban a status and an
extension a term computed from an earlier read of the row. What these writers
hold has to fit the row at the time they write it. That is `PlansConsistent`,
and `IInv == TypeOK /\ LicenceTermsConsistent /\ PlansConsistent` is inductive
(`Invariance`). The key is how a row may evolve between a read and a write
(`ClientEvolves`, `ConsoleEvolves`): a grant never changes its kind, and
activation is never undone. From this each plan that fitted when it was made
(`HandlerPlanMade`, `OperationPlanMade`) still fits (`HandlerPlanKept`,
`TermsKept`). `BansWin` then follows from a case analysis of the statements that
write (`ClientWrites`), and `Sessions` from the `where` of the claim, where the
handler's `now`, no later than the clock, makes its view of staleness the stricter one.

The results of `CardLife_proofs` share a strengthening of `IInv`,
`LifeInv`: an UNUSED row was never activated, a row never activated has no
device, and no operation under way is an unban. A row that has a device or a
running clock is then not UNUSED, so the activation's `where` misses it. That unban is
not used is needed: after `stale_unban` a running licence is UNUSED.

`LostTime` asks when the terms an extension has read are still the card's (`Current`).
No client request undoes that: only an activation writes a term, and the column an extension
writes depends on whether it read the card activated. An extension that read a card
new and writes after its activation changes the grant and not the end; it adds nothing, but
takes nothing away (`CurrentStays`). So the terms are old only when another extension wrote
the card since, and that is in the history (`StillCurrent`); and a step that takes time away is
an extension with old terms (`TimeLost`). `TimeOnlyGrows`, on which `Verdicts` rests, is the
case in which no extensions overlap.

`Unbanned` needs no assumption on the console. A card that an unban found BANNED stays
so until another unban of it (`StillBanned`): no client request changes a BANNED row, and
the other operations leave the status alone. In that time nothing activates it, and only
an extension moves its end; so without either the row still is what was read when the
status is written, and the status computed at an instant between the read and the write is
the right one.

`Implements` rests on both invariants. Initial rows map to issued cards. Of each
statement of a handler that writes, and each write of the console, a lemma says
which step of a life it is: an activation is a first use because its `where` asks
for UNUSED and `LifeInv` says such a row was never started; its end fits the kind
because of `PlansConsistent`; a mark is a lapse because only timed cards are about to
be marked; a session, a presence mark and an extended grant leave the life as it
is.

### The argument, verdicts

What is true of a request now is in its history as long as it has not decided
(`Told`): the history takes every state it lives through. So a decision is witnessed by
the state of the read it was made from (`DecisionTrue`), and a miss of a
conditional update by the state in which it missed (`MissTrue`): a row that is
gone or banned is refused with that reason. Nothing else is needed for the refusals,
so `Refusals` holds whatever the console does.

An OK to a heartbeat with a session is decided at one read and true only if
the claim that follows still finds the licence in its term. Between the two, the row
may lose time only if an extension or an unban puts an old end back. `VerdictsHold`
therefore takes `TimeNeverShrinks` of the behaviour at hand, not of the
specification, and `Verdicts` composes it with `TimeOnlyGrows`, for the behaviours in
which no two extensions of a card overlap.

`Conflicts` and `ActivationGrants` compare two reads of one handler with a write of
another between them, and need rows that do not come back to a state they had left: `Keeps`
(a card is not new again, a ban or an expiry is not lifted, an activated card
keeps its device) and `Settled` (an activated card has a device, a session has a
mark). With an unbind a card is free between two reads (`rebind_race`); with an unban a
miss has a cause that is gone at the next read (`false_conflict`), or a lost activation
finds the card new again. A claim that misses then means that another process
has the session, with a mark that is still fresh (`RivalTold`); an activation that is about to be
answered OK has written or read the card with its device and time ahead (`ActivationTold`).

### The argument, other components

`HeartbeatClient`: the invariant `ClientInv` says, process by process, that a
beat is in one place only (`OnePlace`) and never overdue (`OnTime`); that a process told to
go faces the session of another (`Standing`); that the mark of the session it holds
is no older than its last beat (`Marked`); and that a process that lost the session
faces a mark too fresh to get stale before it stops (`Losing`). The last is the one that
needs the third trip of `ClientAssumption`. `OneSurvives` follows from `Standing`: a process
that was told to go faces a session of another, which was neither told to go itself nor is
yet to start, so it runs or has failed. `Kept` is a case analysis of the claim: a heartbeat of another process finds the mark
fresh by `Marked`.

`SignedApi`: `OncePerLife` needs to know, besides the instants at which a message passed,
that the nonce its last passing left is still there or was, at the time it went, a full life
old. The invariant relates `passed`, `nonces` and the clock (`Kept`, `Apart`): of two
passings the second found the nonce gone. For `TwiceOnlyAhead` it adds when a passing copy was
judged fresh, which for a request that waits for Redis is up to `Lag` ago (`Awaited`): a
second passing is then no later than `stamp + MaxSkew`, plus the wait, and no earlier than the
first plus `NonceTtl` (`Outlived`). No relation of the windows is assumed. `ReplaysKnown` rests
on what the store remembers (`Explained`): every key was put there by a copy that passed,
by one that ended in an error, or by one whose answer was lost.

The first three theorems on batches share one invariant: what a batch lists it was given,
what it was given and nobody deleted is its own in the table, and is listed once the
round is confirmed. A code has one batch in the table, from which `Exclusive`
follows. `Exact` adds numbers (`CountInv`): what is listed and what the round under way
has drawn are together no more than the count, and no round starts when the rounds have
run out.

`Console`: between a change and the end of the load that follows it, the table is
old. The invariant (`Fresh`) says that, unless a change of the view is still to be
answered, and a load will follow, the last load under way has the cards as they are,
or the table has when there is none. Answers of the demo come in the order of the
calls, so the last load is the one that stays. The rest is arithmetic: a page that is not
beyond the last one begins with a card (`PageStarts`), and the page asked for is the page
in the form (`Paged`).

### Only model-checked

Liveness is out of the prover's reach: `OneRemains`, `BatchEnds` and
`SessionlessLeaves`. The theorems on `Spec` hold of `RSpec`, under which the runs check the same
properties, since the history adds no behaviour (`Underlies`). With unban and unbind the
verdicts are a matter of the proofs alone: `Refusals` covers every refusal except a conflict,
and `VerdictsHold` every OK to a heartbeat in the behaviours in which no time is taken away.

## 5. Not modelled, and the plan

Not modelled: cryptography and tokens (libraries; a damaged message fails its
check, a bad answer ends the client), the random text of codes, list and
statistics queries of the server (they only read), the rate counter `incrWindow`
(nothing calls it), the parsing of options and environment, presentation and
translations, CSV export, deployment scripts, start-up of the frameworks.

What the models show but no property states, because neither code nor documentation says
what is meant: the beat of a dead process may displace a newer one
(`HeartbeatClient`); a 401 of an old session logs a new one out, and a second login
answer undoes a logout (`Console`); a confirmed dialog may be confirmed again while
its call is under way; an extension by filter takes the form as it is, searched or
not. These are listed as hazards in `PROJECT.json`.

Further work, in this order: a run with two cards for the bulk extension; the
refinement of `HeartbeatClient` to a lock with a lease, which would state its three
properties as one; the page of the real build's list, when its loads are answered in
order.
