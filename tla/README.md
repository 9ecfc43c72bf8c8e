# ReleaseRadar: a TLA+ model

ReleaseRadar plans software rollouts. A Go server (`backend/`) keeps rollouts,
their stages and tasks, blocking locks and master data in PostgreSQL, pushes
"something changed" events to the browsers over WebSockets and announces
upcoming stages in Microsoft Teams. An Angular application (`frontend/`) shows
the data, refetches it on every event, and lets administrators edit it. The
look and behaviour of the application were designed as a React prototype without
a server (`design/project/`), which is part of the repository.

This directory holds TLA+ modules translated from that source, TLC runs over
small instances, and TLAPS proofs for all instances. `PROJECT.json` maps every
definition to the lines it models.

## 1. Inventory

| Component | Source | State | Operations | Hard behaviour | What makes it correct |
|---|---|---|---|---|---|
| Hub | `hub/hub.go` | registered clients, connections per user, revision counter, one bounded channel per client | `Register`, `Unregister`, `Broadcast` | revision taken before the mutex, non-blocking send drops, repeated `Unregister` | counters exact, cap kept, revisions unique |
| ws handler | `api/ws.go` | one goroutine pair per socket | accept, register, write pump, read pump, ping, deferred unregister | gap between accept and register, half-open sockets | every registration is undone, slots come back |
| LiveService | `core/live.service.ts` | socket, status, backoff, last revision, three timers | `connect`, `openSocket`, socket events, timers, `disconnect` | timers and socket events in any order, late close of a dead socket, restarted server | no leaked socket, never wedged, silent after sign-out, truthful indicator |
| RefreshBus and views | `core/refresh.bus.ts`, the data views | the refetch in flight, the value shown | `bump`, `switchMap`, `catchError` | overtaking and failing refetches | the view never goes back, and is fresh once quiet |
| Mutation handlers | `api/handlers.go`, `store/repository.go` | the database | create, update, delete of rollouts, tasks, locks, products, types | commit, re-read, reschedule and broadcast are separate steps | every commit is broadcast and rescheduled |
| Notification queue | `store/repository.go` | rows with `fire_at`, `sent_at`, `attempts` | reschedule, select due, mark | READ COMMITTED, row locks | the queue is the schedule of the plan |
| Dispatcher and Teams client | `notify/scheduler.go`, `teams/teams.go` | the batch in hand | tick, load, POST, mark | saves in between, lost answers, crash after the POST | no resend of an acknowledged row, bounded retries, drains |
| Sign-in | `auth/`, `ldap/`, `middleware/`, `session.store.ts` | cookies, actors table, the user of each tab | login, callback, logout, role checks | two tabs with one cookie jar, failing directory, stale role | rights end with the session, sign-in cookies are used once, stripped texts are not saved |
| Rollout editing | `rollout-detail.component.ts`, `store/repository.go` | the rollout's tables, drafts, forms, the view | edit, save, complete, fail, delete, read | stale drafts, positions that moved, reads that are no transaction, row locks | completions are credited to who made them, a deleted rollout stays deleted, a quiet tab shows what is stored, waits end |
| Create dialogs, locks page | `dialog.store.ts`, `create-*-modal`, `locks-view`, lock and create handlers | one open dialog per tab, its form, the listed locks, the requests under way | open, fill in, submit, retry, close, two-click delete; create, update, delete on the server | a request outlives its dialog, lost answers, a lock deleted under an edit, a type that changes three times over | a dialog is stuck only after a start that is no date, an error takes no input away, duplicates only after an error, deleted locks stay deleted, tasks are not older than the plan |
| Master data | `master-data-view`, `UpsertRolloutType`, `RolloutTypes`, `UpsertProduct` | two tables of types, products, drafts, the connection pool | edit drafts, save, list | a query nested in an open one, saves and listings in several statements | a stored type is the work of one save, listings get their connections, the cascade stays anchored |
| List and timeline | `list-view`, `timeline-view`, `stage.ts` | filters, the clock, scroll position, width | filter, group, label, lay out, scroll, resize | three notions of "day" (UTC date, local date, 24 hours), changes of summer time, a clock read at different times | every stage is shown once, in its place, with a label that was true when it was rendered |
| Schedule rules | `schedule-rules.ts` | none | Easter, holidays, warnings | date edges | the warnings are those of the calendar |
| Design prototype | `design/project/*.jsx`, `data.js` | address, open rollout, panel, dialogs, eight editors | click, follow links, edit lists | components without keys, late `hashchange` events and timers | a link shows its rollout, results belong to the rollout they were ticked for, an edit reaches the item on display |
| iCalendar export | `calendar/ics.go` | none | line folding, escaping | 75-octet limit in UTF-8 | not modelled |
| Start-up | `store/store.go`, `store/seed.go` | migrations table, seed data | migrate, seed | crash in the middle | not modelled |

A mutation handler commits, reads the row back, reschedules the rollout's
notifications (rollouts only) and calls `Broadcast`. The hub pushes the event
into the channels of the registered sockets; each socket's write pump sends it;
the browser's LiveService drops revisions it has already passed, debounces and
bumps the RefreshBus; every data view then refetches through a `switchMap`.
Independently a ticker wakes the dispatcher, which posts due rows to Teams.

## 2. Modules

| Module | Models | Notes |
|---|---|---|
| `Hub` | `hub.go` | proved about by itself; every step of the composition is one of its steps |
| `LiveService` | `live.service.ts` | the fields are a record per tab, the methods operators on that record |
| `LiveUpdates` | handlers, `ws.go`, RefreshBus, views; composes `Hub` and `LiveService` | a socket of the browser is a client of the hub |
| `Notifications` | `scheduleNotifications`, the queue, the dispatcher, the Teams client | one rollout |
| `RolloutEditing` | the detail view, the update, delete and task handlers, the rollout's tables | one rollout, several tabs |
| `Accounts` | `/auth/*`, role checks, session store | the tabs of one browser |
| `Dialogs` | dialog store, both create dialogs, locks page, lock and create handlers | several tabs |
| `MasterData` | the master data page, product and type handlers, types in the repository, the pool | several tabs |
| `TypeRegister` | what the store promises about a type | abstract; `MasterData` implements it |
| `Views` | list, timeline, schedule rules, next to the prototype's formulas | one browser |
| `Editors` | the eight editors of the prototype | |
| `MasterDetail` | what a list with a detail pane promises | abstract; `Editors` implements it |
| `Prototype` | the prototype's application; extends `Editors` | |
| `MC...` | | instances for TLC |
| `LiveUpdatesProofs` | | theorems about `Hub` and `LiveService`, each on its own; the composition implements both; theorems about live updates end to end |
| `NotificationsProofs`, `RolloutEditingProofs`, `AccountsProofs`, `DialogsProofs`, `MasterDataProofs`, `ViewsProofs` | | theorems about the module of that name |
| `PrototypeProofs` | | theorems about `Prototype`; `Editors` implements `MasterDetail` |

### Hub

`clients`, `counts` and `rev` are the fields of the Go struct (a missing key of
the `counts` map is 0), `send[c]` is the content of a client's channel, and
`stamped[w]` is the revision request goroutine `w` carries between `rev.Add(1)`
and the mutex. What runs under the mutex is one action. Entity, id and action
of an event are left out: delivery does not depend on them.

### LiveService

The record `svc[t]` has the private fields of the class; a timer handle is TRUE
while the timeout is pending, and pending timers fire in any order, so the
properties do not depend on the durations. `net[k]` is the browser's state of a
WebSocket: a failing socket fires `error` and later `close`. `attached` is the
set of sockets whose `on*` handlers are set; an event on any other socket
changes nothing but `net`. A malformed frame is a frame with revision 0.

### LiveUpdates

The database is the number of committed mutations, a view the number it had
seen when its last rendered response was computed. The refetch of a view is a
request that the server answers with the current number and the browser renders
later; `switchMap` replaces the one in flight. A crash loses the hub, the
requests being served and the sockets, not the database. A tab also bumps its
own bus after a write of its own; this only adds refetches and is left out.

`PromptRegister` states a timing assumption the code relies on: the handler gets
from `websocket.Accept` to `Hub.Register` within the 150 ms that the browser
waits after `onopen` before it refetches. With `PromptRegister = FALSE` TLC finds
a mutation that is broadcast after the refetch and before the registration, and
is lost. `RereadMayFail` and `FetchMayFail` switch on failures after which a
stale view is what the code leaves behind: a failed re-read skips the broadcast,
a failed refetch is not retried until the next bump. With the first
`EveryCommitBroadcast` is violated in three states.

### Notifications

The plan of the rollout is a sequence of stages `[env, startAt]`; time is an
integer clock and the durations are constants. A request saves (commits) the
plan, reads it back, computes the items, deletes the unsent rows and inserts the
new ones; the dispatcher selects, loads, posts and marks. Every database call is
a step. The transaction of a reschedule is two steps: the `DELETE` fixes and
locks the rows it sees (READ COMMITTED) and waits for transactions that have
locked one of them; the commit removes and inserts. A mark waits for the lock of
a reschedule. A delete of the rollout takes effect at once; where PostgreSQL
would make it wait for, or abort it in favour of, a reschedule, the outcome is
that of one of the two orders, both of which the model has. Two catch-ups
computed at the same clock value have the same key; the code's clock makes that
practically impossible, and it only merges two messages into one.

`log` is a history variable, the set of messages posted; `no` numbers the messages of
a row, so that equal ones count.

### RolloutEditing

One rollout with one field per table: `head` (title, descriptions, risks),
`stages`, `pair`, `tasks`. Texts are numbers. A task carries an identity the
program does not have; it stands for the thing the user means, so that the model
can say when a completion hits the wrong one. Per tab there is the value shown
(`view`), the GET in flight with the statement it is at and then its answer (`fetch`), the draft, the
failure form and the mutation under way (`req`, with its place `pc`).

A GET is three reads: the `rollouts` row, the stages and actors, the tasks; the
browser renders the answer later. A save is the `UPDATE` of the `rollouts` row (which locks it), the replacement of
the child rows, the commit, the re-read, the broadcast and the answer. A task
update that meets deleted but uncommitted rows waits; after the commit it matches
no row, because the new row is another one, and that is no error; after a
rollback it goes on. A delete waits for the row lock. The buttons follow the
template: Edit and the correction of a reason are enabled while a request is
under way, the others are not. Faults are failing statements (the first one too, also
while it waits for the row) and commits, a
connection that breaks while rows are read (`hydrate` does not ask `rows.Err`),
and a GET that fails. Stages are not edited on this page. Delivery of events is
reliable here, since `LiveUpdates` is about that; the reschedule is in
`Notifications`.

`missed`, `marks` and `reordered` are history: which tabs a fault has kept from a
change, what each user marked, and whether a save has done more to the task list
than append to it.

### Accounts

The tabs of one browser share its cookies (`jar`): state and nonce of a sign-in,
and the session. A sign-in is a number, which stands for its random state and
nonce; 0 is a missing cookie. A callback is a request that carries the cookies the
browser had when it was sent (`nav[t]`), and goes through the steps of the
handler: `Exchange` (the code is good once), `Resolve` (an error means readonly),
`UpsertActor` (an error is logged) with `Issue`, and the answer, which sets and
clears the cookies. The user may reload the page of a callback; its answer is then
lost and the same code is sent again with the cookies of that moment. Who signs in
is up to the user, in every tab. Signing out is a call of the API; the application
itself has no button for it.

A tab shows the user that `/api/me` returned when its page was loaded, and offers
to edit if that was an administrator; its requests carry the session of the jar,
which may by now be another user's. The rollout is reduced to whether its internal
texts are there or have been replaced by `stripInternal`, and to who completed one
of its tasks; that a save also writes completions is in `RolloutEditing`.

Time counts in hours: the cookies of a sign-in live for five minutes and are gone
at the next hour, and the session is refused after `sessionMaxAge`. `Tick` assumes
that no hour passes between the directory's answer and the issue of the session.
The browser's own eviction of the session cookie is left out, since it comes no
earlier than the server's refusal. `revoked`, `answered` and `mixed` are history.

### Dialogs

Per tab there are the signals of the `DialogStore` (`open`, `lockEdit`), the modal
component on screen and the rows of the locks page. A request carries what its form
held when the button was pressed and goes through the phases *sent*, *read* (only a
create of a rollout: the type is read before the transaction) and *ok* or *error*.
Nothing cancels a request when its dialog closes; its answer calls `close()` of the
tab's store, whatever is open by then. A fault is a request that never reaches the
server, one that fails there, or one that is committed and whose answer is lost;
the dialog shows an error for all three. A form is reduced to whether its title is
filled in, whether its start can be read as a date, whether the lock ends after it
starts, its products, and the version of the rollout type from which the stages were
computed; `saveType` stands for a save of the type by somebody else. The new rollout
does not look at its start before it submits: `submitThrows` is the submit that sets
the flag and then ends in an exception, before any request. `gone`, `opens`, `errors`,
`abandoned` and `threw` are history.

### MasterData and TypeRegister

A type is a row in `rollout_types` and its tasks in `rollout_type_tasks`; `types`
holds for each id the row and the *set* of task lists that are stored for it, so that
a state in which two saves have mixed can be expressed at all. A save takes a
connection, writes the row (and waits if another save has it locked), deletes the
tasks it sees, and commits with its own. A listing takes a connection for the rows,
keeps it, and takes another for the tasks of each row. A failed listing is taken for an
empty one. `ProxyTimeout` is the end of a listing that nginx closes after 60 s without
an answer (`nginx.conf`); since statements take far less, it needs a pool whose
connections are all held by transactions or by listings that wait. `TypeRegister` has one step
per save; `RegisterSpec` maps the draft of every save sent to it to what was asked.
The drafts are edited as the page does: names, tasks (add, change, move, remove) and
the cascade. A name stands for the plain attributes and is its own slug; products are
one value, because nothing else is stored about them that a save could tear.

### Views

Only the page on screen has a state, as the router creates components anew. Times are
integers in a day of `DayLen` units, so that UTC date, local date and distance from now
can all differ. The browser is `Zone` ahead of UTC, and `Shift` more between `Spring` and
`Autumn`: zones east of Greenwich with one summer in the horizon, whose changes come at
night (`ViewsAssumption`). `addDays` is `setDate`, which keeps the local time of day. Both
changes of a year are enough: the timeline shows weeks. `list.asOf` is when the filters
were computed and `list.rendered` when the OnPush template was last rendered, which is
when its labels read the clock; time alone changes neither. The order of the rows is stated by rank, the place of a row being the
number of rows not after it; rows with the same start keep their order, as in a
JavaScript sort. The filter and the grouping are folds over the rows. Next to the
operators translated from the Angular views stand the prototype's (`relativeDay`,
`designIndex`, `designLockSpan`). The calendar is the proleptic Gregorian one by day
number, `easterSunday` the algorithm of the source, and the reference is the rule of the
Paschal full moon by epacts. Dates start in the year 100 (`DatesAssumption`), since
`new Date(y, m, d)` takes a smaller year for one of the twentieth century.

### Editors, MasterDetail and Prototype

The prototype keeps everything in React state. `Editors` has one action per callback
of the editors of `master-data.jsx` (products, stages, rollout types, channels,
actors, filters, locks) and of the contacts; an item is a record with the fields some
editor changes. The test message of a channel is a timer that ends after the
selection may have changed. A contact is added through a form that takes the place of
the detail pane while it is open (`adding`). `MasterDetail` is the abstract list: what is selected
exists, and a step changes at most the selected item.

`Prototype` adds `App`: `hash` is the address, `hashRoute` what `App` has parsed, and
`hashEvent` says that a `hashchange` event is on its way; `pushState` fires none. The
execute panel is mounted as a drawer or as a page and keeps its state while React
keeps it in place, which `Remount` models. Two renders throw, which unmounts the
application (`crashed`): the tab of the API keys, and the retry policy of a channel with a
fractional number of attempts. `relinked` is history.

## 3. Runs

| Run | Instance | Checks |
|---|---|---|
| `live_updates` | 1 tab, 2 sockets, cap 1, 2 request goroutines, channel of 2, 2 commits, 1 fault | `NoLostUpdate`, `EveryCommitBroadcast`, and `EventuallyFresh` under fairness |
| `live_errors` | 2 commits, 2 faults, failing re-reads and refetches, backoff 1..2 | `NoLeakedSocket`, `NeverWedged`, `SlotsExact`, `StoppedIsSilent`, `BackoffResetsOnlyWhenLive`, `ViewNeverRegresses` |
| `notifications` | 1 request goroutine, 2 saves that shift the plan or add a prod stage, POSTs that may all fail, batch limit 1, clock 0..4 | `ScheduleFollowsPlan`, `RetriesBounded`, and under fairness `QueueDrains`, `EventuallyAnnounced` |
| `notify_faults` | 2 request goroutines, lost answers, 1 crash or database error | `AcknowledgedOnce` |
| `notify_twice` | 1 late plan saved twice: violation | `CatchUpOnce` |
| `editing` | 2 tabs, 2 tasks, 2 mutations, 2 edits or 1 edit and 1 fault | `SettledViewExact`, `WaitsEnd`, `CompletionAuthentic`, `NoResurrection` |
| `accounts` | 2 users, 2 tabs, 2 sign-ins, sessions of 1 hour, 3 hours, 1 change of groups, 1 fault | `RevocationBounded`, `InternalTextSurvives`, `NoStaleNonce` |
| `dialogs` | 1 tab, 2 dialogs, 2 requests, 1 fault, 1 change of the type, 3 locks | `NoLockResurrection`, `DuplicatesOnlyAfterError`, `TasksNotOlder`, `StuckOnlyUnreadable`, `ClosedOnlyBySuccess` |
| `master_data` | 2 tabs, 1 type, 2 saves, 1 edit, 1 fault, 3 connections | `TasksNotOlderThanRow`, `OneSaveAtATime`, `NoPoolDeadlock`, `UnanchoredOnlyByRemoval`, and that the store implements `RegisterSpec` |
| `pool_deadlock` | 2 listings, 2 connections, 1 save: violation | `StaysInSync` |
| `views` | a day of 8 units, one unit ahead of UTC and two in summer, 2 answers, 2 locks, 3 widths, 10 instants, 17 days of scrolling, every day of 5 years | `ListComplete`, `LabelHonest`, `LayoutFollowsDesign`, `WarningsExact` |
| `prototype` | 2 rollouts with 2 and 1 tasks, 2 items per editor, 1 addition, 2 changes | `LinkShown`, `PanelOwn`, and that the editors implement `EditorsSpec` |

Bounds. Two sockets are a dead one with its close event outstanding and its
successor; with a cap of 1 the half-open one takes the slot the other needs. Two
request goroutines are enough for broadcasts to overtake, two commits for a
refetch to be stale and for the channel of two to be full. Faults
(`MaxFaults`) are shared by crashes, broken sockets, sign-outs and reloads, so
every pair of them occurs in `live_errors`. For notifications, `HOUR < DAY < WEEK` are 2, 3 and 4
ticks, so that a plan has past, due and future windows within four ticks;
`notifyMaxAttempts` is 2 and the batch limit 1 or 2, so that both limits are
reached. For editing, two mutations are one of each tab at the same time, or a
later one from a stale draft; two edits are a draft opened and changed; opening a
failure form counts as an edit as well, and a fault takes the place of one. Two
tasks are enough to swap, remove and append. For accounts, two tabs and two sign-ins are what it takes to mix up cookies
and users; the clock starts late enough for `revoked` to be past, and runs long
enough for a session to be issued just before a revocation and to expire. For the
dialogs, two requests and two dialogs are a late answer and the dialog it meets, or
a retry; the third lock id is one that a create gets while another is deleted. For
master data, two saves are one of each tab at the same time or two of one tab; a pool
of three is one connection more than there are listings, a pool of two is full with
both. For the views, the stages lie from three weeks before to three weeks after the
start, at times of day before and after it; the clock runs over more than a day and
passes midnight of both zones; summer time begins ten days before the start, so that a
window moved back by a week begins before it or in the hour it skips, and ends a week
after the start, inside a wide window and behind a narrow one. The years have the earliest and the latest Easter,
both corrections of the full moon and a leap day. For the prototype, two items are
the one on display and another, and two changes a draft and its use.

Deadlock is checked in `views`, where the user can always do something. In the other
runs nothing is left to do once the bounds are used up (or the user is signed out).

Fairness. Weak fairness only, on what runs by itself: goroutines that are not
blocked, browser timers, frames and close events of a network that no longer
fails, answers to requests, the ticker, the clock. A half-open socket's pumps end
because a ping every 30 s fails. In `pool_deadlock` the server goes on with every
request that is not waiting for a connection or a row, the proxy does not wait for ever,
and the browser takes every answer. Nothing forces a user, a commit, a fault or a sign-out.

### What the violations show

* `notify_twice`: BLUEPRINT 5.1 promises that a late stage is "announced exactly
  once"; each later save announces it again, because the catch-up is scheduled at
  the time of the save plus one second and never collides with the row that was
  sent.
* `pool_deadlock`: `README.md` says that after a change "every open client refetches
  and stays in sync". `RolloutTypes` holds a connection while `rolloutTypeTasks` asks
  for another; when as many listings as the pool has connections run at once (one
  event makes every open timeline, detail and master data page list the types), each
  waits for the others, and so does every other request, until nginx gives up on one
  after 60 s. The others then go on, but the page of that one has taken the error for an
  empty list and stays without types until the next event. With one connection more
  (`master_data`) one of them always goes on.

Other deviations met on the way, each listed as a hazard or stated as the exception
of a property:

* of two concurrent saves of a rollout the second `DELETE` of the queue does not see
  the rows the first inserts, so rows of the losing plan stay, where BLUEPRINT 4 says
  "a shifted stage time never leaves a notification that would fire at the old time";
* with more broadcasts at once than a channel holds a tab can stay stale until the
  next mutation, where `hub.go` says that a client that misses events reconnects;
* a save between a row's fire time and the next tick drops the announcement of that
  window; a stage that changes its environment while the dispatcher holds its row is
  announced on the old channel;
* a failed re-read after a commit skips the reschedule and the broadcast, where BLUEPRINT 9
  says that every mutation handler broadcasts after the commit (`RereadMayFail`);
* a reschedule between a POST and its mark replaces the row, and the stage is announced
  again by the new one;
* a new rollout whose start date or time is cleared can be submitted: `submit` throws after
  it has disabled the form, which stays so until it is closed (`StuckOnlyUnreadable`);
* a failed `UpsertActor` is only logged; the completions of that user are then refused
  by the foreign key;
* the list and timeline views turn blank on a transient error, where BLUEPRINT 9.4
  says no view does;
* a late answer closes whatever dialog is open in its tab, with what was entered in it
  (`ClosedOnlyBySuccess`); a retry after a lost answer stores a second rollout
  (`DuplicatesOnlyAfterError`);
* removing the first stage of a cascade leaves the next one with a delay that can no
  longer be edited (`UnanchoredOnlyByRemoval`);
* the label of a stage less than half a day away, on another date, is "0 week ago"
  (`LabelHonest`), and a list left open keeps saying "tomorrow"; a window filter uses the
  time of the last change of a signal (`ListComplete`); a stage earlier in the day than the
  opening of the timeline stands one column to the left of its date, and across the start
  of summer time so does the today line (`LayoutFollowsDesign`); 31 December is not known
  as the day before a holiday (`WarningsExact`);
* in the prototype, the tab of the API keys and a fractional number of retries blank the
  application, and a link that replaces the rollout of an open page keeps the results ticked before
  (`PanelOwn`).

In `editing`, `CompletionAuthentic` speaks only of rollouts whose tasks nobody has
moved or removed. Without that condition TLC needs nine states: one administrator
saves a new order between the click of the other on a task and the update, which
then marks the task that has the position by now. What a stale draft overwrites is
gone in every case: a save writes the completions it was opened with, including an
empty one over a completion made meanwhile. And the answer to a save closes
whatever draft is open at that moment, also one opened after Cancel.

In `accounts`, `InternalTextSurvives` leaves one way to lose the internal texts, and
TLC reaches it in 16 states: an administrator's tab is open, somebody signs in as a
readonly user in another tab, the first tab refetches (it gets stripped data, and
still offers to edit), an administrator signs in again in the other tab, and the
first one saves. Nothing in the code ties the user a tab shows to the session its
requests carry.

## 4. Proofs

TLC finds a formula true on the instances above; the theorems say it for every value
of the constants that the named assumptions of the modules allow (`HubAssumption`,
`LiveServiceAssumption`, `LiveUpdatesAssumption`, `NotificationsAssumption`,
`EditingAssumption`, `AccountsAssumption`, `DialogsAssumption`, `MasterDataAssumption`,
`EditorsAssumption`, `PrototypeAssumption`, `ViewsAssumption`, `DatesAssumption`). They fix the types of the constants and
keep markers such as `None` apart from the values they stand beside. Where a property
needs more, the theorem has it as a hypothesis; there are five of those:

| Theorem | Hypothesis | Without it |
|---|---|---|
| `LiveUpdatesViewMonotone` | `KeepOnError`: a failed refetch leaves the screen alone, as in the detail view | the list and the timeline turn blank |
| `LiveUpdatesEveryCommitBroadcast` | `~RereadMayFail` | a failed re-read skips the broadcast |
| `LiveUpdatesNoLostUpdate` | `Lossless`: at most `clientBuffer` broadcasters, no failing re-read or refetch, prompt registration | see below |
| `NotificationsFollowPlan` | `Serial`: one request at a time, no faults | rows of the losing plan stay (section 3) |
| `MasterDataNoPoolDeadlock` | finitely many tabs, more connections than tabs | `pool_deadlock` |

`LiveUpdatesProofs` first proves of the hub alone, for any finite set of clients, any users,
broadcasters, channel capacity and cap:

* `HubTypeCorrect`: types, and no channel above its capacity;
* `HubCountsExact`, `HubCapHolds`: the cap is tested on the counters, so it is
  inductive only together with their exactness (`RegistryInv`); the work is in
  `ConnectionsChange`, on the cardinality of one user's connections;
* `HubRevisionsUnique`: a revision is carried by one broadcaster or sits at most
  once in a channel, and never both;

and of the LiveService alone, for any tabs, sockets and backoff parameters, the
type invariant and its five properties. The inductive invariant
`ServiceInv` adds to them whose tab a socket belongs to, that an offline service
is at rest, and that the stability timer runs only while live; one lemma per
method says what it does to the fields, and `OtherTabs` that a step of one tab
leaves the others alone.

Every step of the composition is one of the hub's steps, and of the LiveService's, or leaves
their variables alone. It is built that way, and `LiveUpdatesImplementHub` and
`LiveUpdatesImplementService` say so only to carry all of the above over to it. Of the
composition itself are proved

* `LiveUpdatesTypeCorrect`;
* `LiveUpdatesSlotsExact`: the handlers that are registered are the hub's clients
  (`PeerInv`), and the hub's counters are those of its clients;
* `LiveUpdatesViewMonotone`: a view has one refetch at a time, whose answer is no older
  than what is shown (`FetchInv`);
* `LiveUpdatesEveryCommitBroadcast`: until something fails, the commits are the
  revisions handed out plus the handlers about to take one (`CountInv`);
* `LiveUpdatesNoLostUpdate`: the argument is about the `rev <= lastRev` test, which
  discards an event that was overtaken. `DeliveryInv` says for a live tab with a
  registered socket that it has seen the database, or will fetch again, or that an
  event with a revision above `lastRev` is on its way (`Informed`). Such an event can be
  dropped only by a full channel. `LateInv` counts what can be behind a revision in a
  channel and still be smaller: only broadcasts that were in flight together with it,
  so fewer than there are broadcasters. A channel that is full therefore holds a
  revision that is not discarded. The bound is tight: with a channel of one and two
  broadcasters TLC finds the update that is lost. `hub.go` says "so no data is lost";
  with its channels of 32 this is proved for up to 32 broadcasts at once.

`NotificationsProofs` proves, for any plans, durations, limits and request goroutines:

* `NotificationsTypeCorrect`: with `CountInv`, that every reschedule belongs to a save;
* `NotificationsRetriesBounded`, `NotificationsAcknowledgedOnce`: both are about a row of the
  queue, not about the announcement it stands for, which a reschedule may move to another
  row. The bounds are on the
  messages of a row, the code's on the counter of the row. `RetryInv` relates them: ids
  are not used again (`IdInv`), the dispatcher has a row once (`OnceInv`), an unsent row
  was posted as often as it counts, plus once while the record is outstanding and once
  for each fault that lost one (`UnsentInv`), and a row in the batch may take one more
  whatever became of it in the table (`WaitingInv`);
* `NotificationsFollowPlan`: `PlanInv` carries through a request that the items it has
  computed are the schedule of the stored plan at a moment in the past, and that it has
  locked every row that is still unsent; rows the dispatcher has were due, so that no
  window still ahead loses its row.

`RolloutEditingProofs` proves, for any tabs, tasks and bounds:

* `EditingTypeCorrect`: types, and that a tab is busy exactly while it has a
  mutation under way; one lemma per action, over lemmas on what the operations on
  a rollout (`WithTasks`, `MarkedBy`, `Swapped`, appending, removing) return;
* `EditingWaitsEnd`: inductive only together with the converse, that a save inside
  its transaction holds the lock, so that there is one such save at most
  (`LockInv`);
* `EditingNoResurrection`: a save that reaches its commit holds the lock, and a
  delete waits for the lock, so the rollout it updated still exists (`LockInv`
  again, with the existence of the rollout while locked);
* `EditingSettledViewExact`: `SettledInv` says of every tab that no bump awaits and no
  fault has cut off that each part it has read so far is still what is stored, unless
  the last change is still to be broadcast (`Unannounced`);
* `EditingCompletionAuthentic`: while nothing is reordered, the statuses in every view,
  draft and body are marks a user made, and the positions that views, forms and task
  updates use mean the task that is there (`AuthInv`).

`AccountsProofs` proves, for any users, tabs and bounds, all four properties of
`Accounts`:

* `AccountsTypeCorrect`: types, that only an answer carries a session, and that
  completions are credited to rows of `actors`;
* `AccountsRevocationBounded`: the age of the rights is not inductive by itself.
  `RightsInv` says of every session, in the jar or in an answer on its way, that it
  expires at most `sessionMaxAge` after the last moment its user was an
  administrator, and of a directory answer in hand that it is of this hour;
* `AccountsInternalTextSurvives`: strengthened by the screens that offer to save
  (`TextInv`);
* `AccountsNoStaleNonce`: a new sign-in has a number no answered one has, because
  sign-ins answered or on their way have begun (`NonceInv`).

`DialogsProofs` proves, for any tabs, locks, products and bounds, all properties of
`Dialogs` and two more: its type invariant, and
that every stored lock ends after it starts and names a product although the server
checks the one and the dialog the other (`StoredLocksValid`). The invariant is

* `TabInv`, `PageInv`, `ReqInv`: types, and that a request carries what its kind needs
  and versions of the type no newer than the stored one; `TasksFollowPlan` is this
  carried through the phases of a create;
* `LockInv`: `NoLockResurrection`, for `LockStaysDeleted`;
* `SubmitInv`, for `DialogsRecover` and `ClosedBySuccess`: dialogs are numbered, a
  submitting dialog that did not throw has a request with its number
  (`StuckOnlyUnreadable`), a request whose
  dialog is no longer on screen is one of an abandoned dialog (`Tracked`), and a
  dialog has one request at a time (`OneEach`). None of them is inductive alone: that
  an answer leaves nobody stuck needs that the answered request was the only one;
* `CreateInv`, for `DuplicatesNeedErrors`: a request that is not committed yet, and a
  dialog whose button is enabled, may each store one more rollout than has been
  answered by an error.

`MasterDataProofs` proves, for any tabs, types, saves and faults, all properties of
`MasterData`: `MasterDataTypeCorrect`, `MasterDataOneSave` (with the flag, `FlagInv`),
`MasterDataTasksFresh` (carried through a listing by its types, `GoodListing`),
`MasterDataUnanchored`, one lemma per edit of the draft, and

* `MasterDataNoPoolDeadlock`: a listing holds at most one connection while it needs
  another, so with more connections than tabs a full pool has one that a transaction
  holds; this is a count over the two sets of holders;
* `MasterDataImplementsRegister`: the commit is the step of the register, everything
  else a stutter. It needs that one save at a time has written a row and that what it
  deleted is what is still there (`RowLockInv`); otherwise the tasks of two saves would
  be left side by side.

`PrototypeProofs` proves, for any rollouts, tasks and lists:

* `PrototypeLinkShown`, `PrototypePanelOwn`, with `AppInv`: a
  panel is mounted exactly while the address or the drawer shows a rollout;
* `PrototypeImplementsMasterDetail`: every callback of the editors, and the end of every
  timer, is a step of the abstract list or a stutter. `ListInv` says that ids are unique,
  among those given so far, and that the one selected is in the list; the lemmas before
  it say what replacing, cutting, swapping and renumbering a list do to its ids.

`ViewsProofs` proves, for any answers of the API, locks, widths and dates, any zone, summer
and length of a day that `ViewsAssumption` allows, all four properties of `Views`. The inductive invariant is small
(`ViewsInv`: types, and that the filters ran no later than the last rendering and that in
the past, `ViewsTypeCorrect`); the work is in what the operators return for every input, which
the library's induction theorems cannot give, since they take an operator as a
parameter. `NatInduct` says the same of a *set* of numbers, from the well-foundedness of
`<`; with it a recursion over an index, and the one over a set that the folds of the
library are, has a solution (`IterationExists`, `SetFoldExists`). From that
`FlattenSteps`, `KeptSteps` and `GroupsSteps` say of the three folds what one more
element adds, and the rest is induction over the length.

* `ViewsListComplete`: two rows have different ranks, and an injection of `1..n` into itself
  is onto (`Permutes`), so `rows` has every row once and in order (`RowsSorted`); `KeptFilters` and `GroupsGather` carry through the folds that the
  rows so far are in the groups, in order, and that the last group has the latest date;
* `ViewsLabelHonest`: rounding is right to half a day (`RoundIs`), and two instants on one
  UTC date are less than a day apart (`SameUtcDay`); what was past when the list was rendered
  is past now, and a stage before `asOf` is before the rendering;
* `ViewsLayoutFollowsDesign`: the solver does not divide by a variable, so quotients are
  characterised by the two inequalities they solve (`DivUnique`), and columns, dates and
  midnights are compared through these (`IndexIs`, `ColumnOf`, `PillOnDate`); `AddDays` says
  what `setDate` returns in, before and after the hours a change skips and repeats;
* `ViewsWarningsExact`: the year of a date is unique (`YearOf`), and the algorithm for
  Easter agrees with the rule in every year (`EasterIs`): its `h` and the epact add up to
  23 modulo 30, the Sunday is the `l`-th day after the day that follows the full moon, and
  `m` is 1, a week less, when the rule corrects the epact and `l` is 6 (`FullMoon`,
  `Correction`, `Weekday`).

`Locks`, `Widths` and `Dates` may be any sets of the right type, also infinite ones; what
`Views` excludes, and its properties say so, is 31 December as the day before New Year.

Only model-checked:

* liveness (`EventuallyFresh`, `QueueDrains`, `EventuallyAnnounced`), which rests on
  fairness and on when an action is enabled; neither is in the prover's reach;
* the two properties that are violated.

## 5. What could come next

1. That the theorems' hypotheses are the weakest: `NotificationsFollowPlan` for requests
   that overlap but commit in the order they saved.
2. Lemmas on `FireTimes`: which windows a plan saved late still has.

## 6. Not modelled

* iCalendar export: a pure function from rollouts to text, without state; a model of
  folding and escaping would spell strings octet by octet.
* Start-up (migrations, seed): runs once and alone, before the server listens. The seed
  is not one transaction and is skipped once a product exists, so a crash in the middle
  leaves it incomplete.
* Configuration, mock services, tests.
* In the frontend: layout, styling and templates, texts of cards and error messages,
  the contacts and documentation pages (they render constants), the role guard of the
  routes, the banner of an overlapping lock, the hours that `cascadeStages` adds to the
  start, the advisory on lead times.
* In the prototype: the texts of the documentation, the search fields and filters of its
  list and contacts, the API key manager (out of reach, since its tab blanks the
  application), the texts of the execute panel, the print view, and `export/`, an older
  copy of the same files.
