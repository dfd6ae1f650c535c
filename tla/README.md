# CATICE backend: TLA+ models, checks and proofs

CATICE is a virtual office: avatars walk in rooms, talk, call and share a kanban board over
one WebSocket per browser tab, and a REST part keeps accounts, leave and work-from-home
requests.  This directory holds TLA+ modules of its core, the TLC configurations that check
them on small instances and TLAPS proofs of every safety property the runs check.
`PROJECT.json` says which definition stands for which lines of the source.  Paths below are
relative to `src/`.

## 1. The system

### Components

| component | state | operations | talks to |
|---|---|---|---|
| hub `internal/hub/hub.go` | `rooms` (room -> set of connections), `Client.room`, channels register / unregister / out / switchCh / events / incoming | one goroutine, `Run`: register, unregister, deliver, switch room | pumps (unbuffered channels, `send` of each client), router (events 64, incoming 256, out 1024, switchCh 64) |
| pumps `internal/hub/client.go` | the socket; nothing else | `readPump`: read, tag with room, push; at the end unregister and close.  `writePump`: drain `send`, ping | hub, router, the peer |
| router `internal/router/message_router.go` | `online`, `inCall`, `roomOf` | one goroutine: four events, fifteen message types | hub, room manager, stores, positions |
| room state `internal/room` | avatars and objects of each room | add, remove, update, list | router only |
| positions `internal/presence/redis.go` | channel `saves`, map `pending`, Redis | Load, Save (drops when full), a goroutine that flushes once a second | router, Redis |
| boards and tasks `internal/auth/{service,repository}/{board,task}.go` | tables boards, tasks | create, rename / move / update, delete with cascade, list | router only |
| chat history `.../chat.go`, `message.go` | table messages | Record (errors ignored), History (the newest 50 of room, all and private) | router |
| users `.../auth.go`, `handler/middleware.go` | table users (soft deletion) | register, login, set manager, update profile, change role, delete | HTTP, one goroutine per call |
| leave `.../leave.go`, WFH `.../wfh.go`, policy `.../policy.go` | two tables of requests, one row of policy | create (quota of the year, or of week and month; approver), approve / reject, set policy | HTTP, users |
| diary, holidays, proximity, protocol, ids, configuration | | | |

### What is hard in it

* Three kinds of goroutines (hub, router, two pumps per connection) over bounded and unbounded
  channels, all of which may block: deadlock, and progress that depends on somebody else.
* A user may refresh (second connection before the first is gone), have tabs in several rooms
  and switch rooms: who is online, who is where, and who is told what must survive all orders.
* Messages are tagged with the room of the moment of reading and handled later; events and
  messages reach the router over two channels without an order between them.
* Positions are written behind and may be dropped, delayed or lost with the process.
* The REST part reads a row, changes the copy and saves it whole, without transactions; each
  database access may fail, and many errors are read as "nothing found".

### What makes each component correct

* hub: never sends on or closes a closed channel; one connection of a user per room; loses no
  connection; its events tell the truth about presence and seats.
* pumps: a connection that is kicked ends, both goroutines of it, and leaves the hub.
* router: follows the hub; a newcomer sees everybody as the others do; what is private stays so.
* positions: what is stored is never older than what was stored; who stands still is stored.
* boards: no task without a board; nobody is shown an older state after a newer one.
* chat: who is present has been shown everything stored for them, live or as history, and
  nothing that is not for them.
* users: only HR changes accounts, by today's role; no email twice; nothing lost without a race.
* requests: what passes the quota on real dates fitted it at some moment; a request keeps its
  approver and content; it is decided once, by that approver.

## 2. The modules

    Hub  <-  HubSystem  <-  HubProofs  <-  OfficeProofs   hub against any environment; proofs
             HubSystem  --implements-->  Office
             HubSystem  <-  MCHub
    Hub  <-  Client  <-  ClientSystem  <-  MCClient, ClientProofs    with pumps
             Client  <-  Router  <-  RouterSystem  <-  MCRouter, RouterProofs   the whole realtime server
             RouterSystem  --implements-->  HubSystem
    Floor  <-  Kanban, Chat  <-  FloorSystem  <-  MCFloor, FloorProofs   what is stored and shown
    Positions  <-  MCPositions, PositionsProofs
    Requests  <-  MCRequests, RequestsProofs     Users  <-  MCUsers, UsersProofs

ClientProofs instantiates HubProofs, and RouterProofs OfficeProofs, so that what is proved of the
hub is used, not proved again.

**Hub.tla** is `Hub.Run`.  `rooms`, `room` (`Client.room`) and the channels are variables;
`closed` is the set of connections whose `send` is closed.  Each case of the `select` is an
action; a case that goes on to send on a channel that may be full ends in an intermediate state
and is continued by `Emit` (one pending event), `Deliver` (one recipient of a broadcast, in any
order: Go iterates over maps at random) or `SwitchEnter` (after the Left of a switch).  While one
is pending no other case is taken (`Idle`).  Unbuffered channels are the `phase` of the
connection: `ServeWs` offers a register, `Hangup` an unregister, and the peer waits until the hub
has taken it.  **HubSystem.tla** closes it with the most general environment: any connection may
come and go, any command may be put in `out`, any switch be requested, and a reader of events that
remembers what it was told (`told`, `seated`).

**Office.tla** is the abstract specification: users who come, go and walk between rooms, and a
reader who hears of exactly that, in order.  It knows no connection, kick or channel.
`HubSystem!ImplementsOffice` is the refinement: a user sits where a connection of the user is
(`rooms`), walks while a connection is between rooms (`moving`), and the news is what is pending
in the hub's goroutine and in `events`.  Register is `Come` (a refresh comes again without an
Online), the unregister of a member `Go`, that of a kicked connection a stutter, a switch `SetOut`
and `Arrive`; blocking, broadcasts and pumps are stutters.

**Client.tla** is `client.go`: `held` is the message `readPump` has read and tagged and not
yet pushed, `dead` are those whose `writePump` has returned, `cut` those whose socket is
closed.  Deadlines, pongs and network errors are reads and writes that may fail at any time;
writes fail before the hub has let go only for connections in `Flaky`.

**Router.tla** is the router on top of both, with its own pending sends `rout` and `rswitch`
(a `Broadcast` may block half-way through a handler).  Messages are records with the fields
that decide who gets them.  **RouterSystem.tla** wires everything as `main.go` does; `view`
records what has been written to each socket about presence, and `seated` who is where by the
events the router has taken, as in HubSystem.  What a handler sends while it iterates over a Go
map comes in any of the `Orders` of a set.  A rough map from code to model:
`handleEvent` -> `HandleJoined`, `HandleLeft`, `HandleOnline`, `HandleOffline`; `handleMessage`
-> `HandleAvatar` (join, move, sprite_change), `HandleSwitchRoom`, `HandleChat`,
`HandleCallStatus`, `HandleSignal`, `HandleCall`, `HandleObject`, `HandleEdit` (boards, tasks).

**Positions.tla** splits an avatar's place from the rest: `Arrive` (Joined: Load, Save),
`Move`, `Touch`, `Depart`, and the writer `Coalesce` (one save from the channel into `pending`),
`Flush` (some of the pipeline's commands are done and all pending is forgotten), `Restart`.

**Floor.tla** is what stored things share: connections in rooms, ids the server hands out, the
queue `out` delivered in order to those who are there by then, and `told`, the version of each id
a peer was last told.  A version number stands for every text.  **Kanban.tla** has the tables of
boards and tasks and the eight messages on them; `DeleteBoard` and `FinishDelete` are the two
writes of the cascade, between which the process may end.  **Chat.tla** has the table of messages:
`Record` stores if the database lets it, `Sends` is the switch on the scope, `Newest` the query
with its limit by a time in whole seconds, `Histories` the three of them a newcomer gets
(`Partial` when some fail).  **FloorSystem.tla** composes them in one router: `HandleJoined` sends
boards, tasks and history (`Snapshots`: one of the `Notes` for each id, in the order of their
numbers, as no two orders tell anything apart), `HandleMessage` handles or refuses a message,
`Restart` loses all but the tables.  Pumps, full buffers and the hub's `select` are the subject of
Hub, Client and Router.

**Requests.tla** and **Users.tla** have a state machine for each HTTP call in progress, with one
step for each database access and the local variables of the handler in its record.  A copied row
is in that record: saving writes all of it.  In Requests, leave and days at home are forms of two
kinds in one table; a quota check is `ReadPolicy` and then `CheckQuota`, or `CheckWeek` and
`CheckMonth`.  Dates are texts.  The database compares them as they are; the service parses them
and never looks at the error, so that a text that is no date is 1 January of the year 1 to it and
keeps its own place in the tables.  Texts are therefore numbers in alphabetical order: 2d is the
date of day d, 2d + 1 stands for the texts between that and the next date (2025-02-30).  `Parsed`
is `time.Parse`, `Written` is `Format`; `Week`, `Month` and `Year` are the ranges of texts the
queries are given, `Week` with Go's `Weekday` and all (day 0 is a Monday), `Year` as `%d` writes it,
which for the year 1 is a range where there are no dates.  `Span` is `countDays`, which stops at the
longest `Duration` (`Horizon`); the sum of the spans, `Days`, counts the days one by one (`Taken`,
less `Owed` where spans are negative).

Beside this stands the calendar: `SameWeek`, `SameMonth`, `SameYear` of day numbers, the days a
leave takes (`DaysOff`), and what of them and of days at home is approved (`Used`, `Near`).  `Fits`
says with them alone that a request is within the policy.  It asks nothing of a request that has no
real date (not `Dated`), nor of one in whose year a leave without a real end is approved
(`Spoilt`), which the code takes for less than nothing.  The history variable `cleared` holds the
calls whose form has fitted since they began, and those that were misled: by a failed query or
by an approval that was overwritten (`Undone`).

## 3. The runs

Runs that pass exhaust their state space.  Operators preceded by a comment
"Mutant:" belong to no specification: `Register_NoClose` is `Register` with a plausible bug,
and replacing one by the other shows that a property of the run notices it (`PROJECT.json`,
"mutants").

| run | instance | what it shows |
|---|---|---|
| `hub` | 3 connections of 2 users, 2 rooms, all capacities 1 | TypeOK; `NeverOnClosed`, `WellPlaced`, `NoneForgotten`; `PresenceAgrees` and `SeatsAgree`: what a reader of events believes once it has read everything on its way is what the hub has; `ImplementsOffice`: the hub implements Office |
| `client` | 2 connections of 1 user, 1 room, capacities 1, no flaky writes | under fairness: `RegisterAnswered`, `KickedDies` |
| `client_flaky` | the same, one connection whose writes may fail | **violated** `KickedDies`, see 5 |
| `router` | 2 connections of 1 user, 2 rooms, one switch | `OnlineAgrees`, `MembersHaveAvatars` through refreshes, tabs and a switch |
| `router_two` | 2 users, 2 rooms, one message of any kind | `ViewsAgree`, `NobodyLingers`, `PrivateIsPrivate` |
| `router_circle` | small buffers, a history of 2 messages | **violated** `NoCircularWait`, see 5 |
| `router_ghost` | one move | **violated** `NoGhosts`, see 5 |
| `positions` | 2 avatars, 3 places, channel of 2, 4 saves | `NewestFirst`, `RedisInOrder`, and under fairness `StandingIsStored` |
| `floor` | 2 clients, 2 rooms, 3 messages, 3 joins; a board and a task, or 2 chat messages and a history of 1 | `TasksHaveBoards`, `RoomSeesItsEdits`, `NeverBack`, `NothingMissed`, `KeptInScope`, with failing database and restarts |
| `requests` | 2 calls, 2 people, 1 request; limits 0 and 1; one type of leave, on a day of either of two years, or with a start or an end that is no date; three days at home in two weeks and two months, and one that is no date | `Admitted`, `RequestsAreFixed`, `ApproverDecides`, with failing database |
| `requests_double` | the same, but the database does not fail | **violated** `DecidedForGood`, see 5 |
| `users` | 2 calls, 2 users, 2 emails | `PowerIsCurrent`, `EmailsUnique`, `AnswersAreKept` |

### Bounds, and why they are enough

* *Connections and users.* The hub needs a user with two connections (refresh, second tab) and
  another one; a third connection of the same user adds kicks of kicks, which are the same
  step again.  The theorems hold for any number.
* *Capacities of 1* make full and empty one step apart, so every blocking send blocks
  somewhere; larger buffers only postpone it.  The capacity of `out` in `router` is 6, so that
  the circle of section 5 does not hide what happens after a join.
* *Kicked and gone connections do not come back*: a connection is a socket, and `Client` is a
  set of sockets.
* `MaxSaid` (messages of the peers), `MaxSaves` (saves), `MaxCount`, `MaxJoins`, `MaxIncoming`,
  `MaxOut` (Floor) are bounds of the model, each in a guard and named in its module.
  `HistoryLen` and `ObjectCap` stand for the number of messages a newcomer is sent and of objects in a room.
  Users and Requests need none: their calls come for ever.
* *Commands of `hub`* are one for a room and one for a user: the others differ only in whom the
  hub waits for, which the room and the user already make all of the sets it can be.  No event
  depends on them.
* *Pools.*  A behaviour of `floor` is about boards and tasks or about chat, not both: `Pools` is
  the set of sets of ids to choose from.  The two share `out`, the peers and the handler of a
  join, and no row of one is read for the other, so the interleavings that matter are those
  within one; one joint run of this size is out of reach.  A history of 1 with 2 messages is at
  its limit and past it; the code's is 50.
* *Private messages* of `floor` go to somebody else; one to oneself is sent twice to the same peer.
* *Requests.*  One request per behaviour, with limits of 0 and 1, so that the request itself,
  approved, uses up the quota of the next form; the three days share a month, a week that ends
  with a Sunday, or neither.  The quota compares counts, so larger limits only repeat it.  The
  calendar is a small one, of months of about thirty days and years of two months and of one;
  nothing depends on their lengths.  The text that is no date comes right after the last day of a
  month, as 2025-02-30 does: in the range of its week, not in that of its month.  `Horizon` is 3
  days, so that a leave with an end or a start that is no date meets it.
* *Messages that wait* for the router in `floor`: one (`MaxIncoming`); the code has place for 256.
  What can differ is where the sender is when the message is handled, and one message that waits
  while its sender moves shows that.  The theorems hold for any number.
* *Symmetry* is used in `hub`, `floor`, `users` and `requests`, over values nothing distinguishes,
  and never with liveness.

Deadlock is checked where the system can always go on (`hub`, `client`, `positions`, `floor`,
`requests`, `users`).  In the `router` runs the peers may have said all they may and all
connections be gone, or hub and router wait for each other; in `client_flaky` the hub wedges, which
is what the run is about.

### Fairness

`client` and `positions` have liveness properties.  `FairSpec` gives weak fairness to what a
goroutine does whenever it can (a pump that can read the channel, the writer that flushes on
its ticker, the router that takes what it is sent), because the Go runtime runs every runnable
goroutine.  The cases of the hub's `select` get strong fairness: Go picks at random among the
ready cases, so a case that is ready again and again is taken; and to a pump that waits, among
others, for a place in `incoming`.  Nothing is assumed of peers,
of Redis or of the process: they may never say anything again, fail or restart
(`StandingIsStored` is about those saves that are neither dropped nor fail).

## 4. What is proved

Every invariant and every action property that a passing run checks is a theorem, for all values
of the constants.  TLC alone has the liveness properties and the four violations.

`HubProofs.tla`, checked by TLAPS for every set of connections, users, rooms and data and every
capacity:

* `TypeCorrect`: Spec => []TypeOK.
* `Safe`: Spec => []HubInv, the inductive invariant.
* `NoSendOnClosed`, `OnePerRoom`, `NoConnectionForgotten`: the three safety properties
  `NeverOnClosed`, `WellPlaced`, `NoneForgotten` of run `hub`.

The assumptions are `HubAssumption` (ids are users, the lobby is a room, `None` is neither user
nor room; nothing about capacities) and `SystemAssumption` (the environment's commands and
requests are well-formed).

*Why HubInv.* None of the three is inductive.  That a send meets no closed channel needs that
every member is open (`MembersLive`), which a register keeps only because those it closes have
the id it registers and leave the room in the same step; unregister finds its connection under
`Client.room`, so every member must be where that says (`WellPlaced`); a switch takes a
connection out of all rooms for a while, in which it must be the only one (`MovingAlone`) and
must not be mistaken for a kicked one, which the condition that a broadcast is the only
job of the goroutine (`OneJob`) and the phase of closed connections (`ClosedLater`) secure.
The step proof has one case for each action and under it one for each conjunct.

`OfficeProofs.tla`, on top of it and from the same assumptions:

* `HubImplementsOffice`: Spec => ImplementsOffice.  Lemma `OfficeStep` maps each action of the hub
  to a step of Office or to a stutter; it needs `HubInv`, above all `WellPlaced` (an unregister
  takes the user's only seat in the room) and `OneJob`, since an event is announced when the hub
  begins to send it and not when there is a place for it (`Unseen`).
* `PresenceTold`, `SeatsTold`: Spec => []PresenceAgrees and Spec => []SeatsAgree.  Their invariant
  `Truthful` says for a user and a room that what a reader will believe after all pending news is
  so.  It is kept by the steps of Office alone (`TruthStep`), whatever the hub does to
  connections: an event that is added is the last word on its subject (`LastWord`), one that is
  read passes from the news to what is known (`FirstWord`).

`PositionsProofs.tla`, for any keys, places and capacity: `PositionTypes`, `CopiesInOrder`
(`NewestFirst`) and `NeverOlder` (`RedisInOrder`).  The invariant adds to `NewestFirst` only that
no copy has a number still to be given out; that Redis is never taken back is `NewestFirst` at a
flush.  Assumption: `PositionsAssumption`.

`ClientProofs.tla`, for any connections, messages, capacities and flaky writes: `ClientTypes`
(`TypeOK`), `HubStaysSafe` (`NeverOnClosed`, `WellPlaced` and `NoneForgotten` with the pumps as
the hub's connections) and `PumpsInOrder`.  Each step is a step of HubSystem, or takes an event,
of which `HubInv` does not speak; `told` and `seated` are therefore left empty in the instance.
What is new is `PumpOrder`: a message is held only before its connection asks to be let go, so
nothing of a connection that is gone is still to be pushed, and a socket is closed only by a pump
that has ended. Assumptions: `ClientAssumption`, `CommandAssumption`.

`RouterProofs.tla`, for any connections, users, rooms and capacities and whatever the peers say:

* `RouterTypes` (`TypeOK`).  The invariant `SystemInv` adds that `online` and the avatars of a room
  are finite, which makes the loops over Go maps (`Orders`) end.
* `ServerImplementsHub`: Spec => H!Spec, where H is HubSystem with every command and request
  admitted and `told` the router's `online`.  Lemma `HubSide` maps each step: a handler of an
  event is `ReadEvent`, its sends are the hub's `Router`, the pumps its `Connection`.  It is not a
  property of a run, since TLC would have to enumerate all commands; it makes all theorems about
  HubSystem and Office theorems about the server.
* `OnlineIsTrue` (`OnlineAgrees`) is `PresenceTold` through it; `AvatarsKept`
  (`MembersHaveAvatars`) is `SeatsTold`, and an invariant that who is `seated` has an avatar.
* `PrivacyKept` (`PrivateIsPrivate`): what is private is addressed to its reader or its sender on
  every channel it passes, from the router's pending sends to the hub's deliveries (`Private`).
* `ViewsAreRight` (`ViewsAgree`) and `NoneLinger` (`NobodyLingers`), by `ViewInv`.  That all views
  are right once nothing is on its way says nothing of the time before, so the invariant follows
  presence along the channels.  `Prompt`: what the router says of a user is so, and what is on
  `out` is so or followed by a broadcast that is.  `Following`: the same of the `send` of a
  connection. `Informed`: a connection has been shown what is so, or it is on the way, or its
  welcome is still to be made or delivered.  `Blank`: before it is registered it has been shown
  nothing.  The welcome is addressed to a user in a room and can miss a connection that has moved
  on; `Informed` is kept because moving on means another Joined, which brings another welcome.

Assumptions: those of the hub, `ClientAssumption`, `RouterAssumption`, `MessageAssumption` (what
peers may say is in the protocol, and what is sent to them are the server's messages) and
`SaidAssumption`.

`FloorProofs.tla`, for any boards, tasks, messages, rooms, peers and lengths of a history:

* `NoTaskFloats` (`TasksHaveBoards`), by `TablesInv`, which adds that boards are on no board and
  tasks on one, so that deleting a task, or the tasks of a board, takes the board of no other away.
* `FloorTypes` (`TypeOK`), by `FloorInv`: no number on its way is larger than `count`, and the
  tables are finite (`Tallied`).
* `ScopesKept` (`KeptInScope`): each note in `out` is for no more than its message is (`Scoped`).
* `NeverTakenBack` (`NeverBack`), by `Mounting`: for each board and task, the numbers in `out` do
  not fall, and are between what anybody has been told and what is stored.  It holds only of what
  is not known to be left behind (`undead`), and needs `BoardGone`: the announcement of a deletion
  that is still to be made (`FinishDelete`) concerns no living board.
* `RoomsSee` (`RoomSeesItsEdits`) and `NoneMissed` (`NothingMissed`), by `LastWord` and `Sees`: a
  client the router expects nowhere else has been told what it is due, or it is in `out` for the
  room the client is in. `LastWord` says that the last event of a client is where it is; without
  it an older join could lift the mark that a snapshot has failed (`blind`) of a client who has
  moved on.  What a client is due (`Due`) only shrinks as messages come, which is why a history of
  any length will do.

Assumptions: `KanbanAssumption` and those of Floor and Chat.

`RequestsProofs.tla`, for any number of calls, requests and people, any calendar, texts, longest
`Duration` and policies: `Requests` (Spec => []RequestsInv), `RequestTypes`, `NothingRewritten`
(`RequestsAreFixed`) and `OnlyTheApprover` (`ApproverDecides`), for leave and days at home alike.
`SaveRow` writes a copy read some steps before, so what it does to a request depends on the
copy: `RequestsInv` is TypeOK and `CopiesDecided`, which says that a copy differs from its row
in the status at most and that its decider is the row's approver.  It is inductive because no
step alters content or approver (lemma `Fixed`), whatever becomes of managers meanwhile.

`AdmittedRightly` (`Admitted`) is about two to four queries with anything between them.  Its
invariant `QuotaInv` says what stops a call that is not `cleared` (`Stopped`): before the policy is
read nothing need, after it the days exceed the limit that was read, or the week or the month
does, and after the week has passed it is the month.  A limit that is read is the policy of that
moment, and what the calendar has as approved only grows from then on (`UsedGrows`, `NearGrows`),
so what stops a call goes on stopping it.  It remains to show that the checks, which know texts
only, see no less than the calendar.  `WeekIs`, `MonthIs` and `YearIs` show that, among dates, the
ranges of the code are the weeks, months and years of the calendar; texts that are no dates can
only add to what is counted (`CountsEnough`), and, as long as no leave of the year has an end that
is no date, to the days as well (`DaysEnough`).  So no check lets such a call pass.  Assumption:
`RequestsAssumption`, and behind it that the database compares texts as Go does, byte by byte.

`UsersProofs.tla`, for any number of calls, users and emails: `Accounts` (Spec => []UsersInv),
`UsersTypes`, `OneAccountPerEmail` (`EmailsUnique`), `NothingLostWithoutARace`
(`AnswersAreKept`) and `PowerEnds` (`PowerIsCurrent`).  Here, too, copies carry the argument:
`CopiesFit` says a copy has the email of its row, so that a late save takes nobody's email, and
that outside a race it is its row, so that saving all of it changes one column; `RacesSeen`
says a second reader of a row is always noticed; `Judged` carries the power of the caller from
`RequireAuth` to the save.  Assumption: `UsersAssumption`.

Only model-checked: `RegisterAnswered`, `KickedDies` and `StandingIsStored`, as liveness under
fairness is out of the reach of the prover, and the violations of section 5.

## 5. What the code does against its own comments

With a run:

* `client_flaky`: a write fails, `writePump` returns, and nobody drains `send` while the
  connection is still a member; once 256 messages are queued the hub blocks on it
  (`hub.go:173`), and with it everything, if `readPump` has not yet been served its unregister.
* `router_circle`: hub and router wait for each other, one on `events` and one on `out`
  (`hub.go:67-68` says the buffers prevent that).  With the code's sizes it takes a join whose
  snapshot does not fit in what is left of the 1024 places of `out` while 64 events wait.
* `router_ghost`: a move read before and handled after the Left of its sender makes an avatar
  where it moves to (`message_router.go:407`), which stays, and is shown to every newcomer, until
  its user comes back and leaves again.
* `requests_double`: two decisions at the same time both find the request pending; the later one
  overwrites the earlier (`service/leave.go:79-96`, and `service/wfh.go:55-73` alike).

Known divergences without a run (met while modelling; properties are stated so that they hold
beside them):

* `hub.go:103` and `136` say one user has one connection; a second tab in another room is a
  second one, and `SendToUser` reaches both.
* `inCall` is not cleared when a message of a user is handled after its Offline
  (`message_router.go:31`); `roomOf` names the room last joined although another tab is still
  elsewhere (`:32`).
* A `signal` without an addressee goes to the whole room, as the hub takes an empty id for it.
* The last save of an avatar is dropped when the channel is full (`redis.go:61`) and not made
  up for; who comes back within the second of a flush is put where Redis last had him.
* The quotas count approved requests at the time of creation only (`README.md:193`): two pending
  ones are both approved.
* Dates that are none get past the quotas, as the error of `time.Parse` is dropped; `Admitted`
  promises nothing to such requests.
  - The start of a leave (`service/leave.go:117`): the year asked for is 1, and no date lies
    between `1-01-01` and `1-12-31` (`repository/leave.go:118-123`).  `2025-02-30` to `2025-02-31`
    counts 1 day and passes whatever 2025 has used.  Once approved it does count in 2025, as
    1 day.  With a real end it would be 106752 days, and is refused.
  - The end of a leave only (`service/leave.go:145`): about -106750 days.  Once approved, they are
    taken off what its year has used, and the next requests of that year pass (`Spoilt`).
  - A day at home (`service/wfh.go:92`): the week and the month asked for are those of 1 January
    of the year 1, so it passes unless a limit is 0.  Once approved, it is counted where its text
    falls: `2025-02-30` in the week of 28 February, but not in the month.
* A chat message with a scope the switch does not know goes to the room (`message_router.go:237`)
  and is stored under that scope, so that no history ever shows it.  A message the database
  refuses is sent all the same (`chat.go:24` says so) and missing from the history.
* Boards and tasks are shared by all rooms, but changes are told to the room of the sender
  (`message_router.go:24`); the others see them when they join again.  A deletion the database
  refuses is announced all the same.
* Changes of a user that race lose one of them; one that races a deletion brings the user back,
  since GORM's `Save` inserts (on conflict updates) when its UPDATE finds no undeleted row.

## 6. What is left out

* *Within the modelled parts*: texts, JSON and messages that do not parse; coordinates (places
  are model values); the expiry of a position after seven days; which HR user is the fallback
  approver (`HR` is one, or none); hashing, login and the format of tokens; order within
  a snapshot of boards; pagination and listing, which change nothing.
* *Diary*: one upsert on a unique pair of user and date, and reads after it or alone; *holidays*:
  single statements on one table.  No change depends on something read before, so nothing in
  them can be lost between two steps.
* *Proximity*: a floating-point function that nobody calls yet.
* *Configuration and wiring*: environment, routes, CORS, static files.

## 7. Plan

Done, in this order: Hub with its proofs, Client, Router, Positions, leave, Kanban, Users, the
proofs of leave and Users; then Office with the refinement, Requests (leave with days at home
and the policy, proofs adapted), Chat and its composition with Kanban, and the proofs of the
refinement, of Positions and of boards.  Then the
proofs of everything the runs check but liveness: the whole server implements HubSystem, what peers
see of each other, what they are shown of boards and chat, the pumps, and the quotas.

Left:

1. Safety parts of the liveness properties: that hub and pumps can block each other in no other way
   than those of section 5 (who waits for whom, as an invariant).
2. The hub shown to make every send in the order of `out` for each connection, as an abstract
   channel per peer, so that Floor's queue is a theorem about Hub and not a model of it.
3. Who may read a diary while managers change.
