# qim in TLA+

qim is an instant-messaging server written in Go (`src/backend`) with a React
client (`src/frontend`). The server is a set of actors on a small actor runtime
of its own; users connect by WebSocket. These modules model the server's actors
and the runtime they stand on, check them with TLC on small instances, and prove
what matters most with TLAPS for every size.

## Inventory

| Component | Source | State it keeps | Operations | Interacts with |
|---|---|---|---|---|
| mailbox | `actor/mailbox.go` | queue, stopped flag, waiting goroutines | Push, Pull, Stop | every sender, the processLoop |
| engine | `actor/engine.go`, `actor.go`, `context.go` | registry name -> instance, life of each actor | Spawn, GetOrCreate, Lookup, Stop, Shutdown, processLoop, restart | mailboxes, timers, watches |
| future (Ask) | `actor/future.go` | result once | reply, replyError, wait | asking goroutine, answering actor |
| timers | `actor/timer.go` | timers per owner | Schedule, Cancel, cancelOwner | clock goroutines, mailboxes |
| watches | `actor/watch_manager.go` | watched -> watchers, a monitor goroutine each | Watch, Unwatch, cleanup, monitor | done channels, mailboxes |
| metrics | `actor/metrics.go` | counters and gauges per actor | increments, a snapshot | engine, timers, watches |
| presence | `domain/presence` | gateways per user | connected, disconnected, queries, Terminated | gateways, event bus, call |
| gateway | `transport/ws/gateway.go` | connection, idle timer, rate window | OnStart, OnStop, receive, push | presence, event bus, the routers |
| event bus | `eventbus` | subscribers per event | subscribe, unsubscribe, publish, Terminated | all publishers, the push handlers |
| push | `transport/ws/push_handler.go` | none | route an event to the users' gateways | presence, gateways |
| call | `domain/call`, `transport/ws/call.go` | busy users, one actor per call | initiate, accept, reject, cancel, end, timeout, Terminated, signals | presence, gateways, call store, conversation |
| conversation | `domain/conversation`, `dal/conv_store.go` | rows of conversation, members, messages, unread views; an actor's copy of them | send, revoke, members, roles, owner, leave, dissolve, read, pin, mute, call records | event bus, store, call |
| friend | `domain/friend`, `dal/friend_store.go` | rows of requests, friendships (one row each way), groups | request, accept, reject, delete, move, groups | event bus, store |
| user | `domain/user`, `service/user_service.go`, `dal/user_store.go` | user rows with the time of the last connection; a session actor per user, without a copy of its row | register, login, profile, password, last connection | store, HTTP, gateways |
| message history | `domain/message` | none | list by sequence | store |
| write-ahead log | `wal` | none (an interface without a caller) | | |
| HTTP | `transport/http`, `middleware` | none | handlers that ask actors | services |
| wiring | `cmd/server` | none | start, shutdown | all |
| client state | `frontend/src` reducers and stores | conversations, messages, call state | optimistic send, acks, pushes, call phases | the WebSocket |
| pages | `frontend/src` components | view state | | client state |

Hard behaviours, the reason for these modules: several goroutines at one
mailbox; Asks that block an actor while messages pile up behind it; actors that
end while messages, timers and death notices for them are on their way; a
conversation actor whose copy of the rows must agree with the database when a
write fails; retried sends; two gateways of one user; a push path in which
actors with bounded mailboxes block on each other.

`PROJECT.json` lists every component with what is modelled of it, and every
hazard at the line where it bites.

## Modules

| Module | What it is |
|---|---|
| `Inbox` | abstract: a bounded inbox with atomic sends |
| `Mailbox` | `ChanMailbox` at the grain of its mutex, its senders, the processLoop, Stop |
| `MailboxProofs` | theorems about `Mailbox` |
| `Directory` | abstract: names bound to one actor at a time |
| `Engine` | registry, Spawn, GetOrCreate, Stop, Shutdown, the loop with its restarts |
| `EngineProofs` | theorems about `Engine` |
| `Lifetime`, `Timers`, `Watch` | the end of an actor; the timer manager; the watch manager with its lock and monitors |
| `Signals` | composes these three: notices and timers while actors end |
| `SignalsProofs` | theorems about `Signals`: its types, timers, metrics and notices |
| `Roster` | abstract: who is online, announced once per change |
| `Delivery` | gateways, presence, event bus and push actor with bounded mailboxes, Asks, one watch per gateway |
| `DeliveryProofs` | theorems about `Delivery` |
| `Room` | abstract: a conversation whose rules are decided by the roles in force |
| `Conversation` | the rows, the conversation actor with its copy, the manager, crashes |
| `ConversationProofs` | theorems about `Conversation`: the copy, the numbers, the roles, the Room; then answers, pushes, counters |
| `CallSession` | abstract: engaged users, calls that ring, are answered, end, are logged |
| `Call` | call manager, call actors, gateways, presence, ring timer, watch monitors |
| `CallProofs` | theorems about `Call` |
| `Friendship` | abstract: friends by request and agreement |
| `Friend` | the friend manager and its three tables |
| `FriendProofs` | theorems about `Friend` |
| `UserCommands` | what may be asked of the user domain, and its rules |
| `Accounts` | abstract: commands that take effect at one moment, passwords by compare-and-swap |
| `User` | user manager, session actors, callers, store, crashes |
| `UserProofs` | theorems about `User` |
| `MCMailbox`, `MCEngine`, `MCSignals`, `MCDelivery`, `MCConversation`, `MCCall`, `MCFriend`, `MCUser` | instances for TLC |

`Mailbox` is the ground of the others: what it promises (a sender's messages in
its order, nothing lost before the actor ends, a Tell that returns once there is
room) is what `Signals`, `Delivery`, `Call`, `Conversation` and `User` assume
when they write a mailbox as a sequence, as a set of numbered requests, or leave
it out. `Engine` gives the name of an actor to one instance at a time, on which
`User` and `Conversation` rely. `Signals` has the watch table with many
watchers; `Delivery` and `Call` use watches of one watcher each. `Conversation`
takes part in a call at its end (`AppendCallRecord`), and what it publishes is
what `Delivery` carries to the devices.

### Mailbox

`Push`, `Pull` and `Stop` hold one mutex, so an action is what a goroutine does
between two points where it gives the mutex up: a pass of `Push`'s loop
(`PushPass`), a pass of `Pull`'s (`PullWait`, `PullMessage`, `PullEnd`), `Stop`.
`sync.Cond.Wait` puts a goroutine into a wait set (`waiting`; `loop = "waiting"`
for the one reader), `Signal` moves one, any one, to those that may run
(`woken`), `Broadcast` all; who runs tests its condition again. A policy's
`OnFull` may answer anything the constant `Policies` allows, at every pass.
`processLoop` is the reader: `Finish` is its deferred function. Dead letters are
the set of messages handed to `emitDeadLetter`. The handlers themselves are not
here: they return, and what they send is another mailbox's `Tell`.

### Engine

`actors` is the registry; `loop` says where the goroutine of an instance is,
from `unborn` to the closed done channel. `call` is what a goroutine that uses
the engine is in the middle of: `GetOrCreate` reads the flag, looks under the
read lock, spawns under the write lock and may look again; `Stop` takes the
name away and then stops the mailbox; `Shutdown` empties the registry, stops the
mailboxes one by one and waits for the done channels or its context. The end of
a loop is three steps (`unregisterIfCurrent`, `CloseMailbox`, `Done`), since
others see the states between them. A panic does what the strategy says;
`PanicRestarts` covers a missing factory, a limit that is reached (any number of
the recorded restarts may still be in the window), and a factory that returns
nothing. `objects` counts the `OnStart` less the `OnStop` calls. Of a mailbox
only the number of messages, a PoisonPill and the stopped flag are kept: in
which order they are taken is `Mailbox`'s matter. A panic in `OnStart` or
`OnStop` is not recovered and ends the process; it is not modelled.

### Conversation

The store's rows are `conv`, `row`, `unread`, `messages`; a transaction of
`conv_store.go` is one step on them (SQLite, one connection). A handler of the
conversation actor is two actions: its guards, read from the copy `cache`, with
the transaction; then `Settle`, which changes the copy, publishes and replies
as `after` says. Between the two the manager may run its own transactions, and
the server may crash. Refused commands and failed transactions change nothing
and are not actions. The actor's life is `loop`: spawned by the manager or by
`ConvService.ConvRef`, `OnStart` (which may fail to load the conversation, or
its members), handling, taking the PoisonPill of an idle timer, of a failed
start or of a dissolution, and unregistering. `making` is the rest of the
manager's work for a new conversation. `acks` and `pushed` record what clients
were answered and what was published.

### Call

An action is what an actor does between two points where others get to run: a
message taken, an Ask sent, an answer. The manager asks presence and the call
actor, the call actor asks presence, a gateway asks the manager; each Ask may
be answered late or, with the fault `"ask"`, never. A gateway's life is off, up,
stopping (unregistered), done; `Monitor` and `MonitorTell` are the watch
manager's goroutine, which reads the watchers and then tells them one by one.
Presence answers from a map, so "the first gateway" is any of them. The row is
written and the end published by `Stop` (`OnStop`), the users are freed when the
manager handles the `Terminated` of the call actor.

### Signals

`Lifetime` has the order of the deferred function of `processLoop`: cancel the
timers (`timers`), clean up the watches (`watches`), stop the mailbox, close
`done`. In `Timers` a timer that fires is a goroutine of its own: `Fire`,
`FireFinish` (out of the table, once), `FireTell`; `Cancel` asks
`time.Timer.Stop` whether it came in time, and `CancelOwner` takes the owner's
timers out of the table before it stops them one by one. In `Watch` a step that
takes and gives back the lock of the table is one action; only `add` can keep
it, telling its caller of an actor that has already ended while the caller's own
mailbox is full (`lock`, `AddEnded`, `AddTells`). A state of a watched actor has
its watchers and a monitor, which waits for `done` or `stopCh`, takes the
watchers out and then counts and tells them one by one (`left`, `at`). `tally`
and `active` are what `metrics.go` counts of timers and watches, changed where
the code changes them and not where it would be convenient: `owes` is the gauge
a loop has still to move after `add` or `remove` returned.

### Delivery

A handler changes its actor's own state at once and leaves the calls it makes in
`todo`, in their order. Each is a step: a `Tell` waits for room, an `Ask` waits
for room and then for the answer (its timeout begins with the delivery, and may
fire only where the story says answers may be late), a `Watch` and an `Unwatch`
touch the gateway's monitor, `done` ends it. An actor with calls to make pulls
nothing. So presence, bus and push can wait for one another exactly as the code
lets them, and `WaitsFor` names whom. The clients' part (`view`, `asked`) is the
set a device shows when it applies what it receives in its order. Friend lists
are a constant here and the conversations one source of messages.

### Friend

One manager actor, so a command is one step on the tables; whether a later
statement of a transaction fails is the outcome in which nothing changes.
`requests` is the table in the order of its keys, `friend` and `groupOf` the
rows in both directions, `groups` the rows of groups. `HasPendingRequest`
asks both directions, but `Accept` reads a request's row and not whether it is
still pending when it is called again with an accepted one: what that does after
the two have parted is part of the state space.

### User

`users` is the table, `manager` the mailbox of the manager, `actors` the session
actors that were ever spawned with their mailboxes, `session` the registry of
the manager. Mailboxes are sets of request numbers, the oldest being the
smallest. A command of the manager is one call of the store and the answer. A
session's change of a password is two: `ChangePasswordRead` compares with the
row it reads, `ChangePasswordWrite` writes the one column of whatever the row is
by then (`SetPassword`), while the manager goes on writing the time of the last
connection. A request remembers its caller, who waits for a future or does not:
frames of a WebSocket that change the user are acknowledged before they are
handled, and nobody waits for their outcome. `Crash` ends the process: the table
stays, everything else starts again.

## Runs

| Run | Instance | Question |
|---|---|---|
| `mailbox` | 3 senders of 2 messages, size 2, all policies, a PoisonPill | wake-ups, places, order, the Inbox, Tells return, Stop drains |
| `engine` | 1 name, 2 instances, 2 callers, 3 strategies, 1 restart | the registry, hooks, the Directory, Shutdown ends everything |
| `signals` | 3 actors, 1 timer, mailboxes of 1, three plans | who is told of an end and how often, timers of the dead, exact gauges |
| `delivery` | 2 friends, up to 3 connections, mailboxes of 1 or 2, six stories | presence true, views settle, the Roster, who can wait for whom |
| `conv_messages` | 2 users, 1 client id and none, 2 messages | the copy, numbers, retries, answers, pushes, counters |
| `conv_members` | 3 users, 1 message, limits 2 and 3 | roles, owner, limit, departures, the Room |
| `call_busy` | 3 users, 3 devices, 2 calls, 2 commands | nobody is in two calls, marks live as long as calls |
| `call_session` | 2 users, 1 call, 2 commands, all faults | the CallSession, with its liveness |
| `call_hangup` | callee on 2 devices, 3 commands | the row against the events, lost devices end the call |
| `call_deserted` | callee on 2 devices, 2 commands | finding: a connected call with nobody at one end |
| `friend` | 3 users, 2 requests, 1 group, 2 names | rows in step, one open request, groups kept, the Friendship |
| `user` | 1 user, 3 commands of a kind, 1 crash | each command at one moment, the last update stands, callers answered |

Why these bounds are enough to be interesting:

- Mailbox: with size 2 and three senders one can wait while another overtakes
  it and a third is woken for a place that is taken again. Two messages each
  show the order of one sender.
- Engine: what goes wrong with names takes an instance that ends, its
  successor and two callers between them; other names do not touch either.
  `MaxBacklog` bounds the messages of a mailbox; one that panics after the limit
  of restarts, or is queued at Stop, is enough.
- Signals: `Plans` says who may watch whom, schedule and end: two watch a third
  (a monitor with two to tell, one of whom ends or unwatches between); one
  watches and has a timer (the order of the deferred function); two watch each
  other (both ends at once). Two watch states are an old one whose monitor still
  tells and the new one of a second `Watch`; `MaxCalls` allows that second call.
  Capacity one makes monitors, timers and `add` wait for a full mailbox.
- Delivery: `Stories` chooses what may happen on each connection, so that each
  of the races has a small instance: a user who goes and comes again before the
  eyes of a friend; a login and a message towards a device that asks, with
  answers that are late; the same with an idle timer; two devices of a user; and
  size two, in which the rings need more messages to close. Within a story every
  order is explored.
- Conversation: messages need a first and a second number for a gap, and a
  retry of one in between; two users are a sender and one who counts unread
  messages. Roles need three users: an owner, an administrator, one acted upon;
  limits two and three are met exactly. `MaxSeq` bounds only the messages; the
  other commands, reloads and crashes come any number of times.
- Call: one call with three commands lets an accept, an end and a third command
  race the timer and two devices; two calls and three users let two commands
  compete for one user. `MaxCmds` bounds the commands; timers, connections and
  monitors are bound by what exists.
- Friend: `MaxRequests` counts rows of requests. The second is the one that meets
  what became of the first: refused, accepted, or accepted and parted. All other
  commands come any number of times.
- User: `Themes` chooses the kind of the three requests: passwords against
  connections; profiles over both transports; a name registered twice. A request
  that reads, one that overtakes and one that is read late are three.

`CHECK_DEADLOCK FALSE` stands in the instances in which everything may be over:
in `Call`'s when the clients have sent their `MaxCmds` commands and closed their
devices, in `Delivery`'s when the story is told (or a ring of full mailboxes has
closed, which `DeadlocksNamed` asks about itself), in `Signals`' when every
actor has made its calls or ended, in `User`'s when `MaxRequests` is reached.
Mailbox, Engine, Conversation and Friend are checked for deadlock.

## Fairness

`Mailbox!FairSpec`: the processLoop pulls whenever it can and finishes, and a
woken sender gets the mutex in the end. Go's scheduler runs every runnable
goroutine, and `sync.Mutex` hands itself to a waiter that starves. Nobody has to
send or to stop the actor. `Engine!FairSpec`: a call that has begun goes on (no
lock of the engine is held while waiting), handlers and hooks return, and the
loop runs on; no call has to begin, and no context has to end. `Call!FairSpec`: manager, call actors, monitors and the
end of a gateway's loop run on; an armed timer fires. Connecting, disconnecting,
commands, and faults are never forced.

`Signals!FairSpec` and `Delivery!FairSpec` are weak fairness of `Server`, the
disjunction of what goroutines of the server do by themselves: while one of them
can run, one does. That is less than Go's scheduler gives (it says nothing of
which), and enough where every such step brings the end nearer; calls of actors,
actors that end, clients and timeouts are never forced. `User!Spec` asks weak fairness
of the manager's loop and of each session's. No caller has to ask, no timeout to
fire, and the process need not end; a write of the store may always fail.
`Conversation` and `Friend` state no liveness: their clients retry as they like,
and nothing of it must happen.

## Proofs

Every theorem is for all values of the constants under the named assumption of
its module.

`MailboxProofs`, from `MailboxAssumption` (a finite set of senders, any size,
policies and PoisonPills):

- `TypeCorrectness`: no more messages than the capacity.
- `WakeupsAreNotLost`: `NoLostWakeup`. By itself it is not inductive: a woken
  sender counts as a place spoken for, which needs to know that nobody is both
  waiting and woken (`WaitersInv`).
- `MailboxImplementsInbox`. `Inbox` accepts only fresh messages, so the
  invariant also says that what is queued, handled or dead is not what its
  sender is about to send (`SettledInv`).
- `SendersKeepOrder` and `EachMessageHasOnePlace`, by an invariant of their own
  (`HInv`) on top of that one: of one sender, the queue and what was handled are
  sorted, and all that was handled is before all that is queued (`OrderInv`);
  the dead are nowhere else, and what was begun is somewhere (`PlacesInv`).

The step from `IInv` to `IInv'` is made once for a pass of `Push`, whether it
is a new Tell or a woken one (`Passing`), and once for each other action.

`EngineProofs`, from `EngineAssumption` (None is no name and no instance, the
strategies are those of the code, any limits):

- `TypeCorrectness`, `RegistryIsExact`, `HooksArePaired`.
- `EngineImplementsDirectory`: `Directory` binds only a free name, an instance
  only once, and nothing after it is closed.

`RegistryExact` is inductive with the types and `NamesInv` (what was born has a
name): a caller that takes a name away has the instance in its hands
(`Stopping`) until its mailbox is stopped.

`ConversationProofs`, from `ConversationAssumption` (a finite set of users, any
client ids and limits):

- `TypeCorrectness`, with it that no counter goes below zero.
- `CopyIsCorrect` (`CacheMatchesStore`), `NumbersHaveNoGap` (`SeqContinuity`),
  `ClientIdNamesOneMessage` (`OncePerClientId`), `GroupHasOneOwner`
  (`OneOwner`), `ConversationImplementsRoom`.

These hold only together. The next number is read from the copy, so the
numbering needs the copy to be right; the copy is right because nobody but the
actor writes what it copies, which needs that no actor runs before the manager
has written its own message (`CreationInv`); a handler checks the rights in the
copy, so one owner needs the copy again; and an actor that failed to load must
refuse everything (`CopyInv`: it knows no members). `IInv` is the conjunction.
`Effect` says what one handler does to the store and to the copy it leaves, one
lemma per handler; `StepEffect` the same of every step, with the step of the
Room it is; `Trusted` is what a handler that passed its guards may rely on.

Its second part has, on that invariant, what clients see:

- `AnswersAreStored`, `PushesAreInOrder`, `CountersNeverOvercount`.

Every command stores and pushes one message, finds one that is there, revokes
one, or only changes rules (`CommandKinds`). An answer a handler is about to give
counts as given (`AckInv`); what it is about to push is later than all that was
pushed, but for the message 1 the manager may still owe (`PushInv`). A counter is
at most what there is to read only if nobody is counted for who has no row, since
his counter would outlive him into a first membership: so the members and the
owner an actor's copy knows have a row, after the dissolution too (`KnownInv`),
and who has none has a counter of zero (`CountInv`).

`CallProofs`, from `CallAssumption` (`None` is no device and no call, an owner
for every device, any number of commands and either fault):

- `TypeCorrectness`, `MarksFollowCalls` (`BusyTracksCalls`), `LogTellsTheTruth`
  (`RecordMatchesEvents`).
- `ActorsImplementCallService`: `Session!Safety`, which is `ImplementsCallSession`
  without its fairness.

The marks need three facts the manager never tests (`BusyInv`): the two of an
initiate whose second Ask is under way are still free, because the manager takes
no other message meanwhile; a notice in its mailbox is always of an actor that
has ended; and it only knows calls that exist. That the row is true is inductive
once it says, for every point at which a handler can be interrupted, what has
been announced so far (`LogInv`): nothing before the actor is idle, "accepted"
only behind the second Ask, an end only with the PoisonPill, which is in the
mailbox only of a call that is over. `Effect` says of every turn of a call actor
which of six things it does to its call (`Turn`), one lemma per handler; the
types, the marks, the log and the service are argued on these.

`FriendProofs`, from `FriendAssumption` (any users, names, bounds):

- `FriendshipMutual`, `AtMostOnePending`, `GroupsAreKept`, `Refinement`.

A request reaches `Friendship` only with `NoSelfRequest`: accepting a request to
oneself would write one row where two are meant. The open requests of a pair are
at most one because `SendRequest` asks in both directions and no answer makes a
request pending again.

`UserProofs`, from `UserAssumption` and `UserCommandsAssumption` (any table,
names, passwords, commands, bounds):

- `Invariant`: `Spec => []IInv`.
- `Refinement`: every step is a command of `Accounts` that takes effect whole,
  fails, or is forgotten. A password change is then a compare-and-swap, although
  the code reads in one call and writes in another.

The argument is `HeldIsCurrent`: what a session has compared is still in the row
when it writes. Only the user's session writes his password, which needs that
the registry knows all living sessions (`OneSession`) and that every request
waits in the mailbox of the right one (`RightMailbox`).

- `NicknameIsTheLatest` (`LatestUpdateStands`). To the same facts `UpdateInv` adds
  the order: what still waits for a session has been asked for after all that this
  user's sessions have written (`UpdatesInOrder`). It holds because a mailbox is
  handled oldest first, because there is one session of a user, and because a
  request that is lost in a crash is never executed later.

`SignalsProofs`, from `LifetimeAssumption` (finitely many actors, `None` is no
actor, mailboxes of any size) and `WatchAssumption` (`None` is no state):

- `TypeCorrectness`, `TimersEndWithOwner` (`NoTimerOutlives`);
- `MetricsAreExact` (`MetricsExact`), `NoticesAreDue` (`NoticesDue`).

`NoTimerOutlives` compares the timers with the table, which `cancelOwner` has
already emptied when it begins to stop them: what it has still to stop covers
every armed timer of its actor, and is of this actor alone (`OwnsWhatComes`).
That what arrives is a timer's own and told (`Mailed`) is kept through every
Tell and every Pull of the mailboxes, those of the watches included.

The metrics and the notices rest on `TableInv`: the state of an actor in the table
is its own, with a monitor that waits and has not been stopped, and a monitor has
somebody left to tell only while it tells. Every step of a watch is then one of
five: a watcher comes in, goes, all of an ended actor's watches go, a monitor takes
the watchers out, a monitor tells one of them (`AddEffect`, `UnwatchEffect`,
`CleanupEffect`, `WakesEffect`, `CountsEffect`, `TellsEffect`). `GaugeInv` counts
through them the watches in the table and the watchers that monitors have left, as
`MetricsExact` does; only that the sets are finite is added, for there may be any
number of states and timers. `DueInv` counts the four places in which a notice of
one actor for another can be, its mailbox, a monitor, an `add` that waits with the
lock and the table: together with those handled they are never more than the calls
of `Watch`, and while it wants to be told they are not none. The one `add` that can
hold the lock (`LockInv`) keeps its place from being counted twice.

`DeliveryProofs`, from `DeliveryAssumption` (finitely many users and gateways,
each gateway with its user, friendship in both directions, mailboxes of any size,
any stories):

- `TypeInvariant`: with it, which calls an actor may be in the middle of. Of a
  gateway they follow its life (`GatewayInv`), of the three services they follow
  the message they handle (`CallsOf`), and an asker's question is in the mailbox
  of presence once at most (`AskInv`).
- `DeadlocksAreNamed`: from the types alone (`Waits`). If nobody in a ring waits for
  himself, a gateway in it waits for presence or the bus, presence for the bus, and
  the push actor for presence or a gateway: the bus is in it, and waits for no one
  but the push actor.
- `PresenceIsTrue`, `RefinesRoster`, from `PresenceInv`: what a gateway has told
  presence and presence has not handled is in its mailbox, in the order coming,
  leaving, end (`NoticeInv`), the end being told by the watch; and the two maps
  and the set of those online say the same (`MapInv`).
- `ShownInvariant`, `ViewsDoSettle`.

What a device shows is settled only at the end, so the invariant must say what is
on its way. From presence to a device, news passes six queues: what presence has
still to call, the mailbox of the bus, what the bus has still to tell, the mailbox
of the push actor, what that has still to do, the mailbox of the gateway (`Where`,
with the form of an event in each, `As`). `Tidy` says for a device and a friend
that what is shown is true or the truth is on its way (`Anywhere`), and that
anything false in a queue has the truth behind it, there or in a queue before
(`Settling`). Every step of the system passes the head of one queue to the end of
the next, or leaves the queues alone, which `Passed` says once for all. There
are three places where it is not that simple. The push actor asks presence for
the gateways of a user before it tells them, and presence may not know the device
yet: then nothing was pushed to it and it has not been answered, which is `MetInv`
(who is answered, or has a push on its last way, is known to presence). The answer
to a device's own question overtakes what is in the queues: it is the truth when it
is given, and what it overtakes is followed by the truth, by `Settling`. And a
question that is given up leaves its asker with less than the truth, which
`ViewsSettle` excludes (`gaveUp`).

Only model-checked:

- liveness, which the prover does not treat: `TellReturns`, `StopDrains`,
  `EverythingStops`, `HeldGatewayEndsCall`, `WatchTold`, `CallsReturn`,
  `CallersAnswered`, the fairness part of `ImplementsCallSession`.

Every safety invariant a run checks is stated by a theorem.

## Findings

`call_deserted`: a caller whose device goes before the call actor has looked it
up is not watched; the callee can answer, and the call stays connected with
nobody at the other end, although the design says that losing the connection
ends a call.

## Observations

What was noticed while reading for the modules, and is in the models as the code
has it, or outside them. None has a run of its own.

Runtime:

- Messages behind a PoisonPill are neither handled nor handed to the
  DeadLetterHandler.
- `Tell`, `add` of a watch and publishing wait for room without a timeout, so
  actors can stop each other; `DeadlocksNamed` says where: somebody tells himself
  before his own full mailbox, or the bus waits for the push actor.

Conversations:

- A message handled between the dissolution of a group and the PoisonPill is
  stored in the dissolved group and pushed.
- A user who left or was removed cannot be invited again: the logically deleted
  row keeps its unique key.
- A read mark with an older number sets the counter to zero all the same
  (`conv_store.go:249`).
- Pinning or muting by a user without a row in `user_conversations` is answered
  and stored nowhere.

Calls:

- The device that accepts is guessed, so `answered_elsewhere` may hang up the
  device that answered; an offer always goes to the callee, whoever sends it
  (`call/actor.go:318`).
- Without a private chat of the two a call leaves no record
  (`call/actor.go:537`), where `docs/tech-design/backend/03` and the
  requirements let every call leave one.

Friends and users:

- An accepted request of two who have parted can be accepted again by the one
  it was sent to.
- `update_profile` and `change_password` over WebSocket are acknowledged before
  their outcome is known.

Gateway: the rate limit asks for frames of type `message` (`gateway.go:89`)
while a message comes in a frame of type `msg` (`handler.go:78`).

Client: an HTTP load in flight replaces the list of messages and may hide one
that was pushed or acknowledged meanwhile, or show a revoked one again, until
the next load; an event of a call is not compared with the call on the screen,
so a late `ended` resets a new call; error frames never reach the branch of the
call page that expects them.

## Not modelled

- Conversation: pinning, muting, name and avatar, lists, typing, whom a message
  mentions: columns and answers no rule depends on. Panics of handlers: in
  `Engine` for all actors.
- Calls: offer, answer and ICE candidates, which are forwarded without a change
  of state.
- Friend: remarks, the order of groups, lists. User: avatar and sign, which are
  written as the nickname is; search, which reads.
- Event bus: unsubscribing, which the server never does while it runs. Push: the
  pushes to all members of a conversation, which go the way of one message.
- HTTP but that of users, the other routers, message history: they ask, read and
  format. Middleware, tokens, error codes, logging: libraries and formatting.
- The rate window of the gateway: never asked for a frame with a message, see
  Observations.
- The order in which the server shuts its parts down.
- The write-ahead log: an interface nobody calls. Demo and benchmark programs.
- The client (chat state, connection, phases of a call, pages): it is built
  again from the server's rows whenever a page is opened, and the server relies
  on none of it. What of it the server's order of messages is for, the set of
  friends shown online, is in `Delivery`.

## Plan

1. `ChatClient`: loads in flight, optimistic messages and their answers against
   the numbers and pushes of `Conversation`; `CallClient`: the phases of one
   device against the events of `Call`.
2. The shutdown of the server: which actors can still send to those that have
   ended, and whom `Shutdown` waits for when a `Stop` came before it.
