# air_tguserbot: models, checks and proofs

`air_tguserbot` is a Go service that runs one Telegram *user bot* (a client of a real account, over
MTProto) for every customer that enabled one. Messages to such an account are answered by an
assistant that lives in a library, the "sessions' core" of `github.com/ikermy/air-common` (its
Start, CRM, Mod and End modules are not in this repository); voice calls are bridged between a
native WebRTC engine (`ntgcalls`, called through purego) and a realtime model. A gRPC service starts
calls, ends them and streams their events; an HTTP server starts and stops bots and authorises
accounts over a WebSocket.

This directory holds TLA+ models of that service, TLC configurations that check
them on small instances, and TLAPS proofs for every size. Paths in this file are
under `src/internal/` unless they begin with another directory. Definitions keep
the names of the Go functions and fields they stand for, and `PROJECT.json`
gives, for every definition, the lines it was translated from.

Contents: 1 inventory, 2 models, 3 runs and bounds, 4 fairness and environment,
5 proofs, 6 disagreements between code and documentation, 7 what is not modelled.

## 1. Inventory

| component | code | state it keeps | operations |
|---|---|---|---|
| Call event hub | `telegram/call_events.go`, `delivery/rpc/server.go` | history, subscribers with a channel of 64, `closed`, one mutex | `publish`, `subscribe` (replay, then live), `close`; the streaming RPC |
| Call session | `telegram/call.go`, `telegram/call_outgoing.go` | `callSession` (channels, context, DH material), `activeCalls` | set-up of incoming and outgoing calls, update handlers, hangups, watchdog, `cleanupCall` |
| Native session registry | `telegram/ntgcalls_registry.go` | `ntgCallsByID`, `ntgCallsByUserID` | register, unregister, look up |
| Native engine | `telegram/ntgcalls_*.go` | P2P calls by user id, `asyncHandles`, native memory, the queue of the frame workers | create, exchange keys, connect, set streams, send frames and signalling, stop |
| Call audio | `telegram/call_audio.go`, `telegram/call.go` | `framer.buf`, `frameQueue`, the model's `AudioTx` and `Drain` | framing, resampling, sending per tick, draining, forwarding |
| Bot lifecycle | `telegram/telegram.go`, `telegram/web_handler.go` | `User.bot`, the `stopped` flag and context of each bot | start, stop, restart, authorise, a client that ends by itself |
| Application shutdown | `app/app.go`, `db/db.go`, `telegram/telegram.go`, `cmd/main.go` | contexts, `StartCh`, `DoneCh`, the bus of module shutdowns | signal, emergency timer, `StopBots`, `HandlerClose` |
| Message pipeline | `telegram/telegram.go`, `telegram/cache.go` | `knownUsers`, Redis keys, `StartCh`, the sessions' channels | message handler, set-up of a new sender, first-contact event, response listener |
| Operator mode | `telegram/telegram.go` | `operatorModeByDialog` of each bot | switch a dialogue to a person and back |
| Web authorisation | `telegram/auth.go`, `telegram/web_handler.go` | `stateChan`, `passwordChan`, `done` with mutex and flag, `authSessions` | QR login, password, saving the session, starting the bot |
| Master key caches | `app/master_key.go`, `telegram/telegram.go`, `telegram/token.go` | one key in `User`, one per user behind it, both for five minutes | get, invalidate; encrypt a session, decrypt it |
| Contacts streaming | `telegram/contacts.go`, `telegram/web_handler.go` | a slice two goroutines append to | load contacts and dialogues, stream them to a page |
| gRPC front end | `delivery/rpc/server.go`, `telegram/telegram.go` | none of its own | start a call and find its id, hang up, subscribe |
| Repository, database | `repository/mysql/`, `db/db.go` | the connection, `DoneCh` | single SQL statements, closing |
| Generated code, entities, metrics | `delivery/rpc/*.pb.go`, `domain/`, `metrics/` | - | - |

How they interact:

- Telegram's client delivers updates to handlers on its own goroutines. A call
  update finds a `callSession` in `activeCalls`, feeds one of its channels or ends
  the call. A message goes through `handleNewMessage`; an unknown sender is set
  up in stages, queued in `StartCh`, taken by `App.Starter`, and gets a channel
  from the core that a *response listener* reads.
- Every call owns a hub. `cleanupCall` publishes `call_ended` first and closes
  the hub last; in between it closes channels, cancels the context and
  takes the call out of three maps.
- HTTP handlers, the start-up goroutine, listeners and rejected clients all
  change the bot registry, which is locked for one access at a time.
- A connected call has three goroutines of its own: one cuts the model's audio into
  frames and sends one every 10 ms, one forwards the peer's audio to the model, one
  handles the model's events. Frames and everything else for the native engine are
  asynchronous calls, answered through a table of handles.
- An operator's message among the answers turns a dialogue's operator mode on;
  a command through the core turns it off.
- The signal cancels one root context. A goroutine of `Run` then stops the bots,
  waits for the modules that registered on a bus and closes the database; an
  emergency timer takes the same last step.

What is hard in this code, and which components it concerns:

- *interleavings*: everything that ends a call against its set-up; requests for
  one user against each other; the four goroutines of an authorisation; two
  goroutines that append to one slice; requests that look for their call in a shared map;
- *ordering*: events after `call_ended`, states on the page, audio that was queued
  before an interruption, bots before modules before the database;
- *channels and locks*: sends under a mutex (hub, `done` of the authorisation),
  sends on closed channels (`stateChan`, `StartCh`, a call's channels), drops when
  a channel is full;
- *timeouts and late answers*: watchdog, 30-second waits, five-second answer of
  a restart that goes on, emergency timer, native promises that come after
  `asyncWait` gave up;
- *stale state*: a key cached without its owner, an operator's message that outlives
  his connection;
- *failures and restarts*: Redis, saving a session, an interrupted first
  contact; a bot or the process that starts again.

What makes each component correct, in a sentence: the hub loses nothing silently
and repeats nothing; a call ends once and is never forgotten, and its registries
agree; a user has one bot, and it can be stopped; an authorisation tells the
page what happened and returns; the process leaves in order and always leaves;
a sender is announced, listened to and reported as new once; native memory
outlives the library's use of it; the peer hears what the model said, in order, until he
interrupts; a request learns the id of its own call; a page gets every contact once;
a session can be read with its user's key. `PROJECT.json`
lists the hazards at their lines with the properties that would catch them.

## 2. The models

| module | models | `EXTENDS`/`INSTANCE` |
|---|---|---|
| `CallEventLog` | what the event stream of a call promises: an append-only numbered log, read forward | - |
| `CallEventHub` | hub, streaming RPC, end of `cleanupCall` | implements `CallEventLog` |
| `CallLife` | what a call promises its subscribers: what is recorded, when it leaves, when its hub closes | - |
| `CallStream` | the hub driven by a call that keeps `CallLife` | `CallEventHub`, instantiates `CallLife` |
| `CallSession`, `MCCallSession` | all calls of one bot, registries, engine | implements `CallLife` |
| `BotLifecycle` | the bot registry and all who change it | - |
| `WebAuth` | one authorisation with its four goroutines | - |
| `AppShutdown` | from the signal to the end of `main` | - |
| `FirstContact`, `MCFirstContact` | messages of senders, Redis, sessions, listeners, restarts | - |
| `NtgAsync` | asynchronous calls into the native library | - |
| `AudioLine` | what the peer is promised of the model's voice | - |
| `AudioBridge` | the goroutines of a connected call | implements `AudioLine` |
| `OutgoingCall` | the search for the id of a dialled call | - |
| `ContactsStream` | the contacts page and its two goroutines | - |
| `OperatorMode` | the operator flag of a bot's dialogues | - |
| `MasterKey` | the two key caches and their users | - |
| `MCParts` | six parts side by side, for TLC | `AppShutdown`, `NtgAsync`, `AudioBridge`, `OutgoingCall`, `ContactsStream`, `OperatorMode` |
| `CallEventHubProofs` | the theorems about `CallEventHub` and `CallStream` | `CallStream`, `TLAPS` |
| `CallMediaProofs` | the theorems about `NtgAsync` and `AudioBridge` | both, `TLAPS` |
| `ServicesProofs` | the theorems about `OutgoingCall`, `OperatorMode`, `ContactsStream` | these, `TLAPS` |
| the other `*Proofs` | the theorems about the module in their name | it, `TLAPS` |

The modules follow one convention. A goroutine is a program counter (`pc`,
`task`, `handler`, `at`, ...) and an action is what it does between two points
where another goroutine can see the difference: a lock, a channel operation, an
access to a shared map, a call that waits. Code under one mutex, or between two
such points, is one action. History variables are marked as such where they are
declared and no guard reads them. An operator whose comment begins with
"Mutant of" is a plausible mistake in the code, kept to show that a property
would notice it; no action uses it.

### CallEventHub and CallEventLog

`history`, `closed`, `subs` are the fields of `callEventHub`. The mutex appears as
`holder`, because `subscribe` is the one operation that blocks with it held: it
sends the history into a channel of 64 places before it has returned that channel.
All other operations under `h.mu` are one step with the guard `holder = None`.
`Publish` appends an event and offers it to every subscriber; a full channel
misses it (`lost`). `Lookup`, `BeginReplay`, `ReplayOne`, `EndReplay`, `SendEvent`
and `EndStream` are the RPC from its two lookups to its return. The first of them, `getBot`,
goes by the user: it finds the bot of the call (`registry`) only after `setBot` (`SetBot`) and
until the bot is deleted or replaced (`LoseBot`). Before and after, it finds none, or another
bot whose `activeCalls` does not have the call, and the client is `misdirected`; a client is
`refused` when the bot of its call no longer lists it.
`Disconnect` is the client that leaves; `Unsubscribe` is the goroutine
that waits for the client's context; `RemoveCall` and `CloseHub` are the last two
stages of `cleanupCall`. What an event carries besides number and type is left
out. `CallEventLog` is the abstract specification; the mapping is `log <- history,
ended <- closed, cursor <- after, delivered <- got`.

### CallLife and CallStream

In `CallEventHub` anything may be published at any time, so nothing can be said of what a
stream tells about its call. `CallLife` is what a call promises: `call_started`,
`call_connected` and `call_ended` are recorded once at most, `call_connected` only after
`call_started`, the call leaves `activeCalls` only after `call_ended`, and its hub closes only
after that. It does not promise that `call_ended` comes last, because the code
does not. `CallSession` implements it, for all calls of a bot (`log <- events`, `gone` from
`active`, `closed` from the stage of `cleanupCall`). `CallStream` is the hub of one call whose
steps `CallLife` allows (`StreamNext`): the abstract call is the environment of the detailed
hub, instead of a product of the two detailed modules. Run and liveness are about
`CallStream`; the theorems about `CallEventHub` hold whatever its call does.

### CallSession

One set-up goroutine per call (`pc`, over the stages of `setupP2PCall` and
`setupOutgoingP2PCall`), one cleanup (`cleanup`, the stages of `cleanupCall`
behind its `sync.Once`), and `Slots` short-lived goroutines: Telegram updates,
hangups, the watchdog, signalling errors, native callbacks. Between finding a
call and acting on it, such a goroutine holds what it found, so it may act on a
call that has been cleaned up meanwhile; a send on a channel that cleanup closed
kills the process (`crashed`). `byID` and `byUser` are the two registries;
`engine` is the set of users with a native call and `realtime` the calls with a
model session, because those are keyed by user and by response id. `Destroy` may fail, or be
given up by `asyncWait`, and its callers only log that: the native call stays (`unstopped`),
until the library carries out the stop after all (`LateStop`) or for ever. A `CreateP2P` that
reports an error may have made one all the same (`MayCreate`). A provider may end its model
session by itself (`ProviderEnds`, `selfEnded`), which ends nothing else. Diffie-Hellman
values, fingerprints and audio are left out. `MCCallSession` gives `UserOf`.

### BotLifecycle

`bot` is `User.bot`; `client` is where the goroutine of `client.Run` is; `stopped`
and `cancelled` are the flag and the context of a bot. `task[g]` is what a
goroutine does for whom, with the bot it holds. A start goes through `check`,
`load`, `create`, `init`, `set`; a stop through `lookup`, `swap` (the atomic flag),
`grace` and the deletion; a restart deletes nothing of its own but pauses before it
loads. Both sleeps last `shutdownGraceTimeout`, so they end in the order in which
they began (`sleepers`). Whether the database says that a bot is enabled is a
choice of `Load`. `overlapped` remembers the users for whom two requests were in
progress at once; `RestartBot` answers after five seconds while its goroutine goes
on, so a client that always waits for the answer can still overlap.

### WebAuth

The handler (`handler`), the reader of the page's messages (`reader`), the
goroutine that authorises, saves and starts the bot (`auth`), and the Telegram
client's goroutine (`tg`), which offers states. `safeStateSend` reads
`channelClosed` and sends in two steps (`LoadFlag`, `SendState`); sending on the
closed channel panics (`alive`). `done` is unbuffered and sent on with `doneMutex`
held: the reader `sending` is the state in which the handler cannot take the mutex.
`conn` distinguishes a page that left from a closed connection, because a write to
the former may still succeed.

### AppShutdown

The goroutine of `Run` (`app`), the emergency timer, the saver of `StopBots`, one
`StopUserBot` per bot and caller (the shutdown itself, or a request that came
first), `Starter`, message handlers that still queue sessions, the producers on the
bus, `HandlerClose` and `main`. A send on the closed `StartCh` shows in `process`. Timers
are untimed: once armed they may fire at any moment, which includes the moment the code
intends. Bots come and go before and during the shutdown: a start loads what it needs while
the root context lives (`LoadBot`, `starting`) and registers its bot whenever it gets there
(`SetBot`), which may be after `rangeBot` (`latecomers`); a client without authorisation sets
the flag of its bot and leaves it in the registry (`ClientRejected`, `rejected`), so that
`StopUserBot` has nothing to do for it. The graceful stop of gRPC is left out.

### FirstContact

Everything a message sets going is named after the message: where its handler is
(`at`), its `sendFirstContactMessage` (`contact`), the session it queued
(`session`), the listener it started (`listener`). `known` is `knownUsers` of the
running bot, `epoch` which bot that is, `redis` the keys. The core is external: it
opens a sender's channel some time after his session was queued and may remove
it at any time. `RestartBot` replaces the bot (what the old one has set going
sees its context cancelled); `RestartProcess` loses everything but Redis.
`overlapped` remembers senders with two set-ups in progress at once, `forgotten`
senders whose key Redis lost, refused, or never got because of a crash. A missing
Redis is a Redis that always fails. `announcing` says which bots were loaded with
`Events.Start` on: any of them, since the setting can change between two loads. With it off
`sendFirstContactMessage` sends nothing but sets the Redis key all the same (`silent`).
`Concurrent` says how many messages the client
hands over at a time, since that is the library's choice.

### NtgAsync

A call into the library is a handle: where its Go side is (`stage`), where the library
is (`native`), whether it is in `asyncHandles` (`table`) and what has become of the
native memory for its error (`slots`) and payload (`buffer`). The four kinds of call
differ in who waits and who releases: most methods wait and free by `defer`;
`SendSignalingData` also releases its payload when it returns; the two calls of
`SetExternalBoth` free only on failure, so that every connected call leaves two entries
behind; `SendAudio` waits for nothing and gives the handle to a pool of workers, or
to a goroutine when their queue is full. A timeout in `asyncWait` deletes the entry
first, so that the deferred `asyncFree` finds nothing to release: the memory is leaked on
purpose. For the payload of `SendSignalingData`, and for frames after 200 ms, the code
does not take that care, and the model releases it too. The library answers at any
time or never. What the answer says is left out.

### AudioBridge

A sample is its number, so order and loss are visible; `produced` counts them. `out` is `AudioTx`,
`framer` and `frameQueue` are the sender's, `sent` is what the engine took. The sender's loop is
`CheckDrain` (the look at `Drain` before all else) and then the `select` with its cases
`SelectDrain`, `ReceiveChunk`, `SendFrame` or `SendSilence`, and `SenderLeaves`. `drainAll` is
`DrainChunk` until `out` is empty and `DrainDone`; when `out` is closed it receives for ever. Frames
that are queued, and a frame that is not full, are dropped at the end (`audioFramer.Flush` is not
called). `isPlaying` is never set to 1 (the line that would, `call.go:586`, is commented out), so
the attenuation of the peer's audio that `call_audio.go:92` describes never happens and the model
has none. `AudioLine` is the promise without channels, chunks, queues and ticks: the model says
samples, the peer is played frames of them, and an interruption raises a floor below which nothing
is played any more. The mapping is `said <- produced, played <- sent, floor <- mark`.

### OutgoingCall

`StartOutgoingCall` returns the id of a call, but the goroutine that dials returns
nothing: `User.InitiateOutgoingCall` notes which calls are active (`before`), starts the
goroutine and polls `activeCalls` until it finds another one. `intruded` remembers the
requests during whose wait some other call was stored. The client's leaving is not an action, because
the server passes a context without cancellation.

### ContactsStream

`fetcher[g]` is one of the two goroutines of `GetUserContactsStreaming`. `append` on the
shared slice is a data race; it is modelled as a load and a store, and when the slice has
changed in between the outcome is any of those in `RaceOutcomes`: the other's items
lost, one of them overwritten, or a length with an array that does not have them. `page` is the
handler up to "all contacts are loaded". The comment of
`contacts.go:15` (a callback for every element) holds only without such a race.

### OperatorMode

`operMode` is `operatorModeByDialog`; `txCh` the answers on their way to the listener;
`connected` says whether an operator is there. `DisableOperatorMode` clears the flag,
then looks up the respondent and tells him, which may fail, and only then closes the
operator's connection: `ClearMode`, `DisableFails`, `CloseOperatorSSE`. Its comment says
that it notifies the AI model; that part is commented out (`telegram.go:432-452`), and
the model has no such step. An operator may also leave by himself, or be disconnected by
`air_oper` first, as that function's comment expects (`OperatorLeaves`): nothing tells the bot,
and the flag stays until a command clears it (`departed`). Two commands for one dialogue do not
overlap.

### MasterKey

A key is named by its user. `masterKey` and `fresh` are the one slot of `User`, `items`
the cache per user behind it. `task` is a save (`AuthWebSocketHandler`) or a read
(`parseTgUserBotToken`), between which the lock is let go. `stored` is what a user's
session is encrypted with.

### MCParts

The shutdown, `NtgAsync`, `AudioBridge`, `OutgoingCall`, `ContactsStream` and
`OperatorMode` share no variable in the code: the first runs when the rest is over, and the
others touch different structures. `MCParts` is their sum, not their product: `part` says
which of them a behaviour is about, and the rest keeps its initial state. One run
therefore checks all six as if each had a run of its own. The fairness conditions of a
part hold trivially in a behaviour of another, because none of its fair actions is enabled
initially.

## 3. Runs and bounds

States are distinct states; a pass run finishes in a few minutes on two workers.

| run | configuration | result | what it shows |
|---|---|---|---|
| `hub` | `CallStream.cfg` | 242 388 states | two subscribers against `publish` and the end of a call that keeps `CallLife` |
| `hub_resume` | `CallEventHubResume.cfg` | violation | section 6 |
| `session` | `CallSession.cfg` | 222 716 | a call against updates, hangups, callbacks, timeouts, stop of the bot |
| `session_same_user` | `CallSessionSameUser.cfg` | violation | section 6 |
| `lifecycle` | `BotLifecycle.cfg` | 653 790 | start-up, requests, a listener and rejected clients against each other |
| `lifecycle_two_bots` | `BotLifecycleTwo.cfg` | violation | section 6 |
| `web_auth` | `WebAuth.cfg` | 201 787 | one authorisation with every end it can have |
| `web_auth_done` | `WebAuthDone.cfg` | violation | section 6 |
| `parts` | `MCParts.cfg` | 342 959 | shutdown, native calls, audio bridge, dialled calls, contacts page, operator mode |
| `keys_shared` | `MasterKey.cfg` | violation | section 6 |
| `first_contact` | `FirstContact.cfg` | 2 280 952 | two messages, a failing Redis, a restart of the bot or the process |
| `first_contact_once` | `FirstContactOnce.cfg` | violation | section 6 |

Type invariants (`TypeOK`, and those of the parts of `MCParts`) are theorems for every size
(section 5), so the runs are given to the properties that relate more than a variable to its
range; `hub` checks `TypeOK` too, because there the capacity of a channel matters: `publish`
and the replay hold the mutex that everybody needs. The properties:

*Hub.* `StreamIsComplete`: a client that is still there has received, or will find
in its channel, every event after its cursor except those dropped for a full
channel, and a stream that returned has delivered the whole call.
`ImplementsLog`: nothing is repeated, reordered or invented. `StreamsReturn`: once the
cleanup of the call has begun every stream returns, unless a replay is stuck with the mutex.
That every call comes to its cleanup is not assumed: a stop of the bot ends some waits of a
set-up without one (`AbandonedOnlyByStop`).
`StuckOnlyBehind`: that happens only for a client that has missed more events than a channel
has places, whatever the other streams do.
`StreamTellsEnd`: the RPC returns nil when its channel is closed and never looks at the
events; still a client that is there and gets nil has been sent `call_ended`, or had seen it,
or it was dropped for its full channel (`NilMeansEnded`). A client that comes back and is
refused by the bot of its call, because the call is not active, comes after the end was
recorded (`RefusedMeansOver`). One that `getBot` sends to no bot or to a successor gets the
same kind of answer and learns nothing from it.

*Session.* `RegistriesAgree`: the two registries name the same sessions and hold every live call.
`EndedOnce`: `call_ended` is recorded once, exactly when cleanup began. `AbandonedOnlyByStop`: a
set-up goroutine that is gone has seen to the cleanup, unless the bot was stopped.
`EveryCallIsForgotten`: every call leaves `activeCalls` again, unless the bot is stopped or the
process dies. `LiveCallHasMedia`: a bridged call that nobody has begun to end has its native call
and, unless the provider ended it, its model session, as long as no other call shares its user.
`NativeReleased`: a native call outlives the cleanup of its call only if it survived a `Destroy`
that failed or was given up, or if the set-up of an incoming call made it before it noticed the
cleanup; a call of the latter kind was never connected and its set-up is at `accept` or past it.
`ImplementsLife`: the promise of `CallLife`, whatever races with whatever.

*Lifecycle.* `OneLiveBot`: a user whose requests do not overlap has one bot that
answers. `LiveIsReachable`: the delayed deletion of `StopUserBot` never hits the
successor of the bot it stopped. `StoppedLeaves`: a registered bot whose flag is set is
about to leave, unless a client without authorisation left it so.
`StopTakesEffect`: a bot that was stopped ends and leaves the registry.

*Authorisation.* `NoSendOnClosedDone`, `PanicOnlyOnTimeout`: of the two channels
that are closed while others send, one is never misused and the other only after a
timeout. `OutcomeTold`: the page learns how the authorisation ended unless the
channel was full. `ShownForward`: the page is never taken back. `HandlerLeaves`,
`ReaderFollows`: the handler leaves its loop, and the reader follows it.

*Shutdown.* `DatabaseLast`: the database closes after the modules, unless the emergency timer
fired. `BotsLeaveFirst`: when modules shut down and `StartCh` closes, every bot that `rangeBot`
found is gone or about to be deleted, unless `StopBots` gave up; not so a bot that its client
marked as stopped, and one that a start in flight registered too late, which are still there.
`ProcessEnds`: the process ends whatever hangs.

*First contact.* `RepeatsAreExplained`: a start event is repeated only after overlapping set-ups or
when Redis forgot. `SavedAfterNotified`: Redis holds only senders for whom the start event was sent
(whether it arrives or not), or who came to a bot with `Events.Start` off. `NewDialogOnce`: one bot
reports a dialogue as new once. `OneListener`: one channel has one listener. The last two hold for
set-ups that do not overlap.

*Native calls.* `MemoryOutlivesCall`: the library never works on memory that was
released, except a frame's or a signalling payload's that was given up, and whoever
waits is in the table. `HandlesReleased`: whatever the library does, a handle leaves the
table, except a successful one of `SetExternalBoth`.

*Audio.* `AudioInOrder`: across channel, framer, queue and engine the model's samples
stay in order and unrepeated, and what is missing was dropped by a drain or a refused frame.
`InterruptionIsPrompt`: after a drain signal at most one more frame is sent, and after the
drain nothing older remains. `BridgeEnds`: the goroutines of a call that is over
leave, unless `drainAll` reads a closed channel. `ImplementsLine`: the promise of
`AudioLine`; what the first two say of a state it says of the steps, so that what has been
played is never taken back.

*Services.* `AnswerIsOwn`: a request is answered with the call dialled for it, unless another
call was stored while it waited. `StreamedOnce`: a page told that all contacts are loaded
was sent each once, unless the appends raced. `ModeFollowsOperator`: the operator
mode is on while an operator is there, or has left by himself and has not been let go since, or
because a message of his was processed or queued while he was let go.

Bounds, and why they are enough:

- *Hub*: 2 subscriptions, 2 events, `call_started` and `call_ended` in each order that
  `CallLife` allows or the end alone, channels of one place (`ChanCap` for 64). `RoomForEnd` keeps
  the last place of the bounded history for the end, without which a bounded call could not be
  over.
  Full channels, drops, a replay longer than the channel, resumption after any
  event and the hand-over from replay to live delivery all happen; subscribers
  interact only through the mutex, so two show every interference. The bot may be registered
  late and lost at any moment. The theorems cover every size.
- *Session*: one call, one short-lived goroutine beside the set-up, cleanup and
  timers, `connState` of one place (for 8). One goroutine at a time suffices for each
  race with set-up and cleanup; two calls of one user are `session_same_user`.
- *Lifecycle*: one user (users share nothing but the map and the order of
  start-up), two requests, one listener, two bots in succession. `MaxBots` bounds
  how often a bot is created, not what happens to it.
- *Authorisation*: `StateCap` 2 for 10; both a full channel and one with room
  happen.
- *Shutdown*: one bot, which may be started, rejected, stopped and started again, one handler,
  one module and the listener, `StartCh` of one place (for 100). A request that stops a bot is
  one of two callers of `StopUserBot`. Bots meet only in what `StopBots` waits for; two of
  them exceed the five minutes of a run, and the theorems hold for any number.
- *First contact*: one sender with two messages, both at a time, one restart,
  `StartCh` of one place, each of the two bots with and without start events. Messages are
  interchangeable, so symmetry is sound (the run has no liveness property).
- *Native calls*: two calls of any kind, one worker and a queue of one place (for 8 and
  1024): a frame that finds the queue full, and one that finds every worker busy. Calls
  interact only through pool and queue.
- *Audio*: four samples in frames of two (for 480), chunks of one to three, so that chunks end
  inside, at and beyond the end of a frame; a queue limit of one frame (for 100); two drains, of
  which one may arrive while the other is handled.
- *Dialled calls*: two requests and two calls, each of which may be dialled for
  either or come from a peer. *Contacts*: up to three items of each source, so that a race can
  happen before, after and between others. *Operator*: two dialogues, two
  places in `TxCh`.
- *Keys*: two users.

`MaxSamples`, `MaxDrains` and `MaxItems` bound only how much happens; the theorems hold for
any values of them.

`CHECK_DEADLOCK FALSE` stands where the system really stops: a call is over, an authorisation has
ended, the process has exited (or died), all messages are handled and all restarts used, a bridge is
over, a page is served. The bot lifecycle never stops, and its runs check deadlock.

## 4. Fairness and environment

Fairness is stated beside each `FairSpec`. It is what the Go runtime gives: a goroutine that can run
does (weak fairness), a `sync.Mutex` does not starve a waiter (strong fairness of the steps of the
hub that take `h.mu` and may find it taken again and again), timers fire. In addition: a cleanup
that has begun goes on to `eventHub.close`, waiting for nothing but `h.mu` (`RestOfCleanup` of
`CallStream`; that a call comes to its cleanup is not assumed there but shown in `CallSession`, from
its timers, with its exceptions); sleeps end and a client whose context is done returns
(`BotLifecycle`); a write to a WebSocket ends one way or the other, and `SaveChannelData` is bounded
by the repository's timeout (`WebAuth`); `Run`'s goroutine, the emergency timer, `HandlerClose` and
`main` run (`AppShutdown`); the frame workers and the waiters of native calls run and their timers
fire, while the library may never answer (`NtgAsync`); the goroutines of a call run, and a `select`
in which the end of the call is ready again and again takes it sooner or later, because Go chooses
among ready cases at random (strong fairness of `SenderLeaves` in `AudioBridge`). Nothing is assumed
of Telegram, of the peer of a call, of the native engine, of a page, of a user who hangs up, of
database loads in `BotLifecycle`, or of modules, handlers and requests during shutdown: all of these
may hang. `FirstContact`, `OutgoingCall`, `ContactsStream`, `OperatorMode` and `MasterKey` have no
fairness; their properties are safety properties.

Assumed of the world outside `src/`: a client of the hub resumes after a number it
has seen; `gotd` delivers updates to concurrent handlers (calls) and as many
messages at a time as `Concurrent` says; the core creates and removes channels as
described above; a Redis key is either there or not, and calls of Redis fail, if
they do, without effect. In `BotLifecycle`, two sleeps of equal length end in
the order they began; a goroutine that is not scheduled for long after its
timer fired could break that order, and the model does not say what happens then.

## 5. Proofs

Every safety property of section 3, and each of the refinements `ImplementsLog`, `ImplementsLife`
and `ImplementsLine`, is a theorem, for any number of subscribers, calls, users, requests, bots,
messages, handlers, modules, handles, workers, samples, items and dialogues, any capacity of the
channels and any frame size. Liveness stays with TLC. The assumptions are the named `ASSUME`s of the
modules and, for two theorems, `DistinctUsers` (no two calls are with one user, which the code does
not ensure: section 6); TLC evaluates the former in every run.

| module | assumption | inductive invariant | theorems |
|---|---|---|---|
| `CallEventHubProofs` | `HubAssumption` | `HubInv`, then `OverInv` for the stream of a call | `TypeCorrect`, `StreamCompleteness`, `StuckNeedsBacklog`, `Implementation`, `NilTellsTheEnd`, `RefusalIsTrue`, `EndIsTold` |
| `CallSessionProofs` | `CallAssumption`, `DistinctUsers` for `MediaKept` and `NativeIsReleased` | `TypeOK`, then `EndInv`, `AbandonInv`, `RegistryInv`, `BornInv`, `LifeInv`, `NativeInv`, `MediaInv` | `TypeCorrect`, `EndAnnouncedOnce`, `NoSetupAbandons`, `RegistriesConsistent`, `LifeImplemented`, `NativeIsReleased`, `MediaTakenOnlyByUser`, `MediaKept` |
| `BotLifecycleProofs` | `LifecycleAssumption` | `LifecycleInv` | `TypeCorrect`, `AtMostOneLive`, `LiveStaysReachable`, `FlaggedBotsLeave` |
| `WebAuthProofs` | `WebAuthAssumption` | `AuthInv` | `TypeCorrect`, `ReaderSendsOnOpenDone`, `PanicNeedsTimeout`, `PageLearnsOutcome`, `PageGoesForward` |
| `AppShutdownProofs` | `ShutdownAssumption` | `ShutdownInv` | `TypeCorrect`, `DatabaseClosesLast`, `BotsLeaveBeforeModules` |
| `CallMediaProofs` | `AsyncAssumption`, `BridgeAssumption` | `AsyncInv`, `BridgeInv` | `AsyncTypeCorrect`, `MemoryIsKept`, `BridgeTypeCorrect`, `AudioKeepsOrder`, `InterruptionTakesEffect`, `LineImplemented` |
| `ServicesProofs` | `DialAssumption`, `OperatorAssumption`, `ContactsAssumption` | `DialInv`, `OperatorInv`, `ContactsInv` | `DialTypeCorrect`, `AnsweredWithOwn`, `OperatorTypeCorrect`, `ModeIsExplained`, `ContactsTypeCorrect`, `PageIsComplete` |
| `FirstContactProofs` | `ContactAssumption` | `ContactInv` | `TypeCorrect`, `RepeatsExplained`, `NotifiedBeforeSaved`, `OneNewDialog`, `OnlyOneListener` |

The arguments:

- *Hub.* `StreamIsComplete` alone is not inductive: one has to know that history is
  numbered by position, that the mutex is held exactly by the subscription in
  replay, and that what waits in a channel lies in order between what was delivered
  and the replay position. Then the hand-over is safe because no event can be
  published while the mutex is held, and a drop is recorded when it happens. The
  refinement follows: a send to the client is a `Deliver`, a `Publish` a `Record`,
  all else stutters. While a replay runs its channel holds exactly what it has put there, since
  nobody else has the channel yet: so a replay that finds it full has put in `ChanCap` events
  and wants one more (`StuckNeedsBacklog`).
- *Stream.* `OverInv`: the hub closes after the call left, and the call leaves after its end was
  recorded; what is in the history stays where it is (`EndStays`); a refusal is the answer of the
  bot that listed the call. A stream that ended has delivered the whole history
  (`StreamIsComplete`), hence the end.
- *Session.* `StepMoves` and `StepEnds` say what any step can do to the stages of a
  call, to its events and its cleanup. `sync.Once` shows as "`call_ended` is in the
  events iff `cleanup` is past `none`". For `ImplementsLife`, `BornInv` says that a call
  is active, or in the hands of a short-lived goroutine, only once it was stored, so that no
  cleanup runs before there is something to leave; `LifeInv` that the set-up is at `stored`
  or before as long as `call_started` is not told, and at or before the wait for the connection as
  long as `call_connected` is not, which is why each is told once. `NativeInv` adds to
  `NativeReleased` that a dialled call is never at the stages that make a native
  call; it counts what `Destroy` was not asked to take (`Kept`), which only the two steps that
  make a native call enlarge. `MediaInv` says who took what a call lacks: `TookEngine`,
  `TookRealtime` are marks that
  stay with the taker (`TakenStays`), and only calls of the same user can have them; whoever
  failed to stop a native call has the mark too, so that a late stop has a taker as well. What
  the provider ended by itself is in `selfEnded`. It
  needs no assumption; `MediaKept` is what is left of it when nobody else has the user.
- *Lifecycle.* `Orderly(u)` is the heart. While requests for `u` have not
  overlapped, a goroutine on its way to register a bot is alone
  (`BuildingAlone`); whoever is about to delete fell asleep before any restart that
  is pausing, so it wakes first (`WakesInTurn`); whoever is about to swap a flag
  holds a bot that is stopped already or the one registered (`StaleStopped`,
  `OwnSwap`). Together they keep a deletion from hitting a successor.
- *Authorisation.* `Stages` and `Signals` say which goroutine can still send when
  which channel is closed; `Offers` and `InOrder` say that the states in the client,
  the channel, the handler and on the page are ordered; `Promises` that an outcome
  not yet shown is in the handler or in the channel, or was lost to a full channel.
- *Shutdown.* `ByRun`: without the emergency timer `DoneCh` was closed by `Run`;
  `Waited`: then every producer has ended. `Flagged`: a flag belongs to a `StopUserBot` that
  will delete the bot, or was set by its client. `NotBegun`, `Leaving`: after `rangeBot` every
  bot it found, but those marked by their clients, has a `StopUserBot` under way; a request
  that starts its bot anew makes it a latecomer. `Early`, `Closing`: `StartCh` closes when those
  of the shutdown returned, unless `StopBots` gave up.
- *First contact.* `Apart`: two set-ups of a sender are not in progress at once unless he is in
  `overlapped`. From it `Told` (what was notified is in Redis or on the way there, and what is on
  the way was notified or came to a bot without start events), `Claimed` (whoever reports a new
  dialogue made his sender known to that bot), `Attached` and `Separate` (a listener that looks for
  its channel finds one that the bot does not listen to).
- *Native calls.* `MemoryOutlivesCall` with `Unused` (a new handle is nowhere),
  `ClosedIsAnswered` (a channel is closed by an answer only), `BufferOfPayload`,
  `FramesOnly` and `QueuedOnce` (a frame is in the queue, with the pool or with a goroutine
  of its own, and in one of them only): so whoever releases memory either has the answer
  or gave up.
- *Audio.* `Made` bounds what the pipeline holds by what was produced, so that a drain that
  empties it leaves only newer samples; `SignalSeen` says where the sender can be while
  a signal waits, which is why one frame at most passes it. The lemmas about sequences
  say that cutting a chunk into frames, and a frame off the queue, keeps `Pipeline` as it is
  but for what is dropped.
- *Services.* `DiallingOnce`, `NewIsOwn`: every call that is new to a waiting request without
  intrusion is the one dialled for it. `NobodyLeft`: an operator's message is in the queue,
  and the flag set, only with an operator or with a trace of him in `departed` or `stale`.
  `SliceIsAppended`: without a race the slice holds what was appended, once; `Progress`,
  `StreamIsPrefix`: the page reads it when both goroutines are over, from the start.

Only model-checked: `StreamsReturn`, `EveryCallIsForgotten`, `StopTakesEffect`, `HandlerLeaves`,
`ReaderFollows`, `ProcessEnds`, `HandlesReleased`, `BridgeEnds`. They are liveness properties, whose
fairness conditions rest on ENABLED, which the proof system does not reason about here. The violated
properties of section 6 are, of course, not theorems.

## 6. Disagreements between the code and its documentation

Each is the only property of its own run, and TLC finds the behaviour.

- `hub_resume`, `ResumedStreamStarts`. README.md:123 promises to resume a stream
  after reconnecting. `subscribe` (`call_events.go:64`) replays into a channel of 64
  that nobody reads yet, with `h.mu` held. A client that missed more than 64 events
  blocks there for ever, and with it `publish` and the end of `cleanupCall`.
- `session_same_user`, `LiveCallHasMedia`. `ntgcalls_registry.go:19` supports several
  calls of one user. A native call belongs to a user: while one call is bridged, a dial to the same
  user that fails destroys it (`destroyEngine`, `call_outgoing.go:146-150`, called at 180-182 when
  `phone.requestCall` fails). That is the shortest behaviour, which TLC finds; `cleanupCall`
  destroys by user as well (`call.go:787`).
- `lifecycle_two_bots`, `NeverTwoBots`. `telegram.go:764` says that an existing bot is
  always stopped. A bot is registered only after its client was started, so two
  overlapping requests start two clients on one session, one of which nobody can
  stop.
- `web_auth_done`, `DoneIsClosed`. The reader sends on the unbuffered `done` with
  `doneMutex` held (`web_handler.go:231`). A handler that left its `select` for another
  reason never receives; its deferred `safeCloseDone` waits for the mutex for
  ever and the connection is never closed.
- `first_contact_once`, `StartOnce`. `telegram.go:2015` says that the start event is
  sent once even after a restart. It is sent by a goroutine of its own that tells
  Redis afterwards; when the set-up fails the next message starts a second one.

- `keys_shared`, `StoredIsReadable`. `web_handler.go:182` encrypts a new session with the
  user's key if it is available. `getMasterKey` (`telegram.go:169`) returns the one key it
  has to any user for five minutes, so a session may be stored with another user's
  key; it can be read only as long as that key happens to be the one in the cache.

Other behaviours are in the models and no document promises otherwise: a client that reconnects
after the call left `activeCalls` is refused and never sees `call_ended` (`Lookup` in
`CallEventHub`; `RefusedMeansOver` says what the refusal tells him), and one whose bot was replaced
is refused while its call may still go on (`LoseBot`); a native call that `Destroy` fails to stop is
not asked for again (`DestroyEngine` in `CallSession`); a handler that outlives `StopBots` sends on
the closed `StartCh` and takes the process with it (`QueuePanics` in `AppShutdown`); bots whose
clients were rejected, or that came after `rangeBot`, are still registered when the modules shut
down (`ClientRejected`, `SetBot`); with `Events.Start` off a sender is saved as announced
(`SendNotification`, `SetContact` in `FirstContact`), so that he is not announced when it is
switched on; an operator who leaves by himself leaves the mode on (`OperatorLeaves`);
`call_started`, published after the call is visible (`call.go:214`), and `call_connected`, published
from a buffered state, may follow `call_ended` (`AnnounceCall`, `ReadConnState` in `CallSession`;
`ImplementsLife` says what order remains); a set-up that makes its native call while its call is
cleaned up leaves it in the engine (`CreateP2P`; `NativeReleased` bounds it), and a realtime session
started then is left to its core (`StartRealtime`); success is shown to the page before the session
is saved (`SaveSession` in `WebAuth`); the saver of the dialogues is not waited for
(`SaveAllContextDuringExit` in `AppShutdown`); the sender of a call's audio spins for ever when a
drain meets a closed `AudioTx` (`DrainChunk` in `AudioBridge`).

## 7. What is not modelled

- *Data.* Texts, files, names, SQL rows, the Diffie-Hellman computation, tokens and
  ciphers; the marshalling of native structures. No property is about them.
- *Resampling and attenuation* (`pcm16Resample`, `attenuatePCM16`): arithmetic on
  floating-point numbers, which TLA+ does not have. Resampling keeps the order of
  the samples, which is what `AudioBridge` relies on. A chunk of a single sample would
  make the downsampling divide zero by zero; the library delivers frames of 10 ms.
- *The rest of the message pipeline*: files, voice conversion, names and what is sent to the
  CRM are requests to other services without state of their own.
- *Start-up wiring, CORS, routes, metrics, logging, generated code, entities, single SQL
  statements*: no state worth a model.
- *Libraries*: `gotd`, the sessions' core, the bus, Redis, MySQL and `ntgcalls` appear
  only in what the code uses of them.
- *Compositions.* The hub and the session meet in `CallLife`: the session implements it, and
  `CallStream` runs the hub under it, so what holds of `CallStream` holds of the hub of any
  call of `CallSession`. They meet in one more point, which this does not cover: in
  `CallSession` a `publish` always returns, in the code it waits for a replay that holds
  `h.mu`. What a replay that is stuck does to the call is shown on the hub's side
  (`hub_resume`, `StuckOnlyBehind`); `EveryCallIsForgotten` is about calls whose clients do not
  resume from further back than a channel holds. The parts of `MCParts` share no state.
- *Liveness proofs*: section 5.
