# A TLA+ verification of mod-discord-chat

`mod-discord-chat` is an AzerothCore module that connects a World of Warcraft
server with a Discord guild: chat in both directions, slash commands that
administrate the server, an event log, a status message and the bot's presence.
Three kinds of thread share its state:

* the **game thread** (the worldserver's update loop) owns every subsystem and
  calls `DiscordMgr::Update` in each iteration;
* two **sender threads** make blocking HTTPS requests: the REST worker
  (`DiscordNetWorker`) and the fast path for chat and interaction replies
  (`DiscordQuickSender`);
* the **gateway threads** hold the websocket to Discord: a reader with its
  reconnect loop, and one writer for each connection (`DiscordGateway`).

Nothing but queues and a few flags crosses between them: requests go down
through `DiscordQueue`, callbacks and gateway events come back through
`DiscordMgr::PostToGameThread`, payloads go to the websocket through a publish
queue. Everything interesting in the module comes from answers that arrive late,
twice, in another order or not at all, while commands, reloads and shutdown go
on.

## Inventory

| component | state | operations | what is hard | what makes it correct | module |
|---|---|---|---|---|---|
| **NetWorker** (`DiscordNetWorker`, `DiscordQueue`, `PostToGameThread`/`Update`) | `messages_`, `retried` flags, `running_`, the game queue and its batch | Queue, Publish, worker loop, 429 retry, callback, Update, Start, Stop | two threads, retry, lost replies, shutdown with work in flight | every request ends once, is never carried out twice, only retries lose their place, nothing moves after Shutdown | `NetWorker`, contract: `RestChannel` |
| **Gateway** (`DiscordGateway`) | `running_`, `connected_`, `conn_`, publish queue, `wake_`, writer thread | Run, ReadLoop, WriteLoop, SendText, Publish, Stop | a condition variable signalled without its mutex, a join at every disconnect, Stop against start | one writer at a time, HELLO answered, reconnects, Stop returns, `connected_` tells the truth | `Gateway`, promise: `GatewayLink` |
| **ServerStatus** (`DiscordServerStatus`) | `messageId_`, timer, row in `mod_discord_status` | Initialize, Update, SendOrUpdate, save, load | three asynchronous answers, reload, restart | one message, edited in place; memory and database agree; no phantom message | `ServerStatus` |
| **Admin** (`DiscordAdmin`) | `pendingActions_`, audit log | slash commands, confirmation buttons, expiry, execution | buttons pressed late, twice, by others; reload and restart in between; failing execution | one end per request, executed as approved, audited as executed, dialogues tell the truth | `Admin`, promise: `ApprovedCommands` |
| **ChatBridge**, game to Discord (`DiscordChatBridge`, `DiscordQuickSender`) | `recentRelays_`, opt-ins, webhook URLs and attempts, messages held back, sender queue | capture, filter, webhook creation, flush, send, retry | overlapping creations, messages waiting while others go out, restart | nothing stranded, posted twice or reordered | `ChatBridge`, promise: `ChatRelay` |
| **Global chat**, both ways (`OnCommandExecuted`, `HandleChannelChat`, `HandleMessageCreate`, `DiscordGlobalChatProvider`) | the provider in use, the bridge's mirror of the opt-ins | detect and select a provider, take a command or a channel message for chat, deliver a message of Discord | a mirror kept from what is overheard; the bridge's own messages come back; reload while a message is under way | opt-ins followed, no echo, factions kept apart | `GlobalChat` |
| **Filter** (`DiscordFilter`) | the list of words | normalise, find, censor, block | links are masked by one of two word loops | no banned word gets through the filter, and nothing else is touched | `ChatFilter` |
| **RoleSetup** (`DiscordAdmin.cpp` 984-1186, `PostDelayedTask`, `roleCache_`) | the chain's state, its timer, the role cache | start, create, reply, report, refresh | a chain that lives from reply to reply, a cache that lags, a 32-bit clock, two setups at once | the report tells the truth, no role twice, creations keep their distance, the chain ends | `RoleSetup`, promise: `RoleLedger` |
| **EmojiManager** | name to emoji map, the two sets of ids, resolved emojis | Refresh, two answers merged, resolve, rewrite, route | answers of two refreshes cross, one of them fails, the guild's emojis change | the guild's emoji wins; a webhook is only given what it can render | `Emojis` |
| **DiscordMgr** | game queue, delayed tasks, role cache, guild name | start, Update, READY, event dispatch, reload, Shutdown | queues swapped under a lock, tasks posted by tasks | see the modules it belongs to | in `NetWorker`, `Gateway`, `RoleSetup`, `GlobalChat`, ... |
| DiscordClient, DiscordHttp | `connected_` | build and send requests | - | - | their outcomes are NetWorker's actions; the calls that answer at once without a guild or application are in `RoleSetup` and `Emojis` |
| DiscordJson, DiscordConfig | parsed text | parse | - | - | no: string work; what other parts decide by it is a constant or a variable there |
| Presence, PlayerProvider | cached status text | render, read | an unlocked write read by the gateway thread | - | no: a data race on strings, listed as a hazard |
| Events, scripts, loader, SQL | - | forward a hook as one request | - | - | no: stateless; they appear as the callers of the modelled operations |

`PROJECT.json` lists the hazards with the line each one bites at, and the
properties that would catch it; hazards without a property say why.

## The modules and the code

Definitions bear the code's names where there is one (`map` in `PROJECT.json`
gives the lines). Requests, messages, payloads and users are numbers or model
values. Variables marked *history* exist only for the properties and no guard
reads them. At the head of each module's actions stands a block of *faulty
variants*: plausible mistakes, unused by the specification, each of which breaks
the property it is paired with.

**NetWorker.** The worker's `Run` is a program counter: look at `running_`, pop
(or time out after 500 ms), perform the request, then complete, drop, or back off
and re-queue (`HandleHttpMessage`). An HTTP request ends in one of three ways:
answered, answered with 429, or no reply - and then Discord may have carried it
out or not. A callback posts its continuation to `gameQueue`; `Tick`, `RunTask`
and `EndTick` are `ProcessGameQueue`, which swaps the queue out and runs the
batch, so tasks posted by tasks wait for the next Update. `Shutdown` clears
`running_`; `EndShutdown` is the end of the join, and clears `initialized_`.
**RestChannel** is what the other components see of all this: a request is
answered at most once on the game thread, or settled silently, in any order, and
never after Shutdown. `ImplementsRestChannel` shows that NetWorker keeps it;
ServerStatus is built on it.

**Gateway.** Four actors: the gateway thread (`rpc`), the writers (`wpc`, one for
each connection), Stop, and Discord, which can end a connection at any time. The
writer's wait is split as the condition variable splits it - test, fall asleep,
sleep, wake by notification or by the 300 ms timeout - because `wake_` is set
without the mutex, so a notification can fall into the gap. The publish queue
outlives connections, as in the code. Payloads are IDENTIFY or anything else; they
are pushed with the mutex held (`Publish`), and the notification follows after the
unlock (`PublishNotify`): in between, `pub` is "notify", and a writer may be asleep
over the payload. `NoPayloadSleeps` says that this is the only time. Payloads are
published on the REST worker's thread (`DiscordNetWorker::Run`), which `NetWorker::Stop`
joins before it stops the gateway; `Stop` therefore waits for `pub` to be "out", and
what `Publish` has read of `running_` cannot change before its push.
`EarlyStop` lets Stop come before `Run` has stored `running_ = true`. **GatewayLink**
is what DiscordMgr relies on: connections one after the other, each with a writer that
has ended before the next attempt; `connected_` from READY to the end of the
connection that brought it; no attempt once Stop has been called, and nothing at all
once it has returned. `LinkState`, `WriterAlive` and `StopState` map to it.

**ServerStatus.** The n-th POST creates message n. `dbQueue` are the statements
the database has not executed, `loaded` the SELECT's results whose callback has
not run. AzerothCore keeps or drops the callback of a query issued from a place
that does not hold its `QueryCallback`; a callback that never runs is a step not
taken, so nothing here is fair and all properties are safety. `late` notes what
has come while an answer was outstanding.

**Admin.** Each action is one interaction handled on the game thread, under the
configuration of that moment: `RequestConfirmation`, `HandleCommand`, and the
three things a pressed button can come to. Execution has the outcomes the code
has: done, reported as failed (player offline, bags full), or an exception that
leaves the handler. Read-only commands change nothing but the audit log and are
represented, with the other immediate ones, by `player.kick`. **ApprovedCommands**
is what the flow promises to those who administrate with it: a request is unmade,
waiting, done or dismissed; the world (here the player's level and money) changes
only in a step that carries out a waiting request and writes it down; a restart
dismisses whatever waits. `Stage` and `Logged` map the code's state to it.

**ChatBridge.** `Capture` is `RelayToDiscord` after deduplication and filter:
straight to the sender, or held back while a webhook is created. A creation can
be answered with the webhook, an error, something that is no JSON, or (two 429s)
not at all. The sender pops, posts, and re-queues once after a 429. `Restart`
loses the memory and keeps the webhooks Discord has. Left out: playerbots (they
add a speaker that is ignored), an unset channel ID, the rewriting of text, and
whether a post goes by webhook or, for application emojis, as the bot (that
choice is in Emojis). **ChatRelay** is what players are promised: a message said
waits, and is posted once or lost; of those for one channel under one
configuration none is posted before an earlier one that still waits, unless a rate
limit delayed that one. Held back, queued and being sent are all `Waiting`.

**GlobalChat**, on top of **ChatFilter**. The game's side is the commands a
player types, in four kinds of spelling that the server and the bridge may take
differently (`Forms`), and messages in channels; Discord's side is a `MESSAGE_CREATE` with an
author and a channel. The in-game module's own opt-ins (`optedIn`) and the
bridge's mirror of them (`globalChatEnabled`) are two variables, and `unnoticed`
notes the players whose last switch only one of the two took notice of: the command
was longer or shorter than its name, or another module's. `Post` is a message of Discord
on its way to the game thread, so that a reload may come in between. A text is a
sequence over eleven kinds of character: two letters, a digit that is read as one of
them, a mark, a space, the beginning of a link, which is what the filter can tell
apart, and the two ends of a mention, `@here`, a custom emoji and a bar, which is what
the conversions change. `Words` stands for the two loops that split a text, `Censor` and
`HasBannedWord` for their two uses; the list of banned words is a parameter.
`Filtered` is the filter in one direction (`AppliesTo`), `Shown` what comes after it: in
the game emojis become names, bars are doubled and mentions are taken out
(`BuildGameMessage`), on Discord only the latter (`RelayToDiscord`). What is taken out
leaves a gap (`""`), so that places of a text can be compared before and after; `Read` in
MCGlobalChat closes the gaps.

**RoleSetup.** A setup's chain is a phase: idle, creating, waiting for the reply,
given up, waiting for its timer, done. `FireRoleCreations` reads the cache once;
`CreateRole` is Discord; `Reply` sorts the role under one of the report's three
headings and sets the timer; `Fire` and `Tick` are `ProcessDelayedTasks` with its
comparison of uint32 milliseconds (`% Wrap`). The cache is refreshed by lists
that travel like any answer. `/setup roles` and `.discord setup roles` are two
setups that differ in nothing that is modelled. **RoleLedger** is the promise of one
setup: one role is asked for at a time, each once, a role under a heading stays
there, and one report is sent when all are under one. *History*: `blind` (queued though
the guild had it, or another setup was about to create it), `errored` (answered
with an error that counts as existing), `age` and `early`.

**Emojis.** A refresh asks for the application's emojis and then the guild's; the
REST worker may have to repeat either after a 429, which puts it behind the
other. The answers are merged in the order they come. The bridge's part is three
questions: what a name resolves to, whether a text contains an emoji only the
application has, and that text rewritten for the guild; `RoutedRight` is about
every text up to `MaxText` pieces at every moment all is quiet. *History*:
`tainted`, set by whatever makes the promised order impossible (a refused answer,
a first request repeated behind the second, two refreshes that cross).

### How they fit together

NetWorker's promise is RestChannel, Gateway's GatewayLink, ChatBridge's ChatRelay,
Admin's ApprovedCommands, RoleSetup's RoleLedger; each is shown to be kept by a refinement
mapping, checked and proved. ServerStatus extends RestChannel's statuses;
ChatBridge, RoleSetup and Emojis state the part of it that concerns them in
their own actions: one answer at most, possibly refused, possibly never, for
Emojis in the order of the worker's queue with a retry going to its back.
GlobalChat's `Relay` is ChatBridge's `Capture`, looked at from the side of the
text instead of the queue. Admin's `config.reload` is the `Reload` action of
ServerStatus, ChatBridge, GlobalChat and Emojis (there a refresh), which allow it
at any moment; Gateway's READY is the refresh of RoleSetup and Emojis.

## What the runs check

| run | module | bounds | distinct states | shows |
|---|---|---|---|---|
| `net` | NetWorker | 3 requests, backlog 1 | 161,505 | no request lost, doubled or overtaken but by a retry; all end; nobody is stuck; Stop and Update return; RestChannel implemented |
| `gateway` | Gateway | 2 connections, queue 2, 2 READYs | 178,639 | one writer, no payload sleeps but until its notification, no IDENTIFY lost, nobody is stuck, HELLO answered, reconnects, Stop returns; GatewayLink implemented |
| `status` | ServerStatus | 4 POSTs, 2 reloads, 2 restarts | 2,912,774 | one message while answers are prompt; memory and database agree unless a reload intervened; only what exists is edited |
| `admin` | Admin | 2 users, 2 configurations, 2 requests, time 2, 1 restart | 644,308 (symmetric) | one end per request, run as approved, audited as run; ApprovedCommands implemented |
| `bridge` | ChatBridge | 3 messages, time 1, 1 reload, 2 starts | 867,256 | what is held back is due, order kept; waiting messages get out; ChatRelay implemented |
| `roles` | RoleSetup | 2 roles, 2 setups, delay 1, clock modulo 2, 1 refresh | 312,024 | truthful report, no role twice, a distance between creations, the chain ends; RoleLedger implemented |
| `emojis` | Emojis | 2 names, texts of 2, 1 change, 1 refresh | 173,675 | what is found is what Discord has, messages are routed by it, prefixes render unless nothing has been found yet, changes are seen |
| `inbound` | GlobalChat | 2 players, 8 configurations, 13 texts | 104,724 | opt-ins followed, no echo, banned words unreadable where nothing taken out touches a letter |
| `admin_dialogue` | Admin | 1 request | violated | a confirmed restart is not executed |
| `gateway_early` | Gateway | 1 connection | violated | a Stop before `running_ = true` is forgotten |
| `bridge_queued` | ChatBridge | 2 messages | violated | after a refusal messages wait for a creation nobody has asked for |
| `roles_again` | RoleSetup | 2 setups, one after the other | violated | a second setup creates the roles of the first again |

Every property is stated, with its meaning, at the end of its module. The type
invariants are proved for every value of the constants and not run again. So are
`ConnectedMeansReady` of Gateway, `PostedAtMostOnce` of ChatBridge (which ChatRelay
implies) and the action properties `OnlyForward` of
NetWorker, `StopWindsDown` of Gateway and `WindsDown` of RoleSetup.
`inbound` also evaluates MCGlobalChat's `CrossingAssumption`: the filter and the
conversions on every text of up to four characters, in both modes and directions. Of a
text that stands apart, it finds, no banned word can be read in the result even with the
gaps closed; TLC refutes it without that premise.

*Why the bounds are enough.* Three requests are the fewest that let a retried
request be overtaken by one that was queued after another; a backlog of one event
suffices for a batch and a task that is posted while it runs. Two connections are
what it takes for a payload, a flag or a writer to survive one; a queue of two
holds an IDENTIFY behind another payload. Four POSTs, two reloads and two restarts
let two answers, two saves and two loads cross. Two requests and two users let
each press the other's buttons, and a second configuration that differs in every
setting the buttons look at can come between; time 2 exceeds the shorter timeout.
The commands between them end in every way an execution can: with the player
changed, with an exception, with a failure because the player is offline, at once
and unasked, and with the chain of `/setup roles`. (`player.item`, which can fail
while the player is online as well, is left to the proofs.) Two messages fill a
channel's list of two and the third overflows it or follows the flush; the windows
of 60 and 3 seconds are both one tick, so that two creations can overlap. A second
channel is left to the proofs. One role the guild has and one it lacks, with a
cache that may or may not have been told of the first, give every setup both kinds
of role, and two setups share both; a clock modulo 2 wraps at every second tick,
so that every timer is set at a wrap in some behaviour. One name both may have and
one only the guild may have are the two ways in which the merging order matters; a
refresh at start, one more, and one change cross in every order. Global chat's
configurations each move one option from the default, and the two pairs that
matter together. What remains outside the bounds is covered, for safety, by the
proofs.

*Deadlock* is not checked (`CHECK_DEADLOCK FALSE`): the bounds on requests, time,
refreshes and restarts let every one of these systems come to rest.

*Fairness.* NetWorker: the worker thread, Update (the worldserver calls it as
long as it runs) and the return of the join; queueing, gateway events and
Shutdown are not fair. HTTP requests are assumed to return; `DiscordHttp` sets
timeouts. Gateway: the gateway thread, the writer (there is one at a time,
`OneWriter`, so one condition does for all connections) and Stop; Discord is not fair,
except that a synchronous websocket read is assumed to end, with a frame, an
error or a timeout. ChatBridge: the REST worker answers and the game thread runs
its tasks; nobody has to speak. RoleSetup: time passes, the worker gets a reply or
gives up (`CreateRole`), the game thread runs replies and due tasks; that Discord
creates the role is not assumed. Emojis: the worker answers (`Answer \/ RateLimit`,
either will do, and a request is limited once only), the game thread merges the
answers and handles the notices; refreshes and changes are not fair. Admin,
ServerStatus and GlobalChat need none.

## What is proved

`tlapm` checks these for every value of the constants. The assumptions are the named
ASSUMEs of the modules: bounds are natural numbers, banned words consist of letters, configurations are records of the
options, the table of roles is finite, the highest level lies between 1 and 255, a
delay is shorter than the clock's period. Each proof module has one inductive
invariant `IInv`, its theorem `Invariance`, and from it the type invariant and every
safety property and action property its run checks except `ThreadsCanMove`, the
refinements included. Three liveness properties are proved under a hypothesis that is
explained at the end:

* **NetWorkerProofs** - `OnePlace` (a request that has not ended is in exactly one
  place - queue, worker's hand, game queue or batch - and one that has ended in
  none), `AppliedAtMostOnce`, `OnlyRetriesOvertaken`, `QuietAfterShutdown`, and the
  safety half of the refinement: every step of NetWorker is one of RestChannel or
  leaves it alone. The invariant adds which places the program counters allow, that
  the queue and the posted tasks hold no request twice, and that a request was
  tried at most once unless it is marked `retried`; without the last, nothing
  stops the worker from retrying what Discord has already done. For the order,
  `OrderInv` puts all requests in one line from the answered ones to the back of
  the queue, along which only a retried one may stand behind a later one.
  `OnlyForward`, stage by stage: the only way back from the worker's hands is that of
  a refused request, which its mark makes a step forward too. `PromiseSuffices`: what
  implements RestChannel, whoever it is, ends no request twice and moves none after
  Shutdown, which is all ServerStatus takes from it.
* **GatewayProofs** - `OneWriter` and `ConnectedMeansReady` for any number of
  connections. The invariant ties the reader's place to `conn`, `connected` and
  the writers: before a connection is dialled all writers have ended, between
  `Dial` and the join only the current one runs, `connected` implies a place inside
  the read loop. It is the join in `Run` that makes it inductive. `NoPayloadSleeps` is a
  second induction on top of it: who pushes holds the mutex, so that no payload
  falls between a writer's test of the queue and its sleep, and the notification, which
comes after the unlock, still finds whoever sleeps over it. `StopWindsDown` orders
  the places of the gateway thread by the steps left to its end, and no step after
  Stop leads back. `IdentifyUnderWay` is the safety half of `HelloIsAnswered` and a
  third induction: on an open connection on which HELLO has been read either IDENTIFY
  has been written, or it is in the queue or in the hands of a writer, and that writer
  is the connection's and ends only after Stop (`Newest`, `WriterLives`, `Answering`).
  `ImplementsGatewayLink`, without `EarlyStop`, maps the places of the gateway thread to
  the four states of the link; the case that matters is the end, which Stop must have
  asked for, since nothing else clears `running_`. `PromiseSuffices`: the link
  alone implies that nobody is connected without a connection, and that after Stop has
  returned nothing moves.
* **AdminProofs** - `ResolvedOnce`, `RunsAsApproved` and `AuditMatches`. The invariant
  says that a pending action is the request it was made for, with the same user,
  command, arguments and time, that nothing has come of it and nothing has been
  audited yet; from it each end is compared with the request itself. That the map
  does not survive a restart matters here: the age of an action is measured by a
  clock that does not either. `ImplementsApproval`: each of an interaction's ends is
  one move of one request's stage, all other requests keep theirs, and the level
  and the money of the player change in no step but such a move from "waiting" that
  adds the request to the log. `PromiseSuffices` says what that is worth: whatever
  implements ApprovedCommands changes a player only upon a recorded confirmation, and
  executes nothing that was dismissed or forgotten.
* **ServerStatusProofs** - `OneMessageWhenPrompt` and `MemoryMatchesWithoutReload`.
  The invariant says where the id of the one message can be - in the reply, in
  memory, on its way into the database, in the row, on its way back - and which of
  the two copies is ahead (`WillBe`: what the row becomes once the statements under
  way have been executed). `EditsWhatExists` is an induction of its own over every
  place an id can be in: none of them ever holds one Discord has not given out.
* **ChatBridgeProofs** - `HeldBackIsDue`, `PostedAtMostOnce`, `OrderKept`. All
  messages under way stand in one line, through the posted ones, the one being sent,
  the sender's queue and the lists held back; every action keeps that order, drops a
  message, or sends it to the end with its `retried` flag set. A list that is flushed
  is appended to the queue, so its messages must not be in the queue already, and
  those of the same channel that came later must not have overtaken it: `Tagged` says
  when a channel's list can hold anything. `HeldBackIsDue`, the safety half of
  `WaitingIsFlushed`, needs one more induction: a channel for which a creation was
  attempted has its webhook, a creation under way, the answer that brings it under
  way, or a refusal on record (`Attempted`), however many creations overlap.
  `ImplementsChatRelay` follows from that line: what is posted next is at its head.
  `PromiseSuffices` shows the promise is worth having: ChatRelay alone, whoever
  implements it, posts nothing twice and keeps the order.
* **RoleSetupProofs** - `SummaryTruthful`, `NoDuplicateRoles`, `Paced`, for any width
  of the clock. A role of a setup is in one of five places; what the cache, the
  lists on their way, the replies and the report say is so; a role under request or
  waiting, and not queued blindly, belongs to one setup and is not in the guild
  yet; the timer makes up for what a setup's age lacks. `ImplementsRoleLedger` reads
  a role's place off phase, queue and lists (`Place`); that a role is in one place,
  and that a chain in its request or its wait has one role or none in hand, make
  every step one of the ledger's. `PromiseSuffices`: whatever implements RoleLedger
  asks for no role twice and moves none after its report. `ChainsWindDown` is the safety
  half of `Finishes`: the steps a chain has to go - five for each role left, less where
  it stands - fall with each of its steps, nobody else's raises them, they are 0 only
  when it is done or dropped, and the clock passes no task without its being due.
* **EmojisProofs** - `SettledIsAccurate`, `RoutedRight`. As long as nothing has
  tainted the last refresh the two answers can be in six places (`OnCourse`), each
  of which fixes the map and the two sets of ids. `PrefixRenders` speaks of every
  state, in whatever order answers come or fail to come: the resolved emojis agree with
  the map and with the ids known to be the application's (`Agree`) unless the map has
  found nothing since it was cleared.
* **GlobalChatProofs** - `FollowsOptIn`, `NothingComesBack`, `FilterHolds`, on top of
  lemmas about texts of any length and any list of words: what `Censor` replaces is a
banned word by itself and all of those are replaced, and `HasBannedWord` misses none,
for texts in which no link is glued to a word (`HandleMasks`); a conversion treats a text
and what the filter has left of it alike, as neither mentions nor emojis are made of
letters (`ShownMasked`); and a banned word in the result would have been one in the text
if what was taken out stands apart (`NothingJoined`). That no banned word can be read
with the gaps closed is left to TLC.

*Liveness, under a hypothesis.* `ShutdownReturns` (NetWorker), `Reconnects` and
`StopReturns` (Gateway, without `EarlyStop`) are proved in the form `FairSpec /\
[]ThreadsCanMove => ...`. Each is a chain of leads-to steps along the places of one
thread, each step from one weak fairness condition and an invariant that names
the places. Fairness obliges an action only while it is ENABLED, and ENABLED is
opaque to the prover; `ThreadsCanMove` says in which places each fair action is
enabled. It is itself an invariant that TLC checks in the runs `net` and
`gateway`, so the hypothesis is met by every state of those instances.

*Only model-checked*, because they are out of the prover's reach: `ThreadsCanMove`;
`EveryRequestEnds`, `TickReturns`, `HelloIsAnswered`, `WaitingIsFlushed`, `Finishes` and
`ChangesAreSeen`, which need an induction over the length of a queue or the size of
a set inside a temporal formula, for which the prover has no rule; and the fairness
half of the refinement of RestChannel. Their safety halves are proved: `OnlyForward` for
`EveryRequestEnds`, `IdentifyUnderWay` for `HelloIsAnswered`, `HeldBackIsDue` for
`WaitingIsFlushed`, `ChainsWindDown` for `Finishes`; what is left to TLC is that fair
threads take the steps these say are left.

## What the checks found

The four `violated` runs are disagreements between the code and what its comments,
dialogues and log lines say; `findings` in `PROJECT.json` quotes both sides. Others
seen while modelling, which no run is spent on:

*Status, start and stop*
* "One persistent message, edited in place" (`README.md:321`): while the id is 0
  every interval posts another one (`DiscordServerStatus.cpp:85`), so an answer
  slower than the interval doubles the message; and a reload sets the id to the
  configured one (`:29`) while a POST, a save and an older load are under way, after
  which memory and database may name different messages.
* READY comes again with every reconnect, and `DiscordMgr.cpp:287-288` announces a
  server start each time.
* A reload cannot enable the module if it was disabled at start
  (`DiscordMgr.cpp:117`); the client's `connected_` is never reset, so the status
  says Online after the gateway is gone; `wake_` is never reset either, so from the
  second connection on the writer spins, sending first what the last one has left.
* A `{realm}` in the realm's name makes `RenderText` loop for ever
  (`DiscordPresence.cpp:52`).

*Commands*
* `/setup roles` writes no row to the audit log (`DiscordAdmin.cpp:1126`; the
  README: "every action is written to `mod_discord_audit_log`").
* `Discord.Confirm.RequireConfirm` is loaded and never read: destructive commands
  always ask (`discord-integration.conf.dist:608-610`: "0 = execute immediately").
* `/player money` adds the amount it says it sets (`DiscordAdmin.cpp:517`, `:804`),
  and `/player level 300` gives level 44 (`:508`).
* `pendingActions_` and `recentRelays_` are never pruned.
* The comment at `DiscordAdmin.cpp:1044-1047` "guarantees the summary always
  appears"; a creation limited twice is dropped without a callback and the chain
  ends there. An error counts as "Already existed". If all roles exist, the report
  can be sent before the deferred response it follows up. A frame that steps over
  a task due in the last millisecond before the uint32 clock wraps delays it by 49
  days (`DiscordMgr.cpp:166`).
* Only `GUILD_ROLES_UPDATE` is listened to for changed roles, which is no event of
  Discord's; the role colours and tags that are loaded are never shown, and
  `ResolveMemberTags` and `GetIdentityForAccount` are never called.

*Chat*
* If a webhook URL is not configured "the module auto-creates one"
  (`README.md:185`): its URL is only kept in memory, so every restart creates
  another. One that is deleted on Discord stays in use.
* The comment at `DiscordChatBridge.cpp:441` promises bot messages while a webhook
  is being created; the messages are held back.
* `RelayDirectGameMessages = 0` turns off every way of relaying, not only
  `.discord say` (`DiscordChatBridge.cpp:485`, `:538`;
  `discord-integration.conf.dist:230`); with provider `none`, `.discord say` still
  relays, and it does not ask whether the player is muted.
* A command is taken for chat by its first letters (`DiscordChatBridge.cpp:503`):
  `.chatter hello` is relayed, while `.cha hello`, which the server accepts as
  `.chat`, is not. `.CHAT hello` by a game master is relayed and, because
  `DiscordEvents.cpp:212` compares case, logged as well.
* A banned word glued to a link (`x` before `www.`) is found by `HasBannedWord` and
  not by `Censor`, or the other way round (`Glued`, excluded from `FilterHolds`); a banned
  word that contains a symbol never matches.
* Mentions are taken out after the filter has looked (`DiscordChatBridge.cpp:433`,
  `:576`). What they parted is joined, what followed `@here` was part of a longer word
  for the filter, and a link that began inside a mention is gone: such a text can show a
  banned word in the end (`Apart`, the other premise of `FilterHolds`). Each kind is also
  taken out once, one after the other, so that a removal can make up another mention:
  what is left of `@every@hereone` is `@everyone`, against the comment at `:431-432`.
* `.chat  on` with two spaces, or `.chat on ` with one at the end, switches global chat on
  in the game, while the bridge takes it for a message (`DiscordChatBridge.cpp:510`);
  these spellings are not among the model's `Forms`.
* A refresh of the emojis forgets which ids are the application's and keeps the
  resolved ones (`DiscordEmojiManager.cpp:67-71`): until an answer brings one again, a
  webhook is given emojis it cannot render (`PrefixRenders` confines it to that time).
  If the application's request is limited and the guild's is not, the application's
  emojis override the guild's, against the comment at `:76-78`; two refreshes that
  cross leave emojis that are gone.
* A stray `<` before an application emoji keeps it from being recognised.
* The options map class 10 to druid and 11 to demon hunter
  (`DiscordConfig.cpp:241-246`), while `DiscordModule.h:62` has druid at 11: a druid
  wears the demon hunter's emoji.
* `Escape` writes a control character as `\u00` without its digits
  (`DiscordJson.cpp:26`), which is no JSON.
* Options the configuration file describes and nothing reads:
  `Discord.Bot.ReconnectDelay` (`discord-integration.conf.dist:102`),
  `Discord.Playerbots.IncludeInChat` (`DiscordConfig.cpp:313`).

## Assumptions about what is outside the code

Discord and the databases are modelled from how `src/` uses them. Requests and
synchronous websocket reads return in the end. `MakeToken` does not repeat a
token. A status message deleted or moved on Discord, a deleted webhook, and the
15-minute life of an interaction token are not modelled. `LogAudit`'s
asynchronous insert counts as written. `Player::ModifyMoney` adds, `GiveLevel`
sets; names do not contain the `|` that separates arguments. Nobody but the
setups creates or deletes a role while they run; the application's emojis do not
change. The in-game chat modules take the commands their names suggest, in every
abbreviation and case the server accepts.

## Not modelled

* **DiscordHttp**: network I/O without state; its outcomes are NetWorker's.
* **DiscordJson** and most of **DiscordConfig**: parsing character by character, far
  below the level at which the rest is stated. What a failed parse leads to is
  an outcome in ChatBridge ("garbage"), RoleSetup ("other") and Emojis (`ok` FALSE).
* **Presence, PlayerProvider, Events, the hook scripts, the `.discord` command**: they
  render a text, or forward a hook as one request. Presence has a data race on
  strings at every reload (`DiscordPresence.cpp:14`).
* Within modelled components: playerbots, attachments, replies, the
  wording of messages, the positions of the Admin and Moderator roles, animated
  emojis and the parsing of markup, the read-only slash commands.

## What could come next

A composition of ChatBridge and GlobalChat, in which a message's text and its
place in the sender's queue are followed together; abstract specifications of
Emojis and GlobalChat, which have none; the interaction token's 15 minutes and the
order of the fast path's replies against the REST worker's; the frame that steps
over a timer at the clock's wrap, which needs a clock that advances by more than
one.
