# A TLA+ model of wcppm-lob

wcppm-lob is a middleware between a WeChat protocol server ("WCPPM", reached over
HTTP, a WebSocket push and webhooks) and the programs that act on the messages of
one or more accounts: the OpenClaw adapter and an operator console.  It is
written in TypeScript and runs in one Node.js process, so its concurrency is the
interleaving of asynchronous functions at their awaits, of timers and of socket
callbacks, together with what the network, Redis and the process's own death do
between them.  All paths below are relative to the repository.

## Inventory

| component | source | state | operations | talks to |
|---|---|---|---|---|
| Outbound pacer | `src/core/outbound-pacer.ts` | per conversation: queue, running, lastReleaseAt; per account: sentTimes, stopped | send, the runner of a conversation, stop | called by the bridge server's `/send`; calls the send path |
| Heartbeat | `src/heartbeat/*.ts` | the learned interval (`NetHeartbeatInfo`), fields of `SmartHeartbeat`, hour window, failure count, abort signal; the Redis entry | start (the loop), stop, onHeartResult, getNextHeartbeatInterval | Redis, the HeartBeat endpoint |
| Inbound pipeline | `src/core/ingest.ts`, `frame.ts` | none of its own | handleInbound | called by the client; writes the database, calls broadcast |
| Database | `src/core/db.ts` | inbound_log, media, contacts (SQLite) | recordInbound, markDelivered, getUndelivered, prune, media and contact access, migration | called by ingest, server, main |
| Bridge server | `src/core/server.ts` | subscribers map, HTTP sockets | upgrade, connection (greet and replay), ack, broadcast, close; HTTP `/send`, `/forceSync`, `/media`, `/contacts`, `/history`, `/healthz` | bridge clients; database; pacer; client |
| Bridge client | `src/shared/bridge-client.ts` | ws, closed, reconnectTimer | connect, close, message and close callbacks, HTTP calls | bridge server |
| WcppClient, ingest | `src/core/client.ts` 826-906, 1242-1345 | seenMsgIds, contacts, wxid, sync key | ingestSyncMessages, forceSync, normalize | upstream; ingest |
| WcppClient, push transport | `src/core/client.ts` 1357-1847 | maxWs, ping and reconnect timers, backoff, webhook server and registration | connect, disconnect, socket callbacks, register and remove webhook | upstream |
| WcppClient, send path | `src/core/client.ts` 1881-2088, `wiring.ts` | none | maxApiCall with retries, sendText and the media sends | upstream |
| WcppClient, download | `src/core/client.ts` 2172-2449 | none | image retries, section loop | upstream |
| Webhook listener | `src/core/webhook-listener.ts` | HTTP server | verify, route by wxid, ingest | upstream; clients |
| Process wiring | `src/core/main.ts`, `config.ts` | instances, timers, shuttingDown | start, prune, liveness, shutdown | everything |
| OpenClaw adapter | `src/adapters/openclaw/` | bridge per account, selfWxid, debouncer | start, stop, gate, dispatch | bridge client; OpenClaw host |
| Console | `src/console/` | pendingForceSync, view state | reducers, commands | bridge client |

What makes the parts correct, and what is hard about it:

- **Pacer.** Accepted requests leave in order, once, not after stop(), and are not
  stranded; the floor, the gap and the ceilings hold.  Hard: several runners
  sleep at once and share one window; a conversation is forgotten when it drains.
- **Heartbeat.** The interval stays in its range; learned state survives a crash;
  the cap bounds the beats of an hour; stop() silences the loop at any await.
  Hard: two timescales, a tumbling window that a restart forgets, Redis failures,
  stop() against a beat.
- **Inbound path.** A message is broadcast at most once and only to its account,
  reaches the adapter if it was fresh, and is never replayed after its ack.  Hard:
  a death or a failing write between record and broadcast, lost frames and acks, pruning, redelivery.
- **Client ingest.** A message that is presented is stored, under its own account, and
  own direct messages are not; the cursor passes no message unprocessed.  Hard:
  eviction, a failed write, overlapping forceSync calls, three transports, a wxid
  that has to be learned.
- **Push transport.** A live socket or an armed timer, never both or none; the backoff
  follows the failures; after disconnect nothing is left, and no registration
  upstream.  Hard: unawaited registration, late close events, a shutdown at any point.
- **Send path.** A refusal is final; the parts of a reply arrive in order; a timeout
  does not mean that it was not carried out.  Hard: retries of calls that may have
  been executed, waits that break off while the work goes on.
- **Download.** The agent reads the bytes of its own message, all of them unless the
  upstream gave out.  Hard: the section loop, a file name that is not unique.
- **Adapter, bridge client.** One standing subscription per account; own echoes are
  dropped; what was acknowledged is dispatched, alone or in a burst.  Hard: stop and reconnect races, a wxid
  that is told late, a debouncer between the ack and the agent.

PROJECT.json lists these hazards at their lines, with the properties that cover
each or the reason why none does.

## Modules

| module | models | source |
|---|---|---|
| `Outbox` | abstract: a bounded FIFO outbox per conversation that can be halted | what callers of `send()` are promised |
| `OutboundPacer` | the enabled pacer, refines `Outbox` | `outbound-pacer.ts` |
| `SmartHeartbeat` | the adaptive interval as functions of two records | `smart-heartbeat.ts`, `constants.ts`, `types.ts` |
| `HeartbeatConductor` | the loop around it, Redis, stop and restart | `conductor.ts`, `runtime.ts`, `store.ts`, `wcpp-client.ts` |
| `HeartbeatProofs` | theorems about `HeartbeatConductor` | |
| `PacerProofs`, `OutboxProofs` | theorems about `OutboundPacer`, and that it implements `Outbox` | |
| `Delivery` | the inbound path from ingest to the subscriber and back | `ingest.ts`, `db.ts`, `server.ts`, `bridge-client.ts`, `main.ts` |
| `ClientIngest` | the client's intake from three transports, its filter, cursor and wxid, and the routing of webhook pushes | `client.ts`, `webhook-listener.ts`, `main.ts` |
| `PushTransport` | the upstream socket and its timers, the webhook registration, startup and shutdown of the process | `client.ts`, `main.ts` |
| `MediaDownload` | the download of one message's media to a file | `client.ts`, `wiring.ts`, `server.ts`, `config.ts` |
| `ReplyPath` | the parts of a reply, from the adapter to the upstream's API | `dispatch.ts`, `bridge-client.ts`, `server.ts`, `wiring.ts`, `client.ts` |
| `AgentTurn` | a turn of the agent, composed of the two: gate, media, agent, reply | `dispatch.ts`, `channel.ts`, `silk.ts` |
| `AdapterRuntime` | the adapter's runtimes, their bridge clients, the echo gate and the debouncer, against the server's side of a subscription | `channel.ts`, `gate.ts`, `bridge-client.ts`, `server.ts` |
| `DeliveryProofs`, `IngestProofs`, `PushProofs`, `TurnProofs`, `AdapterProofs` | theorems about `Delivery`, `ClientIngest`, `PushTransport`, `AgentTurn` with its parts, `AdapterRuntime` | |
| `MC*` | instances for TLC | |

The modules meet at calls.  `ClientIngest` stores where `Delivery` ingests;
`Delivery` and `AdapterRuntime` are two views of the same connection, the first
with time, pruning and the recency gate, the second with the adapter's restarts and
the wxid; a frame that `AdapterRuntime` hands to the agent begins a turn of
`AgentTurn`, whose sends `ReplyPath` takes through the pacer (`OutboundPacer` says
how the pacer spaces them) to the upstream.  `PushTransport` is the life of the
process and of the socket whose frames `ClientIngest` takes in.

**OutboundPacer.** An async function runs without interruption between two
awaits, so an action is one such stretch and `pc[c]` names the await the runner of
conversation `c` is parked at.  `SendAccepted` is `send()` with, when no runner
runs, the first stretch of `runConversation`, which runs before `send()` returns.
`WakeReleases` and `WakeStopped` are the stretch after the sleep, `SendSettles`
the one after the real send: the next turn of the loop, or the `finally` block
(`Finish`), which forgets a drained conversation.  Time is a discrete clock; a
timer may fire at any moment from its due time on.  The text of a request only
scales a delay, so its length is chosen when that delay is computed.  A quiet
range is a pair of times of day; parsing and time zones are left out.  With
`enabled: false` `send` is the real send and there is no state to model.

**SmartHeartbeat, HeartbeatConductor.** `sh` and `net` are the two records the
code keeps.  `pc` names the await of `start()`; `Stop` and `Restart` (a new
process, Redis kept) may come at any of them.  `inTime` tells a Redis command
issued before `stop()` quit the connection, which is still answered, from a later
one, which is rejected.  Only the loop looks at the clock, so ages stand for it:
an action adds the time its await took.  `watch` and `stableFor` are history
variables; `watch` follows an hour over the restarts in it, which empty the code's own
window.  Counters the code only compares with a limit are counted up to it.
Left out: the doze branches (unreachable: `dozeModeCount` is never incremented),
`setOuterHeart` and the `onLongLink` hooks (called by tests only).

**Delivery.** A message is an (account, id) pair with a creation time; a
connection is one channel each way; the server's side of a new socket is `fresh`
until the setImmediate callback greets it.  `Ingest` is the whole of
`handleInbound`, which is synchronous; `CrashInIngest` is the death of the process
inside it.  `Create` and the repeated presentation of a message stand for the
upstream.  Simplifications: both ends of a connection see it break at once, the
clocks of upstream and middleware agree, `since` is not given (the bridge client
never gives it), the content of contacts and media rows is left out.  That their writes
may fail is not: `IngestThrows` is `handleInbound` leaving behind `recordInbound`, an
exception `main.ts` logs, with every connection up and nothing broadcast; `unsent`
remembers the message until the next greeting.

**ClientIngest.** Every account has a log of messages upstream, and any of them may
be presented at any time by any transport, so no channel is modelled: an action is
the whole synchronous handling of one frame (`handleWsMessage`), one push
(`WebhookRouted`, `WebhookUnrouted`, `WebhookRefused`) or one reply (`SyncReply`).
`forceSync` is split at its await into `BeginSync` and `SyncReply` or `SyncFails`.
`ingest` is `ingestSyncMessages`, its loop the function `after`; a message is its
MsgId, a kind (inbound, own direct, own group, or of a type that is filtered) and
its receiver.  The cursor is a position in the log, and only Sync replies carry
one, as in the captured frames of `client.test.ts`.  A failed write is the
exception `main.ts` catches around `handleInbound`.  That a message not the account's
own has the account for its receiver is assumed of the upstream, as the listener does
("Self messages are skipped (their `toUser` is the peer, not us)",
`webhook-listener.ts:42`): an envelope in which an unflagged message named another hosted
account could be routed to that one and taught to it as its wxid.  `missed`, `skipped` and `dropped` tell what the last step did and are not
accumulated: what was presented and is not on record, which own group messages a webhook
push left out (`client.ts:1692`), which pushes were not routed.  It meets `Delivery` at
`handleInbound`: a message enters `stored` here where `Ingest` or `IngestDuplicate`
is taken there.  Left out: contacts, the normalised text, the count `forceSync`
reports, the listener inside the client (`config.ts` never starts it).

**PushTransport.** One action per callback or turn of an async function.  `sock` is
`maxWs`, `timer` holds the delay of the armed reconnect timer, and intervals are
counted so that one whose handle is lost would be seen.  A webhook request is on the
`wire` until the upstream executes or loses it; one whose caller gave up, or whose
process died, stays there as a late one.  `Fresh` is what a new process starts from.
`HeartbeatStopped` is the await in the shutdown loop, during which the other
instances carry on.  `DisconnectThrows` follows the `ws` library: closing a socket
that is still connecting emits an `error`, whose listener `disconnect()` has removed.
`orphaned`, `tickedEarly`, `drops`, `disturbed`, `lost`, `unsettled` are history.
A reconnect timer whose delay is over may fire at any time; delays are kept, not
waited for.  `posts` counts the POSTs under way at the webhook listener, whose close
(`CloseListener`) is a bare `server.close()` and waits for them; the listener is modelled
as enabled.

**MediaDownload, ReplyPath, AgentTurn.** `AgentTurn` extends the other two and gives
every turn a `phase`, the await `dispatchInboundToOpenClaw` is parked at.  In
`MediaDownload` bytes are units known by their position, and a file says whose they
are; an action is one answer of the upstream.  In `ReplyPath` a part of a reply is
its kind, `jobs` are the sends the middleware has in hand (in a conversation of
`PacedChats` one proceeds at a time, as `Outbox` promises), `posted` is what the
upstream executed and `late` what it may still execute.  The verdict of the DM
authorizer, the agent and its reply are external and arbitrary.  The text of a part,
quoting context, base64 and MIME types are left out, and so are read-only accounts,
whose sends return false, and old files in the media directory, deleted after an
hour at the earliest.

**AdapterRuntime.** Each start makes a new runtime with a bridge client of its own.
`conn` is the client's side of its socket, `sub` the server's, `down` and `up` what
travels between them.  `StopWcppRuntime` stands for the abort and for `stopAccount`:
both close what is in the bridges map, and the second finds nothing there.  A frame
carries, as history, whether a ready frame with the wxid went before it.  Which
groups pass the gate is left out: a frame is from the bot or from another.  `held` is what
the debouncer of a runtime keeps and `latest` the last frame of each burst: `Flush` hands
over a whole burst, its last frame with all it carries (`handled`), of the earlier ones
no more than the text (`joined`).  Outages are
shorter than the replay window here; `Delivery` has the longer ones.

## Runs

| run | result | what it shows |
|---|---|---|
| `pacer` | passes | `ImplementsOutbox`, `AcceptedIsReleased`, `FloorBetweenReleases`, `SoloCeilingsHold` |
| `heartbeat` | passes | `IntervalInRange`, `LoopInv`, `StoreHoldsLearned`, `HourWithinCaps`, `NoBeatAfterStop`, `SleepEnds` |
| `delivery` | passes | `AccountIsolation`, `DeliveredWasReceived`, `BroadcastAtMostOnce`, `AckedIsFinal`, `FreshIsReceived` |
| `ingest` | passes | `RightAccount`, `NoOwnDM`, `SeenRemembersRecent`, `PresentedIsStored`, `CursorCovers` |
| `pacer_ceiling` | violated | two conversations overrun the account's per-minute ceiling |
| `push` | passes | `SocketOrTimer`, `KeepaliveMatchesSocket`, `BackoffFollowsFailures`, `WebhookFollowsProcess`, `KeepsTrying`, `ShutdownEnds` |
| `media` | passes | `AgentReadsItsMedia`, `GatedCostsNothing` |
| `turn` | passes | `OnceAndInOrder`, `TurnEnds` |
| `adapter` | passes | `OneStandingSubscription`, `EchoGated`, `FrameIsHandled` |
| `ingest_lossless` | violated | a message whose write failed is dropped as seen when it comes again |
| `webhook_routing` | violated | an account without a configured wxid never gets its pushes routed |
| `media_names` | violated | two files of the same title share a path, and an agent reads the wrong one |

Each violated run states what a comment of the source says and is explained under
"findings" in PROJECT.json.  `HourWithinCaps` is what holds in place of the
comment "Rolling-hour rate cap" (`conductor.ts:77`): the window tumbles, so an
hour across its edge may hold up to twice the cap, and it is a local of `start()`, so
that every restart in the hour adds the cap once more; the run attains the bound with one
restart.  `SoloCeilingsHold` is what holds in place of the account-wide ceilings.
`PresentedIsStored` and `NoOwnDM` are what holds in place of "captured losslessly"
and of "drop own DMs": the first but for a message whose write has failed and for own
group messages, which a webhook push leaves out, the second for accounts with a configured wxid.  `AgentReadsItsMedia` is what holds
in place of "a local path the subscriber can read": what the agent reads is the file of
its own message unless another message of the same file name was written over it.

Four more definitions state a comment of the source that the code does not keep, and
have no run: `MinGapBetweenReleases` (`outbound-pacer.ts:71`; a drained conversation
forgets its last send, so only `FloorBetweenReleases` holds) and
`ReadyBeforeMessages` (`frame.ts:70`; a broadcast may overtake the deferred greeting)
are refuted under `OutboundPacer.cfg` and `Delivery.cfg`; `OwnGroupIsKept`
(`client.ts:822`, "KEEP own group messages — unified across all transports"; the webhook
path drops every message with `isSelf`, `client.ts:1692`) is refuted under
`ClientIngest.cfg`; `WeeklyReprobe`
(`types.ts:10`; the timestamp it is measured from is never set) is refuted under
the code's own constants, in units of 10 s.

What else was met while modelling, none of it against a statement of the
repository, and all of it in the models as the code does it:

- a Remove sent by `disconnect()` while the Set of `connect()` is still to come may be
  executed first, and the registration outlives the process (`unsettled`);
- a server that accepts and drops sockets keeps resetting the backoff, which counts
  closes since the last open (`SocketOpens`);
- a socket that takes longer than 30 s to open runs without keepalive (`tickedEarly`);
- an own message in the frames before the first ready that carries the wxid passes the
  gate (`EchoGated` starts behind it), and a ready without the wxid, after a restart of
  the middleware, makes the gate forget the one it knew;
- a frame received after `close()` is dispatched but not acknowledged, and replayed: while
  one runtime is in its closing handshake and the next is subscribed, both dispatch it;
- a burst in the debouncer keeps the media, the id and the reply context of its last
  message only, although all of them are acknowledged (a comment at `channel.ts:408`
  accepts this);
- when the write of a contact or of a media row fails behind `recordInbound`, the message
  waits on record for the next connection of a subscriber (`IngestThrows`), and is lost to
  it when that comes after the replay window;
- with `ageWindowSeconds` above the retention, an acknowledged message that is pruned and
  presented anew is replayed (`Outgrown`);
- the close of the webhook listener waits for a POST that the upstream does not complete,
  and shutdown with it (the bridge server destroys its sockets for this reason);
- an empty raw body is written as an empty file (`EmptyBodyArrives`), and a tiny last
  section ends a download early;
- an answer that does not parse counts as lost, and the call is repeated;
- the caption of a video or file is not sent;
- `pruneSent` keeps an entry of exactly one hour (`outbound-pacer.ts:246`) that no longer
  delays anything (`:261-263`): a delay that is computed in the very instant of a
  release, because the real send took no time, then overruns the hourly ceiling by
  one; it takes a fifth request to see it.  `SoloCeilingsHold` therefore speaks of accounts whose real sends take time
  (`instant` is false);
- a process that dies with a call to the upstream open has lost that call's verdict
  whether or not it reached the upstream: `losses` counts it.

### Bounds and why they are enough

- `pacer`: 2 conversations, 4 requests (`MaxSends`), queues of 1.  Time passes while a
  runner sleeps, while a real send is under way (1 unit at most, `SendTime`), and up to
  `IdleHorizon`.  Sends that follow each other at once are 2 units apart, so a minute of
  5 units with 2 sends and an hour of 8 with 3 both make a runner wait: four requests
  reach either.  There is also a full queue, a drained and re-created conversation, both
  runners asleep at once, timers that fire late, and delays in and out of the quiet
  range, whose wrap lies within the clock's reach.
- `pacer_ceiling`: the smallest configuration with two conversations.
- `heartbeat`: the interval is scaled to 3..9 with steps 3 and 1, so that every
  branch of `onHeartResult` is reached (settling at the top, settling lower,
  starting over, re-probing); an hour of 12 units, and a cap of 2 beats, so that
  windows roll both with and without the cap.  An observed hour is followed over one
  restart (`StartsWatched`); a second one would add the cap again.  There is no bound on the length of a
  behaviour.
- `delivery`: one id in two accounts (ids are unique within an account only), an
  adapter that acknowledges and a console that does not, two faults (death, broken
  connection or failed write), so that the connection a failed write waits for may break,
  and a clock of 3 units with ages 1, 2 and 2, so that a message
  can be fresh, stale, out of the replay window, pruned and presented anew.  With
  one message per account the order of a replay is not exercised; no property is
  about it.
- `ingest`: an account that has to learn its wxid, with three messages (inbound,
  own direct, own group) and a filter of two ids, so that evictions happen and
  ids come back after them; an account with a configured wxid, a filtered and an
  own message, whose peer is the first account.  Batches of at most two, two
  `forceSync` calls at a time, at most one message whose write has failed, any
  number of restarts.  The calls are symmetric.

- `push`: two instances in shutdown order, the first with a webhook; a backoff that
  reaches its cap at the second failure; two lives, so that requests of one life are
  executed in the next; one POST at the listener at a time.  Sockets open and close any
  number of times.
- `media`: two messages, one direct and one in a group, of every kind, with the same file
  name; two attempts at an image; sizes of up to two sections and a guard of two, so that
  a download can be whole, short, empty, repeated and cut off; one death.  `media_names`
  is the same with files only and no death.
- `turn`: a reply of an image with a caption and a quote in a conversation without a
  pacer, one of a text in one with a pacer, a pairing challenge; one retry per call; two
  attempts without a verdict for one turn and one for the other; every wait may break
  once; one death.  The two conversations share nothing but the death, so more of either
  adds no interaction.
- `adapter`: two runtimes one after the other, one break or restart of the middleware, any
  deaths of the adapter; the debouncer on, which is the harder case; a wxid learned late;
  two messages the bot's account writes to a group from elsewhere.  Until a runtime knows
  the wxid they take the way of a member's, and two of them may be a burst; then they are
  echoes.  A member's messages only ever take the first way.

`CHECK_DEADLOCK FALSE` is set where the program may really stop: a stopped and
drained pacer, a delivery run whose clock and faults are used up, a process that has
had its lives, turns that are done, an account that is not started again.

### Fairness

Timers fire and the promises the code awaits settle: heartbeat requests, Redis
commands and sends carry timeouts or fail with their connection.  So the clock and
each runner of the pacer, the loop of the conductor and each connection are weakly
fair, and a supervisor (`deploy/wcppm-middleware.service`, Restart=) brings the
middleware back.  Callers, stop(), the upstream, failures and the advance of the
clock in `Delivery` are not obliged to happen.
In `PushTransport` an armed timer fires and the shutdown loop goes on; the upstream
owes nothing, not even an answer, nor the rest of a POST it has begun: the closes of the
bridge server and of the database are fair, that of the listener only once no POST is
under way, and `ShutdownEnds` excepts a POST that stays open for ever.  In `AgentTurn` an answer or an error comes for
every request (`AbortSignal.timeout` bounds a send, undici's own timeouts a
download), and the authorizer and the agent are assumed to come to an end, which is
the gateway's affair.  In `AdapterRuntime` a connection attempt that does not break
succeeds, frames are received, and debounce timers fire; breaks are finite.
`PushedSpec` of `ClientIngest` obliges the upstream to keep pushing what an account
receives, to show that even this gets nothing routed.

## Proofs

Every safety invariant the passing runs check, both action properties and the refinement of `Outbox` are proved for all values of the constants.
The assumptions are the ones the modules name (`PacerAssumption`, ...): the types of
the constants and what `config.ts` refuses to start with.  The bounds of the runs
(`MaxSends`, `MaxLosses`, `MaxStarts`, ...) are arbitrary numbers in the proofs.  Each
section below says what has to be added to a property to make it inductive.

**HeartbeatProofs.**  `TypeCorrect`, `IntervalStaysInRange`, `StoreIsUpToDate`,
`HourIsBounded`, `LoopInvariant` and `StoppedIsSilent`, from `HeartAssumption` (3.5 min
plus two success steps fit below 10 min, positive counters, a clock that counts from
1970) and `ConductorAssumption` (naturals, jitter within 100 %).
The inductive invariant is `TypeOK /\ LoopInv`.  The range alone is not inductive:
`reprobe` adds a success step without a bound, so `RoomToProbe` says that a stable
interval is the ceiling or at least a step below it, which every transition to
stable establishes.  It also makes the range check of `getNextHeartbeatInterval` a
no-op, and so nothing changes the learned interval between a save and the next
result: this is `StoreHoldsLearned`.  For the hour, `WindowInv` relates the beats
of an observed hour to the current window: either the hour began in this window
and holds no more beats than it, or it began before, leaves the current window room for
its whole cap and is at least as old as it, so that the next roll ends it.  A restart
begins a window that is younger than the hour and may take the cap once more.

**PacerProofs.**  `TypeCorrect` needs `ClockInv`: what was recorded is in order and
not ahead of the clock, so that a delay is a natural number and the entries
`pruneSent` drops are the leading ones (`OlderIsPrefix`).  `FloorAlways` rests on
`ReleaseInv`: the account's window is the tail of all releases and lacks only what is
older than an hour; a runner sleeps at least until the floor has passed since every
release of its conversation, a sending one remembers the last, and what a forgotten
conversation had released lies behind the clock.  `SoloCeilingsAlways` adds `SoloInv`:
the only conversation sleeps until the release that many places back has left the
window.  It is `minuteWait` and `hourWait` that establish this, and that each looks at
the window the other one waits for is what makes both hold at once.

**OutboxProofs.**  `OutboxImplemented` is the refinement: the abstract queue of a
conversation is `inHand \o queue`, and each step of the pacer is a step of `Outbox` or
a stutter.  It needs `ServedInv`: while the pacer runs, a conversation without a runner
has an empty queue, and what was accepted and not delivered is in hand or queued.

**DeliveryProofs.**  `TypeCorrect`, `IsolationAlways`, `DeliveredAlways`, `BroadcastOnce`,
`AckedIsFinalAlways`.  Isolation needs `FrameInv` (a connection carries frames of its
account) and the delivered mark needs `AckInv` (an ack on its way names a message its
sender was handed).  For the broadcasts `RowInv` says that what was broadcast or
acknowledged stays on record until it is older than `Retention`, when it is too old for
a broadcast: this is where the assumption enters that `Retention` is at least
`MaxBroadcastAge`, as `main.ts` computes it.  Of the replay window nothing is assumed, as
`config.ts` bounds it by nothing; where it outlasts the retention `AckedIsFinal` excepts
the messages of an age in between.

**IngestProofs.**  `TypeCorrect`, `RightAccountAlways`, `NoOwnDMAlways`,
`SeenRemembersAlways`, `PresentedIsStoredAlways`, `CursorCoversAlways`, from
`ClientAssumption` (distinct messages have distinct ids, the receiver as above).
`ingest` folds a batch with a recursive function.  `LoopExists` shows that there is
one, by the least length at which it would fail, and `LoopFacts` what it does, from
`OneMessage`: `Good` says that every wanted message the filter knows is on record or its
write failed, and that what entered last is the end of the filter (`LastOfAppend`).  That
an eviction keeps the newest half is what makes it inductive.  The cursor needs
`PendingOk`: a reply on its way brings every wanted message its cursor passes that is not
dealt with yet, so that replies may be applied in any order.  What a webhook push leaves
out is `SkippedFor`; the other transports leave out nothing (`NothingSkipped`).  The routing needs no
more than that a client goes by its own wxid or none (`RouteFacts`).

**PushProofs.**  The socket's part is nearly inductive: `SocketInv` adds that failures
are counted up to the cap and that the shutdown releases the instances in order.  For
the webhook, `WebhookInv` says which requests may be on the wire at each point of the
chain, that a Set once executed is undone only by a Remove of an earlier time, and that
after `disconnect()` a registration that is left has its Remove on the wire, or lost it.
While the listener is closing the shutdown loop is over.

**TurnProofs.**  `TypeCorrect`, `AgentReadsAlways`, `GatedAlways`, `OrderAlways`.
`MediaInv`: the buffer of a section loop is the leading part of the file and never the
whole of it, and a written file whose name is its own is whole or was cut short.
`GateInv`: a download begins behind an allowing verdict, a path is handed on only when
its download is over.  `ReplyInv`: every send in hand is a call of an existing part, in
its own conversation.  For the order, `OrderInv` says of a turn whose attempts all
brought a verdict that its sends in hand are in order, come behind everything that was
executed or refused, and, while no wait broke off, are the one part that is awaited.

**AdapterProofs.**  `TypeCorrect`, `OneStandingSubscriptionAlways`, `EchoGatedAlways`.  The
strengthening is about the wires `TypeOK` leaves out (`LinkTypes`), a runtime without a
connection, of which nothing is left (`LinkInv`), and one that was not started
(`FutureInv`).  `EchoInv` says that behind a ready frame with the wxid, still on the
wire or handled, every frame finds the wxid known.

Model-checked only, and why:

- the liveness properties `AcceptedIsReleased`, `SleepEnds`, `FreshIsReceived`,
  `KeepsTrying`, `ShutdownEnds`, `TurnEnds` and `FrameIsHandled`: progress under
  fairness needs ENABLED, which the prover does not reason about.

## Plan

1. The models and their runs (done).
2. Theorems about every component with invariants (done).

## Not modelled

The console (`src/console/`): pure reducers, a parser and a terminal over the bridge
client; it acknowledges nothing, and its confirmation of forceSync is one flag set and
consumed in synchronous code.  Contacts, the history query and the health status, which
only read.  The deletion of old media files.  Logging, wording and rendering, the text a
message is normalised to, the SILK codec, proxy selection and the defaults of the
configuration (pure, covered by tests); what the configuration refuses appears as the
assumptions of the modules.  The diagnostic tools in `tools/` and `scripts/`.
