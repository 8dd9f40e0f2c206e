# SplitStream in TLA+

SplitStream takes one live stream, from an RTMP encoder or from a browser camera, and
relays it to several platforms at once. It is one Go process: the ingest listener, the
relay engine, one goroutine per destination, a panel with an HTTP API, a SQLite
database, and helpers that read chats, record to disk, refresh platform tokens and
alert. These modules specify the parts where goroutines, connections and the database
meet. TLC checks them on small instances and TLAPS proves the central facts for
instances of any size.

Paths below are relative to the repository (`internal/relay/queue.go` and so on). Go
names are kept for actions and variables wherever they exist (`arrancando`,
`sessionID`, `applyHot`, `dropQueuedVideo`).

## Inventory

| Component | State it keeps | Operations | Met by |
|---|---|---|---|
| Sink queue (`relay/queue.go`) | a deque with running counters, a position per class of header, flags `dropping` and `closed`, a one-slot wake-up channel | `push`, `pop`, `close` | ingest goroutine, sink goroutine, whoever stops the sink |
| Delivery (`relay/sink.go` `session`/`deliver`, `preamble.go`, `timebase.go`) | connection, timebase anchor, shared preamble | observe, push, pop, preamble, relay | ingest and sink goroutines, remote server |
| Sink life (`relay/sink.go` `Start`/`Stop`/`run`/`suspend`, `backoff.go`) | state shown, quit channel, attempts, flaps | start, stop, dial, retry, suspend | hub, session goroutine, HTTP handlers |
| Engine (`relay/engine.go`), admission (`rtmpio/ingest.go`, `httpapi/camera.go`) | `sessionID`, `arrancando`, tracked connections, `sessions` rows | `OnPublishStart`, `StartSession`, `OnPublishEnd`, `WaitIdle`, `DisconnectPublisher`, key rotation, shutdown | encoders, cameras, panel, main |
| Hub (`relay/hub.go`), edits on the air (`httpapi/destinations.go`, `toggleall.go`, `sinks/factory.go`) | registry of running sinks, destination rows | `Add`, `Remove`, `Close`, create/patch/toggle/delete/retry | requests, session goroutine |
| Taps and preview (`relay/tap.go`, `httpapi/preview.go`) | bounded channels | `Tap`, `deliver` | ingest goroutine, WebSockets |
| RTMP client (`rtmpio/publisher.go`, `probe.go`, `httpapi/test_destination.go`) | socket, dialling goroutine, handshake progress | connect, publish, write, close, probe | sinks, the panel |
| Recorder (`record/`, `sinks/factory.go`) | open segment, index, quota | connect, write, rotate, close | a sink like any other |
| Recordings and retention (`store/recordings.go`, `retention.go`, `httpapi/recording.go`) | rows and files | open, finish, close dangling, reconcile, prune, delete | recorder, start-up, scheduler, requests |
| Scheduler (`maintenance/scheduler.go`) | next pass | run once, postpone while busy | main |
| Tokens (`platforms/tokens/manager.go`, `store/accounts.go`) | stored pair, refreshes in flight | `Token`, `refresh`, `validarTodas`, connect, disconnect | API, chat readers, hourly loop |
| Connecting an account (`httpapi/platforms.go`) | a map of flows, each pending, being exchanged or finished | begin, poll, callback, outcome, sweep | panel, browser sent back by the platform |
| Chat (`chat/`, `store/chat.go`, `httpapi/chat.go`) | readers, bounded channel, batch, recent messages | start, ingest, write, stop, subscribe | event bus, platform readers, webhook, panel |
| Chat readers (`platforms/twitch/chat.go`, `platforms/youtube/chat.go`) | sockets and their subscriptions; page token and quota | connect, follow a reconnection, search, ask for a page | the aggregator, which waits for them |
| Kick's webhook (`platforms/kick/webhook.go`, `httpapi/webhook.go`) | cached public key, ids seen | verify, refresh the key, mark | deliveries handled concurrently |
| Events and alerts (`events/bus.go`, `alerts/`) | subscriber channels, semaphore, retries | publish, dispatch, send | everyone |
| Broadcasts (`httpapi/broadcasts.go`, `store/broadcasts.go`) | remote broadcast, local row, the destination's account and key | create, transition, relink, delete | panel, the engine's start and end |
| Panel access (`httpapi/auth.go`, `setup.go`) | sign-in sessions, attempts, setup flag | login, logout, setup | browsers |
| Formats, configuration, TLS, updates, frontend | none that outlives a call | | |

How they interact: an encoder or a camera is admitted by the engine, which opens a
session row and starts one sink per enabled destination. The ingest goroutine observes
each message into the preamble and pushes it into every sink's queue and every tap; it
must never block. Each sink's goroutine pops, connects and writes on its own clock. HTTP
handlers change the destinations of a session in progress. The engine logs events, the
bus hands them to the chat and the alerts. The chat starts a writer and a reader per
account for each session, and waits for them at its end; readers ask the token manager
for a token before each connection. Broadcasts and accounts live half in the database and
half on the platform, and a request changes both in turn. The process ends by cutting publishers and
waiting for the session row to be written.

What makes the behaviour hard: mutexes released around a database write or around the
wait for a goroutine; a deque that discards by three limits and keeps an index into
itself; headers that change while frames encoded under the old ones are queued; write
failures and reconnections at any message; timestamps that wrap or are zero; a stop that
overtakes a start. `PROJECT.json` lists each hazard at its line with the properties that
address it.

What makes each component correct, in one line each: the queue delivers a decodable
track with all its headers and exact counts; a connection starts with a keyframe and the
headers it needs; stopping a sink is final; one publisher at a time, one row each, and
none left open; what is registered runs, and nobody else writes to that destination; a
segment has one row and a crash loses no recording; two refreshes of an account share
one rotation; an account is connected once per authorisation; a chat message is stored,
shown or counted as dropped; a reader hears its chat once and returns when told; a signed
delivery is taken once; the rows of a destination, its account and its broadcast agree; an
alert is retried a bounded number of times; the preview can always be decoded.

## Modules

| Module | Models |
|---|---|
| `QueueOps` | the deque as pure operators: `Push`, `PopRest`, `CloseQueue` and the passes they call |
| `RelayQueue` | the deque with its three goroutines; each locked part is one step, the waits and the late wake-up are steps of their own |
| `GopChannel` | the promise of the deque about the video track, without limits, bytes or clocks |
| `SinkDelivery` | publisher, preamble, queue, connection and what the destination has received; uses `QueueOps` |
| `SinkLife` | one sink's goroutine against its callers |
| `SessionGate` | publishers, the engine's gate, the session rows, key rotation, shutdown |
| `Airtime` | the sequential promise of the gate |
| `HotApply` | the hub's registry, the sinks of a session and the requests that edit them |
| `AccessTokens` | one account's tokens: its row, the refreshes in flight, the callers, the hourly validation, reconnection, the platform |
| `Recordings` | the recorder's writer, the files, their rows, and the three that remove them |
| `RtmpFeeds` | the RTMP connections one destination may see: its sinks, one replacing another, and a probe |
| `PreviewTap` | one tap of the hub, the WebSocket that sends it on and the decoder behind it |
| `ChatSession` | the subscription to the event bus, the aggregator, the batch writer, the webhook's entry, the panel's subscription |
| `TwitchChat` | `ReadChat` of Twitch: sockets, subscriptions, reconnections asked by Twitch, growing waits |
| `YouTubeChat` | `ReadChat` of YouTube: the search for a broadcast, pages, quota of the day |
| `KickWebhook` | the verification of signed deliveries: key, window, ids seen |
| `Alerts` | the dispatcher of webhooks with its semaphore, retries and shutdown |
| `Broadcasts` | the rows of destination, account and broadcast, and the platform's objects, under overlapping requests |
| `AuthFlows` | the flows that connect an account: device codes polled, redirects called back |
| `MCRelayQueue`, `MCSinkDelivery` | the shapes of message of the small instances |
| `MCBackground`, `MCRequests` | several machines of the above in one run each |
| `RelayQueueProofs`, `SinkDeliveryProofs`, `SessionGateProofs` | theorems about the module of that name |
| `ChannelProofs` | theorems about `GopChannel`, `PreviewTap`, `TwitchChat`, `YouTubeChat`, `KickWebhook` and `ChatSession` |
| `RequestsProofs` | theorems about `AccessTokens`, `AuthFlows`, `Broadcasts` and `HotApply` |
| `BackgroundProofs` | theorems about `RtmpFeeds`, `Alerts`, `Recordings` and `SinkLife` |
| `QueueFacts` | what the operators of `QueueOps` do to a deque, for `RelayQueueProofs` and `SinkDeliveryProofs` |
| `SetFacts` | least and greatest of a finite set of integers, sums over finite sets |

Composition: `SinkDelivery` runs the deque of `QueueOps` inside a connection, `RelayQueue`
runs the same operators under concurrency. `RelayQueue` refines `GopChannel` and
`SessionGate` refines `Airtime`; both refinements are `INSTANCE ... WITH` mappings checked
as properties. `HotApply` takes from `SessionGate` that there is one publisher and from
`SinkLife` that a stop ends and is final. `Recordings` takes the recorder as the sink it is: a
connection is a new writer, a stop closes it, and `SinkLife` says when it is tried again.
`ChatSession` takes from `TwitchChat` and `YouTubeChat` that a reader whose context has ended
returns (`ReadersReturn`). `RtmpFeeds` takes from `HotApply` that a new sink starts before the
one it replaces is stopped, and keeps what the two leave on the network. `AuthFlows` ends
where `AccessTokens` begins, with the pair that is stored.

`MCBackground` and `MCRequests` put machines that share no variable into one run. A behaviour
picks one in its first state (`part`) and the others stay where they are, so the states are
the sum of theirs and not the product, and each property is checked of the machine it speaks
of as if it ran alone. What interacts is composed in a module of its own, never there.

Conventions. An action is one critical section, one database statement or one wait of one
goroutine: what the Go scheduler can separate. `place`, `popper`, `pc`, `starter` say where a
goroutine is. History variables (`delivered`, `taken`, `silentRun`, `usedKey`, `untold`, `inTime`,
`owed`, `cuts`, `late`, `wronged`, `halfMade`, `exchanges` and the others commented *history*) are
assigned and read only by properties. Operators commented *Mutant* are plausible mistakes
in the code next to the right definition; nothing in `Next` uses them, and each property is
known to fail when one of them takes the place of the definition it imitates.

### Correspondence with the code

* `q` is `queue`: `items` is `items[head:]`, `ess` is `metaIdx`-like positions relative to the
  head (0 for none), `bytes`, `videoItems`, `drops`, `dropping` and `closed` are the fields of
  those names. A message is `[kind, key, seq, size, ts, n, header]`: its shape, its weight,
  its timestamp, its number in its stream and, for a frame, the header version it was
  encoded under. Payloads are left out.
* `QueueOps` speaks of a deque by the positions of its messages: `VideoAt`, `AudioAt`, `MediaAt`; what
  stays after a pass that keeps the positions `I` is `Sub(s, I)`, and it weighs `Size(s, I)`. A pass of
  the code that drops as it goes is `Discard` of the positions it drops.
* `Push` is the whole of `push`: the refusal while dropping, the resumption at a keyframe,
  the replacement of a queued header, the append, the soft level and the hard level, in
  that order. `shedToHardLimits` is one operator with both its passes.
* `SinkDelivery`: `wire` is what the destination knows on the connection it has: its last
  frame, its translated clock and the version of each header. `Observe` and `Enqueue` are the two halves of
  `Hub.Publish`. `WriteFails` stands for any error of the publisher, after which the message in
  hand is lost; dialling again is `Connect`, and `SinkLife` decides when.
* `SinkLife`: `StartCheck`, `StartFlag`, `StartGo` are the three steps of `Start`; `WaitAfter` is
  `backoff.next` as an exponent, without jitter. A session that fails is *silent*, *short* or
  *healthy* as `run` classifies it (`transmitted`, `minHealthySession`).
* `SessionGate`: `opening`, `opened`, `connecting` are the places inside `startSession` before
  the row, before `sessionID`, and while sinks are added. `lost` are the rows
  `FinishSession` failed to write. `shutdown` follows `main` from the signal to the exit.
* `HotApply`: `building`, `start`, `take`, `signal`, `wait`, `register` are the steps of
  `AddSink` and `Hub.Add`; `fed` holds the sinks that have been registered, the only ones that
  get media.
* `AccessTokens`: a pair of tokens is the grant it comes from and its generation in it; the
  platform accepts the newest refresh token of each grant and nothing of a revoked one.
  `inflight` is who leads the account's entry of `Manager.inflight`, `pc` is where each
  goroutine is between the read of `Token`, the join or the lead in `refresh`, the answer, the
  write and the close of `hecho`. The answer may be lost after the platform rotated
  (`RotatedUnheard`), the write may fail (`Unwritten`), and `Reconnect`, `Delete` and `Restart`
  may come between any two steps.
* `Recordings`: `disk` is what a `Stat` would see, `rows` the table in the order of its ids.
  A path is the time stamp of a connection with the index of a segment. The steps of the
  writer are the file, its row (`OnOpen`), the media with or without a flush, the closing flush
  and the row again (`OnSegment`); rotation and failure take the same last two. `used` is
  `Quota.UsedBytes` with what this writer has written. `job` is a remover's list and how far it
  is: by age, by size, or the one a request asked for. `Restart` is `kill -9` at any step
  together with the next start's `ReconcileRecordings`, which may fail half way.
* `RtmpFeeds`: a publisher is where `Connect` is (`dialing`, `handshake`, `publish`), the
  goroutine that dials for it and the socket they hand over; `slot` is what the platform sees,
  that someone publishes with the key. `Dialed`, `StopsWaiting` and `Cleans` are the `select` of
  `dial` and the goroutine it leaves behind. `ProbeBegins` has the handler's test of a live sink.
* `PreviewTap`: `ObservesHeader`, `ObservesFrame` and `Delivers` are the two halves of
  `Hub.Publish`; `Opens` and `ReadsConfig` the handler's subscription and its read of the preamble
  after it, in that order; `ClosesTaps`, `ForgetsPreamble` and `GoesOff` the three moments at
  which a session's end reaches a preview. `tap.waiting` and `tap.ch` are the fields of those names.
* `ChatSession`: a message is its order of arrival. `Hear` is one event taken by `Run`, `Leave`
  and `Waited` the two halves of `parar` (cancel and forget `in`, then wait), `Launch` is
  `arrancar`. `WriterTakes`, `WriterDelivers`, `WriterTick` and `WriterDrains` are the arms of the
  `select` of `escribir`; a message leaves the channel in one step and is shown in the next.
  `IngestLooks` and `IngestSends` are the copy of `in` under the lock and the send after it.
  `PanelJoins` and `PanelGetsRecent` are `handleChatWS`: it subscribes, then reads the recent
  messages and sends them, then the stream.
* `TwitchChat`: `open` are the sockets, `carries` the subscriptions Twitch holds for each. `Greeted`
  is the return of `seguirReconexion`: the new socket inherits the subscription and the old one is
  closed. `SessionOverWith` is the end of `sesionChat` with the computation of the next wait.
* `YouTubeChat`: `BudgetChecked` reads the quota of the day before the page it allows, and
  `BudgetUnread` is the failed read, on which the code goes on. `PageFails` keeps the token.
* `KickWebhook`: `Arrives` has the tests of the window and of the headers; `KeyTried`,
  `KeyRefreshed` are `verificar` before and after `clavePublica(forzar)`, with the other deliveries in
  between; `Marcar` is the critical section on `seen`, with its purge.
* `Alerts`: a job is one event for one webhook: `waiting` for the semaphore, `posting`, in
  `backoff` between two attempts (it keeps the semaphore), `over`. `Returns` is `Run`'s `wg.Wait`.
* `Broadcasts`: a request is `ask[q]`: what it does, where it is and what it read at its
  beginning. `Inserts` and `Binds` are the platform's two calls, each with its failure that did
  and its failure that did not take effect; the rows are written after them. `AutoStarts` and
  `AutoStops` are the platform's own. `Dies` is the death of the process between any two steps.
* `AuthFlows`: `Counts` and `Begins` are the two critical sections of `handleStartAuth` with the
  platform's answer in between; `Polls` and `PollSaves` are one turn of `sondear`; `Claims`,
  `Exchanges`, `VisitSaves`, `VisitDone` one callback; `Map` sweeps what `limpiarVencidos` does
  wherever the code calls it. Time is in units of a callback's timeout.

## Runs

| Run | Instance | Shows |
|---|---|---|
| `relay_queue` | 3 frames, 2 audio, 2 versions of each header; byte limit 3, hard 4 bytes, span 1, 3 items; timestamps modulo 4, a clock up to 6 | books, headers and wake-ups under every limit; refinement of `GopChannel` |
| `sink_wire` | 3 frames, 1 audio, 2 header versions, 2 connections | every connection gets a decodable track and the newest headers |
| `session_gate` | 2 encoders, 1 camera, 2 rows, 2 keys | one publisher, one row each, the old key is out; refinement of `Airtime` |
| `hot_overlap` | 1 destination, 2 overlapping requests, 2 sinks | what is registered runs, every request is answered |
| `access_tokens` | 1 caller and the validation, 2 grants (the second without a refresh token), 2 generations, 1 restart | one refresh at a time, no rotation wasted, nobody left waiting, a withdrawn permission noticed |
| `recordings` | 2 sessions, 2 connections of 2 segments, quota 1 with a look every 2 units, 2 removers at work, 1 refused row | the file being written is kept, every file weighs, the quota holds |
| `chat_session` | 2 sessions, 1 account, 1 webhook call, 2 messages; channels of 1 and 2, batches of 2, a panel with room for 1 | every accepted message is accounted for, a panel sees its session's, readers end with their session |
| `background` | Twitch: 3 sockets, waits up to 4. YouTube: 2 broadcasts, 2 messages, a budget of two pages. Sink: thresholds 4 and 3, 2 stoppers, 8 attempts. Feeds: 2 sinks and a probe over 2 publishers. Alerts: 2 webhooks, 2 events, 1 at a time, 1 retry. Preview: room for 2, 2 headers, 3 frames | each keeps its promise through cuts and failures, and ends when it is told |
| `requests` | Destinations: 2, one request at a time, 4 sinks, 2 sessions. Broadcasts: 1 destination, 2 accounts, 2 requests, 2 broadcasts. Accounts: 3 flows, 2 callbacks, a limit of 1 with 2 requests at once. Kick: 1 message, 2 deliveries, 2 keys, 6 instants | nothing is doubled or left over; the rows agree; outcomes are true and codes used once; a delivery is taken once |
| `token_reauth` | 2 callers, 1 grant | **violated**: a stale read marks a healthy account |
| `segment_numbers` | 1 session, 2 connections | **violated**: a number is given twice |
| `broadcast_account` | 1 destination, 2 accounts, 2 overlapping requests | **violated**: a broadcast is recorded for an account the destination no longer has |

What the properties say, where their names do not tell it:

* `QueueAccounts` relates the running counters to the deque, the limits to what is left after a
  push, every message to one place, and a goroutine that sleeps to an empty deque.
  `HeadersKept`: the newest header of each class is not lost while queued, and precedes its frames.
* `SinksAccountedFor`: a sink is reachable from the registry, from a request at work or from the
  end of a session; none is fed while its destination is off, or between sessions.
* `TokensSettle`: every call of `Token` ends, and an account whose permission was withdrawn is
  marked at last. `ReadersReturn`: the chat readers return and the preview is told of the end.
* `RowsAgree`: with one request at a time the broadcast's row is of the linked account and its
  key the destination's; however many overlap, no row is left without destination or account,
  and a destination made together with its broadcast is whole or gone.
* `PreviewPlays`: the decoder gets a keyframe after each gap and the configuration of each
  frame, but for two windows named in its comment.
* `OneFeed` and `SecondFeedEnds`: two connections feed one destination only while one of them is
  leaving or is a probe; and it does leave.

Why the bounds are enough. In `relay_queue` each limit is reached by some prefix of the
published messages, alone and together with another, headers of two sizes replace one
another in place, and the clock passes the modulus, so that `spanMillis` meets a last timestamp
below the first (the span limit of `Limits` is stated before that, and fails after it: what was
queued before the wrap is measured again once its head has been popped, and cut at the next
push); three frames give a keyframe, a
dependent frame and the one after a gap. In `sink_wire` two connections are what a
reconnection needs and two header versions what a renegotiation needs. In
`session_gate` a third publisher meets every place of the other two. In
`access_tokens` the second goroutine is whoever finds a refresh in progress, the second
generation is the rotation it must not waste, and the second grant is a reconnection; a
third goroutine would join like the second. In `recordings` two sessions let a pruning that
began between them meet the recorder of the second, two connections of two segments give a
reconnection and a rotation, a quota smaller than the distance between two looks lets the
recordings pass it, and one refused row is enough to show that the other files keep their
accounts. In `chat_session` the channel of one message fills with the second, a batch of two is
stored both full and by the clock, and the second session meets what the first left behind;
the event bus has room for two, so that its loss (`missed`) happens.

In `background` a reconnection of Twitch needs two sockets and the third is the dial after it;
the waits double twice. YouTube's budget is spent by two pages, or by one and the panel. The
eight attempts of the sink exceed both thresholds together (3 + 2 plus one healthy session).
Two publishers are the sink and the one it replaces, or the sink and the probe; a third would
be a sink replaced twice before the first has left. The alerts' semaphore of one makes a second
delivery wait while the first retries, and the inbox of one loses the second event. The
preview's channel of two is full with a header and a frame, and the third frame is the one
that must wait for a keyframe. In `requests` four sinks are two sessions of two destinations, or
one destination replaced three times; two requests are enough for each pair of requests on one
destination to overlap; three flows are the one alive, the one that passes the limit and an entry
to be swept; six instants let a message be sent early, be delivered late and have its id
forgotten.

Deadlock checking is off but in `recordings` and `segment_numbers`, where a restart is always
possible: the other instances stop when their bounds are spent (`MaxFrames`, `MaxRows`,
`MaxSinks` and so on), and a system whose publisher leaves is idle by design.

Fairness is weak fairness of goroutines that are ready to run, never of the environment.
`pop` proceeds when it holds the lock and when the channel has a value; `close` reaches its
wake-up; a dial ends by its own deadline (`publisher.go` sets it on every dial and every
write); a wait selects on quit and context; a session that has the engine runs to its end;
a closed transport ends the read loop. Nobody is assumed to publish, to stop a sink, to
call `pop`, or to fail. `RelayQueue`, `Recordings`, `Broadcasts`, `AuthFlows` and `KickWebhook` state no
liveness and assume no fairness.
In `AccessTokens` the goroutine that leads a refresh runs (its request has a deadline, so an
answer or an error comes); `TokensSettle` also asks strong fairness of `Validate401`,
`Refused` and `Mark`: a validation is repeated every hour for ever, and it is assumed that a
platform and a database that are asked again and again answer at last. `SessionGate` asks
fairness of `OnPublishEnd` only for a transport the server closed. The chat readers get it only
for what the end of their context ends (the dial, the read, the request, the sleep all take
it); nothing is assumed of them while the session lasts. `ChatSession` asks it of `Run`, of the
writer, and of a reader whose context has ended, which is what those two modules show.
`RtmpFeeds` asks it of `Close` for a probe (its grace is a timer) and for a sink that is not to
run (its writes have a deadline), and of the goroutine that cleans up a dial nobody waited for.
`Alerts` asks it of every goroutine, each of whose waits has a timer. `PreviewTap` asks it of
the handler, whose writes have a deadline too.

### Divergences found

The three violated runs are disagreements between the code and what it says of itself.
`PROJECT.json` quotes both sides.

* `token_reauth`: `Token` reads the pair before it looks at the refreshes in flight. With two
  grants it fails in another way too: the account is reconnected while the old
  permission's refresh is being refused, and `marcarReauth` marks the row by its id.
* `segment_numbers`: `FirstIndex` counts rows, and a row of the session may have been deleted.
* `broadcast_account`: the request that creates a broadcast reads the account, waits for the
  platform and writes what it read, though a PATCH may have relinked the destination.

Others can be seen by changing one constant or property of a configuration; no run keeps them.

* A header that arrives with timestamp zero after the first (a camera's renegotiation) is not sent
  to a connection that is already open: `HeaderBeforeFrame` fails in `sink_wire` with
  `HeadersAtZero = TRUE` and without audio. Headers of an encoder carry their time and do arrive.
* With `OneAtATime = FALSE`, a request that overlaps a session's end leaves a sink running between
  sessions (`NoSinkBetweenSessions` of `HotApply`); two `Hub.Add` of one destination both find the
  registry empty between its two critical sections (hub.go:39) and both sinks write
  (`NoDoubleWrite`), which hub.go:36-38 means to exclude; and a destination disabled between the
  listing of enabled destinations and its `AddSink` is fed until the session ends (`OffIsOff`),
  although the manual says changes apply at once. `requests` shows that a single user who
  waits meets none of them, as `handleToggleDestination` assumes ("un solo usuario").
* `IdleExitIsClean` of `SessionGate` fails with one encoder and one camera: `WaitIdle`
  (engine.go:136) polls the session id and ignores `arrancando`, so a publisher between its row
  and its id looks idle and the process exits with the row open, which engine.go:128-135 means
  to exclude.
* `SuspensionEarned` of `SinkLife` fails: short sessions and silent attempts advance one counter
  (sink.go:357), so a mixture suspends a sink with neither run complete, where sink.go:23-25
  speaks of one or the other. The suspicion of a wrong key uses the same shared counter.
* `ProbeSpares` of `RtmpFeeds` fails: a test of a destination is refused while its sink is live
  (test_destination.go:97-104) and admitted while it is still connecting, so both publish with
  one key.
* The preview: a full channel drops headers like the rest, although tap.go:39-40 says they
  always pass; a keyframe queued before the configuration was read may be decoded with a newer
  one, where preview.go:74-78 expects a repeated configuration at worst; and a tap opened after
  `Hub.Close` swept the taps and before the session's id is cleared is not closed by that end.

And some were met while reading and are built into the modules as the code has them.

* Chat: messages a reader could not put in the channel (twitch/chat.go:250-256,
  youtube/chat.go:196-202) are counted nowhere; `Ingest` may send into a channel whose writer has
  gone and still answer "accepted"; a panel may get a message twice, as a recent one and from
  the stream.
* Twitch: what arrives on the old socket while the greeting of the new one is awaited is not read
  (chat.go:264-298). YouTube: the notice says reading resumes tomorrow, but the reader of this
  session has returned.
* Kick: a delivery verified within its window and marked after it, because the key was slow
  to come, may be taken again; and a key that could not be fetched is asked for again at each
  delivery, since only success moves `fetchedAt`.
* Alerts: events still in the channel and deliveries still waiting for the semaphore are dropped at
  shutdown, while the comments of `intento` (webhooks.go:186-191) and main.go:713-715 speak of the
  alert of the shutdown itself.
* Broadcasts: `SetBroadcastStatus` stamps whatever broadcast the destination has by then; a bind
  that fails leaves the broadcast on the platform; `StartBroadcast` takes `redundantTransition`
  for an error.
* Connecting an account: the limit on flows is tested before the platform is asked and not
  again (platforms.go:180); a device code redeemed without the identity being read afterwards
  ends as expired though the person authorised it.

## Proofs

Each theorem is about every value of the constants that its module's `ASSUME` admits: any
number of frames, sockets, sinks, requests, flows, webhooks or sessions, any capacity and any
limit. Each rests on an inductive invariant, stated next to its proof, of which the property a
run checks is a part or a consequence; a proof has one step or one lemma per action. The
invariants that are not a property were checked on the runs' instances before they were proved.

`ChannelProofs` (`GopChannel`): the abstract channel is well typed and delivers only frames that can
be decoded after the previous one. The invariant is a chain: each pending frame follows the
one before it, the first follows the last taken, and while synced the last pending frame is
the last published; without the last part `Accept` of an inter frame would break the chain.

`SessionGateProofs`: for any sets of encoders and cameras and any number of rows and keys.
The invariant `Gate` says whose row and id the engine holds at each place of the publisher
on the air, and that `arrancando` or `sessionID` covers every place on the air: that is what
makes the test `Busy` exclude the others although the mutex is released three times in
between. From it follow `OneSource`, `RowsHaveOwners`, `SessionCoversWrites` and, with the order
of the keys, `OldKeyIsOut`; and each step maps to a step of `Airtime` or a stutter.
Assumptions: the two kinds of publisher are disjoint, the bounds are naturals.

`RequestsProofs` (`AccessTokens`): for any set of callers, of grants and of generations. `TokenInv` ties the
goroutine that leads to the entry of the map (`SingleFlight` follows), and orders the
generations: what is held by any goroutine, what is stored and what the platform accepts
never run ahead of one another, and they fall apart only in a grant whose answer was lost.
That a leader writes before it closes gives `HandedWereStored`. Assumption: the constants'
types, and that the validation is not one of the callers.

`ChannelProofs` (`PreviewTap`): `PlayInv` says that the frames of the tap's channel follow one another
and the last frame sent on, that a tap that is not waiting has had every frame up to the one
in hand, and that the last header of the channel is the newest but for those counted as lost; so
that the next message, whatever it is, fits. `PreviewPlays` follows.

`ChannelProofs`, of the chat:

* `TwInv` says which sockets Twitch's reader holds at each place, what each of them carries, and
  that the wait a cut would start covers the cuts in a row; `TwitchReader` follows. A third
  number for sockets is assumed, so that there is one to dial with while two are open.
* `YtInv` relates the token to the messages there are and to those given, and the units the pages
  have spent to the budget. The panel spends of the same quota between check and page; that
  the pages stay within it holds but for a day whose quota could not be read (`blind`).
* `KickInv`: a delivery at the mark has a signature that held; an id taken in its window is still
  in the map, marked no earlier than a window before, until the window is over. The purge of
  `Marcar` keeps it because it forgets only what is older than twice the window.
* `CsInv`: each message of a session's chat is in exactly one place (a channel, the writer's hand, the
  batch, the database, or a count), what entered in time is in the channel the writer drains, and
  what a panel is owed is in its channel or in the writer's hand. `NothingLost` needs that no
  message is in two channels or twice in one, which no property states.

`RequestsProofs`, of the requests:

* `AuthInv`: a callback at work holds its flow in state `exchanging`, callbacks hold distinct flows,
  and no flow is swept before its callback's own timeout, since `Exchange < Grace`. The limit on
  flows is kept for those alive and those counted and not yet told together (`Room`), and may be
  passed by the requests that start at once. Assumptions: that order of the two timeouts, a
  positive limit.
* `BcInv`: what a request remembers at each place, and what of it is still so of the rows. With one
  panel the rows it read are as it read them; with several only that a row has its
  destination and its account is kept, and that whoever left a destination half made is at it.
* `HotInv`: whoever asks, what is registered runs, what a process is about to register runs and
  was never fed, and what is being stopped is out of the registry: `RegisteredRuns` needs no
  more, and holds for requests that overlap. `NoDoubleWrite` and `SinksAccountedFor` are proved
  with `OneAtATime`, the user who waits for each answer, and fail without it (see above); then
  one process is at work at a time, whatever runs is registered or in its hand, and a
  destination that is off is fed only while a request is about to remove it.

`BackgroundProofs`:

* `FeedInv`: a socket belongs to the dial until it is handed over, the platform is fed only by a
  publisher that has published and is not closed, and nobody uses two publishers. Assumption:
  no sink has the name of the probe.
* `AlertInv`: an event in the channel has started no delivery, a delivery is acknowledged only once
  over, those under way hold the semaphore, and `Run` returns after the last.
* `RecInv`: a path names one file and one row, nothing is ahead of the writer's stamp and index, the
  file being written is in no remover's list, and a remover at a row has removed its file. The
  next path is therefore nobody's, which is what keeps `LiveFileKept`; that a crash, a
  restart and a refused row leave every file counted is `Accounted`.
* `QuotaInv`: the table and what is not in it yet weigh no more than the writer counts, and the
  writer counts no further than the next look, as long as no row was refused: a rotation
  moves its bytes to the table, a pruning only takes away, a restart adds to the table at most
  what the writer had counted. With `Accounted`, each file but the one being written is covered by a
  row of its own, and `QuotaBound` follows from a lemma on sums (`FilesCovered`).
* `SinkInv`: for any set of stoppers and any thresholds. `StopIsFinal` needs the order of `Start`'s steps
  (`Launched`) and what a caller in `Stop` has already closed (`Stopped`): a stop that does not see
  the flag returns at once, and what stops the goroutine then is that `quit` was closed before it
  reaches the top of its loop. `RetriesBounded` needs `Counted`: attempts never exceed the
  silent threshold minus one plus the flaps. Assumption: `SinkLimits` (positive thresholds, more
  than one attempt).

`QueueFacts` and `RelayQueueProofs`: for any limits, messages, clock and wraparound. In
`QueueFacts`, a discard pass, a message that
comes in and a pop each have a relation that says what becomes of the deque (`Thins`, `Placed`,
`Beheads`), proved of the operators of `QueueOps` and used alone from there on. `DequeInv` has:

* the books (`Sound`): of each class the deque has the position `ess` tells and no other, so that
  `Replace` overwrites a message of its class and a pop leaves no position stale;
* the limits. That of the media time needs that the media are in order, which holds until the
  timestamps wrap around: only then is the span of all that of the first and the last;
* the accounts of media and of wake-ups (`Conservation`, `NoLostWakeup`);
* the headers: the newest essential of each class is queued or was taken, and no queued frame is
  ahead of the header it was encoded under. That no more is delivered than published makes a
  header that takes over an older one's place newer than what the sink has.

`QueueAccounts` and `HeadersKept` follow, and `GopPromise` is proved step by step: a push is `Accept` or
`Discard` of the channel, or, when it is not a frame, at most a discard of what is
pending; a pop of a frame is `Deliver`; a close is the close. With `ChannelProofs`: what the
sink pops is a decodable track, whatever mix of limits fires.

`SinkDeliveryProofs`: for any sinks' limits and any number of cuts, changes of stream and connections.

* `TrackInv` reads the decoder, the message in the writer's hand, the queue and the publisher as
  one track (`Track`): whatever the decoder would be left with by what is on its way, the next
  frame may follow it, or the queue knows that it may not and refuses until a key frame.
  `WireDecodable` follows. A new connection begins a new decoder with the
  queue it inherits, whose first frame depends on the one the failed write lost: what
  keeps the track whole is that nothing is relayed before a key frame.
* `HeaderInv` says of each frame on its way that its header is before it: in the decoder, in the
  hand, in the preamble still to be written or ahead in the queue (`Ready`), and that no header of
  another stream comes between (`Clean`). `HeaderBeforeFrame` follows if no publisher stamps its
  headers zero (`~HeadersAtZero`). The camera does; with it, the header of the new stream can be
  discarded as late and the property does not hold, which is why the theorem has a hypothesis
  and the run has the constant.

Of the properties the runs check, these are proved for all constants: `QueueAccounts`,
`HeadersKept`, `GopPromise`, `WireDecodable`, `StopIsFinal`, `RetriesBounded`, `RowsHaveOwners`,
`SessionCoversWrites`, `OldKeyIsOut`, `OneSessionAtATime`, `SingleFlight`, `StoredPairUsable`,
`HandedWereStored`, `TwitchReader`, `YouTubePages`, `KickOnce`, `KickSignatures`, `NothingLost`,
`PanelSeesTheSession`, `AuthOutcomes`, `RowsAgree`, `RegisteredRuns`, `OneFeed`, `AlertsBounded`,
`LiveFileKept`, `Accounted`, `QuotaBound` and `PreviewPlays`; with one user at a time `NoDoubleWrite` and
`SinksAccountedFor`; and where no publisher stamps its headers zero `HeaderBeforeFrame`. `OneSource`
and `WaitsGrow` (waits never shrink without a healthy session in between) are proved and need no
run: the first is part of what `OneSessionAtATime` says on a small instance.

What the proofs changed in the models: a page asked for with the quota unread and still in flight
at midnight counts for the new day (`blind`); a limit of zero flows, no message of Kick's and
sinks named like the probe are excluded; `Recordings` counts with sets of files and rows instead
of sequences; `PreviewPlays` finds the last frame and header by position instead of filtering the
channel; the passes of `QueueOps` are sets of positions instead of recursion; and the span limit of
`RelayQueue` is stated only before the timestamps wrap, because after that it does not hold.

Only model-checked: the liveness properties (`CutPublisherLeaves`, `RequestsAnswered`,
`TokensSettle`, `ReadersEndWithSession`, `ReadersReturn`, `SinkEnds`, `SecondFeedEnds`, `AlertsEnd`,
`HeadersConverge`): the prover has neither `ENABLED` nor a rule for fairness. Every safety property
and action property of a passing run is proved. The three runs that find a violation refute what a
comment says, and nothing is to be proved of them.

## Not modelled yet, and the plan

1. Proofs: what the proofs of safety leave out, the steps of the liveness arguments that are
   invariants (who must be woken, what shrinks with each step), beside the runs that check them.
2. The rest of the recorder: the tags and time base of a segment, so that each file can be
   played alone; two connections within one second, which share a time stamp; a count of
   rows that fails and starts the numbering again.
3. Kick's subscriptions (`SubscribeChat`, `UnsubscribeChat` and their renewal at each start), and the
   retention of sessions and events beside that of recordings.

Left out for good:

* Panel access (`auth.go`, `setup.go`): the cookie is signed and the server keeps no session; the
  limiter of attempts is one map under one mutex. Unit tests reach what can go wrong.
* Relay metrics: sums over a sliding window that nothing decides by.
* Byte formats (`flv/`, `imagen/`, AMF, the tags of a segment) and the RTMP protocol of the
  vendored library: no state across goroutines.
* The HTTP requests and the JSON of the platforms' clients: external, and modelled by what a
  caller can tell apart (answered, refused, no answer, done without an answer).
* Configuration, TLS, self-update: read or done once at start. Listings, backups and
  migrations of the database: single statements.
* The frontend: a view of the API.
