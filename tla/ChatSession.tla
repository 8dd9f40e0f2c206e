---------------------------- MODULE ChatSession ----------------------------
(***************************************************************************)
(* The chat of a session (internal/chat, with the event bus it hangs from  *)
(* and the WebSocket that shows it).  The aggregator's Run goroutine hears *)
(* of sessions from a bounded, lossy subscription; for each it starts a    *)
(* writer and one reader per account, and at its end cancels them and      *)
(* waits for them.  Meanwhile a platform's webhook puts messages into the  *)
(* session it found live a moment ago, the writer stores in batches and    *)
(* publishes each message on the chat bus, and a panel joins or leaves.    *)
(*                                                                         *)
(* A message is a number, given in the order of arrival; who wrote it and  *)
(* what it says are left out.  The readers themselves are in TwitchChat    *)
(* and YouTubeChat, the webhook in KickWebhook.                            *)
(***************************************************************************)
EXTENDS Integers, Sequences, FiniteSets, SequencesExt

CONSTANTS Accounts,     \* accounts whose platform lets the chat be read
          Hooks,        \* goroutines that call Ingest
          MaxSessions,  \* bound: sessions of the engine
          MaxMsgs,      \* bound: chat messages
          EventBuffer,  \* the subscription to the event bus (64 in the code)
          InputBuffer,  \* the channel the readers write to (512)
          BatchSize,    \* messages of a batch (50)
          RecentKeep,   \* messages a panel gets when it connects (50)
          PanelBuffer   \* the subscription of a panel (256)

ASSUME ChatConstants ==
  /\ IsFiniteSet(Accounts) /\ IsFiniteSet(Hooks)
  /\ \A n \in {MaxSessions, MaxMsgs, EventBuffer, InputBuffer, BatchSize, RecentKeep,
               PanelBuffer} : n \in Nat \ {0}

Sessions == 1..MaxSessions
Msgs     == 1..MaxMsgs
None     == 0

VARIABLES live,      \* the engine: the session on the air
          latest,   \* the last session it started
          events,    \* the aggregator's subscription to the event bus
          missed     \* history: a session's event did not fit in it
VARIABLES runAt,        \* the Run goroutine
          next,      \* the session to start once the wait of parar is over
          sessionID, \* the session of Aggregator.in, None when in is nil
          over, \* the context of the readers and the writer has ended
          shutdown   \* the context of Run has
VARIABLES writer,    \* the goroutine of escribir: its place, session and message
          readers,   \* the accounts whose ReadChat is running
          input,     \* the channel of each session
          batch,     \* what the writer has not stored yet
          holding    \* what each call of Ingest has read from Aggregator.in
VARIABLES stored,    \* the rows of chat_messages
          counted,   \* the messages Aggregator.dropped counts
          refused,   \* history: those a reader could not put in the channel
          inTime,    \* history: those in a channel since before the cancellation
          arrived    \* messages so far
VARIABLES recent,    \* Bus.recent: message and session
          resetFor,  \* history: the session Bus.Reset was last called for
          panel,     \* a WebSocket: its place and its channel
          owed       \* history: published since the panel subscribed, and not sent by it

engine  == <<live, latest>>
bus     == <<events, missed>>
runVars == <<runAt, next, sessionID, over, shutdown>>
books   == <<stored, counted, refused, inTime, arrived>>
panelV  == <<panel, owed>>
chatBus == <<recent, resetFor, panelV>>
chatVars    == <<engine, bus, runVars, writer, readers, input, batch, holding, books, chatBus>>

Entry == [msg : Msgs, session : Sessions]
Event == [kind : {"connected", "disconnected"}, session : Sessions]

ChatTypeOK ==
  /\ live \in 0..MaxSessions /\ latest \in 0..MaxSessions
  /\ events \in Seq(Event) /\ Len(events) <= EventBuffer /\ missed \in BOOLEAN
  /\ runAt \in {"select", "waiting", "listing", "leaving", "ended"}
  /\ next \in 0..MaxSessions /\ sessionID \in 0..MaxSessions
  /\ over \in BOOLEAN /\ shutdown \in BOOLEAN
  /\ writer \in [at : {"off", "on", "delivering", "draining", "lastDelivering"},
                 session : 0..MaxSessions, msg : 0..MaxMsgs]
  /\ readers \subseteq Accounts
  /\ \A s \in Sessions : input[s] \in Seq(Msgs) /\ Len(input[s]) <= InputBuffer
  /\ batch \in Seq(Msgs) /\ Len(batch) < BatchSize
  /\ holding \in [Hooks -> -1..MaxSessions]
  /\ stored \subseteq Msgs /\ counted \subseteq Msgs /\ refused \subseteq Msgs /\ inTime \subseteq Msgs
  /\ arrived \in 0..MaxMsgs
  /\ recent \in Seq(Entry) /\ Len(recent) <= RecentKeep
  /\ resetFor \in 0..MaxSessions
  /\ panel.at \in {"off", "joining", "streaming", "lagging"}
  /\ owed \subseteq Msgs

Idle      == [at |-> "off", session |-> None, msg |-> None]
PanelGone == [at |-> "off", ch |-> <<>>]

ChatInit ==
  /\ live = None /\ latest = None /\ events = <<>> /\ missed = FALSE
  /\ runAt = "select" /\ next = None /\ sessionID = None
  /\ over = FALSE /\ shutdown = FALSE
  /\ writer = Idle /\ readers = {} /\ batch = <<>>
  /\ input = [s \in Sessions |-> <<>>] /\ holding = [h \in Hooks |-> -1]
  /\ stored = {} /\ counted = {} /\ refused = {} /\ inTime = {} /\ arrived = 0
  /\ recent = <<>> /\ resetFor = None
  /\ panel = PanelGone /\ owed = {}

Ending  == over \/ shutdown       \* what sctx.Done says
Running == readers # {} \/ writer.at # "off"

-----------------------------------------------------------------------------
\* The event bus: a subscriber that does not keep up loses the event.  Every other
\* event of the program shares the buffer, so a session's event may find it full
\* however few of its own are there; the others, which Run ignores, are left out.
BusPublish(kind, s) ==
  \/ runAt = "ended" /\ UNCHANGED bus
  \/ /\ runAt # "ended" /\ Len(events) < EventBuffer
     /\ events' = Append(events, [kind |-> kind, session |-> s])
     /\ UNCHANGED missed
  \/ /\ runAt # "ended" /\ missed' = TRUE
     /\ UNCHANGED events

\* The engine opens and closes sessions; no publisher comes in after the shutdown.
OpenSession ==
  /\ live = None /\ latest < MaxSessions /\ ~shutdown
  /\ live' = latest + 1 /\ latest' = latest + 1
  /\ BusPublish("connected", latest + 1)
  /\ UNCHANGED <<runVars, writer, readers, input, batch, holding, books, chatBus>>

CloseSession ==
  /\ live # None
  /\ live' = None
  /\ BusPublish("disconnected", live)
  /\ UNCHANGED <<latest, runVars, writer, readers, input, batch, holding, books, chatBus>>

Shutdown ==
  /\ ~shutdown /\ shutdown' = TRUE
  /\ UNCHANGED <<engine, bus, runAt, next, sessionID, over, writer, readers, input,
                 batch, holding, books, chatBus>>

-----------------------------------------------------------------------------
\* Run.  parar cancels and waits, when there is something to cancel; what it was
\* called for comes after the wait.
Stop(s, place) ==
  /\ next' = s
  /\ sessionID' = None
  /\ over' = (over \/ sessionID # None)
  /\ runAt' = place
  /\ UNCHANGED shutdown

\* Mutant: the end of a session is taken from the channel and forgotten.
HearDeaf ==
  /\ runAt = "select" /\ events # <<>>
  /\ LET ev == Head(events) IN
       IF ev.kind = "connected" THEN Stop(ev.session, "waiting") ELSE UNCHANGED runVars
  /\ events' = Tail(events)
  /\ UNCHANGED <<engine, missed, writer, readers, input, batch, holding, books, chatBus>>

\* One event of the subscription: a session that starts stops the former one
\* first, a session that ends stops.
Hear ==
  /\ runAt = "select" /\ events # <<>>
  /\ LET ev == Head(events) IN
       CASE ev.kind = "connected"    -> Stop(ev.session, "waiting")
         [] ev.kind = "disconnected" -> Stop(None, "waiting")
  /\ events' = Tail(events)
  /\ UNCHANGED <<engine, missed, writer, readers, input, batch, holding, books, chatBus>>

\* ctx.Done: Run returns, and its deferred parar waits too.
Leave ==
  /\ runAt = "select" /\ shutdown
  /\ Stop(None, "leaving")
  /\ UNCHANGED <<engine, bus, writer, readers, input, batch, holding, books, chatBus>>

\* lectores.Wait is over: a session to start empties the recent messages, and Run
\* gives up its subscription if it is leaving.
Waited ==
  /\ runAt \in {"waiting", "leaving"} /\ ~Running
  /\ runAt' = CASE runAt = "leaving" -> "ended" [] next # None -> "listing" [] OTHER -> "select"
  /\ events' = IF runAt = "leaving" THEN <<>> ELSE events
  /\ IF runAt = "waiting" /\ next # None
       THEN recent' = <<>> /\ resetFor' = next
       ELSE UNCHANGED <<recent, resetFor>>
  /\ UNCHANGED <<engine, missed, next, sessionID, over, shutdown, writer, readers, input,
                 batch, holding, books, panelV>>

\* The accounts cannot be listed, or none has a chat to read.
NoChat ==
  /\ runAt = "listing"
  /\ runAt' = "select" /\ next' = None
  /\ UNCHANGED <<engine, bus, sessionID, over, shutdown, writer, readers, input, batch,
                 holding, books, chatBus>>

\* The writer and the readers start; an account whose chat comes by webhook has
\* no reader.
Launch ==
  /\ runAt = "listing"
  /\ readers' \in SUBSET Accounts
  /\ writer' = [at |-> "on", session |-> next, msg |-> None]
  /\ sessionID' = next /\ over' = FALSE
  /\ runAt' = "select" /\ next' = None
  /\ UNCHANGED <<engine, bus, shutdown, input, batch, holding, books, chatBus>>

-----------------------------------------------------------------------------
\* vaciar: the batch is stored whole, in a transaction, or counted whole.
Save(msgs) ==
  \/ /\ stored' = stored \cup msgs
     /\ UNCHANGED counted
  \/ /\ msgs # {}
     /\ counted' = counted \cup msgs
     /\ UNCHANGED stored

Kept(window) == IF Len(window) > RecentKeep THEN Tail(window) ELSE window

\* The writer takes a message: Bus.Publish puts it in the recent ones first.
WriterTakes ==
  /\ writer.at \in {"on", "draining"}
  /\ input[writer.session] # <<>>
  /\ LET m == Head(input[writer.session]) IN
       /\ recent' = Kept(Append(recent, [msg |-> m, session |-> writer.session]))
       /\ owed' = IF panel.at \in {"off", "lagging"} THEN owed ELSE owed \cup {m}
       /\ writer' = [writer EXCEPT !.msg = m,
                       !.at = IF @ = "on" THEN "delivering" ELSE "lastDelivering"]
       /\ inTime' = inTime \ {m}
  /\ input' = [input EXCEPT ![writer.session] = Tail(@)]
  /\ UNCHANGED <<engine, bus, runVars, readers, batch, holding, stored, counted, refused, arrived,
                 resetFor, panel>>

\* Then Publish goes round the subscribers, without waiting for any: a panel that
\* lost a message is followed no further.  The message joins the batch, which is
\* saved when it is full.
WriterDelivers ==
  /\ writer.at \in {"delivering", "lastDelivering"}
  /\ CASE panel.at \in {"off", "lagging"} -> UNCHANGED panelV
       [] panel.at \in {"joining", "streaming"} /\ Len(panel.ch) < PanelBuffer ->
            /\ panel' = [panel EXCEPT !.ch = Append(@, writer.msg)]
            /\ UNCHANGED owed
       [] OTHER -> panel' = [PanelGone EXCEPT !.at = "lagging"] /\ owed' = {}
  /\ LET lote == Append(batch, writer.msg) IN
       IF Len(lote) = BatchSize
         THEN batch' = <<>> /\ Save(ToSet(lote))
         ELSE batch' = lote /\ UNCHANGED <<stored, counted>>
  /\ writer' = [writer EXCEPT !.msg = None,
                  !.at = IF @ = "delivering" THEN "on" ELSE "draining"]
  /\ UNCHANGED <<engine, bus, runVars, readers, input, holding, refused, inTime, arrived,
                 recent, resetFor>>

WriterTick ==
  /\ writer.at = "on" /\ batch # <<>>
  /\ Save(ToSet(batch)) /\ batch' = <<>>
  /\ UNCHANGED <<engine, bus, runVars, writer, readers, input, holding, refused, inTime, arrived,
                 chatBus>>

\* Mutant: the context's end is noticed and what is queued is left there.
DrainNothing ==
  /\ writer.at \in {"on", "draining"} /\ Ending
  /\ Save(ToSet(batch)) /\ batch' = <<>> /\ writer' = Idle
  /\ UNCHANGED <<engine, bus, runVars, readers, input, holding, refused, inTime, arrived, chatBus>>

\* ctx.Done: the writer empties the channel, and goes when it finds it empty; the
\* deferred vaciar saves the last batch.
WriterDrains ==
  /\ Ending
  /\ \/ /\ writer.at = "on"
        /\ writer' = [writer EXCEPT !.at = "draining"]
        /\ UNCHANGED <<batch, stored, counted>>
     \/ /\ writer.at = "draining" /\ input[writer.session] = <<>>
        /\ Save(ToSet(batch)) /\ batch' = <<>> /\ writer' = Idle
  /\ UNCHANGED <<engine, bus, runVars, readers, input, holding, refused, inTime, arrived, chatBus>>

-----------------------------------------------------------------------------
\* A message goes into a channel if there is room, and nobody waits for room.
Put(s) ==
  /\ input' = [input EXCEPT ![s] = Append(@, arrived + 1)]
  /\ inTime' = IF Ending \/ writer.session # s THEN inTime ELSE inTime \cup {arrived + 1}

NextMessage == arrived < MaxMsgs /\ arrived' = arrived + 1

\* A reader may still send after the cancellation: it was in the middle of a page
\* or of a notification.  What does not fit is discarded and counted nowhere.
ReaderSends(a) ==
  /\ a \in readers /\ writer.at # "off" /\ NextMessage
  /\ IF Len(input[writer.session]) < InputBuffer
       THEN Put(writer.session) /\ UNCHANGED refused
       ELSE refused' = refused \cup {arrived + 1} /\ UNCHANGED <<input, inTime>>
  /\ UNCHANGED <<engine, bus, runVars, writer, readers, batch, holding, stored, counted, chatBus>>

\* ReadChat returns, for its own reasons or because its context ended.
ReaderEnds(a) ==
  /\ a \in readers
  /\ readers' = readers \ {a}
  /\ UNCHANGED <<engine, bus, runVars, writer, input, batch, holding, books, chatBus>>

\* Ingest: which channel, under the lock ...
IngestLooks(h) ==
  /\ holding[h] = -1 /\ arrived < MaxMsgs
  /\ holding' = [holding EXCEPT ![h] = sessionID]
  /\ UNCHANGED <<engine, bus, runVars, writer, readers, input, batch, books, chatBus>>

\* ... and then the message, whatever has become of that channel.
IngestSends(h) ==
  /\ holding[h] # -1 /\ NextMessage
  /\ IF holding[h] # None /\ Len(input[holding[h]]) < InputBuffer
       THEN Put(holding[h]) /\ UNCHANGED counted
       ELSE counted' = counted \cup {arrived + 1} /\ UNCHANGED <<input, inTime>>
  /\ holding' = [holding EXCEPT ![h] = -1]
  /\ UNCHANGED <<engine, bus, runVars, writer, readers, batch, stored, refused, chatBus>>

-----------------------------------------------------------------------------
\* handleChatWS: subscribe, then send the recent messages, then the stream.
PanelJoins ==
  /\ panel.at = "off"
  /\ panel' = [at |-> "joining", ch |-> <<>>]
  /\ UNCHANGED <<engine, bus, runVars, writer, readers, input, batch, holding, books, recent,
                 resetFor, owed>>

\* Mutant: the subscription is made after the recent messages are read.
SubscribesLate ==
  /\ panel.at = "joining"
  /\ panel' = [panel EXCEPT !.at = "streaming", !.ch = <<>>]
  /\ owed' = owed \ ({e.msg : e \in ToSet(recent)} \ ToSet(panel.ch))
  /\ UNCHANGED <<engine, bus, runVars, writer, readers, input, batch, holding, books, recent, resetFor>>

PanelGetsRecent ==
  /\ panel.at = "joining"
  /\ panel' = [panel EXCEPT !.at = "streaming"]
  /\ owed' = owed \ {e.msg : e \in ToSet(recent)}
  /\ UNCHANGED <<engine, bus, runVars, writer, readers, input, batch, holding, books, recent, resetFor>>

PanelGetsNext ==
  /\ panel.at = "streaming" /\ panel.ch # <<>>
  /\ panel' = [panel EXCEPT !.ch = Tail(@)] /\ owed' = owed \ {Head(panel.ch)}
  /\ UNCHANGED <<engine, bus, runVars, writer, readers, input, batch, holding, books, recent, resetFor>>

\* The WebSocket fails or the browser goes; release takes the subscriber out.
PanelLeaves ==
  /\ panel.at # "off"
  /\ panel' = PanelGone /\ owed' = {}
  /\ UNCHANGED <<engine, bus, runVars, writer, readers, input, batch, holding, books, recent, resetFor>>

-----------------------------------------------------------------------------
RunStep    == Hear \/ Leave \/ Waited \/ NoChat \/ Launch
WriterStep == WriterTakes \/ WriterDelivers \/ WriterTick \/ WriterDrains
PanelStep  == PanelJoins \/ PanelGetsRecent \/ PanelGetsNext \/ PanelLeaves

ChatNext ==
  \/ OpenSession \/ CloseSession \/ Shutdown
  \/ RunStep \/ WriterStep \/ PanelStep
  \/ \E a \in Accounts : ReaderSends(a) \/ ReaderEnds(a)
  \/ \E h \in Hooks : IngestLooks(h) \/ IngestSends(h)

ChatSpec == ChatInit /\ [][ChatNext]_chatVars

\* The goroutines run, and a reader whose context has ended returns (TwitchChat
\* and YouTubeChat show it of the readers).  Nothing is asked of the engine, of those who write
\* messages or of the panel.
ChatFairness ==
  /\ WF_chatVars(RunStep) /\ WF_chatVars(WriterStep)
  /\ \A a \in Accounts : WF_chatVars(Ending /\ ReaderEnds(a))

ChatFairSpec == ChatSpec /\ ChatFairness

-----------------------------------------------------------------------------
Queued == UNION {ToSet(input[s]) : s \in Sessions}
InHand == IF writer.msg = None THEN {} ELSE {writer.msg}

\* Every message that arrived is in one place: still on its way to the table,
\* stored once, counted as dropped, or refused by a full channel.  The writer of
\* a session leaves none behind that entered its channel before it was told to
\* end; one that enters later may stay in a channel nobody reads (the comment of
\* escribir promises the first, Ingest answers "accepted" in the second case too).
NothingLost ==
  LET places == <<Queued, InHand, ToSet(batch), stored, counted, refused>>
  IN /\ ChatTypeOK
     /\ UNION ToSet(places) = 1..arrived
     /\ \A i, j \in DOMAIN places : i # j => places[i] \cap places[j] = {}
     /\ \A s \in Sessions : writer.session # s => ToSet(input[s]) \cap inTime = {}

\* A panel that connects during a session never gets chat of an earlier one: the
\* recent messages are emptied when the former session's writer has gone.  And a
\* message published after the panel subscribed reaches it, with the recent ones or
\* through its channel, as long as the panel keeps up with the channel.
PanelSeesTheSession ==
  /\ \A e \in ToSet(recent) : e.session = resetFor
  /\ panel.at = "streaming" => owed \subseteq ToSet(panel.ch) \cup InHand

\* The readers and the writer of a session that is over end too, unless the bus
\* lost the event: cancelling cannot hang on a message nobody takes.
ReadersEndWithSession ==
  \A s \in Sessions :
    (sessionID = s /\ live # s) ~> (missed \/ (sessionID # s /\ writer.session # s))
=============================================================================
