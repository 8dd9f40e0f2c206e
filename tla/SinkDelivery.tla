---------------------------- MODULE SinkDelivery ----------------------------
(***************************************************************************)
(* What one destination receives (internal/relay/sink.go session, deliver  *)
(* and sendPreamble; timebase.go; preamble.go; Hub.Publish).  The ingest   *)
(* goroutine first observes a message into the shared preamble and then    *)
(* pushes it into the queue; the sink's goroutine pops, waits for a        *)
(* keyframe, writes a snapshot of the preamble, anchors its timebase and   *)
(* relays.  A write may fail at any point, which ends the connection; the  *)
(* next one starts over, with the queue as it is by then.                  *)
(*                                                                         *)
(* Media time counts video frames: frame n is published with timestamp n.  *)
(***************************************************************************)
EXTENDS QueueOps

CONSTANTS Inputs,        \* the shapes of message the publisher sends
          HeadersAtZero, \* TRUE: headers carry timestamp 0, as the camera's do
          AudioLag,      \* how far an audio timestamp may be behind the clock
          MaxFrames, MaxAudio, MaxVersions, \* bounds: messages published
          MaxConnections \* bound: connections opened

ASSUME DeliveryBounds ==
  /\ Inputs \subseteq [kind : {"audio", "video", "meta"}, key : BOOLEAN,
                       seq : BOOLEAN, size : Nat]
  /\ HeadersAtZero \in BOOLEAN /\ AudioLag \subseteq Nat
  /\ {MaxFrames, MaxAudio, MaxVersions, MaxConnections} \subseteq Nat

VARIABLES q,           \* the sink's queue
          pre,         \* the preamble: newest version of each essential, 0 if none
          inflight,    \* observed and not yet pushed
          published,   \* messages published, per stream
          connections, \* connections opened so far
          up,          \* is the last of them open?
          held,        \* popped and not yet delivered
          tb,          \* the timebase of the connection
          wire         \* what the destination has received on the connection

publisherVars == <<pre, inflight, published>>
sinkVars      == <<connections, up, held, tb, wire>>
vars          == <<q, publisherVars, sinkVars>>

None    == [kind |-> "none"]
NoFrame == [n |-> 0, key |-> FALSE, header |-> 0]
Fresh   == [frame |-> NoFrame, ts |-> 0, essentials |-> [c \in Classes |-> 0]]
Unarmed == [armed |-> FALSE, base |-> 0]

Streams == Classes \cup {"video", "audio"}
StreamOf(x) == IF Essential(x) THEN EssentialClass(x) ELSE x.kind
Bound(s) == CASE s = "video" -> MaxFrames [] s = "audio" -> MaxAudio
              [] OTHER -> MaxVersions

Init == /\ q = EmptyQueue
        /\ pre = [c \in Classes |-> 0]
        /\ inflight = None
        /\ published = [s \in Streams |-> 0]
        /\ connections = 0 /\ up = FALSE
        /\ held = None
        /\ tb = Unarmed
        /\ wire = Fresh

-----------------------------------------------------------------------------
Clock == published["video"]

Timestamps(x) ==
  CASE Essential(x)      -> {IF HeadersAtZero THEN 0 ELSE Clock}
    [] DroppableVideo(x) -> {Clock + 1}
    [] OTHER             -> {Clock - l : l \in {l \in AudioLag : l <= Clock}}

Stamp(x, ts) == [kind |-> x.kind, key |-> x.key, seq |-> x.seq, size |-> x.size,
                 ts |-> ts, n |-> published[StreamOf(x)] + 1,
                 header |-> IF DroppableVideo(x) THEN published["videoSeq"] ELSE 0]

\* Hub.Publish, first half: the preamble keeps the last essential of each class.
Observe(x) ==
  /\ inflight = None
  /\ published[StreamOf(x)] < Bound(StreamOf(x))
  /\ \E ts \in Timestamps(x) : inflight' = Stamp(x, ts)
  /\ published' = [published EXCEPT ![StreamOf(x)] = @ + 1]
  /\ pre' = [c \in Classes |-> IF c = EssentialClass(x) THEN published[c] + 1 ELSE pre[c]]
  /\ UNCHANGED <<q, sinkVars>>

\* Hub.Publish, second half.
Enqueue == /\ inflight # None
           /\ q' = Push(q, inflight)
           /\ inflight' = None
           /\ UNCHANGED <<pre, published, sinkVars>>

-----------------------------------------------------------------------------
\* A new connection has its own timebase and a destination that knows nothing.
Connect == /\ ~up
           /\ connections < MaxConnections
           /\ connections' = connections + 1
           /\ up' = TRUE
           /\ tb' = Unarmed
           /\ wire' = Fresh
           /\ UNCHANGED <<q, publisherVars, held>>

Pop == /\ up
       /\ held = None
       /\ q.items # <<>>
       /\ held' = Head(q.items)
       /\ q' = PopRest(q)
       /\ UNCHANGED <<publisherVars, connections, up, tb, wire>>

\* What the destination knows after it gets m, translated to its own timeline.
Written(w, m, base) ==
  [w EXCEPT !.frame = IF DroppableVideo(m)
                      THEN [n |-> m.n, key |-> m.key, header |-> m.header] ELSE @,
            !.ts = m.ts - base,
            !.essentials = IF Essential(m) THEN [@ EXCEPT ![EssentialClass(m)] = m.n] ELSE @]

\* Mutant: any frame starts the stream.
AnyFrame(m) == DroppableVideo(m)

Starter(m) == DroppableVideo(m) /\ m.key

\* Before the first keyframe of a connection everything else is discarded.
SkipUntilKeyframe ==
  /\ held # None /\ up
  /\ ~tb.armed /\ ~Starter(held)
  /\ held' = None
  /\ UNCHANGED <<q, publisherVars, connections, up, tb, wire>>

\* Mutant: no preamble.
StartBare ==
  /\ held # None /\ up
  /\ ~tb.armed /\ Starter(held)
  /\ tb' = [armed |-> TRUE, base |-> held.ts]
  /\ wire' = Written(wire, held, held.ts)
  /\ held' = None
  /\ UNCHANGED <<q, publisherVars, connections, up>>

\* The keyframe: the preamble as it is now, the anchor, and the frame itself.
StartStream ==
  /\ held # None /\ up
  /\ ~tb.armed /\ Starter(held)
  /\ tb' = [armed |-> TRUE, base |-> held.ts]
  /\ wire' = Written([wire EXCEPT !.essentials = pre], held, held.ts)
  /\ held' = None
  /\ UNCHANGED <<q, publisherVars, connections, up>>

\* Mutant: what is as old as the anchor is refused too.
TranslatesLater(m) == m.ts > tb.base

\* timebase.translate refuses what is older than the anchor.
Translates(m) == m.ts >= tb.base

DropOlderThanBase ==
  /\ held # None /\ up
  /\ tb.armed /\ ~Translates(held)
  /\ held' = None
  /\ UNCHANGED <<q, publisherVars, connections, up, tb, wire>>

Relay ==
  /\ held # None /\ up
  /\ tb.armed /\ Translates(held)
  /\ wire' = Written(wire, held, tb.base)
  /\ held' = None
  /\ UNCHANGED <<q, publisherVars, connections, up, tb>>

\* A write fails: the message is lost and the connection with it.
WriteFails ==
  /\ held # None /\ up
  /\ Starter(held) \/ (tb.armed /\ Translates(held))
  /\ up' = FALSE
  /\ held' = None
  /\ UNCHANGED <<q, publisherVars, connections, tb, wire>>

Next == \/ \E x \in Inputs : Observe(x)
        \/ Enqueue \/ Connect \/ Pop \/ SkipUntilKeyframe \/ StartStream
        \/ DropOlderThanBase \/ Relay \/ WriteFails

\* The ingest goroutine finishes its Publish, which is what Enqueue does, and the
\* sink's goroutine keeps working through its queue; nothing obliges the publisher to
\* send more.
Returns  == inflight # None /\ inflight' = None
Fairness == /\ WF_inflight(Returns)
            /\ WF_vars(Connect) /\ WF_vars(Pop)
            /\ WF_vars(SkipUntilKeyframe) /\ WF_vars(StartStream)
            /\ WF_vars(DropOlderThanBase) /\ WF_vars(Relay)

Spec     == Init /\ [][Next]_vars
FairSpec == Spec /\ Fairness

-----------------------------------------------------------------------------
TypeOK ==
  /\ pre \in [Classes -> 0..MaxVersions]
  /\ published \in [Streams -> Nat]
  /\ connections \in 0..MaxConnections /\ up \in BOOLEAN
  /\ tb \in [armed : BOOLEAN, base : Nat]
  /\ wire.essentials \in [Classes -> 0..MaxVersions] /\ wire.ts \in Nat

\* Each connection gets a video track its decoder can follow: it opens with a
\* keyframe and every later frame is a keyframe or comes right after the one it
\* depends on, across discards in the queue, skipped messages and reconnections
\* (deliver; push "solo un keyframe reanuda el vídeo").
WireDecodable ==
  [][wire'.frame # wire.frame /\ wire'.frame # NoFrame
     => wire'.frame.key \/ (wire.frame # NoFrame /\ wire'.frame.n = wire.frame.n + 1)]_vars

\* The destination never gets a frame before the sequence header the frame was
\* encoded under, whether the header came in the preamble or through the queue
\* (essential: without the headers "el destino no puede decodificar nada de lo
\* que venga después").
HeaderBeforeFrame == wire.frame.header <= wire.essentials["videoSeq"]

\* A destination that stays connected and whose sink keeps running ends up with
\* the newest version of every header once it has an anchor.
HeadersConverge ==
  \A c \in Classes :
    []<>(up /\ tb.armed => wire.essentials[c] = published[c])
=============================================================================
