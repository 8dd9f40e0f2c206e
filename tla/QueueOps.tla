------------------------------ MODULE QueueOps ------------------------------
(***************************************************************************)
(* The deque of one sink, as pure functions over a record, from            *)
(* internal/relay/queue.go.  RelayQueue gives it its mutex, its waiting    *)
(* consumer and its wake-up channel.                                       *)
(*                                                                         *)
(* A message keeps what the discard policy looks at: its kind, the         *)
(* keyframe and sequence-header bits, the length of its payload and its    *)
(* timestamp.  A payload is its number `n`, counted per stream: the n-th   *)
(* frame of the video track, or the n-th version of a header.              *)
(***************************************************************************)
EXTENDS Integers, Sequences, FiniteSetsExt, Functions

CONSTANTS MaxBytes,   \* soft limit on payload bytes
          HardBytes,  \* the same limit times hardBytesFactor
          MaxSpan,    \* soft limit on queued media time
          MaxItems    \* hard limit on queued messages

ASSUME QueueLimits == /\ MaxBytes \in Nat \ {0} /\ MaxItems \in Nat \ {0}
                      /\ HardBytes \in Nat /\ HardBytes >= MaxBytes
                      /\ MaxSpan \in Nat \ {0}

Message == [kind : {"audio", "video", "meta"}, key : BOOLEAN, seq : BOOLEAN,
            size : Nat, ts : Nat, n : Nat, header : Nat]

Classes == {"meta", "videoSeq", "audioSeq"}

Essential(m) == m.kind = "meta" \/ m.seq

\* The class of an essential message; only the last one of a class matters.
EssentialClass(m) ==
  CASE m.kind = "meta" -> "meta"
    [] m.kind = "video" /\ m.seq -> "videoSeq"
    [] m.kind = "audio" /\ m.seq -> "audioSeq"
    [] OTHER -> "none"

DroppableVideo(m) == m.kind = "video" /\ ~Essential(m)
DroppableAudio(m) == m.kind = "audio" /\ ~Essential(m)

\* ess[c]: position of the queued essential of class c, 0 when there is none.
EmptyQueue == [items |-> <<>>, bytes |-> 0, videoItems |-> 0,
               ess |-> [c \in Classes |-> 0],
               dropping |-> FALSE, drops |-> 0, closed |-> FALSE]

\* The positions of the video, the audio and the media of a deque.
VideoAt(s) == {i \in DOMAIN s : DroppableVideo(s[i])}
AudioAt(s) == {i \in DOMAIN s : DroppableAudio(s[i])}
MediaAt(s) == {i \in DOMAIN s : ~Essential(s[i])}

\* The messages at the positions in I, in their order, and what they weigh.
Nth(I, k)  == CHOOSE i \in I : Cardinality({j \in I : j =< i}) = k
Sub(s, I)  == [k \in 1..Cardinality(I) |-> s[Nth(I, k)]]
Size(s, I) == SumFunctionOnSet([i \in DOMAIN s |-> s[i].size], I)

\* A full pass over the deque notes the last position of every class.
TrackEssentials(s) ==
  [c \in Classes |-> Max({0} \cup {i \in DOMAIN s : EssentialClass(s[i]) = c})]

-----------------------------------------------------------------------------
\* Time from the first media message to the last; essentials at either end do
\* not count, and an order that makes no sense (wraparound) counts as nothing.
SpanMillis(s) ==
  IF MediaAt(s) = {} THEN 0
  ELSE LET first == s[Min(MediaAt(s))].ts
           last  == s[Max(MediaAt(s))].ts
       IN  IF last < first THEN 0 ELSE last - first

Over(q) == q.bytes > MaxBytes \/ SpanMillis(q.items) > MaxSpan

OverHard(q) == Len(q.items) > MaxItems \/ q.bytes > HardBytes

\* One pass that leaves out the messages at the positions in I, counts them as
\* dropped and notes the positions of the essentials again.
Discard(q, I) ==
  LET kept == Sub(q.items, DOMAIN q.items \ I)
  IN  [q EXCEPT !.items = kept,
                !.bytes = @ - Size(q.items, I),
                !.drops = @ + Cardinality(I),
                !.ess = TrackEssentials(kept)]

\* Mutants of DropQueuedVideo: drops not counted; sequence headers dropped with the
\* frames.
DropUncounted(q) ==
  [Discard(q, VideoAt(q.items)) EXCEPT !.videoItems = 0, !.drops = q.drops]
DropEveryVideo(q) ==
  [Discard(q, {i \in DOMAIN q.items : q.items[i].kind = "video"}) EXCEPT
     !.videoItems = 0, !.drops = q.drops + Cardinality(VideoAt(q.items))]

DropQueuedVideo(q) == [Discard(q, VideoAt(q.items)) EXCEPT !.videoItems = 0]

\* The slot the message takes over, 0 when it has to be appended.  The class of
\* the occupant is compared again, as the code does before it overwrites it.
ReplacedSlot(q, m) ==
  LET c == EssentialClass(m)
  IN  IF c \in Classes /\ q.ess[c] \in DOMAIN q.items
         /\ EssentialClass(q.items[q.ess[c]]) = c
      THEN q.ess[c] ELSE 0

Replace(q, m, i) ==
  [q EXCEPT !.items[i] = m, !.bytes = @ + m.size - q.items[i].size]

AppendMessage(q, m) ==
  [q EXCEPT !.items = Append(@, m),
            !.bytes = @ + m.size,
            !.videoItems = @ + (IF DroppableVideo(m) THEN 1 ELSE 0),
            !.ess = [c \in Classes |-> IF c = EssentialClass(m)
                                       THEN Len(q.items) + 1 ELSE @[c]]]

ReplaceEssential(q, m) ==
  IF ReplacedSlot(q, m) # 0 THEN Replace(q, m, ReplacedSlot(q, m))
                            ELSE AppendMessage(q, m)

\* Soft level: all the pending video goes at once and only a keyframe resumes it.
SoftLevel(q) ==
  IF ~Over(q) THEN q
  ELSE [(IF q.videoItems > 0 THEN DropQueuedVideo(q) ELSE q) EXCEPT !.dropping = TRUE]

\* Second step of the hard level: one pass that drops audio, the oldest first, while
\* without what it has dropped a limit is still exceeded.  Up to the last that goes
\* that is all the audio before.
DropOldestAudio(q) ==
  LET before(i) == {j \in AudioAt(q.items) : j < i}
  IN  Discard(q, {i \in AudioAt(q.items) :
                    \/ Len(q.items) - Cardinality(before(i)) > MaxItems
                    \/ q.bytes - Size(q.items, before(i)) > HardBytes})

ShedToHardLimits(q) ==
  IF ~OverHard(q) THEN q
  ELSE LET noVideo == IF q.videoItems > 0
                      THEN [DropQueuedVideo(q) EXCEPT !.dropping = TRUE] ELSE q
       IN  IF OverHard(noVideo) THEN DropOldestAudio(noVideo) ELSE noVideo

-----------------------------------------------------------------------------
\* Mutant: nothing is refused.
RefusesNothing(q, m) == FALSE

\* While dropping, inter frames are refused until a keyframe resumes the video.
Refuses(q, m) == q.dropping /\ DroppableVideo(m) /\ ~m.key

Push(q, m) ==
  IF q.closed THEN q
  ELSE IF Refuses(q, m) THEN [q EXCEPT !.drops = @ + 1]
  ELSE LET resumed == IF DroppableVideo(m) THEN [q EXCEPT !.dropping = FALSE] ELSE q
       IN  ShedToHardLimits(SoftLevel(ReplaceEssential(resumed, m)))

\* Does this push leave a wake-up behind?  Its early returns do not.
PushWakes(q, m) == ~q.closed /\ ~Refuses(q, m)

\* The rest of the queue once its head is taken: every position shifts by one.
PopRest(q) ==
  LET m == Head(q.items)
  IN  [q EXCEPT !.items = Tail(@),
                !.ess = [c \in Classes |-> IF @[c] > 0 THEN @[c] - 1 ELSE 0],
                !.bytes = @ - m.size,
                !.videoItems = @ - (IF DroppableVideo(m) THEN 1 ELSE 0)]

CloseQueue(q) == [EmptyQueue EXCEPT !.closed = TRUE,
                                    !.dropping = q.dropping, !.drops = q.drops]
=============================================================================
