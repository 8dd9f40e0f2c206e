----------------------------- MODULE RelayQueue -----------------------------
(***************************************************************************)
(* The queue of one sink with the goroutines that share it                 *)
(* (internal/relay/queue.go): the ingest goroutine pushes, the sink's      *)
(* goroutine pops and waits, and whoever stops the sink closes it.  push   *)
(* and the locked parts of pop and close are atomic (queue.mu); the waits  *)
(* and close's wake-up, which happens after the unlock, are steps of their *)
(* own.                                                                    *)
(***************************************************************************)
EXTENDS QueueOps

CONSTANTS Inputs,      \* the shapes of message the publisher sends
          Steps,       \* how far the media clock may move between messages
          TsMod,       \* width of the timestamp counter: ts is taken modulo it
          MaxClock,    \* bound: the publisher stops when its clock gets here
          MaxFrames,   \* bound: video frames published
          MaxAudio,    \* bound: audio frames published
          MaxVersions  \* bound: versions of each essential published

ASSUME PublisherBounds ==
  /\ Inputs \subseteq [kind : {"audio", "video", "meta"}, key : BOOLEAN,
                       seq : BOOLEAN, size : Nat]
  /\ Steps \subseteq Nat /\ TsMod \in Nat \ {0} /\ MaxClock \in Nat
  /\ MaxFrames \in Nat /\ MaxAudio \in Nat /\ MaxVersions \in Nat

VARIABLES q,         \* the deque, its counters and flags
          signal,    \* the wake-up channel, of capacity one
          popper,    \* where the sink's goroutine is in pop
          closing,   \* close has unlocked and not yet woken the popper
          cancelled, \* the context of pop has ended
          clock,     \* media time at the publisher
          published, \* messages published, per stream
          taken,     \* media messages popped
          lastFrame, \* number of the last video frame popped, and its key bit
          delivered  \* newest version of every essential popped

queueVars   == <<q, signal, popper, closing, cancelled>>
historyVars == <<clock, published, taken, lastFrame, delivered>>
vars        == <<queueVars, historyVars>>

Streams == Classes \cup {"video", "audio"}
StreamOf(x) == IF Essential(x) THEN EssentialClass(x) ELSE x.kind
Bound(s) == CASE s = "video" -> MaxFrames [] s = "audio" -> MaxAudio
              [] OTHER -> MaxVersions

Init == /\ q = EmptyQueue
        /\ signal = FALSE
        /\ popper = "out"
        /\ closing = FALSE
        /\ cancelled = FALSE
        /\ clock = 0
        /\ published = [s \in Streams |-> 0]
        /\ taken = 0
        /\ lastFrame = [n |-> 0, key |-> FALSE]
        /\ delivered = [c \in Classes |-> 0]

\* Essentials carry the zero timestamp the browser camera gives them; a video
\* frame remembers the sequence header it was encoded under.
Stamp(x, t) == [kind |-> x.kind, key |-> x.key, seq |-> x.seq, size |-> x.size,
                ts |-> IF Essential(x) THEN 0 ELSE t % TsMod,
                n |-> IF StreamOf(x) = "audio" THEN 0 ELSE published[StreamOf(x)] + 1,
                header |-> IF DroppableVideo(x) THEN published["videoSeq"] ELSE 0]

PublishOne(x, d) ==
  /\ published[StreamOf(x)] < Bound(StreamOf(x))
  /\ clock + d <= MaxClock
  /\ clock' = clock + d
  /\ published' = [published EXCEPT ![StreamOf(x)] = @ + 1]
  /\ q' = Push(q, Stamp(x, clock + d))
  /\ signal' = (signal \/ PushWakes(q, Stamp(x, clock + d)))
  /\ UNCHANGED <<popper, closing, cancelled, taken, lastFrame, delivered>>

-----------------------------------------------------------------------------
PopEnter == /\ popper = "out"
            /\ popper' = "check"
            /\ UNCHANGED <<q, signal, closing, cancelled, historyVars>>

\* The locked part of pop when there is something to take.
PopTake ==
  /\ popper = "check"
  /\ q.items # <<>>
  /\ LET m == Head(q.items)
     IN  /\ taken' = taken + (IF Essential(m) THEN 0 ELSE 1)
         /\ lastFrame' = IF DroppableVideo(m) THEN [n |-> m.n, key |-> m.key]
                                              ELSE lastFrame
         /\ delivered' = IF Essential(m)
                         THEN [delivered EXCEPT ![EssentialClass(m)] = m.n]
                         ELSE delivered
  /\ q' = PopRest(q)
  /\ popper' = "out"
  /\ UNCHANGED <<signal, closing, cancelled, clock, published>>

\* Empty: pop gives up for good if the queue is closed, or goes to wait.
PopEmpty == /\ popper = "check"
            /\ q.items = <<>>
            /\ popper' = IF q.closed THEN "gone" ELSE "wait"
            /\ UNCHANGED <<q, signal, closing, cancelled, historyVars>>

PopWoken == /\ popper = "wait"
            /\ signal
            /\ signal' = FALSE
            /\ popper' = "check"
            /\ UNCHANGED <<q, closing, cancelled, historyVars>>

PopCancelled == /\ popper = "wait"
                /\ cancelled
                /\ popper' = "gone"
                /\ UNCHANGED <<q, signal, closing, cancelled, historyVars>>

-----------------------------------------------------------------------------
CloseLocked == /\ ~q.closed
               /\ q' = CloseQueue(q)
               /\ closing' = TRUE
               /\ UNCHANGED <<signal, popper, cancelled, historyVars>>

CloseWake == /\ closing
             /\ closing' = FALSE
             /\ signal' = TRUE
             /\ UNCHANGED <<q, popper, cancelled, historyVars>>

Cancel == /\ ~cancelled
          /\ cancelled' = TRUE
          /\ UNCHANGED <<q, signal, popper, closing, historyVars>>

Next == \/ \E x \in Inputs, d \in Steps : PublishOne(x, d)
        \/ PopEnter \/ PopTake \/ PopEmpty \/ PopWoken \/ PopCancelled
        \/ CloseLocked \/ CloseWake \/ Cancel

Spec == Init /\ [][Next]_vars

-----------------------------------------------------------------------------
TypeOK ==
  /\ q.items \in Seq(Message)
  /\ q.bytes \in Nat /\ q.videoItems \in Nat /\ q.drops \in Nat
  /\ q.ess \in [Classes -> 0..Len(q.items)]
  /\ q.dropping \in BOOLEAN /\ q.closed \in BOOLEAN
  /\ {signal, closing, cancelled} \subseteq BOOLEAN
  /\ popper \in {"out", "check", "wait", "gone"}
  /\ published \in [Streams -> Nat] /\ delivered \in [Classes -> Nat]
  /\ clock \in 0..MaxClock /\ taken \in Nat

\* The books of the deque agree with a recount after any mix of replacements,
\* discard passes, pops and a close.  The position kept for each class is that of the
\* only queued essential of the class: a stale one would overwrite somebody else's
\* message or let headers pile up (replaceEssential, trackEssential, pop).  The
\* counters are what every limit test and every guard of the discard passes reads.
Books ==
  /\ \A c \in Classes :
       {i \in DOMAIN q.items : EssentialClass(q.items[i]) = c} = {q.ess[c]} \ {0}
  /\ q.bytes = Size(q.items, DOMAIN q.items)
  /\ q.videoItems = Cardinality(VideoAt(q.items))

\* No video is kept beyond a soft limit, beyond a hard one only essentials remain
\* (shedToHardLimits is the safety net that keeps a queue nobody drains from
\* growing), and a stopped sink retains nothing, even if a push loses the race
\* with close.  The media time is bounded until the timestamps wrap around: then
\* spanMillis measures nothing, and what is left once the old media has been popped
\* may be longer, until the next push.
Limits == /\ q.videoItems > 0 => q.bytes =< MaxBytes
          /\ q.videoItems > 0 /\ clock < TsMod => SpanMillis(q.items) =< MaxSpan
          /\ OverHard(q) => \A i \in DOMAIN q.items : Essential(q.items[i])
          /\ q.closed => q.items = <<>>

\* Every media message is popped, still queued or counted as dropped, so the
\* drops a user sees are exact.
Conservation ==
  ~q.closed => published["video"] + published["audio"]
               = taken + Cardinality(MediaAt(q.items)) + q.drops

\* No pressure loses the newest metadata or sequence header: it was popped or it
\* is queued ("essential indica si un mensaje no se puede descartar nunca").
LatestEssentialKept ==
  ~q.closed => \A c \in Classes :
                 published[c] = IF q.ess[c] = 0 THEN delivered[c]
                                ELSE q.items[q.ess[c]].n

\* No frame is popped before the sequence header it was encoded under, even
\* though headers change places and frames are discarded around them.
HeaderPrecedesFrame ==
  \A i \in DOMAIN q.items :
    DroppableVideo(q.items[i]) =>
      \/ q.items[i].header <= delivered["videoSeq"]
      \/ \E j \in 1..(i - 1) : /\ EssentialClass(q.items[j]) = "videoSeq"
                               /\ q.items[i].header <= q.items[j].n

\* A popper is never asleep with something to see and no wake-up on its way.
NoLostWakeup ==
  popper = "wait" /\ (q.items # <<>> \/ q.closed) => signal \/ closing

\* Whatever is discarded, replaced or popped, and whoever closes meanwhile: the books
\* agree, the limits hold, no media is lost unaccounted and nobody sleeps through it.
QueueAccounts == TypeOK /\ Books /\ Limits /\ Conservation /\ NoLostWakeup

\* The sink gets every header there is, and before the frames that need it.
HeadersKept == LatestEssentialKept /\ HeaderPrecedesFrame

\* The deque keeps the promise of GopChannel: whatever mix of bytes, time and
\* item limits fires, what the sink pops is a decodable video track.
FrameOf(m) == [n |-> m.n, key |-> m.key]
Video      == Sub(q.items, VideoAt(q.items))
Abstract == INSTANCE GopChannel WITH
              published <- published["video"],
              pending   <- [k \in DOMAIN Video |-> FrameOf(Video[k])],
              synced    <- ~q.dropping,
              last      <- lastFrame,
              closed    <- q.closed
GopPromise == Abstract!Spec
=============================================================================
