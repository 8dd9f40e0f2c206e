-------------------------- MODULE RelayQueueProofs --------------------------
(***************************************************************************)
(* The queue of a sink for every value of its limits, of the messages and  *)
(* of the bounds on the publisher: DequeInv, the inductive invariant of    *)
(* RelayQueue, from which what the runs check follows, and, with it, that  *)
(* RelayQueue implements GopChannel step by step.                          *)
(***************************************************************************)
EXTENDS RelayQueue, QueueFacts

\* The newest essentials are taken or queued, and no frame is ahead of its header.
Headers == /\ ~q.closed => Newest(q.items, published, delivered)
           /\ Ahead(q.items, delivered)
           /\ \A c \in Classes : delivered[c] =< published[c]

\* The types of what is not the deque: the flags, the popper and the history.
Rest == /\ {signal, closing, cancelled} \subseteq BOOLEAN
        /\ popper \in {"out", "check", "wait", "gone"}
        /\ published \in [Streams -> Nat] /\ delivered \in [Classes -> Nat]
        /\ clock \in 0..MaxClock /\ taken \in Nat

\* The inductive invariant: the books of the deque, the limits, the accounts, the wake-up,
\* the headers, and, until the timestamps wrap around, the order of the media.  What the
\* runs check is not inductive without it: that a class has one position, no more, makes
\* Replace and pop keep the headers; that no more was delivered than published makes a new
\* header the newest; and only of media in order is the span that of the first and the last.
DequeInv == /\ Sound(q) /\ Rest /\ Limits /\ Conservation /\ NoLostWakeup /\ Headers
            /\ clock < TsMod => InOrder(q.items, clock)

-----------------------------------------------------------------------------
\* The invariant.

\* It says what the runs check.
LEMMA DequeInvSays ==
  ASSUME DequeInv
  PROVE  QueueAccounts /\ HeadersKept
<1>1. /\ q.items \in Seq(Message) /\ q.bytes \in Nat /\ q.videoItems \in Nat /\ q.drops \in Nat
      /\ q.ess \in [Classes -> Nat] /\ q.dropping \in BOOLEAN /\ q.closed \in BOOLEAN
      /\ Indexed(q.items, q.ess)
      /\ q.bytes = Size(q.items, DOMAIN q.items)
      /\ q.videoItems = Cardinality(VideoAt(q.items))
  BY BooksOf DEF DequeInv
<1>2. \A c \in Classes : At(q.items, c) = {q.ess[c]} \ {0}
  BY <1>1 DEF Indexed
<1>3. Len(q.items) \in Nat /\ DOMAIN q.items = 1..Len(q.items)
  BY <1>1, LenProperties
<1>4. q.ess \in [Classes -> 0..Len(q.items)]
  <2>1. \A c \in Classes : q.ess[c] \in 0..Len(q.items)
    <3> SUFFICES ASSUME NEW c \in Classes PROVE q.ess[c] \in 0..Len(q.items)
      OBVIOUS
    <3>1. q.ess[c] \in Nat
      BY <1>1
    <3>2. q.ess[c] # 0 => q.ess[c] \in DOMAIN q.items
      BY <1>2 DEF At
    <3> QED BY <1>3, <3>1, <3>2
  <2> QED BY <1>1, <2>1
<1>5. TypeOK
  BY <1>1, <1>4 DEF TypeOK, DequeInv, Rest
<1>6. Books
  BY <1>1, <1>2 DEF Books, At
<1>7. QueueAccounts
  BY <1>5, <1>6 DEF QueueAccounts, DequeInv
<1>8. LatestEssentialKept
  <2> SUFFICES ASSUME ~q.closed, NEW c \in Classes
               PROVE  published[c] = IF q.ess[c] = 0 THEN delivered[c] ELSE q.items[q.ess[c]].n
    BY DEF LatestEssentialKept
  <2>1. /\ At(q.items, c) = {} => published[c] = delivered[c]
        /\ \A i \in At(q.items, c) : q.items[i].n = published[c]
    BY DEF DequeInv, Headers, Newest
  <2>2. CASE q.ess[c] = 0
    BY <1>2, <2>1, <2>2
  <2>3. CASE q.ess[c] # 0
    <3>1. q.ess[c] \in At(q.items, c)
      BY <1>2, <2>3
    <3> QED BY <2>1, <2>3, <3>1
  <2> QED BY <2>2, <2>3
<1>9. HeaderPrecedesFrame
  <2> SUFFICES ASSUME NEW i \in DOMAIN q.items, DroppableVideo(q.items[i])
               PROVE  \/ q.items[i].header <= delivered["videoSeq"]
                      \/ \E j \in 1..(i - 1) : /\ EssentialClass(q.items[j]) = "videoSeq"
                                               /\ q.items[i].header <= q.items[j].n
    BY DEF HeaderPrecedesFrame
  <2>1. HeaderAhead(q.items, i, delivered)
    BY DEF DequeInv, Headers, Ahead
  <2>2. \A j \in DOMAIN q.items : j < i => j \in 1..(i - 1)
    BY <1>3
  <2> QED BY <2>1, <2>2 DEF HeaderAhead
<1> QED BY <1>7, <1>8, <1>9 DEF HeadersKept

\* What the publisher stamps on a message.
LEMMA Stamped ==
  ASSUME Rest, NEW x \in Inputs, NEW t \in Nat, NEW m, m = Stamp(x, t)
  PROVE  /\ m \in Message /\ StreamOf(x) \in Streams
         /\ Essential(m) <=> Essential(x)
         /\ Essential(m) => /\ EssentialClass(m) = StreamOf(x) /\ EssentialClass(m) \in Classes
                            /\ m.n = published[StreamOf(x)] + 1
         /\ ~Essential(m) => /\ EssentialClass(m) = "none" /\ StreamOf(x) \in {"video", "audio"}
                             /\ m.ts = t % TsMod
         /\ DroppableVideo(m) <=> StreamOf(x) = "video"
         /\ DroppableVideo(m) => /\ m.header = published["videoSeq"] /\ m.key = x.key
                                 /\ m.n = published["video"] + 1
         /\ x.key \in BOOLEAN
<1>1. x.kind \in {"audio", "video", "meta"} /\ x.key \in BOOLEAN /\ x.seq \in BOOLEAN /\ x.size \in Nat
  BY PublisherBounds
<1>2. /\ m = [kind |-> m.kind, key |-> m.key, seq |-> m.seq, size |-> m.size,
              ts |-> m.ts, n |-> m.n, header |-> m.header]
      /\ m.kind = x.kind /\ m.key = x.key /\ m.seq = x.seq /\ m.size = x.size
      /\ m.ts = (IF Essential(x) THEN 0 ELSE t % TsMod)
      /\ m.n = (IF StreamOf(x) = "audio" THEN 0 ELSE published[StreamOf(x)] + 1)
      /\ m.header = (IF DroppableVideo(x) THEN published["videoSeq"] ELSE 0)
  BY DEF Stamp
<1>3. /\ Essential(m) <=> Essential(x)
      /\ EssentialClass(m) = EssentialClass(x)
      /\ DroppableVideo(m) <=> DroppableVideo(x)
  BY <1>2 DEF Essential, EssentialClass, DroppableVideo
<1>4. /\ Essential(x) => EssentialClass(x) \in Classes
      /\ ~Essential(x) => EssentialClass(x) = "none" /\ x.kind \in {"video", "audio"}
      /\ DroppableVideo(x) <=> ~Essential(x) /\ x.kind = "video"
  <2>1. CASE x.kind = "meta"
    BY <2>1 DEF Essential, EssentialClass, Classes, DroppableVideo
  <2>2. CASE x.kind = "video"
    BY <1>1, <2>2 DEF Essential, EssentialClass, Classes, DroppableVideo
  <2>3. CASE x.kind = "audio"
    BY <1>1, <2>3 DEF Essential, EssentialClass, Classes, DroppableVideo
  <2> QED BY <1>1, <2>1, <2>2, <2>3
<1>5. /\ Essential(x) => StreamOf(x) = EssentialClass(x)
      /\ ~Essential(x) => StreamOf(x) = x.kind
  BY DEF StreamOf
<1>6. StreamOf(x) \in Streams /\ "videoSeq" \in Streams /\ "video" \in Streams
  BY <1>4, <1>5 DEF Streams, Classes
<1>7. DroppableVideo(x) <=> StreamOf(x) = "video"
  <2>1. CASE Essential(x)
    BY <1>4, <1>5, <2>1 DEF Classes
  <2>2. CASE ~Essential(x)
    BY <1>4, <1>5, <2>2
  <2> QED BY <2>1, <2>2
<1>8. Essential(x) => StreamOf(x) # "audio"
  BY <1>4, <1>5 DEF Classes
<1>9. published[StreamOf(x)] \in Nat /\ published["videoSeq"] \in Nat
  BY <1>6 DEF Rest
<1>10. m.ts \in Nat /\ m.n \in Nat /\ m.header \in Nat
  <2>1. t % TsMod \in Nat
    BY PublisherBounds
  <2> QED BY <1>2, <1>9, <2>1
<1>11. m \in Message
  BY <1>1, <1>2, <1>10 DEF Message
<1> QED BY <1>1, <1>2, <1>3, <1>4, <1>5, <1>6, <1>7, <1>8, <1>11

\* At the start there is nothing.
LEMMA DequeInit ==
  ASSUME Init
  PROVE  DequeInv
<1>1. <<>> \in Seq(Message) /\ Len(<<>>) = 0 /\ DOMAIN <<>> = {}
  BY EmptySeq
<1>2. /\ q.items = <<>> /\ q.bytes = 0 /\ q.videoItems = 0 /\ q.ess = [c \in Classes |-> 0]
      /\ q.dropping = FALSE /\ q.drops = 0 /\ q.closed = FALSE
  BY DEF Init, EmptyQueue
<1>3. VideoAt(<<>>) = {} /\ MediaAt(<<>>) = {} /\ \A c : At(<<>>, c) = {}
  BY EmptySound
<1>4. Sound(q)
  BY EmptySound DEF Init
<1>5. Rest
  <2>1. 0 \in Nat /\ 0 \in 0..MaxClock
    BY PublisherBounds
  <2> QED BY <2>1 DEF Init, Rest
<1>6. Limits
  <2>1. ~(Len(<<>>) > MaxItems) /\ ~(0 > HardBytes) /\ ~(0 > 0)
    BY <1>1, QueueLimits
  <2> QED BY <1>2, <2>1 DEF Limits, OverHard
<1>7. Conservation
  <2>1. published["video"] = 0 /\ published["audio"] = 0 /\ taken = 0
    BY DEF Init, Streams
  <2>2. Cardinality(MediaAt(<<>>)) = 0
    BY <1>3, FS_EmptySet
  <2> QED BY <1>2, <2>1, <2>2 DEF Conservation
<1>8. NoLostWakeup
  BY DEF Init, NoLostWakeup
<1>9. Headers
  <2>1. \A c \in Classes : published[c] = 0 /\ delivered[c] = 0
    BY DEF Init, Streams
  <2>2. Newest(<<>>, published, delivered)
    BY <1>3, <2>1 DEF Newest
  <2>3. Ahead(<<>>, delivered)
    BY <1>1 DEF Ahead
  <2> QED BY <1>2, <2>1, <2>2, <2>3 DEF Headers
<1>10. InOrder(q.items, clock)
  BY <1>1, <1>2 DEF InOrder
<1> QED BY <1>4, <1>5, <1>6, <1>7, <1>8, <1>9, <1>10 DEF DequeInv

\* push, of a message taken in or refused, keeps the invariant.
LEMMA DequePublish ==
  ASSUME DequeInv, NEW x \in Inputs, NEW d \in Steps, PublishOne(x, d)
  PROVE  DequeInv'
<1>1. PICK t : t = clock + d
  OBVIOUS
<1>2. PICK m : m = Stamp(x, t)
  OBVIOUS
<1>3. PICK z : z = StreamOf(x)
  OBVIOUS
<1>4. /\ Sound(q) /\ Rest /\ Limits /\ Conservation /\ NoLostWakeup /\ Headers
      /\ clock < TsMod => InOrder(q.items, clock)
  BY DEF DequeInv
<1>5. /\ {signal, closing, cancelled} \subseteq BOOLEAN
      /\ popper \in {"out", "check", "wait", "gone"}
      /\ published \in [Streams -> Nat] /\ delivered \in [Classes -> Nat]
      /\ clock \in 0..MaxClock /\ taken \in Nat
  BY <1>4 DEF Rest
<1>6. d \in Nat /\ clock \in Nat /\ t \in Nat /\ clock =< t /\ MaxClock \in Nat /\ TsMod \in Nat \ {0}
  BY <1>1, <1>5, PublisherBounds
<1>7. /\ m \in Message /\ z \in Streams
      /\ Essential(m) => /\ EssentialClass(m) = z /\ EssentialClass(m) \in Classes
                         /\ m.n = published[z] + 1
      /\ ~Essential(m) => /\ EssentialClass(m) = "none" /\ z \in {"video", "audio"}
                          /\ m.ts = t % TsMod
      /\ DroppableVideo(m) <=> z = "video"
      /\ DroppableVideo(m) => m.header = published["videoSeq"]
  BY <1>2, <1>3, <1>4, <1>6, Stamped
<1>8. /\ published' = [published EXCEPT ![z] = @ + 1] /\ clock' = t /\ t =< MaxClock
      /\ q' = Push(q, m) /\ signal' = (signal \/ PushWakes(q, m))
      /\ popper' = popper /\ closing' = closing /\ cancelled' = cancelled /\ taken' = taken
      /\ delivered' = delivered
  BY <1>1, <1>2, <1>3 DEF PublishOne
<1>9. /\ published' \in [Streams -> Nat]
      /\ \A s \in Streams : published'[s] = IF s = z THEN published[s] + 1 ELSE published[s]
      /\ \A s \in Streams : published[s] \in Nat
  BY <1>5, <1>7, <1>8
<1>10. Rest'
  <2>1. PushWakes(q, m) \in BOOLEAN
    BY DEF PushWakes
  <2>2. t \in 0..MaxClock
    BY <1>6, <1>8
  <2>3. signal' \in BOOLEAN
    BY <1>8
  <2> QED BY <1>5, <1>8, <1>9, <2>2, <2>3 DEF Rest
<1>11. /\ \A c \in Classes : c \in Streams /\ delivered[c] \in Nat /\ published[c] \in Nat
       /\ "video" \in Streams /\ "audio" \in Streams
       /\ "video" \notin Classes /\ "audio" \notin Classes /\ "none" \notin Classes
  BY <1>5, <1>9 DEF Streams, Classes
<1>12. \A c \in Classes : delivered'[c] =< published'[c]
  <2> SUFFICES ASSUME NEW c \in Classes PROVE delivered[c] =< published'[c]
    BY <1>8
  <2>1. delivered[c] =< published[c] /\ delivered[c] \in Nat /\ published[c] \in Nat
    BY <1>4, <1>11 DEF Headers
  <2>2. published'[c] = published[c] \/ published'[c] = published[c] + 1
    BY <1>9, <1>11
  <2> QED BY <2>1, <2>2
<1>13. \A c \in Classes : c # EssentialClass(m) => published'[c] = published[c]
  <2> SUFFICES ASSUME NEW c \in Classes, c # EssentialClass(m) PROVE c # z
    BY <1>9, <1>11
  <2> QED BY <1>7, <1>11
<1>14. q.items \in Seq(Message) /\ q.drops \in Nat /\ q.dropping \in BOOLEAN /\ q.closed \in BOOLEAN
       /\ Cardinality(MediaAt(q.items)) \in Nat
  BY <1>4, BooksOf
<1>15. /\ published'["video"] + published'["audio"]
            = published["video"] + published["audio"] + (IF Essential(m) THEN 0 ELSE 1)
       /\ published["video"] \in Nat /\ published["audio"] \in Nat
  <2>1. published["video"] \in Nat /\ published["audio"] \in Nat
    BY <1>9, <1>11
  <2>2. CASE Essential(m)
    <3>1. z # "video" /\ z # "audio"
      BY <1>7, <1>11, <2>2
    <3>2. published'["video"] = published["video"] /\ published'["audio"] = published["audio"]
      BY <1>9, <1>11, <3>1
    <3>3. (IF Essential(m) THEN 0 ELSE 1) = 0
      BY <2>2
    <3> QED BY <2>1, <3>2, <3>3
  <2>3. CASE ~Essential(m) /\ z = "video"
    <3>1. published'["video"] = published["video"] + 1 /\ published'["audio"] = published["audio"]
      BY <1>9, <1>11, <2>3
    <3>2. (IF Essential(m) THEN 0 ELSE 1) = 1
      BY <2>3
    <3> QED BY <2>1, <3>1, <3>2
  <2>4. CASE ~Essential(m) /\ z = "audio"
    <3>1. published'["audio"] = published["audio"] + 1 /\ published'["video"] = published["video"]
      BY <1>9, <1>11, <2>4
    <3>2. (IF Essential(m) THEN 0 ELSE 1) = 1
      BY <2>4
    <3> QED BY <2>1, <3>1, <3>2
  <2> QED BY <1>7, <2>2, <2>3, <2>4
<1>16. CASE q.closed
  <2>1. q' = q /\ q.items = <<>>
    BY <1>4, <1>8, <1>16 DEF Push, Limits
  <2>2. DOMAIN q.items = {}
    BY <1>14, <2>1, EmptySeq
  <2>3. Limits'
    <3>1. t < TsMod => clock < TsMod
      BY <1>6
    <3> QED BY <1>4, <1>8, <2>1, <3>1 DEF Limits
  <2>4. Conservation'
    BY <1>16, <2>1 DEF Conservation
  <2>5. NoLostWakeup'
    BY <1>4, <1>8, <2>1 DEF NoLostWakeup
  <2>6. Headers'
    BY <1>12, <1>16, <2>1, <2>2 DEF Headers, Ahead
  <2>7. InOrder(q'.items, clock')
    BY <2>1, <2>2 DEF InOrder
  <2> QED BY <1>4, <1>10, <2>1, <2>3, <2>4, <2>5, <2>6, <2>7 DEF DequeInv
<1>17. CASE ~q.closed /\ Refuses(q, m)
  <2>1. q' = [q EXCEPT !.drops = q.drops + 1]
    BY <1>8, <1>17 DEF Push
  <2>2. /\ q' = [items |-> q.items, bytes |-> q.bytes, videoItems |-> q.videoItems, ess |-> q.ess,
                 dropping |-> q.dropping, drops |-> q.drops + 1, closed |-> q.closed]
        /\ q'.items = q.items /\ q'.closed = q.closed /\ q'.drops = q.drops + 1
        /\ q'.bytes = q.bytes /\ q'.videoItems = q.videoItems /\ q'.ess = q.ess
    <3>1. q = [items |-> q.items, bytes |-> q.bytes, videoItems |-> q.videoItems, ess |-> q.ess,
               dropping |-> q.dropping, drops |-> q.drops, closed |-> q.closed]
      BY <1>4, BooksOf
    <3> QED BY <2>1, <3>1
  <2>3. Sound(q')
    <3>1. q' \in QueueStates
      <4>1. q.drops + 1 \in Nat
        BY <1>14
      <4> QED BY <1>4, <2>2, <4>1 DEF Sound, QueueStates
    <3> QED BY <1>4, <2>2, <3>1 DEF Sound
  <2>4. ~Essential(m) /\ z = "video"
    BY <1>7, <1>17, Kinds DEF Refuses
  <2>5. Limits'
    <3>1. t < TsMod => clock < TsMod
      BY <1>6
    <3> QED BY <1>4, <1>8, <2>2, <3>1 DEF Limits, OverHard
  <2>6. Conservation'
    <3>1. published["video"] + published["audio"] = taken + Cardinality(MediaAt(q.items)) + q.drops
      BY <1>4, <1>17 DEF Conservation
    <3>2. published'["video"] + published'["audio"] = published["video"] + published["audio"] + 1
      <4>1. (IF Essential(m) THEN 0 ELSE 1) = 1
        BY <2>4
      <4> QED BY <1>15, <4>1
    <3>3. published'["video"] + published'["audio"]
            = taken + Cardinality(MediaAt(q.items)) + (q.drops + 1)
      BY <1>5, <1>14, <1>15, <3>1, <3>2
    <3> QED BY <1>8, <2>2, <3>3 DEF Conservation
  <2>7. NoLostWakeup'
    <3>1. signal => signal'
      BY <1>8
    <3> QED BY <1>4, <1>8, <2>2, <3>1 DEF NoLostWakeup
  <2>8. Headers'
    <3>1. Newest(q.items, published, delivered)
      BY <1>4, <1>17 DEF Headers
    <3>2. \A c \in Classes : published'[c] = published[c]
      BY <1>7, <1>13, <1>11, <2>4
    <3>3. Newest(q.items, published', delivered)
      BY <3>1, <3>2 DEF Newest
    <3> QED BY <1>4, <1>8, <1>12, <2>2, <3>3 DEF Headers
  <2>9. clock' < TsMod => InOrder(q'.items, clock')
    <3> SUFFICES ASSUME t < TsMod PROVE InOrder(q.items, t)
      BY <1>8, <2>2
    <3>1. InOrder(q.items, clock)
      BY <1>4, <1>6
    <3>2. \A i \in DOMAIN q.items : q.items[i].ts \in Nat
      BY <1>14, Typed
    <3>3. \A i \in DOMAIN q.items : ~Essential(q.items[i]) => q.items[i].ts =< t
      BY <1>6, <3>1, <3>2 DEF InOrder
    <3> QED BY <3>1, <3>3 DEF InOrder
  <2> QED BY <1>10, <2>3, <2>5, <2>6, <2>7, <2>8, <2>9 DEF DequeInv
<1>18. CASE ~q.closed /\ ~Refuses(q, m)
  <2>1. PICK e : Accepts(q, m, e, q')
    BY <1>4, <1>7, <1>8, <1>18, Pushed
  <2>2. /\ Sound(e) /\ ~e.closed /\ e.drops = q.drops /\ Placed(q.items, m, e.items)
        /\ Cardinality(MediaAt(e.items))
             = Cardinality(MediaAt(q.items)) + (IF Essential(m) THEN 0 ELSE 1)
        /\ Thins(e, q')
        /\ q'.videoItems > 0 => q' = e /\ ~Over(e)
        /\ OverHard(q') => \A i \in DOMAIN q'.items : Essential(q'.items[i])
    BY <2>1 DEF Accepts
  <2>3. /\ Sound(q') /\ Kept(e.items, q'.items) /\ q'.closed = e.closed
        /\ q'.drops + Cardinality(MediaAt(q'.items)) = e.drops + Cardinality(MediaAt(e.items))
    BY <2>2 DEF Thins
  <2>4. e.items \in Seq(Message) /\ q'.items \in Seq(Message) /\ q'.bytes \in Nat /\ q'.videoItems \in Nat
        /\ e.closed \in BOOLEAN /\ q'.drops \in Nat /\ Cardinality(MediaAt(q'.items)) \in Nat
    BY <2>2, <2>3, BooksOf
  <2>5. ~q'.closed
    BY <2>2, <2>3
  <2>6. Limits'
    <3>1. q'.videoItems > 0 => q'.bytes =< MaxBytes /\ SpanMillis(q'.items) =< MaxSpan
      <4>1. SpanMillis(q'.items) \in Nat
        BY <2>4, SpanTyped
      <4>2. q'.videoItems > 0 => ~(q'.bytes > MaxBytes) /\ ~(SpanMillis(q'.items) > MaxSpan)
        BY <2>2 DEF Over
      <4>3. MaxBytes \in Nat /\ MaxSpan \in Nat
        BY QueueLimits
      <4> QED BY <2>4, <4>1, <4>2, <4>3
    <3> QED BY <2>2, <2>5, <3>1 DEF Limits
  <2>7. Conservation'
    <3>1. published["video"] + published["audio"] = taken + Cardinality(MediaAt(q.items)) + q.drops
      BY <1>4, <1>18 DEF Conservation
    <3>2. PICK w \in {0, 1} : w = IF Essential(m) THEN 0 ELSE 1
      OBVIOUS
    <3>3. q'.drops + Cardinality(MediaAt(q'.items)) = q.drops + (Cardinality(MediaAt(q.items)) + w)
      BY <2>2, <2>3, <3>2
    <3>4. published'["video"] + published'["audio"] = published["video"] + published["audio"] + w
      BY <1>15, <3>2
    <3>5. PICK a \in Nat : a = Cardinality(MediaAt(q.items))
      BY <1>14
    <3>6. PICK b \in Nat : b = Cardinality(MediaAt(q'.items))
      BY <2>4
    <3>7. PICK y : y = published["video"] + published["audio"]
      OBVIOUS
    <3>8. y = taken + a + q.drops /\ q'.drops + b = q.drops + (a + w)
      BY <3>1, <3>3, <3>5, <3>6, <3>7
    <3>9. y + w = taken + b + q'.drops
      <4>1. PICK e0 \in Nat : e0 = q.drops
        BY <1>14
      <4>2. PICK e1 \in Nat : e1 = q'.drops
        BY <2>4
      <4>3. w \in Nat /\ taken \in Nat
        BY <1>5
      <4>4. y = taken + a + e0 /\ e1 + b = e0 + (a + w)
        BY <3>8, <4>1, <4>2
      <4>5. y + w = taken + b + e1
        BY <4>3, <4>4
      <4> QED BY <4>2, <4>5
    <3>10. published'["video"] + published'["audio"]
            = taken + Cardinality(MediaAt(q'.items)) + q'.drops
      BY <3>4, <3>6, <3>7, <3>9
    <3> QED BY <1>8, <3>10 DEF Conservation
  <2>8. NoLostWakeup'
    <3>1. signal'
      BY <1>8, <1>18 DEF PushWakes
    <3> QED BY <3>1 DEF NoLostWakeup
  <2>9. Headers'
    <3>1. Newest(q.items, published, delivered) /\ Ahead(q.items, delivered)
      BY <1>4, <1>18 DEF Headers
    <3>2. OneEach(q.items)
      BY <1>4, OnlyOne
    <3>3. Essential(m) => /\ m.n = published'[EssentialClass(m)]
                          /\ published'[EssentialClass(m)] = published[EssentialClass(m)] + 1
      BY <1>7, <1>9
    <3>4. Newest(e.items, published', delivered) /\ Ahead(e.items, delivered)
      <4>1. \A c \in Classes : published[c] \in Nat
        BY <1>11
      <4>2. PICK pub : pub = published
        OBVIOUS
      <4>3. PICK pub2 : pub2 = published'
        OBVIOUS
      <4>4. PICK s : s = q.items
        OBVIOUS
      <4>5. PICK u : u = e.items
        OBVIOUS
      <4>6. /\ s \in Seq(Message) /\ u \in Seq(Message) /\ Placed(s, m, u) /\ OneEach(s)
            /\ Newest(s, pub, delivered) /\ Ahead(s, delivered)
        BY <1>14, <2>2, <2>4, <3>1, <3>2, <4>2, <4>4, <4>5
      <4>7. Numbered(m, pub, pub2)
        BY <1>7, <1>13, <3>3, <4>1, <4>2, <4>3 DEF Numbered
      <4>9. Newest(u, pub2, delivered) /\ Ahead(u, delivered)
        BY <1>5, <1>7, <4>6, <4>7, PlacedSafe
      <4> QED BY <4>3, <4>5, <4>9
    <3>5. Newest(q'.items, published', delivered) /\ Ahead(q'.items, delivered)
      BY <2>3, <2>4, <3>4, KeptSafe
    <3> QED BY <1>8, <1>12, <3>5 DEF Headers
  <2>10. clock' < TsMod => InOrder(q'.items, clock')
    <3> SUFFICES ASSUME t < TsMod PROVE InOrder(q'.items, t)
      BY <1>8
    <3>1. InOrder(q.items, clock)
      BY <1>4, <1>6
    <3>2. ~Essential(m) => m.ts = t
      BY <1>6, <1>7
    <3>3. InOrder(e.items, t)
      BY <1>6, <1>7, <1>14, <2>2, <2>4, <3>1, <3>2, PlacedInOrder
    <3> QED BY <2>3, <2>4, <3>3, KeptSafe
  <2> QED BY <1>10, <2>3, <2>6, <2>7, <2>8, <2>9, <2>10 DEF DequeInv
<1> QED BY <1>16, <1>17, <1>18

\* pop of the head keeps it.
LEMMA DequeTake ==
  ASSUME DequeInv, PopTake
  PROVE  DequeInv'
<1>1. PICK m : m = Head(q.items)
  OBVIOUS
<1>2. /\ Sound(q) /\ Rest /\ Limits /\ Conservation /\ NoLostWakeup /\ Headers
      /\ clock < TsMod => InOrder(q.items, clock)
  BY DEF DequeInv
<1>3. /\ {signal, closing, cancelled} \subseteq BOOLEAN
      /\ popper \in {"out", "check", "wait", "gone"}
      /\ published \in [Streams -> Nat] /\ delivered \in [Classes -> Nat]
      /\ clock \in 0..MaxClock /\ taken \in Nat
  BY <1>2 DEF Rest
<1>4. /\ q.items # <<>> /\ taken' = taken + (IF Essential(m) THEN 0 ELSE 1)
      /\ delivered' = IF Essential(m) THEN [delivered EXCEPT ![EssentialClass(m)] = m.n] ELSE delivered
      /\ q' = PopRest(q) /\ popper' = "out" /\ signal' = signal /\ closing' = closing
      /\ cancelled' = cancelled /\ clock' = clock /\ published' = published
  BY <1>1 DEF PopTake
<1>5. Loses(q, m, q')
  BY <1>1, <1>2, <1>4, Popped
<1>6. /\ Sound(q') /\ q'.closed = q.closed /\ q'.dropping = q.dropping /\ q'.drops = q.drops
      /\ m \in Message /\ Beheads(q.items, m, q'.items) /\ Len(q'.items) = Len(q.items) - 1
      /\ q'.bytes =< q.bytes /\ q'.videoItems =< q.videoItems
      /\ Cardinality(MediaAt(q.items))
           = Cardinality(MediaAt(q'.items)) + (IF Essential(m) THEN 0 ELSE 1)
  BY <1>5 DEF Loses
<1>7. /\ q.items \in Seq(Message) /\ q.bytes \in Nat /\ q.videoItems \in Nat /\ q.drops \in Nat
      /\ q.closed \in BOOLEAN /\ Cardinality(MediaAt(q.items)) \in Nat
      /\ q'.items \in Seq(Message) /\ q'.bytes \in Nat /\ q'.videoItems \in Nat
      /\ Cardinality(MediaAt(q'.items)) \in Nat
  BY <1>2, <1>6, BooksOf
<1>8. ~q.closed
  BY <1>2, <1>4 DEF Limits
<1>9. /\ \A k \in DOMAIN q'.items : k + 1 \in DOMAIN q.items /\ q'.items[k] = q.items[k + 1]
  BY <1>6 DEF Beheads
<1>10. /\ \A c \in Classes : published[c] \in Nat /\ delivered[c] =< published[c]
       /\ Newest(q.items, published, delivered) /\ Ahead(q.items, delivered)
       /\ OneEach(q.items)
  <2>1. \A c \in Classes : published[c] \in Nat
    BY <1>3 DEF Streams
  <2> QED BY <1>2, <1>8, <2>1, OnlyOne DEF Headers
<1>11. /\ Newest(q'.items, published, delivered')
       /\ delivered' \in [Classes -> Nat] /\ \A c \in Classes : delivered'[c] =< published[c]
       /\ Ahead(q'.items, delivered')
  <2>1. PICK s : s = q.items
    OBVIOUS
  <2>2. PICK u : u = q'.items
    OBVIOUS
  <2>3. PICK del2 : del2 = delivered'
    OBVIOUS
  <2>4. PICK pub : pub = published
    OBVIOUS
  <2>5. /\ s \in Seq(Message) /\ u \in Seq(Message) /\ Beheads(s, m, u) /\ OneEach(s)
        /\ Newest(s, pub, delivered) /\ Ahead(s, delivered)
    BY <1>6, <1>7, <1>10, <2>1, <2>2, <2>4
  <2>6. Delivered(m, pub, delivered, del2)
    BY <1>4, <1>10, <2>3, <2>4 DEF Delivered
  <2>7. /\ Newest(u, pub, del2)
        /\ del2 \in [Classes -> Nat] /\ \A c \in Classes : del2[c] =< pub[c]
        /\ Ahead(u, del2)
    BY <1>3, <1>6, <2>5, <2>6, BeheadedSafe
  <2> QED BY <2>2, <2>3, <2>4, <2>7
<1>12. clock < TsMod => InOrder(q'.items, clock) /\ (Within(q.items, MaxSpan) => Within(q'.items, MaxSpan))
  BY <1>2, <1>6, <1>7, BeheadedInOrder
<1>13. Headers'
  BY <1>4, <1>11 DEF Headers
<1>14. Rest'
  <2>1. taken' \in Nat
    <3>1. PICK w \in {0, 1} : w = IF Essential(m) THEN 0 ELSE 1
      OBVIOUS
    <3> QED BY <1>3, <1>4, <3>1
  <2> QED BY <1>3, <1>4, <1>11, <2>1 DEF Rest
<1>15. Conservation'
  <2>1. published["video"] + published["audio"] = taken + Cardinality(MediaAt(q.items)) + q.drops
    BY <1>2, <1>8 DEF Conservation
  <2>2. PICK w \in {0, 1} : w = IF Essential(m) THEN 0 ELSE 1
    OBVIOUS
  <2>3. taken' = taken + w /\ Cardinality(MediaAt(q.items)) = Cardinality(MediaAt(q'.items)) + w
    BY <1>4, <1>6, <2>2
  <2>4. published["video"] + published["audio"] = taken' + Cardinality(MediaAt(q'.items)) + q.drops
    BY <1>3, <1>7, <2>1, <2>3
  <2> QED BY <1>4, <1>6, <2>4 DEF Conservation
<1>16. NoLostWakeup'
  BY <1>4 DEF NoLostWakeup
<1>17. Limits'
  <2>1. q'.videoItems > 0 => q.videoItems > 0
    BY <1>6, <1>7
  <2>2. MaxBytes \in Nat /\ MaxSpan \in Nat /\ HardBytes \in Nat /\ MaxItems \in Nat
    BY QueueLimits
  <2>3. q'.videoItems > 0 => q'.bytes =< MaxBytes
    BY <1>2, <1>6, <1>7, <2>1, <2>2 DEF Limits
  <2>4. q'.videoItems > 0 /\ clock < TsMod => SpanMillis(q'.items) =< MaxSpan
    <3> SUFFICES ASSUME q'.videoItems > 0, clock < TsMod PROVE SpanMillis(q'.items) =< MaxSpan
      OBVIOUS
    <3>1. SpanMillis(q.items) =< MaxSpan
      BY <1>2, <2>1 DEF Limits
    <3>2. Within(q.items, MaxSpan)
      BY <1>2, <1>7, <2>2, <3>1, SpanIs
    <3>3. InOrder(q'.items, clock) /\ Within(q'.items, MaxSpan)
      BY <1>12, <3>2
    <3> QED BY <1>7, <2>2, <3>3, SpanIs
  <2>5. OverHard(q') => \A i \in DOMAIN q'.items : Essential(q'.items[i])
    <3> SUFFICES ASSUME OverHard(q') PROVE \A i \in DOMAIN q'.items : Essential(q'.items[i])
      OBVIOUS
    <3>1. Len(q.items) \in Nat
      BY <1>7, LenProperties
    <3>2. Len(q'.items) > MaxItems \/ q'.bytes > HardBytes
      BY DEF OverHard
    <3>3. Len(q.items) > MaxItems \/ q.bytes > HardBytes
      BY <1>6, <1>7, <2>2, <3>1, <3>2
    <3>4. \A i \in DOMAIN q.items : Essential(q.items[i])
      BY <1>2, <3>3 DEF Limits, OverHard
    <3> QED BY <1>9, <3>4
  <2> QED BY <1>4, <1>6, <1>8, <2>3, <2>4, <2>5 DEF Limits
<1> QED BY <1>4, <1>6, <1>12, <1>13, <1>14, <1>15, <1>16, <1>17 DEF DequeInv

\* close keeps it: an empty deque has nothing to account for.
LEMMA DequeClose ==
  ASSUME DequeInv, CloseLocked
  PROVE  DequeInv'
<1>1. /\ Sound(q) /\ Rest /\ Limits /\ Conservation /\ NoLostWakeup /\ Headers
  BY DEF DequeInv
<1>2. q' = CloseQueue(q) /\ closing' = TRUE /\ UNCHANGED <<signal, popper, cancelled, historyVars>>
  BY DEF CloseLocked
<1>3. /\ signal' = signal /\ popper' = popper /\ cancelled' = cancelled /\ clock' = clock
      /\ published' = published /\ taken' = taken /\ delivered' = delivered
  BY <1>2 DEF historyVars
<1>4. q.drops \in Nat /\ q.dropping \in BOOLEAN
  BY <1>1, BooksOf
<1>5. <<>> \in Seq(Message) /\ Len(<<>>) = 0 /\ DOMAIN <<>> = {}
  BY EmptySeq
<1>6. /\ q' = [items |-> <<>>, bytes |-> 0, videoItems |-> 0, ess |-> [c \in Classes |-> 0],
               dropping |-> q.dropping, drops |-> q.drops, closed |-> TRUE]
  BY <1>2 DEF CloseQueue, EmptyQueue
<1>7. /\ q'.items = <<>> /\ q'.bytes = 0 /\ q'.videoItems = 0 /\ q'.ess = [c \in Classes |-> 0]
      /\ q'.closed = TRUE
  BY <1>6
<1>8. VideoAt(<<>>) = {} /\ \A c : At(<<>>, c) = {}
  BY <1>5 DEF VideoAt, At
<1>9. Sound(q')
  <2>1. q' \in QueueStates
    BY <1>4, <1>5, <1>6 DEF QueueStates
  <2>2. Indexed(q'.items, q'.ess)
    BY <1>7, <1>8 DEF Indexed
  <2>3. Size(<<>>, DOMAIN <<>>) = 0
    <3>1. {} \in SUBSET DOMAIN <<>>
      OBVIOUS
    <3>2. Size(<<>>, {}) = 0
      BY <1>5, <3>1, Weights
    <3> QED BY <1>5, <3>2
  <2>4. Cardinality(VideoAt(<<>>)) = 0
    BY <1>8, FS_EmptySet
  <2> QED BY <1>7, <2>1, <2>2, <2>3, <2>4 DEF Sound
<1>10. Rest'
  BY <1>1, <1>2, <1>3 DEF Rest
<1>11. Limits'
  <2>1. ~(Len(<<>>) > MaxItems) /\ ~(0 > HardBytes) /\ ~(0 > 0)
    BY <1>5, QueueLimits
  <2> QED BY <1>7, <2>1 DEF Limits, OverHard
<1>12. Conservation' /\ NoLostWakeup'
  BY <1>2, <1>7 DEF Conservation, NoLostWakeup
<1>13. Headers'
  <2>1. Ahead(<<>>, delivered)
    BY <1>5 DEF Ahead
  <2> QED BY <1>1, <1>3, <1>7, <2>1 DEF Headers
<1>14. InOrder(q'.items, clock')
  BY <1>5, <1>7 DEF InOrder
<1> QED BY <1>9, <1>10, <1>11, <1>12, <1>13, <1>14 DEF DequeInv

\* The waits and wake-ups of pop and close keep it.
LEMMA DequeWaits ==
  ASSUME DequeInv,
         \/ PopEnter \/ PopEmpty \/ PopWoken \/ PopCancelled \/ CloseWake \/ Cancel
         \/ UNCHANGED vars
  PROVE  DequeInv'
<1>1. /\ Sound(q) /\ Rest /\ Limits /\ Conservation /\ NoLostWakeup /\ Headers
      /\ clock < TsMod => InOrder(q.items, clock)
  BY DEF DequeInv
<1>2. q' = q /\ clock' = clock /\ published' = published /\ taken' = taken /\ delivered' = delivered
  <2>1. CASE PopEnter
    BY <2>1 DEF PopEnter, historyVars
  <2>2. CASE PopEmpty
    BY <2>2 DEF PopEmpty, historyVars
  <2>3. CASE PopWoken
    BY <2>3 DEF PopWoken, historyVars
  <2>4. CASE PopCancelled
    BY <2>4 DEF PopCancelled, historyVars
  <2>5. CASE CloseWake
    BY <2>5 DEF CloseWake, historyVars
  <2>6. CASE Cancel
    BY <2>6 DEF Cancel, historyVars
  <2>7. CASE UNCHANGED vars
    BY <2>7 DEF vars, queueVars, historyVars
  <2> QED BY <2>1, <2>2, <2>3, <2>4, <2>5, <2>6, <2>7
<1>3. /\ {signal', closing', cancelled'} \subseteq BOOLEAN
      /\ popper' \in {"out", "check", "wait", "gone"}
      /\ NoLostWakeup'
  <2>0. /\ {signal, closing, cancelled} \subseteq BOOLEAN
        /\ popper \in {"out", "check", "wait", "gone"}
    BY <1>1 DEF Rest
  <2>1. CASE PopEnter
    BY <2>0, <2>1 DEF PopEnter, NoLostWakeup
  <2>2. CASE PopEmpty
    BY <2>0, <2>2 DEF PopEmpty, NoLostWakeup
  <2>3. CASE PopWoken
    BY <2>0, <2>3 DEF PopWoken, NoLostWakeup
  <2>4. CASE PopCancelled
    BY <2>0, <2>4 DEF PopCancelled, NoLostWakeup
  <2>5. CASE CloseWake
    BY <2>0, <2>5 DEF CloseWake, NoLostWakeup
  <2>6. CASE Cancel
    BY <1>1, <2>0, <2>6 DEF Cancel, NoLostWakeup
  <2>7. CASE UNCHANGED vars
    BY <1>1, <2>0, <2>7 DEF vars, queueVars, historyVars, NoLostWakeup
  <2> QED BY <2>1, <2>2, <2>3, <2>4, <2>5, <2>6, <2>7
<1>4. Rest'
  BY <1>1, <1>2, <1>3 DEF Rest
<1>5. Limits' /\ Conservation' /\ Headers'
  BY <1>1, <1>2 DEF Limits, Conservation, Headers
<1> QED BY <1>1, <1>2, <1>3, <1>4, <1>5 DEF DequeInv

\* The invariant holds of every behaviour, whatever the limits, the messages and the order
\* of push, pop and close (queue.go).
THEOREM DequeInvariant == Spec => []DequeInv
<1>1. Init => DequeInv
  BY DequeInit
<1>2. DequeInv /\ [Next]_vars => DequeInv'
  <2> SUFFICES ASSUME DequeInv, [Next]_vars PROVE DequeInv'
    OBVIOUS
  <2>1. ASSUME NEW x \in Inputs, NEW d \in Steps, PublishOne(x, d) PROVE DequeInv'
    BY <2>1, DequePublish
  <2>2. CASE PopTake
    BY <2>2, DequeTake
  <2>3. CASE CloseLocked
    BY <2>3, DequeClose
  <2>4. CASE \/ PopEnter \/ PopEmpty \/ PopWoken \/ PopCancelled \/ CloseWake \/ Cancel
             \/ UNCHANGED vars
    BY <2>4, DequeWaits
  <2> QED BY <2>1, <2>2, <2>3, <2>4 DEF Next
<1> QED BY <1>1, <1>2, PTL DEF Spec

\* The counters and positions agree with the deque, its limits hold, every media message is
\* popped, queued or counted as dropped, and no popper sleeps through one, for limits,
\* messages and streams of every size (queue.go: push, pop, close).
THEOREM QueueKeepsAccounts == Spec => []QueueAccounts
<1>1. DequeInv => QueueAccounts
  BY DequeInvSays
<1> QED BY <1>1, DequeInvariant, PTL

\* However many messages are discarded and headers replaced, the newest metadata and
\* headers reach the sink or are queued for it, ahead of the frames encoded under them
\* (queue.go: replaceEssential, pop, the discard passes).
THEOREM QueueKeepsHeaders == Spec => []HeadersKept
<1>1. DequeInv => HeadersKept
  BY DequeInvSays
<1> QED BY <1>1, DequeInvariant, PTL

-----------------------------------------------------------------------------
\* The channel the queue implements.

\* The frames of the track v, as the channel numbers them.
Frames(v) == [k \in DOMAIN v |-> FrameOf(v[k])]
Framed    == [n : Nat, key : BOOLEAN]

\* The channel has one frame for each of the video messages.
LEMMA FramesOf ==
  ASSUME NEW v \in Seq(Message)
  PROVE  /\ Frames(v) \in Seq(Framed) /\ Len(Frames(v)) = Len(v)
         /\ \A k \in 1..Len(v) : Frames(v)[k] = FrameOf(v[k])
<1>1. Len(v) \in Nat /\ DOMAIN v = 1..Len(v) /\ \A k \in DOMAIN v : v[k] \in Message
  <2>1. {} \in SUBSET DOMAIN v
    OBVIOUS
  <2> QED BY <2>1, Positions
<1>2. Frames(v) = [k \in 1..Len(v) |-> FrameOf(v[k])]
  BY <1>1 DEF Frames
<1>3. \A k \in 1..Len(v) : FrameOf(v[k]) \in Framed
  BY <1>1 DEF FrameOf, Framed, Message
<1>4. Frames(v) \in [1..Len(v) -> Framed]
  BY <1>2, <1>3
<1>5. Frames(v) \in Seq(Framed)
  BY <1>1, <1>4, SeqDef
<1>6. DOMAIN Frames(v) = 1..Len(Frames(v)) /\ Len(Frames(v)) \in Nat
  BY <1>5, LenProperties
<1>7. DOMAIN Frames(v) = 1..Len(v)
  BY <1>4
<1>8. Len(Frames(v)) = Len(v)
  <2>1. PICK a \in Nat : a = Len(Frames(v))
    BY <1>6
  <2>2. PICK b \in Nat : b = Len(v)
    BY <1>1
  <2>3. 1..a = 1..b
    BY <1>6, <1>7, <2>1, <2>2
  <2>4. a = b
    BY <2>3
  <2> QED BY <2>1, <2>2, <2>4
<1> QED BY <1>2, <1>5, <1>8

\* The channel sees what the deque does to its video: none, one more, one less.
LEMMA FramesChange ==
  ASSUME NEW v \in Seq(Message)
  PROVE  /\ Len(v) = 0 => Frames(v) = <<>>
         /\ \A m \in Message : Frames(Append(v, m)) = Append(Frames(v), FrameOf(m))
         /\ v # <<>> => /\ Frames(v) # <<>> /\ Head(Frames(v)) = FrameOf(Head(v))
                        /\ Frames(Tail(v)) = Tail(Frames(v))
<1>1. PICK f : f = Frames(v)
  OBVIOUS
<1>2. f \in Seq(Framed) /\ Len(f) = Len(v) /\ (\A k \in 1..Len(v) : f[k] = FrameOf(v[k])) /\ Len(v) \in Nat
  BY <1>1, FramesOf, LenProperties
<1>3. Len(v) = 0 => f = <<>>
  BY <1>2, EmptySeq
<1>4. ASSUME NEW m \in Message PROVE Frames(Append(v, m)) = Append(f, FrameOf(m))
  <2>1. PICK u : u = Append(v, m)
    OBVIOUS
  <2>2. /\ u \in Seq(Message) /\ Len(u) = Len(v) + 1 /\ u[Len(v) + 1] = m
        /\ \A k \in 1..Len(v) : u[k] = v[k]
    BY <2>1, AppendProperties
  <2>3. PICK g : g = Frames(u)
    OBVIOUS
  <2>4. g \in Seq(Framed) /\ Len(g) = Len(v) + 1 /\ \A k \in 1..(Len(v) + 1) : g[k] = FrameOf(u[k])
    BY <2>2, <2>3, FramesOf
  <2>5. FrameOf(m) \in Framed
    BY DEF FrameOf, Framed, Message
  <2>6. PICK h : h = Append(f, FrameOf(m))
    OBVIOUS
  <2>7. /\ h \in Seq(Framed) /\ Len(h) = Len(v) + 1 /\ h[Len(v) + 1] = FrameOf(m)
        /\ \A k \in 1..Len(v) : h[k] = f[k]
    <3>1. /\ h \in Seq(Framed) /\ Len(h) = Len(f) + 1 /\ h[Len(f) + 1] = FrameOf(m)
          /\ \A k \in 1..Len(f) : h[k] = f[k]
      BY <1>2, <2>5, <2>6, AppendProperties
    <3> QED BY <1>2, <3>1
  <2>8. \A k \in 1..(Len(v) + 1) : g[k] = h[k]
    <3> SUFFICES ASSUME NEW k \in 1..(Len(v) + 1) PROVE g[k] = h[k]
      OBVIOUS
    <3>1. CASE k = Len(v) + 1
      BY <2>2, <2>4, <2>7, <3>1
    <3>2. CASE k # Len(v) + 1
      <4>1. k \in 1..Len(v)
        BY <1>2, <3>2
      <4> QED BY <1>2, <2>2, <2>4, <2>7, <4>1
    <3> QED BY <3>1, <3>2
  <2>9. g = h
    BY <2>4, <2>7, <2>8, SeqEqual
  <2> QED BY <2>1, <2>3, <2>6, <2>9
<1>5. ASSUME v # <<>> PROVE f # <<>> /\ Head(f) = FrameOf(Head(v)) /\ Frames(Tail(v)) = Tail(f)
  <2>1. Len(v) # 0
    BY <1>5, EmptySeq
  <2>2. f # <<>>
    BY <1>2, <2>1, EmptySeq
  <2>3. Head(v) = v[1] /\ Head(f) = f[1] /\ 1 \in 1..Len(v)
    BY <1>2, <1>5, <2>1, <2>2, HeadTailProperties
  <2>4. PICK u : u = Tail(v)
    OBVIOUS
  <2>5. PICK h : h = Tail(f)
    OBVIOUS
  <2>6. u \in Seq(Message) /\ Len(u) = Len(v) - 1 /\ \A k \in 1..Len(u) : u[k] = v[k + 1]
    BY <1>5, <2>4, HeadTailProperties
  <2>7. h \in Seq(Framed) /\ Len(h) = Len(f) - 1 /\ \A k \in 1..Len(h) : h[k] = f[k + 1]
    BY <1>2, <2>2, <2>5, HeadTailProperties
  <2>8. PICK g : g = Frames(u)
    OBVIOUS
  <2>9. g \in Seq(Framed) /\ Len(g) = Len(u) /\ \A k \in 1..Len(u) : g[k] = FrameOf(u[k])
    BY <2>6, <2>8, FramesOf
  <2>10. \A k \in 1..Len(g) : g[k] = h[k]
    <3> SUFFICES ASSUME NEW k \in 1..Len(g) PROVE g[k] = h[k]
      OBVIOUS
    <3>1. k \in 1..Len(u) /\ k \in 1..Len(h) /\ k + 1 \in 1..Len(v)
      BY <1>2, <2>6, <2>7, <2>9
    <3> QED BY <1>2, <2>6, <2>7, <2>9, <3>1
  <2>11. g = h
    <3>1. Len(g) = Len(h)
      BY <1>2, <2>6, <2>7, <2>9
    <3> QED BY <2>7, <2>9, <2>10, <3>1, SeqEqual
  <2> QED BY <1>2, <2>2, <2>3, <2>4, <2>5, <2>8, <2>11
<1> QED BY <1>1, <1>3, <1>4, <1>5

\* The empty deque is the empty channel.
LEMMA GopInit ==
  ASSUME Init
  PROVE  Abstract!Init
<1>1. DequeInv
  BY DequeInit
<1>2. q.items = <<>> /\ q.dropping = FALSE /\ q.closed = FALSE /\ q.videoItems = 0
  BY DEF Init, EmptyQueue
<1>3. Frames(VideoOf(q.items)) = <<>>
  <2>1. VideoOf(q.items) \in Seq(Message) /\ Len(VideoOf(q.items)) = 0
    BY <1>1, <1>2, Tracks DEF DequeInv
  <2> QED BY <2>1, FramesChange
<1>4. [k \in DOMAIN Video |-> FrameOf(Video[k])] = Frames(VideoOf(q.items))
  BY DEF Video, VideoOf, Frames
<1>5. published["video"] = 0 /\ lastFrame = [n |-> 0, key |-> FALSE]
  BY DEF Init, Streams
<1> QED BY <1>2, <1>3, <1>4, <1>5 DEF Abstract!Init, Abstract!NoFrame

\* push of a frame is one the channel accepts, discards or accepts and then cuts; push of
\* anything else may only discard what the channel has.
LEMMA GopPublish ==
  ASSUME DequeInv, NEW x \in Inputs, NEW d \in Steps, PublishOne(x, d)
  PROVE  Abstract!Next \/ UNCHANGED Abstract!chan
<1>1. PICK t : t = clock + d
  OBVIOUS
<1>2. PICK m : m = Stamp(x, t)
  OBVIOUS
<1>3. Sound(q) /\ Rest
  BY DEF DequeInv
<1>4. t \in Nat
  <2>1. d \in Nat /\ clock \in Nat
    BY <1>3, PublisherBounds DEF Rest
  <2> QED BY <1>1, <2>1
<1>5. /\ m \in Message /\ StreamOf(x) \in Streams
      /\ DroppableVideo(m) <=> StreamOf(x) = "video"
      /\ DroppableVideo(m) => m.key = x.key /\ m.n = published["video"] + 1
      /\ x.key \in BOOLEAN
  BY <1>2, <1>3, <1>4, Stamped
<1>6. /\ published' = [published EXCEPT ![StreamOf(x)] = @ + 1]
      /\ q' = Push(q, m) /\ lastFrame' = lastFrame
  BY <1>1, <1>2 DEF PublishOne
<1>7. published'["video"] = IF DroppableVideo(m) THEN published["video"] + 1 ELSE published["video"]
  <2>1. published \in [Streams -> Nat] /\ "video" \in Streams
    BY <1>3 DEF Rest, Streams
  <2> QED BY <1>5, <1>6, <2>1
<1>8. PICK p : p = Frames(VideoOf(q.items))
  OBVIOUS
<1>9. PICK pp : pp = Frames(VideoOf(q'.items))
  OBVIOUS
<1>10. /\ [k \in DOMAIN Video |-> FrameOf(Video[k])] = p
       /\ [k \in DOMAIN Video |-> FrameOf(Video[k])]' = pp
  BY <1>8, <1>9 DEF Video, VideoOf, Frames
<1>11. q.dropping \in BOOLEAN /\ q.closed \in BOOLEAN
  BY <1>3, BooksOf
<1>12. CASE q.closed
  <2>1. q' = q
    BY <1>6, <1>12 DEF Push
  <2>2. pp = p
    BY <1>8, <1>9, <2>1
  <2>3. CASE DroppableVideo(m)
    <3>1. Abstract!Refuse(x.key)
      BY <1>6, <1>7, <1>10, <1>12, <2>1, <2>2, <2>3 DEF Abstract!Refuse
    <3> QED BY <1>5, <3>1 DEF Abstract!Next
  <2>4. CASE ~DroppableVideo(m)
    BY <1>6, <1>7, <1>10, <2>1, <2>2, <2>4 DEF Abstract!chan
  <2> QED BY <2>3, <2>4
<1>13. CASE ~q.closed /\ Refuses(q, m)
  <2>1. q' = [q EXCEPT !.drops = q.drops + 1]
    BY <1>6, <1>13 DEF Push
  <2>2. q'.items = q.items /\ q'.closed = q.closed /\ q'.dropping = q.dropping
    <3>1. q = [items |-> q.items, bytes |-> q.bytes, videoItems |-> q.videoItems, ess |-> q.ess,
               dropping |-> q.dropping, drops |-> q.drops, closed |-> q.closed]
      BY <1>3, BooksOf
    <3>2. q' = [items |-> q.items, bytes |-> q.bytes, videoItems |-> q.videoItems, ess |-> q.ess,
                dropping |-> q.dropping, drops |-> q.drops + 1, closed |-> q.closed]
      BY <2>1, <3>1
    <3> QED BY <3>2
  <2>3. pp = p
    BY <1>8, <1>9, <2>2
  <2>4. DroppableVideo(m) /\ q.dropping /\ ~m.key
    BY <1>13 DEF Refuses
  <2>5. Abstract!Refuse(x.key)
    BY <1>5, <1>6, <1>7, <1>10, <2>2, <2>3, <2>4 DEF Abstract!Refuse
  <2> QED BY <1>5, <2>5 DEF Abstract!Next
<1>14. CASE ~q.closed /\ ~Refuses(q, m)
  <2>1. PICK e : Accepts(q, m, e, q')
    BY <1>3, <1>5, <1>6, <1>14, Pushed
  <2>2. /\ Sound(e) /\ ~e.closed /\ Thins(e, q')
        /\ e.dropping = (q.dropping /\ ~DroppableVideo(m))
        /\ VideoOf(e.items) = IF DroppableVideo(m) THEN Append(VideoOf(q.items), m)
                                                   ELSE VideoOf(q.items)
    BY <2>1 DEF Accepts
  <2>3. /\ Sound(q') /\ q'.closed = e.closed
        /\ \/ q'.videoItems = 0 /\ q'.dropping
           \/ q'.dropping = e.dropping /\ VideoOf(q'.items) = VideoOf(e.items)
    BY <2>2 DEF Thins
  <2>4. e.closed \in BOOLEAN
    BY <2>2, BooksOf
  <2>5. ~q'.closed /\ q'.closed = q.closed
    BY <1>11, <1>14, <2>2, <2>3, <2>4
  <2>6. DroppableVideo(m) => ~q.dropping \/ x.key
    BY <1>5, <1>14 DEF Refuses
  <2>7. VideoOf(q.items) \in Seq(Message)
    BY <1>3, Tracks
  <2>8. CASE q'.videoItems = 0 /\ q'.dropping
    <3>1. pp = <<>>
      <4>1. VideoOf(q'.items) \in Seq(Message) /\ Len(VideoOf(q'.items)) = 0
        BY <2>3, <2>8, Tracks
      <4> QED BY <1>9, <4>1, FramesChange
    <3>2. (~q.dropping)' = FALSE
      BY <2>8
    <3>3. CASE DroppableVideo(m)
      <4>1. Abstract!Overflow(x.key)
        BY <1>6, <1>7, <1>10, <1>14, <2>5, <2>6, <3>1, <3>2, <3>3 DEF Abstract!Overflow
      <4> QED BY <1>5, <4>1 DEF Abstract!Next
    <3>4. CASE ~DroppableVideo(m)
      <4>1. Abstract!Lose
        BY <1>6, <1>7, <1>10, <1>14, <2>5, <3>1, <3>2, <3>4 DEF Abstract!Lose
      <4> QED BY <4>1 DEF Abstract!Next
    <3> QED BY <3>3, <3>4
  <2>9. CASE q'.dropping = e.dropping /\ VideoOf(q'.items) = VideoOf(e.items)
    <3>1. CASE DroppableVideo(m)
      <4>1. (~q.dropping)' = TRUE
        BY <2>2, <2>9, <3>1
      <4>2. pp = Append(p, FrameOf(m))
        BY <1>5, <1>8, <1>9, <2>2, <2>7, <2>9, <3>1, FramesChange
      <4>3. FrameOf(m) = Abstract!NextFrame(x.key)
        BY <1>5, <3>1 DEF FrameOf, Abstract!NextFrame
      <4>4. Abstract!Accept(x.key)
        BY <1>6, <1>7, <1>10, <1>14, <2>5, <2>6, <3>1, <4>1, <4>2, <4>3 DEF Abstract!Accept
      <4> QED BY <1>5, <4>4 DEF Abstract!Next
    <3>2. CASE ~DroppableVideo(m)
      <4>1. q'.dropping = q.dropping
        BY <1>11, <2>2, <2>9, <3>2
      <4>2. pp = p
        BY <1>8, <1>9, <2>2, <2>9, <3>2
      <4> QED BY <1>6, <1>7, <1>10, <2>5, <3>2, <4>1, <4>2 DEF Abstract!chan
    <3> QED BY <3>1, <3>2
  <2> QED BY <2>3, <2>8, <2>9
<1> QED BY <1>12, <1>13, <1>14

\* pop of a frame is the channel handing it to the decoder; pop of anything else it does
\* not see.
LEMMA GopTake ==
  ASSUME DequeInv, PopTake
  PROVE  Abstract!Next \/ UNCHANGED Abstract!chan
<1>1. PICK m : m = Head(q.items)
  OBVIOUS
<1>2. Sound(q)
  BY DEF DequeInv
<1>3. /\ q.items # <<>> /\ q' = PopRest(q) /\ published' = published
      /\ lastFrame' = IF DroppableVideo(m) THEN [n |-> m.n, key |-> m.key] ELSE lastFrame
  BY <1>1 DEF PopTake
<1>4. Loses(q, m, q')
  BY <1>1, <1>2, <1>3, Popped
<1>5. /\ q'.closed = q.closed /\ q'.dropping = q.dropping
      /\ IF DroppableVideo(m)
         THEN /\ VideoOf(q.items) # <<>> /\ Head(VideoOf(q.items)) = m
              /\ VideoOf(q'.items) = Tail(VideoOf(q.items))
         ELSE VideoOf(q'.items) = VideoOf(q.items)
  BY <1>4 DEF Loses
<1>6. PICK p : p = Frames(VideoOf(q.items))
  OBVIOUS
<1>7. PICK pp : pp = Frames(VideoOf(q'.items))
  OBVIOUS
<1>8. /\ [k \in DOMAIN Video |-> FrameOf(Video[k])] = p
      /\ [k \in DOMAIN Video |-> FrameOf(Video[k])]' = pp
  BY <1>6, <1>7 DEF Video, VideoOf, Frames
<1>9. VideoOf(q.items) \in Seq(Message)
  BY <1>2, Tracks
<1>10. CASE DroppableVideo(m)
  <2>1. p # <<>> /\ Head(p) = FrameOf(m) /\ pp = Tail(p)
    BY <1>5, <1>6, <1>7, <1>9, <1>10, FramesChange
  <2>2. lastFrame' = FrameOf(m)
    BY <1>3, <1>10 DEF FrameOf
  <2>3. Abstract!Take
    BY <1>3, <1>5, <1>8, <2>1, <2>2 DEF Abstract!Take
  <2> QED BY <2>3 DEF Abstract!Next
<1>11. CASE ~DroppableVideo(m)
  <2>1. pp = p /\ lastFrame' = lastFrame
    BY <1>3, <1>5, <1>6, <1>7, <1>11
  <2> QED BY <1>3, <1>5, <1>8, <2>1 DEF Abstract!chan
<1> QED BY <1>10, <1>11

\* close, that discards the deque, is the close of the channel.
LEMMA GopClose ==
  ASSUME DequeInv, CloseLocked
  PROVE  Abstract!Next
<1>1. ~q.closed /\ published' = published /\ lastFrame' = lastFrame
  BY DEF CloseLocked, historyVars
<1>2. q' = [items |-> <<>>, bytes |-> 0, videoItems |-> 0, ess |-> [c \in Classes |-> 0],
            dropping |-> q.dropping, drops |-> q.drops, closed |-> TRUE]
  BY DEF CloseLocked, CloseQueue, EmptyQueue
<1>3. q'.dropping = q.dropping /\ q'.closed = TRUE /\ q'.videoItems = 0
  BY <1>2
<1>4. Sound(q')
  BY DequeClose DEF DequeInv
<1>5. Frames(VideoOf(q'.items)) = <<>>
  <2>1. VideoOf(q'.items) \in Seq(Message) /\ Len(VideoOf(q'.items)) = 0
    BY <1>3, <1>4, Tracks
  <2> QED BY <2>1, FramesChange
<1>6. [k \in DOMAIN Video |-> FrameOf(Video[k])]' = <<>>
  BY <1>5 DEF Video, VideoOf, Frames
<1>7. Abstract!Close
  BY <1>1, <1>3, <1>6 DEF Abstract!Close
<1> QED BY <1>7 DEF Abstract!Next

\* The waits, the wake-ups and the end of pop's context are no matter of the channel.
LEMMA GopWaits ==
  ASSUME \/ PopEnter \/ PopEmpty \/ PopWoken \/ PopCancelled \/ CloseWake \/ Cancel
         \/ UNCHANGED vars
  PROVE  UNCHANGED Abstract!chan
<1>1. q' = q /\ published' = published /\ lastFrame' = lastFrame
  <2>1. CASE PopEnter
    BY <2>1 DEF PopEnter, historyVars
  <2>2. CASE PopEmpty
    BY <2>2 DEF PopEmpty, historyVars
  <2>3. CASE PopWoken
    BY <2>3 DEF PopWoken, historyVars
  <2>4. CASE PopCancelled
    BY <2>4 DEF PopCancelled, historyVars
  <2>5. CASE CloseWake
    BY <2>5 DEF CloseWake, historyVars
  <2>6. CASE Cancel
    BY <2>6 DEF Cancel, historyVars
  <2>7. CASE UNCHANGED vars
    BY <2>7 DEF vars, queueVars, historyVars
  <2> QED BY <2>1, <2>2, <2>3, <2>4, <2>5, <2>6, <2>7
<1>2. [k \in DOMAIN Video |-> FrameOf(Video[k])]' = [k \in DOMAIN Video |-> FrameOf(Video[k])]
  BY <1>1 DEF Video
<1> QED BY <1>1, <1>2 DEF Abstract!chan

\* The queue of the code implements the channel of GopChannel: every push, pop and close is
\* a step of it or leaves it alone, so that what the sink pops is a decodable track
\* (queue.go; GopChannelProofs proves it of the channel).
THEOREM QueueKeepsPromise == Spec => GopPromise
<1>1. Init => Abstract!Init
  BY GopInit
<1>2. DequeInv /\ [Next]_vars => [Abstract!Next]_Abstract!chan
  <2> SUFFICES ASSUME DequeInv, [Next]_vars PROVE Abstract!Next \/ UNCHANGED Abstract!chan
    OBVIOUS
  <2>1. ASSUME NEW x \in Inputs, NEW d \in Steps, PublishOne(x, d)
        PROVE  Abstract!Next \/ UNCHANGED Abstract!chan
    BY <2>1, GopPublish
  <2>2. CASE PopTake
    BY <2>2, GopTake
  <2>3. CASE CloseLocked
    BY <2>3, GopClose
  <2>4. CASE \/ PopEnter \/ PopEmpty \/ PopWoken \/ PopCancelled \/ CloseWake \/ Cancel
             \/ UNCHANGED vars
    BY <2>4, GopWaits
  <2> QED BY <2>1, <2>2, <2>3, <2>4 DEF Next
<1>3. QED
  BY <1>1, <1>2, DequeInvariant, PTL DEF Spec, GopPromise, Abstract!Spec
=============================================================================
