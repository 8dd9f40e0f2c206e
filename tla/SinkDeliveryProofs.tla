------------------------- MODULE SinkDeliveryProofs -------------------------
(***************************************************************************)
(* What a destination receives, for every value of the limits, of the      *)
(* messages and of the number of connections: TrackInv, the inductive      *)
(* invariant that joins the decoder, what the sink holds and the queue     *)
(* into one track, and HeaderInv, that of the headers, when these carry    *)
(* their time.                                                             *)
(***************************************************************************)
EXTENDS SinkDelivery, QueueFacts

\* How many headers and frames have been pushed: what was observed but for what is in
\* flight.
HeadersIn == published["videoSeq"] - (IF EssentialClass(inflight) = "videoSeq" THEN 1 ELSE 0)
FramesIn  == published["video"] - (IF DroppableVideo(inflight) THEN 1 ELSE 0)

\* The frame before the first of the queue, as the connection sees it: 0 when nothing
\* depends on it.
LastFrame == IF DroppableVideo(held) THEN held.n
             ELSE IF up /\ tb.armed THEN wire.frame.n ELSE 0

\* The header the frames behind what is held will find at the destination.
Known == IF EssentialClass(held) = "videoSeq" THEN held.n ELSE wire.essentials["videoSeq"]

\* The video v of a queue that is behind frame p (0 for none) of a stream of f frames, d
\* when it is being dropped: rising numbers, which are the timestamps, each frame a
\* keyframe or next to the one before, up to the last one published.
Track(v, p, d, f) ==
  /\ p =< f
  /\ \A k \in DOMAIN v : v[k].ts = v[k].n /\ p < v[k].n /\ v[k].n =< f
  /\ \A k, l \in DOMAIN v : k < l => v[k].n < v[l].n
  /\ \A k \in DOMAIN v : k + 1 \in DOMAIN v => v[k + 1].key \/ v[k + 1].n = v[k].n + 1
  /\ v # <<>> /\ p # 0 => v[1].key \/ v[1].n = p + 1
  /\ ~d => IF v = <<>> THEN p \in {0, f} ELSE v[Len(v)].n = f

\* In the deque s: the header is the v-th, no frame was encoded under a later one, and
\* headers are no older than the frames before them.
Clean(s, v, now) ==
  /\ \A i \in DOMAIN s : EssentialClass(s[i]) = "videoSeq" => s[i].n = v
  /\ \A i \in DOMAIN s : DroppableVideo(s[i]) => s[i].header =< v /\ s[i].ts =< now
  /\ \A i, j \in DOMAIN s :
       i < j /\ DroppableVideo(s[i]) /\ EssentialClass(s[j]) = "videoSeq" => s[i].ts =< s[j].ts

\* No header of s is older than the time b.
After(s, b) == \A i \in DOMAIN s : EssentialClass(s[i]) = "videoSeq" => b =< s[i].ts

\* Who knows the e-th header can follow s, where the newest is the v-th: what it does
\* not know comes before the frames that need it.
Ready(s, v, e) ==
  /\ v =< e \/ \E i \in DOMAIN s : EssentialClass(s[i]) = "videoSeq"
  /\ \A i \in DOMAIN s : DroppableVideo(s[i]) =>
       \/ s[i].header =< e
       \/ \E j \in DOMAIN s : j < i /\ EssentialClass(s[j]) = "videoSeq" /\ s[i].header =< s[j].n

WireTypes ==
  /\ Sound(q) /\ ~q.closed
  /\ published \in [Streams -> Nat] /\ pre \in [Classes -> Nat]
  /\ \A c \in Classes : pre[c] = published[c]
  /\ inflight \in Message \cup {None} /\ held \in Message \cup {None}
  /\ up \in BOOLEAN /\ (held # None => up)
  /\ tb.armed \in BOOLEAN /\ tb.base \in Nat
  /\ wire = [frame |-> wire.frame, ts |-> wire.ts, essentials |-> wire.essentials]
  /\ wire.frame \in [n : Nat, key : BOOLEAN, header : Nat]
  /\ wire.essentials \in [Classes -> Nat]

\* The inductive invariant of the video: from the decoder through what is held to the
\* publisher it is one track.
TrackInv ==
  /\ WireTypes
  /\ Track(VideoOf(q.items), LastFrame, q.dropping, FramesIn)
  /\ DroppableVideo(inflight) => inflight.n = published["video"] /\ inflight.ts = inflight.n
  /\ DroppableVideo(held) => held.ts = held.n /\ 0 < held.n
  /\ up /\ tb.armed => 0 < wire.frame.n /\ tb.base =< wire.frame.n
  /\ up /\ tb.armed /\ DroppableVideo(held) =>
       wire.frame.n < held.n /\ (held.key \/ held.n = wire.frame.n + 1)

\* The inductive invariant of the headers, when they carry their time.
HeaderInv ==
  /\ Clean(q.items, HeadersIn, Clock)
  /\ EssentialClass(inflight) = "videoSeq" => inflight.n = published["videoSeq"] /\ inflight.ts = Clock
  /\ DroppableVideo(inflight) => inflight.header =< HeadersIn
  /\ wire.frame.header =< wire.essentials["videoSeq"] /\ wire.frame.header =< HeadersIn
  /\ EssentialClass(held) = "videoSeq" => /\ wire.frame.header =< held.n /\ held.n =< HeadersIn
                                          /\ up /\ tb.armed => tb.base =< held.ts
  /\ DroppableVideo(held) => /\ held.header =< HeadersIn /\ After(q.items, held.ts)
                             /\ held.ts =< Clock
  /\ up /\ tb.armed => /\ Ready(q.items, HeadersIn, Known) /\ After(q.items, tb.base)
                       /\ tb.base =< Clock
                       /\ DroppableVideo(held) => held.header =< Known

-----------------------------------------------------------------------------
\* The track of the queue, through what a push and a pop do to it.

\* The next frame goes behind the others, and while they are being dropped only a
\* keyframe does.
LEMMA TrackMore ==
  ASSUME NEW v \in Seq(Message), NEW p \in Nat, NEW d \in BOOLEAN, NEW f \in Nat, Track(v, p, d, f),
         NEW m \in Message, m.n = f + 1, m.ts = m.n, d => m.key,
         NEW w, w = Append(v, m)
  PROVE  Track(w, p, FALSE, f + 1)
<1>1. /\ p =< f
      /\ \A k \in DOMAIN v : v[k].ts = v[k].n /\ p < v[k].n /\ v[k].n =< f
      /\ \A k, l \in DOMAIN v : k < l => v[k].n < v[l].n
      /\ \A k \in DOMAIN v : k + 1 \in DOMAIN v => v[k + 1].key \/ v[k + 1].n = v[k].n + 1
      /\ v # <<>> /\ p # 0 => v[1].key \/ v[1].n = p + 1
      /\ ~d => IF v = <<>> THEN p \in {0, f} ELSE v[Len(v)].n = f
  BY DEF Track
<1>2. PICK n \in Nat : n = Len(v)
  BY LenProperties
<1>3. /\ w \in Seq(Message) /\ Len(w) = n + 1 /\ w[n + 1] = m
      /\ \A k \in 1..n : w[k] = v[k]
  BY <1>2, AppendProperties
<1>4. DOMAIN v = 1..n /\ DOMAIN w = 1..(n + 1) /\ (v = <<>> <=> n = 0)
  BY <1>2, <1>3, LenProperties, EmptySeq
<1>5. \A k \in 1..n : v[k].n \in Nat /\ v[k].n < f + 1
  <2>1. \A k \in 1..n : v[k] \in Message
    BY <1>2, ElementOfSeq
  <2>2. \A k \in 1..n : v[k].n \in Nat
    BY <2>1 DEF Message
  <2>3. \A k \in 1..n : v[k].n =< f
    BY <1>1, <1>4
  <2> QED BY <2>2, <2>3
<1>6. \A k \in 1..(n + 1) : w[k].ts = w[k].n /\ p < w[k].n /\ w[k].n =< f + 1
  <2> SUFFICES ASSUME NEW k \in 1..(n + 1)
               PROVE w[k].ts = w[k].n /\ p < w[k].n /\ w[k].n =< f + 1
    OBVIOUS
  <2>1. CASE k = n + 1
    BY <1>1, <1>3, <2>1
  <2>2. CASE k # n + 1
    <3>1. k \in 1..n
      BY <2>2
    <3> QED BY <1>1, <1>3, <1>4, <1>5, <3>1
  <2> QED BY <2>1, <2>2
<1>7. \A k, l \in 1..(n + 1) : k < l => w[k].n < w[l].n
  <2> SUFFICES ASSUME NEW k \in 1..(n + 1), NEW l \in 1..(n + 1), k < l PROVE w[k].n < w[l].n
    OBVIOUS
  <2>1. k \in 1..n /\ w[k] = v[k]
    BY <1>3
  <2>2. CASE l = n + 1
    BY <1>3, <1>5, <2>1, <2>2
  <2>3. CASE l # n + 1
    <3>1. l \in 1..n /\ w[l] = v[l]
      BY <1>3, <2>3
    <3> QED BY <1>1, <1>4, <2>1, <3>1
  <2> QED BY <2>2, <2>3
<1>8. \A k \in 1..(n + 1) : k + 1 \in 1..(n + 1) => w[k + 1].key \/ w[k + 1].n = w[k].n + 1
  <2> SUFFICES ASSUME NEW k \in 1..(n + 1), k + 1 \in 1..(n + 1)
               PROVE w[k + 1].key \/ w[k + 1].n = w[k].n + 1
    OBVIOUS
  <2>1. k \in 1..n /\ w[k] = v[k]
    BY <1>3
  <2>2. CASE k = n
    <3>1. n # 0 /\ w[k + 1] = m
      BY <1>3, <2>1, <2>2
    <3>2. ~d => v[n].n = f
      BY <1>1, <1>2, <1>4, <3>1
    <3>3. CASE d
      BY <3>1, <3>3
    <3>4. CASE ~d
      <4>1. w[k].n = f /\ w[k + 1].n = f + 1
        BY <2>1, <2>2, <3>1, <3>2, <3>4
      <4> QED BY <4>1
    <3> QED BY <3>3, <3>4
  <2>3. CASE k # n
    <3>1. k + 1 \in 1..n /\ w[k + 1] = v[k + 1]
      BY <1>3, <2>1, <2>3
    <3> QED BY <1>1, <1>4, <2>1, <3>1
  <2> QED BY <2>2, <2>3
<1>9. p # 0 => w[1].key \/ w[1].n = p + 1
  <2>1. CASE n = 0
    BY <1>1, <1>3, <1>4, <2>1
  <2>2. CASE n # 0
    <3>1. 1 \in 1..n
      BY <2>2
    <3> QED BY <1>1, <1>3, <1>4, <3>1
  <2> QED BY <2>1, <2>2
<1>10. w # <<>> /\ w[Len(w)].n = f + 1 /\ p =< f + 1
  BY <1>1, <1>3, EmptySeq
<1> QED BY <1>4, <1>6, <1>7, <1>8, <1>9, <1>10 DEF Track

\* All of it may be lost; one may be refused while it is dropped; and a connection that is
\* over, or that has not begun, depends on no frame.
LEMMA TrackLess ==
  ASSUME NEW v \in Seq(Message), NEW p \in Nat, NEW d \in BOOLEAN, NEW f \in Nat, Track(v, p, d, f)
  PROVE  /\ Track(<<>>, p, TRUE, f) /\ Track(<<>>, p, TRUE, f + 1)
         /\ d => Track(v, p, d, f + 1)
         /\ Track(v, 0, d, f)
<1>1. /\ p =< f
      /\ \A k \in DOMAIN v : v[k].ts = v[k].n /\ p < v[k].n /\ v[k].n =< f
      /\ \A k, l \in DOMAIN v : k < l => v[k].n < v[l].n
      /\ \A k \in DOMAIN v : k + 1 \in DOMAIN v => v[k + 1].key \/ v[k + 1].n = v[k].n + 1
      /\ v # <<>> /\ p # 0 => v[1].key \/ v[1].n = p + 1
      /\ ~d => IF v = <<>> THEN p \in {0, f} ELSE v[Len(v)].n = f
  BY DEF Track
<1>2. \A k \in DOMAIN v : v[k].n \in Nat
  <2>1. \A k \in DOMAIN v : v[k] \in Message
    BY Typed
  <2> QED BY <2>1 DEF Message
<1>3. p =< f + 1 /\ 0 =< f
  BY <1>1
<1>4. Track(<<>>, p, TRUE, f) /\ Track(<<>>, p, TRUE, f + 1)
  BY <1>1, <1>3 DEF Track
<1>5. d => Track(v, p, d, f + 1)
  <2> SUFFICES ASSUME d PROVE Track(v, p, TRUE, f + 1)
    OBVIOUS
  <2>1. \A k \in DOMAIN v : v[k].ts = v[k].n /\ p < v[k].n /\ v[k].n =< f + 1
    BY <1>1, <1>2
  <2> QED BY <1>1, <1>3, <2>1 DEF Track
<1>6. Track(v, 0, d, f)
  <2>1. \A k \in DOMAIN v : v[k].ts = v[k].n /\ 0 < v[k].n /\ v[k].n =< f
    BY <1>1, <1>2
  <2>2. ~d => IF v = <<>> THEN 0 \in {0, f} ELSE v[Len(v)].n = f
    BY <1>1
  <2> QED BY <1>1, <1>3, <2>1, <2>2 DEF Track
<1> QED BY <1>4, <1>5, <1>6

\* The first frame is the next of the connection, and the others follow it.
LEMMA TrackTaken ==
  ASSUME NEW v \in Seq(Message), NEW p \in Nat, NEW d \in BOOLEAN, NEW f \in Nat, Track(v, p, d, f),
         v # <<>>, NEW m, m = Head(v), NEW w, w = Tail(v)
  PROVE  /\ Track(w, m.n, d, f) /\ m.n \in Nat
         /\ m.ts = m.n /\ p < m.n /\ (p # 0 => m.key \/ m.n = p + 1)
<1>1. /\ p =< f
      /\ \A k \in DOMAIN v : v[k].ts = v[k].n /\ p < v[k].n /\ v[k].n =< f
      /\ \A k, l \in DOMAIN v : k < l => v[k].n < v[l].n
      /\ \A k \in DOMAIN v : k + 1 \in DOMAIN v => v[k + 1].key \/ v[k + 1].n = v[k].n + 1
      /\ p # 0 => v[1].key \/ v[1].n = p + 1
      /\ ~d => v[Len(v)].n = f
  BY DEF Track
<1>2. PICK n \in Nat : n = Len(v)
  BY LenProperties
<1>3. /\ m = v[1] /\ w \in Seq(Message) /\ Len(w) = n - 1 /\ \A k \in 1..(n - 1) : w[k] = v[k + 1]
      /\ n # 0 /\ n - 1 \in Nat
  <2>1. n # 0
    BY <1>2, EmptySeq
  <2>2. m = v[1] /\ w \in Seq(Message) /\ Len(w) = Len(v) - 1 /\ \A k \in 1..Len(w) : w[k] = v[k + 1]
    BY HeadTailProperties
  <2> QED BY <1>2, <2>1, <2>2
<1>4. DOMAIN v = 1..n /\ DOMAIN w = 1..(n - 1) /\ (w = <<>> <=> n - 1 = 0) /\ 1 \in 1..n
  BY <1>2, <1>3, LenProperties, EmptySeq
<1>5. \A k \in 1..n : v[k].n \in Nat
  <2>1. \A k \in DOMAIN v : v[k] \in Message
    BY Typed
  <2> QED BY <1>4, <2>1 DEF Message
<1>6. m.n \in Nat /\ m.n =< f /\ m.ts = m.n /\ p < m.n /\ (p # 0 => m.key \/ m.n = p + 1)
  BY <1>1, <1>3, <1>4, <1>5
<1>7. \A k \in 1..(n - 1) : w[k].ts = w[k].n /\ m.n < w[k].n /\ w[k].n =< f
  <2> SUFFICES ASSUME NEW k \in 1..(n - 1) PROVE w[k].ts = w[k].n /\ m.n < w[k].n /\ w[k].n =< f
    OBVIOUS
  <2>1. k + 1 \in 1..n /\ 1 < k + 1 /\ w[k] = v[k + 1]
    BY <1>3
  <2> QED BY <1>1, <1>3, <1>4, <2>1
<1>8. \A k, l \in 1..(n - 1) : k < l => w[k].n < w[l].n
  <2> SUFFICES ASSUME NEW k \in 1..(n - 1), NEW l \in 1..(n - 1), k < l PROVE w[k].n < w[l].n
    OBVIOUS
  <2>1. k + 1 \in 1..n /\ l + 1 \in 1..n /\ k + 1 < l + 1 /\ w[k] = v[k + 1] /\ w[l] = v[l + 1]
    BY <1>3
  <2> QED BY <1>1, <1>4, <2>1
<1>9. \A k \in 1..(n - 1) : k + 1 \in 1..(n - 1) => w[k + 1].key \/ w[k + 1].n = w[k].n + 1
  <2> SUFFICES ASSUME NEW k \in 1..(n - 1), k + 1 \in 1..(n - 1)
               PROVE w[k + 1].key \/ w[k + 1].n = w[k].n + 1
    OBVIOUS
  <2>1. PICK l : l = k + 1
    OBVIOUS
  <2>2. l \in 1..n /\ l + 1 \in 1..n /\ w[k] = v[l] /\ w[l] = v[l + 1]
    BY <1>3, <2>1
  <2>3. v[l + 1].key \/ v[l + 1].n = v[l].n + 1
    BY <1>1, <1>4, <2>2
  <2> QED BY <2>1, <2>2, <2>3
<1>10. w # <<>> /\ m.n # 0 => w[1].key \/ w[1].n = m.n + 1
  <2> SUFFICES ASSUME w # <<>> PROVE w[1].key \/ w[1].n = m.n + 1
    OBVIOUS
  <2>1. 1 \in 1..(n - 1) /\ 1 + 1 \in 1..n
    BY <1>3, <1>4
  <2>2. v[1 + 1].key \/ v[1 + 1].n = v[1].n + 1
    BY <1>1, <1>4, <2>1
  <2> QED BY <1>3, <2>1, <2>2
<1>11. ~d => IF w = <<>> THEN m.n \in {0, f} ELSE w[Len(w)].n = f
  <2> SUFFICES ASSUME ~d PROVE IF w = <<>> THEN m.n \in {0, f} ELSE w[Len(w)].n = f
    OBVIOUS
  <2>1. v[n].n = f
    BY <1>1, <1>2
  <2>2. CASE w = <<>>
    <3>1. n = 1
      BY <1>3, <1>4, <2>2
    <3> QED BY <1>3, <2>1, <2>2, <3>1
  <2>3. CASE w # <<>>
    <3>1. n - 1 \in 1..(n - 1) /\ (n - 1) + 1 = n
      BY <1>3, <1>4, <2>3
    <3>2. w[n - 1] = v[n]
      BY <1>3, <3>1
    <3> QED BY <1>3, <2>1, <2>3, <3>2
  <2> QED BY <2>2, <2>3
<1>12. Track(w, m.n, d, f)
  BY <1>4, <1>6, <1>7, <1>8, <1>9, <1>10, <1>11 DEF Track
<1> QED BY <1>6, <1>12

-----------------------------------------------------------------------------
\* The headers of the queue, through a discard, a new message and a pop.

\* A discard leaves all headers, and what is left in its order.
LEMMA KeptReady ==
  ASSUME NEW s \in Seq(Message), NEW t \in Seq(Message), Kept(s, t),
         NEW v, NEW now, NEW b, NEW e
  PROVE  /\ Clean(s, v, now) => Clean(t, v, now)
         /\ After(s, b) => After(t, b)
         /\ Ready(s, v, e) => Ready(t, v, e)
<1>1. PICK h \in [DOMAIN t -> DOMAIN s] :
        /\ \A k, l \in DOMAIN t : k < l => h[k] < h[l]
        /\ \A k \in DOMAIN t : t[k] = s[h[k]]
        /\ \A i \in DOMAIN s : Essential(s[i]) => \E k \in DOMAIN t : h[k] = i
  BY DEF Kept
<1>2. /\ \A i \in DOMAIN s : i \in Nat /\ s[i] \in Message
      /\ \A i \in DOMAIN t : i \in Nat /\ t[i] \in Message
  BY Typed
<1>3. \A k \in DOMAIN t : h[k] \in DOMAIN s
  BY <1>1
<1>4. \A i \in DOMAIN s : EssentialClass(s[i]) = "videoSeq" => \E k \in DOMAIN t : h[k] = i /\ t[k] = s[i]
  <2> SUFFICES ASSUME NEW i \in DOMAIN s, EssentialClass(s[i]) = "videoSeq"
               PROVE \E k \in DOMAIN t : h[k] = i /\ t[k] = s[i]
    OBVIOUS
  <2>1. Essential(s[i])
    BY <1>2, Kinds DEF Classes
  <2> QED BY <1>1, <2>1
<1>5. ASSUME Clean(s, v, now) PROVE Clean(t, v, now)
  <2>1. \A k \in DOMAIN t : EssentialClass(t[k]) = "videoSeq" => t[k].n = v
    BY <1>1, <1>3, <1>5 DEF Clean
  <2>2. \A k \in DOMAIN t : DroppableVideo(t[k]) => t[k].header =< v /\ t[k].ts =< now
    BY <1>1, <1>3, <1>5 DEF Clean
  <2>3. \A k, l \in DOMAIN t :
          k < l /\ DroppableVideo(t[k]) /\ EssentialClass(t[l]) = "videoSeq" => t[k].ts =< t[l].ts
    BY <1>1, <1>3, <1>5 DEF Clean
  <2> QED BY <2>1, <2>2, <2>3 DEF Clean
<1>6. ASSUME After(s, b) PROVE After(t, b)
  BY <1>1, <1>3, <1>6 DEF After
<1>7. ASSUME Ready(s, v, e) PROVE Ready(t, v, e)
  <2>1. v =< e \/ \E k \in DOMAIN t : EssentialClass(t[k]) = "videoSeq"
    BY <1>4, <1>7 DEF Ready
  <2>2. ASSUME NEW k \in DOMAIN t, DroppableVideo(t[k])
        PROVE  \/ t[k].header =< e
               \/ \E j \in DOMAIN t : j < k /\ EssentialClass(t[j]) = "videoSeq" /\ t[k].header =< t[j].n
    <3>1. t[k] = s[h[k]] /\ h[k] \in DOMAIN s
      BY <1>1, <1>3
    <3>2. CASE ~(t[k].header =< e)
      <4>1. PICK j \in DOMAIN s : /\ j < h[k] /\ EssentialClass(s[j]) = "videoSeq"
                                  /\ s[h[k]].header =< s[j].n
        BY <1>7, <2>2, <3>1, <3>2 DEF Ready
      <4>2. PICK l \in DOMAIN t : h[l] = j /\ t[l] = s[j]
        BY <1>4, <4>1
      <4>3. ~(k < l) /\ k # l
        <5>1. h[k] \in Nat /\ j \in Nat
          BY <1>2, <3>1
        <5> QED BY <1>1, <4>1, <4>2, <5>1
      <4>4. l < k
        BY <1>2, <4>3
      <4> QED BY <3>1, <4>1, <4>2, <4>4
    <3> QED BY <3>2
  <2> QED BY <2>1, <2>2 DEF Ready
<1> QED BY <1>5, <1>6, <1>7

\* m, that comes to a deque whose newest header is the v-th, makes the w-th the newest.
Follows(m, v, w, now) ==
  /\ v \in Nat /\ w \in Nat /\ v =< w /\ now \in Nat
  /\ IF EssentialClass(m) = "videoSeq" THEN m.n = w /\ m.ts = now ELSE w = v
  /\ DroppableVideo(m) => m.header =< v /\ m.ts =< now

\* A new header takes the place of the old one, or the last; a frame comes behind the
\* header it was encoded under, or that header is known already.
LEMMA PlacedReady ==
  ASSUME NEW s \in Seq(Message), NEW t \in Seq(Message), NEW m \in Message, Placed(s, m, t),
         OneEach(s), NEW v, NEW w, NEW now, Clean(s, v, now), Follows(m, v, w, now),
         NEW b \in Nat, b =< now, NEW e \in Nat
  PROVE  /\ Clean(t, w, now)
         /\ After(s, b) => After(t, b)
         /\ Ready(s, v, e) => Ready(t, w, e)
<1>1. PICK i \in DOMAIN t :
        /\ t[i] = m /\ DOMAIN t = (DOMAIN s) \cup {i}
        /\ \A j \in DOMAIN s : j # i => t[j] = s[j]
        /\ i \in DOMAIN s => Essential(m) /\ EssentialClass(s[i]) = EssentialClass(m)
        /\ i \notin DOMAIN s => /\ \A j \in DOMAIN s : j < i
                                /\ Essential(m) => At(s, EssentialClass(m)) = {}
  BY DEF Placed
<1>2. /\ \A j \in DOMAIN s : j \in Nat /\ s[j] \in Message /\ s[j].ts \in Nat /\ s[j].n \in Nat /\ s[j].header \in Nat
      /\ \A j \in DOMAIN t : j \in Nat /\ t[j] \in Message /\ t[j].ts \in Nat /\ t[j].n \in Nat /\ t[j].header \in Nat
  BY Typed
<1>3. /\ v \in Nat /\ w \in Nat /\ v =< w /\ now \in Nat
      /\ EssentialClass(m) = "videoSeq" => m.n = w /\ m.ts = now
      /\ EssentialClass(m) # "videoSeq" => w = v
      /\ DroppableVideo(m) => m.header =< v /\ m.ts =< now
  BY DEF Follows
<1>4. /\ \A j \in DOMAIN s : EssentialClass(s[j]) = "videoSeq" => s[j].n = v
      /\ \A j \in DOMAIN s : DroppableVideo(s[j]) => s[j].header =< v /\ s[j].ts =< now
      /\ \A j, k \in DOMAIN s :
           j < k /\ DroppableVideo(s[j]) /\ EssentialClass(s[k]) = "videoSeq" => s[j].ts =< s[k].ts
  BY DEF Clean
<1>5. /\ EssentialClass(m) = "videoSeq" => Essential(m) /\ ~DroppableVideo(m)
      /\ DroppableVideo(m) => ~Essential(m)
  BY Kinds DEF Classes
<1>6. ASSUME NEW j \in DOMAIN t, j # i PROVE j \in DOMAIN s /\ t[j] = s[j]
  BY <1>1, <1>6
<1>7. ASSUME NEW j \in DOMAIN t, j # i, EssentialClass(t[j]) = "videoSeq"
      PROVE  EssentialClass(m) # "videoSeq"
  <2> SUFFICES ASSUME EssentialClass(m) = "videoSeq" PROVE FALSE
    OBVIOUS
  <2>1. j \in At(s, "videoSeq")
    BY <1>6, <1>7 DEF At
  <2>2. i \in DOMAIN s
    BY <1>1, <1>5, <2>1
  <2>3. i \in At(s, "videoSeq")
    BY <1>1, <2>2 DEF At
  <2> QED BY <1>7, <2>1, <2>3 DEF OneEach, Classes
<1>8. Clean(t, w, now)
  <2>1. ASSUME NEW j \in DOMAIN t, EssentialClass(t[j]) = "videoSeq" PROVE t[j].n = w
    <3>1. CASE j = i
      BY <1>1, <1>3, <2>1, <3>1
    <3>2. CASE j # i
      BY <1>3, <1>4, <1>6, <1>7, <2>1, <3>2
    <3> QED BY <3>1, <3>2
  <2>2. ASSUME NEW j \in DOMAIN t, DroppableVideo(t[j]) PROVE t[j].header =< w /\ t[j].ts =< now
    <3>1. t[j].header =< v /\ t[j].ts =< now
      <4>1. CASE j = i
        BY <1>1, <1>3, <2>2, <4>1
      <4>2. CASE j # i
        BY <1>4, <1>6, <2>2, <4>2
      <4> QED BY <4>1, <4>2
    <3> QED BY <1>2, <1>3, <3>1
  <2>3. ASSUME NEW j \in DOMAIN t, NEW k \in DOMAIN t, j < k,
               DroppableVideo(t[j]), EssentialClass(t[k]) = "videoSeq"
        PROVE  t[j].ts =< t[k].ts
    <3>1. CASE k = i
      <4>1. t[k].ts = now
        BY <1>1, <1>3, <2>3, <3>1
      <4> QED BY <2>2, <2>3, <4>1
    <3>2. CASE k # i /\ j = i
      <4>1. k \in DOMAIN s /\ DroppableVideo(m)
        BY <1>1, <1>6, <2>3, <3>2
      <4>2. i \notin DOMAIN s
        BY <1>1, <1>5, <4>1
      <4>3. k < i
        BY <1>1, <4>1, <4>2
      <4> QED BY <1>2, <2>3, <3>2, <4>3
    <3>3. CASE k # i /\ j # i
      BY <1>4, <1>6, <2>3, <3>3
    <3> QED BY <3>1, <3>2, <3>3
  <2> QED BY <2>1, <2>2, <2>3 DEF Clean
<1>9. ASSUME After(s, b) PROVE After(t, b)
  <2> SUFFICES ASSUME NEW j \in DOMAIN t, EssentialClass(t[j]) = "videoSeq" PROVE b =< t[j].ts
    BY DEF After
  <2>1. CASE j = i
    BY <1>1, <1>3, <2>1
  <2>2. CASE j # i
    BY <1>6, <1>9, <2>2 DEF After
  <2> QED BY <2>1, <2>2
<1>10. ASSUME Ready(s, v, e) PROVE Ready(t, w, e)
  <2>1. w =< e \/ \E j \in DOMAIN t : EssentialClass(t[j]) = "videoSeq"
    <3>1. CASE EssentialClass(m) = "videoSeq"
      BY <1>1, <3>1
    <3>2. CASE EssentialClass(m) # "videoSeq" /\ ~(v =< e)
      <4>1. PICK j \in DOMAIN s : EssentialClass(s[j]) = "videoSeq"
        BY <1>10, <3>2 DEF Ready
      <4>2. j # i
        BY <1>1, <3>2, <4>1
      <4>3. j \in DOMAIN t /\ t[j] = s[j]
        BY <1>1, <4>2
      <4> QED BY <4>1, <4>3
    <3>3. CASE EssentialClass(m) # "videoSeq" /\ v =< e
      BY <1>3, <3>3
    <3> QED BY <3>1, <3>2, <3>3
  <2>2. ASSUME NEW k \in DOMAIN t, DroppableVideo(t[k])
        PROVE  \/ t[k].header =< e
               \/ \E j \in DOMAIN t : j < k /\ EssentialClass(t[j]) = "videoSeq" /\ t[k].header =< t[j].n
    <3>1. CASE k = i
      <4>1. DroppableVideo(m) /\ i \notin DOMAIN s /\ t[k].header =< v
        BY <1>1, <1>3, <1>5, <2>2, <3>1
      <4>2. CASE v =< e
        BY <1>2, <1>3, <4>1, <4>2
      <4>3. CASE ~(v =< e)
        <5>1. PICK j \in DOMAIN s : EssentialClass(s[j]) = "videoSeq"
          BY <1>10, <4>3 DEF Ready
        <5>2. s[j].n = v /\ j < i /\ j # i
          BY <1>1, <1>4, <4>1, <5>1
        <5>3. j \in DOMAIN t /\ t[j] = s[j]
          BY <1>1, <5>2
        <5> QED BY <3>1, <4>1, <5>1, <5>2, <5>3
      <4> QED BY <4>2, <4>3
    <3>2. CASE k # i
      <4>1. k \in DOMAIN s /\ t[k] = s[k]
        BY <1>6, <3>2
      <4>2. CASE s[k].header =< e
        BY <4>1, <4>2
      <4>3. CASE ~(s[k].header =< e)
        <5>1. PICK j \in DOMAIN s : j < k /\ EssentialClass(s[j]) = "videoSeq" /\ s[k].header =< s[j].n
          BY <1>10, <2>2, <4>1, <4>3 DEF Ready
        <5>2. CASE j # i
          <6>1. j \in DOMAIN t /\ t[j] = s[j]
            BY <1>1, <5>2
          <6> QED BY <4>1, <5>1, <6>1
        <5>3. CASE j = i
          <6>1. EssentialClass(m) = "videoSeq" /\ m.n = w
            BY <1>1, <1>3, <5>1, <5>3
          <6>2. s[j].n = v
            BY <1>4, <5>1
          <6>3. t[k].header =< w
            BY <1>2, <1>3, <4>1, <5>1, <6>2
          <6> QED BY <1>1, <5>1, <5>3, <6>1, <6>3
        <5> QED BY <5>2, <5>3
      <4> QED BY <4>2, <4>3
    <3> QED BY <3>1, <3>2
  <2> QED BY <2>1, <2>2 DEF Ready
<1> QED BY <1>8, <1>9, <1>10

\* The head taken: if it is the header, all that follows was encoded under it or an
\* older one; if it is a frame, the header it needs is known.
LEMMA TakenReady ==
  ASSUME NEW s \in Seq(Message), NEW t \in Seq(Message), NEW m \in Message, Beheads(s, m, t),
         OneEach(s), NEW v \in Nat, NEW now, Clean(s, v, now), NEW b, NEW e
  PROVE  /\ Clean(t, v, now)
         /\ After(s, b) => After(t, b) /\ (EssentialClass(m) = "videoSeq" => b =< m.ts)
         /\ EssentialClass(m) = "videoSeq" => m.n = v /\ Ready(t, v, m.n)
         /\ DroppableVideo(m) => m.header =< v /\ m.ts =< now /\ After(t, m.ts)
         /\ Ready(s, v, e) => /\ EssentialClass(m) # "videoSeq" => Ready(t, v, e)
                              /\ DroppableVideo(m) => m.header =< e
<1>1. /\ 1 \in DOMAIN s /\ s[1] = m
      /\ \A k \in DOMAIN t : k + 1 \in DOMAIN s /\ t[k] = s[k + 1]
      /\ \A i \in DOMAIN s : i = 1 \/ i - 1 \in DOMAIN t
  BY DEF Beheads
<1>2. /\ \A j \in DOMAIN s : j \in Nat /\ j # 0 /\ s[j] \in Message /\ s[j].n \in Nat /\ s[j].header \in Nat
      /\ \A j \in DOMAIN t : j \in Nat /\ j # 0 /\ t[j] \in Message /\ t[j].header \in Nat
  <2>1. (\A j \in DOMAIN s : j # 0) /\ (\A j \in DOMAIN t : j # 0)
    BY Positions
  <2> QED BY <2>1, Typed
<1>3. /\ \A j \in DOMAIN s : EssentialClass(s[j]) = "videoSeq" => s[j].n = v
      /\ \A j \in DOMAIN s : DroppableVideo(s[j]) => s[j].header =< v /\ s[j].ts =< now
      /\ \A j, k \in DOMAIN s :
           j < k /\ DroppableVideo(s[j]) /\ EssentialClass(s[k]) = "videoSeq" => s[j].ts =< s[k].ts
  BY DEF Clean
<1>4. Clean(t, v, now)
  <2>1. \A k \in DOMAIN t : EssentialClass(t[k]) = "videoSeq" => t[k].n = v
    BY <1>1, <1>3
  <2>2. \A k \in DOMAIN t : DroppableVideo(t[k]) => t[k].header =< v /\ t[k].ts =< now
    BY <1>1, <1>3
  <2>3. ASSUME NEW j \in DOMAIN t, NEW k \in DOMAIN t, j < k,
               DroppableVideo(t[j]), EssentialClass(t[k]) = "videoSeq"
        PROVE  t[j].ts =< t[k].ts
    <3>1. j + 1 \in DOMAIN s /\ k + 1 \in DOMAIN s /\ t[j] = s[j + 1] /\ t[k] = s[k + 1]
      BY <1>1
    <3>2. j + 1 < k + 1
      BY <1>2, <2>3
    <3> QED BY <1>3, <2>3, <3>1, <3>2
  <2> QED BY <2>1, <2>2, <2>3 DEF Clean
<1>5. ASSUME After(s, b) PROVE After(t, b) /\ (EssentialClass(m) = "videoSeq" => b =< m.ts)
  BY <1>1, <1>5 DEF After
<1>6. ASSUME EssentialClass(m) = "videoSeq" PROVE m.n = v /\ Ready(t, v, m.n)
  <2>1. m.n = v
    BY <1>1, <1>3, <1>6
  <2>2. \A k \in DOMAIN t : DroppableVideo(t[k]) => t[k].header =< m.n
    BY <1>4, <2>1 DEF Clean
  <2> QED BY <2>1, <2>2 DEF Ready
<1>7. ASSUME DroppableVideo(m) PROVE m.header =< v /\ m.ts =< now /\ After(t, m.ts)
  <2>1. ASSUME NEW k \in DOMAIN t, EssentialClass(t[k]) = "videoSeq" PROVE m.ts =< t[k].ts
    <3>1. k + 1 \in DOMAIN s /\ t[k] = s[k + 1] /\ 1 < k + 1
      BY <1>1, <1>2
    <3> QED BY <1>1, <1>3, <1>7, <2>1, <3>1
  <2> QED BY <1>1, <1>3, <1>7, <2>1 DEF After
<1>8. ASSUME Ready(s, v, e), EssentialClass(m) # "videoSeq" PROVE Ready(t, v, e)
  <2>1. ASSUME NEW j \in DOMAIN s, EssentialClass(s[j]) = "videoSeq"
        PROVE  j - 1 \in DOMAIN t /\ t[j - 1] = s[j]
    <3>1. j # 1 /\ j \in Nat
      BY <1>1, <1>2, <1>8, <2>1
    <3>2. j - 1 \in DOMAIN t /\ (j - 1) + 1 = j
      BY <1>1, <3>1
    <3> QED BY <1>1, <3>2
  <2>2. v =< e \/ \E j \in DOMAIN t : EssentialClass(t[j]) = "videoSeq"
    BY <1>8, <2>1 DEF Ready
  <2>3. ASSUME NEW k \in DOMAIN t, DroppableVideo(t[k])
        PROVE  \/ t[k].header =< e
               \/ \E j \in DOMAIN t : j < k /\ EssentialClass(t[j]) = "videoSeq" /\ t[k].header =< t[j].n
    <3>1. k + 1 \in DOMAIN s /\ t[k] = s[k + 1]
      BY <1>1
    <3>2. CASE ~(s[k + 1].header =< e)
      <4>1. PICK j \in DOMAIN s : /\ j < k + 1 /\ EssentialClass(s[j]) = "videoSeq"
                                  /\ s[k + 1].header =< s[j].n
        BY <1>8, <2>3, <3>1, <3>2 DEF Ready
      <4>2. j - 1 < k
        BY <1>2, <4>1
      <4> QED BY <2>1, <3>1, <4>1, <4>2
    <3> QED BY <3>1, <3>2
  <2> QED BY <2>2, <2>3 DEF Ready
<1>9. ASSUME Ready(s, v, e), DroppableVideo(m) PROVE m.header =< e
  <2>1. \/ s[1].header =< e
        \/ \E j \in DOMAIN s : j < 1 /\ EssentialClass(s[j]) = "videoSeq" /\ s[1].header =< s[j].n
    BY <1>1, <1>9 DEF Ready
  <2>2. \A j \in DOMAIN s : ~(j < 1)
    BY <1>2
  <2> QED BY <1>1, <2>1, <2>2
<1> QED BY <1>4, <1>5, <1>6, <1>7, <1>8, <1>9

-----------------------------------------------------------------------------
\* The track through the steps of a destination.

\* No message is none of the messages.
LEMMA NoMessage ==
  None \notin Message /\ ~DroppableVideo(None) /\ EssentialClass(None) = "none"
<1>1. None.kind = "none"
  BY DEF None
<1>2. None \notin Message
  BY <1>1 DEF Message
<1>3. ~DroppableVideo(None)
  BY <1>1 DEF DroppableVideo
<1>4. EssentialClass(None) = "none"
  BY <1>1 DEF EssentialClass
<1> QED BY <1>2, <1>3, <1>4

\* What the invariant says of the types of what is on its way.
LEMMA WireTyped ==
  ASSUME TrackInv
  PROVE  /\ q.items \in Seq(Message) /\ VideoOf(q.items) \in Seq(Message) /\ q.dropping \in BOOLEAN
         /\ LastFrame \in Nat /\ FramesIn \in Nat /\ published["video"] \in Nat
         /\ wire.frame.n \in Nat
<1>1. Sound(q) /\ published \in [Streams -> Nat] /\ wire.frame \in [n : Nat, key : BOOLEAN, header : Nat]
  BY DEF TrackInv, WireTypes
<1>2. q.items \in Seq(Message) /\ VideoOf(q.items) \in Seq(Message) /\ q.dropping \in BOOLEAN
  BY <1>1, BooksOf, Tracks
<1>3. published["video"] \in Nat /\ wire.frame.n \in Nat
  BY <1>1 DEF Streams
<1>4. LastFrame \in Nat
  <2>1. CASE DroppableVideo(held)
    <3>1. held \in Message
      BY <2>1, NoMessage DEF TrackInv, WireTypes
    <3> QED BY <2>1, <3>1 DEF LastFrame, Message
  <2>2. CASE ~DroppableVideo(held)
    <3>1. CASE up /\ tb.armed
      BY <1>3, <2>2, <3>1 DEF LastFrame
    <3>2. CASE ~(up /\ tb.armed)
      BY <2>2, <3>2 DEF LastFrame
    <3> QED BY <3>1, <3>2
  <2> QED BY <2>1, <2>2
<1>5. LastFrame =< FramesIn
  BY DEF TrackInv, Track
<1>6. FramesIn \in Int
  <2>1. CASE DroppableVideo(inflight)
    BY <1>3, <2>1 DEF FramesIn
  <2>2. CASE ~DroppableVideo(inflight)
    BY <1>3, <2>2 DEF FramesIn
  <2> QED BY <2>1, <2>2
<1>7. FramesIn \in Nat
  BY <1>4, <1>5, <1>6
<1> QED BY <1>2, <1>3, <1>4, <1>7

\* What is left of the parts of the invariant that a step does not touch: the track and
\* what is in flight, when the queue, the publisher and the last frame stay.
LEMMA TrackStays ==
  ASSUME TrackInv, UNCHANGED <<q, publisherVars>>, LastFrame' = LastFrame \/ LastFrame' = 0
  PROVE  /\ Track(VideoOf(q.items), LastFrame, q.dropping, FramesIn)'
         /\ (DroppableVideo(inflight) => inflight.n = published["video"] /\ inflight.ts = inflight.n)'
         /\ (/\ Sound(q) /\ ~q.closed
             /\ published \in [Streams -> Nat] /\ pre \in [Classes -> Nat]
             /\ \A c \in Classes : pre[c] = published[c]
             /\ inflight \in Message \cup {None})'
<1>1. q' = q /\ pre' = pre /\ inflight' = inflight /\ published' = published
  BY DEF publisherVars
<1>2. FramesIn' = FramesIn
  BY <1>1 DEF FramesIn
<1>3. /\ Track(VideoOf(q.items), LastFrame, q.dropping, FramesIn)
      /\ Track(VideoOf(q.items), 0, q.dropping, FramesIn)
  <2>1. Track(VideoOf(q.items), LastFrame, q.dropping, FramesIn)
    BY DEF TrackInv
  <2> QED BY <2>1, WireTyped, TrackLess
<1>4. Track(VideoOf(q.items), LastFrame', q.dropping, FramesIn)
  BY <1>3
<1> QED BY <1>1, <1>2, <1>4 DEF TrackInv, WireTypes

\* What is observed is a message, of the stream whose number it takes.
LEMMA StampIs ==
  ASSUME NEW x \in Inputs, published \in [Streams -> Nat], NEW ts \in Timestamps(x),
         NEW m, m = Stamp(x, ts)
  PROVE  /\ m \in Message /\ m.ts = ts
         /\ Essential(m) = Essential(x) /\ EssentialClass(m) = EssentialClass(x)
         /\ DroppableVideo(m) = DroppableVideo(x)
         /\ StreamOf(x) \in Streams /\ m.n = published[StreamOf(x)] + 1
         /\ \A c \in Classes : c = StreamOf(x) <=> c = EssentialClass(x)
         /\ DroppableVideo(x) <=> StreamOf(x) = "video"
         /\ m.header = IF DroppableVideo(x) THEN published["videoSeq"] ELSE 0
<1>1. /\ x \in [kind : {"audio", "video", "meta"}, key : BOOLEAN, seq : BOOLEAN, size : Nat]
      /\ AudioLag \subseteq Nat
  BY DeliveryBounds
<1>2. x.kind \in {"audio", "video", "meta"} /\ x.key \in BOOLEAN /\ x.seq \in BOOLEAN /\ x.size \in Nat
  BY <1>1
<1>3. \A c \in Streams : published[c] \in Nat
  OBVIOUS
<1>4. Clock \in Nat
  BY <1>3 DEF Clock, Streams
<1>5. ts \in Nat
  <2>1. CASE Essential(x)
    <3>1. HeadersAtZero \in BOOLEAN
      BY DeliveryBounds
    <3> QED BY <1>4, <2>1, <3>1 DEF Timestamps
  <2>2. CASE DroppableVideo(x) /\ ~Essential(x)
    BY <1>4, <2>2 DEF Timestamps
  <2>3. CASE ~Essential(x) /\ ~DroppableVideo(x)
    <3>1. ts \in {Clock - l : l \in {l \in AudioLag : l =< Clock}}
      BY <2>3 DEF Timestamps
    <3>2. PICK l \in AudioLag : l =< Clock /\ ts = Clock - l
      BY <3>1
    <3>3. l \in Nat
      BY <1>1, <3>2
    <3> QED BY <1>4, <3>2, <3>3
  <2> QED BY <2>1, <2>2, <2>3
<1>6. /\ Essential(m) = Essential(x) /\ EssentialClass(m) = EssentialClass(x)
      /\ DroppableVideo(m) = DroppableVideo(x)
  <2>1. m.kind = x.kind /\ m.seq = x.seq
    BY DEF Stamp
  <2> QED BY <2>1 DEF Essential, EssentialClass, DroppableVideo
<1>7. /\ StreamOf(x) \in Streams
      /\ \A c \in Classes : c = StreamOf(x) <=> c = EssentialClass(x)
      /\ DroppableVideo(x) <=> StreamOf(x) = "video"
  BY <1>2 DEF StreamOf, Streams, Classes, Essential, EssentialClass, DroppableVideo
<1>8. published["videoSeq"] \in Nat /\ published[StreamOf(x)] \in Nat
  BY <1>3, <1>7 DEF Streams, Classes
<1>9. m \in Message
  <2>1. (IF DroppableVideo(x) THEN published["videoSeq"] ELSE 0) \in Nat
    BY <1>8
  <2>2. published[StreamOf(x)] + 1 \in Nat
    BY <1>8
  <2>3. PICK h \in Nat : h = IF DroppableVideo(x) THEN published["videoSeq"] ELSE 0
    BY <2>1
  <2>4. PICK n \in Nat : n = published[StreamOf(x)] + 1
    BY <2>2
  <2>5. m = [kind |-> x.kind, key |-> x.key, seq |-> x.seq, size |-> x.size,
             ts |-> ts, n |-> n, header |-> h]
    BY <2>3, <2>4 DEF Stamp
  <2> QED BY <1>2, <1>5, <2>5 DEF Message
<1>10. m.ts = ts /\ m.n = published[StreamOf(x)] + 1
       /\ m.header = IF DroppableVideo(x) THEN published["videoSeq"] ELSE 0
  BY DEF Stamp
<1> QED BY <1>6, <1>7, <1>9, <1>10

LEMMA TrackObserve ==
  ASSUME TrackInv, NEW x \in Inputs, Observe(x)
  PROVE  TrackInv'
<1>1. /\ inflight = None /\ q' = q
      /\ connections' = connections /\ up' = up /\ held' = held /\ tb' = tb /\ wire' = wire
      /\ published' = [published EXCEPT ![StreamOf(x)] = @ + 1]
      /\ pre' = [c \in Classes |-> IF c = EssentialClass(x) THEN published[c] + 1 ELSE pre[c]]
  BY DEF Observe, sinkVars
<1>2. PICK ts \in Timestamps(x) : inflight' = Stamp(x, ts)
  BY DEF Observe
<1>3. PICK m : m = inflight'
  OBVIOUS
<1>4. published \in [Streams -> Nat] /\ pre \in [Classes -> Nat] /\ \A c \in Classes : pre[c] = published[c]
  BY DEF TrackInv, WireTypes
<1>5. /\ m \in Message /\ m.ts = ts /\ DroppableVideo(m) = DroppableVideo(x)
      /\ StreamOf(x) \in Streams /\ m.n = published[StreamOf(x)] + 1
      /\ \A c \in Classes : c = StreamOf(x) <=> c = EssentialClass(x)
      /\ DroppableVideo(x) <=> StreamOf(x) = "video"
  BY <1>2, <1>3, <1>4, StampIs
<1>6. published[StreamOf(x)] \in Nat /\ published["video"] \in Nat /\ "video" \in Streams
  BY <1>4, <1>5 DEF Streams
<1>7. published' \in [Streams -> Nat] /\ pre' \in [Classes -> Nat] /\ \A c \in Classes : pre'[c] = published'[c]
  <2>1. published' \in [Streams -> Nat]
    <3>1. PICK n \in Nat : n = published[StreamOf(x)] + 1
      BY <1>6
    <3>2. published' = [published EXCEPT ![StreamOf(x)] = n]
      BY <1>1, <3>1
    <3> QED BY <1>4, <3>2
  <2>2. \A c \in Classes : c \in Streams
    BY DEF Streams
  <2>3. \A c \in Classes : published'[c] = IF c = EssentialClass(x) THEN published[c] + 1 ELSE pre[c]
    BY <1>1, <1>4, <1>5, <2>2
  <2>4. \A c \in Classes : published'[c] \in Nat
    BY <2>1, <2>2
  <2> QED BY <1>1, <2>1, <2>3, <2>4
<1>8. DroppableVideo(m) => m.n = published["video"] + 1 /\ published'["video"] = published["video"] + 1 /\ m.ts = m.n
  <2> SUFFICES ASSUME DroppableVideo(x)
               PROVE m.n = published["video"] + 1 /\ published'["video"] = published["video"] + 1 /\ m.ts = m.n
    BY <1>5
  <2>1. StreamOf(x) = "video" /\ ~Essential(x)
    BY <1>5 DEF DroppableVideo
  <2>2. ts = published["video"] + 1
    BY <2>1 DEF Timestamps, Clock
  <2> QED BY <1>1, <1>4, <1>5, <1>6, <2>1, <2>2
<1>9. ~DroppableVideo(m) => published'["video"] = published["video"]
  BY <1>1, <1>4, <1>5, <1>6
<1>10. FramesIn' = FramesIn
  <2>1. FramesIn = published["video"]
    BY <1>1, <1>6, NoMessage DEF FramesIn
  <2>2. CASE DroppableVideo(m)
    BY <1>3, <1>6, <1>8, <2>1, <2>2 DEF FramesIn
  <2>3. CASE ~DroppableVideo(m)
    BY <1>3, <1>6, <1>9, <2>1, <2>3 DEF FramesIn
  <2> QED BY <2>2, <2>3
<1>11. LastFrame' = LastFrame
  BY <1>1 DEF LastFrame
<1>12. inflight' \in Message /\ (DroppableVideo(inflight') => inflight'.n = published'["video"] /\ inflight'.ts = inflight'.n)
  BY <1>3, <1>5, <1>8
<1> QED BY <1>1, <1>7, <1>10, <1>11, <1>12 DEF TrackInv, WireTypes

LEMMA TrackEnqueue ==
  ASSUME TrackInv, Enqueue
  PROVE  TrackInv'
<1>1. /\ inflight # None /\ q' = Push(q, inflight) /\ inflight' = None
      /\ pre' = pre /\ published' = published
      /\ connections' = connections /\ up' = up /\ held' = held /\ tb' = tb /\ wire' = wire
  BY DEF Enqueue, sinkVars
<1>2. PICK m \in Message : m = inflight
  BY <1>1 DEF TrackInv, WireTypes
<1>3. PICK b : b = q'
  OBVIOUS
<1>4. PICK v : v = VideoOf(q.items)
  OBVIOUS
<1>5. PICK p : p = LastFrame
  OBVIOUS
<1>6. PICK f : f = FramesIn
  OBVIOUS
<1>7. PICK d : d = q.dropping
  OBVIOUS
<1>8. v \in Seq(Message) /\ p \in Nat /\ f \in Nat /\ d \in BOOLEAN /\ published["video"] \in Nat
  BY <1>4, <1>5, <1>6, <1>7, WireTyped
<1>9. Track(v, p, d, f) /\ Sound(q) /\ ~q.closed
  BY <1>4, <1>5, <1>6, <1>7 DEF TrackInv, WireTypes
<1>10. /\ Sound(b) /\ ~b.closed
       /\ \/ Refuses(q, m) /\ b.items = q.items /\ b.dropping = q.dropping
          \/ ~Refuses(q, m) /\ \E s : Takes(q, m, s, b)
  BY <1>1, <1>2, <1>3, <1>9, PushTakes
<1>11. FramesIn' = published["video"]
  BY <1>1, <1>8, NoMessage DEF FramesIn
<1>12. PICK g : g = published["video"]
  OBVIOUS
<1>13. DroppableVideo(m) => g = f + 1 /\ m.n = f + 1 /\ m.ts = m.n
  <2> SUFFICES ASSUME DroppableVideo(m) PROVE g = f + 1 /\ m.n = f + 1 /\ m.ts = m.n
    OBVIOUS
  <2>1. f = published["video"] - 1 /\ m.n = published["video"] /\ m.ts = m.n
    BY <1>2, <1>6 DEF FramesIn, TrackInv
  <2> QED BY <1>8, <1>12, <2>1
<1>14. ~DroppableVideo(m) => g = f
  BY <1>2, <1>6, <1>8, <1>12 DEF FramesIn
<1>15. Track(VideoOf(b.items), p, b.dropping, g)
  <2>1. CASE Refuses(q, m)
    <3>1. DroppableVideo(m) /\ d
      BY <1>7, <2>1 DEF Refuses
    <3>2. Track(v, p, d, f + 1)
      BY <1>8, <1>9, <3>1, TrackLess
    <3>3. b.items = q.items /\ b.dropping = d
      BY <1>7, <1>10, <2>1
    <3> QED BY <1>4, <1>13, <3>1, <3>2, <3>3
  <2>2. CASE ~Refuses(q, m)
    <3>1. PICK s : Takes(q, m, s, b)
      BY <1>10, <2>2
    <3>2. \/ VideoOf(b.items) = <<>> /\ b.dropping = TRUE
          \/ /\ b.dropping = (d /\ ~DroppableVideo(m))
             /\ VideoOf(b.items) = IF DroppableVideo(m) THEN Append(v, m) ELSE v
      BY <1>4, <1>7, <3>1 DEF Takes
    <3>3. CASE VideoOf(b.items) = <<>> /\ b.dropping = TRUE
      <4>1. Track(<<>>, p, TRUE, f) /\ Track(<<>>, p, TRUE, f + 1)
        BY <1>8, <1>9, TrackLess
      <4> QED BY <1>13, <1>14, <3>3, <4>1
    <3>4. CASE DroppableVideo(m) /\ b.dropping = FALSE /\ VideoOf(b.items) = Append(v, m)
      <4>1. d => m.key
        BY <1>7, <2>2, <3>4 DEF Refuses
      <4>2. Track(Append(v, m), p, FALSE, f + 1)
        BY <1>8, <1>9, <1>13, <3>4, <4>1, TrackMore
      <4> QED BY <1>13, <3>4, <4>2
    <3>5. CASE ~DroppableVideo(m) /\ b.dropping = d /\ VideoOf(b.items) = v
      BY <1>9, <1>14, <3>5
    <3> QED BY <1>8, <3>2, <3>3, <3>4, <3>5
  <2> QED BY <2>1, <2>2
<1>16. LastFrame' = LastFrame
  BY <1>1 DEF LastFrame
<1>17. Track(VideoOf(q'.items), LastFrame', q'.dropping, FramesIn')
  BY <1>3, <1>5, <1>11, <1>12, <1>15, <1>16
<1>18. ~DroppableVideo(inflight')
  BY <1>1, NoMessage
<1> QED BY <1>1, <1>3, <1>10, <1>17, <1>18 DEF TrackInv, WireTypes

LEMMA TrackConnect ==
  ASSUME TrackInv, Connect
  PROVE  TrackInv'
<1>1. /\ ~up /\ up' = TRUE /\ tb' = Unarmed /\ wire' = Fresh /\ held' = held
      /\ UNCHANGED <<q, publisherVars>>
  BY DEF Connect
<1>2. held = None /\ ~DroppableVideo(held)
  BY <1>1, NoMessage DEF TrackInv, WireTypes
<1>3. ~tb'.armed /\ tb'.armed \in BOOLEAN /\ tb'.base \in Nat
  BY <1>1 DEF Unarmed
<1>4. LastFrame' = 0
  BY <1>1, <1>2, <1>3 DEF LastFrame
<1>5. /\ wire' = [frame |-> wire'.frame, ts |-> wire'.ts, essentials |-> wire'.essentials]
      /\ wire'.frame \in [n : Nat, key : BOOLEAN, header : Nat]
      /\ wire'.essentials \in [Classes -> Nat]
  BY <1>1 DEF Fresh, NoFrame
<1>6. held' \in Message \cup {None} /\ up' \in BOOLEAN /\ ~DroppableVideo(held')
  BY <1>1, <1>2 DEF TrackInv, WireTypes
<1> QED BY <1>1, <1>3, <1>4, <1>5, <1>6, TrackStays DEF TrackInv, WireTypes

LEMMA TrackPop ==
  ASSUME TrackInv, Pop
  PROVE  TrackInv'
<1>1. /\ up /\ held = None /\ q.items # <<>> /\ held' = Head(q.items) /\ q' = PopRest(q)
      /\ pre' = pre /\ inflight' = inflight /\ published' = published
      /\ up' = up /\ tb' = tb /\ wire' = wire
  BY DEF Pop, publisherVars
<1>2. PICK m : m = Head(q.items)
  OBVIOUS
<1>3. PICK b : b = PopRest(q)
  OBVIOUS
<1>4. Sound(q) /\ ~q.closed
  BY DEF TrackInv, WireTypes
<1>5. Loses(q, m, b)
  BY <1>1, <1>2, <1>3, <1>4, Popped
<1>6. /\ Sound(b) /\ ~b.closed /\ b.dropping = q.dropping /\ m \in Message
      /\ IF DroppableVideo(m)
         THEN /\ VideoOf(q.items) # <<>> /\ Head(VideoOf(q.items)) = m
              /\ VideoOf(b.items) = Tail(VideoOf(q.items))
         ELSE VideoOf(b.items) = VideoOf(q.items)
  BY <1>4, <1>5 DEF Loses
<1>7. PICK p \in Nat : p = LastFrame
  BY WireTyped
<1>8. PICK f \in Nat : f = FramesIn
  BY WireTyped
<1>9. FramesIn' = f
  BY <1>1, <1>8 DEF FramesIn
<1>10. Track(VideoOf(q.items), p, q.dropping, f)
  BY <1>7, <1>8 DEF TrackInv
<1>11. p = IF tb.armed THEN wire.frame.n ELSE 0
  BY <1>1, <1>7, NoMessage DEF LastFrame
<1>12. /\ Track(VideoOf(b.items), LastFrame', b.dropping, f)
       /\ DroppableVideo(m) => /\ m.ts = m.n /\ 0 < m.n
                               /\ tb.armed => wire.frame.n < m.n /\ (m.key \/ m.n = wire.frame.n + 1)
  <2>1. CASE DroppableVideo(m)
    <3>1. /\ Track(VideoOf(b.items), m.n, q.dropping, f) /\ m.n \in Nat
          /\ m.ts = m.n /\ p < m.n /\ (p # 0 => m.key \/ m.n = p + 1)
      BY <1>6, <1>10, <2>1, WireTyped, TrackTaken
    <3>2. LastFrame' = m.n
      BY <1>1, <1>2, <2>1 DEF LastFrame
    <3>3. tb.armed => 0 < wire.frame.n /\ wire.frame.n = p
      BY <1>1, <1>11 DEF TrackInv
    <3>4. 0 < m.n
      BY <3>1
    <3>5. tb.armed => wire.frame.n < m.n /\ (m.key \/ m.n = wire.frame.n + 1)
      BY <3>1, <3>3
    <3> QED BY <1>6, <3>1, <3>2, <3>4, <3>5
  <2>2. CASE ~DroppableVideo(m)
    <3>1. LastFrame' = p
      BY <1>1, <1>2, <1>11, <2>2 DEF LastFrame
    <3> QED BY <1>6, <1>10, <2>2, <3>1
  <2> QED BY <2>1, <2>2
<1>13. /\ held' = m /\ q' = b
       /\ Track(VideoOf(q'.items), LastFrame', q'.dropping, FramesIn')
  BY <1>1, <1>2, <1>3, <1>9, <1>12
<1> QED BY <1>1, <1>6, <1>12, <1>13 DEF TrackInv, WireTypes

\* What was held is dropped: the queue follows the last frame of the connection, which
\* is 0 when nothing depends on it.
LEMMA TrackDropped ==
  ASSUME TrackInv, held' = None, UNCHANGED <<q, publisherVars, tb, wire>>, up' \in BOOLEAN,
         LastFrame' = LastFrame \/ LastFrame' = 0, up' => up
  PROVE  TrackInv'
<1>1. held' \in Message \cup {None} /\ ~DroppableVideo(held') /\ (held' # None => up')
  BY NoMessage
<1>2. tb' = tb /\ wire' = wire
  OBVIOUS
<1>3. UNCHANGED <<q, publisherVars>>
  OBVIOUS
<1>4. /\ tb'.armed \in BOOLEAN /\ tb'.base \in Nat
      /\ wire' = [frame |-> wire'.frame, ts |-> wire'.ts, essentials |-> wire'.essentials]
      /\ wire'.frame \in [n : Nat, key : BOOLEAN, header : Nat]
      /\ wire'.essentials \in [Classes -> Nat]
  BY <1>2 DEF TrackInv, WireTypes
<1>5. up' /\ tb'.armed => 0 < wire'.frame.n /\ tb'.base =< wire'.frame.n
  BY <1>2 DEF TrackInv
<1> QED BY <1>1, <1>3, <1>4, <1>5, TrackStays DEF TrackInv, WireTypes

LEMMA TrackSkip ==
  ASSUME TrackInv, SkipUntilKeyframe
  PROVE  TrackInv'
<1>1. /\ ~tb.armed /\ held' = None /\ up' = up /\ tb' = tb /\ wire' = wire
      /\ UNCHANGED <<q, publisherVars>>
  BY DEF SkipUntilKeyframe
<1>2. LastFrame' = 0
  BY <1>1, NoMessage DEF LastFrame
<1>3. up' \in BOOLEAN
  BY <1>1 DEF TrackInv, WireTypes
<1> QED BY <1>1, <1>2, <1>3, TrackDropped

LEMMA TrackDrop ==
  ASSUME TrackInv, DropOlderThanBase
  PROVE  TrackInv'
<1>1. /\ up /\ tb.armed /\ ~(held.ts >= tb.base) /\ held # None /\ held' = None
      /\ up' = up /\ tb' = tb /\ wire' = wire
      /\ UNCHANGED <<q, publisherVars>>
  BY DEF DropOlderThanBase, Translates
<1>2. /\ tb.base \in Nat /\ wire.frame.n \in Nat /\ up' \in BOOLEAN
      /\ held \in Message
  BY <1>1, WireTyped DEF TrackInv, WireTypes
<1>3. ~DroppableVideo(held)
  <2> SUFFICES ASSUME DroppableVideo(held) PROVE FALSE
    OBVIOUS
  <2>1. held.ts = held.n /\ wire.frame.n < held.n /\ tb.base =< wire.frame.n
    BY <1>1 DEF TrackInv
  <2>2. held.n \in Nat
    BY <1>2 DEF Message
  <2> QED BY <1>1, <1>2, <2>1, <2>2
<1>4. LastFrame' = LastFrame
  BY <1>1, <1>3, NoMessage DEF LastFrame
<1> QED BY <1>1, <1>2, <1>4, TrackDropped

LEMMA TrackFails ==
  ASSUME TrackInv, WriteFails
  PROVE  TrackInv'
<1>1. /\ held' = None /\ up' = FALSE /\ tb' = tb /\ wire' = wire
      /\ UNCHANGED <<q, publisherVars>>
  BY DEF WriteFails
<1>2. LastFrame' = 0
  BY <1>1, NoMessage DEF LastFrame
<1> QED BY <1>1, <1>2, TrackDropped

\* What a written message leaves at the destination.
LEMMA WrittenIs ==
  ASSUME NEW w, w = [frame |-> w.frame, ts |-> w.ts, essentials |-> w.essentials],
         w.frame \in [n : Nat, key : BOOLEAN, header : Nat], w.essentials \in [Classes -> Nat],
         NEW m \in Message, NEW base, NEW u, u = Written(w, m, base)
  PROVE  /\ u = [frame |-> u.frame, ts |-> u.ts, essentials |-> u.essentials]
         /\ u.frame \in [n : Nat, key : BOOLEAN, header : Nat] /\ u.essentials \in [Classes -> Nat]
         /\ DroppableVideo(m) => /\ u.frame = [n |-> m.n, key |-> m.key, header |-> m.header]
                                 /\ u.essentials = w.essentials
         /\ ~DroppableVideo(m) => u.frame = w.frame
         /\ \A c \in Classes : u.essentials[c] = IF EssentialClass(m) = c THEN m.n ELSE w.essentials[c]
<1>1. m.n \in Nat /\ m.key \in BOOLEAN /\ m.header \in Nat
  BY DEF Message
<1>2. /\ Essential(m) <=> EssentialClass(m) \in Classes
      /\ DroppableVideo(m) => ~Essential(m)
  BY Kinds
<1>3. u = [frame |-> IF DroppableVideo(m)
                     THEN [n |-> m.n, key |-> m.key, header |-> m.header] ELSE w.frame,
           ts |-> m.ts - base,
           essentials |-> IF Essential(m) THEN [w.essentials EXCEPT ![EssentialClass(m)] = m.n]
                          ELSE w.essentials]
  BY DEF Written
<1>4. /\ u.frame = IF DroppableVideo(m)
                   THEN [n |-> m.n, key |-> m.key, header |-> m.header] ELSE w.frame
      /\ u.essentials = IF Essential(m) THEN [w.essentials EXCEPT ![EssentialClass(m)] = m.n]
                        ELSE w.essentials
      /\ u = [frame |-> u.frame, ts |-> u.ts, essentials |-> u.essentials]
  BY <1>3
<1>5. u.frame \in [n : Nat, key : BOOLEAN, header : Nat]
  BY <1>1, <1>4
<1>6. u.essentials \in [Classes -> Nat]
  BY <1>1, <1>2, <1>4
<1>7. \A c \in Classes : u.essentials[c] = IF EssentialClass(m) = c THEN m.n ELSE w.essentials[c]
  BY <1>1, <1>2, <1>4
<1> QED BY <1>2, <1>4, <1>5, <1>6, <1>7

\* After a write the last frame of the connection is the one that was held, or the one
\* before it.
LEMMA TrackWritten ==
  ASSUME TrackInv, held # None, up, up' = up, held' = None, UNCHANGED <<q, publisherVars>>,
         NEW w, w = [frame |-> w.frame, ts |-> w.ts, essentials |-> w.essentials],
         w.frame = wire.frame, w.essentials \in [Classes -> Nat],
         NEW base \in Nat, tb'.armed = TRUE, tb'.base = base, wire' = Written(w, held, base),
         IF DroppableVideo(held) THEN base =< held.n
         ELSE tb.armed /\ base = tb.base
  PROVE  TrackInv'
<1>1. PICK m \in Message : m = held
  BY DEF TrackInv, WireTypes
<1>2. PICK u : u = wire'
  OBVIOUS
<1>3. wire.frame \in [n : Nat, key : BOOLEAN, header : Nat] /\ w.frame \in [n : Nat, key : BOOLEAN, header : Nat]
  BY DEF TrackInv, WireTypes
<1>4. /\ u = [frame |-> u.frame, ts |-> u.ts, essentials |-> u.essentials]
      /\ u.frame \in [n : Nat, key : BOOLEAN, header : Nat] /\ u.essentials \in [Classes -> Nat]
      /\ DroppableVideo(m) => u.frame = [n |-> m.n, key |-> m.key, header |-> m.header]
      /\ ~DroppableVideo(m) => u.frame = w.frame
  BY <1>1, <1>2, <1>3, WrittenIs
<1>5. tb'.armed = TRUE /\ tb'.base = base
  OBVIOUS
<1>6. ~DroppableVideo(held') /\ held' \in Message \cup {None}
  BY NoMessage
<1>7. LastFrame' = u.frame.n
  BY <1>2, <1>5, <1>6 DEF LastFrame
<1>8. LastFrame' = LastFrame /\ 0 < u.frame.n /\ base =< u.frame.n
  <2>1. CASE DroppableVideo(m)
    <3>1. u.frame.n = m.n /\ LastFrame = m.n /\ 0 < m.n /\ base =< m.n
      BY <1>1, <1>4, <2>1 DEF LastFrame, TrackInv
    <3> QED BY <1>7, <3>1
  <2>2. CASE ~DroppableVideo(m)
    <3>1. u.frame.n = wire.frame.n /\ LastFrame = wire.frame.n
      BY <1>1, <1>4, <2>2 DEF LastFrame
    <3>2. 0 < wire.frame.n /\ base =< wire.frame.n
      BY <1>1, <2>2 DEF TrackInv
    <3> QED BY <1>7, <3>1, <3>2
  <2> QED BY <2>1, <2>2
<1>9. (up' /\ tb'.armed => 0 < wire'.frame.n /\ tb'.base =< wire'.frame.n) /\ up' \in BOOLEAN
  BY <1>2, <1>5, <1>8 DEF TrackInv, WireTypes
<1>10. /\ tb'.armed \in BOOLEAN /\ tb'.base \in Nat
       /\ wire' = [frame |-> wire'.frame, ts |-> wire'.ts, essentials |-> wire'.essentials]
       /\ wire'.frame \in [n : Nat, key : BOOLEAN, header : Nat]
       /\ wire'.essentials \in [Classes -> Nat]
  BY <1>2, <1>4, <1>5
<1> QED BY <1>6, <1>8, <1>9, <1>10, TrackStays DEF TrackInv, WireTypes

LEMMA TrackStart ==
  ASSUME TrackInv, StartStream
  PROVE  TrackInv'
<1>1. /\ held # None /\ up /\ up' = up /\ held' = None /\ UNCHANGED <<q, publisherVars>>
      /\ DroppableVideo(held) /\ tb' = [armed |-> TRUE, base |-> held.ts]
      /\ wire' = Written([wire EXCEPT !.essentials = pre], held, held.ts)
  BY DEF StartStream, Starter
<1>2. PICK w : w = [wire EXCEPT !.essentials = pre]
  OBVIOUS
<1>3. w = [frame |-> wire.frame, ts |-> wire.ts, essentials |-> pre] /\ pre \in [Classes -> Nat]
  <2>1. wire = [frame |-> wire.frame, ts |-> wire.ts, essentials |-> wire.essentials]
    BY DEF TrackInv, WireTypes
  <2> QED BY <1>2, <2>1 DEF TrackInv, WireTypes
<1>4. /\ w = [frame |-> w.frame, ts |-> w.ts, essentials |-> w.essentials]
      /\ w.frame = wire.frame /\ w.essentials \in [Classes -> Nat]
  BY <1>3
<1>5. held \in Message /\ held.ts = held.n
  BY <1>1 DEF TrackInv, WireTypes
<1>6. PICK b \in Nat : b = held.ts /\ b =< held.n
  BY <1>5 DEF Message
<1>7. tb'.armed = TRUE /\ tb'.base = b /\ wire' = Written(w, held, b)
  BY <1>1, <1>2, <1>6
<1> QED BY <1>1, <1>4, <1>6, <1>7, TrackWritten

LEMMA TrackRelay ==
  ASSUME TrackInv, Relay
  PROVE  TrackInv'
<1>1. /\ held # None /\ up /\ up' = up /\ held' = None /\ UNCHANGED <<q, publisherVars>>
      /\ tb.armed /\ tb' = tb /\ wire' = Written(wire, held, tb.base)
  BY DEF Relay
<1>2. /\ wire = [frame |-> wire.frame, ts |-> wire.ts, essentials |-> wire.essentials]
      /\ wire.essentials \in [Classes -> Nat] /\ tb.base \in Nat /\ held \in Message
      /\ wire.frame.n \in Nat
  BY <1>1, WireTyped DEF TrackInv, WireTypes
<1>3. DroppableVideo(held) => tb.base =< held.n
  <2> SUFFICES ASSUME DroppableVideo(held) PROVE tb.base =< held.n
    OBVIOUS
  <2>1. tb.base =< wire.frame.n /\ wire.frame.n < held.n
    BY <1>1 DEF TrackInv
  <2>2. held.n \in Nat
    BY <1>2 DEF Message
  <2> QED BY <1>2, <2>1, <2>2
<1>4. tb'.armed = TRUE /\ tb'.base = tb.base
  BY <1>1 DEF TrackInv, WireTypes
<1> QED BY <1>1, <1>2, <1>3, <1>4, TrackWritten

LEMMA TrackInit ==
  Init => TrackInv
<1> SUFFICES ASSUME Init PROVE TrackInv
  OBVIOUS
<1>1. /\ q = EmptyQueue /\ inflight = None /\ held = None /\ up = FALSE /\ tb = Unarmed /\ wire = Fresh
      /\ pre = [c \in Classes |-> 0] /\ published = [s \in Streams |-> 0]
  BY DEF Init
<1>2. Sound(q) /\ ~q.closed /\ q.items = <<>> /\ q.dropping = FALSE
  BY <1>1, EmptySound DEF EmptyQueue
<1>3. ~DroppableVideo(held) /\ ~DroppableVideo(inflight)
  BY <1>1, NoMessage
<1>4. VideoOf(q.items) = <<>>
  <2>1. VideoAt(<<>>) = {}
    BY DEF VideoAt
  <2>2. VideoOf(q.items) \in Seq(Message) /\ Len(VideoOf(q.items)) = q.videoItems /\ q.videoItems = 0
    BY <1>1, <1>2, Tracks DEF EmptyQueue
  <2> QED BY <2>2, EmptySeq
<1>5. /\ published["video"] = 0 /\ \A c \in Classes : c \in Streams /\ pre[c] = published[c]
      /\ published \in [Streams -> Nat] /\ pre \in [Classes -> Nat]
  BY <1>1 DEF Streams
<1>6. LastFrame = 0 /\ FramesIn = 0
  BY <1>1, <1>3, <1>5 DEF LastFrame, FramesIn
<1>7. Track(<<>>, 0, FALSE, 0)
  BY DEF Track
<1>8. /\ wire = [frame |-> wire.frame, ts |-> wire.ts, essentials |-> wire.essentials]
      /\ wire.frame \in [n : Nat, key : BOOLEAN, header : Nat]
      /\ wire.essentials \in [Classes -> Nat]
      /\ tb.armed \in BOOLEAN /\ tb.base \in Nat
  BY <1>1 DEF Fresh, NoFrame, Unarmed
<1> QED BY <1>1, <1>2, <1>3, <1>4, <1>5, <1>6, <1>7, <1>8 DEF TrackInv, WireTypes

LEMMA TrackNext ==
  TrackInv /\ [Next]_vars => TrackInv'
<1> SUFFICES ASSUME TrackInv, [Next]_vars PROVE TrackInv'
  OBVIOUS
<1>1. CASE \E x \in Inputs : Observe(x)
  BY <1>1, TrackObserve
<1>2. CASE Enqueue
  BY <1>2, TrackEnqueue
<1>3. CASE Connect
  BY <1>3, TrackConnect
<1>4. CASE Pop
  BY <1>4, TrackPop
<1>5. CASE SkipUntilKeyframe
  BY <1>5, TrackSkip
<1>6. CASE StartStream
  BY <1>6, TrackStart
<1>7. CASE DropOlderThanBase
  BY <1>7, TrackDrop
<1>8. CASE Relay
  BY <1>8, TrackRelay
<1>9. CASE WriteFails
  BY <1>9, TrackFails
<1>10. CASE UNCHANGED vars
  <2>1. /\ UNCHANGED <<q, publisherVars>>
        /\ up' = up /\ held' = held /\ tb' = tb /\ wire' = wire
    BY <1>10 DEF vars, sinkVars
  <2>2. LastFrame' = LastFrame
    BY <2>1 DEF LastFrame
  <2> QED BY <2>1, <2>2, TrackStays DEF TrackInv, WireTypes
<1> QED BY <1>1, <1>2, <1>3, <1>4, <1>5, <1>6, <1>7, <1>8, <1>9, <1>10 DEF Next

\* At every moment decoder, held message, queue and publisher hold one track (deliver,
\* push, timebase).
THEOREM DeliveryTrack == Spec => []TrackInv
<1> QED BY TrackInit, TrackNext, PTL DEF Spec

\* A step that gives the destination a frame gives it a keyframe, or the next one.
LEMMA DecodableStep ==
  ASSUME TrackInv, [Next]_vars
  PROVE  wire'.frame # wire.frame /\ wire'.frame # NoFrame
         => wire'.frame.key \/ (wire.frame # NoFrame /\ wire'.frame.n = wire.frame.n + 1)
<1>1. CASE \/ wire' = wire
  BY <1>1
<1>2. CASE Connect
  BY <1>2 DEF Connect, Fresh
<1>3. CASE StartStream
  <2>1. /\ held # None /\ DroppableVideo(held) /\ held.key
        /\ wire' = Written([wire EXCEPT !.essentials = pre], held, held.ts)
    BY <1>3 DEF StartStream, Starter
  <2>2. wire' = [[wire EXCEPT !.essentials = pre] EXCEPT
                   !.frame = [n |-> held.n, key |-> held.key, header |-> held.header],
                   !.ts = held.ts - held.ts,
                   !.essentials = IF Essential(held) THEN [@ EXCEPT ![EssentialClass(held)] = held.n] ELSE @]
    BY <2>1 DEF Written
  <2>3. wire = [frame |-> wire.frame, ts |-> wire.ts, essentials |-> wire.essentials]
    BY DEF TrackInv, WireTypes
  <2>4. [wire EXCEPT !.essentials = pre] = [frame |-> wire.frame, ts |-> wire.ts, essentials |-> pre]
    BY <2>3
  <2>5. wire'.frame = [n |-> held.n, key |-> held.key, header |-> held.header]
    BY <2>2, <2>4
  <2> QED BY <2>1, <2>5
<1>4. CASE Relay
  <2>1. held # None /\ up /\ tb.armed /\ wire' = Written(wire, held, tb.base)
    BY <1>4 DEF Relay
  <2>2. /\ wire = [frame |-> wire.frame, ts |-> wire.ts, essentials |-> wire.essentials]
        /\ wire.frame \in [n : Nat, key : BOOLEAN, header : Nat]
        /\ wire.essentials \in [Classes -> Nat] /\ held \in Message
    BY <2>1 DEF TrackInv, WireTypes
  <2>3. /\ DroppableVideo(held) => wire'.frame = [n |-> held.n, key |-> held.key, header |-> held.header]
        /\ ~DroppableVideo(held) => wire'.frame = wire.frame
    BY <2>1, <2>2, WrittenIs
  <2>4. CASE DroppableVideo(held)
    <3>1. 0 < wire.frame.n /\ (held.key \/ held.n = wire.frame.n + 1)
      BY <2>1, <2>4 DEF TrackInv
    <3>2. wire.frame # NoFrame
      BY <3>1 DEF NoFrame
    <3> QED BY <2>3, <2>4, <3>1, <3>2
  <2>5. CASE ~DroppableVideo(held)
    BY <2>3, <2>5
  <2> QED BY <2>4, <2>5
<1>5. wire' = wire \/ Connect \/ StartStream \/ Relay
  <2>1. CASE \/ \E x \in Inputs : Observe(x)
             \/ Enqueue \/ Pop \/ SkipUntilKeyframe \/ DropOlderThanBase \/ WriteFails \/ UNCHANGED vars
    BY <2>1 DEF Observe, Enqueue, Pop, SkipUntilKeyframe, DropOlderThanBase, WriteFails, vars, sinkVars
  <2> QED BY <2>1 DEF Next
<1> QED BY <1>1, <1>2, <1>3, <1>4, <1>5

\* Whatever the queue discards and whenever a write fails, every connection gets a video
\* track that opens with a keyframe and of which each frame is a keyframe or comes right
\* after the one before (deliver; push "solo un keyframe reanuda el vídeo").
THEOREM DeliveryDecodable == Spec => WireDecodable
<1>1. TrackInv /\ [Next]_vars =>
        [wire'.frame # wire.frame /\ wire'.frame # NoFrame
         => wire'.frame.key \/ (wire.frame # NoFrame /\ wire'.frame.n = wire.frame.n + 1)]_vars
  BY DecodableStep
<1> QED BY <1>1, DeliveryTrack, PTL DEF Spec, WireDecodable
-----------------------------------------------------------------------------
\* The headers through the steps of a destination.

LEMMA HeadersTyped ==
  ASSUME TrackInv, HeaderInv
  PROVE  /\ HeadersIn \in Nat /\ Known \in Nat /\ Clock \in Nat /\ published["videoSeq"] \in Nat
         /\ HeadersIn =< published["videoSeq"] /\ pre["videoSeq"] = published["videoSeq"]
         /\ wire.frame.header \in Nat /\ wire.essentials["videoSeq"] \in Nat /\ tb.base \in Nat
         /\ "videoSeq" \in Classes
<1>1. "videoSeq" \in Classes /\ "videoSeq" \in Streams /\ "video" \in Streams
  BY DEF Classes, Streams
<1>2. /\ published \in [Streams -> Nat] /\ \A c \in Classes : pre[c] = published[c]
      /\ wire.frame \in [n : Nat, key : BOOLEAN, header : Nat]
      /\ wire.essentials \in [Classes -> Nat] /\ tb.base \in Nat
      /\ held \in Message \cup {None}
  BY DEF TrackInv, WireTypes
<1>3. /\ published["videoSeq"] \in Nat /\ Clock \in Nat /\ pre["videoSeq"] = published["videoSeq"]
      /\ wire.frame.header \in Nat /\ wire.essentials["videoSeq"] \in Nat
  BY <1>1, <1>2 DEF Clock
<1>4. HeadersIn \in Int /\ HeadersIn =< published["videoSeq"]
  <2>1. CASE EssentialClass(inflight) = "videoSeq"
    BY <1>3, <2>1 DEF HeadersIn
  <2>2. CASE EssentialClass(inflight) # "videoSeq"
    BY <1>3, <2>2 DEF HeadersIn
  <2> QED BY <2>1, <2>2
<1>5. wire.frame.header =< HeadersIn
  BY DEF HeaderInv
<1>6. HeadersIn \in Nat
  BY <1>3, <1>4, <1>5
<1>7. Known \in Nat
  <2>1. CASE EssentialClass(held) = "videoSeq"
    <3>1. held \in Message
      BY <1>2, <2>1, NoMessage
    <3> QED BY <2>1, <3>1 DEF Known, Message
  <2>2. CASE EssentialClass(held) # "videoSeq"
    BY <1>3, <2>2 DEF Known
  <2> QED BY <2>1, <2>2
<1> QED BY <1>1, <1>2, <1>3, <1>4, <1>6, <1>7

\* What is left of the parts of the invariant that a step does not touch, when the queue
\* and the publisher stay.
LEMMA HeadersStay ==
  ASSUME HeaderInv, UNCHANGED <<q, publisherVars>>
  PROVE  /\ q' = q /\ HeadersIn' = HeadersIn /\ Clock' = Clock
         /\ Clean(q.items, HeadersIn, Clock)'
         /\ (EssentialClass(inflight) = "videoSeq" => inflight.n = published["videoSeq"] /\ inflight.ts = Clock)'
         /\ (DroppableVideo(inflight) => inflight.header =< HeadersIn)'
<1>1. q' = q /\ pre' = pre /\ inflight' = inflight /\ published' = published
  BY DEF publisherVars
<1>2. HeadersIn' = HeadersIn /\ Clock' = Clock
  BY <1>1 DEF HeadersIn, Clock
<1> QED BY <1>1, <1>2 DEF HeaderInv

\* Time goes on.
LEMMA CleanLater ==
  ASSUME NEW s \in Seq(Message), NEW v, NEW now \in Nat, NEW later \in Nat, now =< later, Clean(s, v, now)
  PROVE  Clean(s, v, later)
<1>1. \A i \in DOMAIN s : s[i].ts \in Nat
  BY Typed
<1>2. \A i \in DOMAIN s : DroppableVideo(s[i]) => s[i].header =< v /\ s[i].ts =< later
  BY <1>1 DEF Clean
<1> QED BY <1>2 DEF Clean

LEMMA HeaderObserve ==
  ASSUME ~HeadersAtZero, TrackInv, HeaderInv, NEW x \in Inputs, Observe(x)
  PROVE  HeaderInv'
<1>1. /\ inflight = None /\ q' = q
      /\ up' = up /\ held' = held /\ tb' = tb /\ wire' = wire
      /\ published' = [published EXCEPT ![StreamOf(x)] = @ + 1]
  BY DEF Observe, sinkVars
<1>2. PICK ts \in Timestamps(x) : inflight' = Stamp(x, ts)
  BY DEF Observe
<1>3. PICK m : m = inflight'
  OBVIOUS
<1>4. published \in [Streams -> Nat] /\ "videoSeq" \in Streams /\ "video" \in Streams
  BY DEF TrackInv, WireTypes, Streams, Classes
<1>5. /\ m \in Message /\ m.ts = ts /\ EssentialClass(m) = EssentialClass(x) /\ Essential(m) = Essential(x)
      /\ DroppableVideo(m) = DroppableVideo(x)
      /\ StreamOf(x) \in Streams /\ m.n = published[StreamOf(x)] + 1
      /\ \A c \in Classes : c = StreamOf(x) <=> c = EssentialClass(x)
      /\ m.header = IF DroppableVideo(x) THEN published["videoSeq"] ELSE 0
  BY <1>2, <1>3, <1>4, StampIs
<1>6. /\ HeadersIn \in Nat /\ Clock \in Nat /\ published["videoSeq"] \in Nat /\ "videoSeq" \in Classes
      /\ published["video"] \in Nat
  BY <1>4, HeadersTyped
<1>7. HeadersIn = published["videoSeq"]
  BY <1>1, <1>6, NoMessage DEF HeadersIn
<1>8. ASSUME EssentialClass(m) = "videoSeq"
      PROVE  /\ m.n = published["videoSeq"] + 1 /\ published'["videoSeq"] = published["videoSeq"] + 1
             /\ Clock' = Clock /\ m.ts = Clock'
  <2>1. StreamOf(x) = "videoSeq" /\ Essential(x)
    <3>1. Essential(m)
      BY <1>5, <1>6, <1>8, Kinds
    <3> QED BY <1>5, <1>6, <1>8, <3>1
  <2>2. published'["videoSeq"] = published["videoSeq"] + 1 /\ published'["video"] = published["video"]
    <3>1. published' = [published EXCEPT !["videoSeq"] = published["videoSeq"] + 1]
      BY <1>1, <2>1
    <3>2. "video" # "videoSeq"
      OBVIOUS
    <3> QED BY <1>4, <3>1, <3>2
  <2>3. ts = Clock
    <3>1. HeadersAtZero = FALSE
      BY DeliveryBounds
    <3>2. ~DroppableVideo(x)
      BY <2>1 DEF DroppableVideo
    <3>3. Timestamps(x) = {IF HeadersAtZero THEN 0 ELSE Clock}
      BY <2>1, <3>2 DEF Timestamps
    <3> QED BY <3>1, <3>3
  <2> QED BY <1>5, <2>1, <2>2, <2>3 DEF Clock
<1>9. EssentialClass(m) # "videoSeq" => published'["videoSeq"] = published["videoSeq"]
  BY <1>1, <1>4, <1>5, <1>6
<1>10. HeadersIn' = HeadersIn
  <2>1. CASE EssentialClass(m) = "videoSeq"
    BY <1>3, <1>6, <1>7, <1>8, <2>1 DEF HeadersIn
  <2>2. CASE EssentialClass(m) # "videoSeq"
    BY <1>3, <1>6, <1>7, <1>9, <2>2 DEF HeadersIn
  <2> QED BY <2>1, <2>2
<1>11. Clock' \in Nat /\ Clock =< Clock'
  <2>1. CASE StreamOf(x) = "video"
    BY <1>1, <1>4, <1>6, <2>1 DEF Clock
  <2>2. CASE StreamOf(x) # "video"
    BY <1>1, <1>4, <1>5, <1>6, <2>2 DEF Clock
  <2> QED BY <2>1, <2>2
<1>12. Clean(q.items, HeadersIn, Clock')
  <2>1. Clean(q.items, HeadersIn, Clock) /\ q.items \in Seq(Message)
    BY WireTyped DEF HeaderInv
  <2> QED BY <1>6, <1>11, <2>1, CleanLater
<1>13. /\ EssentialClass(m) = "videoSeq" => m.n = published'["videoSeq"] /\ m.ts = Clock'
       /\ DroppableVideo(m) => m.header =< HeadersIn
  BY <1>5, <1>6, <1>7, <1>8
<1>14. DroppableVideo(held) => held.ts \in Nat /\ held.ts =< Clock'
  <2> SUFFICES ASSUME DroppableVideo(held) PROVE held.ts \in Nat /\ held.ts =< Clock'
    OBVIOUS
  <2>1. held \in Message /\ held.ts =< Clock
    BY NoMessage DEF TrackInv, WireTypes, HeaderInv
  <2>2. held.ts \in Nat
    BY <2>1 DEF Message
  <2> QED BY <1>6, <1>11, <2>1, <2>2
<1>15. up /\ tb.armed => tb.base =< Clock'
  <2> SUFFICES ASSUME up /\ tb.armed PROVE tb.base =< Clock'
    OBVIOUS
  <2>1. tb.base \in Nat /\ tb.base =< Clock
    BY HeadersTyped DEF HeaderInv
  <2> QED BY <1>6, <1>11, <2>1
<1>16. Known' = Known
  BY <1>1 DEF Known
<1> QED BY <1>1, <1>3, <1>10, <1>12, <1>13, <1>14, <1>15, <1>16 DEF HeaderInv

LEMMA HeaderEnqueue ==
  ASSUME TrackInv, HeaderInv, Enqueue
  PROVE  HeaderInv'
<1>1. /\ inflight # None /\ q' = Push(q, inflight) /\ inflight' = None /\ published' = published
      /\ up' = up /\ held' = held /\ tb' = tb /\ wire' = wire
  BY DEF Enqueue, sinkVars
<1>2. PICK m \in Message : m = inflight
  BY <1>1 DEF TrackInv, WireTypes
<1>3. PICK b : b = q'
  OBVIOUS
<1>4. Sound(q) /\ ~q.closed /\ q.items \in Seq(Message) /\ OneEach(q.items)
  <2>1. Sound(q) /\ ~q.closed
    BY DEF TrackInv, WireTypes
  <2> QED BY <2>1, WireTyped, OnlyOne
<1>5. /\ Sound(b)
      /\ \/ Refuses(q, m) /\ b.items = q.items /\ b.dropping = q.dropping
         \/ ~Refuses(q, m) /\ \E s : Takes(q, m, s, b)
  BY <1>1, <1>2, <1>3, <1>4, PushTakes
<1>6. b.items \in Seq(Message)
  BY <1>5, BooksOf
<1>7. PICK v \in Nat : v = HeadersIn
  BY HeadersTyped
<1>8. PICK w \in Nat : w = published["videoSeq"] /\ v =< w
  BY <1>7, HeadersTyped
<1>9. PICK now \in Nat : now = Clock
  BY HeadersTyped
<1>10. PICK e \in Nat : e = Known
  BY HeadersTyped
<1>11. Clean(q.items, v, now)
  BY <1>7, <1>9 DEF HeaderInv
<1>12. Follows(m, v, w, now)
  <2>1. CASE EssentialClass(m) = "videoSeq"
    <3>1. m.n = w /\ m.ts = now
      BY <1>2, <1>8, <1>9, <2>1 DEF HeaderInv
    <3>2. ~DroppableVideo(m)
      BY <2>1, Kinds DEF Classes
    <3> QED BY <1>8, <2>1, <3>1, <3>2 DEF Follows
  <2>2. CASE EssentialClass(m) # "videoSeq"
    <3>1. w = v
      BY <1>2, <1>7, <1>8, <2>2 DEF HeadersIn
    <3>2. DroppableVideo(m) => m.header =< v /\ m.ts =< now
      <4> SUFFICES ASSUME DroppableVideo(m) PROVE m.header =< v /\ m.ts =< now
        OBVIOUS
      <4>1. m.header =< v
        BY <1>2, <1>7 DEF HeaderInv
      <4>2. m.ts = now
        BY <1>2, <1>9 DEF TrackInv, Clock
      <4> QED BY <4>1, <4>2
    <3> QED BY <1>8, <2>2, <3>1, <3>2 DEF Follows
  <2> QED BY <2>1, <2>2
<1>13. ASSUME NEW base \in Nat, base =< now
       PROVE  /\ Clean(b.items, w, now)
              /\ After(q.items, base) => After(b.items, base)
              /\ Ready(q.items, v, e) => Ready(b.items, w, e)
  <2>1. CASE Refuses(q, m)
    <3>1. EssentialClass(m) # "videoSeq"
      <4>1. DroppableVideo(m)
        BY <2>1 DEF Refuses
      <4> QED BY <4>1, Kinds DEF Classes
    <3>2. w = v
      BY <1>12, <3>1 DEF Follows
    <3> QED BY <1>5, <1>11, <2>1, <3>2
  <2>2. CASE ~Refuses(q, m)
    <3>1. PICK s : Takes(q, m, s, b)
      BY <1>5, <2>2
    <3>2. s \in Seq(Message) /\ Placed(q.items, m, s) /\ Kept(s, b.items)
      BY <3>1 DEF Takes
    <3>3. /\ Clean(s, w, now)
          /\ After(q.items, base) => After(s, base)
          /\ Ready(q.items, v, e) => Ready(s, w, e)
      BY <1>4, <1>11, <1>12, <1>13, <3>2, PlacedReady
    <3> QED BY <1>6, <3>2, <3>3, KeptReady
  <2> QED BY <2>1, <2>2
<1>14. HeadersIn' = w /\ Clock' = now /\ Known' = e
  BY <1>1, <1>8, <1>9, <1>10, NoMessage DEF HeadersIn, Clock, Known
<1>15. Clean(b.items, w, now)
  <2>1. 0 =< now
    OBVIOUS
  <2> QED BY <1>13, <2>1
<1>16. wire.frame.header =< w
  <2>1. wire.frame.header \in Nat /\ wire.frame.header =< v
    BY <1>7, HeadersTyped DEF HeaderInv
  <2> QED BY <1>8, <2>1
<1>17. EssentialClass(held) = "videoSeq" => held.n =< w
  <2> SUFFICES ASSUME EssentialClass(held) = "videoSeq" PROVE held.n =< w
    OBVIOUS
  <2>1. held \in Message /\ held.n =< v
    BY <1>7, NoMessage DEF TrackInv, WireTypes, HeaderInv
  <2>2. held.n \in Nat
    BY <2>1 DEF Message
  <2> QED BY <1>8, <2>1, <2>2
<1>18. DroppableVideo(held) => held.header =< w /\ After(b.items, held.ts)
  <2> SUFFICES ASSUME DroppableVideo(held) PROVE held.header =< w /\ After(b.items, held.ts)
    OBVIOUS
  <2>1. held \in Message /\ held.header =< v /\ After(q.items, held.ts) /\ held.ts =< now
    BY <1>7, <1>9, NoMessage DEF TrackInv, WireTypes, HeaderInv
  <2>2. held.header \in Nat /\ held.ts \in Nat
    BY <2>1 DEF Message
  <2> QED BY <1>8, <1>13, <2>1, <2>2
<1>19. up /\ tb.armed => Ready(b.items, w, e) /\ After(b.items, tb.base)
  <2> SUFFICES ASSUME up /\ tb.armed PROVE Ready(b.items, w, e) /\ After(b.items, tb.base)
    OBVIOUS
  <2>1. /\ Ready(q.items, v, e) /\ After(q.items, tb.base) /\ tb.base =< now /\ tb.base \in Nat
    BY <1>7, <1>9, <1>10, HeadersTyped DEF HeaderInv
  <2> QED BY <1>13, <2>1
<1>20. ~DroppableVideo(inflight') /\ EssentialClass(inflight') # "videoSeq"
  BY <1>1, NoMessage
<1> QED BY <1>1, <1>3, <1>9, <1>10, <1>14, <1>15, <1>16, <1>17, <1>18, <1>19, <1>20 DEF HeaderInv

LEMMA HeaderConnect ==
  ASSUME TrackInv, HeaderInv, Connect
  PROVE  HeaderInv'
<1>1. /\ ~up /\ tb' = Unarmed /\ wire' = Fresh /\ held' = held /\ UNCHANGED <<q, publisherVars>>
  BY DEF Connect
<1>2. held = None
  BY <1>1 DEF TrackInv, WireTypes
<1>3. ~DroppableVideo(held') /\ EssentialClass(held') # "videoSeq"
  BY <1>1, <1>2, NoMessage
<1>4. ~tb'.armed
  BY <1>1 DEF Unarmed
<1>5. wire'.frame.header = 0 /\ wire'.essentials["videoSeq"] = 0
  BY <1>1 DEF Fresh, NoFrame, Classes
<1>6. HeadersIn \in Nat /\ HeadersIn' = HeadersIn
  BY <1>1, HeadersTyped, HeadersStay
<1>7. wire'.frame.header =< wire'.essentials["videoSeq"] /\ wire'.frame.header =< HeadersIn'
  BY <1>5, <1>6
<1> QED BY <1>1, <1>3, <1>4, <1>7, HeadersStay DEF HeaderInv

LEMMA HeaderPop ==
  ASSUME TrackInv, HeaderInv, Pop
  PROVE  HeaderInv'
<1>1. /\ up /\ held = None /\ q.items # <<>> /\ held' = Head(q.items) /\ q' = PopRest(q)
      /\ inflight' = inflight /\ published' = published
      /\ up' = up /\ tb' = tb /\ wire' = wire
  BY DEF Pop, publisherVars
<1>2. PICK m : m = Head(q.items)
  OBVIOUS
<1>3. PICK b : b = PopRest(q)
  OBVIOUS
<1>4. Sound(q) /\ q.items \in Seq(Message) /\ OneEach(q.items)
  <2>1. Sound(q)
    BY DEF TrackInv, WireTypes
  <2> QED BY <2>1, WireTyped, OnlyOne
<1>5. Loses(q, m, b)
  BY <1>1, <1>2, <1>3, <1>4, Popped
<1>6. Sound(b) /\ m \in Message /\ Beheads(q.items, m, b.items)
  BY <1>5 DEF Loses
<1>7. b.items \in Seq(Message)
  BY <1>6, BooksOf
<1>8. PICK v \in Nat : v = HeadersIn
  BY HeadersTyped
<1>9. PICK now \in Nat : now = Clock
  BY HeadersTyped
<1>10. PICK e \in Nat : e = Known
  BY HeadersTyped
<1>11. Clean(q.items, v, now)
  BY <1>8, <1>9 DEF HeaderInv
<1>12. /\ Clean(b.items, v, now)
       /\ After(q.items, tb.base) => After(b.items, tb.base) /\ (EssentialClass(m) = "videoSeq" => tb.base =< m.ts)
       /\ EssentialClass(m) = "videoSeq" => m.n = v /\ Ready(b.items, v, m.n)
       /\ DroppableVideo(m) => m.header =< v /\ m.ts =< now /\ After(b.items, m.ts)
       /\ Ready(q.items, v, e) => /\ EssentialClass(m) # "videoSeq" => Ready(b.items, v, e)
                                  /\ DroppableVideo(m) => m.header =< e
  BY <1>4, <1>6, <1>7, <1>11, TakenReady
<1>13. e = wire.essentials["videoSeq"]
  BY <1>1, <1>10, NoMessage DEF Known
<1>14. HeadersIn' = v /\ Clock' = now /\ Known' = IF EssentialClass(m) = "videoSeq" THEN m.n ELSE e
  BY <1>1, <1>2, <1>8, <1>9, <1>13 DEF HeadersIn, Clock, Known
<1>15. DroppableVideo(m) => EssentialClass(m) # "videoSeq"
  BY <1>6, Kinds DEF Classes
<1>16. up /\ tb.armed => /\ Ready(q.items, v, e) /\ After(q.items, tb.base) /\ tb.base =< now
  BY <1>8, <1>9, <1>10 DEF HeaderInv
<1>17. wire.frame.header =< wire.essentials["videoSeq"] /\ wire.frame.header =< v /\ v =< v
  BY <1>8 DEF HeaderInv
<1>18. held' = m /\ q' = b
  BY <1>1, <1>2, <1>3
<1>19. /\ EssentialClass(m) = "videoSeq" => /\ wire.frame.header =< m.n /\ m.n =< v
                                            /\ up /\ tb.armed => tb.base =< m.ts
       /\ up /\ tb.armed => /\ Ready(b.items, v, Known') /\ After(b.items, tb.base) /\ tb.base =< now
                            /\ DroppableVideo(m) => m.header =< Known'
  BY <1>12, <1>14, <1>15, <1>16, <1>17
<1>20. /\ (EssentialClass(inflight) = "videoSeq" => inflight.n = published["videoSeq"] /\ inflight.ts = now)
       /\ (DroppableVideo(inflight) => inflight.header =< v)
  BY <1>8, <1>9 DEF HeaderInv
<1> QED BY <1>1, <1>12, <1>14, <1>17, <1>18, <1>19, <1>20 DEF HeaderInv

LEMMA HeaderSkip ==
  ASSUME HeaderInv, held' = None, UNCHANGED <<q, publisherVars, wire>>,
         up' /\ tb'.armed => up /\ tb.armed /\ tb'.base = tb.base /\ EssentialClass(held) # "videoSeq"
  PROVE  HeaderInv'
<1>1. ~DroppableVideo(held') /\ EssentialClass(held') # "videoSeq" /\ wire' = wire
  BY NoMessage
<1>2. UNCHANGED <<q, publisherVars>>
  OBVIOUS
<1>3. /\ q' = q /\ HeadersIn' = HeadersIn /\ Clock' = Clock
      /\ Clean(q.items, HeadersIn, Clock)'
      /\ (EssentialClass(inflight) = "videoSeq" => inflight.n = published["videoSeq"] /\ inflight.ts = Clock)'
      /\ (DroppableVideo(inflight) => inflight.header =< HeadersIn)'
  BY <1>2, HeadersStay
<1>4. ASSUME up', tb'.armed
      PROVE  Ready(q.items, HeadersIn, Known') /\ After(q.items, tb'.base) /\ tb'.base =< Clock
  <2>1. up /\ tb.armed /\ tb'.base = tb.base /\ EssentialClass(held) # "videoSeq"
    BY <1>4
  <2>2. Known' = Known
    BY <1>1, <2>1 DEF Known
  <2> QED BY <2>1, <2>2 DEF HeaderInv
<1>5. wire.frame.header =< wire.essentials["videoSeq"] /\ wire.frame.header =< HeadersIn
  BY DEF HeaderInv
<1> QED BY <1>1, <1>3, <1>4, <1>5 DEF HeaderInv

LEMMA HeaderDrop ==
  ASSUME TrackInv, HeaderInv, DropOlderThanBase
  PROVE  HeaderInv'
<1>1. /\ up /\ tb.armed /\ ~(held.ts >= tb.base) /\ held # None /\ held' = None
      /\ up' = up /\ tb' = tb /\ wire' = wire
      /\ UNCHANGED <<q, publisherVars>>
  BY DEF DropOlderThanBase, Translates
<1>2. EssentialClass(held) # "videoSeq"
  <2> SUFFICES ASSUME EssentialClass(held) = "videoSeq" PROVE FALSE
    OBVIOUS
  <2>1. held \in Message /\ tb.base =< held.ts /\ tb.base \in Nat
    BY <1>1, HeadersTyped DEF TrackInv, WireTypes, HeaderInv
  <2>2. held.ts \in Nat
    BY <2>1 DEF Message
  <2> QED BY <1>1, <2>1, <2>2
<1> QED BY <1>1, <1>2, HeaderSkip

LEMMA HeaderStart ==
  ASSUME TrackInv, HeaderInv, StartStream
  PROVE  HeaderInv'
<1>1. /\ held # None /\ up /\ up' = up /\ held' = None /\ UNCHANGED <<q, publisherVars>>
      /\ DroppableVideo(held) /\ tb' = [armed |-> TRUE, base |-> held.ts]
      /\ wire' = Written([wire EXCEPT !.essentials = pre], held, held.ts)
  BY DEF StartStream, Starter
<1>2. PICK m \in Message : m = held
  BY <1>1 DEF TrackInv, WireTypes
<1>3. PICK w : w = [wire EXCEPT !.essentials = pre]
  OBVIOUS
<1>4. w = [frame |-> wire.frame, ts |-> wire.ts, essentials |-> pre]
  <2>1. wire = [frame |-> wire.frame, ts |-> wire.ts, essentials |-> wire.essentials]
    BY DEF TrackInv, WireTypes
  <2> QED BY <1>3, <2>1
<1>5. /\ w = [frame |-> w.frame, ts |-> w.ts, essentials |-> w.essentials]
      /\ w.frame \in [n : Nat, key : BOOLEAN, header : Nat] /\ w.essentials \in [Classes -> Nat]
      /\ w.essentials = pre
  BY <1>4 DEF TrackInv, WireTypes
<1>6. PICK u : u = wire'
  OBVIOUS
<1>7. /\ u.frame = [n |-> m.n, key |-> m.key, header |-> m.header]
      /\ u.essentials = pre
  <2>1. u = Written(w, m, m.ts)
    BY <1>1, <1>2, <1>3, <1>6
  <2> QED BY <1>1, <1>2, <1>5, <2>1, WrittenIs
<1>8. PICK v \in Nat : v = HeadersIn
  BY HeadersTyped
<1>9. PICK e \in Nat : e = pre["videoSeq"] /\ v =< e
  BY <1>8, HeadersTyped
<1>10. PICK now \in Nat : now = Clock
  BY HeadersTyped
<1>11. Clean(q.items, v, now) /\ m.header =< v /\ After(q.items, m.ts) /\ m.ts =< now /\ m.header \in Nat
  BY <1>1, <1>2, <1>8, <1>10 DEF HeaderInv, Message
<1>12. Ready(q.items, v, e)
  <2>1. ASSUME NEW i \in DOMAIN q.items, DroppableVideo(q.items[i]) PROVE q.items[i].header =< e
    <3>1. q.items[i].header =< v /\ q.items[i].header \in Nat
      BY <1>11, <2>1, WireTyped, Typed DEF Clean
    <3> QED BY <1>9, <3>1
  <2> QED BY <1>9, <2>1 DEF Ready
<1>13. ~DroppableVideo(held') /\ EssentialClass(held') # "videoSeq"
  BY <1>1, NoMessage
<1>14. Known' = e
  BY <1>6, <1>7, <1>9, <1>13 DEF Known
<1>15. wire'.frame.header =< wire'.essentials["videoSeq"] /\ wire'.frame.header =< v
  <2>1. m.header =< e
    BY <1>9, <1>11
  <2> QED BY <1>6, <1>7, <1>9, <1>11, <2>1
<1>16. tb'.base = m.ts
  BY <1>1, <1>2
<1>17. UNCHANGED <<q, publisherVars>>
  BY <1>1
<1>18. /\ q' = q /\ HeadersIn' = v /\ Clock' = now
       /\ Clean(q.items, HeadersIn, Clock)'
       /\ (EssentialClass(inflight) = "videoSeq" => inflight.n = published["videoSeq"] /\ inflight.ts = Clock)'
       /\ (DroppableVideo(inflight) => inflight.header =< HeadersIn)'
  BY <1>8, <1>10, <1>17, HeadersStay
<1> QED BY <1>11, <1>12, <1>13, <1>14, <1>15, <1>16, <1>18 DEF HeaderInv

LEMMA HeaderRelay ==
  ASSUME TrackInv, HeaderInv, Relay
  PROVE  HeaderInv'
<1>1. /\ held # None /\ up /\ up' = up /\ held' = None /\ UNCHANGED <<q, publisherVars>>
      /\ tb.armed /\ tb' = tb /\ wire' = Written(wire, held, tb.base)
  BY DEF Relay
<1>2. PICK m \in Message : m = held
  BY <1>1 DEF TrackInv, WireTypes
<1>3. PICK u : u = wire'
  OBVIOUS
<1>4. /\ DroppableVideo(m) => /\ u.frame = [n |-> m.n, key |-> m.key, header |-> m.header]
                              /\ u.essentials = wire.essentials
      /\ ~DroppableVideo(m) => u.frame = wire.frame
      /\ u.essentials["videoSeq"] = IF EssentialClass(m) = "videoSeq" THEN m.n ELSE wire.essentials["videoSeq"]
  <2>1. /\ wire = [frame |-> wire.frame, ts |-> wire.ts, essentials |-> wire.essentials]
        /\ wire.frame \in [n : Nat, key : BOOLEAN, header : Nat]
        /\ wire.essentials \in [Classes -> Nat]
    BY DEF TrackInv, WireTypes
  <2>2. u = Written(wire, m, tb.base)
    BY <1>1, <1>2, <1>3
  <2>3. "videoSeq" \in Classes
    BY HeadersTyped
  <2> QED BY <2>1, <2>2, <2>3, WrittenIs
<1>5. u.essentials["videoSeq"] = Known
  BY <1>2, <1>4 DEF Known
<1>6. ~DroppableVideo(held') /\ EssentialClass(held') # "videoSeq"
  BY <1>1, NoMessage
<1>7. Known' = Known
  BY <1>3, <1>5, <1>6 DEF Known
<1>8. u.frame.header =< u.essentials["videoSeq"] /\ u.frame.header =< HeadersIn
  <2>1. CASE DroppableVideo(m)
    <3>1. m.header =< Known /\ m.header =< HeadersIn
      BY <1>1, <1>2, <2>1 DEF HeaderInv
    <3> QED BY <1>4, <1>5, <2>1, <3>1
  <2>2. CASE EssentialClass(m) = "videoSeq"
    <3>1. ~DroppableVideo(m)
      BY <2>2, Kinds DEF Classes
    <3>2. wire.frame.header =< m.n /\ wire.frame.header =< HeadersIn
      BY <1>2, <2>2 DEF HeaderInv
    <3> QED BY <1>4, <2>2, <3>1, <3>2
  <2>3. CASE ~DroppableVideo(m) /\ EssentialClass(m) # "videoSeq"
    BY <1>4, <2>3 DEF HeaderInv
  <2> QED BY <2>1, <2>2, <2>3
<1>9. UNCHANGED <<q, publisherVars>>
  BY <1>1
<1>10. /\ q' = q /\ HeadersIn' = HeadersIn /\ Clock' = Clock
       /\ Clean(q.items, HeadersIn, Clock)'
       /\ (EssentialClass(inflight) = "videoSeq" => inflight.n = published["videoSeq"] /\ inflight.ts = Clock)'
       /\ (DroppableVideo(inflight) => inflight.header =< HeadersIn)'
  BY <1>9, HeadersStay
<1>11. Ready(q.items, HeadersIn, Known) /\ After(q.items, tb.base) /\ tb.base =< Clock /\ tb' = tb
  BY <1>1 DEF HeaderInv
<1> QED BY <1>3, <1>6, <1>7, <1>8, <1>10, <1>11 DEF HeaderInv

LEMMA HeaderInit ==
  Init => HeaderInv
<1> SUFFICES ASSUME Init PROVE HeaderInv
  OBVIOUS
<1>1. /\ q = EmptyQueue /\ inflight = None /\ held = None /\ up = FALSE /\ wire = Fresh
      /\ published = [s \in Streams |-> 0]
  BY DEF Init
<1>2. q.items = <<>> /\ DOMAIN q.items = {}
  BY <1>1, EmptySeq DEF EmptyQueue
<1>3. /\ ~DroppableVideo(held) /\ ~DroppableVideo(inflight)
      /\ EssentialClass(held) # "videoSeq" /\ EssentialClass(inflight) # "videoSeq"
  BY <1>1, NoMessage
<1>4. Clean(q.items, HeadersIn, Clock)
  BY <1>2 DEF Clean
<1>5. HeadersIn = 0 /\ wire.frame.header = 0 /\ wire.essentials["videoSeq"] = 0
  <2>1. published["videoSeq"] = 0
    BY <1>1 DEF Streams, Classes
  <2> QED BY <1>1, <1>3, <2>1 DEF HeadersIn, Fresh, NoFrame, Classes
<1>6. wire.frame.header =< wire.essentials["videoSeq"] /\ wire.frame.header =< HeadersIn
  BY <1>5
<1> QED BY <1>1, <1>3, <1>4, <1>6 DEF HeaderInv

LEMMA HeaderNext ==
  ~HeadersAtZero /\ TrackInv /\ HeaderInv /\ [Next]_vars => HeaderInv'
<1> SUFFICES ASSUME ~HeadersAtZero, TrackInv, HeaderInv, [Next]_vars PROVE HeaderInv'
  OBVIOUS
<1>1. CASE \E x \in Inputs : Observe(x)
  BY <1>1, HeaderObserve
<1>2. CASE Enqueue
  BY <1>2, HeaderEnqueue
<1>3. CASE Connect
  BY <1>3, HeaderConnect
<1>4. CASE Pop
  BY <1>4, HeaderPop
<1>5. CASE SkipUntilKeyframe
  <2>1. ~tb.armed /\ tb' = tb /\ held' = None /\ UNCHANGED <<q, publisherVars, wire>>
    BY <1>5 DEF SkipUntilKeyframe
  <2> QED BY <2>1, HeaderSkip
<1>6. CASE StartStream
  BY <1>6, HeaderStart
<1>7. CASE DropOlderThanBase
  BY <1>7, HeaderDrop
<1>8. CASE Relay
  BY <1>8, HeaderRelay
<1>9. CASE WriteFails
  <2>1. up' = FALSE /\ held' = None /\ UNCHANGED <<q, publisherVars, wire>>
    BY <1>9 DEF WriteFails
  <2> QED BY <2>1, HeaderSkip
<1>10. CASE UNCHANGED vars
  <2>1. /\ UNCHANGED <<q, publisherVars>>
        /\ up' = up /\ held' = held /\ tb' = tb /\ wire' = wire
    BY <1>10 DEF vars, sinkVars
  <2>2. Known' = Known
    BY <2>1 DEF Known
  <2>3. /\ q' = q /\ HeadersIn' = HeadersIn /\ Clock' = Clock
        /\ Clean(q.items, HeadersIn, Clock)'
        /\ (EssentialClass(inflight) = "videoSeq" => inflight.n = published["videoSeq"] /\ inflight.ts = Clock)'
        /\ (DroppableVideo(inflight) => inflight.header =< HeadersIn)'
    BY <2>1, HeadersStay
  <2> QED BY <2>1, <2>2, <2>3 DEF HeaderInv
<1> QED BY <1>1, <1>2, <1>3, <1>4, <1>5, <1>6, <1>7, <1>8, <1>9, <1>10 DEF Next

\* When the headers carry their time, no destination gets a frame before the header the
\* frame was encoded under: it is in the preamble, or it is ahead of the frame in the queue
\* and no older than the anchor (sendPreamble, replaceEssential, translate).  A publisher
\* that stamps its headers with 0 is the exception the run shows.
THEOREM DeliveryHeaders == ~HeadersAtZero => (Spec => []HeaderBeforeFrame)
<1>1. HeaderInv => HeaderBeforeFrame
  BY DEF HeaderInv, HeaderBeforeFrame
<1>2. CASE ~HeadersAtZero
  <2>1. Init => HeaderInv
    BY HeaderInit
  <2>2. TrackInv /\ HeaderInv /\ [Next]_vars => HeaderInv'
    BY <1>2, HeaderNext
  <2> QED BY <1>1, <2>1, <2>2, DeliveryTrack, PTL DEF Spec
<1> QED BY <1>2
=============================================================================
