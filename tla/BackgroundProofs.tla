-------------------------- MODULE BackgroundProofs --------------------------
(***************************************************************************)
(* The machines that run beside the session, for every value of their      *)
(* constants: the connections to one destination (FeedInv), the alerts     *)
(* (AlertInv), the recordings (RecInv, QuotaInv), a sink's life (SinkInv). *)
(* The properties the runs check follow from the invariants.               *)
(*                                                                         *)
(* StopIsFinal of SinkLife needs the order of Start's three steps: a Stop  *)
(* that does not see the flag returns at once, and what stops the          *)
(* goroutine then is that quit was already closed when it reaches the top  *)
(* of its loop.                                                            *)
(***************************************************************************)
EXTENDS RtmpFeeds, Alerts, Recordings, SinkLife, SequenceTheorems, SetFacts

PublisherStates ==
  [user : FeedSinks \cup {Probe, Nobody},
   at   : {"unused", "dialing", "handshake", "publish", "live", "failed", "closed"},
   dial : {"none", "running", "open", "failed"},
   wire : {"none", "open", "cut", "closed"},
   slot : BOOLEAN]

InUse(r) == r.at \notin {"unused", "closed"}

\* The platform is fed only by one that published and is not closed yet; a socket is
\* the dial's until it is handed over, and none is there before the dial has ended.
Sound(r) ==
  /\ r.slot => r.at \in {"live", "failed"}
  /\ r.wire \in {"open", "cut"} => r.dial = "open" \/ r.at \in {"handshake", "publish", "live", "failed"}
  /\ r.dial \in {"running", "failed"} => r.wire \notin {"open", "cut"}

\* A publisher is used by the probe that is served or by a sink that has not returned,
\* one each; and one sink at most is running and not being replaced.
Owned ==
  /\ \A p \in Pubs : InUse(publ[p]) =>
       \/ UserOf(p) = Probe /\ probe
       \/ UserOf(p) \in FeedSinks /\ sink[UserOf(p)] # "new"
  /\ \A p, q \in Pubs : p # q /\ InUse(publ[p]) /\ InUse(publ[q]) => UserOf(p) # UserOf(q)
  /\ \A s, t \in FeedSinks : sink[s] = "running" /\ sink[t] = "running" => s = t

FeedInv == FeedTypeOK /\ (\A p \in Pubs : Sound(publ[p])) /\ Owned

\* The ranges of the variables, with a publisher as a record of its fields.
LEMMA FeedTypes ==
  FeedTypeOK <=> /\ publ \in [Pubs -> PublisherStates]
                 /\ sink \in [FeedSinks -> {"new", "running", "replaced", "stopping"}]
                 /\ probe \in BOOLEAN
BY DEF FeedTypeOK, PublisherStates

\* A publisher that nobody uses.
LEMMA UnusedSound == Unused \in PublisherStates /\ Sound(Unused) /\ ~InUse(Unused)
BY DEF Unused, PublisherStates, Sound, InUse, Nobody, Probe

\* There is no publisher and no sink.
LEMMA FeedInitInv == FeedInit => FeedInv
<1> SUFFICES ASSUME FeedInit PROVE FeedInv
  OBVIOUS
<1>1. FeedTypeOK
  BY FeedTypes, UnusedSound DEF FeedInit
<1>2. \A p \in Pubs : Sound(publ[p]) /\ ~InUse(publ[p])
  BY UnusedSound DEF FeedInit
<1> QED BY <1>1, <1>2 DEF FeedInit, FeedInv, Owned

\* What one publisher does for the user it has keeps the invariant, if its new state
\* is sound and it does not come back into use.
LEMMA BecomesKeeps ==
  ASSUME FeedInv, NEW p \in Pubs, NEW r \in PublisherStates, Becomes(p, r),
         UNCHANGED <<sink, probe>>, r.user = UserOf(p), Sound(r),
         InUse(r) => InUse(publ[p])
  PROVE  FeedInv'
<1>1. /\ publ \in [Pubs -> PublisherStates] /\ probe \in BOOLEAN
      /\ sink \in [FeedSinks -> {"new", "running", "replaced", "stopping"}]
  BY FeedTypes DEF FeedInv
<1>2. PICK x \in PublisherStates :
        /\ publ' = [publ EXCEPT ![p] = x] /\ Sound(x)
        /\ InUse(x) => InUse(publ[p]) /\ x.user = UserOf(p)
  BY UnusedSound DEF Becomes
<1>3. publ' \in [Pubs -> PublisherStates] /\ publ'[p] = x /\ \A q \in Pubs : q # p => publ'[q] = publ[q]
  BY <1>1, <1>2
<1>4. FeedTypeOK'
  BY <1>1, <1>3 DEF FeedTypeOK, PublisherStates
<1>5. \A q \in Pubs : Sound(publ'[q])
  BY <1>2, <1>3 DEF FeedInv
<1>6. \A q \in Pubs : InUse(publ'[q]) => InUse(publ[q]) /\ publ'[q].user = publ[q].user
  BY <1>2, <1>3 DEF UserOf
<1>7. Owned'
  BY <1>6 DEF FeedInv, Owned, UserOf, InUse
<1> QED BY <1>4, <1>5, <1>7 DEF FeedInv, Sound

\* Whoever begins has nothing in use: the publisher it takes is its only one.
LEMMA NewPublisherKeeps ==
  ASSUME FeedInv, NEW u \in FeedSinks \cup {Probe}, NewPublisher(u), UNCHANGED sink,
         probe' \in BOOLEAN, probe => probe',
         u = Probe => probe', u \in FeedSinks => sink[u] # "new"
  PROVE  FeedInv'
<1>1. /\ publ \in [Pubs -> PublisherStates] /\ probe \in BOOLEAN
      /\ sink \in [FeedSinks -> {"new", "running", "replaced", "stopping"}]
  BY FeedTypes DEF FeedInv
<1> DEFINE m == Min(FreePubs)
           x == [Unused EXCEPT !.user = u, !.at = "dialing", !.dial = "running"]
<1>2. m \in Pubs /\ m \in FreePubs
  <2>1. FreePubs \in SUBSET Pubs /\ IsFiniteSet(Pubs) /\ Pubs \in SUBSET Int
    BY FeedConstants DEF FreePubs
  <2>2. IsFiniteSet(FreePubs)
    BY <2>1, FS_Subset
  <2>3. FreePubs \in SUBSET Int /\ FreePubs # {}
    BY <2>1 DEF NewPublisher
  <2>4. Min(FreePubs) \in FreePubs
    BY <2>2, <2>3, LeastOfSome
  <2> QED BY <2>1, <2>4
<1>3. /\ x.user = u /\ x.at = "dialing" /\ x.dial = "running" /\ x.wire = "none" /\ x.slot = FALSE
      /\ x \in PublisherStates
  BY DEF Unused, PublisherStates
<1> HIDE DEF m, x
<1>4. publ' = [publ EXCEPT ![m] = x]
  BY DEF NewPublisher, m, x
<1>5. publ' \in [Pubs -> PublisherStates] /\ publ'[m] = x /\ \A q \in Pubs : q # m => publ'[q] = publ[q]
  BY <1>1, <1>2, <1>3, <1>4
<1>6. \A q \in Pubs : InUse(publ[q]) => UserOf(q) # u
  BY DEF NewPublisher, Using, InUse
<1>7. FeedTypeOK'
  BY <1>1, <1>5 DEF FeedTypeOK, PublisherStates
<1>8. \A q \in Pubs : Sound(publ'[q])
  BY <1>3, <1>5 DEF FeedInv, Sound
<1>9. Owned'
  <2>1. ASSUME NEW q \in Pubs, InUse(publ'[q])
        PROVE  \/ publ'[q].user = Probe /\ probe'
               \/ publ'[q].user \in FeedSinks /\ sink[publ'[q].user] # "new"
    BY <1>3, <1>5, <2>1 DEF FeedInv, Owned, UserOf
  <2>2. ASSUME NEW p \in Pubs, NEW q \in Pubs, p # q, InUse(publ'[p]), InUse(publ'[q])
        PROVE  publ'[p].user # publ'[q].user
    BY <1>3, <1>5, <1>6, <2>2 DEF FeedInv, Owned, UserOf
  <2> QED BY <2>1, <2>2 DEF FeedInv, Owned, UserOf, InUse
<1> QED BY <1>7, <1>8, <1>9 DEF FeedInv, Sound

\* The steps of the hub and of the sinks, which touch no publisher.
LEMMA SinkStepKeeps ==
  ASSUME FeedInv, UNCHANGED <<publ, probe>>,
         \/ HubCloses
         \/ \E s \in FeedSinks : AddSink(s) \/ StopsReplaced(s) \/ RunReturns(s)
  PROVE  FeedInv'
<1>1. sink \in [FeedSinks -> {"new", "running", "replaced", "stopping"}]
  BY DEF FeedInv, FeedTypeOK
<1>2. /\ sink' \in [FeedSinks -> {"new", "running", "replaced", "stopping"}]
      /\ \A s, t \in FeedSinks : sink'[s] = "running" /\ sink'[t] = "running" => s = t
  BY <1>1 DEF HubCloses, AddSink, StopsReplaced, RunReturns, FeedInv, Owned
<1>3. \A s \in FeedSinks : sink'[s] = "new" => sink[s] = "new" \/ Using(s) = {}
  BY <1>1 DEF HubCloses, AddSink, StopsReplaced, RunReturns
<1>4. \A p \in Pubs : InUse(publ[p]) => p \in Using(UserOf(p))
  BY DEF Using, InUse
<1>5. FeedTypeOK'
  BY <1>2 DEF FeedInv, FeedTypeOK
<1>6. Owned'
  BY <1>2, <1>3, <1>4 DEF FeedInv, Owned, UserOf, InUse
<1> QED BY <1>5, <1>6 DEF FeedInv, Sound

\* The steps of a publisher, its dial and its platform, which touch no sink.
LEMMA PublisherStepKeeps ==
  ASSUME FeedInv, NEW p \in Pubs,
         \/ DialEnds(p) \/ Dialed(p) \/ StopsWaiting(p) \/ Cleans(p)
         \/ Handshake(p) \/ Publishes(p) \/ PlatformCuts(p) \/ Closes(p)
  PROVE  FeedInv'
<1>1. publ[p] \in PublisherStates /\ Sound(publ[p])
  BY FeedTypes DEF FeedInv
<1> DEFINE Good(r) == /\ r \in PublisherStates /\ r.user = UserOf(p) /\ Sound(r)
                      /\ InUse(r) => InUse(publ[p])
<1>2. \E r : Becomes(p, r) /\ Good(r)
  <2> USE <1>1 DEF PublisherStates, Sound, InUse, UserOf, At, WireShut
  <2> DEFINE x == publ[p]
  <2>1. CASE DialEnds(p)
    <3> DEFINE up == [x EXCEPT !.dial = "open", !.wire = "open"]
               down == [x EXCEPT !.dial = "failed"]
    <3>1. Becomes(p, up) \/ Becomes(p, down)
      BY <2>1 DEF DialEnds
    <3>2. x.dial = "running"
      BY <2>1 DEF DialEnds
    <3>3. Good(up)
      BY <3>2
    <3>4. Good(down)
      BY <3>2
    <3> QED BY <3>1, <3>3, <3>4
  <2>2. CASE Dialed(p)
    BY <2>2 DEF Dialed
  <2>3. CASE StopsWaiting(p)
    <3> DEFINE given == [x EXCEPT !.at = "failed"]
    <3>1. Becomes(p, given) /\ x.at = "dialing"
      BY <2>3 DEF StopsWaiting
    <3>2. Good(given)
      BY <3>1
    <3> QED BY <3>1, <3>2
  <2>4. CASE Cleans(p)
    <3> DEFINE w == WireShut(x.wire)
               clean == [x EXCEPT !.dial = "none", !.wire = w]
    <3>1. Becomes(p, clean)
      BY <2>4 DEF Cleans
    <3>2. w \in {"none", "closed"}
      OBVIOUS
    <3> HIDE DEF w
    <3>3. Good(clean)
      BY <3>2
    <3> QED BY <3>1, <3>3
  <2>5. CASE Handshake(p)
    BY <2>5 DEF Handshake
  <2>6. CASE Publishes(p)
    <3> DEFINE live == [x EXCEPT !.at = "live", !.slot = (x.wire = "open")]
               failed(arrived) == [x EXCEPT !.at = "failed", !.slot = arrived /\ x.wire = "open"]
    <3>1. /\ Becomes(p, live) \/ \E arrived \in BOOLEAN : Becomes(p, failed(arrived))
          /\ x.at = "publish"
      BY <2>6 DEF Publishes
    <3>2. Good(live)
      BY <3>1
    <3>3. ASSUME NEW arrived \in BOOLEAN PROVE Good(failed(arrived))
      <4>1. CASE arrived /\ x.wire = "open"
        <5>1. failed(arrived) = [x EXCEPT !.at = "failed", !.slot = TRUE]
          BY <4>1
        <5> QED BY <3>1, <5>1
      <4>2. CASE ~(arrived /\ x.wire = "open")
        <5>1. failed(arrived) = [x EXCEPT !.at = "failed", !.slot = FALSE]
          BY <4>2
        <5> QED BY <3>1, <5>1
      <4> QED BY <4>1, <4>2
    <3> HIDE DEF live, failed, Good
    <3> QED BY <3>1, <3>2, <3>3
  <2>7. CASE PlatformCuts(p)
    <3> DEFINE cut == [x EXCEPT !.wire = "cut", !.slot = FALSE]
    <3>1. Becomes(p, cut) /\ x.wire = "open"
      BY <2>7 DEF PlatformCuts
    <3>2. Good(cut)
      BY <3>1
    <3> QED BY <3>1, <3>2
  <2>8. CASE Closes(p)
    BY <2>8 DEF Closes
  <2> QED BY <2>1, <2>2, <2>3, <2>4, <2>5, <2>6, <2>7, <2>8
<1>3. UNCHANGED <<sink, probe>>
  BY DEF DialEnds, Dialed, StopsWaiting, Cleans, Handshake, Publishes, PlatformCuts, Closes
<1> QED BY <1>2, <1>3, BecomesKeeps

\* No step of the publishers breaks the invariant.
LEMMA FeedStepKeeps == ASSUME FeedInv, [FeedNext]_feedVars PROVE FeedInv'
<1>1. CASE HubCloses \/ \E s \in FeedSinks : AddSink(s) \/ StopsReplaced(s) \/ RunReturns(s)
  <2>1. UNCHANGED <<publ, probe>>
    BY <1>1 DEF HubCloses, AddSink, StopsReplaced, RunReturns
  <2> QED BY <1>1, <2>1, SinkStepKeeps
<1>2. ASSUME NEW s \in FeedSinks, SinkConnects(s) PROVE FeedInv'
  <2>1. /\ NewPublisher(s) /\ UNCHANGED sink /\ sink[s] # "new" /\ s # Probe
        /\ probe' = probe /\ probe \in BOOLEAN
    BY <1>2, FeedConstants DEF SinkConnects, FeedInv, FeedTypeOK
  <2> QED BY <2>1, NewPublisherKeeps
<1>3. CASE ProbeBegins
  <2>1. NewPublisher(Probe) /\ UNCHANGED sink /\ probe' = TRUE /\ Probe \notin FeedSinks
    BY <1>3, FeedConstants DEF ProbeBegins
  <2> QED BY <2>1, NewPublisherKeeps
<1>4. CASE ProbeAnswered
  <2>1. \A p \in Pubs : InUse(publ[p]) => UserOf(p) # Probe
    BY <1>4 DEF ProbeAnswered, Using, InUse
  <2>2. probe' = FALSE /\ UNCHANGED <<publ, sink>>
    BY <1>4 DEF ProbeAnswered
  <2>3. FeedTypeOK'
    BY <2>2 DEF FeedInv, FeedTypeOK
  <2>4. Owned'
    BY <2>1, <2>2 DEF FeedInv, Owned, UserOf, InUse
  <2> QED BY <2>2, <2>3, <2>4 DEF FeedInv, Sound
<1>5. CASE UNCHANGED feedVars
  BY <1>5 DEF feedVars, FeedInv, FeedTypeOK, Owned, UserOf, InUse, Sound
<1> QED BY <1>1, <1>2, <1>3, <1>4, <1>5, PublisherStepKeeps DEF FeedNext

\* The connections to one destination (rtmp/publisher.go) keep their inductive invariant.
THEOREM FeedHolds == FeedSpec => []FeedInv
BY FeedInitInv, FeedStepKeeps, PTL DEF FeedSpec

\* What the run checks follows from it.
LEMMA FeedImplied == FeedInv => OneFeed
<1> SUFFICES ASSUME FeedInv PROVE OneFeed
  OBVIOUS
<1>1. FeedTypeOK
  BY DEF FeedInv
<1>2. ASSUME NEW p \in Pubs, NEW q \in Pubs, p # q, Feeds(p), Feeds(q)
      PROVE  \E r \in {p, q} : \/ UserOf(r) = Probe /\ probe
                               \/ UserOf(r) \in FeedSinks /\ sink[UserOf(r)] \in {"replaced", "stopping"}
  <2>1. InUse(publ[p]) /\ InUse(publ[q])
    BY <1>2 DEF FeedInv, Sound, Feeds, InUse
  <2>2. UserOf(p) # UserOf(q)
    BY <1>2, <2>1 DEF FeedInv, Owned
  <2>3. \A r \in {p, q} : \/ UserOf(r) = Probe /\ probe
                          \/ UserOf(r) \in FeedSinks /\ sink[UserOf(r)] # "new"
    BY <1>2, <2>1 DEF FeedInv, Owned
  <2>4. \A s \in FeedSinks : sink[s] \in {"new", "running", "replaced", "stopping"}
    BY <1>1 DEF FeedTypeOK
  <2>5. ~(UserOf(p) \in FeedSinks /\ UserOf(q) \in FeedSinks
          /\ sink[UserOf(p)] = "running" /\ sink[UserOf(q)] = "running")
    BY <2>2 DEF FeedInv, Owned
  <2> QED BY <2>3, <2>4, <2>5
<1>3. \A p \in Pubs : publ[p].wire \in {"open", "cut"} =>
        publ[p].dial = "open" \/ publ[p].at \in {"handshake", "publish", "live", "failed"}
  BY DEF FeedInv, Sound
<1> QED BY <1>1, <1>2, <1>3 DEF OneFeed

\* For any publishers and sinks, a platform is fed by two publishers at once only while
\* one of them belongs to a sink being replaced or stopped, or to a probe, and no socket
\* is left open behind a publisher (Connect, Close, Hub.Add).
THEOREM DestinationFedOnce == FeedSpec => []OneFeed
BY FeedHolds, FeedImplied, PTL

-----------------------------------------------------------------------------
\* What is in the channel was published, each event once, and has started no delivery.
Queued ==
  /\ \A i \in 1..Len(inbox) : inbox[i] =< published
  /\ \A i, k \in 1..Len(inbox) : inbox[i] = inbox[k] => i = k
  /\ \A j \in Jobs : job[j] # "none" =>
       /\ j[1] =< published
       /\ \A i \in 1..Len(inbox) : inbox[i] # j[1]

\* Only a delivery that is over was acknowledged, once, and only one under way has tries.
Tried ==
  \A j \in Jobs : /\ acks[j] =< 1
                  /\ job[j] # "over" => acks[j] = 0
                  /\ tries[j] =< Retries

\* The semaphore has room, and nobody is under way once Run has returned.
Bounded ==
  /\ Cardinality(HoldsSemaphore) =< Parallel
  /\ ~dbOpen => dispatcher = "returned"
  /\ dispatcher = "returned" => \A j \in Jobs : job[j] \notin Active

AlertInv == AlertTypeOK /\ Queued /\ Tried /\ Bounded

\* Nothing has been published.
LEMMA AlertInitInv == AlertInit => AlertInv
<1> SUFFICES ASSUME AlertInit PROVE AlertInv
  OBVIOUS
<1> USE AlertConstants DEF AlertInit
<1>1. AlertTypeOK
  <2>1. inbox \in Seq(1..MaxAlerts) /\ Len(inbox) =< AlertRoom /\ published \in 0..MaxAlerts
    OBVIOUS
  <2>2. tries \in [Jobs -> Nat] /\ acks \in [Jobs -> Nat]
    OBVIOUS
  <2> QED BY <2>1, <2>2 DEF AlertTypeOK, Active
<1>2. Queued
  BY DEF Queued
<1>3. Tried
  BY DEF Tried
<1>4. Bounded
  <2>1. HoldsSemaphore = {}
    BY DEF HoldsSemaphore
  <2> QED BY <2>1, FS_EmptySet DEF Bounded, Active
<1> QED BY <1>1, <1>2, <1>3, <1>4 DEF AlertInv

\* The deliveries that hold the semaphore can be counted.
LEMMA JobsFinite ==
  /\ IsFiniteSet(HoldsSemaphore) /\ Cardinality(HoldsSemaphore) \in Nat
<1>1. IsFiniteSet(1..MaxAlerts) /\ IsFiniteSet(Webhooks)
  BY FS_Interval, AlertConstants
<1>2. IsFiniteSet(Jobs)
  BY <1>1, FS_Product DEF Jobs
<1>3. HoldsSemaphore \in SUBSET Jobs
  BY DEF HoldsSemaphore
<1> QED BY <1>2, <1>3, FS_Subset, FS_CardinalityType

\* A delivery that moves within the semaphore, or leaves it, keeps the bound.
LEMMA FewerHold ==
  ASSUME Cardinality(HoldsSemaphore) =< Parallel, HoldsSemaphore' \in SUBSET HoldsSemaphore
  PROVE  Cardinality(HoldsSemaphore') =< Parallel
<1>1. Cardinality(HoldsSemaphore') =< Cardinality(HoldsSemaphore)
      /\ IsFiniteSet(HoldsSemaphore')
  BY JobsFinite, FS_Subset
<1>2. Cardinality(HoldsSemaphore') \in Nat
  BY <1>1, FS_CardinalityType
<1> QED BY <1>1, <1>2, JobsFinite, AlertConstants

\* The step of one delivery.  It began after its event left the channel.
LEMMA JobStepKeeps ==
  ASSUME AlertInv, NEW j \in Jobs, JobStep(j)
  PROVE  AlertInv'
<1>0. /\ job \in [Jobs -> Active \cup {"none", "over"}]
      /\ tries \in [Jobs -> Nat] /\ acks \in [Jobs -> Nat] /\ Retries \in Nat
  BY AlertConstants DEF AlertInv, AlertTypeOK
<1>1. /\ UNCHANGED <<published, inbox, dispatcher, ending, dbOpen>>
      /\ job[j] \in Active
      /\ \E to \in Active \cup {"over"} : job' = [job EXCEPT ![j] = to]
  BY DEF JobStep, Acquires, GoneUnsent, CannotSign, Answered, NoAnswer, RetryDue, Interrupted,
         Moves, Settles, Active
<1>2. job' \in [Jobs -> Active \cup {"none", "over"}]
      /\ \A k \in Jobs : k # j => job'[k] = job[k]
  BY <1>0, <1>1 DEF Active
<1>3. /\ tries' \in [Jobs -> Nat] /\ \A k \in Jobs : tries'[k] =< Retries
      /\ acks' \in [Jobs -> Nat] /\ \A k \in Jobs : k # j => acks'[k] = acks[k]
      /\ acks'[j] =< 1 /\ (job'[j] # "over" => acks'[j] = 0)
  <2> USE <1>0 DEF AlertInv, Tried
  <2>0. acks[j] = 0
    BY <1>1 DEF Active
  <2>1. CASE Acquires(j)
    BY <2>0, <2>1 DEF Acquires
  <2>2. CASE GoneUnsent(j)
    BY <2>0, <2>2 DEF GoneUnsent
  <2>3. CASE CannotSign(j)
    BY <2>0, <2>3 DEF CannotSign
  <2>4. CASE Answered(j)
    BY <2>0, <2>4 DEF Answered, Settles, Moves
  <2>5. CASE NoAnswer(j)
    BY <2>0, <2>5 DEF NoAnswer, Settles
  <2>6. CASE RetryDue(j)
    BY <2>0, <2>6 DEF RetryDue
  <2>7. CASE Interrupted(j)
    BY <2>0, <2>7 DEF Interrupted, Settles
  <2> QED BY <2>1, <2>2, <2>3, <2>4, <2>5, <2>6, <2>7 DEF JobStep
<1>4. AlertTypeOK'
  BY <1>1, <1>2, <1>3 DEF AlertInv, AlertTypeOK
<1>5. Queued'
  BY <1>1, <1>2 DEF AlertInv, Queued, Active
<1>6. Tried'
  BY <1>2, <1>3 DEF AlertInv, Tried
<1>7. Cardinality(HoldsSemaphore') =< Parallel
  <2>1. CASE Acquires(j)
    <3>1. HoldsSemaphore' = HoldsSemaphore \cup {j} /\ j \notin HoldsSemaphore
      BY <1>0, <2>1 DEF Acquires, Moves, HoldsSemaphore
    <3>2. Cardinality(HoldsSemaphore') = Cardinality(HoldsSemaphore) + 1
      BY <3>1, JobsFinite, FS_AddElement
    <3>3. Cardinality(HoldsSemaphore) < Parallel
      BY <2>1 DEF Acquires
    <3> QED BY <3>2, <3>3, JobsFinite, AlertConstants
  <2>2. CASE ~Acquires(j)
    <3>1. job'[j] \in {"posting", "backoff"} => job[j] \in {"posting", "backoff"}
      BY <1>0, <2>2
      DEF JobStep, GoneUnsent, CannotSign, Answered, NoAnswer, RetryDue, Interrupted, Moves, Settles
    <3>2. HoldsSemaphore' \in SUBSET HoldsSemaphore
      BY <1>2, <3>1 DEF HoldsSemaphore
    <3> QED BY <3>2, FewerHold DEF AlertInv, Bounded
  <2> QED BY <2>1, <2>2
<1>8. Bounded'
  BY <1>1, <1>7 DEF AlertInv, Bounded
<1> QED BY <1>4, <1>5, <1>6, <1>8 DEF AlertInv

\* An event that enters the channel is the newest: no delivery of it has begun.
LEMMA PublishKeeps == ASSUME AlertInv, PublishEvent PROVE AlertInv'
<1>0. /\ published \in 0..MaxAlerts /\ published < MaxAlerts /\ MaxAlerts \in Nat
      /\ inbox \in Seq(1..MaxAlerts) /\ Len(inbox) \in Nat /\ Len(inbox) =< AlertRoom
      /\ AlertRoom \in Nat
  BY AlertConstants DEF PublishEvent, AlertInv, AlertTypeOK
<1>1. published' = published + 1 /\ UNCHANGED <<dispatcher, ending, job, tries, acks, dbOpen>>
  BY DEF PublishEvent
<1>2. \A j \in Jobs : j[1] \in 1..MaxAlerts
  BY DEF Jobs
<1>3. CASE inbox' = inbox
  <2>1. AlertTypeOK'
    BY <1>0, <1>1, <1>3 DEF AlertInv, AlertTypeOK
  <2>2. Queued'
    BY <1>0, <1>1, <1>2, <1>3 DEF AlertInv, Queued
  <2>3. Tried' /\ Bounded'
    BY <1>1 DEF AlertInv, Tried, Bounded, HoldsSemaphore
  <2> QED BY <2>1, <2>2, <2>3 DEF AlertInv
<1>4. CASE inbox' = Append(inbox, published + 1) /\ Len(inbox) < AlertRoom
  <2>1. /\ inbox' \in Seq(1..MaxAlerts) /\ Len(inbox') = Len(inbox) + 1
        /\ inbox'[Len(inbox) + 1] = published + 1
        /\ \A i \in 1..Len(inbox) : inbox'[i] = inbox[i]
    <3>1. published + 1 \in 1..MaxAlerts
      BY <1>0
    <3> QED BY <1>0, <1>4, <3>1, AppendProperties
  <2>2. AlertTypeOK'
    BY <1>0, <1>1, <1>4, <2>1 DEF AlertInv, AlertTypeOK
  <2>3. \A i \in 1..Len(inbox) : inbox[i] \in Nat /\ inbox[i] =< published
    BY <1>0 DEF AlertInv, Queued
  <2>4. \A i \in 1..Len(inbox') : i \in 1..Len(inbox) \/ i = Len(inbox) + 1
    BY <1>0, <2>1
  <2> DEFINE n == Len(inbox)
  <2>n. n \in Nat /\ published \in Nat /\ published' = published + 1
    BY <1>0, <1>1
  <2>m. /\ \A i \in 1..Len(inbox') : i \in 1..n \/ i = n + 1
        /\ inbox'[n + 1] = published + 1 /\ \A i \in 1..n : inbox'[i] = inbox[i]
    BY <2>1, <2>4
  <2> HIDE DEF n
  <2>5. ASSUME NEW i \in 1..Len(inbox') PROVE inbox'[i] =< published'
    <3>1. CASE i \in 1..n
      BY <2>n, <2>m, <2>3, <3>1 DEF n
    <3>2. CASE i = n + 1
      BY <2>n, <2>m, <3>2
    <3> QED BY <2>m, <3>1, <3>2
  <2>6. ASSUME NEW i \in 1..Len(inbox'), NEW k \in 1..Len(inbox'), inbox'[i] = inbox'[k]
        PROVE  i = k
    <3>1. \A l \in 1..n : inbox'[l] \in Nat /\ inbox'[l] =< published
      BY <2>m, <2>3 DEF n
    <3>2. CASE i \in 1..n /\ k \in 1..n
      BY <2>6, <2>m, <3>2 DEF AlertInv, Queued, n
    <3>3. CASE i \in 1..n /\ k = n + 1
      BY <2>6, <2>m, <2>n, <3>1, <3>3
    <3>4. CASE i = n + 1 /\ k \in 1..n
      BY <2>6, <2>m, <2>n, <3>1, <3>4
    <3> QED BY <2>m, <3>2, <3>3, <3>4
  <2>7. ASSUME NEW j \in Jobs, job[j] # "none"
        PROVE  j[1] =< published' /\ \A i \in 1..Len(inbox') : inbox'[i] # j[1]
    <3>1. j[1] =< published /\ \A i \in 1..n : inbox[i] # j[1]
      BY <2>7 DEF AlertInv, Queued, n
    <3>2. j[1] \in Nat
      BY <1>2
    <3>3. j[1] # published + 1 /\ j[1] =< published'
      BY <2>n, <3>1, <3>2
    <3> QED BY <2>m, <3>1, <3>3
  <2>8. Queued'
    BY <1>1, <2>5, <2>6, <2>7 DEF Queued
  <2>9. Tried' /\ Bounded'
    BY <1>1 DEF AlertInv, Tried, Bounded, HoldsSemaphore
  <2> QED BY <2>2, <2>8, <2>9 DEF AlertInv
<1> QED BY <1>3, <1>4 DEF PublishEvent

\* The deliveries that begin are of an event that leaves the channel and had none.
LEMMA DispatchKeeps == ASSUME AlertInv, Dispatch PROVE AlertInv'
<1>0. /\ inbox \in Seq(1..MaxAlerts) /\ inbox # <<>> /\ dispatcher = "listening"
      /\ job \in [Jobs -> Active \cup {"none", "over"}] /\ AlertRoom \in Nat
      /\ Len(inbox) =< AlertRoom
  BY AlertConstants DEF Dispatch, AlertInv, AlertTypeOK
<1>1. /\ inbox' = Tail(inbox) /\ UNCHANGED <<published, dispatcher, ending, tries, acks, dbOpen>>
  BY DEF Dispatch
<1>2. PICK concerned \in SUBSET Webhooks :
        job' = [j \in Jobs |-> IF j[1] = Head(inbox) /\ j[2] \in concerned THEN "waiting"
                                                                           ELSE job[j]]
  BY DEF Dispatch
<1>3. /\ Head(inbox) = inbox[1] /\ Len(inbox) \in Nat /\ Len(inbox) >= 1
      /\ Tail(inbox) \in Seq(1..MaxAlerts) /\ Len(Tail(inbox)) = Len(inbox) - 1
      /\ \A i \in 1..(Len(inbox) - 1) : Tail(inbox)[i] = inbox[i + 1]
  BY <1>0, HeadTailProperties
<1>4. \A j \in Jobs : j[1] = inbox[1] => job[j] = "none"
  BY <1>3 DEF AlertInv, Queued
<1>5. /\ job' \in [Jobs -> Active \cup {"none", "over"}]
      /\ \A j \in Jobs : \/ job'[j] = job[j]
                         \/ job'[j] = "waiting" /\ job[j] = "none" /\ j[1] = inbox[1]
  BY <1>0, <1>2, <1>3, <1>4 DEF Active
<1>6. AlertTypeOK'
  <2>1. inbox' \in Seq(1..MaxAlerts) /\ Len(inbox') =< AlertRoom
    BY <1>0, <1>1, <1>3
  <2> QED BY <1>1, <1>5, <2>1 DEF AlertInv, AlertTypeOK
<1>7. Queued'
  <2>1. \A i \in 1..Len(inbox') : inbox'[i] = inbox[i + 1] /\ i + 1 \in 1..Len(inbox)
    BY <1>1, <1>3
  <2>2. \A i \in 1..Len(inbox') : inbox'[i] =< published'
    BY <1>1, <2>1 DEF AlertInv, Queued
  <2>3. ASSUME NEW i \in 1..Len(inbox'), NEW k \in 1..Len(inbox'), inbox'[i] = inbox'[k]
        PROVE  i = k
    <3>1. i + 1 = k + 1
      BY <2>1, <2>3 DEF AlertInv, Queued
    <3> QED BY <1>1, <1>3, <3>1
  <2>4. ASSUME NEW j \in Jobs, job'[j] # "none"
        PROVE  j[1] =< published /\ \A i \in 1..Len(inbox') : inbox'[i] # j[1]
    <3>1. CASE job'[j] = job[j]
      BY <2>1, <2>4, <3>1 DEF AlertInv, Queued
    <3>2. CASE j[1] = inbox[1]
      <4>1. inbox[1] =< published
        BY <1>3 DEF AlertInv, Queued
      <4>2. \A i \in 1..Len(inbox') : inbox[i + 1] # inbox[1]
        <5>1. \A i \in 1..Len(inbox') : i + 1 # 1 /\ 1 \in 1..Len(inbox)
          BY <1>3
        <5> QED BY <2>1, <5>1 DEF AlertInv, Queued
      <4> QED BY <2>1, <3>2, <4>1, <4>2
    <3> QED BY <1>5, <3>1, <3>2
  <2> QED BY <1>1, <2>2, <2>3, <2>4 DEF Queued
<1>8. Tried'
  BY <1>1, <1>5 DEF AlertInv, Tried
<1>9. Bounded'
  <2>1. HoldsSemaphore' \in SUBSET HoldsSemaphore
    BY <1>5 DEF HoldsSemaphore
  <2>2. Cardinality(HoldsSemaphore') =< Parallel
    BY <2>1, FewerHold DEF AlertInv, Bounded
  <2> QED BY <1>0, <1>1, <2>2 DEF AlertInv, Bounded
<1> QED BY <1>6, <1>7, <1>8, <1>9 DEF AlertInv

\* No step of the dispatcher breaks the invariant.
LEMMA AlertStepKeeps == ASSUME AlertInv, [AlertNext]_alertVars PROVE AlertInv'
<1> USE DEF AlertInv
<1>1. CASE Ends
  BY <1>1 DEF Ends, AlertTypeOK, Queued, Tried, Bounded, HoldsSemaphore
<1>2. CASE StopsListening
  BY <1>2 DEF StopsListening, AlertTypeOK, Queued, Tried, Bounded, HoldsSemaphore
<1>3. CASE Returns
  <2>1. inbox' = <<>> /\ Len(inbox') = 0 /\ inbox' \in Seq(1..MaxAlerts) /\ 1..Len(inbox') = {}
        /\ Len(inbox') =< AlertRoom
    BY <1>3, AlertConstants DEF Returns
  <2>2. dispatcher' = "returned" /\ UNCHANGED <<published, ending, job, tries, acks, dbOpen>>
        /\ \A j \in Jobs : job[j] \notin Active
    BY <1>3 DEF Returns
  <2>3. AlertTypeOK'
    BY <2>1, <2>2 DEF AlertTypeOK
  <2>4. Queued'
    BY <2>1, <2>2 DEF Queued
  <2> QED BY <2>2, <2>3, <2>4 DEF Tried, Bounded, HoldsSemaphore
<1>4. CASE DbCloses
  BY <1>4 DEF DbCloses, AlertTypeOK, Queued, Tried, Bounded, HoldsSemaphore
<1>5. CASE UNCHANGED alertVars
  BY <1>5 DEF alertVars, AlertTypeOK, Queued, Tried, Bounded, HoldsSemaphore
<1> QED
  BY <1>1, <1>2, <1>3, <1>4, <1>5, PublishKeeps, DispatchKeeps, JobStepKeeps DEF AlertNext

\* The dispatcher of alerts (alerts/webhooks.go) keeps its inductive invariant.
THEOREM AlertHolds == AlertSpec => []AlertInv
BY AlertInitInv, AlertStepKeeps, PTL DEF AlertSpec

\* For any webhooks, events and limits, an alert is acknowledged once and tried no more
\* often than it may be, the deliveries at work stay within the semaphore, and none is at
\* work once Run has returned and the database may close (Run, intento).
THEOREM AlertsAreBounded == AlertSpec => []AlertsBounded
<1>1. AlertInv => AlertsBounded
  BY DEF AlertInv, AlertsBounded, Tried, Bounded
<1> QED BY AlertHolds, <1>1, PTL

-----------------------------------------------------------------------------
File     == [path : Path, bytes : Nat]
Recorded == [session : Nat, path : Path, closed : BOOLEAN, bytes : Nat]

\* The types, but for the counts of the quota.
DiskTypes  == disk \subseteq File
RowTypes   == rows \subseteq Recorded /\ IsFiniteSet(rows)
PlaceTypes == /\ session \in Nat /\ last \in Nat /\ place \in RecorderPlaces
              /\ stamp \in 0..MaxStamps /\ index \in 0..MaxIndex /\ seg \in Nat
              /\ place \in Open \cup {"rotate"} => stamp > 0 /\ index > 0
JobTypes   ==
  /\ remover = [k \in Removers |-> remover[k]]
  /\ \A k \in Removers : remover[k] = [phase |-> remover[k].phase, list |-> remover[k].list,
                                  gone  |-> remover[k].gone,  sum  |-> remover[k].sum]
  /\ \A k \in Removers : remover[k].list \subseteq Recorded /\ remover[k].gone \in BOOLEAN

\* A path names one file and one row.
OnePath == /\ \A f, g \in disk : f.path = g.path => f = g
           /\ \A r, t \in rows : r.path = t.path => r = t

\* No file, row or list is ahead of the writer: the next path it opens is nobody's.
Past(p) == /\ p.stamp =< stamp
           /\ place \in Open \cup {"rotate"} /\ p.stamp = stamp => p.index =< index
NoneAhead == /\ \A f \in disk : Past(f.path)
             /\ \A r \in rows : Past(r.path)
             /\ \A k \in Removers : \A r \in remover[k].list : Past(r.path)

\* The file being written is there, with no more than its writer has counted; no remover
\* has it in its list; and once inserted its row is there, open, unless the database
\* refused it.
CurrentHeld ==
  place \in Open =>
    /\ \E f \in disk : f.path = CurrentPath
    /\ \A f \in disk : f.path = CurrentPath => f.bytes =< seg
    /\ \A r \in rows : r.path = CurrentPath => ~r.closed /\ place # "inserting"
    /\ \A k \in Removers : \A r \in remover[k].list : r.path # CurrentPath
    /\ place # "inserting" => CurrentPath \in untold \/ \E r \in rows : r.path = CurrentPath

\* A remover that is at the row of a recording has removed the file.
FileGone == \A k \in Removers :
              /\ remover[k].phase = "total" => remover[k].list = {} /\ ~remover[k].gone
              /\ remover[k].gone => \A r \in remover[k].list : IsHead(r, remover[k].list) =>
                                   \A f \in disk : f.path # r.path

RecInv == /\ DiskTypes /\ RowTypes /\ PlaceTypes /\ JobTypes
          /\ OnePath /\ NoneAhead /\ CurrentHeld /\ FileGone /\ Accounted

-----------------------------------------------------------------------------
\* Nothing has been recorded.
LEMMA RecInitInv == RecInit => RecInv
<1> SUFFICES ASSUME RecInit PROVE RecInv
  OBVIOUS
<1> USE DEF RecInit
<1>1. DiskTypes /\ RowTypes
  BY FS_EmptySet DEF DiskTypes, RowTypes
<1>2. PlaceTypes
  BY RecordingLimits DEF PlaceTypes, RecorderPlaces, Open
<1>3. JobTypes
  BY DEF JobTypes, Idle, Removing
<1>4. OnePath /\ NoneAhead
  BY DEF OnePath, NoneAhead, Idle, Removing
<1>5. CurrentHeld /\ Accounted
  BY DEF CurrentHeld, Open, Accounted
<1>6. FileGone
  BY DEF FileGone, Idle, Removing
<1> QED BY <1>1, <1>2, <1>3, <1>4, <1>5, <1>6 DEF RecInv

\* What the list of one remover may become.
LEMMA OneJob ==
  ASSUME JobTypes, NEW k \in Removers, NEW j, remover' = [remover EXCEPT ![k] = j]
  PROVE  remover'[k] = j /\ \A l \in Removers \ {k} : remover'[l] = remover[l]
BY DEF JobTypes

\* The types of what the removers hold, once one of them has gone on.
LEMMA JobPut ==
  ASSUME JobTypes, NEW k \in Removers, NEW j, remover' = [remover EXCEPT ![k] = j],
         j = [phase |-> j.phase, list |-> j.list, gone |-> j.gone, sum |-> j.sum],
         j.list \subseteq Recorded, j.gone \in BOOLEAN
  PROVE  JobTypes'
<1>1. remover'[k] = j /\ \A l \in Removers \ {k} : remover'[l] = remover[l]
  BY OneJob
<1>2. remover' = [l \in Removers |-> remover'[l]]
  BY DEF JobTypes
<1>3. \A l \in Removers : remover'[l] = [phase |-> remover'[l].phase, list |-> remover'[l].list,
                                    gone  |-> remover'[l].gone,  sum  |-> remover'[l].sum]
  BY <1>1 DEF JobTypes
<1>4. \A l \in Removers : remover'[l].list \subseteq Recorded /\ remover'[l].gone \in BOOLEAN
  BY <1>1 DEF JobTypes
<1> QED BY <1>2, <1>3, <1>4 DEF JobTypes

\* The recorder goes from one place to another with its files, or from none to none.
LEMMA PlaceKeeps ==
  ASSUME RecInv, PlaceTypes', UNCHANGED <<disk, rows, untold, stamp, remover>>,
         place \in Open <=> place' \in Open,
         place' \in Open => UNCHANGED <<index, seg>> /\ place # "inserting" /\ place' # "inserting",
         place' = "rotate" => place = "rotate" /\ UNCHANGED index
  PROVE  RecInv'
<1>1. DiskTypes' /\ RowTypes' /\ JobTypes' /\ OnePath' /\ FileGone'
  BY DEF RecInv, DiskTypes, RowTypes, JobTypes, OnePath, FileGone
<1>2. \A p : Past(p) => Past(p)'
  BY DEF Past
<1>3. NoneAhead'
  BY <1>2 DEF RecInv, NoneAhead
<1>4. place' \in Open => CurrentPath' = CurrentPath
  BY DEF CurrentPath
<1>5. CurrentHeld'
  <2> SUFFICES ASSUME place' \in Open PROVE CurrentHeld'
    BY DEF CurrentHeld
  <2>1. CurrentPath' = CurrentPath /\ seg' = seg /\ place \in Open
    BY <1>4
  <2> QED BY <2>1 DEF RecInv, CurrentHeld
<1>6. Accounted'
  BY <1>4 DEF RecInv, Accounted, Closed
<1> QED BY <1>1, <1>3, <1>5, <1>6 DEF RecInv

\* A remover has listed closed recordings, or has finished.
LEMMA JobKeeps ==
  ASSUME RecInv, UNCHANGED <<disk, rows, untold, session, last, stamp, index, seg>>,
         place' = place \/ (place = "build" /\ place' = "pruning"),
         NEW k \in Removers, NEW j, remover' = [remover EXCEPT ![k] = j],
         j = [phase |-> j.phase, list |-> j.list, gone |-> j.gone, sum |-> j.sum],
         j.list \subseteq Closed, j.gone = FALSE, j.phase = "total" => j.list = {}
  PROVE  RecInv'
<1>1. remover'[k] = j /\ \A l \in Removers \ {k} : remover'[l] = remover[l]
  BY OneJob DEF RecInv
<1>2. j.list \subseteq rows /\ \A r \in j.list : r.closed
  BY DEF Closed
<1>3. DiskTypes' /\ RowTypes' /\ OnePath' /\ PlaceTypes'
  BY DEF RecInv, DiskTypes, RowTypes, OnePath, PlaceTypes, RecorderPlaces, Open
<1>4. JobTypes'
  BY <1>1, <1>2 DEF RecInv, JobTypes, RowTypes
<1>5. (place' \in Open <=> place \in Open) /\ (place' = "rotate" <=> place = "rotate")
  BY DEF Open
<1>6. \A p : Past(p)' <=> Past(p)
  BY <1>5 DEF Past
<1>7. NoneAhead'
  BY <1>1, <1>2, <1>6 DEF RecInv, NoneAhead
<1>8. CurrentPath' = CurrentPath
  BY DEF CurrentPath
<1>9. CurrentHeld'
  <2> SUFFICES ASSUME place' \in Open PROVE CurrentHeld'
    BY DEF CurrentHeld
  <2>1. place' = place
    BY DEF Open
  <2>2. \A l \in Removers : \A r \in remover'[l].list : r.path # CurrentPath
    BY <1>1, <1>2, <2>1 DEF RecInv, CurrentHeld
  <2> QED BY <1>8, <2>1, <2>2 DEF RecInv, CurrentHeld
<1>10. FileGone'
  BY <1>1 DEF RecInv, FileGone
<1>11. Accounted'
  BY <1>5, <1>8 DEF RecInv, Accounted, Closed
<1> QED BY <1>3, <1>4, <1>7, <1>9, <1>10, <1>11 DEF RecInv

\* The same, with what it goes on to written out.
LEMMA ListedKeeps ==
  ASSUME RecInv, UNCHANGED <<disk, rows, untold, session, last, stamp, index, seg>>,
         place' = place \/ (place = "build" /\ place' = "pruning"),
         NEW k \in Removers, NEW phase, NEW list, NEW sum, remover' = [remover EXCEPT ![k] = Removing(phase, list, sum)],
         list \subseteq Closed, phase = "total" => list = {}
  PROVE  RecInv'
<1> DEFINE j == Removing(phase, list, sum)
<1>1. /\ j = [phase |-> j.phase, list |-> j.list, gone |-> j.gone, sum |-> j.sum]
      /\ j.list = list /\ j.gone = FALSE /\ j.phase = phase
  BY DEF Removing
<1>2. remover' = [remover EXCEPT ![k] = j]
  OBVIOUS
<1> HIDE DEF j
<1> QED BY <1>1, <1>2, JobKeeps

-----------------------------------------------------------------------------
\* The session and the recorder, where no file is opened, written or closed.
LEMMA SessionKeepsRec ==
  ASSUME RecInv, (\E on \in BOOLEAN : StartSession(on)) \/ EndSession \/ SwitchOn \/ Stop
                 \/ Rotate \/ WriteFails \/ (\E low \in BOOLEAN : Pruned(low))
  PROVE  RecInv'
<1> USE DEF RecInv, PlaceTypes, RecorderPlaces, writer
<1>1. ASSUME NEW on \in BOOLEAN, StartSession(on) PROVE RecInv'
  BY <1>1, PlaceKeeps DEF StartSession, Open
<1>2. CASE EndSession \/ SwitchOn
  BY <1>2, PlaceKeeps DEF EndSession, SwitchOn, Open
<1>3. CASE Stop
  <2>1. 0 \in 0..MaxIndex /\ 0 \in Nat
    BY RecordingLimits
  <2>2. PlaceTypes'
    BY <1>3, <2>1 DEF Stop, Keep, Discard, Open
  <2> QED BY <1>3, <2>2, PlaceKeeps DEF Stop, Keep, Open
<1>4. CASE Rotate \/ WriteFails
  BY <1>4, PlaceKeeps DEF Rotate, WriteFails, Open
<1>5. ASSUME NEW low \in BOOLEAN, Pruned(low) PROVE RecInv'
  BY <1>5, PlaceKeeps DEF Pruned, Open
<1> QED BY <1>1, <1>2, <1>3, <1>4, <1>5

\* BuildRecorder goes on to the publisher, or lists what it will prune.
LEMMA BuildKeepsRec == ASSUME RecInv, NEW low \in BOOLEAN, Build(low) PROVE RecInv'
<1>1. CASE place' = "publisher" /\ UNCHANGED remover
  <2>1. PlaceTypes' /\ place \notin Open /\ place' \notin Open /\ place' # "rotate"
    BY <1>1 DEF RecInv, PlaceTypes, RecorderPlaces, Build, writer, Open
  <2> QED BY <1>1, <2>1, PlaceKeeps DEF Build, writer
<1>2. ASSUME NEW old \in Oldest(Closed), place' = "pruning",
             remover' = [remover EXCEPT !["build"] = Removing("age", old, 0)]
      PROVE  RecInv'
  <2>1. old \subseteq Closed /\ "build" \in Removers
    BY DEF Oldest, Removers
  <2>2. place = "build" /\ UNCHANGED <<disk, rows, untold, session, last, stamp, index, seg>>
    BY DEF Build, writer
  <2>3. PICK phase, sum : phase = "age" /\ sum = 0
    OBVIOUS
  <2>4. PICK k \in Removers : k = "build"
    BY <2>1
  <2>5. remover' = [remover EXCEPT ![k] = Removing(phase, old, sum)] /\ phase # "total"
    BY <1>2, <2>3, <2>4
  <2>6. place' = place \/ (place = "build" /\ place' = "pruning")
    BY <1>2, <2>2
  <2> QED BY <2>1, <2>2, <2>5, <2>6, ListedKeeps
<1> QED BY <1>1, <1>2 DEF Build

\* newPub: the index is the count of some rows, and the table is finite.
LEMMA NewPubKeeps == ASSUME RecInv, NewPub PROVE RecInv'
<1>1. SessionRows \in Nat
  <2>1. IsFiniteSet({r \in rows : r.session = session})
    BY FS_Subset DEF RecInv, RowTypes
  <2> QED BY <2>1, FS_CardinalityType DEF SessionRows
<1>2. PlaceTypes'
  BY <1>1, RecordingLimits DEF RecInv, PlaceTypes, RecorderPlaces, Open, NewPub
<1>3. place \notin Open /\ place' \notin Open /\ place' # "rotate"
  BY DEF NewPub, Open
<1> QED BY <1>2, <1>3, PlaceKeeps DEF NewPub

\* A segment is opened with a path that no file, row or list has.
LEMMA OpenSegmentKeeps == ASSUME RecInv, NEW opens \in BOOLEAN, OpenSegment(opens) PROVE RecInv'
<1>1. CASE place' = "publisher" /\ Discard /\ UNCHANGED <<stamp, disk>>
  <2>1. 0 \in 0..MaxIndex /\ 0 \in Nat
    BY RecordingLimits
  <2>2. PlaceTypes'
    BY <1>1, <2>1 DEF RecInv, PlaceTypes, RecorderPlaces, Open, OpenSegment, Discard
  <2>3. place \notin Open /\ place' \notin Open /\ place' # "rotate"
    BY <1>1 DEF OpenSegment, Open
  <2> QED BY <1>1, <2>2, <2>3, PlaceKeeps DEF OpenSegment
<1>2. CASE place' = "inserting"
  <2>1. /\ place \in {"connect", "rotate"} /\ place' = "inserting"
        /\ stamp' = (IF place = "connect" THEN stamp + 1 ELSE stamp) /\ stamp' =< MaxStamps
        /\ index < MaxIndex /\ index' = index + 1 /\ seg' = 0
        /\ disk' = disk \cup {[path |-> CurrentPath', bytes |-> 0]}
        /\ UNCHANGED <<rows, session, last, remover, untold>>
    BY <1>2 DEF OpenSegment, CurrentPath
  <2>2. /\ stamp \in Nat /\ index \in Nat /\ stamp' \in Nat /\ index' \in Nat
        /\ MaxStamps \in Nat /\ MaxIndex \in Nat
    BY <2>1, RecordingLimits DEF RecInv, PlaceTypes
  <2>3. PlaceTypes'
    BY <2>1, <2>2 DEF RecInv, PlaceTypes, RecorderPlaces, Open
  <2>4. CurrentPath' \in Path
    BY <2>1, <2>3 DEF PlaceTypes, Path, CurrentPath, Open
  <2>5. \A p \in Path : Past(p) => p # CurrentPath' /\ Past(p)'
    <3> SUFFICES ASSUME NEW p \in Path, Past(p) PROVE p # CurrentPath' /\ Past(p)'
      OBVIOUS
    <3>1. p.stamp \in Nat /\ p.index \in Nat
      BY DEF Path
    <3>2. CASE place = "connect"
      BY <2>1, <2>2, <3>1, <3>2 DEF Past, CurrentPath, Open
    <3>3. CASE place = "rotate"
      BY <2>1, <2>2, <3>1, <3>3 DEF Past, CurrentPath, Open
    <3> QED BY <2>1, <3>2, <3>3
  <2>6. Past(CurrentPath)'
    BY <2>2 DEF Past, CurrentPath
  <2>7. /\ \A f \in disk : f.path # CurrentPath' /\ Past(f.path)'
        /\ \A r \in rows : r.path # CurrentPath' /\ Past(r.path)'
        /\ \A k \in Removers : \A r \in remover[k].list : r.path # CurrentPath' /\ Past(r.path)'
    BY <2>5 DEF RecInv, NoneAhead, DiskTypes, RowTypes, JobTypes, File, Recorded
  <2> DEFINE new == [path |-> CurrentPath', bytes |-> 0]
  <2>8. new \in File /\ new.path = CurrentPath' /\ new.bytes = 0 /\ disk' = disk \cup {new}
    BY <2>1, <2>4 DEF File
  <2> HIDE DEF new
  <2>9. DiskTypes' /\ RowTypes' /\ JobTypes'
    BY <2>1, <2>8 DEF RecInv, DiskTypes, RowTypes, JobTypes
  <2>10. OnePath' /\ NoneAhead'
    BY <2>1, <2>6, <2>7, <2>8 DEF RecInv, OnePath, NoneAhead
  <2>11. CurrentHeld'
    <3>1. 0 =< 0 /\ place' = "inserting"
      BY <2>1
    <3> QED BY <2>1, <2>7, <2>8, <3>1 DEF CurrentHeld
  <2>12. FileGone'
    <3>1. \A k \in Removers : \A r \in remover[k].list : r.path # new.path
      BY <2>7, <2>8
    <3> QED BY <2>1, <2>8, <3>1 DEF RecInv, FileGone, IsHead
  <2>13. Accounted'
    <3>1. place \notin Open /\ place' \in Open
      BY <2>1 DEF Open
    <3> QED BY <2>1, <2>8, <3>1 DEF RecInv, Accounted, Closed
  <2> QED BY <2>3, <2>9, <2>10, <2>11, <2>12, <2>13 DEF RecInv
<1> QED BY <1>1, <1>2 DEF OpenSegment

\* The row of the segment is inserted, or the database refuses it.
LEMMA InsertRowKeeps == ASSUME RecInv, NEW ok \in BOOLEAN, InsertRow(ok) PROVE RecInv'
<1>1. /\ place = "inserting" /\ place' = "writing" /\ place \in Open /\ place' \in Open
      /\ UNCHANGED <<disk, session, last, stamp, index, seg, remover>>
  BY DEF InsertRow, writer, Open
<1>2. CurrentPath' = CurrentPath /\ CurrentPath \in Path /\ \A p : Past(p)' <=> Past(p)
  BY <1>1 DEF CurrentPath, Path, Past, RecInv, PlaceTypes
<1>3. Past(CurrentPath) /\ PlaceTypes'
  BY <1>1 DEF RecInv, PlaceTypes, RecorderPlaces, Past, CurrentPath
<1> DEFINE new == [session |-> session, path |-> CurrentPath, closed |-> FALSE, bytes |-> 0]
<1>4. new \in Recorded /\ new.path = CurrentPath /\ new.closed = FALSE
  BY <1>2 DEF RecInv, PlaceTypes, Recorded
<1>5. \/ rows' = rows \cup {new} /\ UNCHANGED untold
      \/ rows' = rows /\ untold' = untold \cup {CurrentPath}
  BY DEF InsertRow
<1> HIDE DEF new
<1>6. \A r \in rows : r.path # CurrentPath
  BY <1>1 DEF RecInv, CurrentHeld
<1>7. DiskTypes' /\ RowTypes' /\ JobTypes'
  <2>1. IsFiniteSet(rows \cup {new})
    BY FS_AddElement DEF RecInv, RowTypes
  <2> QED BY <1>1, <1>4, <1>5, <2>1 DEF RecInv, DiskTypes, RowTypes, JobTypes
<1>8. OnePath'
  BY <1>1, <1>4, <1>5, <1>6 DEF RecInv, OnePath
<1>9. NoneAhead'
  <2>1. \A r \in rows' : Past(r.path)
    BY <1>3, <1>4, <1>5 DEF RecInv, NoneAhead
  <2> QED BY <1>1, <1>2, <2>1 DEF RecInv, NoneAhead
<1>10. CurrentHeld'
  <2>1. \A r \in rows' : r.path = CurrentPath => ~r.closed
    BY <1>4, <1>5, <1>6
  <2>2. CurrentPath \in untold' \/ \E r \in rows' : r.path = CurrentPath
    BY <1>4, <1>5
  <2>3. place' # "inserting"
    BY <1>1
  <2> QED BY <1>1, <1>2, <2>1, <2>2, <2>3 DEF RecInv, CurrentHeld
<1>11. FileGone'
  BY <1>1 DEF RecInv, FileGone
<1>12. Accounted'
  BY <1>1, <1>2, <1>5 DEF RecInv, Accounted, Closed
<1> QED BY <1>3, <1>7, <1>8, <1>9, <1>10, <1>11, <1>12 DEF RecInv

\* Of the files only the one being written grows, and no more than its writer counts.
LEMMA WritesKeep ==
  ASSUME RecInv, PlaceTypes', place \in Open \ {"inserting"}, place' \in Open \ {"inserting"},
         seg =< seg', UNCHANGED <<rows, untold, stamp, index, remover>>,
         disk' = disk \/ disk' = Flushed(disk)
  PROVE  RecInv'
<1>1. CurrentPath' = CurrentPath /\ \A p : Past(p)' <=> Past(p)
  BY DEF CurrentPath, Past
<1>2. seg \in Nat /\ seg' \in Nat
  BY DEF RecInv, PlaceTypes
<1>3. /\ \A f \in disk : \E g \in disk' : g.path = f.path
      /\ \A g \in disk' : \/ g \in disk
                          \/ g \in File /\ g.path = CurrentPath /\ g.bytes = seg'
      /\ \A g \in disk' : \E f \in disk : f.path = g.path
      /\ \A f, g \in disk' : f.path = g.path => f = g
  <2>1. CASE disk' = disk
    BY <2>1 DEF RecInv, OnePath
  <2>2. CASE disk' = Flushed(disk)
    <3> DEFINE new == [f \in disk |-> IF f.path = CurrentPath THEN [f EXCEPT !.bytes = seg'] ELSE f]
    <3>1. disk' = {new[f] : f \in disk}
      BY <2>2 DEF Flushed
    <3>2. ASSUME NEW f \in disk
          PROVE  /\ new[f].path = f.path
                 /\ f.path # CurrentPath => new[f] = f
                 /\ f.path = CurrentPath => new[f].bytes = seg' /\ new[f] \in File
      <4>1. f \in File
        BY DEF RecInv, DiskTypes
      <4> QED BY <1>2, <4>1 DEF File
    <3> HIDE DEF new
    <3>3. \A f, g \in disk : f.path = g.path => f = g
      BY DEF RecInv, OnePath
    <3>4. \A f \in disk : new[f] \in disk' /\ new[f].path = f.path
      BY <3>1, <3>2
    <3>5. ASSUME NEW g \in disk'
          PROVE  \E f \in disk : g = new[f] /\ f.path = g.path
      BY <3>1, <3>2
    <3>6. ASSUME NEW g \in disk' PROVE g \in disk \/ (g \in File /\ g.path = CurrentPath /\ g.bytes = seg')
      <4>1. PICK f \in disk : g = new[f] /\ f.path = g.path
        BY <3>5
      <4> QED BY <4>1, <3>2
    <3>7. ASSUME NEW g \in disk', NEW h \in disk', g.path = h.path PROVE g = h
      <4>1. PICK f \in disk : g = new[f] /\ f.path = g.path
        BY <3>5
      <4>2. PICK e \in disk : h = new[e] /\ e.path = h.path
        BY <3>5
      <4> QED BY <3>3, <3>7, <4>1, <4>2
    <3>8. \A g \in disk' : \E f \in disk : f.path = g.path
      BY <3>5
    <3>9. \A f \in disk : \E g \in disk' : g.path = f.path
      BY <3>4
    <3> QED BY <3>6, <3>7, <3>8, <3>9
  <2> QED BY <2>1, <2>2
<1>4. DiskTypes' /\ RowTypes' /\ JobTypes'
  BY <1>3 DEF RecInv, DiskTypes, RowTypes, JobTypes
<1>5. OnePath'
  BY <1>3 DEF RecInv, OnePath
<1>6. NoneAhead'
  <2>1. \A g \in disk' : Past(g.path)
    BY <1>3 DEF RecInv, NoneAhead
  <2> QED BY <1>1, <2>1 DEF RecInv, NoneAhead
<1>7. CurrentHeld'
  <2>1. \A f \in disk' : f.path = CurrentPath => f.bytes =< seg'
    <3> SUFFICES ASSUME NEW f \in disk', f.path = CurrentPath PROVE f.bytes =< seg'
      OBVIOUS
    <3>1. CASE f \in disk
      <4>1. f.bytes \in Nat /\ f.bytes =< seg
        BY <3>1 DEF RecInv, DiskTypes, File, CurrentHeld
      <4> QED BY <1>2, <4>1
    <3>2. CASE f.bytes = seg'
      BY <1>2, <3>2
    <3> QED BY <1>3, <3>1, <3>2
  <2>2. \E f \in disk' : f.path = CurrentPath
    BY <1>3 DEF RecInv, CurrentHeld
  <2> QED BY <1>1, <2>1, <2>2 DEF RecInv, CurrentHeld
<1>8. FileGone'
  <2>1. \A g \in disk' : \E f \in disk : f.path = g.path
    BY <1>3
  <2> QED BY <2>1 DEF RecInv, FileGone, IsHead
<1>9. Accounted'
  BY <1>1, <1>3 DEF RecInv, Accounted, Closed
<1> QED BY <1>4, <1>5, <1>6, <1>7, <1>8, <1>9 DEF RecInv

\* Media is written and flushed.
LEMMA MediaKeeps ==
  ASSUME RecInv, NEW b \in BOOLEAN, WriteMedia(b) \/ FlushSegment(b) PROVE RecInv'
<1>1. CASE WriteMedia(b)
  <2>1. place = "writing" /\ place' \in {"failFlushing", "writing"} /\ seg' = seg + 1
    BY <1>1 DEF WriteMedia
  <2>2. /\ UNCHANGED <<rows, session, last, stamp, index, remover, untold>>
        /\ disk' = disk \/ disk' = Flushed(disk)
    BY <1>1 DEF WriteMedia
  <2>3. PlaceTypes' /\ seg =< seg'
    BY <2>1, <2>2 DEF RecInv, PlaceTypes, RecorderPlaces, Open
  <2>4. place \in Open \ {"inserting"} /\ place' \in Open \ {"inserting"}
    BY <2>1 DEF Open
  <2> QED BY <2>2, <2>3, <2>4, WritesKeep
<1>2. CASE FlushSegment(b)
  <2>1. place \in {"flushing", "rotateFlushing", "failFlushing"} /\ seg' = seg
    BY <1>2 DEF FlushSegment
  <2>2. place' \in {"finishing", "rotateFinishing", "failFinishing"}
    <3>1. CASE place = "flushing"
      BY <1>2, <3>1 DEF FlushSegment
    <3>2. CASE place # "flushing"
      BY <1>2, <3>2 DEF FlushSegment
    <3> QED BY <3>1, <3>2
  <2>3. /\ UNCHANGED <<rows, session, last, stamp, index, remover, untold>>
        /\ disk' = disk \/ disk' = Flushed(disk)
    BY <1>2 DEF FlushSegment
  <2>4. PlaceTypes' /\ seg =< seg'
    BY <2>1, <2>2, <2>3 DEF RecInv, PlaceTypes, RecorderPlaces, Open
  <2>5. place \in Open \ {"inserting"} /\ place' \in Open \ {"inserting"}
    BY <2>1, <2>2 DEF Open
  <2> QED BY <2>3, <2>4, <2>5, WritesKeep
<1> QED BY <1>1, <1>2

\* The segment's row is closed with what its writer counted, or the database refuses it.
LEMMA FinishSegmentKeeps == ASSUME RecInv, NEW ok \in BOOLEAN, FinishSegment(ok) PROVE RecInv'
<1>1. /\ place \in {"finishing", "rotateFinishing", "failFinishing"}
      /\ UNCHANGED <<disk, session, last, stamp, remover>>
  BY DEF FinishSegment
<1>2. /\ place \in Open \ {"inserting"} /\ place' \in {"off", "rotate", "publisher"}
      /\ place' = "rotate" => UNCHANGED <<index, seg>>
      /\ place' # "rotate" => index' = 0 /\ seg' = 0
  <2>1. CASE place = "finishing"
    BY <2>1 DEF FinishSegment, Open, Discard
  <2>2. CASE place = "rotateFinishing"
    BY <2>2 DEF FinishSegment, Open, Keep
  <2>3. CASE place = "failFinishing"
    BY <2>3 DEF FinishSegment, Open, Discard
  <2> QED BY <1>1, <2>1, <2>2, <2>3
<1>3. place' \notin Open
  BY <1>2 DEF Open
<1>4. PlaceTypes'
  <2>1. 0 \in 0..MaxIndex /\ 0 \in Nat
    BY RecordingLimits
  <2>2. index' \in 0..MaxIndex /\ seg' \in Nat
    BY <1>2, <2>1 DEF RecInv, PlaceTypes
  <2>3. place' \in Open \cup {"rotate"} => stamp > 0 /\ index > 0 /\ index' = index
    BY <1>2, <1>3 DEF RecInv, PlaceTypes
  <2>4. place' \in RecorderPlaces
    BY <1>2 DEF RecorderPlaces
  <2> QED BY <1>1, <2>2, <2>3, <2>4 DEF RecInv, PlaceTypes
<1> DEFINE new == [r \in rows |-> IF ok /\ r.path = CurrentPath
                                    THEN [r EXCEPT !.closed = TRUE, !.bytes = seg] ELSE r]
<1>5. /\ \A r \in rows : new[r] \in rows'
      /\ \A t \in rows' : \E r \in rows : t = new[r]
      /\ new \in [rows -> rows']
  <2>1. rows' = {new[r] : r \in rows}
    BY DEF FinishSegment
  <2> QED BY <2>1
<1>6. ASSUME NEW r \in rows
      PROVE  /\ new[r] \in Recorded /\ new[r].path = r.path
             /\ r.path # CurrentPath \/ ~ok => new[r] = r
             /\ r.path = CurrentPath /\ ok => new[r].closed = TRUE /\ new[r].bytes = seg
  <2>1. r \in Recorded /\ seg \in Nat
    BY DEF RecInv, RowTypes, PlaceTypes
  <2> QED BY <2>1 DEF Recorded
<1> HIDE DEF new
<1>7. DiskTypes' /\ RowTypes' /\ JobTypes'
  <2>1. new \in Surjection(rows, rows')
    BY <1>5 DEF Surjection
  <2>2. IsFiniteSet(rows')
    BY <2>1, FS_Surjection DEF RecInv, RowTypes
  <2>3. rows' \subseteq Recorded
    BY <1>5, <1>6
  <2> QED BY <1>1, <2>2, <2>3 DEF RecInv, DiskTypes, RowTypes, JobTypes
<1>8. ASSUME NEW t \in rows' PROVE \E r \in rows : t = new[r] /\ t.path = r.path
  <2>1. PICK r \in rows : t = new[r]
    BY <1>5
  <2>2. new[r].path = r.path
    BY <1>6
  <2> QED BY <2>1, <2>2
<1>9. OnePath'
  <2>1. ASSUME NEW t \in rows', NEW u \in rows', t.path = u.path PROVE t = u
    <3>1. PICK r \in rows : t = new[r] /\ t.path = r.path
      BY <1>8
    <3>2. PICK s \in rows : u = new[s] /\ u.path = s.path
      BY <1>8
    <3> QED BY <2>1, <3>1, <3>2 DEF RecInv, OnePath
  <2> QED BY <1>1, <2>1 DEF RecInv, OnePath
<1>10. NoneAhead'
  <2>1. \A p : Past(p) => Past(p)'
    BY <1>1, <1>2, <1>3 DEF Past
  <2>2. \A t \in rows' : Past(t.path)
    BY <1>8 DEF RecInv, NoneAhead
  <2> QED BY <1>1, <2>1, <2>2 DEF RecInv, NoneAhead
<1>11. CurrentHeld'
  BY <1>3 DEF CurrentHeld
<1>12. FileGone'
  BY <1>1 DEF RecInv, FileGone
<1>13. Accounted'
  <2> SUFFICES ASSUME NEW f \in disk PROVE f.path \in untold' \/ \E t \in rows' : t.closed /\ t.path = f.path /\ t.bytes >= f.bytes
    BY <1>1 DEF Accounted, Closed
  <2>1. untold \subseteq untold' /\ (ok \/ CurrentPath \in untold')
    BY DEF FinishSegment
  <2>2. CASE f.path = CurrentPath
    <3>1. f.bytes =< seg /\ f.bytes \in Nat /\ seg \in Nat
      BY <1>2, <2>2 DEF RecInv, CurrentHeld, DiskTypes, File, PlaceTypes
    <3>2. ASSUME ok, NEW r \in rows, r.path = CurrentPath
          PROVE  new[r] \in rows' /\ new[r].closed /\ new[r].path = f.path /\ new[r].bytes >= f.bytes
      <4>1. new[r] \in rows' /\ new[r].closed /\ new[r].path = f.path /\ new[r].bytes = seg
        BY <1>5, <1>6, <2>2, <3>2
      <4> QED BY <3>1, <4>1
    <3>3. CurrentPath \in untold \/ \E r \in rows : r.path = CurrentPath
      BY <1>2 DEF RecInv, CurrentHeld
    <3> QED BY <2>1, <2>2, <3>2, <3>3
  <2>3. CASE f.path # CurrentPath
    <3>1. f.path \in untold \/ \E r \in rows : r.closed /\ r.path = f.path /\ r.bytes >= f.bytes
      BY <2>3 DEF RecInv, Accounted, Closed
    <3>2. \A r \in rows : r.path = f.path => new[r] = r /\ new[r] \in rows'
      BY <1>5, <1>6, <2>3
    <3> QED BY <2>1, <3>1, <3>2
  <2> QED BY <2>2, <2>3
<1> QED BY <1>4, <1>7, <1>9, <1>10, <1>11, <1>12, <1>13 DEF RecInv

-----------------------------------------------------------------------------
\* The first of a list is one: paths are ordered.
LEMMA OneHead ==
  ASSUME RecInv, NEW k \in Removers, NEW r \in remover[k].list, NEW t \in remover[k].list,
         IsHead(r, remover[k].list), IsHead(t, remover[k].list)
  PROVE  r = t
<1>1. /\ r.path.stamp \in Nat /\ r.path.index \in Nat
      /\ t.path.stamp \in Nat /\ t.path.index \in Nat
  BY DEF RecInv, JobTypes, Recorded, Path
<1>2. ASSUME r # t PROVE FALSE
  <2>1. Before(r.path, t.path) /\ Before(t.path, r.path)
    BY <1>2 DEF IsHead
  <2> QED BY <1>1, <2>1 DEF Before
<1> QED BY <1>2

\* The removers list and give up; they remove nothing yet.
LEMMA ListingKeeps ==
  ASSUME RecInv, \/ RequestDelete \/ DailyPrune
                 \/ \E k \in Removers : RemoveFails(k) \/ NextPhase(k) \/ ListBySize(k)
  PROVE  RecInv'
<1> DEFINE Rest == UNCHANGED <<disk, rows, untold, session, last, place, stamp, index, seg>>
<1>1. ASSUME NEW k \in Removers, NEW phase, NEW list, NEW sum, Rest,
             remover' = [remover EXCEPT ![k] = Removing(phase, list, sum)],
             list \subseteq Closed, phase = "total" => list = {}
      PROVE  RecInv'
  BY <1>1, ListedKeeps
<1>2. CASE RequestDelete
  <2>1. PICK r \in Closed : remover' = [remover EXCEPT !["request"] = Removing("one", {r}, 0)]
    BY <1>2 DEF RequestDelete
  <2>2. PICK phase, sum : phase = "one" /\ sum = 0
    OBVIOUS
  <2>3. Rest /\ "request" \in Removers /\ {r} \subseteq Closed
    BY <1>2 DEF RequestDelete, writer, Removers
  <2> QED BY <1>1, <2>1, <2>2, <2>3
<1>3. CASE DailyPrune
  <2>1. PICK old \in Oldest(Closed) : remover' = [remover EXCEPT !["daily"] = Removing("age", old, 0)]
    BY <1>3 DEF DailyPrune
  <2>2. PICK phase, sum : phase = "age" /\ sum = 0
    OBVIOUS
  <2>3. Rest /\ "daily" \in Removers /\ old \subseteq Closed
    BY <1>3 DEF DailyPrune, writer, Removers, Oldest
  <2> QED BY <1>1, <2>1, <2>2, <2>3
<1>4. ASSUME NEW k \in Removers, RemoveFails(k) \/ NextPhase(k) \/ ListBySize(k) PROVE RecInv'
  <2>1. Rest
    BY <1>4 DEF RemoveFails, NextPhase, ListBySize, writer
  <2>2. CASE remover' = [remover EXCEPT ![k] = Idle]
    <3>1. PICK phase, list, sum : phase = "idle" /\ list = {} /\ sum = 0
      OBVIOUS
    <3>2. Idle = Removing(phase, list, sum) /\ list \subseteq Closed
      BY <3>1 DEF Idle
    <3> QED BY <1>1, <2>1, <2>2, <3>1, <3>2
  <2>3. CASE remover' = [remover EXCEPT ![k] = Removing("total", {}, TotalBytes)]
    <3>1. PICK phase, list, sum : phase = "total" /\ list = {} /\ sum = TotalBytes
      OBVIOUS
    <3> QED BY <1>1, <2>1, <2>3, <3>1
  <2>4. CASE remover' = [remover EXCEPT ![k] = Removing("size", Closed, remover[k].sum)]
    <3>1. PICK phase, sum : phase = "size" /\ sum = remover[k].sum
      OBVIOUS
    <3> QED BY <1>1, <2>1, <2>4, <3>1
  <2>5. CASE RemoveFails(k)
    BY <2>2, <2>5 DEF RemoveFails
  <2>6. CASE NextPhase(k)
    BY <2>2, <2>3, <2>6 DEF NextPhase
  <2>7. CASE ListBySize(k)
    BY <2>4, <2>7 DEF ListBySize
  <2> QED BY <1>4, <2>5, <2>6, <2>7
<1> QED BY <1>2, <1>3, <1>4

\* A file is removed: not the one being written, which is in no list.
LEMMA RemoveFileKeeps == ASSUME RecInv, NEW k \in Removers, RemoveFile(k) PROVE RecInv'
<1>1. /\ UNCHANGED <<rows, session, last, place, stamp, index, seg, untold>>
      /\ ~remover[k].gone /\ remover' = [remover EXCEPT ![k].gone = TRUE]
  BY DEF RemoveFile, writer
<1>2. PICK head \in remover[k].list : IsHead(head, remover[k].list) /\ disk' = {f \in disk : f.path # head.path}
  BY DEF RemoveFile
<1>3. /\ remover'[k].gone = TRUE /\ remover'[k].phase = remover[k].phase
      /\ \A l \in Removers : remover'[l].list = remover[l].list
      /\ \A l \in Removers \ {k} : remover'[l] = remover[l]
      /\ JobTypes'
  <2>1. remover[k] = [phase |-> remover[k].phase, list |-> remover[k].list, gone |-> remover[k].gone, sum |-> remover[k].sum]
    BY DEF RecInv, JobTypes
  <2>2. PICK j : j = [remover[k] EXCEPT !.gone = TRUE]
    OBVIOUS
  <2>3. remover' = [remover EXCEPT ![k] = j]
    BY <1>1, <2>2
  <2>4. /\ j = [phase |-> j.phase, list |-> j.list, gone |-> j.gone, sum |-> j.sum]
        /\ j.phase = remover[k].phase /\ j.list = remover[k].list /\ j.gone = TRUE
    BY <2>1, <2>2
  <2>5. remover[k].list \subseteq Recorded
    BY DEF RecInv, JobTypes
  <2>6. j.list \subseteq Recorded /\ j.gone \in BOOLEAN
    BY <2>4, <2>5
  <2>7. JobTypes'
    BY <2>3, <2>4, <2>6, JobPut DEF RecInv
  <2>8. remover'[k] = j /\ \A l \in Removers \ {k} : remover'[l] = remover[l]
    BY <2>3, OneJob DEF RecInv
  <2> QED BY <2>4, <2>7, <2>8
<1>4. CurrentPath' = CurrentPath /\ \A p : Past(p)' <=> Past(p)
  BY <1>1 DEF CurrentPath, Past
<1>5. DiskTypes' /\ RowTypes' /\ PlaceTypes' /\ OnePath'
  BY <1>1, <1>2 DEF RecInv, DiskTypes, RowTypes, PlaceTypes, OnePath
<1>6. NoneAhead'
  BY <1>1, <1>2, <1>3, <1>4 DEF RecInv, NoneAhead
<1>7. CurrentHeld'
  <2> SUFFICES ASSUME place \in Open PROVE CurrentHeld'
    BY <1>1 DEF CurrentHeld
  <2>1. head.path # CurrentPath
    BY DEF RecInv, CurrentHeld
  <2> QED BY <1>1, <1>2, <1>3, <1>4, <2>1 DEF RecInv, CurrentHeld
<1>8. FileGone'
  <2>1. remover[k].phase # "total"
    BY <1>2 DEF RecInv, FileGone
  <2>2. \A r \in remover[k].list : IsHead(r, remover[k].list) => r = head
    BY <1>2, OneHead
  <2>3. \A r \in remover'[k].list : IsHead(r, remover'[k].list) => \A f \in disk' : f.path # r.path
    BY <1>2, <1>3, <2>2
  <2>4. ASSUME NEW l \in Removers \ {k}
        PROVE  /\ remover'[l].phase = "total" => remover'[l].list = {} /\ ~remover'[l].gone
               /\ remover'[l].gone => \A r \in remover'[l].list : IsHead(r, remover'[l].list) =>
                                     \A f \in disk' : f.path # r.path
    BY <1>2, <1>3 DEF RecInv, FileGone
  <2> QED BY <1>3, <2>1, <2>3, <2>4 DEF FileGone, IsHead
<1>9. Accounted'
  BY <1>1, <1>2, <1>4 DEF RecInv, Accounted, Closed
<1> QED BY <1>3, <1>5, <1>6, <1>7, <1>8, <1>9 DEF RecInv

\* A row is removed: of a file that is gone.
LEMMA RemoveRowKeeps == ASSUME RecInv, NEW k \in Removers, RemoveRow(k) PROVE RecInv'
<1>1. UNCHANGED <<disk, session, last, place, stamp, index, seg, untold>> /\ remover[k].gone
  BY DEF RemoveRow, writer
<1>2. PICK head \in remover[k].list :
        /\ IsHead(head, remover[k].list)
        /\ rows' = {r \in rows : r.path # head.path}
        /\ remover' = [remover EXCEPT ![k] = Removing(remover[k].phase, remover[k].list \ {head}, remover[k].sum - head.bytes)]
  BY DEF RemoveRow
<1> DEFINE j == Removing(remover[k].phase, remover[k].list \ {head}, remover[k].sum - head.bytes)
<1>3. /\ j = [phase |-> j.phase, list |-> j.list, gone |-> j.gone, sum |-> j.sum]
      /\ j.list = remover[k].list \ {head} /\ j.gone = FALSE /\ j.phase = remover[k].phase
  BY DEF Removing
<1>4. remover' = [remover EXCEPT ![k] = j]
  BY <1>2
<1> HIDE DEF j
<1>5. remover'[k] = j /\ \A l \in Removers \ {k} : remover'[l] = remover[l]
  BY <1>4, OneJob DEF RecInv
<1>6. JobTypes' /\ \A l \in Removers : remover'[l].list \subseteq remover[l].list
  <2>1. j.list \subseteq Recorded /\ j.gone \in BOOLEAN
    BY <1>3 DEF RecInv, JobTypes
  <2> QED BY <1>3, <1>4, <1>5, <2>1, JobPut DEF RecInv
<1>7. CurrentPath' = CurrentPath /\ \A p : Past(p)' <=> Past(p)
  BY <1>1 DEF CurrentPath, Past
<1>8. DiskTypes' /\ PlaceTypes' /\ OnePath'
  BY <1>1, <1>2 DEF RecInv, DiskTypes, PlaceTypes, OnePath
<1>9. RowTypes'
  BY <1>2, FS_Subset DEF RecInv, RowTypes
<1>10. NoneAhead'
  BY <1>1, <1>2, <1>6, <1>7 DEF RecInv, NoneAhead
<1>11. CurrentHeld'
  <2> SUFFICES ASSUME place \in Open PROVE CurrentHeld'
    BY <1>1 DEF CurrentHeld
  <2>1. head.path # CurrentPath
    BY DEF RecInv, CurrentHeld
  <2> QED BY <1>1, <1>2, <1>6, <1>7, <2>1 DEF RecInv, CurrentHeld
<1>12. FileGone'
  <2>1. remover'[k].phase # "total" /\ remover'[k].gone = FALSE
    BY <1>3, <1>5 DEF RecInv, FileGone
  <2> QED BY <1>1, <1>5, <2>1 DEF RecInv, FileGone
<1>13. Accounted'
  <2>1. \A f \in disk : f.path # head.path
    BY <1>1, <1>2 DEF RecInv, FileGone
  <2> QED BY <1>1, <1>2, <1>7, <2>1 DEF RecInv, Accounted, Closed
<1> QED BY <1>6, <1>8, <1>9, <1>10, <1>11, <1>12, <1>13 DEF RecInv

-----------------------------------------------------------------------------
\* The program is killed, and starts: each row left open gets the size of its file, goes
\* without one, or stays for want of the database.
LEMMA RestartKeeps == ASSUME RecInv, Restart PROVE RecInv'
<1>1. /\ session' = 0 /\ place' = "off" /\ remover' = [k \in Removers |-> Idle]
      /\ index' = 0 /\ seg' = 0 /\ UNCHANGED <<disk, last, stamp>>
  BY DEF Restart, Discard
<1>2. PICK done \in Oldest(Dangling) :
        /\ rows' = (rows \ done) \cup {Reconciled(r) : r \in {d \in done : HasFile(d)}}
        /\ untold' = untold \cup {r.path : r \in Dangling \ done}
                            \cup (IF place = "inserting" THEN {CurrentPath} ELSE {})
  BY DEF Restart
<1>3. done \subseteq rows /\ \A r \in done : ~r.closed
  BY DEF Oldest, Dangling
<1> DEFINE found == {d \in done : HasFile(d)}
           new == [r \in found |-> Reconciled(r)]
<1>4. /\ rows' = (rows \ done) \cup {new[r] : r \in found}
      /\ \A r \in found : new[r] \in rows'
      /\ \A t \in rows' : t \in rows \ done \/ \E r \in found : t = new[r]
  <2>1. {Reconciled(r) : r \in found} = {new[r] : r \in found}
    OBVIOUS
  <2> QED BY <1>2, <2>1
<1>5. ASSUME NEW r \in found
      PROVE  /\ new[r] \in Recorded /\ new[r].path = r.path /\ new[r].closed
             /\ \A f \in disk : f.path = r.path => new[r].bytes = f.bytes
  <2>1. PICK g : g = CHOOSE f \in disk : f.path = r.path
    OBVIOUS
  <2>2. g \in disk /\ g.path = r.path
    BY <2>1 DEF HasFile
  <2>3. r \in Recorded /\ g.bytes \in Nat
    BY <1>3, <2>2 DEF RecInv, RowTypes, DiskTypes, File
  <2>4. new[r] = [r EXCEPT !.closed = TRUE, !.bytes = g.bytes]
    BY <2>1 DEF Reconciled
  <2>5. /\ new[r] \in Recorded /\ new[r].path = r.path /\ new[r].closed = TRUE
        /\ new[r].bytes = g.bytes
    BY <2>3, <2>4 DEF Recorded
  <2>6. \A f \in disk : f.path = r.path => f = g
    BY <2>2 DEF RecInv, OnePath
  <2> QED BY <2>5, <2>6
<1>6. found \subseteq done
  OBVIOUS
<1>7. IsFiniteSet(rows')
  <2>1. IsFiniteSet(found) /\ IsFiniteSet(rows \ done)
    BY <1>3, <1>6, FS_Subset DEF RecInv, RowTypes
  <2>2. new \in Surjection(found, {new[r] : r \in found})
    BY DEF Surjection
  <2> HIDE DEF new, found
  <2>3. IsFiniteSet({new[r] : r \in found})
    BY <2>1, <2>2, FS_Surjection
  <2> QED BY <1>4, <2>1, <2>3, FS_Union
<1> HIDE DEF new, found
<1>8. DiskTypes' /\ RowTypes'
  <2>1. rows' \subseteq Recorded
    BY <1>4, <1>5 DEF RecInv, RowTypes
  <2> QED BY <1>1, <1>7, <2>1 DEF RecInv, DiskTypes, RowTypes
<1>9. PlaceTypes'
  <2>1. 0 \in 0..MaxIndex /\ 0 \in Nat /\ place' \in RecorderPlaces /\ place' \notin Open \cup {"rotate"}
    BY <1>1, RecordingLimits DEF RecorderPlaces, Open
  <2> QED BY <1>1, <2>1 DEF RecInv, PlaceTypes
<1>10. JobTypes' /\ FileGone' /\ \A k \in Removers : remover'[k].list = {}
  BY <1>1 DEF JobTypes, FileGone, Idle, Removing
<1>11. ASSUME NEW t \in rows'
       PROVE  \E r \in rows : r.path = t.path /\ ((t = r /\ r \notin done) \/ (r \in found /\ t = new[r]))
  <2>1. CASE t \in rows \ done
    BY <2>1
  <2>2. ASSUME NEW r \in found, t = new[r] PROVE r \in rows /\ r.path = t.path
    <3>1. new[r].path = r.path
      BY <1>5
    <3> QED BY <1>3, <1>6, <2>2, <3>1
  <2> QED BY <1>4, <2>1, <2>2
<1>12. OnePath'
  <2>1. ASSUME NEW t \in rows', NEW u \in rows', t.path = u.path PROVE t = u
    <3>1. PICK r \in rows : r.path = t.path /\ ((t = r /\ r \notin done) \/ (r \in found /\ t = new[r]))
      BY <1>11
    <3>2. PICK s \in rows : s.path = u.path /\ ((u = s /\ s \notin done) \/ (s \in found /\ u = new[s]))
      BY <1>11
    <3>3. r = s
      BY <2>1, <3>1, <3>2 DEF RecInv, OnePath
    <3> QED BY <1>6, <3>1, <3>2, <3>3
  <2> QED BY <1>1, <2>1 DEF RecInv, OnePath
<1>13. NoneAhead'
  <2>1. \A p : Past(p) => Past(p)'
    BY <1>1 DEF Past, Open
  <2>2. \A t \in rows' : Past(t.path)
    BY <1>11 DEF RecInv, NoneAhead
  <2> QED BY <1>1, <1>10, <2>1, <2>2 DEF RecInv, NoneAhead
<1>14. CurrentHeld'
  BY <1>1 DEF CurrentHeld, Open
<1>15. Accounted'
  <2> SUFFICES ASSUME NEW f \in disk
               PROVE  f.path \in untold' \/ \E t \in rows' : t.closed /\ t.path = f.path /\ t.bytes >= f.bytes
    BY <1>1 DEF Accounted, Closed
  <2>1. CASE f.path \in untold
    BY <1>2, <2>1
  <2>2. ASSUME NEW r \in rows, r.closed, r.path = f.path, r.bytes >= f.bytes
        PROVE  \E t \in rows' : t.closed /\ t.path = f.path /\ t.bytes >= f.bytes
    BY <1>3, <1>4, <2>2
  <2>3. CASE place \in Open /\ f.path = CurrentPath
    <3>1. CASE place = "inserting"
      BY <1>2, <2>3, <3>1
    <3>2. ASSUME NEW r \in rows, r.path = CurrentPath
          PROVE  f.path \in untold' \/ \E t \in rows' : t.closed /\ t.path = f.path /\ t.bytes >= f.bytes
      <4>1. r \in Dangling
        BY <2>3, <3>2 DEF RecInv, CurrentHeld, Dangling
      <4>2. CASE r \notin done
        BY <1>2, <2>3, <3>2, <4>1, <4>2
      <4>3. CASE r \in done
        <5>1. r \in found
          BY <2>3, <3>2, <4>3 DEF found, HasFile
        <5>2. f.bytes \in Nat
          BY DEF RecInv, DiskTypes, File
        <5>3. new[r] \in rows' /\ new[r].closed /\ new[r].path = f.path /\ new[r].bytes = f.bytes
          BY <1>4, <1>5, <2>3, <3>2, <5>1
        <5>4. new[r].bytes >= f.bytes
          BY <5>2, <5>3
        <5> QED BY <5>3, <5>4
      <4> QED BY <4>2, <4>3
    <3>3. place # "inserting" => CurrentPath \in untold \/ \E r \in rows : r.path = CurrentPath
      BY <2>3 DEF RecInv, CurrentHeld
    <3> QED BY <2>1, <2>3, <3>1, <3>2, <3>3
  <2>4. \/ f.path \in untold
        \/ place \in Open /\ f.path = CurrentPath
        \/ \E r \in rows : r.closed /\ r.path = f.path /\ r.bytes >= f.bytes
    BY DEF RecInv, Accounted, Closed
  <2> QED BY <2>1, <2>2, <2>3, <2>4
<1> QED BY <1>8, <1>9, <1>10, <1>12, <1>13, <1>14, <1>15 DEF RecInv

-----------------------------------------------------------------------------
\* No step of the recorder, the removers, the session or the restart breaks the invariant.
LEMMA RecStepKeeps == ASSUME RecInv, [RecNext]_recVars PROVE RecInv'
<1>1. CASE UNCHANGED recVars
  <2>1. UNCHANGED <<disk, rows, session, last, place, stamp, index, seg, remover, untold>>
    BY <1>1 DEF recVars, writer
  <2>2. PlaceTypes'
    BY <2>1 DEF RecInv, PlaceTypes
  <2>3. CurrentPath' = CurrentPath
    BY <2>1 DEF CurrentPath
  <2> QED BY <2>1, <2>2, <2>3 DEF RecInv, DiskTypes, RowTypes, JobTypes, OnePath, NoneAhead, Past,
                                  CurrentHeld, FileGone, Accounted, Closed
<1>2. CASE Record
  BY <1>2, NewPubKeeps, SessionKeepsRec, BuildKeepsRec, OpenSegmentKeeps, InsertRowKeeps,
     MediaKeeps, FinishSegmentKeeps DEF Record
<1>3. CASE Removal
  BY <1>3, ListingKeeps, RemoveFileKeeps, RemoveRowKeeps DEF Removal
<1> QED BY <1>1, <1>2, <1>3, SessionKeepsRec, RestartKeeps DEF RecNext

\* The recorder, those who remove recordings, and the restart (record/writer.go,
\* store/recordings.go, sinks/factory.go) keep their inductive invariant.
THEOREM RecordingsHold == RecSpec => []RecInv
BY RecInitInv, RecStepKeeps, PTL DEF RecSpec

\* Whoever removes recordings, and however they overlap with the recorder's opening,
\* rotating and closing, the file being written is there (PruneRecordings,
\* handleDeleteRecording).
THEOREM LiveFilesKept == RecSpec => []LiveFileKept
<1>1. RecInv => LiveFileKept
  BY DEF RecInv, CurrentHeld, LiveFileKept
<1> QED BY <1>1, RecordingsHold, PTL

\* For any quota, connections, segments, removers and restarts, a file that is not being
\* written weighs on the quota with at least its size, unless the database refused its
\* row: none is left behind that nobody counts (OnSegment, CloseDanglingRecordings).
THEOREM FilesAccounted == RecSpec => []Accounted
<1>1. RecInv => Accounted
  BY DEF RecInv
<1> QED BY <1>1, RecordingsHold, PTL

-----------------------------------------------------------------------------
\* The bytes of rows and of files, as sums that can be taken apart.
RowsSum(S)  == SumFunctionOnSet([r \in Recorded |-> r.bytes], S)
FilesSum(S) == SumFunctionOnSet([f \in File |-> f.bytes], S)

\* What the writer has counted and no row weighs yet.
Unsaved == IF place \in Open THEN seg ELSE 0

\* The inductive invariant of the quota: no row is open but the writer's, which weighs
\* nothing yet; the rows and what is not in them yet weigh no more than the writer
\* counts; and it counts no further than the next look.
QuotaInv ==
  /\ IsFiniteSet(disk)
  /\ used \in Nat /\ since \in Nat /\ since < CheckEvery
  /\ untold = {} =>
       /\ \A r \in rows : r.closed \/ (place \in Open /\ r.path = CurrentPath /\ r.bytes = 0)
       /\ TotalBytes < Most
       /\ place \in Open \cup {"connect", "rotate"} => TotalBytes + Unsaved <= used /\ used < Most
       /\ place \in {"inserting", "writing"} => used < MaxBytes + since

\* The sum of what is projected from a set is that of the projection on it.
LEMMA RowSums ==
  ASSUME NEW S \in SUBSET Recorded, IsFiniteSet(S)
  PROVE  RowsSum(S) \in Nat /\ SumFunction([r \in S |-> r.bytes]) = RowsSum(S)
<1> DEFINE f == [r \in Recorded |-> r.bytes]
           g == [r \in S |-> r.bytes]
<1>1. \A r \in S : f[r] \in Nat /\ f[r] \in Int /\ g[r] = f[r]
  BY DEF Recorded
<1>2. DOMAIN g = S
  OBVIOUS
<1> HIDE DEF f, g
<1>3. SumFunctionOnSet(g, S) = SumFunctionOnSet(f, S)
  BY <1>1, SumSame
<1>4. SumFunctionOnSet(f, S) \in Nat
  BY <1>1, SumGrows
<1> QED BY <1>2, <1>3, <1>4 DEF RowsSum, SumFunction, f, g

\* The same of files.
LEMMA FileSums ==
  ASSUME NEW S \in SUBSET File, IsFiniteSet(S)
  PROVE  FilesSum(S) \in Nat /\ SumFunction([f \in S |-> f.bytes]) = FilesSum(S)
<1> DEFINE f == [r \in File |-> r.bytes]
           g == [r \in S |-> r.bytes]
<1>1. \A r \in S : f[r] \in Nat /\ f[r] \in Int /\ g[r] = f[r]
  BY DEF File
<1>2. DOMAIN g = S
  OBVIOUS
<1> HIDE DEF f, g
<1>3. SumFunctionOnSet(g, S) = SumFunctionOnSet(f, S)
  BY <1>1, SumSame
<1>4. SumFunctionOnSet(f, S) \in Nat
  BY <1>1, SumGrows
<1> QED BY <1>2, <1>3, <1>4 DEF FilesSum, SumFunction, f, g

\* TotalBytes is a sum of rows.
LEMMA TotalIs == RowTypes => TotalBytes = RowsSum(rows) /\ TotalBytes \in Nat
BY RowSums DEF RowTypes, TotalBytes

\* Fewer rows weigh no more.
LEMMA RowsLess ==
  ASSUME NEW S \in SUBSET Recorded, IsFiniteSet(S), NEW T \in SUBSET S
  PROVE  RowsSum(T) =< RowsSum(S) /\ RowsSum(T) \in Nat /\ RowsSum(S) \in Nat
<1> DEFINE f == [r \in Recorded |-> r.bytes]
<1>1. \A r \in S : f[r] \in Nat
  BY DEF Recorded
<1> HIDE DEF f
<1> QED BY <1>1, SumGrows DEF RowsSum, f

\* Another row weighs what it weighs.
LEMMA RowsMore ==
  ASSUME NEW S \in SUBSET Recorded, IsFiniteSet(S), NEW a \in Recorded, a \notin S
  PROVE  RowsSum(S \cup {a}) = RowsSum(S) + a.bytes
<1> DEFINE f == [r \in Recorded |-> r.bytes]
           T == S \cup {a}
<1>0. f[a] = a.bytes /\ a \in T /\ T \ {a} = S
  OBVIOUS
<1>1. IsFiniteSet(T)
  BY FS_AddElement
<1>2. \A x \in T : f[x] \in Int
  BY DEF Recorded
<1>3. a.bytes \in Int /\ SumFunctionOnSet(f, S) \in Int
  <2>1. RowsSum(S) \in Nat
    BY RowSums
  <2> QED BY <2>1 DEF Recorded, RowsSum
<1> HIDE DEF f, T
<1>4. SumFunctionOnSet(f, T) = f[a] + SumFunctionOnSet(f, T \ {a})
  BY <1>0, <1>1, <1>2, SumRemove
<1>5. SumFunctionOnSet(f, T) = SumFunctionOnSet(f, S) + a.bytes
  <2>1. SumFunctionOnSet(f, T) = a.bytes + SumFunctionOnSet(f, S)
    BY <1>0, <1>4
  <2>2. PICK x, y \in Int : x = a.bytes /\ y = SumFunctionOnSet(f, S)
    BY <1>3
  <2>3. SumFunctionOnSet(f, T) = x + y
    BY <2>1, <2>2
  <2> QED BY <2>2, <2>3
<1>6. \A U : RowsSum(U) = SumFunctionOnSet(f, U)
  BY DEF RowsSum, f
<1> QED BY <1>5, <1>6 DEF T

\* The files are as many as can be counted.
LEMMA FilesFinite == ASSUME RecInv, IsFiniteSet(disk), RecNext PROVE IsFiniteSet(disk')
<1>1. CASE disk' = disk
  BY <1>1
<1>2. ASSUME NEW f, disk' = disk \cup {f} PROVE IsFiniteSet(disk')
  BY <1>2, FS_AddElement
<1>3. CASE disk' \subseteq disk
  BY <1>3, FS_Subset
<1>4. CASE disk' = Flushed(disk)
  <2> DEFINE new == [f \in disk |-> IF f.path = CurrentPath THEN [f EXCEPT !.bytes = seg'] ELSE f]
  <2>1. disk' = {new[f] : f \in disk}
    BY <1>4 DEF Flushed
  <2>2. new \in Surjection(disk, disk')
    BY <2>1 DEF Surjection
  <2> HIDE DEF new
  <2> QED BY <2>2, FS_Surjection
<1>5. \/ disk' = disk \/ (\E f : disk' = disk \cup {f}) \/ disk' \subseteq disk \/ disk' = Flushed(disk)
  <2>1. CASE Record
    <3>1. CASE NewPub \/ Rotate \/ WriteFails
      BY <3>1 DEF NewPub, Rotate, WriteFails
    <3>2. ASSUME NEW b \in BOOLEAN, Build(b) \/ Pruned(b) \/ InsertRow(b) \/ FinishSegment(b) PROVE disk' = disk
      BY <3>2 DEF Build, Pruned, InsertRow, FinishSegment
    <3>3. ASSUME NEW b \in BOOLEAN, OpenSegment(b) PROVE disk' = disk \/ \E f : disk' = disk \cup {f}
      BY <3>3 DEF OpenSegment
    <3>4. ASSUME NEW b \in BOOLEAN, WriteMedia(b) \/ FlushSegment(b) PROVE disk' = disk \/ disk' = Flushed(disk)
      BY <3>4 DEF WriteMedia, FlushSegment
    <3> QED BY <2>1, <3>1, <3>2, <3>3, <3>4 DEF Record
  <2>2. CASE Removal
    <3>1. ASSUME NEW k \in Removers, RemoveFile(k) PROVE disk' \subseteq disk
      BY <3>1 DEF RemoveFile
    <3>2. ASSUME NEW k \in Removers, RemoveFails(k) \/ RemoveRow(k) \/ NextPhase(k) \/ ListBySize(k)
          PROVE  disk' = disk
      BY <3>2 DEF RemoveFails, RemoveRow, NextPhase, ListBySize
    <3>3. RequestDelete \/ DailyPrune => disk' = disk
      BY DEF RequestDelete, DailyPrune
    <3> QED BY <2>2, <3>1, <3>2, <3>3 DEF Removal
  <2>3. ASSUME NEW on \in BOOLEAN, StartSession(on) PROVE disk' = disk
    BY <2>3 DEF StartSession
  <2>4. EndSession \/ SwitchOn \/ Stop \/ Restart => disk' = disk
    BY DEF EndSession, SwitchOn, Stop, Restart
  <2> QED BY <2>1, <2>2, <2>3, <2>4 DEF RecNext
<1> QED BY <1>1, <1>2, <1>3, <1>4, <1>5

\* The table stays as it is, and so does the writer's segment while there is one.
LEMMA RowsStay ==
  ASSUME RecInv, QuotaInv, untold' = {}, UNCHANGED <<rows, untold>>,
         place \in Open => place' \in Open /\ UNCHANGED <<stamp, index>>
  PROVE  /\ TotalBytes' = TotalBytes /\ TotalBytes \in Nat /\ TotalBytes < Most
         /\ \A r \in rows' : r.closed \/ (place' \in Open /\ r.path = CurrentPath' /\ r.bytes = 0)
<1>1. TotalBytes' = TotalBytes
  BY DEF TotalBytes
<1>2. TotalBytes \in Nat /\ TotalBytes < Most
  BY TotalIs DEF RecInv, QuotaInv
<1>3. place \in Open => CurrentPath' = CurrentPath
  BY DEF CurrentPath
<1> QED BY <1>1, <1>2, <1>3 DEF QuotaInv

\* The limits, as numbers.
LEMMA LimitTypes == /\ MaxBytes \in Nat \ {0} /\ CheckEvery \in Nat \ {0} /\ Most = MaxBytes + CheckEvery /\ Most \in Nat
BY RecordingLimits DEF Most

\* The steps that leave the table and the writer's counts alone.
LEMMA IdleQuota ==
  ASSUME RecInv, QuotaInv, IsFiniteSet(disk'), UNCHANGED <<rows, untold, stamp>>,
         \/ UNCHANGED <<place, writer>>
         \/ place \notin Open /\ place' \in {"off", "build", "pruning", "publisher"} /\ (Discard \/ UNCHANGED writer)
         \/ place = "writing" /\ place' \in {"flushing", "rotateFlushing", "failFlushing"} /\ UNCHANGED writer
  PROVE  QuotaInv'
<1>1. CASE UNCHANGED <<place, writer>>
  <2>1. Unsaved' = Unsaved /\ UNCHANGED <<used, index, since, seg>>
    BY <1>1 DEF Unsaved, writer
  <2>2. untold' = {} => /\ TotalBytes' = TotalBytes
                        /\ \A r \in rows' : r.closed \/ (place' \in Open /\ r.path = CurrentPath' /\ r.bytes = 0)
    BY <1>1, <2>1, RowsStay
  <2> QED BY <1>1, <2>1, <2>2 DEF QuotaInv
<1>2. CASE place \notin Open /\ place' \in {"off", "build", "pruning", "publisher"} /\ (Discard \/ UNCHANGED writer)
  <2>1. used' \in Nat /\ since' \in Nat /\ since' < CheckEvery
    BY <1>2, LimitTypes DEF QuotaInv, Discard, writer
  <2>2. place' \notin Open \cup {"connect", "rotate", "inserting", "writing"}
    BY <1>2 DEF Open
  <2>3. untold' = {} => /\ TotalBytes' < Most
                        /\ \A r \in rows' : r.closed \/ (place' \in Open /\ r.path = CurrentPath' /\ r.bytes = 0)
    BY <1>2, RowsStay
  <2> QED BY <2>1, <2>2, <2>3 DEF QuotaInv
<1>3. CASE place = "writing" /\ place' \in {"flushing", "rotateFlushing", "failFlushing"} /\ UNCHANGED writer
  <2>1. place \in Open /\ place' \in Open /\ place' \notin {"inserting", "writing"}
    BY <1>3 DEF Open
  <2>2. UNCHANGED <<used, index, since, seg>> /\ Unsaved' = Unsaved
    BY <1>3, <2>1 DEF Unsaved, writer
  <2>3. untold' = {} => /\ TotalBytes' = TotalBytes
                        /\ \A r \in rows' : r.closed \/ (place' \in Open /\ r.path = CurrentPath' /\ r.bytes = 0)
    BY <2>1, <2>2, RowsStay
  <2> QED BY <2>1, <2>2, <2>3 DEF QuotaInv
<1> QED BY <1>1, <1>2, <1>3

\* A publisher takes the weight of the table for its count.
LEMMA NewPubQuota == ASSUME RecInv, QuotaInv, IsFiniteSet(disk'), NewPub PROVE QuotaInv'
<1>1. /\ place = "publisher" /\ place' = "connect" /\ used' = TotalBytes /\ since' = since
      /\ UNCHANGED <<rows, untold>> /\ place \notin Open /\ place' \notin Open
  BY DEF NewPub, Open
<1>2. PICK total \in Nat : total = TotalBytes
  BY TotalIs DEF RecInv
<1>3. Unsaved' = 0
  BY <1>1 DEF Unsaved
<1>4. untold' = {} => /\ TotalBytes' = TotalBytes /\ TotalBytes < Most
                      /\ \A r \in rows' : r.closed \/ (place' \in Open /\ r.path = CurrentPath' /\ r.bytes = 0)
  BY <1>1, RowsStay
<1>5. untold' = {} => TotalBytes' + Unsaved' <= used' /\ used' < Most
  BY <1>1, <1>2, <1>3, <1>4, LimitTypes
<1> QED BY <1>1, <1>2, <1>4, <1>5 DEF QuotaInv

\* A new segment weighs nothing, and there was room for it.
LEMMA OpenSegmentQuota ==
  ASSUME RecInv, QuotaInv, IsFiniteSet(disk'), NEW opens \in BOOLEAN, OpenSegment(opens) PROVE QuotaInv'
<1>1. CASE place' = "publisher" /\ Discard /\ UNCHANGED <<stamp, disk>>
  <2>1. place \notin Open /\ UNCHANGED <<rows, untold>>
    BY DEF OpenSegment, Open
  <2> QED BY <1>1, <2>1, IdleQuota
<1>2. CASE place' = "inserting"
  <2>1. /\ place \in {"connect", "rotate"} /\ place \notin Open /\ place' \in Open
        /\ seg' = 0 /\ since' = 0 /\ used' = used /\ used < MaxBytes
        /\ UNCHANGED <<rows, untold>>
    BY <1>2 DEF OpenSegment, Open, Room
  <2>2. PICK total \in Nat : total = TotalBytes
    BY TotalIs DEF RecInv
  <2>3. Unsaved = 0 /\ Unsaved' = 0 /\ used \in Nat
    BY <2>1 DEF Unsaved, QuotaInv
  <2>4. untold' = {} => /\ TotalBytes' = TotalBytes /\ TotalBytes < Most
                        /\ \A r \in rows' : r.closed \/ (place' \in Open /\ r.path = CurrentPath' /\ r.bytes = 0)
    BY <2>1, RowsStay
  <2>5. untold' = {} => total + 0 =< used
    BY <2>1, <2>2, <2>3 DEF QuotaInv
  <2>6. untold' = {} => TotalBytes' + Unsaved' <= used' /\ used' < Most /\ used' < MaxBytes + since'
    BY <2>1, <2>2, <2>3, <2>4, <2>5, LimitTypes
  <2>7. used' \in Nat /\ since' \in Nat /\ since' < CheckEvery
    BY <2>1, <2>3, LimitTypes
  <2> QED BY <2>4, <2>6, <2>7 DEF QuotaInv
<1> QED BY <1>1, <1>2 DEF OpenSegment

\* The row of a segment weighs nothing while it is open.
LEMMA InsertRowQuota ==
  ASSUME RecInv, RecInv', QuotaInv, IsFiniteSet(disk'), NEW ok \in BOOLEAN, InsertRow(ok) PROVE QuotaInv'
<1>1. /\ place = "inserting" /\ place' = "writing" /\ place \in Open /\ place' \in Open
      /\ UNCHANGED <<stamp, used, index, since, seg>>
  BY DEF InsertRow, writer, Open
<1>2. CASE untold' # {}
  BY <1>1, <1>2 DEF QuotaInv
<1>3. CASE untold' = {}
  <2> DEFINE new == [session |-> session, path |-> CurrentPath, closed |-> FALSE, bytes |-> 0]
  <2>1. rows' = rows \cup {new} /\ untold = {}
    BY <1>3 DEF InsertRow
  <2>2. new \in Recorded /\ new.path = CurrentPath /\ new.bytes = 0 /\ new \notin rows
    <3>1. CurrentPath \in Path /\ session \in Nat
      BY <1>1 DEF CurrentPath, Path, RecInv, PlaceTypes
    <3>2. \A r \in rows : r.path # CurrentPath
      BY <1>1 DEF RecInv, CurrentHeld
    <3> QED BY <3>1, <3>2 DEF Recorded
  <2> HIDE DEF new
  <2>3. TotalBytes = RowsSum(rows) /\ TotalBytes' = RowsSum(rows') /\ TotalBytes \in Nat
    BY TotalIs, RowSums DEF RecInv, TotalBytes, RowTypes
  <2>4. RowsSum(rows') = RowsSum(rows) + 0
    BY <2>1, <2>2, RowsMore DEF RecInv, RowTypes
  <2>5. TotalBytes' = TotalBytes
    BY <2>3, <2>4
  <2>6. Unsaved' = Unsaved /\ CurrentPath' = CurrentPath
    BY <1>1 DEF Unsaved, CurrentPath
  <2>7. \A r \in rows' : r.closed \/ (place' \in Open /\ r.path = CurrentPath' /\ r.bytes = 0)
    BY <1>1, <2>1, <2>2, <2>6 DEF QuotaInv
  <2> QED BY <1>1, <2>1, <2>5, <2>6, <2>7 DEF QuotaInv
<1> QED BY <1>2, <1>3

\* A unit more of media is counted twice, in the segment and in what is used; at the look
\* that finds no room left the writer ends.
LEMMA WriteMediaQuota ==
  ASSUME RecInv, QuotaInv, IsFiniteSet(disk'), NEW flush \in BOOLEAN, WriteMedia(flush) PROVE QuotaInv'
<1>1. /\ place = "writing" /\ place' \in {"failFlushing", "writing"} /\ place \in Open /\ place' \in Open
      /\ seg' = seg + 1 /\ used' = used + 1 /\ UNCHANGED <<rows, untold, stamp, index>>
  BY DEF WriteMedia, Open
<1>2. PICK u, n, g, total \in Nat : u = used /\ n = since /\ g = seg /\ total = TotalBytes
  BY TotalIs DEF QuotaInv, RecInv, PlaceTypes
<1>3. PICK b, e \in Nat \ {0} : b = MaxBytes /\ e = CheckEvery
  BY LimitTypes
<1>4. /\ since' = IF n + 1 >= e THEN 0 ELSE n + 1
      /\ place' = IF n + 1 >= e /\ u + 1 >= b THEN "failFlushing" ELSE "writing"
  BY <1>2, <1>3 DEF WriteMedia
<1>5. used' \in Nat /\ since' \in Nat /\ since' < CheckEvery
  BY <1>1, <1>2, <1>3, <1>4
<1>6. untold' = {} => /\ TotalBytes' = TotalBytes /\ TotalBytes < Most
                      /\ \A r \in rows' : r.closed \/ (place' \in Open /\ r.path = CurrentPath' /\ r.bytes = 0)
  BY <1>1, RowsStay
<1>7. Unsaved = seg /\ Unsaved' = seg'
  BY <1>1 DEF Unsaved
<1>8. untold' = {} => total + g =< u /\ u < b + n /\ n < e
  BY <1>1, <1>2, <1>3, <1>7 DEF QuotaInv
<1>9. untold' = {} => TotalBytes' + Unsaved' <= used'
  BY <1>1, <1>2, <1>6, <1>7, <1>8
<1>10. untold' = {} => used' < Most
  BY <1>1, <1>2, <1>3, <1>8, LimitTypes
<1>11. untold' = {} /\ place' = "writing" => used' < MaxBytes + since'
  <2>1. CASE n + 1 >= e
    BY <1>1, <1>2, <1>3, <1>4, <2>1
  <2>2. CASE ~(n + 1 >= e)
    BY <1>1, <1>2, <1>3, <1>4, <1>8, <2>2
  <2> QED BY <2>1, <2>2
<1>12. place' # "inserting"
  BY <1>1
<1> QED BY <1>1, <1>5, <1>6, <1>9, <1>10, <1>11, <1>12 DEF QuotaInv

\* Flushing changes no count.
LEMMA FlushQuota ==
  ASSUME RecInv, QuotaInv, IsFiniteSet(disk'), NEW ok \in BOOLEAN, FlushSegment(ok) PROVE QuotaInv'
<1>1. /\ place \in {"flushing", "rotateFlushing", "failFlushing"} /\ place \in Open
      /\ UNCHANGED <<rows, untold, stamp, used, index, since, seg>>
  BY DEF FlushSegment, Open
<1>2. place' \in {"finishing", "rotateFinishing", "failFinishing"}
  <2>1. CASE place = "flushing"
    BY <2>1 DEF FlushSegment
  <2>2. CASE place # "flushing"
    BY <2>2 DEF FlushSegment
  <2> QED BY <2>1, <2>2
<1>3. place' \in Open /\ place' \notin {"inserting", "writing"}
  BY <1>2 DEF Open
<1>4. Unsaved' = Unsaved
  BY <1>1, <1>3 DEF Unsaved
<1>5. untold' = {} => /\ TotalBytes' = TotalBytes
                      /\ \A r \in rows' : r.closed \/ (place' \in Open /\ r.path = CurrentPath' /\ r.bytes = 0)
  BY <1>1, <1>3, RowsStay
<1> QED BY <1>1, <1>3, <1>4, <1>5 DEF QuotaInv

\* Of a set of rows one is rewritten.
LEMMA RowsRewritten ==
  ASSUME NEW S \in SUBSET Recorded, IsFiniteSet(S), NEW a \in S, NEW b \in Recorded, b \notin S \ {a}
  PROVE  RowsSum((S \ {a}) \cup {b}) + a.bytes = RowsSum(S) + b.bytes
<1> DEFINE T == S \ {a}
<1>1. T \in SUBSET Recorded /\ IsFiniteSet(T) /\ a \in Recorded /\ a \notin T /\ b \notin T /\ T \cup {a} = S
  BY FS_Subset
<1> HIDE DEF T
<1>2. RowsSum(T \cup {a}) = RowsSum(T) + a.bytes /\ RowsSum(T \cup {b}) = RowsSum(T) + b.bytes
  BY <1>1, RowsMore
<1>3. RowsSum(T) \in Nat
  BY <1>1, RowSums
<1>4. a.bytes \in Nat /\ b.bytes \in Nat
  BY <1>1 DEF Recorded
<1>5. PICK x, y, z \in Nat : x = RowsSum(T) /\ y = a.bytes /\ z = b.bytes
  BY <1>3, <1>4
<1>6. RowsSum(S) = x + y /\ RowsSum(T \cup {b}) = x + z
  BY <1>1, <1>2, <1>5
<1>7. RowsSum(T \cup {b}) + a.bytes = RowsSum(S) + b.bytes
  BY <1>5, <1>6
<1> QED BY <1>7 DEF T

\* The row of the segment takes over what the writer has counted in it.
LEMMA FinishQuota ==
  ASSUME RecInv, RecInv', QuotaInv, IsFiniteSet(disk'), NEW ok \in BOOLEAN, FinishSegment(ok) PROVE QuotaInv'
<1>1. /\ place \in {"finishing", "rotateFinishing", "failFinishing"} /\ place \in Open /\ place # "inserting"
      /\ place' \in {"off", "rotate", "publisher"}
      /\ place' = "rotate" => UNCHANGED <<used, since>>
      /\ place' # "rotate" => used' = 0 /\ since' = 0
  <2>1. CASE place = "finishing"
    BY <2>1 DEF FinishSegment, Open, Discard
  <2>2. CASE place = "rotateFinishing"
    BY <2>2 DEF FinishSegment, Open, Keep
  <2>3. CASE place = "failFinishing"
    BY <2>3 DEF FinishSegment, Open, Discard
  <2> QED BY <2>1, <2>2, <2>3 DEF FinishSegment
<1>2. place' \notin Open \cup {"connect", "inserting", "writing"} /\ Unsaved = seg /\ Unsaved' = 0
  BY <1>1 DEF Open, Unsaved
<1>3. used' \in Nat /\ since' \in Nat /\ since' < CheckEvery
  BY <1>1, LimitTypes DEF QuotaInv
<1>4. CASE untold' # {}
  BY <1>3, <1>4 DEF QuotaInv
<1>5. CASE untold' = {}
  <2>1. ok /\ untold = {}
    BY <1>5 DEF FinishSegment
  <2>2. PICK a \in rows : a.path = CurrentPath
    BY <1>1, <2>1 DEF RecInv, CurrentHeld
  <2>3. a \in Recorded /\ seg \in Nat /\ ~a.closed /\ a.bytes = 0
    BY <1>1, <2>1, <2>2 DEF RecInv, RowTypes, PlaceTypes, CurrentHeld, QuotaInv
  <2>4. PICK b : b = [a EXCEPT !.closed = TRUE, !.bytes = seg]
    OBVIOUS
  <2>5. b \in Recorded /\ b.path = CurrentPath /\ b.closed = TRUE /\ b.bytes = seg
    BY <2>2, <2>3, <2>4 DEF Recorded
  <2>6. \A r \in rows : r.path = CurrentPath => r = a
    BY <2>2 DEF RecInv, OnePath
  <2>7. rows' = (rows \ {a}) \cup {b}
    <3> DEFINE new(r) == IF r.path = CurrentPath THEN [r EXCEPT !.closed = TRUE, !.bytes = seg] ELSE r
    <3>1. rows' = {new(r) : r \in rows}
      BY <2>1 DEF FinishSegment
    <3>2. new(a) = b /\ \A r \in rows \ {a} : new(r) = r
      BY <2>2, <2>4, <2>6
    <3> HIDE DEF new
    <3> QED BY <3>1, <3>2
  <2>8. b \notin rows \ {a}
    BY <2>5, <2>6
  <2>9. /\ TotalBytes = RowsSum(rows) /\ TotalBytes' = RowsSum(rows') /\ TotalBytes \in Nat /\ TotalBytes' \in Nat
        /\ rows \in SUBSET Recorded /\ IsFiniteSet(rows)
    BY TotalIs, RowSums DEF RecInv, TotalBytes, RowTypes
  <2>10. RowsSum(rows') + a.bytes = RowsSum(rows) + b.bytes
    BY <2>5, <2>7, <2>8, <2>9, RowsRewritten
  <2>11. PICK x, y, g \in Nat : x = TotalBytes /\ y = TotalBytes' /\ g = seg
    BY <2>3, <2>9
  <2>12. y = x + g
    BY <2>3, <2>5, <2>9, <2>10, <2>11
  <2>13. x + g =< used /\ used < Most
    BY <1>1, <1>2, <2>1, <2>11 DEF QuotaInv
  <2>14. used \in Nat
    BY DEF QuotaInv
  <2>15. TotalBytes' < Most
    BY <2>11, <2>12, <2>13, <2>14, LimitTypes
  <2>16. place' = "rotate" => TotalBytes' + Unsaved' <= used' /\ used' < Most
    BY <1>1, <1>2, <2>11, <2>12, <2>13, <2>14
  <2>17. \A r \in rows' : r.closed
    BY <2>1, <2>5, <2>6, <2>7 DEF QuotaInv
  <2> QED BY <1>1, <1>2, <1>3, <2>15, <2>16, <2>17 DEF QuotaInv
<1> QED BY <1>4, <1>5

\* The table without some rows weighs no more, and the writer keeps its own.
LEMMA RowsGo ==
  ASSUME RecInv, RecInv', QuotaInv, IsFiniteSet(disk'), rows' \subseteq rows,
         UNCHANGED <<untold, place, writer>>
  PROVE  QuotaInv'
<1>1. TotalBytes' =< TotalBytes /\ TotalBytes \in Nat /\ TotalBytes' \in Nat
  <2>1. /\ TotalBytes = RowsSum(rows) /\ rows \in SUBSET Recorded /\ IsFiniteSet(rows)
        /\ TotalBytes' = RowsSum(rows') /\ rows' \in SUBSET rows
    BY TotalIs, RowSums DEF RecInv, TotalBytes, RowTypes
  <2> QED BY <2>1, RowsLess
<1>2. UNCHANGED <<stamp, used, index, since, seg>> /\ Unsaved' = Unsaved /\ CurrentPath' = CurrentPath
  BY DEF writer, Unsaved, CurrentPath
<1>3. \A r \in rows' : untold = {} => r.closed \/ (place' \in Open /\ r.path = CurrentPath' /\ r.bytes = 0)
  BY <1>2 DEF QuotaInv
<1>4. used \in Nat /\ Unsaved \in Nat
  BY DEF QuotaInv, Unsaved, RecInv, PlaceTypes
<1>5. PICK x, y, g, u \in Nat : x = TotalBytes /\ y = TotalBytes' /\ g = Unsaved /\ u = used
  BY <1>1, <1>4
<1>6. untold' = {} => TotalBytes' < Most
  BY <1>1, <1>5, LimitTypes DEF QuotaInv
<1>7. untold' = {} /\ place' \in Open \cup {"connect", "rotate"} => TotalBytes' + Unsaved' <= used' /\ used' < Most
  <2>1. untold' = {} /\ place' \in Open \cup {"connect", "rotate"} => x + g =< u /\ u < Most
    <3>1. untold' = {} /\ place' \in Open \cup {"connect", "rotate"} => TotalBytes + Unsaved =< used /\ used < Most
      BY DEF QuotaInv
    <3> QED BY <1>5, <3>1
  <2>2. y =< x /\ Unsaved' = g /\ used' = u
    BY <1>1, <1>2, <1>5
  <2>3. x + g =< u => y + g =< u
    <3>1. y =< x /\ x \in Nat /\ y \in Nat /\ g \in Nat /\ u \in Nat
      BY <1>5, <2>2
    <3> HIDE <1>5
    <3> QED BY <3>1
  <2> QED BY <1>5, <2>1, <2>2, <2>3
<1> QED BY <1>2, <1>3, <1>6, <1>7 DEF QuotaInv

\* A start adds to the table at most what the writer had counted in its segment.
LEMMA RestartQuota == ASSUME RecInv, RecInv', QuotaInv, IsFiniteSet(disk'), Restart PROVE QuotaInv'
<1>1. /\ place' = "off" /\ used' = 0 /\ since' = 0 /\ disk' = disk
      /\ place' \notin Open \cup {"connect", "rotate", "inserting", "writing"}
  BY DEF Restart, Discard, Open
<1>2. used' \in Nat /\ since' \in Nat /\ since' < CheckEvery
  BY <1>1, LimitTypes
<1>3. CASE untold' # {}
  BY <1>1, <1>2, <1>3 DEF QuotaInv
<1>4. CASE untold' = {}
  <2>1. PICK done \in Oldest(Dangling) :
          /\ rows' = (rows \ done) \cup {Reconciled(r) : r \in {d \in done : HasFile(d)}}
          /\ untold' = untold \cup {r.path : r \in Dangling \ done}
                              \cup (IF place = "inserting" THEN {CurrentPath} ELSE {})
    BY DEF Restart
  <2>2. untold = {} /\ done = Dangling
    BY <1>4, <2>1 DEF Oldest
  <2>3. /\ TotalBytes = RowsSum(rows) /\ rows \in SUBSET Recorded /\ IsFiniteSet(rows)
        /\ TotalBytes' = RowsSum(rows') /\ TotalBytes \in Nat /\ TotalBytes < Most /\ TotalBytes' \in Nat
    BY <2>2, TotalIs, RowSums DEF RecInv, TotalBytes, RowTypes, QuotaInv
  <2>4. CASE Dangling = {}
    <3>1. rows' = rows
      BY <2>1, <2>2, <2>4
    <3>2. TotalBytes' = TotalBytes /\ \A r \in rows' : r.closed
      BY <2>3, <2>4, <3>1 DEF Dangling
    <3> QED BY <1>1, <1>2, <2>3, <3>2 DEF QuotaInv
  <2>5. CASE Dangling # {}
    <3>1. PICK a \in Dangling : TRUE
      BY <2>5
    <3>2. \A r \in Dangling : r.path = CurrentPath /\ r.bytes = 0 /\ place \in Open /\ r \in rows /\ ~r.closed
      BY <2>2 DEF Dangling, QuotaInv
    <3>3. Dangling = {a}
      BY <3>1, <3>2 DEF RecInv, OnePath
    <3>4. PICK f \in disk : f.path = CurrentPath /\ f.bytes =< seg
      BY <3>1, <3>2 DEF RecInv, CurrentHeld
    <3>5. HasFile(a) /\ (CHOOSE g \in disk : g.path = a.path) = f
      BY <3>1, <3>2, <3>4 DEF HasFile, RecInv, OnePath
    <3>6. PICK b : b = Reconciled(a)
      OBVIOUS
    <3>7. a \in Recorded /\ f \in File
      BY <2>3, <3>1, <3>2 DEF RecInv, DiskTypes
    <3>8. b \in Recorded /\ b.path = CurrentPath /\ b.closed = TRUE /\ b.bytes = f.bytes
      <4>1. b = [a EXCEPT !.closed = TRUE, !.bytes = f.bytes]
        BY <3>5, <3>6 DEF Reconciled
      <4>2. f.bytes \in Nat
        BY <3>7 DEF File
      <4> QED BY <3>1, <3>2, <3>7, <4>1, <4>2 DEF Recorded
    <3>9. rows' = (rows \ {a}) \cup {b}
      BY <2>1, <2>2, <3>3, <3>5, <3>6
    <3>10. b \notin rows \ {a}
      BY <3>1, <3>2, <3>8 DEF RecInv, OnePath
    <3>11. RowsSum(rows') + a.bytes = RowsSum(rows) + b.bytes
      BY <2>3, <3>1, <3>2, <3>8, <3>9, <3>10, RowsRewritten
    <3>12. f.bytes \in Nat /\ seg \in Nat /\ used \in Nat
      BY <3>7 DEF File, RecInv, PlaceTypes, QuotaInv
    <3>13. PICK x, y, g, h, u \in Nat : x = TotalBytes /\ y = TotalBytes' /\ g = seg /\ h = f.bytes /\ u = used
      BY <2>3, <3>12
    <3>14. y = x + h
      BY <2>3, <3>1, <3>2, <3>8, <3>11, <3>13
    <3>15. x + g =< u /\ u < Most /\ h =< g
      BY <2>2, <3>1, <3>2, <3>4, <3>13 DEF QuotaInv, Unsaved
    <3>16. TotalBytes' < Most
      BY <3>13, <3>14, <3>15, LimitTypes
    <3>17. \A r \in rows' : r.closed
      <4>1. \A r \in rows \ {a} : r.closed
        BY <3>3 DEF Dangling
      <4> QED BY <3>8, <3>9, <4>1
    <3> QED BY <1>1, <1>2, <3>16, <3>17 DEF QuotaInv
  <2> QED BY <2>4, <2>5
<1> QED BY <1>3, <1>4

\* Nothing has been recorded.
LEMMA QuotaInitInv == RecInit => QuotaInv
<1> SUFFICES ASSUME RecInit PROVE QuotaInv
  OBVIOUS
<1>1. IsFiniteSet(disk) /\ rows = {}
  BY FS_EmptySet DEF RecInit
<1>2. used = 0 /\ since = 0 /\ place = "off"
  BY DEF RecInit
<1>3. TotalBytes = 0
  <2> DEFINE f == [r \in {} |-> r.bytes]
  <2>1. SumFunctionOnSet(f, {}) = 0
    BY FS_EmptySet, Sums
  <2> QED BY <1>1, <2>1 DEF TotalBytes, SumFunction
<1>4. place \notin Open \cup {"connect", "rotate", "inserting", "writing"}
  BY <1>2 DEF Open
<1> QED BY <1>1, <1>2, <1>3, <1>4, LimitTypes DEF QuotaInv

\* Each step keeps the invariant of the quota.
LEMMA QuotaStepKeeps == ASSUME RecInv, QuotaInv, [RecNext]_recVars PROVE QuotaInv'
<1>1. RecInv'
  BY RecStepKeeps
<1>2. CASE UNCHANGED recVars
  BY <1>2 DEF recVars, writer, QuotaInv, TotalBytes, Unsaved, CurrentPath
<1>3. CASE RecNext
  <2>1. IsFiniteSet(disk')
    BY <1>3, FilesFinite DEF QuotaInv
  <2>2. ASSUME NEW on \in BOOLEAN, StartSession(on) PROVE QuotaInv'
    BY <2>1, <2>2, IdleQuota DEF StartSession, Open, writer
  <2>3. CASE EndSession \/ SwitchOn
    BY <2>1, <2>3, IdleQuota DEF EndSession, SwitchOn, Open, writer
  <2>4. CASE Stop
    BY <2>1, <2>4, IdleQuota DEF Stop, Open, Keep, writer
  <2>5. CASE Record
    <3>1. CASE NewPub
      BY <2>1, <3>1, NewPubQuota
    <3>2. CASE Rotate \/ WriteFails
      BY <2>1, <3>2, IdleQuota DEF Rotate, WriteFails, writer
    <3>3. ASSUME NEW b \in BOOLEAN, Build(b) \/ Pruned(b) PROVE QuotaInv'
      <4>1. place \notin Open /\ place' \in {"off", "build", "pruning", "publisher"}
        BY <3>3 DEF Build, Pruned, Open
      <4> QED BY <2>1, <3>3, <4>1, IdleQuota DEF Build, Pruned, writer
    <3>4. ASSUME NEW b \in BOOLEAN, OpenSegment(b) \/ WriteMedia(b) \/ FlushSegment(b) PROVE QuotaInv'
      BY <2>1, <3>4, OpenSegmentQuota, WriteMediaQuota, FlushQuota
    <3>5. ASSUME NEW b \in BOOLEAN, InsertRow(b) \/ FinishSegment(b) PROVE QuotaInv'
      BY <1>1, <2>1, <3>5, InsertRowQuota, FinishQuota
    <3> QED BY <2>5, <3>1, <3>2, <3>3, <3>4, <3>5 DEF Record
  <2>6. CASE Removal
    <3>1. CASE RequestDelete \/ DailyPrune
      <4>1. rows' = rows /\ UNCHANGED <<untold, place, writer>>
        BY <3>1 DEF RequestDelete, DailyPrune
      <4> QED BY <1>1, <2>1, <4>1, RowsGo
    <3>2. ASSUME NEW k \in Removers,
                 RemoveFile(k) \/ RemoveFails(k) \/ RemoveRow(k) \/ NextPhase(k) \/ ListBySize(k)
          PROVE  QuotaInv'
      <4>1. rows' \subseteq rows /\ UNCHANGED <<untold, place, writer>>
        BY <3>2 DEF RemoveFile, RemoveFails, RemoveRow, NextPhase, ListBySize
      <4> QED BY <1>1, <2>1, <4>1, RowsGo
    <3> QED BY <2>6, <3>1, <3>2 DEF Removal
  <2>7. CASE Restart
    BY <1>1, <2>1, <2>7, RestartQuota
  <2> QED BY <1>3, <2>2, <2>3, <2>4, <2>5, <2>6, <2>7 DEF RecNext
<1> QED BY <1>2, <1>3

\* Files whose rows weigh at least as much weigh together no more than the rows.
LEMMA FilesCovered ==
  ASSUME NEW D \in SUBSET File, IsFiniteSet(D), \A f, g \in D : f.path = g.path => f = g,
         NEW R \in SUBSET Recorded, IsFiniteSet(R),
         \A f \in D : \E r \in R : r.path = f.path /\ r.bytes >= f.bytes
  PROVE  FilesSum(D) =< RowsSum(R)
<1> DEFINE weight == [f \in File |-> f.bytes]
           weighed == [r \in Recorded |-> r.bytes]
           row == [f \in D |-> CHOOSE r \in R : r.path = f.path /\ r.bytes >= f.bytes]
           T == {row[f] : f \in D}
           g == [f \in D |-> weighed[row[f]]]
<1>1. \A f \in D : row[f] \in R /\ row[f].path = f.path /\ row[f].bytes >= f.bytes
  OBVIOUS
<1>2. \A f \in D : weight[f] = f.bytes /\ f.bytes \in Nat
  BY DEF File
<1>3. \A r \in R : weighed[r] = r.bytes /\ r.bytes \in Nat
  BY DEF Recorded
<1>4. T \in SUBSET R /\ row \in [D -> T] /\ \A f \in D : g[f] = weighed[row[f]]
  BY <1>1
<1>5. row \in Bijection(D, T)
  <2>1. \A e, f \in D : row[e] = row[f] => e = f
    BY <1>1
  <2> HIDE DEF row
  <2>2. \A r \in T : \E f \in D : row[f] = r
    OBVIOUS
  <2> QED BY <1>4, <2>1, <2>2 DEF Bijection, Injection, Surjection, IsInjective
<1> HIDE DEF weight, weighed, row, T, g
<1>6. SumFunctionOnSet(g, D) = SumFunctionOnSet(weighed, T)
  <2>1. \A r \in T : weighed[r] \in Int
    BY <1>3, <1>4
  <2> QED BY <1>4, <1>5, <2>1, SumRenamed
<1>7. SumFunctionOnSet(weight, D) =< SumFunctionOnSet(g, D)
  <2>1. \A f \in D : weight[f] \in Nat /\ g[f] \in Nat /\ weight[f] =< g[f]
    BY <1>1, <1>2, <1>3, <1>4
  <2> QED BY <2>1, SumAtMost
<1>8. SumFunctionOnSet(weighed, T) =< SumFunctionOnSet(weighed, R)
  BY <1>3, <1>4, SumGrows
<1>9. FilesSum(D) = SumFunctionOnSet(weight, D) /\ \A U : RowsSum(U) = SumFunctionOnSet(weighed, U)
  BY DEF FilesSum, RowsSum, weight, weighed
<1>10. FilesSum(D) \in Nat /\ RowsSum(T) \in Nat /\ RowsSum(R) \in Nat
  BY <1>4, FileSums, RowsLess
<1> QED BY <1>6, <1>7, <1>8, <1>9, <1>10

\* The invariants of the recordings and of the quota bound what is on disk.
LEMMA BoundFollows == RecInv /\ QuotaInv => QuotaBound
<1> SUFFICES ASSUME RecInv, QuotaInv, untold = {} PROVE OnDisk < MaxBytes + CheckEvery
  BY DEF QuotaBound
<1>1. /\ disk \in SUBSET File /\ IsFiniteSet(disk) /\ rows \in SUBSET Recorded /\ IsFiniteSet(rows)
      /\ \A f, g \in disk : f.path = g.path => f = g
  BY DEF RecInv, QuotaInv, DiskTypes, RowTypes, OnePath
<1>2. /\ OnDisk = FilesSum(disk) /\ FilesSum(disk) \in Nat
      /\ TotalBytes = RowsSum(rows) /\ TotalBytes \in Nat /\ TotalBytes < Most
  BY <1>1, FileSums, TotalIs DEF OnDisk, RecInv, QuotaInv
<1>3. \A f \in disk : \/ place \in Open /\ f.path = CurrentPath
                      \/ \E r \in rows : r.path = f.path /\ r.bytes >= f.bytes
  BY DEF RecInv, Accounted, Closed
<1>4. CASE place \notin Open
  <2>1. FilesSum(disk) =< RowsSum(rows)
    BY <1>1, <1>3, <1>4, FilesCovered
  <2> QED BY <1>2, <2>1, LimitTypes
<1>5. CASE place \in Open
  <2>1. PICK c \in disk : c.path = CurrentPath /\ c.bytes =< seg
    BY <1>5 DEF RecInv, CurrentHeld
  <2> DEFINE D == disk \ {c}
             weight == [f \in File |-> f.bytes]
  <2>2. D \in SUBSET File /\ IsFiniteSet(D)
    BY <1>1, FS_Subset
  <2>3. \A f \in D : \E r \in rows : r.path = f.path /\ r.bytes >= f.bytes
    BY <1>1, <1>3, <2>1
  <2>4. \A f, g \in D : f.path = g.path => f = g
    BY <1>1
  <2>5. weight[c] = c.bytes /\ \A f \in disk : weight[f] \in Int
    BY <1>1, <2>1 DEF File
  <2>6. \A U : FilesSum(U) = SumFunctionOnSet(weight, U)
    BY DEF FilesSum
  <2> HIDE DEF weight
  <2>7. FilesSum(disk) = c.bytes + FilesSum(D)
    <3>1. SumFunctionOnSet(weight, disk) = weight[c] + SumFunctionOnSet(weight, D)
      BY <1>1, <2>1, <2>5, SumRemove
    <3> QED BY <2>5, <2>6, <3>1
  <2> HIDE DEF D
  <2>8. FilesSum(D) =< RowsSum(rows) /\ FilesSum(D) \in Nat
    BY <1>1, <2>2, <2>3, <2>4, FilesCovered, FileSums
  <2>9. TotalBytes + seg =< used /\ used < Most /\ seg \in Nat /\ used \in Nat /\ c.bytes \in Nat
    BY <1>1, <1>5, <2>1 DEF QuotaInv, Unsaved, RecInv, PlaceTypes, File
  <2>10. PICK b, s, t, u, e \in Nat : b = c.bytes /\ s = seg /\ t = TotalBytes /\ u = used /\ e = FilesSum(D)
    BY <1>2, <2>8, <2>9
  <2>11. b =< s /\ t + s =< u /\ u < Most /\ e =< t
    BY <1>2, <2>1, <2>8, <2>9, <2>10
  <2>12. b + e < Most
    BY <2>11, LimitTypes
  <2> QED BY <1>2, <2>7, <2>10, <2>12, LimitTypes
<1> QED BY <1>4, <1>5

\* The recordings keep both their inductive invariants.
THEOREM QuotaHolds == RecSpec => []QuotaInv
<1>1. RecInv /\ QuotaInv /\ [RecNext]_recVars => QuotaInv'
  BY QuotaStepKeeps
<1> QED BY RecordingsHold, QuotaInitInv, <1>1, PTL DEF RecSpec

\* For any quota, any step between two looks at it, and any number of sessions,
\* connections, rotations, prunings and restarts, the files together stay within the quota
\* but for what is written between two looks, unless the database refused a row
\* (record/writer.go Write and rotate, sinks/factory.go BuildRecorder, ReconcileRecordings).
THEOREM QuotaNeverPassed == RecSpec => []QuotaBound
BY RecordingsHold, QuotaHolds, BoundFollows, PTL

-----------------------------------------------------------------------------
\* Where Start is tells where the goroutine is.
Launched ==
  /\ pc # "none" => started /\ starter = "returned"
  /\ starter = "flagged" => started
  /\ started => starter \in {"flagged", "returned"}

\* A caller in Stop has closed quit; one that has returned left nothing to dial.
Stopped ==
  \A s \in Stoppers :
    /\ stopper[s] # "new" => quit
    /\ stopper[s] = "returned" => pc \in {"none", "top", "done"}

\* The two failure counters and the wait they lead to.
Counted ==
  /\ pc \notin {"suspended", "done"} => /\ flaps < SuspendFlaps
                                        /\ attempts <= (SuspendAttempts - 1) + flaps
  /\ wait <= attempts /\ wait <= BackoffCap

\* A connection exists only while the goroutine dials or transmits.
NoLeakedConnection == connected <=> pc \in {"dial", "live"}

SinkInv == TypeOK /\ Launched /\ Stopped /\ NoLeakedConnection /\ Counted

USE DEF goroutine, callers, history

-----------------------------------------------------------------------------
\* The thresholds are numbers, and not too small to fail once.
LEMMA Limits == /\ SuspendAttempts \in Nat /\ SuspendFlaps \in Nat /\ BackoffCap \in Nat
                /\ SuspendAttempts > 1 /\ SuspendFlaps > 0
  BY SinkLimits

\* The types: split from the rest because every step but AfterFailure is immediate.
LEMMA InitTypes == Init => TypeOK
<1> SUFFICES ASSUME Init PROVE TypeOK
  OBVIOUS
<1>1. /\ attempts \in Nat /\ flaps \in Nat /\ wait \in Nat
      /\ {tried, silentRun, shortRun} \subseteq Nat
  BY DEF Init
<1> QED BY <1>1 DEF Init, TypeOK, Places, States

\* No step changes the types.
LEMMA StepTypes == TypeOK /\ [Next]_vars => TypeOK'
<1> SUFFICES ASSUME TypeOK, [Next]_vars PROVE TypeOK'
  OBVIOUS
<1> USE DEF TypeOK, Places, States
<1>1. CASE StartCheck \/ StartFlag \/ StartGo \/ CancelContext
  BY <1>1 DEF StartCheck, StartFlag, StartGo, CancelContext
<1>2. ASSUME NEW s \in Stoppers, SignalStop(s) \/ StopReturns(s) PROVE TypeOK'
  <2>1. stopper' \in [Stoppers -> {"new", "signalled", "returned"}]
    BY <1>2 DEF SignalStop, StopReturns
  <2>2. quit' \in BOOLEAN
    BY <1>2 DEF SignalStop, StopReturns
  <2>3. UNCHANGED <<goroutine, history, starter, started, cancelled>>
    BY <1>2 DEF SignalStop, StopReturns
  <2> QED BY <2>1, <2>2, <2>3
<1>3. CASE TopStops \/ SessionStops \/ WaitStops
  BY <1>3 DEF TopStops, SessionStops, WaitStops, Finish
<1>4. CASE TopDials
  <2>1. tried + 1 \in Nat
    OBVIOUS
  <2> QED BY <1>4, <2>1 DEF TopDials
<1>5. CASE DialFails \/ DialSucceeds \/ Transmit \/ SessionFails \/ BackoffEnds
  BY <1>5 DEF DialFails, DialSucceeds, Transmit, SessionFails, BackoffEnds
<1>6. CASE AfterFailure
  <2>1. attempts' \in Nat /\ flaps' \in Nat /\ wait' \in Nat
    BY <1>6, Limits DEF AfterFailure, WaitAfter
  <2>2. {tried', silentRun', shortRun'} \subseteq Nat
    BY <1>6 DEF AfterFailure
  <2>3. pc' \in Places /\ state' \in States
    BY <1>6 DEF AfterFailure
  <2> QED BY <1>6, <2>1, <2>2, <2>3 DEF AfterFailure
<1>7. CASE UNCHANGED vars
  BY <1>7 DEF vars
<1> HIDE DEF TypeOK
<1> QED BY <1>1, <1>2, <1>3, <1>4, <1>5, <1>6, <1>7 DEF Next, Run

-----------------------------------------------------------------------------
\* The callers: what Start, Stop and the goroutine know of each other.
LEMMA StepCallers ==
  TypeOK /\ Launched /\ Stopped /\ [Next]_vars => Launched' /\ Stopped'
<1> SUFFICES ASSUME TypeOK, Launched, Stopped, [Next]_vars
             PROVE  Launched' /\ Stopped'
  OBVIOUS
<1>t. stopper \in [Stoppers -> {"new", "signalled", "returned"}]
  BY DEF TypeOK
<1> USE <1>t DEF Launched, Stopped
<1>1. CASE StartCheck \/ StartFlag \/ StartGo \/ CancelContext
  BY <1>1 DEF StartCheck, StartFlag, StartGo, CancelContext
<1>2. ASSUME NEW s \in Stoppers, SignalStop(s) PROVE Launched' /\ Stopped'
  BY <1>2 DEF SignalStop
<1>3. ASSUME NEW s \in Stoppers, StopReturns(s) PROVE Launched' /\ Stopped'
  BY <1>3 DEF StopReturns
<1>4. CASE Run
  BY <1>4 DEF Run, TopStops, TopDials, DialFails, DialSucceeds, Transmit, SessionStops,
              SessionFails, AfterFailure, BackoffEnds, WaitStops, Finish, Stopping
<1>5. CASE UNCHANGED vars
  BY <1>5 DEF vars
<1> QED BY <1>1, <1>2, <1>3, <1>4, <1>5 DEF Next

\* What the goroutine owns: its connection.
LEMMA StepConnected ==
  Launched /\ NoLeakedConnection /\ [Next]_vars => NoLeakedConnection'
  BY DEF Launched, NoLeakedConnection, Next, vars, StartCheck, StartFlag,
         StartGo, SignalStop, StopReturns, CancelContext, Run, TopStops, TopDials,
         DialFails, DialSucceeds, Transmit, SessionStops, SessionFails, AfterFailure,
         BackoffEnds, WaitStops, Finish

\* The counters only move in AfterFailure, which gives up before they pass.
LEMMA StepCounted == TypeOK /\ Launched /\ Counted /\ [Next]_vars => Counted'
<1> SUFFICES ASSUME TypeOK, Launched, Counted, [Next]_vars PROVE Counted'
  OBVIOUS
<1>t. attempts \in Nat /\ flaps \in Nat /\ wait \in Nat
  BY DEF TypeOK
<1> USE <1>t, Limits DEF Counted
<1>1. CASE StartCheck \/ StartFlag \/ StartGo \/ CancelContext
  BY <1>1 DEF StartCheck, StartFlag, StartGo, CancelContext, Launched
<1>2. ASSUME NEW s \in Stoppers, SignalStop(s) \/ StopReturns(s) PROVE Counted'
  BY <1>2 DEF SignalStop, StopReturns
<1>3. CASE TopStops \/ SessionStops \/ WaitStops
  BY <1>3 DEF TopStops, SessionStops, WaitStops, Finish
<1>4. CASE TopDials \/ DialFails \/ DialSucceeds \/ Transmit \/ SessionFails \/ BackoffEnds
  BY <1>4 DEF TopDials, DialFails, DialSucceeds, Transmit, SessionFails, BackoffEnds
<1>5. CASE AfterFailure
  <2>1. CASE pc = "healthy"
    BY <1>5, <2>1 DEF AfterFailure, GivesUp, WaitAfter
  <2>2. CASE pc = "short"
    BY <1>5, <2>2 DEF AfterFailure, GivesUp, WaitAfter
  <2>3. CASE pc = "silent"
    BY <1>5, <2>3 DEF AfterFailure, GivesUp, WaitAfter
  <2> QED BY <1>5, <2>1, <2>2, <2>3 DEF AfterFailure
<1>6. CASE UNCHANGED vars
  BY <1>6 DEF vars
<1> QED BY <1>1, <1>2, <1>3, <1>4, <1>5, <1>6 DEF Next, Run

\* The goroutine of a sink and its callers (relay/sink.go) keep their inductive
\* invariant.
THEOREM SinkInvariant == Spec => []SinkInv
<1>1. Init => SinkInv
  <2> SUFFICES ASSUME Init PROVE SinkInv
    OBVIOUS
  <2>1. Counted
    BY Limits DEF Init, Counted
  <2>2. Launched /\ Stopped /\ NoLeakedConnection
    BY DEF Init, Launched, Stopped, NoLeakedConnection
  <2> QED BY <2>1, <2>2, InitTypes DEF SinkInv
<1>2. SinkInv /\ [Next]_vars => SinkInv'
  BY StepTypes, StepCallers, StepConnected, StepCounted DEF SinkInv
<1> QED BY <1>1, <1>2, PTL DEF Spec

-----------------------------------------------------------------------------
\* After any Stop has returned the destination is never touched again.
THEOREM StopHolds == Spec => []StopIsFinal
<1>1. SinkInv => StopIsFinal
  BY DEF SinkInv, Stopped, NoLeakedConnection, StopIsFinal
<1> QED BY <1>1, SinkInvariant, PTL

\* Both thresholds together bound the dials of a failing destination.
THEOREM RetriesHold == Spec => []RetriesBounded
<1>1. SinkInv => RetriesBounded
  BY Limits DEF SinkInv, TypeOK, Counted, RetriesBounded
<1> QED BY <1>1, SinkInvariant, PTL

\* The wait between two dials only shrinks after a healthy session.
THEOREM WaitsGrow == Spec => BackoffMonotone
<1>1. SinkInv /\ [Next]_vars => [wait' < wait => pc = "healthy"]_vars
  <2> SUFFICES ASSUME SinkInv, Next PROVE wait' < wait => pc = "healthy"
    BY DEF vars
  <2>t. attempts \in Nat /\ wait \in Nat /\ wait <= attempts /\ wait <= BackoffCap
    BY DEF SinkInv, TypeOK, Counted
  <2>1. CASE AfterFailure
    BY <2>1, <2>t, Limits DEF AfterFailure, WaitAfter
  <2>2. CASE wait' = wait
    BY <2>2, <2>t
  <2>3. AfterFailure \/ wait' = wait
    BY DEF Next, StartCheck, StartFlag, StartGo, SignalStop, StopReturns, CancelContext,
           Run, TopStops, TopDials, DialFails, DialSucceeds, Transmit, SessionStops,
           SessionFails, BackoffEnds, WaitStops, Finish
  <2> QED BY <2>1, <2>2, <2>3
<1> QED BY <1>1, SinkInvariant, PTL DEF Spec, BackoffMonotone
=============================================================================
