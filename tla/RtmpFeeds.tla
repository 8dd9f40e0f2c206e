----------------------------- MODULE RtmpFeeds -----------------------------
(***************************************************************************)
(* The connections one destination may see: those of the sink that feeds   *)
(* it, of the sink that replaces that one or that of the session before,   *)
(* and of a probe the panel asks for.  Each is a Publisher                 *)
(* (rtmpio/publisher.go), used by one goroutine; it dials in another,      *)
(* which it may give up waiting for, and publishes with the destination's  *)
(* key.  A platform that is fed twice with one key cuts one of the two.    *)
(* What the publisher writes is left out: SinkDelivery has it.             *)
(***************************************************************************)
EXTENDS Integers, FiniteSets, FiniteSetsExt

CONSTANTS Pubs,     \* publishers that may have something left at the same time, numbered
          FeedSinks \* the sinks of the destination, one after another

Nobody == "nobody"
Probe  == "probe"

ASSUME FeedConstants == /\ IsFiniteSet(Pubs) /\ Pubs \subseteq Nat
                        /\ IsFiniteSet(FeedSinks) /\ {Nobody, Probe} \cap FeedSinks = {}

VARIABLES publ,   \* the publishers
          sink,   \* how each sink stands with the hub
          probe   \* a request to test the destination is being served
feedVars == <<publ, sink, probe>>

Unused == [user |-> Nobody, at |-> "unused", dial |-> "none", wire |-> "none", slot |-> FALSE]

FeedTypeOK ==
  /\ publ \in [Pubs -> [user : FeedSinks \cup {Probe, Nobody},
                        at   : {"unused", "dialing", "handshake", "publish", "live", "failed", "closed"},
                        dial : {"none", "running", "open", "failed"},  \* the goroutine that dials
                        wire : {"none", "open", "cut", "closed"},      \* the socket
                        slot : BOOLEAN]]                               \* the platform is fed by it
  /\ sink \in [FeedSinks -> {"new", "running", "replaced", "stopping"}]
  /\ probe \in BOOLEAN

FeedInit == /\ publ = [p \in Pubs |-> Unused]
            /\ sink = [s \in FeedSinks |-> "new"]
            /\ probe = FALSE

At(p, place)   == publ[p].at = place
UserOf(p)      == publ[p].user
Feeds(p)       == publ[p].slot /\ publ[p].wire = "open"
Using(u)       == {p \in Pubs : UserOf(p) = u /\ publ[p].at \notin {"unused", "closed"}}
FreePubs       == {p \in Pubs : At(p, "unused")}
WireShut(w)    == IF w \in {"open", "cut"} THEN "closed" ELSE w
NothingLeft(r) == r.at = "closed" /\ r.dial = "none" /\ r.wire \notin {"open", "cut"}
Becomes(p, r)  == publ' = [publ EXCEPT ![p] = IF NothingLeft(r) THEN Unused ELSE r]

-----------------------------------------------------------------------------
\* The hub: AddSink starts a sink before it stops the one it replaces; the session
\* ends with every sink told to stop, and the next may begin before they have.
AddSink(s) ==
  /\ sink[s] = "new" /\ \A o \in FeedSinks : sink[o] # "replaced"
  /\ sink' = [o \in FeedSinks |-> IF o = s THEN "running"
                                  ELSE IF sink[o] = "running" THEN "replaced" ELSE sink[o]]
  /\ UNCHANGED <<publ, probe>>

StopsReplaced(s) ==
  /\ sink[s] = "replaced" /\ sink' = [sink EXCEPT ![s] = "stopping"]
  /\ UNCHANGED <<publ, probe>>

HubCloses ==
  /\ \E s \in FeedSinks : sink[s] = "running"
  /\ \A s \in FeedSinks : sink[s] # "replaced"
  /\ sink' = [s \in FeedSinks |-> IF sink[s] = "running" THEN "stopping" ELSE sink[s]]
  /\ UNCHANGED <<publ, probe>>

\* run returns: nothing of the sink is left in its own goroutine.
RunReturns(s) ==
  /\ sink[s] = "stopping" /\ Using(s) = {}
  /\ sink' = [sink EXCEPT ![s] = "new"]
  /\ UNCHANGED <<publ, probe>>

-----------------------------------------------------------------------------
\* session of the sink, and Probe: a publisher of their own, connected at once.
\* bound: no attempt begins with every publisher in use
NewPublisher(u) ==
  /\ Using(u) = {} /\ FreePubs # {}
  /\ publ' = [publ EXCEPT ![Min(FreePubs)] = [Unused EXCEPT !.user = u, !.at = "dialing",
                                                            !.dial = "running"]]

SinkConnects(s) == sink[s] \in {"running", "replaced"} /\ NewPublisher(s) /\ UNCHANGED <<sink, probe>>

SinkIsLive == \E p \in Pubs : At(p, "live") /\ UserOf(p) \in FeedSinks
                              /\ sink[UserOf(p)] \in {"running", "replaced"}

\* handleTestDestination: refused with the destination on the air.
ProbeBegins ==
  /\ ~probe /\ ~SinkIsLive
  /\ probe' = TRUE /\ NewPublisher(Probe)
  /\ UNCHANGED sink

\* The goroutine of Connect that dials; its answer waits in a channel.
DialEnds(p) ==
  /\ publ[p].dial = "running"
  /\ \/ Becomes(p, [publ[p] EXCEPT !.dial = "open", !.wire = "open"])
     \/ Becomes(p, [publ[p] EXCEPT !.dial = "failed"])
  /\ UNCHANGED <<sink, probe>>

Dialed(p) ==
  /\ At(p, "dialing") /\ publ[p].dial \in {"open", "failed"}
  /\ Becomes(p, [publ[p] EXCEPT !.dial = "none",
                                !.at = IF publ[p].dial = "open" THEN "handshake" ELSE "failed"])
  /\ UNCHANGED <<sink, probe>>

\* connectTimeout, or whoever asked for the probe has gone.
StopsWaiting(p) ==
  /\ At(p, "dialing")
  /\ Becomes(p, [publ[p] EXCEPT !.at = "failed"])
  /\ UNCHANGED <<sink, probe>>

\* ... and a goroutine is left behind for the connection that may still come.
Cleans(p) ==
  /\ publ[p].at \in {"failed", "closed"} /\ publ[p].dial \in {"open", "failed"}
  /\ Becomes(p, [publ[p] EXCEPT !.dial = "none", !.wire = WireShut(@)])
  /\ UNCHANGED <<sink, probe>>

\* connect and createStream.
Handshake(p) ==
  /\ At(p, "handshake")
  /\ \E next \in {"publish", "failed"} : Becomes(p, [publ[p] EXCEPT !.at = next])
  /\ UNCHANGED <<sink, probe>>

\* publish is sent and not answered; a write that fails may have arrived.
Publishes(p) ==
  /\ At(p, "publish")
  /\ \/ Becomes(p, [publ[p] EXCEPT !.at = "live", !.slot = (publ[p].wire = "open")])
     \/ \E arrived \in BOOLEAN :
          Becomes(p, [publ[p] EXCEPT !.at = "failed", !.slot = arrived /\ publ[p].wire = "open"])
  /\ UNCHANGED <<sink, probe>>

PlatformCuts(p) ==
  /\ publ[p].wire = "open"
  /\ Becomes(p, [publ[p] EXCEPT !.wire = "cut", !.slot = FALSE])
  /\ UNCHANGED <<sink, probe>>

\* Mutant: what was not published has nothing to close.
CloseOnlyPublished(p) ==
  /\ publ[p].at \in {"live", "failed"}
  /\ Becomes(p, [publ[p] EXCEPT !.at = "closed",
                                !.wire = IF At(p, "live") THEN WireShut(@) ELSE @])
  /\ UNCHANGED <<sink, probe>>

\* Close, deferred by session and by Probe however they end: FCUnpublish if it was
\* published, and the socket.  The connection of a dial nobody waited for is not its.
Closes(p) ==
  /\ publ[p].at \in {"live", "failed"}
  /\ Becomes(p, [publ[p] EXCEPT !.at = "closed",
                                !.slot = FALSE,
                                !.wire = IF publ[p].dial = "none" THEN WireShut(@) ELSE @])
  /\ UNCHANGED <<sink, probe>>

\* The answer of the probe, after its publisher is closed.
ProbeAnswered ==
  /\ probe /\ Using(Probe) = {} /\ probe' = FALSE
  /\ UNCHANGED <<publ, sink>>

FeedNext ==
  \/ HubCloses \/ ProbeBegins \/ ProbeAnswered
  \/ \E s \in FeedSinks : AddSink(s) \/ StopsReplaced(s) \/ RunReturns(s) \/ SinkConnects(s)
  \/ \E p \in Pubs : \/ DialEnds(p) \/ Dialed(p) \/ StopsWaiting(p) \/ Cleans(p)
                     \/ Handshake(p) \/ Publishes(p) \/ PlatformCuts(p) \/ Closes(p)

FeedSpec == FeedInit /\ [][FeedNext]_feedVars

\* Whoever must go: the probe, whose grace is a timer, and a sink that is not to run,
\* whose writes end in writeTimeout.
Leaving(p) == At(p, "failed") \/ UserOf(p) = Probe
              \/ (UserOf(p) \in FeedSinks /\ sink[UserOf(p)] = "stopping")

FeedFairness ==
  /\ \A s \in FeedSinks : WF_feedVars(StopsReplaced(s))
  /\ \A p \in Pubs : /\ WF_feedVars(Leaving(p) /\ Closes(p))
                     /\ WF_feedVars(Cleans(p))

-----------------------------------------------------------------------------
\* A destination is fed twice at the same time only while a probe of it is being
\* served, or while a sink that is being replaced or stopped has not finished; and
\* no socket is left without a goroutine that will close it, whatever step of
\* Connect failed.
OneFeed ==
  /\ FeedTypeOK
  /\ \A p, q \in Pubs : p # q /\ Feeds(p) /\ Feeds(q) =>
       \E r \in {p, q} : \/ UserOf(r) = Probe /\ probe
                         \/ UserOf(r) \in FeedSinks /\ sink[UserOf(r)] \in {"replaced", "stopping"}
  /\ \A p \in Pubs : publ[p].wire \in {"open", "cut"} =>
       publ[p].dial = "open" \/ publ[p].at \in {"handshake", "publish", "live", "failed"}

\* What feeds the destination beside its sink stops doing so.
SecondFeedEnds ==
  \A p \in Pubs : (Feeds(p) /\ Leaving(p)) ~> ~Feeds(p)

\* A probe does not feed a destination that a sink is feeding.  It may: the test of
\* handleTestDestination lets a probe in while the sink is still connecting (no run
\* checks this one).
ProbeSpares ==
  \A p, q \in Pubs : Feeds(p) /\ Feeds(q) /\ UserOf(p) = Probe =>
    UserOf(q) = Probe \/ sink[UserOf(q)] # "running"
=============================================================================
