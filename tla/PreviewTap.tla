----------------------------- MODULE PreviewTap -----------------------------
(***************************************************************************)
(* The silent preview of the panel: a tap of the hub (relay/tap.go), a     *)
(* bounded channel that never blocks the publisher, and the WebSocket that *)
(* sends on what comes out of it (httpapi/preview.go).  The decoder of the *)
(* browser needs a configuration first, a keyframe after any gap, and the  *)
(* new configuration when the publisher renegotiates.  One viewer, one     *)
(* after another; the write of a message is one step with its removal from *)
(* the channel, so that a slow viewer is one who takes its time to take.   *)
(***************************************************************************)
EXTENDS Integers, Sequences, FiniteSetsExt

CONSTANTS TapRoom,    \* tapBuffer
          TapHeaders, \* bound: headers published, over all sessions
          TapFrames   \* bound: frames published, over all sessions

ASSUME TapConstants == TapRoom \in Nat \ {0} /\ TapHeaders \in Nat /\ TapFrames \in Nat

NoMessage == [kind |-> "none", key |-> FALSE, n |-> 0, header |-> 0]
\* A header is known by its version; a frame by its number and the header it was encoded under.
TapMessages == [kind : {"header", "frame"}, key : BOOLEAN, n : 0..TapFrames, header : 1..TapHeaders]

VARIABLES ingest,    \* how far the session is
          version,  \* headers published so far
          frames,   \* frames published so far
          cached,   \* the preamble's video header, 0 for none
          hand,     \* what Publish has observed and not delivered
          tap,      \* the viewer's tap
          viewer    \* the viewer's WebSocket, and what its decoder has
tapVars == <<ingest, version, frames, cached, hand, tap, viewer>>

NoTap    == [state |-> "none", ch |-> <<>>, waiting |-> FALSE, lost |-> {}]
NoViewer == [at |-> "away", config |-> 0, last |-> NoMessage, since |-> 0]

TapTypeOK ==
  /\ ingest \in {"off", "live", "tapsClosed", "forgotten"}
  /\ version \in 0..TapHeaders /\ frames \in 0..TapFrames /\ cached \in 0..TapHeaders
  /\ hand \in TapMessages \cup {NoMessage}
  /\ tap.state \in {"none", "open", "closed"} /\ tap.waiting \in BOOLEAN
  /\ tap.ch \in Seq(TapMessages) /\ Len(tap.ch) <= TapRoom
  /\ tap.lost \subseteq 1..TapHeaders                    \* history: headers the channel had no room for
  /\ viewer.at \in {"away", "tapped", "configured", "watching"}
  /\ viewer.config \in 0..TapHeaders
  /\ viewer.last \in TapMessages \cup {NoMessage}        \* the last frame sent on
  /\ viewer.since \in 0..TapFrames                       \* history: frames published when VideoConfig was read

TapInit == /\ ingest = "off" /\ version = 0 /\ frames = 0 /\ cached = 0
           /\ hand = NoMessage /\ tap = NoTap /\ viewer = NoViewer

-----------------------------------------------------------------------------
\* The publisher's goroutine.
GoesLive ==
  /\ ingest = "off" /\ ingest' = "live"
  /\ UNCHANGED <<version, frames, cached, hand, tap, viewer>>

\* Publish, its first half: the preamble observes the message.  A publisher sends a
\* header before its frames.
ObservesHeader ==
  /\ ingest = "live" /\ hand = NoMessage /\ version < TapHeaders
  /\ version' = version + 1 /\ cached' = version + 1
  /\ hand' = [NoMessage EXCEPT !.kind = "header", !.header = version + 1]
  /\ UNCHANGED <<ingest, frames, tap, viewer>>

ObservesFrame ==
  /\ ingest = "live" /\ hand = NoMessage /\ cached # 0 /\ frames < TapFrames
  /\ frames' = frames + 1
  /\ \E key \in BOOLEAN :
       hand' = [kind |-> "frame", key |-> key, n |-> frames + 1, header |-> cached]
  /\ UNCHANGED <<ingest, version, cached, tap, viewer>>

\* deliver, whose default case waits for the next keyframe.
Full(t)      == Len(t.ch) >= TapRoom
Passes(t, m) == ~t.waiting \/ m.key \/ m.kind = "header"
Lost(t, m)   == IF m.kind = "header" THEN t.lost \cup {m.header} ELSE t.lost

\* Mutant: what does not fit is dropped and nothing else.
DropsOne(t, m) == [t EXCEPT !.lost = Lost(t, m)]
Drops(t, m) == [t EXCEPT !.waiting = TRUE, !.lost = Lost(t, m)]
Queues(t, m) == [t EXCEPT !.ch = Append(@, m), !.waiting = @ /\ m.kind = "header"]

Delivers ==
  /\ hand # NoMessage /\ hand' = NoMessage
  /\ tap' = IF tap.state # "open" \/ ~Passes(tap, hand) THEN tap
            ELSE IF Full(tap) THEN Drops(tap, hand) ELSE Queues(tap, hand)
  /\ UNCHANGED <<ingest, version, frames, cached, viewer>>

\* OnPublishEnd: Hub.Close closes the taps it finds and forgets the preamble, and the
\* session's id goes last.
ClosesTaps ==
  /\ ingest = "live" /\ hand = NoMessage /\ ingest' = "tapsClosed"
  /\ tap' = IF tap.state = "open" THEN [tap EXCEPT !.state = "closed"] ELSE tap
  /\ UNCHANGED <<version, frames, cached, hand, viewer>>

ForgetsPreamble ==
  /\ ingest = "tapsClosed" /\ ingest' = "forgotten" /\ cached' = 0
  /\ UNCHANGED <<version, frames, hand, tap, viewer>>

GoesOff ==
  /\ ingest = "forgotten" /\ ingest' = "off"
  /\ UNCHANGED <<version, frames, cached, hand, tap, viewer>>

Publishing == <<ingest, version, frames, cached, hand>>
-----------------------------------------------------------------------------
\* handlePreviewWS: the tap first, the configuration afterwards.
Opens ==
  /\ viewer.at = "away"
  /\ tap' = [NoTap EXCEPT !.state = "open", !.waiting = TRUE]
  /\ viewer' = [NoViewer EXCEPT !.at = "tapped"]
  /\ UNCHANGED Publishing

ReadsConfig ==
  /\ viewer.at = "tapped"
  /\ viewer' = [viewer EXCEPT !.at = "configured", !.config = cached, !.since = frames]
  /\ UNCHANGED <<Publishing, tap>>

\* release, deferred.
Releases == tap' = NoTap /\ viewer' = NoViewer

\* No configuration, or no session by now: «sin señal».  Otherwise it is sent.
Answers ==
  /\ viewer.at = "configured"
  /\ IF ingest = "off" \/ viewer.config = 0
       THEN Releases
       ELSE viewer' = [viewer EXCEPT !.at = "watching"] /\ UNCHANGED tap
  /\ UNCHANGED Publishing

SendsOn ==
  /\ viewer.at = "watching" /\ tap.ch # <<>>
  /\ LET m == Head(tap.ch) IN
       viewer' = IF m.kind = "header" THEN [viewer EXCEPT !.config = m.header]
                                       ELSE [viewer EXCEPT !.last = m]
  /\ tap' = [tap EXCEPT !.ch = Tail(@)]
  /\ UNCHANGED Publishing

\* The channel is closed and empty: «la emisión terminó».
SeesTheEnd ==
  /\ viewer.at = "watching" /\ tap.ch = <<>> /\ tap.state = "closed"
  /\ Releases /\ UNCHANGED Publishing

\* The client has gone, or does not read in time.
Leaves ==
  /\ viewer.at \in {"configured", "watching"}
  /\ Releases /\ UNCHANGED Publishing

TapNext ==
  \/ GoesLive \/ ObservesHeader \/ ObservesFrame \/ Delivers
  \/ ClosesTaps \/ ForgetsPreamble \/ GoesOff
  \/ Opens \/ ReadsConfig \/ Answers \/ SendsOn \/ SeesTheEnd \/ Leaves

\* The handler runs; nobody is assumed to publish, to open or to close a preview.
TapFairness == WF_tapVars(ReadsConfig) /\ WF_tapVars(Answers) /\ WF_tapVars(SendsOn) /\ WF_tapVars(SeesTheEnd)

TapSpec == TapInit /\ [][TapNext]_tapVars /\ TapFairness

-----------------------------------------------------------------------------
\* What the decoder has of a kind when it gets the i-th message of s: the number of the
\* last frame before it or the version of the last header, d if there is none in s.
Mark(m) == IF m.kind = "frame" THEN m.n ELSE m.header
Seen(s, kind, d, i) ==
  LET earlier == {j \in 1..(i - 1) : s[j].kind = kind} IN
  IF earlier = {} THEN d ELSE Mark(s[Max(earlier)])

FrameBefore(i) == Seen(tap.ch, "frame", viewer.last.n, i)
ConfigAt(i)    == Seen(tap.ch, "header", viewer.config, i)

\* The decoder of the preview gets a keyframe after every gap, however full the channel
\* was.  The configuration is that of the frame, but for two windows: a header the
\* channel had no room for is missed until the next one (deliver's comment says headers
\* always pass, and it drops them like the rest), and the frames queued before
\* VideoConfig was read may meet a newer one (handlePreviewWS's comment expects
\* a repeated configuration at worst).
PreviewPlays ==
  /\ TapTypeOK
  /\ \A i \in DOMAIN tap.ch : LET m == tap.ch[i] IN
       m.kind = "frame" =>
         /\ m.key \/ m.n = FrameBefore(i) + 1
         /\ viewer.at = "watching" =>
              \/ ConfigAt(i) = m.header
              \/ ConfigAt(i) < m.header /\ m.header \in tap.lost
              \/ ConfigAt(i) > m.header /\ m.n <= viewer.since
=============================================================================
