---------------------------- MODULE MCBackground ----------------------------
(***************************************************************************)
(* The goroutines that keep a connection or a delivery going on their own  *)
(* and must end when they are told to, checked in one run: the chat        *)
(* readers of Twitch and YouTube, a sink, the connections to one           *)
(* destination, the alerts and the preview.  They share no variable, so a  *)
(* behaviour picks one of them at the start and the others never move.     *)
(***************************************************************************)
EXTENDS TwitchChat, YouTubeChat, SinkLife, RtmpFeeds, Alerts, PreviewTap

VARIABLE part
backgroundVars == <<part, twVars, ytVars, vars, feedVars, alertVars, tapVars>>

BackgroundInit ==
  /\ part \in {"twitch", "youtube", "sink", "feeds", "alerts", "preview"}
  /\ TwInit /\ YtInit /\ Init /\ FeedInit /\ AlertInit /\ TapInit

BackgroundNext ==
  \/ part = "twitch" /\ TwNext /\ UNCHANGED <<part, ytVars, vars, feedVars, alertVars, tapVars>>
  \/ part = "youtube" /\ YtNext /\ UNCHANGED <<part, twVars, vars, feedVars, alertVars, tapVars>>
  \/ part = "sink" /\ Next /\ UNCHANGED <<part, twVars, ytVars, feedVars, alertVars, tapVars>>
  \/ part = "feeds" /\ FeedNext /\ UNCHANGED <<part, twVars, ytVars, vars, alertVars, tapVars>>
  \/ part = "alerts" /\ AlertNext /\ UNCHANGED <<part, twVars, ytVars, vars, feedVars, tapVars>>
  \/ part = "preview" /\ TapNext /\ UNCHANGED <<part, twVars, ytVars, vars, feedVars, alertVars>>

\* What the fairness of a machine asks is asked of the part that moves: in the initial
\* states, where the others stay, none of its actions is enabled.
BackgroundSpec ==
  /\ BackgroundInit /\ [][BackgroundNext]_backgroundVars
  /\ TwFairness /\ YtFairness /\ Fairness /\ FeedFairness /\ AlertFairness /\ TapFairness

-----------------------------------------------------------------------------
\* A chat reader returns once its session is over, whatever it is waiting for: a dial,
\* a read, a greeting, a page or the end of a pause (ReadChat's callers wait for it);
\* and whoever watches the preview is told that the session has ended.
ReadersReturn ==
  /\ sessionOver ~> (twPlace = "returned")
  /\ ytOver ~> (ytPlace = "returned")
  /\ (viewer.at = "watching" /\ tap.state = "closed") ~> (viewer.at = "away")
=============================================================================
