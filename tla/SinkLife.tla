------------------------------ MODULE SinkLife ------------------------------
(***************************************************************************)
(* The life of one sink (internal/relay/sink.go Start, Stop, run, session, *)
(* suspend; backoff.go): a goroutine that connects, transmits, waits and   *)
(* reconnects until it is stopped or gives up, against callers that start  *)
(* it, stop it and wait for it.                                            *)
(*                                                                         *)
(* Steps are the points where the goroutine can be overtaken: the check at *)
(* the top of the loop, the dial, the transmission, the decision after a   *)
(* failure and the two waits.  A session that fails is "silent" (nothing   *)
(* was written), "short" (it was, for less than minHealthySession) or      *)
(* "healthy".                                                              *)
(***************************************************************************)
EXTENDS Integers, FiniteSets

CONSTANTS SuspendAttempts, \* failed attempts before the sink gives up
          SuspendFlaps,    \* short sessions before the sink gives up
          BackoffCap,      \* attempts after which the wait stops growing
          Stoppers,        \* the callers that may stop the sink
          MaxAttempts      \* bound: sessions tried

ASSUME SinkLimits ==
  /\ {SuspendAttempts, SuspendFlaps, BackoffCap, MaxAttempts} \subseteq Nat \ {0}
  /\ SuspendAttempts > 1 \* ten in the code: one failure never suspends

VARIABLES pc,       \* where the goroutine is
          starter,  \* where the caller of Start is
          started,  \* the flag Stop looks at
          quit,     \* the quit channel is closed
          cancelled, \* the context of the process has ended
          stopper,  \* where each caller of Stop is
          state,    \* what the panel shows
          connected, \* an outgoing connection exists
          wrote,    \* this session has written media
          attempts, \* backoff.attempt
          flaps,    \* short sessions counted by run
          wait,     \* length of the last backoff wait, as an exponent
          tried, silentRun, shortRun \* history: sessions, and the failures in a row

goroutine == <<pc, state, connected, wrote, attempts, flaps, wait>>
callers   == <<starter, started, quit, cancelled, stopper>>
history   == <<tried, silentRun, shortRun>>
vars      == <<goroutine, callers, history>>

Places == {"none", "top", "dial", "live", "silent", "short", "healthy",
           "backoff", "suspended", "done"}
States == {"idle", "connecting", "live", "reconnecting", "suspended"}

Init == /\ pc = "none" /\ state = "idle" /\ connected = FALSE /\ wrote = FALSE
        /\ attempts = 0 /\ flaps = 0 /\ wait = 0
        /\ starter = "new" /\ started = FALSE
        /\ quit = FALSE /\ cancelled = FALSE
        /\ stopper = [s \in Stoppers |-> "new"]
        /\ tried = 0 /\ silentRun = 0 /\ shortRun = 0

Stopping == quit \/ cancelled

-----------------------------------------------------------------------------
\* Start runs once: the quit check, then the flag, then the goroutine.
StartCheck == /\ starter = "new"
              /\ starter' = IF quit THEN "returned" ELSE "checked"
              /\ UNCHANGED <<goroutine, history, started, quit, cancelled, stopper>>

StartFlag == /\ starter = "checked"
             /\ started' = TRUE
             /\ starter' = "flagged"
             /\ UNCHANGED <<goroutine, history, quit, cancelled, stopper>>

StartGo == /\ starter = "flagged"
           /\ starter' = "returned"
           /\ pc' = "top"
           /\ UNCHANGED <<state, connected, wrote, attempts, flaps, wait, history,
                          started, quit, cancelled, stopper>>

\* signalStop closes quit (and the queue); Stop then waits only if it sees the flag.
SignalStop(s) == /\ stopper[s] = "new"
                 /\ quit' = TRUE
                 /\ stopper' = [stopper EXCEPT ![s] = "signalled"]
                 /\ UNCHANGED <<goroutine, history, starter, started, cancelled>>

\* Mutant: Stop does not wait for the goroutine.
StopReturnsAtOnce(s) == /\ stopper[s] = "signalled"
                        /\ stopper' = [stopper EXCEPT ![s] = "returned"]
                        /\ UNCHANGED <<goroutine, history, starter, started, quit, cancelled>>

StopReturns(s) == /\ stopper[s] = "signalled"
                  /\ started => pc = "done"
                  /\ stopper' = [stopper EXCEPT ![s] = "returned"]
                  /\ UNCHANGED <<goroutine, history, starter, started, quit, cancelled>>

CancelContext == /\ ~cancelled
                 /\ cancelled' = TRUE
                 /\ UNCHANGED <<goroutine, history, starter, started, quit, stopper>>

-----------------------------------------------------------------------------
\* An orderly exit of run.
Finish == /\ pc' = "done"
          /\ state' = "idle"
          /\ connected' = FALSE
          /\ UNCHANGED <<wrote, attempts, flaps, wait>>

TopStops == /\ pc = "top" /\ Stopping
            /\ Finish
            /\ UNCHANGED <<callers, history>>

TopDials == /\ pc = "top" /\ ~Stopping
            /\ tried < MaxAttempts
            /\ pc' = "dial"
            /\ state' = IF attempts = 0 THEN "connecting" ELSE "reconnecting"
            /\ connected' = TRUE \* the dial opens the TCP connection
            /\ wrote' = FALSE
            /\ tried' = tried + 1
            /\ UNCHANGED <<attempts, flaps, wait, callers, silentRun, shortRun>>

\* Connect observes the context of the process and its own deadline, never quit.
DialFails == /\ pc = "dial"
             /\ pc' = "silent"
             /\ connected' = FALSE
             /\ UNCHANGED <<state, wrote, attempts, flaps, wait, callers, history>>

DialSucceeds == /\ pc = "dial"
                /\ pc' = "live"
                /\ state' = "live"
                /\ UNCHANGED <<connected, wrote, attempts, flaps, wait, callers, history>>

Transmit == /\ pc = "live"
            /\ ~wrote
            /\ wrote' = TRUE
            /\ UNCHANGED <<pc, state, connected, attempts, flaps, wait, callers, history>>

\* quit, the context or the closed queue end the session without an error.
SessionStops == /\ pc = "live" /\ Stopping
                /\ Finish
                /\ UNCHANGED <<callers, history>>

\* A write fails; publishers close their connection on the way out of session.
SessionFails == /\ pc = "live"
                /\ pc' \in IF wrote THEN {"short", "healthy"} ELSE {"silent"}
                /\ connected' = FALSE
                /\ UNCHANGED <<state, wrote, attempts, flaps, wait, callers, history>>

-----------------------------------------------------------------------------
\* Mutants of GivesUp and WaitAfter: the attempt that has just failed is not
\* counted; the exponent is taken one behind; the shift is not capped and wraps.
GivesUpLate(silent, a, f) == (silent /\ a >= SuspendAttempts) \/ f >= SuspendFlaps
WaitBehind(a) == IF a < BackoffCap THEN a - 1 ELSE BackoffCap

GivesUp(silent, a, f) == (silent /\ a + 1 >= SuspendAttempts) \/ f >= SuspendFlaps

\* backoff.next doubles the wait with every attempt up to the cap; its jitter
\* stays within a fifth of it.
WaitAfter(a) == IF a < BackoffCap THEN a ELSE BackoffCap

\* The accounting after a failure and what it leads to: a healthy session resets
\* the backoff and the short-session count, a short one counts, a silent one
\* leaves both as they are.
AfterFailure ==
  /\ pc \in {"silent", "short", "healthy"}
  /\ LET a == IF pc = "healthy" THEN 0 ELSE attempts
         f == CASE pc = "healthy" -> 0 [] pc = "short" -> flaps + 1 [] OTHER -> flaps
     IN  /\ flaps' = f
         /\ IF GivesUp(pc = "silent", a, f)
            THEN /\ pc' = "suspended" /\ state' = "suspended"
                 /\ attempts' = a /\ wait' = wait
            ELSE /\ pc' = "backoff" /\ state' = "reconnecting"
                 /\ attempts' = a + 1
                 /\ wait' = WaitAfter(a)
  /\ silentRun' = IF pc = "silent" THEN silentRun + 1 ELSE 0
  /\ shortRun' = IF pc = "short" THEN shortRun + 1 ELSE 0
  /\ UNCHANGED <<connected, wrote, callers, tried>>

BackoffEnds == /\ pc = "backoff"
               /\ pc' = "top"
               /\ UNCHANGED <<state, connected, wrote, attempts, flaps, wait, callers,
                              history>>

\* Mutant: a suspended sink listens to the context alone.
WaitIgnoresQuit == /\ \/ pc = "backoff" /\ Stopping
                      \/ pc = "suspended" /\ cancelled
                   /\ Finish
                   /\ UNCHANGED <<callers, history>>

WaitStops == /\ pc \in {"backoff", "suspended"} /\ Stopping
             /\ Finish
             /\ UNCHANGED <<callers, history>>

Run == \/ TopStops \/ TopDials \/ DialFails \/ DialSucceeds \/ Transmit
       \/ SessionStops \/ SessionFails \/ AfterFailure \/ BackoffEnds \/ WaitStops

Next == \/ StartCheck \/ StartFlag \/ StartGo
        \/ \E s \in Stoppers : SignalStop(s) \/ StopReturns(s)
        \/ CancelContext \/ Run

\* The goroutine runs: a dial ends by its deadline, a session that is asked to
\* stop meets the closed queue, and the two waits listen to quit and the context.
\* Nothing obliges a live session to fail or a caller to stop the sink.
Fairness == /\ WF_vars(StartFlag) /\ WF_vars(StartGo)
            /\ WF_vars(TopStops \/ TopDials) /\ WF_vars(DialFails \/ DialSucceeds)
            /\ WF_vars(SessionStops) /\ WF_vars(AfterFailure) /\ WF_vars(WaitStops)
            /\ \A s \in Stoppers : WF_vars(StopReturns(s))

Spec     == Init /\ [][Next]_vars
FairSpec == Spec /\ Fairness

-----------------------------------------------------------------------------
TypeOK == /\ pc \in Places /\ state \in States
          /\ starter \in {"new", "checked", "flagged", "returned"}
          /\ stopper \in [Stoppers -> {"new", "signalled", "returned"}]
          /\ connected \in BOOLEAN /\ wrote \in BOOLEAN /\ started \in BOOLEAN
          /\ quit \in BOOLEAN /\ cancelled \in BOOLEAN
          /\ attempts \in Nat /\ flaps \in Nat /\ wait \in Nat
          /\ {tried, silentRun, shortRun} \subseteq Nat

\* Once a Stop has returned the sink never touches its destination again, even
\* if that Stop overtook a Start in progress: whoever replaces the sink may
\* connect to the same endpoint (Stop: "dos escribieran a la vez al mismo
\* endpoint RTMP").
StopIsFinal ==
  (\E s \in Stoppers : stopper[s] = "returned") => pc \notin {"dial", "live"} /\ ~connected

\* Failures are bounded: within one run of failures without a healthy session
\* between them a sink cannot dial more often than both thresholds allow
\* ("reintentar cada segundo abre un stream nuevo cada segundo").
RetriesBounded ==
  pc = "dial" => attempts <= (SuspendAttempts - 1) + (SuspendFlaps - 1)

\* Waits never shrink between two dials unless a healthy session came in between.
BackoffMonotone ==
  [][wait' < wait => pc = "healthy"]_vars

\* Stopping works from every place, the goroutine ends and so does the caller; and the
\* end of the process reaches a started sink wherever it is.
SinkEnds ==
  /\ \A s \in Stoppers : stopper[s] = "signalled" ~> stopper[s] = "returned"
  /\ cancelled /\ pc # "none" ~> pc = "done"

\* StateSuspended: the sink gave up "tras SuspendAfterAttempts intentos sin
\* transmitir o SuspendAfterFlaps cortes seguidos".
SuspensionEarned ==
  pc = "suspended" => silentRun >= SuspendAttempts \/ shortRun >= SuspendFlaps
=============================================================================
