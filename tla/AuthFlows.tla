----------------------------- MODULE AuthFlows -----------------------------
(***************************************************************************)
(* Connecting an account of a platform (httpapi/platforms.go).  A request  *)
(* begins a flow, kept in a map under a mutex.  On the platforms with a    *)
(* device code a goroutine asks whether the person has authorised until    *)
(* the code expires; on those that send the browser back, the callback     *)
(* exchanges the code it brings.  The panel asks for the outcome.  The     *)
(* clock moves in units of an exchange's timeout (30 s); an entry is swept *)
(* Grace units after it expires, and its name then stands for another flow.*)
(***************************************************************************)
EXTENDS Integers, FiniteSets

CONSTANTS Flows,     \* entries of one platform there may be at the same time
          Visits,    \* callbacks served at the same time
          MaxLive,   \* maxFlujosPorPlataforma
          MaxStarts, \* bound: requests that begin a flow at the same time
          TTL,       \* what a code or a state is good for
          Exchange,  \* the timeout of a callback's exchange
          Grace      \* limpiarVencidos: a minute

ASSUME AuthConstants ==
  /\ IsFiniteSet(Flows) /\ IsFiniteSet(Visits)
  /\ \A n \in {MaxLive, MaxStarts, TTL, Exchange, Grace} : n \in Nat
  /\ MaxLive > 0 /\ Exchange < Grace

VARIABLES redirect,  \* the platform sends the browser back
          flow,      \* the entry of each flow, and its goroutine if it has one
          visit,     \* the callbacks being served
          ended,     \* baseCtx is over
          connected, \* flows whose account was stored
          exchanges  \* history: exchanges of each flow's code
authVars == <<redirect, flow, visit, ended, connected, exchanges>>

Outcomes   == {"done", "expired", "error"}
Vivo   == {"pending", "exchanging"}
Nowhere == [at |-> "away", flow |-> "none", left |-> 0]
Unborn  == [step |-> "none", status |-> "none", poll |-> "off", left |-> 0]
There(f) == flow[f].step = "begun"

AuthTypeOK ==
  /\ redirect \in BOOLEAN /\ ended \in BOOLEAN
  /\ flow \in [Flows -> [step : {"none", "counted", "begun"}, status : {"none"} \cup Vivo \cup Outcomes,
                         poll : {"off", "asking", "spent", "saving"},
                         left : -(Grace + 1)..TTL]]   \* until it expires
  /\ visit \in [Visits -> [at : {"away", "claimed", "saving", "subscribing"}, flow : Flows \cup {"none"},
                           left : 0..Exchange]]       \* until its context does
  /\ connected \subseteq Flows
  /\ exchanges \in [Flows -> Nat]

AuthInit ==
  /\ redirect \in BOOLEAN /\ ended = FALSE /\ connected = {}
  /\ flow = [f \in Flows |-> Unborn] /\ visit = [v \in Visits |-> Nowhere]
  /\ exchanges = [f \in Flows |-> 0]

\* limpiarVencidos sweeps the old ones, whatever state they are in.
Old == {f \in Flows : There(f) /\ flow[f].left < -Grace}
\* The map without some flows, and with entry f as r.
Map(gone, f, r) ==
  /\ flow' = [g \in Flows |-> IF g \in gone THEN Unborn ELSE IF g = f THEN r ELSE flow[g]]
  /\ connected' = connected \ gone
  /\ exchanges' = [g \in Flows |-> IF g \in gone THEN 0 ELSE exchanges[g]]
Alive    == {f \in Flows \ Old : flow[f].status \in Vivo}
Starting == {f \in Flows : flow[f].step = "counted"}

-----------------------------------------------------------------------------

\* handleStartAuth: the flows alive are counted, and the lock released ...
Counts(f) ==
  /\ flow[f].step = "none" /\ Cardinality(Starting) < MaxStarts
  /\ Cardinality(Alive) < MaxLive
  /\ Map(Old, f, [Unborn EXCEPT !.step = "counted"])
  /\ UNCHANGED <<redirect, visit, ended>>

\* ... the platform is asked for a code, or the state is signed, and the flow goes into
\* the map; or the request fails.
Begins(f) ==
  /\ flow[f].step = "counted"
  /\ \/ flow' = [flow EXCEPT ![f] = [step |-> "begun", status |-> "pending", left |-> TTL,
                                      poll |-> IF redirect THEN "off" ELSE "asking"]]
     \/ flow' = [flow EXCEPT ![f] = Unborn]
  /\ UNCHANGED <<redirect, visit, ended, connected, exchanges>>

-----------------------------------------------------------------------------
\* terminar: the first outcome stands.
Ended(r, status) == IF r.status \in Vivo THEN [r EXCEPT !.status = status] ELSE r
PollEnds(f, status) == flow' = [flow EXCEPT ![f] = Ended([@ EXCEPT !.poll = "off"], status)]

CodeOver(f) == ended \/ flow[f].left <= 0

\* sondear, one PollAuth: not yet, or no answer; refused; no longer good; or granted.
\* A code that was redeemed without the identity being read afterwards is good no more.
Polls(f) ==
  /\ flow[f].poll \in {"asking", "spent"}
  /\ \/ /\ flow[f].poll = "asking" /\ ~CodeOver(f)
        /\ \/ flow' = [flow EXCEPT ![f].poll = "saving"]
           \/ flow' = [flow EXCEPT ![f].poll = "spent"]
           \/ PollEnds(f, "error")
     \/ PollEnds(f, "expired")
  /\ UNCHANGED <<redirect, visit, ended, connected, exchanges>>

\* guardarCuenta: it fails if the code expired meanwhile.
PollSaves(f) ==
  /\ flow[f].poll = "saving"
  /\ \/ ~CodeOver(f) /\ connected' = connected \cup {f} /\ PollEnds(f, "done")
     \/ PollEnds(f, "error") /\ UNCHANGED connected
  /\ UNCHANGED <<redirect, visit, ended, exchanges>>

-----------------------------------------------------------------------------
\* Mutant: any flow that is alive is claimed.
ClaimsAlive(v, f) ==
  /\ redirect /\ visit[v] = Nowhere /\ There(f) /\ flow[f].left >= 0
  /\ flow[f].status \in Vivo
  /\ flow' = [flow EXCEPT ![f].status = "exchanging"]
  /\ visit' = [visit EXCEPT ![v] = [at |-> "claimed", flow |-> f, left |-> Exchange]]
  /\ UNCHANGED <<redirect, ended, connected, exchanges>>

\* handleAuthCallback, with a state that verificarState accepts: the flow is claimed
\* under the lock.
Claims(v, f) ==
  /\ redirect /\ visit[v] = Nowhere /\ There(f) /\ flow[f].left >= 0
  /\ flow[f].status = "pending"
  /\ flow' = [flow EXCEPT ![f].status = "exchanging"]
  /\ visit' = [visit EXCEPT ![v] = [at |-> "claimed", flow |-> f, left |-> Exchange]]
  /\ UNCHANGED <<redirect, ended, connected, exchanges>>

VisitEnds(v, status) ==
  /\ flow' = [flow EXCEPT ![visit[v].flow] = Ended(@, status)]
  /\ visit' = [visit EXCEPT ![v] = Nowhere]

\* The person refused, or there is no code, and nothing is exchanged; or CompleteRedirect.
Exchanges(v) ==
  /\ visit[v].at = "claimed"
  /\ \/ VisitEnds(v, "error") /\ UNCHANGED exchanges
     \/ /\ exchanges' = [exchanges EXCEPT ![visit[v].flow] = @ + 1]
        /\ \/ VisitEnds(v, "error")
           \/ ~ended /\ visit' = [visit EXCEPT ![v].at = "saving"] /\ UNCHANGED flow
  /\ UNCHANGED <<redirect, ended, connected>>

VisitSaves(v) ==
  /\ visit[v].at = "saving"
  /\ \/ /\ ~ended /\ connected' = connected \cup {visit[v].flow}
        /\ visit' = [visit EXCEPT ![v].at = "subscribing"] /\ UNCHANGED flow
     \/ VisitEnds(v, "error") /\ UNCHANGED connected
  /\ UNCHANGED <<redirect, ended, exchanges>>

\* suscribirChat, whose failure is only noted, and the outcome.
VisitDone(v) ==
  /\ visit[v].at = "subscribing" /\ VisitEnds(v, "done")
  /\ UNCHANGED <<redirect, ended, connected, exchanges>>

-----------------------------------------------------------------------------

\* handleAuthStatus: an outcome is told once and forgotten; the rest is swept.
Tells(f) ==
  /\ There(f)
  /\ Map(IF flow[f].status \in Vivo THEN Old ELSE Old \cup {f}, f, flow[f])
  /\ UNCHANGED <<redirect, visit, ended>>

EndsBase ==
  /\ ~ended /\ ended' = TRUE
  /\ UNCHANGED <<redirect, flow, visit, connected, exchanges>>

\* Time: no goroutine outlives its context, whose end every call it makes obeys.
AuthTick ==
  /\ \E f \in Flows : There(f) /\ f \notin Old
  /\ \A f \in Flows : flow[f].poll # "off" => flow[f].left > 0
  /\ \A v \in Visits : visit[v] # Nowhere => visit[v].left > 0
  /\ flow' = [f \in Flows |-> IF There(f) /\ f \notin Old THEN [flow[f] EXCEPT !.left = @ - 1]
                                                           ELSE flow[f]]
  /\ visit' = [v \in Visits |-> IF visit[v] = Nowhere THEN Nowhere ELSE [visit[v] EXCEPT !.left = @ - 1]]
  /\ UNCHANGED <<redirect, ended, connected, exchanges>>

AuthNext ==
  \/ AuthTick \/ EndsBase
  \/ \E f \in Flows : Counts(f) \/ Begins(f) \/ Tells(f)
                     \/ Polls(f) \/ PollSaves(f)
  \/ \E v \in Visits : \/ \E f \in Flows : Claims(v, f)
                       \/ Exchanges(v) \/ VisitSaves(v) \/ VisitDone(v)

AuthSpec == AuthInit /\ [][AuthNext]_authVars

-----------------------------------------------------------------------------
\* However many callbacks bring the same code, it is exchanged once; the flow is in the
\* map until whoever works on it has left its outcome there, though entries are swept
\* in any state; that outcome is "done" exactly when the account was stored.
\* And the limit of flows of a platform is passed by no more than
\* the requests that counted at the same time (it is checked before BeginAuth and not
\* again, so the eighth and a ninth can both begin).
AuthOutcomes ==
  /\ AuthTypeOK
  /\ \A f \in Flows : exchanges[f] <= 1
  /\ \A f \in Flows : flow[f].poll # "off" => flow[f].status = "pending"
  /\ \A v \in Visits : visit[v] # Nowhere =>
       flow[visit[v].flow].status = "exchanging"
  /\ \A f \in Flows : flow[f].status \in Outcomes => (flow[f].status = "done" <=> f \in connected)
  /\ Cardinality(Alive) <= MaxLive + MaxStarts - 1
=============================================================================
