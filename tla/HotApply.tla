------------------------------ MODULE HotApply ------------------------------
(***************************************************************************)
(* Which sinks run: the hub's registry (internal/relay/hub.go), the sinks  *)
(* the engine starts and stops with a session (engine.go startSession,     *)
(* AddSink, RemoveSink, OnPublishEnd) and the requests that edit the       *)
(* destinations in the middle of it (internal/httpapi/destinations.go,     *)
(* toggleall.go; internal/sinks/factory.go Build, BuildEnabled).           *)
(*                                                                         *)
(* One publisher at a time is what SessionGate shows, so here it is one    *)
(* process.  A request is a process too.  The steps are the critical       *)
(* sections of the hub's mutex, the database statements and the waits for  *)
(* a sink that stops.                                                      *)
(***************************************************************************)
EXTENDS Integers, FiniteSets

CONSTANTS Dests,      \* destination ids
          Requests,   \* HTTP requests that may be in progress together
          OneAtATime, \* TRUE: the only user waits for each change to finish and
                      \* makes none while a session starts or ends
          MaxSinks, MaxSessions \* bounds: sinks built, sessions opened

ASSUME HotBounds == /\ OneAtATime \in BOOLEAN
                    /\ MaxSinks \in Nat /\ MaxSessions \in Nat
                    /\ "publisher" \notin Requests

VARIABLES table,     \* what the database says of each destination
          sinks,     \* every sink built so far: its destination, session and state
          fed,       \* sinks that have been registered: they get media
          hub,       \* the sink registered for each destination, 0 if none
          sessionID, \* 0 when there is no session
          sessions,  \* sessions opened so far
          place,     \* where each process is
          todo,      \* destinations it still has to apply
          want,      \* the enabled flag the request wrote
          job        \* the destination in hand, the sink to add, the sink to stop

relay == <<sinks, fed, hub, sessionID, sessions>>
local == <<place, todo, want, job>>
hotVars  == <<table, relay, local>>

Processes == Requests \cup {"publisher"}
Ids       == 1 .. MaxSinks
NoJob     == [dest |-> 0, sink |-> 0, old |-> 0]

HotInit == /\ table \in [Dests -> {"absent", "enabled", "disabled"}]
        /\ sinks = [x \in {} |-> NoJob]
        /\ fed = {}
        /\ hub = [d \in Dests |-> 0]
        /\ sessionID = 0 /\ sessions = 0
        /\ place = [a \in Processes |-> IF a = "publisher" THEN "off" ELSE "idle"]
        /\ todo = [a \in Processes |-> {}]
        /\ want = [h \in Requests |-> "disabled"]
        /\ job = [a \in Processes |-> NoJob]

liveSession == sessionID # 0

Quiet(a) == place[a] \in {"idle", "off", "live"}

\* May a begin something new?
MayBegin(a) == OneAtATime => \A b \in Processes \ {a} : Quiet(b)

Goes(a, there) == place' = [place EXCEPT ![a] = there]

State(x)  == sinks[x].state
NextSink  == Cardinality(DOMAIN sinks) + 1
Becomes(x, s) == sinks' = [sinks EXCEPT ![x].state = s]

\* AddSink and RemoveSink return to the loop they were called from.
Returns(a) == Goes(a, IF a = "publisher" THEN "adding" ELSE "applying")

-----------------------------------------------------------------------------
\* Mutant: the sink is registered without being started.
BuildUnstarted(a, d) ==
  /\ NextSink \in Ids
  /\ sinks' = [x \in Ids \cap (1 .. NextSink) |->
                 IF x = NextSink THEN [dest |-> d, session |-> sessionID, state |-> "built"]
                                 ELSE sinks[x]]
  /\ job' = [job EXCEPT ![a] = [dest |-> d, sink |-> NextSink, old |-> 0]]
  /\ Goes(a, "take")
  /\ UNCHANGED <<fed, hub, sessionID, sessions>>

\* Engine.AddSink and Hub.Add: start, take the old one out, stop it, register.
BuildSink(a, d) ==
  /\ NextSink \in Ids
  /\ sinks' = [x \in Ids \cap (1 .. NextSink) |->
                 IF x = NextSink THEN [dest |-> d, session |-> sessionID, state |-> "built"]
                                 ELSE sinks[x]]
  /\ job' = [job EXCEPT ![a] = [dest |-> d, sink |-> NextSink, old |-> 0]]
  /\ Goes(a, "start")
  /\ UNCHANGED <<fed, hub, sessionID, sessions>>

StartSink(a) == /\ place[a] = "start"
                /\ Becomes(job[a].sink, "running")
                /\ Goes(a, "take")
                /\ UNCHANGED <<table, fed, hub, sessionID, sessions, todo, want, job>>

\* Mutant: Hub.Add overwrites the registered sink and forgets it.
TakeForgets(a) ==
  /\ place[a] \in {"take", "remove"}
  /\ hub' = [hub EXCEPT ![job[a].dest] = 0]
  /\ IF place[a] = "take" THEN Goes(a, "register") ELSE Returns(a)
  /\ UNCHANGED <<table, sinks, fed, sessionID, sessions, todo, want, job>>

\* The first critical section of Hub.Add, and that of Hub.Remove.
TakeOld(a) ==
  /\ place[a] \in {"take", "remove"}
  /\ LET d == job[a].dest IN
       /\ job' = [job EXCEPT ![a].old = hub[d]]
       /\ hub' = [hub EXCEPT ![d] = 0]
       /\ IF hub[d] # 0 THEN Goes(a, "signal")
          ELSE IF place[a] = "take" THEN Goes(a, "register") ELSE Returns(a)
  /\ UNCHANGED <<table, sinks, fed, sessionID, sessions, todo, want>>

\* Mutants: the old sink is waited for without being signalled, or signalled
\* without being waited for.
SignalNobody(a) == /\ place[a] = "signal"
                   /\ Goes(a, "wait")
                   /\ UNCHANGED <<table, relay, todo, want, job>>
StoppedAtOnce(a) == /\ place[a] = "wait"
                    /\ IF job[a].sink # 0 THEN Goes(a, "register") ELSE Returns(a)
                    /\ UNCHANGED <<table, relay, todo, want, job>>

\* Stop outside the mutex: signal, then wait for the goroutine.
SignalOld(a) == /\ place[a] = "signal"
                /\ Becomes(job[a].old, "stopping")
                /\ Goes(a, "wait")
                /\ UNCHANGED <<table, fed, hub, sessionID, sessions, todo, want, job>>

OldStopped(a) == /\ place[a] = "wait"
                 /\ State(job[a].old) = "ended"
                 /\ IF job[a].sink # 0 THEN Goes(a, "register") ELSE Returns(a)
                 /\ UNCHANGED <<table, relay, todo, want, job>>

\* The second critical section of Hub.Add.
Register(a) == /\ place[a] = "register"
               /\ hub' = [hub EXCEPT ![job[a].dest] = job[a].sink]
               /\ fed' = fed \cup {job[a].sink}
               /\ Returns(a)
               /\ UNCHANGED <<table, sinks, sessionID, sessions, todo, want, job>>

\* A sink that was asked to stop ends when its write in flight returns.
SinkEnds(x) == /\ State(x) = "stopping"
               /\ Becomes(x, "ended")
               /\ UNCHANGED <<table, fed, hub, sessionID, sessions, local>>

-----------------------------------------------------------------------------
\* startSession publishes the id before it lists the enabled destinations.
OpenSession ==
  /\ place["publisher"] = "off" /\ MayBegin("publisher")
  /\ sessions < MaxSessions
  /\ sessions' = sessions + 1
  /\ sessionID' = sessions + 1
  /\ Goes("publisher", "listing")
  /\ UNCHANGED <<table, sinks, fed, hub, todo, want, job>>

\* BuildEnabled: a broken destination is skipped.
ListEnabled ==
  /\ place["publisher"] = "listing"
  /\ \E good \in SUBSET {d \in Dests : table[d] = "enabled"} :
       todo' = [todo EXCEPT !["publisher"] = good]
  /\ Goes("publisher", "adding")
  /\ UNCHANGED <<table, relay, want, job>>

AddNext ==
  /\ place["publisher"] = "adding"
  /\ \E d \in todo["publisher"] :
       /\ BuildSink("publisher", d)
       /\ todo' = [todo EXCEPT !["publisher"] = @ \ {d}]
  /\ UNCHANGED <<table, want>>

AllAdded == /\ place["publisher"] = "adding" /\ todo["publisher"] = {}
            /\ Goes("publisher", "live")
            /\ job' = [job EXCEPT !["publisher"] = NoJob]
            /\ UNCHANGED <<table, relay, todo, want>>

EndSession == /\ place["publisher"] = "live" /\ MayBegin("publisher")
              /\ Goes("publisher", "closing")
              /\ UNCHANGED <<table, relay, todo, want, job>>

\* Hub.Close empties the registry and signals every sink it took out.
CloseHub ==
  /\ place["publisher"] = "closing"
  /\ hub' = [d \in Dests |-> 0]
  /\ sinks' = [x \in DOMAIN sinks |->
                 IF \E d \in Dests : hub[d] = x THEN [sinks[x] EXCEPT !.state = "stopping"]
                                                ELSE sinks[x]]
  /\ Goes("publisher", "grace")
  /\ UNCHANGED <<table, fed, sessionID, sessions, todo, want, job>>

\* All have ended, or the grace has: either way the session is over.
GraceEnds == /\ place["publisher"] = "grace"
             /\ sessionID' = 0
             /\ Goes("publisher", "off")
             /\ UNCHANGED <<table, sinks, fed, hub, sessions, todo, want, job>>

-----------------------------------------------------------------------------
\* A request that writes the enabled flag of some destinations in one transaction:
\* create, patch and toggle write one, toggle-all those that differ.
Update(h, S, e) ==
  /\ place[h] = "idle" /\ MayBegin(h)
  /\ \A d \in S : table[d] # "deleted"
  /\ table' = [d \in Dests |-> IF d \in S THEN e ELSE table[d]]
  /\ want' = [want EXCEPT ![h] = e]
  /\ todo' = [todo EXCEPT ![h] = S]
  /\ Goes(h, "applying")
  /\ UNCHANGED <<relay, job>>

UpdateOne(h) == \E d \in Dests, e \in {"enabled", "disabled"} : Update(h, {d}, e)

ToggleAll(h) ==
  \E e \in {"enabled", "disabled"} :
    Update(h, {d \in Dests : table[d] \in {"enabled", "disabled"} \ {e}}, e)

\* The row goes first, then the sink.
Delete(h, d) ==
  /\ place[h] = "idle" /\ MayBegin(h)
  /\ table[d] \in {"enabled", "disabled"}
  /\ table' = [table EXCEPT ![d] = "deleted"]
  /\ job' = [job EXCEPT ![h] = [NoJob EXCEPT !.dest = d]]
  /\ Goes(h, "removing")
  /\ UNCHANGED <<relay, todo, want>>

\* handleRetryDestination rebuilds the sink of an enabled destination whose sink,
\* registered, has suspended itself.
Retry(h, d) ==
  /\ place[h] = "idle" /\ MayBegin(h)
  /\ liveSession /\ table[d] = "enabled" /\ hub[d] # 0
  /\ want' = [want EXCEPT ![h] = "enabled"]
  /\ todo' = [todo EXCEPT ![h] = {d}]
  /\ Goes(h, "applying")
  /\ UNCHANGED <<table, relay, job>>

\* applyHot, one destination after another.
Skip(h) == \E d \in todo[h] : /\ ~liveSession
                              /\ todo' = [todo EXCEPT ![h] = @ \ {d}]
                              /\ UNCHANGED <<table, relay, place, want, job>>

Switch(h) == \E d \in todo[h] :
               /\ liveSession
               /\ todo' = [todo EXCEPT ![h] = @ \ {d}]
               /\ job' = [job EXCEPT ![h] = [NoJob EXCEPT !.dest = d]]
               /\ Goes(h, IF want[h] = "enabled" THEN "building" ELSE "removing")
               /\ UNCHANGED <<table, relay, want>>

Answer(h) == /\ todo[h] = {}
             /\ Goes(h, "idle")
             /\ job' = [job EXCEPT ![h] = NoJob]
             /\ UNCHANGED <<table, relay, todo, want>>

applyHot(h) == place[h] = "applying" /\ (Skip(h) \/ Switch(h) \/ Answer(h))

\* Build reads the key by the destination's id; a bad URL or a deleted row fails.
Build(h) == /\ place[h] = "building"
            /\ \/ Returns(h) /\ UNCHANGED <<relay, job>>
               \/ table[job[h].dest] # "deleted" /\ BuildSink(h, job[h].dest)
            /\ UNCHANGED <<table, todo, want>>

\* removeHot looks at the session once more.
removeHot(h) == /\ place[h] = "removing"
                /\ IF liveSession THEN Goes(h, "remove") ELSE Returns(h)
                /\ UNCHANGED <<table, relay, todo, want, job>>

-----------------------------------------------------------------------------
HubStep(a) == \/ StartSink(a) \/ TakeOld(a) \/ SignalOld(a) \/ OldStopped(a)
              \/ Register(a)

Works(h) == applyHot(h) \/ Build(h) \/ removeHot(h) \/ HubStep(h)

Request(h) == \/ UpdateOne(h) \/ ToggleAll(h)
              \/ \E d \in Dests : Delete(h, d) \/ Retry(h, d)
              \/ Works(h)

Session == \/ OpenSession \/ ListEnabled \/ AddNext \/ AllAdded \/ EndSession
           \/ CloseHub \/ GraceEnds \/ HubStep("publisher")

HotNext == \/ \E h \in Requests : Request(h)
        \/ Session
        \/ \E x \in DOMAIN sinks : SinkEnds(x)

\* Handlers and the session goroutine run; a write in flight returns, by its own
\* deadline at the latest, and the grace is a timer.
HotFairness == /\ \A h \in Requests : WF_hotVars(Works(h))
            /\ WF_hotVars(CloseHub) /\ WF_hotVars(GraceEnds)
            /\ \A x \in Ids : WF_hotVars(x \in DOMAIN sinks /\ SinkEnds(x))

HotSpec     == HotInit /\ [][HotNext]_hotVars
HotFairSpec == HotSpec /\ HotFairness

-----------------------------------------------------------------------------
HotTypeOK ==
  /\ table \in [Dests -> {"absent", "enabled", "disabled", "deleted"}]
  /\ DOMAIN sinks \subseteq Ids /\ fed \subseteq DOMAIN sinks
  /\ \A x \in DOMAIN sinks :
       sinks[x] \in [dest : Dests, session : 1 .. MaxSessions,
                     state : {"built", "running", "stopping", "ended"}]
  /\ \A d \in Dests : hub[d] \in {0} \cup DOMAIN sinks
  /\ sessionID \in 0 .. MaxSessions /\ sessions \in 0 .. MaxSessions
  /\ \A a \in Processes : todo[a] \subseteq Dests
  /\ want \in [Requests -> {"enabled", "disabled"}]

\* What the hub feeds is running, started before it was registered and stopped
\* only after it was taken out, whoever replaces, removes or closes at the same
\* time: a sink registered without being started "se quedaba en idle acumulando
\* mensajes" (AddSink), and one registered after its stop would drop them all.
RegisteredRuns ==
  \A d \in Dests : hub[d] # 0 => State(hub[d]) = "running" /\ sinks[hub[d]].dest = d

\* Two sinks never write the media of one session to the same destination: the
\* old one has ended before the new one is fed (Hub.Add: "lo para por completo
\* ANTES de registrar el nuevo").
Writes(x) == x \in fed /\ State(x) \in {"running", "stopping"}
NoDoubleWrite ==
  \A x, y \in DOMAIN sinks :
    /\ Writes(x) /\ Writes(y)
    /\ sinks[x].dest = sinks[y].dest /\ sinks[x].session = sinks[y].session
    => x = y

\* No sink runs on between two sessions ("cada sesión de ingesta abre su propia
\* conexión con cada destino", SinkProvider), and nothing that runs is out of
\* everybody's reach: it is registered, or in the hands of the process that adds or
\* stops it.
NoSinkBetweenSessions ==
  sessionID = 0 => \A x \in DOMAIN sinks : State(x) # "running"
NoLostSink ==
  \A x \in DOMAIN sinks :
    State(x) = "running" =>
      \/ hub[sinks[x].dest] = x
      \/ \E a \in Processes : ~Quiet(a) /\ x \in {job[a].sink, job[a].old}

\* Changes made on the air are applied at once: when nothing is in progress, a
\* destination that is off or gone is not fed (manual-de-usuario.md: "Los cambios
\* se aplican al momento").
OffIsOff ==
  (\A a \in Processes : Quiet(a)) =>
    \A d \in Dests : table[d] # "enabled" => hub[d] = 0

\* The sinks that run are those the table and the session ask for.
SinksAccountedFor == HotTypeOK /\ NoSinkBetweenSessions /\ NoLostSink /\ OffIsOff

\* Every request is answered, although it stops sinks outside the mutex and other
\* requests may be stopping theirs.
RequestsAnswered == \A h \in Requests : place[h] # "idle" ~> place[h] = "idle"
=============================================================================
