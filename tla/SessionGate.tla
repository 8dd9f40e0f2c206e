----------------------------- MODULE SessionGate -----------------------------
(***************************************************************************)
(* Who is on the air: the admission of publishers and the life of a        *)
(* session row (internal/relay/engine.go OnPublishStart, startSession,     *)
(* OnPublishEnd, WaitIdle; internal/rtmpio/ingest.go; the entry of the     *)
(* browser camera in internal/httpapi/camera.go; the rotation of the       *)
(* ingest key in internal/httpapi/ingest.go; the shutdown of               *)
(* cmd/splitstream/main.go).                                               *)
(*                                                                         *)
(* A publisher is one connection and one goroutine; its place is the point *)
(* of that goroutine between two critical sections of the engine's mutex   *)
(* or two writes to the database.                                          *)
(***************************************************************************)
EXTENDS Integers, FiniteSets

CONSTANTS Encoders, \* RTMP connections
          Cameras,  \* camera WebSockets
          MaxRows,  \* bound: sessions opened
          MaxKeys   \* bound: rotations of the ingest key

Publishers == Encoders \cup Cameras

ASSUME PublisherKinds == Encoders \cap Cameras = {}
ASSUME GateBounds == MaxRows \in Nat /\ MaxKeys \in Nat

VARIABLES
  place,      \* where each publisher is
  row,        \* the session id its goroutine holds, 0 before it has one
  usedKey,    \* history: the ingest key an encoder was validated with
  gone,       \* publishers whose transport the server has closed
  sessionID, arrancando, \* Engine
  nextRow, open, \* the sessions table: next id, rows whose ended_at is NULL
  lost,       \* history: rows FinishSession failed to close
  key, cutKey, \* the ingest key, and the one of the last rotation with disconnect_now
  rotator,    \* where handleRotateIngestKey is
  shutdown    \* where main's shutdown is

engine == <<sessionID, arrancando>>
table  == <<nextRow, open, lost>>
keys   == <<key, cutKey, rotator>>
vars   == <<place, row, usedKey, gone, engine, table, keys, shutdown>>

Starting == {"opening", "opened", "connecting"} \* places inside startSession
OnAir    == Starting \cup {"publishing", "ending", "finished"}
Places   == OnAir \cup {"out", "arrived", "validating", "entering"}

Init == /\ place = [p \in Publishers |-> "out"]
        /\ row = [p \in Publishers |-> 0]
        /\ usedKey = [p \in Publishers |-> 0]
        /\ gone = {}
        /\ sessionID = 0 /\ arrancando = FALSE
        /\ nextRow = 1 /\ open = {} /\ lost = {}
        /\ key = 1 /\ cutKey = 0 /\ rotator = "idle"
        /\ shutdown = "up"

Alive == shutdown # "exited"

At(p, here) == Alive /\ place[p] = here

Moves(p, there) == place' = [place EXCEPT ![p] = there]

-----------------------------------------------------------------------------
\* A connection is accepted and tracked; one that arrives late is closed at once.
IngestClosed == shutdown \notin {"up", "signalled"}

Arrive(p) ==
  /\ At(p, "out")
  /\ p \in Cameras => shutdown = "up" \* the panel accepts no new request
  /\ Moves(p, IF p \in Encoders THEN "arrived" ELSE "entering")
  /\ gone' = IF IngestClosed THEN gone \cup {p} ELSE gone \ {p}
  /\ UNCHANGED <<row, usedKey, engine, table, keys, shutdown>>

\* Mutant: only a session that is starting makes the engine busy.
BusyWhileOpening == arrancando

\* startSession, OnPublishStart: the engine is taken.
Busy == sessionID # 0 \/ arrancando

\* The connection ends before it publishes: refused, or left by the other side.  An
\* encoder inside startSession can only be refused.
Depart(p) ==
  /\ \/ At(p, "arrived")
     \/ At(p, "validating")
     \/ At(p, "entering") /\ (p \in Encoders => Busy)
  /\ Moves(p, "out")
  /\ gone' = gone \ {p}
  /\ UNCHANGED <<row, usedKey, engine, table, keys, shutdown>>

\* OnPublishStart: the first look at the session, refused by Depart otherwise.
OnPublishStart(p) ==
  /\ At(p, "arrived")
  /\ sessionID = 0
  /\ Moves(p, "validating")
  /\ UNCHANGED <<row, usedKey, gone, engine, table, keys, shutdown>>

\* The validator reads the key from the database with the context of the process.
Validate(p) ==
  /\ At(p, "validating")
  /\ shutdown = "up"
  /\ usedKey' = [usedKey EXCEPT ![p] = key]
  /\ Moves(p, "entering")
  /\ UNCHANGED <<row, gone, engine, table, keys, shutdown>>

\* startSession, first critical section.
StartSession(p) ==
  /\ At(p, "entering")
  /\ ~Busy
  /\ arrancando' = TRUE
  /\ Moves(p, "opening")
  /\ UNCHANGED <<row, usedKey, gone, sessionID, table, keys, shutdown>>

\* store.StartSession inserts the row, or fails and the deferred function releases.
OpenRow(p) ==
  /\ At(p, "opening")
  /\ nextRow <= MaxRows
  /\ open' = open \cup {nextRow}
  /\ nextRow' = nextRow + 1
  /\ row' = [row EXCEPT ![p] = nextRow]
  /\ Moves(p, "opened")
  /\ UNCHANGED <<usedKey, gone, engine, lost, keys, shutdown>>

OpenRowFails(p) ==
  /\ At(p, "opening")
  /\ arrancando' = FALSE
  /\ Moves(p, "out")
  /\ gone' = gone \ {p}
  /\ UNCHANGED <<row, usedKey, sessionID, table, keys, shutdown>>

SetSession(p) ==
  /\ At(p, "opened")
  /\ sessionID' = row[p]
  /\ Moves(p, "connecting")
  /\ UNCHANGED <<row, usedKey, gone, arrancando, table, keys, shutdown>>

\* The sinks are added (module HotApply) and the deferred function runs.
Admitted(p) ==
  /\ At(p, "connecting")
  /\ arrancando' = FALSE
  /\ Moves(p, "publishing")
  /\ UNCHANGED <<row, usedKey, gone, sessionID, table, keys, shutdown>>

\* Mutants of OnPublishEnd: the id is cleared before the row is written; the row is
\* not written.
EndClearsFirst(p) ==
  /\ At(p, "publishing")
  /\ row' = [row EXCEPT ![p] = sessionID]
  /\ sessionID' = 0
  /\ Moves(p, "ending")
  /\ UNCHANGED <<usedKey, gone, arrancando, table, keys, shutdown>>
EndUnwritten(p) ==
  /\ At(p, "publishing")
  /\ row' = [row EXCEPT ![p] = sessionID]
  /\ Moves(p, IF sessionID = 0 THEN "out" ELSE "finished")
  /\ UNCHANGED <<usedKey, gone, engine, table, keys, shutdown>>

\* OnPublishEnd: the connection ended, by itself or because it was closed.
OnPublishEnd(p) ==
  /\ At(p, "publishing")
  /\ row' = [row EXCEPT ![p] = sessionID]
  /\ Moves(p, IF sessionID = 0 THEN "out" ELSE "ending")
  /\ UNCHANGED <<usedKey, gone, engine, table, keys, shutdown>>

FinishSession(p) ==
  /\ At(p, "ending")
  /\ \/ open' = open \ {row[p]} /\ UNCHANGED lost
     \/ lost' = lost \cup {row[p]} /\ UNCHANGED open
  /\ Moves(p, "finished")
  /\ UNCHANGED <<row, usedKey, gone, engine, nextRow, keys, shutdown>>

\* Mutant: a row that could not be written keeps the session.
ClearWritten(p) ==
  /\ At(p, "finished")
  /\ row[p] \notin open
  /\ sessionID' = 0
  /\ row' = [row EXCEPT ![p] = 0]
  /\ Moves(p, "out")
  /\ gone' = gone \ {p}
  /\ UNCHANGED <<usedKey, arrancando, table, keys, shutdown>>

\* hub.Close has returned; the id is cleared last.
ClearSession(p) ==
  /\ At(p, "finished")
  /\ sessionID' = 0
  /\ row' = [row EXCEPT ![p] = 0]
  /\ Moves(p, "out")
  /\ gone' = gone \ {p}
  /\ UNCHANGED <<usedKey, arrancando, table, keys, shutdown>>

-----------------------------------------------------------------------------
\* handleRotateIngestKey: the new key is stored, then the publishers are cut.
RotateKey == /\ Alive /\ shutdown = "up"
             /\ rotator = "idle" /\ key < MaxKeys
             /\ key' = key + 1
             /\ rotator' \in {"idle", "cutting"} \* disconnect_now
             /\ UNCHANGED <<place, row, usedKey, gone, engine, table, cutKey, shutdown>>

\* Mutant: only the connection on the air is closed.
TrackedOnAir == {p \in Encoders : place[p] \in OnAir}

\* DisconnectPublisher closes every tracked connection and keeps listening.
Tracked == {p \in Encoders : place[p] # "out"}

DisconnectPublisher ==
  /\ Alive /\ rotator = "cutting"
  /\ gone' = gone \cup Tracked
  /\ rotator' = "idle" /\ cutKey' = key
  /\ UNCHANGED <<place, row, usedKey, engine, table, key, shutdown>>

-----------------------------------------------------------------------------
\* main: signal, (HTTP Shutdown), ingest.Close, DisconnectCameras, WaitIdle, exit.
ShutdownStep(from, to) == /\ shutdown = from
                          /\ shutdown' = to
                          /\ UNCHANGED <<place, row, usedKey, engine, table, keys>>

Signal      == ShutdownStep("up", "signalled") /\ UNCHANGED gone
CloseIngest == ShutdownStep("signalled", "ingestClosed") /\ gone' = gone \cup Tracked
DisconnectCameras ==
  /\ ShutdownStep("ingestClosed", "waiting")
  /\ gone' = gone \cup {p \in Cameras : place[p] # "out"}

\* WaitIdle polls SessionID, for five seconds at most.
WaitIdle    == sessionID = 0 /\ ShutdownStep("waiting", "idle") /\ UNCHANGED gone
WaitIdleTimesOut == ShutdownStep("waiting", "late") /\ UNCHANGED gone
Exit        == /\ \E from \in {"idle", "late"} : ShutdownStep(from, "exited")
               /\ UNCHANGED gone

-----------------------------------------------------------------------------
\* What the goroutine of a publisher does once it is inside startSession, or when
\* its connection is gone; it never depends on the other side.
Proceeds(p) == \/ OpenRow(p) \/ OpenRowFails(p) \/ SetSession(p) \/ Admitted(p)
               \/ FinishSession(p) \/ ClearSession(p)

Publish(p) == \/ Arrive(p) \/ Depart(p) \/ OnPublishStart(p)
              \/ (p \in Encoders /\ Validate(p))
              \/ StartSession(p) \/ OnPublishEnd(p) \/ Proceeds(p)

Main == \/ Signal \/ CloseIngest \/ DisconnectCameras
        \/ WaitIdle \/ WaitIdleTimesOut \/ Exit

Next == \/ \E p \in Publishers : Publish(p)
        \/ RotateKey \/ DisconnectPublisher
        \/ Main

\* A goroutine that holds the session goes on; a closed transport ends the read
\* loop; main never stops half-way through the shutdown.
Fairness == /\ \A p \in Publishers : /\ WF_vars(Proceeds(p))
                                     /\ WF_vars(p \in gone /\ OnPublishEnd(p))
            /\ WF_vars(CloseIngest) /\ WF_vars(DisconnectCameras)
            /\ WF_vars(WaitIdle \/ WaitIdleTimesOut) /\ WF_vars(Exit)

Spec     == Init /\ [][Next]_vars
FairSpec == Spec /\ Fairness

-----------------------------------------------------------------------------
TypeOK == /\ place \in [Publishers -> Places]
          /\ row \in [Publishers -> Nat]
          /\ usedKey \in [Publishers -> Nat]
          /\ gone \subseteq Publishers
          /\ sessionID \in Nat /\ arrancando \in BOOLEAN
          /\ nextRow \in Nat \ {0}
          /\ open \subseteq 1 .. (nextRow - 1)
          /\ lost \subseteq 1 .. (nextRow - 1)
          /\ key \in Nat /\ cutKey \in Nat /\ rotator \in {"idle", "cutting"}
          /\ shutdown \in {"up", "signalled", "ingestClosed", "waiting",
                           "idle", "late", "exited"}

\* Two publishers are never on the air together, although the mutex is released
\* for the validation, for the database and for the sinks: their frames would be
\* mixed in one output stream (ErrSessionInProgress), and two simultaneous starts
\* would leave two open rows (Engine.arrancando).
OneSource == \A p, q \in Publishers :
               place[p] \in OnAir /\ place[q] \in OnAir => p = q

\* Every open row belongs to the publisher on the air, unless closing it failed:
\* a session cannot end with the row of another, nor leave one behind.
RowsHaveOwners ==
  \A r \in open : r \in lost \/ \E p \in Publishers : place[p] \in OnAir /\ row[p] = r

\* The engine reports the session of the publisher on the air for as long as its
\* row has to be written: that is what lets WaitIdle wait for FinishSession.
SessionCoversWrites ==
  \A p \in Publishers :
    place[p] \in OnAir \ Starting => sessionID = row[p] /\ sessionID # 0

\* Rotating the ingest key with disconnect_now leaves no publisher validated with
\* an older key on a live connection ("hay que echar a quien está publicando con
\* la clave vieja"), the ones caught in the middle of their admission included.
OldKeyIsOut ==
  \A p \in Encoders :
    place[p] \in OnAir \cup {"entering"} => usedKey[p] >= cutKey \/ p \in gone

\* A publisher whose connection the server closed releases the engine.
CutPublisherLeaves ==
  \A p \in Publishers :
    p \in gone /\ place[p] = "publishing" ~> place[p] = "out" \/ shutdown = "exited"

\* WaitIdle: "Salir antes deja la sesión abierta para siempre con ended_at en NULL".
IdleExitIsClean ==
  [][shutdown = "idle" /\ shutdown' = "exited" => open \subseteq lost]_vars

\* The interleavings of the code add nothing to the sequential promise of Airtime.
Promise == INSTANCE Airtime WITH
             Rows <- 1 .. MaxRows,
             holders <- {p \in Publishers : place[p] \in OnAir},
             current <- {row[p] : p \in {q \in Publishers : place[q] \in OnAir}} \ {0}

OneSessionAtATime == Promise!Spec
=============================================================================
