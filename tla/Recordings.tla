----------------------------- MODULE Recordings -----------------------------
(***************************************************************************)
(* The recordings: the files a session's recorder writes, the rows of the  *)
(* table that account for them, and whoever removes them                   *)
(* (internal/record/writer.go, quota.go; internal/sinks/factory.go         *)
(* BuildRecorder, PruneRecordings, ReconcileRecordings;                    *)
(* internal/store/recordings.go; internal/httpapi/recording.go).           *)
(*                                                                         *)
(* A file is named by the connection that opened it (its time stamp) and   *)
(* its index, the row's segment number; the order of the paths is that of  *)
(* the ids of their rows.  Bytes are counted in units; the header of a     *)
(* file weighs nothing.  What a writer has written is on disk once it is   *)
(* flushed.                                                                *)
(* The recorder is built again only once it is off: RemoveSink and         *)
(* Hub.Close wait for it, and its user waits for the answer.               *)
(***************************************************************************)
EXTENDS Integers, FiniteSets, Functions

CONSTANTS MaxBytes,    \* the quota of the recordings, in units
          CheckEvery,  \* units written between two looks at the quota
          MaxSessions, \* bound: sessions of ingest
          MaxStamps,   \* bound: connections of recorders
          MaxIndex,    \* bound: number of a segment
          MaxJobs,     \* bound: removers at work at once
          MaxUntold    \* bound: rows the database refuses to write

ASSUME RecordingLimits ==
  /\ {MaxBytes, CheckEvery, MaxSessions, MaxStamps, MaxIndex, MaxJobs} \subseteq Nat \ {0}
  /\ MaxUntold \in Nat

Most == MaxBytes + CheckEvery
Path == [stamp : 1..MaxStamps, index : 1..MaxIndex]
Row  == [session : 1..MaxSessions, path : Path, closed : BOOLEAN, bytes : 0..Most]

\* Those who remove recordings: the API, the daily maintenance, and the recorder
\* itself when it is built and there is no room.
Removers == {"request", "daily", "build"}

VARIABLES disk,    \* files: a path and the bytes flushed to it
          rows,    \* the table recordings
          session, \* the session on the air, 0 if none
          last,    \* sessions so far
          place,   \* where the recorder is
          stamp,   \* connections so far; the writer's is the last
          used, index, since, seg, \* the writer: Quota.UsedBytes with what it has written, and its counts
          remover, \* per remover: what it has listed and how far it is
          untold   \* history: files whose row the database refused to write

writer  == <<stamp, used, index, since, seg>>
recVars == <<disk, rows, session, last, place, writer, remover, untold>>

Open   == {"inserting", "writing", "flushing", "finishing",
           "rotateFlushing", "rotateFinishing", "failFlushing", "failFinishing"}
RecorderPlaces == {"off", "build", "pruning", "publisher", "connect", "rotate"} \cup Open
Phases == {"idle", "one", "age", "total", "size"}
\* A remover at the file of the first of its list.
Removing(phase, list, sum) == [phase |-> phase, list |-> list, gone |-> FALSE, sum |-> sum]
Idle == Removing("idle", {}, 0)

RecTypeOK ==
  /\ \A f \in disk : f.path \in Path /\ f.bytes \in 0..Most
  /\ \A f, g \in disk : f.path = g.path => f = g
  /\ rows \subseteq Row
  /\ \A r, t \in rows : r.path = t.path => r = t
  /\ last \in 0..MaxSessions /\ session \in {0, last}
  /\ place \in RecorderPlaces
  /\ stamp \in 0..MaxStamps /\ index \in 0..MaxIndex
  /\ used \in 0..Most /\ since \in 0..CheckEvery /\ seg \in 0..Most
  /\ \A k \in Removers : remover[k].phase \in Phases /\ remover[k].list \subseteq Row
  /\ untold \subseteq Path

RecInit == /\ disk = {} /\ rows = {}
           /\ session = 0 /\ last = 0 /\ place = "off"
           /\ stamp = 0 /\ used = 0 /\ index = 0 /\ since = 0 /\ seg = 0
           /\ remover = [k \in Removers |-> Idle]
           /\ untold = {}

\* The order of the ids, which is that of insertion: ORDER BY id.
Before(p, q) == p.stamp < q.stamp \/ (p.stamp = q.stamp /\ p.index < q.index)
Oldest(S)    == {T \in SUBSET S : \A r \in T, t \in S \ T : Before(r.path, t.path)}
IsHead(r, S) == r \in S /\ \A t \in S \ {r} : Before(r.path, t.path)

TotalBytes  == SumFunction([r \in rows |-> r.bytes])
Closed      == {r \in rows : r.closed}
Dangling    == {r \in rows : ~r.closed}
Busy        == Cardinality({k \in Removers : remover[k].phase # "idle"})
CurrentPath == [stamp |-> stamp, index |-> index]

\* The counts of the writer go with it.
Discard == used' = 0 /\ index' = 0 /\ since' = 0 /\ seg' = 0
Keep    == UNCHANGED <<used, index, since, seg>>

-----------------------------------------------------------------------------
\* A session of ingest starts, with its recorder if recording is on, and ends; the
\* recorder is switched on and off on the air.
StartSession(on) ==
  /\ session = 0 /\ place = "off" /\ last < MaxSessions
  /\ session' = last + 1 /\ last' = last + 1
  /\ place' = IF on THEN "build" ELSE "off"
  /\ UNCHANGED <<disk, rows, writer, remover, untold>>

EndSession == /\ session # 0 /\ place = "off"
              /\ session' = 0
              /\ UNCHANGED <<disk, rows, last, place, writer, remover, untold>>

SwitchOn == /\ session # 0 /\ place = "off"
            /\ place' = "build"
            /\ UNCHANGED <<disk, rows, session, last, writer, remover, untold>>

\* The sink is stopped, by the switch or by the end of the session: the writer is
\* closed, or has nothing open.
Stop == /\ place \in {"publisher", "connect", "writing"}
        /\ IF place = "writing" THEN place' = "flushing" /\ Keep ELSE place' = "off" /\ Discard
        /\ UNCHANGED <<disk, rows, session, last, stamp, remover, untold>>

\* BuildRecorder: with the quota used up, or little room in the file system, it
\* prunes first, and then looks again.
Build(low) ==
  /\ place = "build" /\ Busy < MaxJobs
  /\ IF TotalBytes < MaxBytes /\ ~low
       THEN place' = "publisher" /\ UNCHANGED remover
       ELSE /\ place' = "pruning"
            /\ \E old \in Oldest(Closed) :
                 remover' = [remover EXCEPT !["build"] = Removing("age", old, 0)]
  /\ UNCHANGED <<disk, rows, session, last, writer, untold>>

Pruned(low) ==
  /\ place = "pruning" /\ remover["build"] = Idle
  /\ place' = IF TotalBytes < MaxBytes /\ ~low THEN "publisher" ELSE "off"
  /\ UNCHANGED <<disk, rows, session, last, writer, remover, untold>>

SessionRows == Cardinality({r \in rows : r.session = session})

\* newPub: a writer that knows the bytes used and numbers its segments after the
\* rows of the session.  (If they cannot be counted it numbers from the first: left out.)
NewPub ==
  /\ place = "publisher"
  /\ used' = TotalBytes
  /\ index' = SessionRows /\ index' <= MaxIndex
  /\ place' = "connect"
  /\ UNCHANGED <<disk, rows, session, last, stamp, since, seg, remover, untold>>

\* Mutant: one unit too many.
RoomAtLimit == used <= MaxBytes

Room == used < MaxBytes

\* Connect and rotate: the quota, and then a new file.  A full quota or a file that
\* does not open is an error: the sink waits and builds another writer.
OpenSegment(opens) ==
  /\ place \in {"connect", "rotate"}
  /\ IF Room /\ opens
       THEN /\ index < MaxIndex
            /\ stamp' = IF place = "connect" THEN stamp + 1 ELSE stamp
            /\ stamp' <= MaxStamps
            /\ index' = index + 1 /\ seg' = 0 /\ since' = 0 /\ UNCHANGED used
            /\ disk' = disk \cup {[path |-> [stamp |-> stamp', index |-> index'], bytes |-> 0]}
            /\ place' = "inserting"
       ELSE place' = "publisher" /\ Discard /\ UNCHANGED <<stamp, disk>>
  /\ UNCHANGED <<rows, session, last, remover, untold>>

\* OnOpen: the row of the segment; the writer goes on without it if it fails.
InsertRow(ok) ==
  /\ place = "inserting"
  /\ IF ok
       THEN /\ rows' = rows \cup {[session |-> session, path |-> CurrentPath,
                                closed |-> FALSE, bytes |-> 0]}
            /\ UNCHANGED untold
       ELSE untold' = untold \cup {CurrentPath} /\ UNCHANGED rows
  /\ Cardinality(untold') <= MaxUntold
  /\ place' = "writing"
  /\ UNCHANGED <<disk, session, last, writer, remover>>

Flushed(files) == {IF f.path = CurrentPath THEN [f EXCEPT !.bytes = seg'] ELSE f : f \in files}

\* One unit of media; now and then the buffer is flushed, and every CheckEvery
\* units the quota is looked at.
WriteMedia(flush) ==
  /\ place = "writing"
  /\ seg' = seg + 1 /\ used' = used + 1
  /\ since' = IF since + 1 >= CheckEvery THEN 0 ELSE since + 1
  /\ disk' = IF flush THEN Flushed(disk) ELSE disk
  /\ place' = IF since + 1 >= CheckEvery /\ used + 1 >= MaxBytes
                THEN "failFlushing" ELSE "writing"
  /\ UNCHANGED <<rows, session, last, stamp, index, remover, untold>>

\* A keyframe beyond the segment's length rotates; a failed write ends the writer.
Rotate == /\ place = "writing"
          /\ place' = "rotateFlushing"
          /\ UNCHANGED <<disk, rows, session, last, writer, remover, untold>>
WriteFails == /\ place = "writing"
              /\ place' = "failFlushing"
              /\ UNCHANGED <<disk, rows, session, last, writer, remover, untold>>

\* closeSegment: flush, sync and close, or fail to: a rotation goes no further then ...
FlushSegment(ok) ==
  /\ place \in {"flushing", "rotateFlushing", "failFlushing"}
  /\ UNCHANGED seg
  /\ disk' = IF ok THEN Flushed(disk) ELSE disk
  /\ place' = CASE place = "flushing" -> "finishing"
                [] place = "rotateFlushing" /\ ok -> "rotateFinishing"
                [] OTHER -> "failFinishing"
  /\ UNCHANGED <<rows, session, last, stamp, used, index, since, remover, untold>>

\* ... and OnSegment, which closes the row of that path.
FinishSegment(ok) ==
  /\ place \in {"finishing", "rotateFinishing", "failFinishing"}
  /\ rows' = {IF ok /\ r.path = CurrentPath
                 THEN [r EXCEPT !.closed = TRUE, !.bytes = seg] ELSE r : r \in rows}
  /\ untold' = IF ok THEN untold ELSE untold \cup {CurrentPath}
  /\ Cardinality(untold') <= MaxUntold
  /\ place' = CASE place = "finishing" -> "off"
                [] place = "rotateFinishing" -> "rotate"
                [] place = "failFinishing" -> "publisher"
  /\ IF place = "rotateFinishing" THEN Keep ELSE Discard
  /\ UNCHANGED <<disk, session, last, stamp, remover>>

-----------------------------------------------------------------------------
\* Mutant: the request does not look whether the recording is in progress.
RequestAny ==
  /\ remover["request"] = Idle /\ Busy < MaxJobs
  /\ \E r \in rows : remover' = [remover EXCEPT !["request"] = Removing("one", {r}, 0)]
  /\ UNCHANGED <<disk, rows, session, last, place, writer, untold>>

\* handleDeleteRecording: a recording in progress is refused.
RequestDelete ==
  /\ remover["request"] = Idle /\ Busy < MaxJobs
  /\ \E r \in Closed : remover' = [remover EXCEPT !["request"] = Removing("one", {r}, 0)]
  /\ UNCHANGED <<disk, rows, session, last, place, writer, untold>>

\* The daily maintenance: not while a session is on the air when it starts.  The
\* oldest first, by age: those before some date.
DailyPrune ==
  /\ remover["daily"] = Idle /\ Busy < MaxJobs /\ session = 0
  /\ \E old \in Oldest(Closed) :
       remover' = [remover EXCEPT !["daily"] = Removing("age", old, 0)]
  /\ UNCHANGED <<disk, rows, session, last, place, writer, untold>>

Pending(k) == /\ remover[k].list # {}
              /\ remover[k].phase = "size" => remover[k].sum > MaxBytes

\* The file goes first; one that is already gone counts as removed.
RemoveFile(k) ==
  /\ Pending(k) /\ ~remover[k].gone
  /\ \E r \in remover[k].list : /\ IsHead(r, remover[k].list)
                                /\ disk' = {f \in disk : f.path # r.path}
  /\ remover' = [remover EXCEPT ![k].gone = TRUE]
  /\ UNCHANGED <<rows, session, last, place, writer, untold>>

\* A file or a row that cannot be removed ends its work.
RemoveFails(k) ==
  /\ Pending(k)
  /\ remover' = [remover EXCEPT ![k] = Idle]
  /\ UNCHANGED <<disk, rows, session, last, place, writer, untold>>

\* The row goes when its file is gone.
RemoveRow(k) ==
  /\ Pending(k) /\ remover[k].gone
  /\ \E head \in remover[k].list :
       /\ IsHead(head, remover[k].list)
       /\ rows' = {r \in rows : r.path # head.path}
       /\ remover' = [remover EXCEPT ![k] = Removing(@.phase, @.list \ {head}, @.sum - head.bytes)]
  /\ UNCHANGED <<disk, session, last, place, writer, untold>>

\* After the old ones, the oldest while all together weigh more than the quota.
NextPhase(k) ==
  /\ remover[k].phase \in {"one", "age", "size"} /\ ~Pending(k)
  /\ remover' = [remover EXCEPT ![k] =
               IF @.phase = "age" /\ TotalBytes > MaxBytes
                 THEN Removing("total", {}, TotalBytes)
                 ELSE Idle]
  /\ UNCHANGED <<disk, rows, session, last, place, writer, untold>>

ListBySize(k) ==
  /\ remover[k].phase = "total"
  /\ remover' = [remover EXCEPT ![k] = Removing("size", Closed, @.sum)]
  /\ UNCHANGED <<disk, rows, session, last, place, writer, untold>>

\* kill -9 and the next start: what was not flushed is lost, and ReconcileRecordings
\* closes the rows left open with the size of their file, or removes them; an error
\* of the database leaves the rest as they are and does not stop the program.
HasFile(r)    == \E f \in disk : f.path = r.path
Reconciled(r) == [r EXCEPT !.closed = TRUE,
                           !.bytes = (CHOOSE f \in disk : f.path = r.path).bytes]

\* Mutant: a row left open is removed, its file or not.
RestartForgets ==
  /\ session' = 0 /\ place' = "off" /\ remover' = [k \in Removers |-> Idle]
  /\ rows' = Closed
  /\ untold' = untold \cup (IF place = "inserting" THEN {CurrentPath} ELSE {})
  /\ Discard /\ UNCHANGED <<disk, last, stamp>>

Restart ==
  /\ session' = 0 /\ place' = "off" /\ remover' = [k \in Removers |-> Idle]
  /\ \E done \in Oldest(Dangling) :
       /\ rows' = (rows \ done) \cup {Reconciled(r) : r \in {d \in done : HasFile(d)}}
       /\ untold' = untold \cup {r.path : r \in Dangling \ done}
                           \cup (IF place = "inserting" THEN {CurrentPath} ELSE {})
  /\ Cardinality(untold') <= MaxUntold
  /\ Discard /\ UNCHANGED <<disk, last, stamp>>

-----------------------------------------------------------------------------
Record == \/ NewPub \/ Rotate \/ WriteFails
          \/ \E b \in BOOLEAN : Build(b) \/ Pruned(b) \/ OpenSegment(b) \/ InsertRow(b)
                               \/ WriteMedia(b) \/ FlushSegment(b) \/ FinishSegment(b)
Removal == \/ RequestDelete \/ DailyPrune
          \/ \E k \in Removers : \/ RemoveFile(k) \/ RemoveFails(k) \/ RemoveRow(k)
                                 \/ NextPhase(k) \/ ListBySize(k)

RecNext == \/ \E on \in BOOLEAN : StartSession(on)
           \/ EndSession \/ SwitchOn \/ Stop
           \/ Record \/ Removal \/ Restart

RecSpec == RecInit /\ [][RecNext]_recVars

-----------------------------------------------------------------------------
\* Whoever removes recordings takes its list before it removes anything, while the
\* recorder opens, rotates and closes: nobody ever removes the file being written
\* (store/recordings.go:178-224, httpapi/recording.go:228-254).
LiveFileKept == place \in Open => \E f \in disk : f.path = CurrentPath

\* Every file is the one being written, or weighs on the quota with at least its size,
\* whatever the order of closing, removing, failing and restarting; but for the files
\* whose row the database refused.  The row of a file is never removed before the
\* file ("a visible orphan row rather than an invisible orphan file",
\* store/recordings.go:176-177), and a start adds up the last one's rest.
Accounted ==
  \A f \in disk : \/ f.path \in untold
                   \/ (place \in Open /\ f.path = CurrentPath)
                   \/ \E r \in Closed : r.path = f.path /\ r.bytes >= f.bytes

\* Over sessions, reconnections, rotations and restarts, the recordings together never
\* pass the quota by more than what is written between two looks at it.
OnDisk     == SumFunction([f \in disk |-> f.bytes])
QuotaBound == untold = {} => OnDisk < MaxBytes + CheckEvery

\* A session has no two rows with one number: what FirstIndex is for
\* (record/writer.go:50-55).
SegmentsNumberedOnce ==
  untold = {} => \A r, t \in rows :
                    r.session = t.session /\ r.path.index = t.path.index => r = t
=============================================================================
