--------------------------- MODULE RequestsProofs ---------------------------
(***************************************************************************)
(* The machines driven by requests, for every value of their constants:    *)
(* accounts being connected (AuthInv), broadcasts and their rows (BcInv),  *)
(* destinations edited on the air (HotInv), and the tokens of an account   *)
(* (TokenInv).  Each has a lemma per action, and the properties the runs   *)
(* check follow from its invariant.                                        *)
(*                                                                         *)
(* Of HotInv, one part holds whoever asks, and Orderly if there is one     *)
(* user: then one process is at work at a time, and what the others left   *)
(* behind is registered.                                                   *)
(*                                                                         *)
(* The invariants of the tokens lean on each other: that what is stored is *)
(* usable needs the single flight (a second leader would rotate past an    *)
(* answer not yet written), and both need the order of the generations:    *)
(* nobody holds a pair newer than the platform's, and an answer about to   *)
(* be written is exactly the platform's.                                   *)
(***************************************************************************)
EXTENDS AuthFlows, Broadcasts, HotApply, AccessTokens, SetFacts

FlowStates == [step : {"none", "counted", "begun"}, status : {"none"} \cup Vivo \cup Outcomes,
               poll : {"off", "asking", "spent", "saving"}, left : -(Grace + 1)..TTL]

\* An entry that is not in the map stands for no flow.  Whoever polls has a pending flow
\* whose code has not been good for nothing longer than a step; a pending one has been
\* neither exchanged nor connected; and an outcome tells whether it was connected.
FlowSound(f) ==
  /\ ~There(f) => /\ flow[f].status = "none" /\ flow[f].poll = "off"
                  /\ exchanges[f] = 0 /\ f \notin connected
  /\ There(f) => flow[f].status # "none"
  /\ flow[f].poll # "off" => flow[f].status = "pending" /\ ~redirect /\ flow[f].left >= 0
  /\ flow[f].status = "pending" => exchanges[f] = 0 /\ f \notin connected
  /\ exchanges[f] =< 1
  /\ flow[f].status \in Outcomes => (flow[f].status = "done" <=> f \in connected)

\* A callback at work holds its flow, which has been expired for no longer than the
\* callback's own timeout.
VisitSound(v) ==
  visit[v] # Nowhere =>
    /\ redirect /\ visit[v].flow \in Flows /\ visit[v].at # "away"
    /\ flow[visit[v].flow].status = "exchanging"
    /\ flow[visit[v].flow].left >= visit[v].left - Exchange
    /\ visit[v].at = "claimed" => exchanges[visit[v].flow] = 0
    /\ visit[v].flow \in connected <=> visit[v].at = "subscribing"

Apart == \A v, w \in Visits : v # w /\ visit[v] # Nowhere /\ visit[w] # Nowhere =>
                                visit[v].flow # visit[w].flow

\* The flows that take a place, counted or alive.
Taken == Alive \cup Starting
Room  == Cardinality(Taken) =< MaxLive + MaxStarts - 1

Parts == /\ \A f \in Flows : FlowSound(f)
         /\ \A v \in Visits : VisitSound(v)
         /\ Apart
AuthInv == AuthTypeOK /\ Parts /\ Room

\* The ranges of the variables, with a flow as a record of its fields.
LEMMA AuthTypes ==
  AuthTypeOK => /\ flow \in [Flows -> FlowStates]
                /\ exchanges \in [Flows -> Nat]
                /\ connected \in SUBSET Flows
                /\ visit \in [Visits -> [at : {"away", "claimed", "saving", "subscribing"},
                                         flow : Flows \cup {"none"}, left : 0..Exchange]]
                /\ TTL \in Nat /\ Exchange \in Nat /\ Grace \in Nat /\ Exchange < Grace
                /\ MaxLive \in Nat /\ MaxLive > 0 /\ MaxStarts \in Nat
BY AuthConstants DEF AuthTypeOK, FlowStates

\* An entry that is not in the map, and a callback that is not at work.
LEMMA UnbornState == Unborn \in FlowStates /\ Nowhere \in [at : {"away"}, flow : {"none"}, left : {0}]
BY AuthConstants DEF Unborn, FlowStates, Nowhere, Vivo

\* The flows that take a place can be counted.
LEMMA TakenFinite == IsFiniteSet(Taken) /\ Cardinality(Taken) \in Nat
<1>1. Taken \in SUBSET Flows
  BY DEF Taken, Alive, Starting
<1> QED BY <1>1, AuthConstants, FS_Subset, FS_CardinalityType

\* A step after which no more flows take a place keeps the bound.
LEMMA FewerTaken ==
  ASSUME AuthTypeOK, Room, Taken' \in SUBSET Taken
  PROVE  Room'
<1>1. IsFiniteSet(Taken') /\ Cardinality(Taken') =< Cardinality(Taken)
  BY TakenFinite, FS_Subset
<1>2. Cardinality(Taken') \in Nat
  BY <1>1, FS_CardinalityType
<1> QED BY <1>1, <1>2, TakenFinite, AuthTypes DEF Room

\* Nobody is at work on a flow that is swept.
LEMMA SweptApart ==
  ASSUME AuthInv, NEW f \in Old
  PROVE  /\ flow[f].poll = "off" /\ There(f)
         /\ \A v \in Visits : visit[v] # Nowhere => visit[v].flow # f
<1>1. f \in Flows /\ There(f) /\ flow[f].left < -Grace /\ flow[f].left \in Int
  BY AuthTypes DEF Old, AuthInv, FlowStates
<1>2. flow[f].poll = "off"
  BY <1>1, AuthTypes DEF AuthInv, Parts, FlowSound
<1>3. ASSUME NEW v \in Visits, visit[v] # Nowhere, visit[v].flow = f PROVE FALSE
  BY <1>1, <1>3, AuthTypes DEF AuthInv, Parts, VisitSound
<1> QED BY <1>1, <1>2, <1>3

\* No flow has begun.
LEMMA AuthInitInv == AuthInit => AuthInv
<1> SUFFICES ASSUME AuthInit PROVE AuthInv
  OBVIOUS
<1>1. AuthTypeOK
  <2>1. flow \in [Flows -> FlowStates] /\ exchanges \in [Flows -> Nat]
    BY UnbornState DEF AuthInit
  <2>2. visit \in [Visits -> [at : {"away", "claimed", "saving", "subscribing"},
                              flow : Flows \cup {"none"}, left : 0..Exchange]]
    BY AuthConstants DEF AuthInit, Nowhere
  <2> QED BY <2>1, <2>2 DEF AuthInit, AuthTypeOK, FlowStates
<1>2. Parts
  BY DEF AuthInit, Parts, FlowSound, VisitSound, Apart, There, Unborn, Outcomes
<1>3. Room
  <2>1. Taken = {}
    BY DEF Taken, Alive, Starting, AuthInit, Unborn, Vivo
  <2> QED BY <1>1, <2>1, FS_EmptySet, AuthTypes DEF Room
<1> QED BY <1>1, <1>2, <1>3 DEF AuthInv

\* A change of one flow that no visit is about.
LEMMA OneFlowKeeps ==
  ASSUME AuthInv, NEW f \in Flows, NEW r \in FlowStates, flow' = [flow EXCEPT ![f] = r],
         UNCHANGED <<redirect, visit, ended, exchanges>>,
         connected' \in SUBSET Flows, \A g \in Flows \ {f} : g \in connected' <=> g \in connected,
         \A v \in Visits : visit[v] # Nowhere => visit[v].flow # f,
         FlowSound(f)', f \in Taken' => f \in Taken
  PROVE  AuthInv'
<1>1. /\ flow \in [Flows -> FlowStates]
      /\ flow' \in [Flows -> FlowStates] /\ flow'[f] = r
      /\ \A g \in Flows \ {f} : flow'[g] = flow[g]
  BY AuthTypes DEF AuthInv
<1>2. AuthTypeOK'
  BY <1>1 DEF AuthInv, AuthTypeOK, FlowStates
<1>3. \A g \in Flows : FlowSound(g)'
  BY <1>1 DEF AuthInv, Parts, FlowSound, There
<1>4. \A v \in Visits : VisitSound(v)'
  BY <1>1 DEF AuthInv, Parts, VisitSound
<1>5. Apart'
  BY DEF AuthInv, Parts, Apart
<1>6. Taken' \in SUBSET Taken
  BY <1>1 DEF Taken, Alive, Starting, Old, There
<1>7. Room'
  BY <1>6, FewerTaken DEF AuthInv
<1> QED BY <1>2, <1>3, <1>4, <1>5, <1>7 DEF AuthInv, Parts

\* A sweep, with whatever it puts in the place of an entry nobody is at work on.
LEMMA MapKeeps ==
  ASSUME AuthInv, NEW gone \in SUBSET Flows, NEW f \in Flows, NEW r \in FlowStates,
         Map(gone, f, r), UNCHANGED <<redirect, visit, ended>>, Old \subseteq gone,
         \A g \in gone : \A v \in Visits : visit[v] # Nowhere => visit[v].flow # g,
         \/ r = flow[f]
         \/ r = [Unborn EXCEPT !.step = "counted"] /\ ~There(f)
  PROVE  AuthTypeOK' /\ Parts' /\ Taken' \in SUBSET Taken \cup {f}
                     /\ (r = flow[f] => Taken' \in SUBSET Taken)
<1>0. /\ flow \in [Flows -> FlowStates] /\ exchanges \in [Flows -> Nat]
      /\ connected \in SUBSET Flows
  BY AuthTypes DEF AuthInv
<1>1. /\ flow' = [g \in Flows |-> IF g \in gone THEN Unborn ELSE IF g = f THEN r ELSE flow[g]]
      /\ connected' = connected \ gone
      /\ exchanges' = [g \in Flows |-> IF g \in gone THEN 0 ELSE exchanges[g]]
  BY DEF Map
<1>2. /\ flow' \in [Flows -> FlowStates] /\ exchanges' \in [Flows -> Nat]
      /\ connected' \in SUBSET Flows
  BY <1>0, <1>1, UnbornState
<1>3. AuthTypeOK'
  BY <1>2 DEF AuthInv, AuthTypeOK, FlowStates
<1>4. ASSUME NEW g \in Flows PROVE FlowSound(g)'
  <2>1. CASE g \in gone
    BY <1>1, <2>1 DEF FlowSound, There, Unborn, Outcomes
  <2>2. CASE g \notin gone /\ flow'[g] = flow[g]
    <3>1. exchanges'[g] = exchanges[g] /\ (g \in connected' <=> g \in connected)
      BY <1>1, <2>2
    <3> QED BY <2>2, <3>1 DEF AuthInv, Parts, FlowSound, There
  <2>3. CASE g = f /\ g \notin gone /\ r = [Unborn EXCEPT !.step = "counted"] /\ ~There(f)
    <3>1. flow'[g] = r /\ exchanges'[g] = 0 /\ g \notin connected'
      BY <1>1, <2>3 DEF AuthInv, Parts, FlowSound
    <3> QED BY <2>3, <3>1 DEF FlowSound, There, Unborn, Outcomes
  <2> QED BY <1>1, <2>1, <2>2, <2>3
<1>5. ASSUME NEW v \in Visits PROVE VisitSound(v)'
  <2> SUFFICES ASSUME visit[v] # Nowhere PROVE VisitSound(v)'
    BY DEF VisitSound
  <2> DEFINE g == visit[v].flow
  <2>1. g \in Flows /\ g \notin gone /\ flow[g].status = "exchanging"
    BY DEF AuthInv, Parts, VisitSound
  <2>2. There(g)
    BY <2>1 DEF AuthInv, Parts, FlowSound
  <2>3. flow'[g] = flow[g] /\ exchanges'[g] = exchanges[g] /\ (g \in connected' <=> g \in connected)
    BY <1>1, <2>1, <2>2
  <2> QED BY <2>3 DEF AuthInv, Parts, VisitSound
<1>6. Apart'
  BY DEF AuthInv, Parts, Apart
<1>7. ASSUME NEW g \in Taken', g # f \/ r = flow[f] PROVE g \in Taken
  <2>1. g \in Flows /\ g \notin gone
    BY <1>1, <1>7 DEF Taken, Alive, Starting, Unborn, Vivo
  <2>2. flow'[g] = flow[g]
    BY <1>1, <1>7, <2>1
  <2> QED BY <1>7, <2>1, <2>2 DEF Taken, Alive, Starting, Old, There
<1> QED BY <1>3, <1>4, <1>5, <1>6, <1>7 DEF Parts

\* handleStartAuth: whoever starts a flow has counted the live ones; the starts under way
\* may pass the limit by one less than there are of them.
LEMMA CountsKeeps == ASSUME AuthInv, NEW f \in Flows, Counts(f) PROVE AuthInv'
<1> DEFINE r == [Unborn EXCEPT !.step = "counted"]
<1>1. /\ r \in FlowStates /\ ~There(f) /\ Old \in SUBSET Flows
      /\ Map(Old, f, r) /\ UNCHANGED <<redirect, visit, ended>>
      /\ Cardinality(Starting) < MaxStarts /\ Cardinality(Alive) < MaxLive
  <2>1. r \in FlowStates
    BY UnbornState DEF FlowStates, Unborn
  <2> QED BY <2>1 DEF Counts, There, Old
<1>2. /\ AuthTypeOK' /\ Parts' /\ Taken' \in SUBSET (Taken \cup {f})
  <2> HIDE DEF r
  <2>1. \A g \in Old : \A v \in Visits : visit[v] # Nowhere => visit[v].flow # g
    BY SweptApart
  <2> QED BY <1>1, <2>1, MapKeeps DEF r
<1>3. Room'
  <2>1. IsFiniteSet(Alive) /\ IsFiniteSet(Starting)
    <3>1. Alive \in SUBSET Flows /\ Starting \in SUBSET Flows
      BY DEF Alive, Starting
    <3> QED BY <3>1, AuthConstants, FS_Subset
  <2>2. Cardinality(Taken) = Cardinality(Alive) + Cardinality(Starting) - Cardinality(Alive \cap Starting)
    BY <2>1, FS_Union DEF Taken
  <2>3. Cardinality(Alive) \in Nat /\ Cardinality(Starting) \in Nat
        /\ Cardinality(Alive \cap Starting) \in Nat
    <3>1. Alive \cap Starting \in SUBSET Alive
      OBVIOUS
    <3>2. IsFiniteSet(Alive \cap Starting)
      BY <2>1, <3>1, FS_Subset
    <3> QED BY <2>1, <3>2, FS_CardinalityType
  <2>4. IsFiniteSet(Taken \cup {f}) /\ Cardinality(Taken \cup {f}) =< Cardinality(Taken) + 1
        /\ Cardinality(Taken \cup {f}) \in Nat
    <3>1. IsFiniteSet(Taken \cup {f})
          /\ Cardinality(Taken \cup {f}) = IF f \in Taken THEN Cardinality(Taken) ELSE Cardinality(Taken) + 1
      BY TakenFinite, FS_AddElement
    <3> QED BY <3>1, TakenFinite, FS_CardinalityType
  <2>5. IsFiniteSet(Taken') /\ Cardinality(Taken') =< Cardinality(Taken \cup {f})
    BY <1>2, <2>4, FS_Subset
  <2>6. Cardinality(Taken') \in Nat
    BY <2>5, FS_CardinalityType
  <2>7. MaxLive \in Nat /\ MaxStarts \in Nat
    BY AuthTypes DEF AuthInv
  <2> QED BY <1>1, <2>2, <2>3, <2>4, <2>5, <2>6, <2>7, TakenFinite DEF Room
<1> QED BY <1>2, <1>3 DEF AuthInv

\* The answer to the panel puts the flow in the map.
LEMMA TellsKeeps == ASSUME AuthInv, NEW f \in Flows, Tells(f) PROVE AuthInv'
<1> DEFINE gone == IF flow[f].status \in Vivo THEN Old ELSE Old \cup {f}
<1>1. Map(gone, f, flow[f]) /\ UNCHANGED <<redirect, visit, ended>> /\ flow[f] \in FlowStates
  BY AuthTypes DEF Tells, AuthInv
<1>2. gone \in SUBSET Flows /\ Old \subseteq gone
  BY DEF Old
<1>3. \A g \in gone : \A v \in Visits : visit[v] # Nowhere => visit[v].flow # g
  <2>1. \A g \in Old : \A v \in Visits : visit[v] # Nowhere => visit[v].flow # g
    BY SweptApart
  <2>2. flow[f].status \notin Vivo => \A v \in Visits : visit[v] # Nowhere => visit[v].flow # f
    BY DEF AuthInv, Parts, VisitSound, Vivo
  <2> QED BY <2>1, <2>2
<1> HIDE DEF gone
<1>4. AuthTypeOK' /\ Parts' /\ Taken' \in SUBSET Taken
  BY <1>1, <1>2, <1>3, MapKeeps
<1>5. Room'
  BY <1>4, FewerTaken DEF AuthInv
<1> QED BY <1>4, <1>5 DEF AuthInv

\* What the request that begins the flow and the goroutine that polls do is about a flow
\* no callback holds.
LEMMA PollStepKeeps ==
  ASSUME AuthInv, NEW f \in Flows, Begins(f) \/ Polls(f) \/ PollSaves(f)
  PROVE  AuthInv'
<1>0. /\ flow[f] \in FlowStates /\ flow \in [Flows -> FlowStates] /\ FlowSound(f)
      /\ connected \in SUBSET Flows /\ TTL \in Nat /\ Grace \in Nat
  BY AuthTypes DEF AuthInv, Parts
<1>1. flow[f].status # "exchanging" /\ UNCHANGED <<redirect, visit, ended, exchanges>>
  BY <1>0 DEF Begins, Polls, PollSaves, FlowSound, There, FlowStates
<1>2. \A v \in Visits : visit[v] # Nowhere => visit[v].flow # f
  BY <1>1 DEF AuthInv, Parts, VisitSound
<1>3. CASE Begins(f)
  <2> DEFINE r == [step |-> "begun", status |-> "pending", left |-> TTL,
                   poll |-> IF redirect THEN "off" ELSE "asking"]
  <2>1. flow[f].step = "counted" /\ connected' = connected
    BY <1>3 DEF Begins
  <2>2. f \in Taken
    BY <2>1 DEF Taken, Starting
  <2>3. CASE flow' = [flow EXCEPT ![f] = r]
    <3>1. r \in FlowStates
      BY <1>0 DEF FlowStates, Vivo
    <3>2. FlowSound(f)'
      BY <1>0, <1>1, <2>1, <2>3 DEF FlowSound, There, Outcomes
    <3> HIDE DEF r
    <3> QED BY <1>1, <1>2, <2>1, <2>2, <2>3, <3>1, <3>2, <1>0, OneFlowKeeps
  <2>4. CASE flow' = [flow EXCEPT ![f] = Unborn]
    <3>1. FlowSound(f)'
      BY <1>0, <1>1, <2>1, <2>4 DEF FlowSound, There, Unborn, Outcomes
    <3> QED BY <1>1, <1>2, <2>1, <2>2, <2>4, <3>1, <1>0, UnbornState, OneFlowKeeps
  <2> QED BY <1>3, <2>3, <2>4 DEF Begins
<1>4. CASE Polls(f) \/ PollSaves(f)
  <2>1. /\ flow[f].poll # "off" /\ There(f) /\ flow[f].status = "pending" /\ ~redirect
        /\ flow[f].left >= 0 /\ exchanges[f] = 0 /\ f \notin connected
    BY <1>0, <1>4 DEF Polls, PollSaves, FlowSound
  <2>2. f \in Taken
    <3>1. f \notin Old
      BY <1>0, <2>1 DEF Old, FlowStates
    <3> QED BY <2>1, <3>1 DEF Taken, Alive, Vivo
  <2>3. ASSUME NEW status \in {"done", "error", "expired"}, PollEnds(f, status),
               connected' = IF status = "done" THEN connected \cup {f} ELSE connected
        PROVE  AuthInv'
    <3> DEFINE r == [flow[f] EXCEPT !.poll = "off", !.status = status]
    <3>1. flow' = [flow EXCEPT ![f] = r]
      BY <1>0, <2>1, <2>3 DEF PollEnds, Ended, Vivo, FlowStates
    <3>2. r \in FlowStates /\ r.poll = "off" /\ r.status = status /\ r.step = "begun"
      BY <1>0, <2>1 DEF FlowStates, Outcomes, There
    <3> HIDE DEF r
    <3>3. flow'[f] = r
      BY <1>0, <3>1
    <3>4. f \in connected' <=> status = "done"
      BY <2>1, <2>3
    <3>5. FlowSound(f)'
      BY <1>1, <2>1, <3>2, <3>3, <3>4 DEF FlowSound, There, Outcomes
    <3>6. connected' \in SUBSET Flows /\ \A g \in Flows \ {f} : g \in connected' <=> g \in connected
      BY <1>0, <2>3
    <3> QED BY <1>1, <1>2, <2>2, <3>1, <3>2, <3>5, <3>6, OneFlowKeeps
  <2>4. ASSUME NEW stage \in {"saving", "spent"}, flow' = [flow EXCEPT ![f].poll = stage],
               connected' = connected
        PROVE  AuthInv'
    <3> DEFINE r == [flow[f] EXCEPT !.poll = stage]
    <3>1. flow' = [flow EXCEPT ![f] = r]
      BY <1>0, <2>4
    <3>2. /\ r \in FlowStates /\ r.poll = stage /\ r.status = "pending" /\ r.step = "begun"
          /\ r.left = flow[f].left
      BY <1>0, <2>1 DEF FlowStates, There
    <3> HIDE DEF r
    <3>3. flow'[f] = r
      BY <1>0, <3>1
    <3>4. FlowSound(f)'
      BY <1>1, <2>1, <2>4, <3>2, <3>3 DEF FlowSound, There, Outcomes
    <3> QED BY <1>0, <1>1, <1>2, <2>2, <2>4, <3>1, <3>2, <3>4, OneFlowKeeps
  <2>5. CASE Polls(f)
    BY <2>3, <2>4, <2>5 DEF Polls
  <2>6. CASE PollSaves(f)
    BY <2>3, <2>6 DEF PollSaves
  <2> QED BY <1>4, <2>5, <2>6
<1> QED BY <1>3, <1>4

\* The callback claims the flow by moving it to exchanging, which it finds pending.
LEMMA ClaimsKeeps ==
  ASSUME AuthInv, NEW v \in Visits, NEW f \in Flows, Claims(v, f) PROVE AuthInv'
<1>0. /\ flow \in [Flows -> FlowStates] /\ flow[f] \in FlowStates /\ exchanges \in [Flows -> Nat]
      /\ visit \in [Visits -> [at : {"away", "claimed", "saving", "subscribing"},
                               flow : Flows \cup {"none"}, left : 0..Exchange]]
      /\ Exchange \in Nat /\ FlowSound(f)
  BY AuthTypes DEF AuthInv, Parts
<1> DEFINE r == [flow[f] EXCEPT !.status = "exchanging"]
           held == [at |-> "claimed", flow |-> f, left |-> Exchange]
<1>1. /\ redirect /\ There(f) /\ flow[f].left >= 0 /\ flow[f].status = "pending"
      /\ flow' = [flow EXCEPT ![f] = r] /\ visit' = [visit EXCEPT ![v] = held]
      /\ UNCHANGED <<redirect, ended, connected, exchanges>> /\ visit[v] = Nowhere
  BY <1>0 DEF Claims
<1>2. /\ r \in FlowStates /\ r.step = "begun" /\ r.status = "exchanging" /\ r.left = flow[f].left
      /\ r.poll = flow[f].poll
  BY <1>0, <1>1 DEF FlowStates, Vivo, There
<1>3. held \in [at : {"claimed"}, flow : {f}, left : {Exchange}]
  OBVIOUS
<1> HIDE DEF r, held
<1>4. /\ flow' \in [Flows -> FlowStates] /\ flow'[f] = r
      /\ \A g \in Flows \ {f} : flow'[g] = flow[g]
  BY <1>0, <1>1, <1>2
<1>5. /\ visit'[v] = held /\ \A w \in Visits \ {v} : visit'[w] = visit[w]
      /\ visit' \in [Visits -> [at : {"away", "claimed", "saving", "subscribing"},
                                flow : Flows \cup {"none"}, left : 0..Exchange]]
  BY <1>0, <1>1, <1>3
<1>6. AuthTypeOK'
  BY <1>1, <1>4, <1>5 DEF AuthInv, AuthTypeOK, FlowStates
<1>7. flow[f].poll = "off" /\ exchanges[f] = 0 /\ f \notin connected
  BY <1>0, <1>1 DEF FlowSound
<1>8. \A g \in Flows : FlowSound(g)'
  <2>1. FlowSound(f)'
    BY <1>1, <1>2, <1>4, <1>7 DEF FlowSound, There, Outcomes
  <2> QED BY <1>1, <1>4, <2>1 DEF AuthInv, Parts, FlowSound, There
<1>9. \A w \in Visits : visit[w] # Nowhere => visit[w].flow # f
  BY <1>1 DEF AuthInv, Parts, VisitSound
<1>10. ASSUME NEW w \in Visits PROVE VisitSound(w)'
  <2>1. CASE w = v
    <3>1. visit'[w].flow = f /\ visit'[w].at = "claimed" /\ visit'[w].left = Exchange
      BY <1>3, <1>5, <2>1
    <3>2. flow'[f].left >= Exchange - Exchange
      BY <1>0, <1>1, <1>2, <1>4 DEF FlowStates
    <3> QED BY <1>1, <1>2, <1>4, <1>7, <3>1, <3>2 DEF VisitSound
  <2>2. CASE w # v
    BY <1>1, <1>4, <1>5, <1>9, <2>2 DEF AuthInv, Parts, VisitSound
  <2> QED BY <2>1, <2>2
<1>11. Apart'
  BY <1>3, <1>5, <1>9 DEF AuthInv, Parts, Apart
<1>12. Taken' \in SUBSET Taken
  <2>1. f \notin Old
    BY <1>0, <1>1, AuthTypes DEF Old, FlowStates, AuthInv
  <2>2. f \in Taken
    BY <1>1, <2>1 DEF Taken, Alive, Vivo
  <2> QED BY <1>4, <2>2 DEF Taken, Alive, Starting, Old, There
<1> QED BY <1>6, <1>8, <1>10, <1>11, <1>12, FewerTaken DEF AuthInv, Parts

\* A callback leaves, and its flow has the outcome the account says.
LEMMA VisitEndsKeeps ==
  ASSUME AuthInv, NEW v \in Visits, visit[v] # Nowhere, NEW status \in {"done", "error"},
         VisitEnds(v, status), UNCHANGED <<redirect, ended, connected>>,
         status = "done" <=> visit[v].flow \in connected,
         exchanges' \in [Flows -> Nat], exchanges'[visit[v].flow] =< 1,
         \A g \in Flows \ {visit[v].flow} : exchanges'[g] = exchanges[g]
  PROVE  AuthInv'
<1>f. PICK f \in Flows : f = visit[v].flow
  BY DEF AuthInv, Parts, VisitSound
<1> DEFINE r == [flow[f] EXCEPT !.status = status]
<1>0. /\ flow \in [Flows -> FlowStates] /\ f \in Flows /\ flow[f] \in FlowStates
      /\ flow[f].status = "exchanging" /\ FlowSound(f)
      /\ visit \in [Visits -> [at : {"away", "claimed", "saving", "subscribing"},
                               flow : Flows \cup {"none"}, left : 0..Exchange]]
      /\ Exchange \in Nat
  BY <1>f, AuthTypes DEF AuthInv, Parts, VisitSound
<1>1. /\ flow' = [flow EXCEPT ![f] = r] /\ visit' = [visit EXCEPT ![v] = Nowhere]
  BY <1>0, <1>f DEF VisitEnds, Ended, Vivo
<1>2. r \in FlowStates /\ r.step = "begun" /\ r.status = status /\ r.poll = "off"
  BY <1>0 DEF FlowStates, Outcomes, FlowSound, There
<1> HIDE DEF r
<1>3. /\ flow' \in [Flows -> FlowStates] /\ flow'[f] = r
      /\ \A g \in Flows \ {f} : flow'[g] = flow[g]
  BY <1>0, <1>1, <1>2
<1>4. /\ visit'[v] = Nowhere /\ \A w \in Visits \ {v} : visit'[w] = visit[w]
      /\ visit' \in [Visits -> [at : {"away", "claimed", "saving", "subscribing"},
                                flow : Flows \cup {"none"}, left : 0..Exchange]]
  <2>1. Nowhere \in [at : {"away", "claimed", "saving", "subscribing"},
                     flow : Flows \cup {"none"}, left : 0..Exchange]
    BY <1>0 DEF Nowhere
  <2> QED BY <1>0, <1>1, <2>1
<1>5. AuthTypeOK'
  BY <1>3, <1>4 DEF AuthInv, AuthTypeOK, FlowStates
<1>6. \A g \in Flows : FlowSound(g)'
  <2>1. FlowSound(f)'
    BY <1>f, <1>2, <1>3 DEF FlowSound, There, Outcomes
  <2> QED BY <1>f, <1>3, <2>1 DEF AuthInv, Parts, FlowSound, There
<1>7. \A w \in Visits \ {v} : visit[w] # Nowhere => visit[w].flow # f
  BY <1>f DEF AuthInv, Parts, Apart
<1>8. ASSUME NEW w \in Visits PROVE VisitSound(w)'
  <2>1. CASE w = v
    BY <1>4, <2>1 DEF VisitSound
  <2>2. CASE w # v
    BY <1>f, <1>3, <1>4, <1>7, <2>2 DEF AuthInv, Parts, VisitSound
  <2> QED BY <2>1, <2>2
<1>9. Apart'
  BY <1>4 DEF AuthInv, Parts, Apart
<1>10. Taken' \in SUBSET Taken
  BY <1>2, <1>3 DEF Taken, Alive, Starting, Old, There, Vivo
<1> QED BY <1>5, <1>6, <1>8, <1>9, <1>10, FewerTaken DEF AuthInv, Parts

\* A callback goes on with the flow it holds.
LEMMA VisitGoesOnKeeps ==
  ASSUME AuthInv, NEW v \in Visits, visit[v] # Nowhere, NEW stage \in {"saving", "subscribing"},
         visit' = [visit EXCEPT ![v].at = stage], UNCHANGED <<redirect, flow, ended>>,
         connected' \in SUBSET Flows,
         \A g \in Flows \ {visit[v].flow} : g \in connected' <=> g \in connected,
         visit[v].flow \in connected' <=> stage = "subscribing",
         exchanges' \in [Flows -> Nat], exchanges'[visit[v].flow] =< 1,
         \A g \in Flows \ {visit[v].flow} : exchanges'[g] = exchanges[g]
  PROVE  AuthInv'
<1> DEFINE f == visit[v].flow
           held == [visit[v] EXCEPT !.at = stage]
<1>0. /\ f \in Flows /\ flow[f].status = "exchanging" /\ redirect
      /\ flow[f].left >= visit[v].left - Exchange
      /\ visit \in [Visits -> [at : {"away", "claimed", "saving", "subscribing"},
                               flow : Flows \cup {"none"}, left : 0..Exchange]]
      /\ There(f) /\ flow[f].poll = "off"
  BY AuthTypes DEF AuthInv, Parts, VisitSound, FlowSound
<1>1. visit' = [visit EXCEPT ![v] = held]
  BY <1>0
<1>2. /\ held \in [at : {"saving", "subscribing"}, flow : Flows, left : 0..Exchange]
      /\ held.at = stage /\ held.flow = f /\ held.left = visit[v].left
  BY <1>0
<1> HIDE DEF held
<1>3. /\ visit'[v] = held /\ \A w \in Visits \ {v} : visit'[w] = visit[w]
      /\ visit' \in [Visits -> [at : {"away", "claimed", "saving", "subscribing"},
                                flow : Flows \cup {"none"}, left : 0..Exchange]]
  BY <1>0, <1>1, <1>2
<1>4. AuthTypeOK'
  BY <1>3 DEF AuthInv, AuthTypeOK
<1>5. \A g \in Flows : FlowSound(g)'
  <2>1. FlowSound(f)'
    BY <1>0 DEF FlowSound, There, Outcomes
  <2> QED BY <2>1 DEF AuthInv, Parts, FlowSound, There
<1>6. \A w \in Visits \ {v} : visit[w] # Nowhere => visit[w].flow # f
  BY DEF AuthInv, Parts, Apart
<1>7. ASSUME NEW w \in Visits PROVE VisitSound(w)'
  <2>1. CASE w = v
    BY <1>0, <1>2, <1>3, <2>1 DEF VisitSound
  <2>2. CASE w # v
    BY <1>3, <1>6, <2>2 DEF AuthInv, Parts, VisitSound
  <2> QED BY <2>1, <2>2
<1>8. Apart'
  <2>1. \A w \in Visits : visit'[w].flow = visit[w].flow /\ (visit'[w] # Nowhere => visit[w] # Nowhere)
    BY <1>2, <1>3
  <2> QED BY <2>1 DEF AuthInv, Parts, Apart
<1>9. Taken' \in SUBSET Taken
  BY DEF Taken, Alive, Starting, Old, There
<1> QED BY <1>4, <1>5, <1>7, <1>8, <1>9, FewerTaken DEF AuthInv, Parts

\* The callback exchanges the code, stores the account, and tells the outcome.
LEMMA VisitStepKeeps ==
  ASSUME AuthInv, NEW v \in Visits, Exchanges(v) \/ VisitSaves(v) \/ VisitDone(v)
  PROVE  AuthInv'
<1> DEFINE f == visit[v].flow
<1>0. /\ visit[v] # Nowhere /\ f \in Flows /\ exchanges \in [Flows -> Nat]
      /\ exchanges[f] =< 1 /\ connected \in SUBSET Flows
      /\ visit[v].at = "claimed" => exchanges[f] = 0
      /\ f \in connected <=> visit[v].at = "subscribing"
  <2>1. visit[v] # Nowhere
    BY DEF Exchanges, VisitSaves, VisitDone, Nowhere
  <2> QED BY <2>1, AuthTypes DEF AuthInv, Parts, VisitSound, FlowSound
<1>1. CASE Exchanges(v)
  <2>1. /\ visit[v].at = "claimed" /\ UNCHANGED <<redirect, ended, connected>>
    BY <1>1 DEF Exchanges
  <2>2. CASE VisitEnds(v, "error") /\ UNCHANGED exchanges
    BY <1>0, <2>1, <2>2, VisitEndsKeeps
  <2>3. CASE exchanges' = [exchanges EXCEPT ![visit[v].flow] = @ + 1]
    <3>1. exchanges' \in [Flows -> Nat] /\ exchanges'[f] =< 1
          /\ \A g \in Flows \ {f} : exchanges'[g] = exchanges[g]
      BY <1>0, <2>1, <2>3
    <3>2. CASE VisitEnds(v, "error")
      BY <1>0, <2>1, <3>1, <3>2, VisitEndsKeeps
    <3>3. CASE visit' = [visit EXCEPT ![v].at = "saving"] /\ UNCHANGED flow
      BY <1>0, <2>1, <3>1, <3>3, VisitGoesOnKeeps
    <3> QED BY <1>1, <2>2, <3>2, <3>3 DEF Exchanges
  <2> QED BY <1>1, <2>2, <2>3 DEF Exchanges
<1>2. CASE VisitSaves(v)
  <2>1. visit[v].at = "saving" /\ UNCHANGED <<redirect, ended, exchanges>>
    BY <1>2 DEF VisitSaves
  <2>2. CASE /\ connected' = connected \cup {f}
             /\ visit' = [visit EXCEPT ![v].at = "subscribing"] /\ UNCHANGED flow
    BY <1>0, <2>1, <2>2, VisitGoesOnKeeps
  <2>3. CASE VisitEnds(v, "error") /\ UNCHANGED connected
    BY <1>0, <2>1, <2>3, VisitEndsKeeps
  <2> QED BY <1>2, <2>2, <2>3 DEF VisitSaves
<1>3. CASE VisitDone(v)
  <2>1. visit[v].at = "subscribing" /\ VisitEnds(v, "done")
        /\ UNCHANGED <<redirect, ended, connected, exchanges>>
    BY <1>3 DEF VisitDone
  <2> QED BY <1>0, <2>1, VisitEndsKeeps
<1> QED BY <1>1, <1>2, <1>3

\* Time: a flow outlives its callback, whose own timeout is shorter than the grace.
LEMMA AuthTickKeeps == ASSUME AuthInv, AuthTick PROVE AuthInv'
<1>0. /\ flow \in [Flows -> FlowStates] /\ exchanges \in [Flows -> Nat]
      /\ visit \in [Visits -> [at : {"away", "claimed", "saving", "subscribing"},
                               flow : Flows \cup {"none"}, left : 0..Exchange]]
      /\ TTL \in Nat /\ Exchange \in Nat /\ Grace \in Nat
  BY AuthTypes DEF AuthInv
<1>1. UNCHANGED <<redirect, ended, connected, exchanges>>
  BY DEF AuthTick
<1>2. ASSUME NEW f \in Flows
      PROVE  /\ flow'[f] \in FlowStates
             /\ flow'[f].step = flow[f].step /\ flow'[f].status = flow[f].status
             /\ flow'[f].poll = flow[f].poll
             /\ flow'[f].left = IF There(f) /\ f \notin Old THEN flow[f].left - 1 ELSE flow[f].left
  <2>1. flow[f] \in FlowStates
    BY <1>0
  <2>2. CASE There(f) /\ f \notin Old
    <3>1. flow'[f] = [flow[f] EXCEPT !.left = flow[f].left - 1]
      BY <2>2 DEF AuthTick
    <3>2. flow[f].left >= -Grace /\ flow[f].left =< TTL /\ flow[f].left \in Int
      BY <1>0, <2>1, <2>2 DEF Old, FlowStates
    <3>3. flow[f].left - 1 \in -(Grace + 1)..TTL
      BY <1>0, <3>2
    <3> QED BY <2>1, <2>2, <3>1, <3>3 DEF FlowStates
  <2>3. CASE ~(There(f) /\ f \notin Old)
    <3>1. flow'[f] = flow[f]
      BY <2>3 DEF AuthTick
    <3> QED BY <2>1, <2>3, <3>1
  <2> QED BY <2>2, <2>3
<1>3. ASSUME NEW v \in Visits
      PROVE  /\ visit[v] = Nowhere => visit'[v] = Nowhere
             /\ visit[v] # Nowhere =>
                  /\ visit'[v] \in [at : {"away", "claimed", "saving", "subscribing"},
                                    flow : Flows \cup {"none"}, left : 0..Exchange]
                  /\ visit'[v].at = visit[v].at /\ visit'[v].flow = visit[v].flow
                  /\ visit'[v].left = visit[v].left - 1
  <2>1. CASE visit[v] = Nowhere
    BY <2>1 DEF AuthTick
  <2>2. CASE visit[v] # Nowhere
    <3>1. visit'[v] = [visit[v] EXCEPT !.left = visit[v].left - 1] /\ visit[v].left > 0
      BY <2>2 DEF AuthTick
    <3>2. visit[v] \in [at : {"away", "claimed", "saving", "subscribing"},
                        flow : Flows \cup {"none"}, left : 0..Exchange]
      BY <1>0
    <3>3. visit[v].left - 1 \in 0..Exchange
      BY <1>0, <3>1, <3>2
    <3> QED BY <2>2, <3>1, <3>2, <3>3
  <2> QED BY <2>1, <2>2
<1>4. flow' \in [Flows -> FlowStates]
  <2>1. flow' = [f \in Flows |-> flow'[f]]
    BY DEF AuthTick
  <2> QED BY <1>2, <2>1
<1>5. visit' \in [Visits -> [at : {"away", "claimed", "saving", "subscribing"},
                             flow : Flows \cup {"none"}, left : 0..Exchange]]
  <2>1. visit' = [v \in Visits |-> visit'[v]]
    BY DEF AuthTick
  <2>2. Nowhere \in [at : {"away", "claimed", "saving", "subscribing"},
                     flow : Flows \cup {"none"}, left : 0..Exchange]
    BY <1>0 DEF Nowhere
  <2>3. \A v \in Visits : visit'[v] \in [at : {"away", "claimed", "saving", "subscribing"},
                                         flow : Flows \cup {"none"}, left : 0..Exchange]
    BY <1>3, <2>2
  <2> QED BY <2>1, <2>3
<1>6. AuthTypeOK'
  BY <1>1, <1>4, <1>5 DEF AuthInv, AuthTypeOK, FlowStates
<1>7. ASSUME NEW f \in Flows PROVE FlowSound(f)'
  <2>1. FlowSound(f)
    BY DEF AuthInv, Parts
  <2>2. flow'[f].poll # "off" => flow'[f].left >= 0
    <3>1. flow[f].poll # "off" => flow[f].left > 0 /\ flow[f].left \in Int
      BY <1>0 DEF AuthTick, FlowStates
    <3> QED BY <1>2, <3>1
  <2> QED BY <1>1, <1>2, <2>1, <2>2 DEF FlowSound, There
<1>8. ASSUME NEW v \in Visits PROVE VisitSound(v)'
  <2> SUFFICES ASSUME visit[v] # Nowhere PROVE VisitSound(v)'
    BY <1>3 DEF VisitSound
  <2> DEFINE g == visit[v].flow
  <2>1. VisitSound(v) /\ g \in Flows
    BY DEF AuthInv, Parts, VisitSound
  <2>2. flow'[g].left >= visit'[v].left - Exchange
    <3>1. /\ flow[g].left \in Int /\ visit[v].left \in Int
          /\ flow[g].left >= visit[v].left - Exchange
      BY <1>0, <2>1 DEF VisitSound, FlowStates
    <3>2. flow'[g].left = flow[g].left - 1 \/ flow'[g].left = flow[g].left
      BY <1>2, <2>1
    <3>3. visit'[v].left = visit[v].left - 1
      BY <1>3
    <3> QED BY <1>0, <3>1, <3>2, <3>3
  <2>3. visit'[v].flow = g /\ visit'[v].at = visit[v].at /\ flow'[g].status = flow[g].status
    BY <1>2, <1>3, <2>1
  <2> QED BY <1>1, <2>1, <2>2, <2>3 DEF VisitSound
<1>9. Apart'
  BY <1>3 DEF AuthInv, Parts, Apart
<1>10. Taken' \in SUBSET Taken
  <2>1. ASSUME NEW f \in Flows, f \in Old PROVE f \in Old'
    <3>1. There(f) /\ flow[f].left < -Grace
      BY <2>1 DEF Old
    <3>2. flow'[f].left = flow[f].left /\ flow'[f].step = "begun"
      BY <1>2, <2>1, <3>1 DEF There
    <3> QED BY <3>1, <3>2 DEF Old, There
  <2> QED BY <1>2, <2>1 DEF Taken, Alive, Starting
<1> QED BY <1>6, <1>7, <1>8, <1>9, <1>10, FewerTaken DEF AuthInv, Parts

\* No step of the flows breaks the invariant.
LEMMA AuthStepKeeps == ASSUME AuthInv, [AuthNext]_authVars PROVE AuthInv'
<1>1. CASE EndsBase
  BY <1>1 DEF EndsBase, AuthInv, AuthTypeOK, Parts, FlowSound, VisitSound, Apart, Room, Taken,
              Alive, Starting, Old, There
<1>2. CASE UNCHANGED authVars
  BY <1>2 DEF authVars, AuthInv, AuthTypeOK, Parts, FlowSound, VisitSound, Apart, Room, Taken,
              Alive, Starting, Old, There
<1> QED
  BY <1>1, <1>2, AuthTickKeeps, CountsKeeps, PollStepKeeps, TellsKeeps, ClaimsKeeps,
     VisitStepKeeps
  DEF AuthNext

\* The flows in which an account is connected (httpapi/platforms.go) keep their inductive
\* invariant.
THEOREM AuthHolds == AuthSpec => []AuthInv
BY AuthInitInv, AuthStepKeeps, PTL DEF AuthSpec

\* What the run checks follows from it.
LEMMA AuthImplied == AuthInv => AuthOutcomes
<1> SUFFICES ASSUME AuthInv PROVE AuthOutcomes
  OBVIOUS
<1>1. Cardinality(Alive) =< MaxLive + MaxStarts - 1
  <2>1. Alive \in SUBSET Taken
    BY DEF Taken
  <2>2. IsFiniteSet(Alive) /\ Cardinality(Alive) =< Cardinality(Taken)
    BY <2>1, TakenFinite, FS_Subset
  <2>3. Cardinality(Alive) \in Nat
    BY <2>2, FS_CardinalityType
  <2> QED BY <2>2, <2>3, TakenFinite, AuthTypes DEF AuthInv, Room
<1> QED BY <1>1 DEF AuthInv, AuthOutcomes, Parts, FlowSound, VisitSound

\* For any number of flows and callbacks and any limits, a code is exchanged once, the
\* outcome the panel is told is the account's, and the flows alive stay within the limit
\* but for those begun at the same time (handleStartAuth,
\* handleAuthCallback, sondear, limpiarVencidos).
THEOREM FlowsEndWell == AuthSpec => []AuthOutcomes
BY AuthHolds, AuthImplied, PTL

-----------------------------------------------------------------------------
DestStates == [at : {"none", "there", "deleted"}, key : 0..MaxRefs,
               account : Channels \cup {NoAccount}]
RowStates  == [ref : 0..MaxRefs, account : Channels \cup {NoAccount},
               status : {"none", "created", "live", "complete"}]
MadeStates == [state : {"none", "made", "live", "complete"}, owner : Channels \cup {NoAccount}]
AskStates  == [op   : {"none", "create", "renew", "live", "complete", "patch", "forget"},
               at   : {"free", "insert", "bind", "store", "link", "note", "undo", "commit",
                       "transition", "stamp", "read", "clear", "relink", "delete"},
               dest : Targets \cup {"none"}, acct : Channels \cup {NoAccount}, ref : 0..MaxRefs]

Fields ==
  /\ dest \in [Targets -> DestStates] /\ row \in [Targets -> RowStates]
  /\ accounts \subseteq Channels /\ made \in [Refs -> MadeStates]
  /\ onePanel \in BOOLEAN /\ halfMade \subseteq Targets

HalfWay == {"link", "note", "undo"}

\* What a request remembers, by the place it is at.
AskSound(r) ==
  /\ r.at = "free" => r = NoAsk
  /\ r.at \in {"insert", "bind"} => r.op \in {"create", "renew"}
  /\ r.at = "store" \/ r.at \in HalfWay => r.op = "create"
  /\ r.at = "commit" => r.op = "renew"
  /\ r.at \in {"transition", "stamp"} => r.op \in {"live", "complete"}
  /\ r.at \in {"read", "relink"} => r.op = "patch"
  /\ r.at = "clear" => r.op \in {"patch", "forget"}
  /\ r.at = "delete" => r.op = "forget"
  /\ r.at \in {"insert", "bind", "store", "commit"} \cup HalfWay => r.acct \in Channels
  /\ r.at \in {"bind", "store", "commit", "transition", "stamp"} \cup HalfWay => r.ref \in Refs
  /\ r.at \in HalfWay \/ r.op \in {"renew", "live", "complete", "patch"} => r.dest \in Targets

\* ... and what is still so of the rows it read when nobody else has changed them.
StillSo(r) ==
  /\ r.at \in HalfWay => /\ row[r.dest] = NoRow
                         /\ Exists(r.dest) => dest[r.dest].key = r.ref
  /\ r.at = "note" /\ Exists(r.dest) => dest[r.dest].account = r.acct
  /\ r.op = "renew" => dest[r.dest].account = r.acct
  /\ r.at \in {"transition", "stamp"} /\ row[r.dest] # NoRow => row[r.dest].ref = r.ref
  /\ r.at = "stamp" /\ r.op = "live" => made[r.ref].state \in {"live", "complete"}
  /\ r.at = "relink" /\ row[r.dest] # NoRow => row[r.dest].account = r.acct

Alone == onePanel => \A p, q \in Asks : ask[p] # NoAsk /\ ask[q] # NoAsk => p = q

RowSound(d) ==
  row[d] # NoRow =>
    /\ Exists(d) /\ row[d].account \in accounts /\ row[d].ref \in Refs
    /\ onePanel => /\ OfItsAccount(d)
                   /\ dest[d].key \in {row[d].ref, ByHand}
                   /\ row[d].status = "live" => made[row[d].ref].state \in {"live", "complete"}

\* Whoever left a destination half made is still at it.
HalfSound == \A d \in halfMade : \E q \in Asks : ask[q].at \in HalfWay /\ ask[q].dest = d

Rows == (\A d \in Targets : RowSound(d)) /\ HalfSound
AskInv == /\ ask \in [Asks -> AskStates] /\ \A q \in Asks : AskSound(ask[q])
          /\ Alone /\ (onePanel => \A q \in Asks : StillSo(ask[q]))

BcInv == Fields /\ AskInv /\ Rows

\* A request that is not there remembers nothing.
LEMMA NoAskSound == /\ NoAsk \in AskStates /\ AskSound(NoAsk) /\ StillSo(NoAsk)
                    /\ NoAsk.at = "free"
BY BroadcastConstants DEF NoAsk, AskStates, AskSound, StillSo, HalfWay, NoAccount

\* There is no broadcast.
LEMMA BcInitInv == BcInit => BcInv
<1> SUFFICES ASSUME BcInit PROVE BcInv
  OBVIOUS
<1> USE BroadcastConstants DEF BcInit
<1>1. Fields
  <2>1. dest \in [Targets -> DestStates]
    BY DEF DestStates, New, ByHand
  <2>2. row \in [Targets -> RowStates]
    BY DEF RowStates, NoRow
  <2>3. made \in [Refs -> MadeStates]
    BY DEF MadeStates, Unmade
  <2> QED BY <2>1, <2>2, <2>3 DEF Fields
<1>2. AskInv
  BY NoAskSound DEF AskInv, Alone
<1>3. Rows
  BY DEF Rows, RowSound, HalfSound
<1> QED BY <1>1, <1>2, <1>3 DEF BcInv

\* A step of one request, whatever it does to the rows: with one panel the others are not
\* there, so what is still so is asked of that request alone.
LEMMA AskStep ==
  ASSUME BcInv, NEW q \in Asks, NEW r \in AskStates, ask' = [ask EXCEPT ![q] = r],
         AskSound(r), onePanel => StillSo(r)', UNCHANGED onePanel,
         ask[q] # NoAsk \/ (onePanel => \A o \in Asks : ask[o] = NoAsk)
  PROVE  AskInv'
<1>1. /\ ask' \in [Asks -> AskStates] /\ ask'[q] = r
      /\ \A p \in Asks \ {q} : ask'[p] = ask[p]
  BY DEF BcInv, AskInv
<1>2. \A p \in Asks : AskSound(ask'[p])
  BY <1>1 DEF BcInv, AskInv
<1>3. onePanel => \A p \in Asks \ {q} : ask'[p] = NoAsk
  BY <1>1 DEF BcInv, AskInv, Alone
<1>4. Alone'
  BY <1>3 DEF Alone
<1>5. ASSUME onePanel, NEW p \in Asks PROVE StillSo(ask[p])'
  <2>1. CASE p = q
    BY <1>1, <1>5, <2>1 DEF StillSo, Exists
  <2>2. CASE p # q
    <3>1. ask'[p].at = "free" /\ ask'[p].op = "none"
      BY <1>3, <1>5, <2>2, NoAskSound DEF NoAsk
    <3> QED BY <3>1 DEF StillSo, HalfWay
  <2> QED BY <2>1, <2>2
<1> QED BY <1>1, <1>2, <1>4, <1>5 DEF AskInv, AskSound

\* The request stays half way with its destination, or had none.
LEMMA HalfStep ==
  ASSUME BcInv, NEW q \in Asks, NEW r \in AskStates, ask' = [ask EXCEPT ![q] = r],
         halfMade' \in SUBSET halfMade,
         ask[q].at \in HalfWay /\ ask[q].dest \in halfMade' =>
           r.at \in HalfWay /\ r.dest = ask[q].dest
  PROVE  HalfSound'
<1>1. ask'[q] = r /\ \A p \in Asks \ {q} : ask'[p] = ask[p]
  BY DEF BcInv, AskInv
<1> SUFFICES ASSUME NEW d \in halfMade'
             PROVE  \E p \in Asks : ask'[p].at \in HalfWay /\ ask'[p].dest = d
  BY DEF HalfSound
<1>2. PICK p \in Asks : ask[p].at \in HalfWay /\ ask[p].dest = d
  BY DEF BcInv, Rows, HalfSound
<1> QED BY <1>1, <1>2

\* A step that only moves the request.
LEMMA OnlyAsk ==
  ASSUME BcInv, NEW q \in Asks, NEW r \in AskStates, ask' = [ask EXCEPT ![q] = r],
         UNCHANGED <<dest, row, accounts, made, onePanel, halfMade>>,
         AskSound(r), onePanel => StillSo(r),
         ask[q] # NoAsk \/ (onePanel => \A o \in Asks : ask[o] = NoAsk),
         ask[q].at \in HalfWay => r.at \in HalfWay /\ r.dest = ask[q].dest
  PROVE  BcInv'
<1>1. onePanel => StillSo(r)'
  BY DEF StillSo, Exists
<1>2. AskInv'
  BY <1>1, AskStep
<1>3. HalfSound'
  BY HalfStep
<1>4. \A d \in Targets : RowSound(d)'
  BY DEF BcInv, Rows, RowSound, Exists, OfItsAccount
<1>5. Fields'
  BY DEF BcInv, Fields
<1> QED BY <1>2, <1>3, <1>4, <1>5 DEF BcInv, Rows

\* What the invariant says of one request.
LEMMA AskKnown ==
  ASSUME BcInv, NEW q \in Asks
  PROVE  /\ ask[q] \in AskStates /\ AskSound(ask[q]) /\ (onePanel => StillSo(ask[q]))
         /\ ask[q].at # "free" => ask[q] # NoAsk
BY NoAskSound DEF BcInv, AskInv

\* What begins a request.
LEMMA AsksKeep ==
  ASSUME BcInv, NEW q \in Asks,
         AsksFromAccount(q) \/ AsksBroadcast(q) \/ AsksTransition(q) \/ AsksDeleteAccount(q)
  PROVE  BcInv'
<1> USE BroadcastConstants
<1>0. Fields /\ (\A d \in Targets : RowSound(d)) /\ UNCHANGED <<dest, row, accounts, made, onePanel, halfMade>>
  BY DEF BcInv, Rows, AsksFromAccount, AsksBroadcast, AsksTransition, AsksDeleteAccount
<1>1. ASSUME NEW r \in AskStates, NewAsk(q, r), AskSound(r), onePanel => StillSo(r)
      PROVE  BcInv'
  <2>1. ask[q] = NoAsk /\ (onePanel => \A o \in Asks : ask[o] = NoAsk) /\ ask' = [ask EXCEPT ![q] = r]
    BY <1>1 DEF NewAsk
  <2>2. ask[q].at \notin HalfWay
    BY <2>1, NoAskSound DEF HalfWay
  <2> QED BY <1>0, <1>1, <2>1, <2>2, OnlyAsk
<1>2. CASE AsksFromAccount(q)
  <2>1. PICK a \in accounts : NewAsk(q, [NoAsk EXCEPT !.op = "create", !.at = "insert", !.acct = a])
    BY <1>2 DEF AsksFromAccount
  <2>2. PICK r : r = [NoAsk EXCEPT !.op = "create", !.at = "insert", !.acct = a]
    OBVIOUS
  <2>3. /\ r = [op |-> "create", at |-> "insert", dest |-> "none", acct |-> a, ref |-> 0]
        /\ a \in Channels
    BY <1>0, <2>2 DEF NoAsk, Fields
  <2>4. r \in AskStates
    BY <2>3 DEF AskStates
  <2>5. AskSound(r) /\ StillSo(r)
    BY <2>3 DEF AskSound, StillSo, HalfWay
  <2> QED BY <1>1, <2>1, <2>2, <2>4, <2>5
<1>3. CASE AsksBroadcast(q)
  <2>1. PICK d \in Targets : /\ Exists(d) /\ dest[d].account # NoAccount
                             /\ NewAsk(q, [NoAsk EXCEPT !.op = "renew", !.at = "insert", !.dest = d,
                                                        !.acct = dest[d].account])
    BY <1>3 DEF AsksBroadcast
  <2>2. PICK r : r = [NoAsk EXCEPT !.op = "renew", !.at = "insert", !.dest = d,
                                   !.acct = dest[d].account]
    OBVIOUS
  <2>3. dest[d].account \in Channels
    BY <1>0, <2>1 DEF Fields, DestStates
  <2>4. r = [op |-> "renew", at |-> "insert", dest |-> d, acct |-> dest[d].account, ref |-> 0]
    BY <2>2 DEF NoAsk
  <2>5. r \in AskStates
    BY <2>3, <2>4 DEF AskStates
  <2>6. AskSound(r) /\ StillSo(r)
    BY <2>3, <2>4 DEF AskSound, StillSo, HalfWay
  <2> QED BY <1>1, <2>1, <2>2, <2>5, <2>6
<1>4. CASE AsksTransition(q)
  <2>1. PICK d \in Targets, op \in {"live", "complete"} :
          /\ row[d] # NoRow
          /\ NewAsk(q, [op |-> op, at |-> "transition", dest |-> d, acct |-> dest[d].account,
                        ref |-> row[d].ref])
    BY <1>4 DEF AsksTransition
  <2>2. PICK r : r = [op |-> op, at |-> "transition", dest |-> d, acct |-> dest[d].account,
                      ref |-> row[d].ref]
    OBVIOUS
  <2>3. dest[d].account \in Channels \cup {NoAccount} /\ row[d].ref \in Refs /\ row[d].ref \in 0..MaxRefs
    BY <1>0, <2>1 DEF Fields, DestStates, RowStates, RowSound
  <2>4. r \in AskStates
    BY <2>2, <2>3 DEF AskStates
  <2>5. AskSound(r) /\ StillSo(r)
    BY <2>2, <2>3 DEF AskSound, StillSo, HalfWay
  <2> QED BY <1>1, <2>1, <2>2, <2>4, <2>5
<1>5. CASE AsksDeleteAccount(q)
  <2>1. PICK a \in accounts : NewAsk(q, [NoAsk EXCEPT !.op = "forget", !.at = "clear", !.acct = a])
    BY <1>5 DEF AsksDeleteAccount
  <2>2. PICK r : r = [NoAsk EXCEPT !.op = "forget", !.at = "clear", !.acct = a]
    OBVIOUS
  <2>3. /\ r = [op |-> "forget", at |-> "clear", dest |-> "none", acct |-> a, ref |-> 0]
        /\ a \in Channels
    BY <1>0, <2>2 DEF NoAsk, Fields
  <2>4. r \in AskStates
    BY <2>3 DEF AskStates
  <2>5. AskSound(r) /\ StillSo(r)
    BY <2>3 DEF AskSound, StillSo, HalfWay
  <2> QED BY <1>1, <2>1, <2>2, <2>4, <2>5
<1> QED BY <1>2, <1>3, <1>4, <1>5

\* The requests that write at once: the patch that begins with the row, and a deletion.
LEMMA PatchBeginsKeeps == ASSUME BcInv, NEW q \in Asks, AsksPatch(q) PROVE BcInv'
<1> USE BroadcastConstants
<1>1. PICK d \in Targets, acc \in accounts \cup {NoAccount, Keep} :
        /\ Exists(d)
        /\ NewAsk(q, IF acc = Keep THEN NoAsk
                      ELSE [NoAsk EXCEPT !.op = "patch", !.at = "read", !.dest = d, !.acct = acc])
        /\ \E key \in {ByHand, dest[d].key} : dest' = [dest EXCEPT ![d].key = key]
  BY DEF AsksPatch
<1>2. PICK key \in {ByHand, dest[d].key} : dest' = [dest EXCEPT ![d].key = key]
  BY <1>1
<1>3. UNCHANGED <<row, accounts, made, onePanel, halfMade>>
  BY DEF AsksPatch
<1>4. PICK r : r = IF acc = Keep THEN NoAsk
                   ELSE [NoAsk EXCEPT !.op = "patch", !.at = "read", !.dest = d, !.acct = acc]
  OBVIOUS
<1>5. r \in AskStates /\ AskSound(r) /\ StillSo(r)'
  <2>1. CASE r = NoAsk
    BY <2>1, NoAskSound DEF NoAsk, StillSo, HalfWay
  <2>2. CASE /\ acc \in accounts \cup {NoAccount}
             /\ r = [NoAsk EXCEPT !.op = "patch", !.at = "read", !.dest = d, !.acct = acc]
    <3>1. acc \in Channels \cup {NoAccount}
      BY <2>2 DEF BcInv, Fields
    <3>2. r = [op |-> "patch", at |-> "read", dest |-> d, acct |-> acc, ref |-> 0]
      BY <2>2 DEF NoAsk
    <3>3. r \in AskStates
      BY <3>1, <3>2 DEF AskStates
    <3>4. AskSound(r)
      BY <3>2 DEF AskSound, HalfWay
    <3>5. StillSo(r)'
      BY <3>2 DEF StillSo, HalfWay
    <3> QED BY <3>3, <3>4, <3>5
  <2> QED BY <1>4, <2>1, <2>2
<1>6. ask[q] = NoAsk /\ (onePanel => \A o \in Asks : ask[o] = NoAsk) /\ ask' = [ask EXCEPT ![q] = r]
  BY <1>1, <1>4 DEF NewAsk
<1>7. AskInv'
  BY <1>3, <1>5, <1>6, AskStep
<1>8. /\ dest' \in [Targets -> DestStates]
      /\ \A e \in Targets : /\ dest'[e].at = dest[e].at /\ dest'[e].account = dest[e].account
                            /\ dest'[e].key \in {ByHand, dest[e].key}
  <2>1. dest \in [Targets -> DestStates] /\ key \in 0..MaxRefs
    BY DEF BcInv, Fields, DestStates, ByHand
  <2> QED BY <1>2, <2>1 DEF DestStates
<1>9. Fields'
  BY <1>3, <1>8 DEF BcInv, Fields
<1>10. \A e \in Targets : RowSound(e)'
  BY <1>3, <1>8 DEF BcInv, Rows, RowSound, Exists, OfItsAccount
<1>11. HalfSound'
  <2>1. ask[q].at \notin HalfWay
    BY <1>6, NoAskSound DEF HalfWay
  <2> QED BY <1>3, <1>5, <1>6, <2>1, HalfStep
<1> QED BY <1>7, <1>9, <1>10, <1>11 DEF BcInv, Rows

\* A destination's row goes, and its broadcast with it.
LEMMA DropKeeps ==
  ASSUME BcInv, NEW d \in Targets, DropDest(d), UNCHANGED <<accounts, made, onePanel>>,
         halfMade' \in SUBSET halfMade
  PROVE  /\ Fields' /\ \A e \in Targets : RowSound(e)'
         /\ row'[d] = NoRow /\ ~Exists(d)'
         /\ \A e \in Targets \ {d} : dest'[e] = dest[e] /\ row'[e] = row[e]
<1>1. [New EXCEPT !.at = "deleted"] \in DestStates /\ NoRow \in RowStates
  BY BroadcastConstants DEF New, NoRow, DestStates, RowStates, ByHand
<1>2. /\ dest \in [Targets -> DestStates] /\ row \in [Targets -> RowStates]
      /\ dest' = [dest EXCEPT ![d] = [New EXCEPT !.at = "deleted"]]
      /\ row' = [row EXCEPT ![d] = NoRow]
  BY DEF DropDest, BcInv, Fields
<1>3. /\ row'[d] = NoRow /\ dest'[d].at = "deleted"
      /\ \A e \in Targets \ {d} : dest'[e] = dest[e] /\ row'[e] = row[e]
      /\ dest' \in [Targets -> DestStates] /\ row' \in [Targets -> RowStates]
  BY <1>1, <1>2 DEF New
<1>4. Fields'
  BY <1>3 DEF BcInv, Fields
<1>5. \A e \in Targets : RowSound(e)'
  BY <1>3 DEF BcInv, Rows, RowSound, Exists, OfItsAccount
<1> QED BY <1>3, <1>4, <1>5 DEF Exists

\* The destination is deleted, and its row with it (ON DELETE CASCADE).
LEMMA DeletesDestinationKeeps == ASSUME BcInv, NEW q \in Asks, DeletesDestination(q) PROVE BcInv'
<1>1. /\ NewAsk(q, NoAsk) /\ UNCHANGED <<accounts, made, onePanel, halfMade>>
      /\ \E d \in Targets : DropDest(d)
  BY DEF DeletesDestination
<1>2. Fields' /\ \A e \in Targets : RowSound(e)'
  BY <1>1, DropKeeps
<1>3. /\ ask[q] = NoAsk /\ (onePanel => \A o \in Asks : ask[o] = NoAsk)
      /\ ask' = [ask EXCEPT ![q] = NoAsk]
  BY <1>1 DEF NewAsk
<1>4. StillSo(NoAsk)'
  BY DEF StillSo, NoAsk, HalfWay
<1>5. AskInv'
  BY <1>1, <1>3, <1>4, NoAskSound, AskStep
<1>6. HalfSound'
  <2>1. ask[q].at \notin HalfWay
    BY <1>3, NoAskSound DEF HalfWay
  <2> QED BY <1>1, <1>3, <2>1, NoAskSound, HalfStep
<1> QED BY <1>2, <1>5, <1>6 DEF BcInv, Rows

\* A request that fails where the platform or the database may refuse it.
LEMMA FailsKeeps == ASSUME BcInv, NEW q \in Asks, Fails(q) PROVE BcInv'
<1>1. /\ ask[q] # NoAsk /\ ask[q].at \notin HalfWay /\ ask' = [ask EXCEPT ![q] = NoAsk]
      /\ UNCHANGED <<dest, row, accounts, made, onePanel, halfMade>>
  BY DEF Fails, AskOver, HalfWay
<1> QED BY <1>1, NoAskSound, OnlyAsk

\* The steps of a request that only moves on.
LEMMA MovesKeep ==
  ASSUME BcInv, NEW q \in Asks, NEW stage \in {"store", "commit", "undo", "clear", "relink", "delete"},
         To(q, stage), UNCHANGED <<dest, row, accounts, made, onePanel, halfMade>>,
         \/ ask[q].at = "bind" /\ stage = IF ask[q].op = "create" THEN "store" ELSE "commit"
         \/ ask[q].at \in {"link", "note"} /\ stage = "undo"
         \/ IsAt(q, "patch", "read") /\ stage = "clear"
         \/ /\ IsAt(q, "patch", "read") /\ stage = "relink"
            /\ row[ask[q].dest] # NoRow => row[ask[q].dest].account = ask[q].acct
         \/ IsAt(q, "forget", "clear") /\ stage = "delete"
  PROVE  BcInv'
<1>1. PICK r : r = [ask[q] EXCEPT !.at = stage]
  OBVIOUS
<1>2. ask[q] \in AskStates /\ AskSound(ask[q]) /\ (onePanel => StillSo(ask[q])) /\ ask[q] # NoAsk
  BY AskKnown DEF IsAt
<1>3. /\ ask' = [ask EXCEPT ![q] = r] /\ r \in AskStates
      /\ r.at = stage /\ r.op = ask[q].op /\ r.dest = ask[q].dest /\ r.acct = ask[q].acct
      /\ r.ref = ask[q].ref
  BY <1>1, <1>2 DEF To, AskStates, BcInv, AskInv
<1>4. AskSound(r)
  BY <1>2, <1>3 DEF AskSound, HalfWay, IsAt
<1>5. onePanel => StillSo(r)
  BY <1>2, <1>3 DEF StillSo, HalfWay, IsAt, AskSound
<1>6. ask[q].at \in HalfWay => r.at \in HalfWay
  BY <1>3 DEF HalfWay, IsAt
<1> QED BY <1>2, <1>3, <1>4, <1>5, <1>6, OnlyAsk

\* A broadcast of the platform that was on the air or over stays one or the other.
LEMMA MadeKeeps ==
  ASSUME BcInv, UNCHANGED <<dest, row, accounts, onePanel, halfMade>>,
         made' \in [Refs -> MadeStates],
         \A n \in Refs : made[n].state \in {"live", "complete"} => made'[n].state \in {"live", "complete"}
  PROVE  Fields' /\ \A d \in Targets : RowSound(d)'
<1>1. Fields'
  BY DEF BcInv, Fields
<1>2. \A d \in Targets : RowSound(d)'
  BY DEF BcInv, Rows, RowSound, Exists, OfItsAccount
<1> QED BY <1>1, <1>2

\* The platform starts and stops a broadcast by itself.
LEMMA AutoKeeps == ASSUME BcInv, NEW n \in Refs, AutoStarts(n) \/ AutoStops(n) PROVE BcInv'
<1>1. UNCHANGED <<dest, row, accounts, ask, onePanel, halfMade>>
  BY DEF AutoStarts, AutoStops
<1>2. /\ made' \in [Refs -> MadeStates]
      /\ \A m \in Refs : made[m].state \in {"live", "complete"} => made'[m].state \in {"live", "complete"}
  <2>1. made \in [Refs -> MadeStates]
    BY DEF BcInv, Fields
  <2>2. PICK stage \in {"live", "complete"} : made' = [made EXCEPT ![n].state = stage]
    BY DEF AutoStarts, AutoStops
  <2> QED BY <2>1, <2>2 DEF MadeStates
<1>3. Fields' /\ \A d \in Targets : RowSound(d)'
  BY <1>1, <1>2, MadeKeeps
<1>4. \A q \in Asks : AskSound(ask[q]) /\ (onePanel => StillSo(ask[q]))
  BY DEF BcInv, AskInv
<1>5. ASSUME NEW q \in Asks, onePanel PROVE StillSo(ask[q])'
  <2>1. StillSo(ask[q]) /\ (ask[q].at = "stamp" => ask[q].ref \in Refs)
    BY <1>4, <1>5 DEF AskSound
  <2> QED BY <1>1, <1>2, <2>1 DEF StillSo, Exists
<1>6. AskInv'
  BY <1>1, <1>5 DEF BcInv, AskInv, AskSound, Alone
<1>7. HalfSound'
  BY <1>1 DEF BcInv, Rows, HalfSound
<1> QED BY <1>3, <1>6, <1>7 DEF BcInv, Rows

\* The insert takes a broadcast that was not made.
LEMMA InsertsKeeps == ASSUME BcInv, NEW q \in Asks, Inserts(q) PROVE BcInv'
<1> DEFINE least == CHOOSE m \in Unmades : \A o \in Unmades : m <= o
<1>1. least \in Unmades
  <2>1. Unmades \in SUBSET Refs /\ Unmades # {}
    BY DEF Unmades, Inserts
  <2>2. Refs \in SUBSET Int /\ IsFiniteSet(Refs)
    BY BroadcastConstants, FS_Interval DEF Refs
  <2>3. IsFiniteSet(Unmades) /\ Unmades \in SUBSET Int
    BY <2>1, <2>2, FS_Subset
  <2> QED BY <2>1, <2>3, LeastOfSome DEF Min
<1>2. PICK n \in Refs : n = least /\ made[n] = Unmade
  BY <1>1 DEF Unmades
<1> HIDE DEF least
<1>3. /\ ask[q].at = "insert" /\ UNCHANGED <<dest, row, accounts, onePanel, halfMade>>
      /\ made' = [made EXCEPT ![n] = [state |-> "made", owner |-> ask[q].acct]]
      /\ \/ ask' = [ask EXCEPT ![q].at = "bind", ![q].ref = n]
         \/ AskOver(q)
  BY <1>2 DEF Inserts, least
<1>4. /\ ask[q] \in AskStates /\ AskSound(ask[q]) /\ (onePanel => StillSo(ask[q])) /\ ask[q] # NoAsk
      /\ made \in [Refs -> MadeStates] /\ ask \in [Asks -> AskStates] /\ n \in 0..MaxRefs
  BY <1>3, AskKnown, BroadcastConstants DEF BcInv, Fields, AskInv, Refs
<1>5. /\ made' \in [Refs -> MadeStates]
      /\ \A m \in Refs : made[m].state \in {"live", "complete"} => made'[m].state \in {"live", "complete"}
  <2>1. [state |-> "made", owner |-> ask[q].acct] \in MadeStates
    BY <1>4 DEF MadeStates, AskStates
  <2>2. made[n].state = "none"
    BY <1>2 DEF Unmade
  <2> QED BY <1>3, <1>4, <2>1, <2>2
<1>6. Fields' /\ \A d \in Targets : RowSound(d)'
  BY <1>3, <1>5, MadeKeeps
<1>7. PICK r \in AskStates :
        /\ ask' = [ask EXCEPT ![q] = r]
        /\ \/ r = NoAsk
           \/ /\ r.at = "bind" /\ r.op = ask[q].op /\ r.dest = ask[q].dest
              /\ r.acct = ask[q].acct /\ r.ref = n
  <2>1. CASE AskOver(q)
    BY <2>1, NoAskSound DEF AskOver
  <2>2. CASE ask' = [ask EXCEPT ![q].at = "bind", ![q].ref = n]
    <3> DEFINE r == [ask[q] EXCEPT !.at = "bind", !.ref = n]
    <3>1. ask' = [ask EXCEPT ![q] = r]
      BY <1>4, <2>2
    <3>2. r \in AskStates
      BY <1>4 DEF AskStates
    <3>3. /\ r.at = "bind" /\ r.op = ask[q].op /\ r.dest = ask[q].dest
          /\ r.acct = ask[q].acct /\ r.ref = n
      BY <1>4 DEF AskStates
    <3> QED BY <3>1, <3>2, <3>3
  <2> QED BY <1>3, <2>1, <2>2
<1>8. AskSound(r)
  <2>1. CASE r = NoAsk
    BY <2>1, NoAskSound
  <2>2. CASE r # NoAsk
    BY <1>3, <1>4, <1>7, <2>2 DEF AskSound, HalfWay
  <2> QED BY <2>1, <2>2
<1>9. onePanel => StillSo(r)'
  <2>1. CASE r = NoAsk
    BY <2>1 DEF NoAsk, StillSo, HalfWay
  <2>2. CASE r # NoAsk
    BY <1>3, <1>4, <1>7, <2>2 DEF StillSo, HalfWay
  <2> QED BY <2>1, <2>2
<1>10. AskInv'
  BY <1>3, <1>4, <1>7, <1>8, <1>9, AskStep
<1>11. HalfSound'
  BY <1>3, <1>7, HalfStep DEF HalfWay
<1> QED BY <1>6, <1>10, <1>11 DEF BcInv, Rows

\* handleCreateDestinationFromAccount, its first write ...
LEMMA StoresKeeps == ASSUME BcInv, NEW q \in Asks, StoresDestination(q) PROVE BcInv'
<1>1. PICK d \in Targets :
        /\ dest[d].at = "none"
        /\ dest' = [dest EXCEPT ![d] = [New EXCEPT !.at = "there", !.key = ask[q].ref]]
        /\ ask' = [ask EXCEPT ![q].at = "link", ![q].dest = d]
        /\ halfMade' = halfMade \cup {d}
  BY DEF StoresDestination
<1>2. ask[q].at = "store" /\ UNCHANGED <<row, accounts, made, onePanel>>
  BY DEF StoresDestination
<1>3. /\ ask[q] \in AskStates /\ AskSound(ask[q]) /\ ask[q] # NoAsk
      /\ dest \in [Targets -> DestStates] /\ ask \in [Asks -> AskStates]
  BY <1>2, AskKnown DEF BcInv, Fields, AskInv
<1>4. PICK r : r = [ask[q] EXCEPT !.at = "link", !.dest = d]
  OBVIOUS
<1>5. /\ r \in AskStates /\ ask' = [ask EXCEPT ![q] = r]
      /\ r.at = "link" /\ r.op = ask[q].op /\ r.dest = d /\ r.acct = ask[q].acct /\ r.ref = ask[q].ref
  BY <1>1, <1>3, <1>4 DEF AskStates
<1>6. AskSound(r)
  BY <1>2, <1>3, <1>5 DEF AskSound, HalfWay
<1>7. /\ dest' \in [Targets -> DestStates] /\ dest'[d].at = "there" /\ dest'[d].key = r.ref
      /\ \A e \in Targets \ {d} : dest'[e] = dest[e]
  <2>1. [New EXCEPT !.at = "there", !.key = ask[q].ref] \in DestStates
    BY <1>3 DEF New, DestStates, AskStates
  <2> QED BY <1>1, <1>3, <1>5, <2>1 DEF New
<1>8. row[d] = NoRow
  BY <1>1 DEF BcInv, Rows, RowSound, Exists
<1>9. StillSo(r)'
  <2>1. r.op = "create"
    BY <1>2, <1>3, <1>5 DEF AskSound
  <2> QED BY <1>2, <1>5, <1>7, <1>8, <2>1 DEF StillSo, HalfWay
<1>10. AskInv'
  BY <1>2, <1>3, <1>5, <1>6, <1>9, AskStep
<1>11. Fields'
  BY <1>1, <1>2, <1>7 DEF BcInv, Fields
<1>12. \A e \in Targets : RowSound(e)'
  BY <1>2, <1>7, <1>8 DEF BcInv, Rows, RowSound, Exists, OfItsAccount
<1>13. HalfSound'
  <2>1. ask'[q] = r /\ \A p \in Asks \ {q} : ask'[p] = ask[p]
    BY <1>3, <1>5
  <2>2. ask[q].at \notin HalfWay
    BY <1>2 DEF HalfWay
  <2>3. r.at \in HalfWay
    BY <1>5 DEF HalfWay
  <2>4. ASSUME NEW e \in halfMade'
        PROVE  \E p \in Asks : ask'[p].at \in HalfWay /\ ask'[p].dest = e
    <3>1. CASE e = d
      BY <1>5, <2>1, <2>3, <3>1
    <3>2. CASE e # d
      <4>1. PICK p \in Asks : ask[p].at \in HalfWay /\ ask[p].dest = e
        BY <1>1, <3>2 DEF BcInv, Rows, HalfSound
      <4>2. p # q
        BY <2>2, <4>1
      <4> QED BY <2>1, <4>1, <4>2
    <3> QED BY <3>1, <3>2
  <2> QED BY <2>4 DEF HalfSound, HalfWay
<1> QED BY <1>10, <1>11, <1>12, <1>13 DEF BcInv, Rows

\* A destination without a broadcast is linked to another account.
LEMMA LinkKeeps ==
  ASSUME BcInv, NEW d \in Targets, NEW a \in Channels \cup {NoAccount}, LinkTo(d, a),
         UNCHANGED <<row, accounts, made, onePanel, halfMade>>,
         onePanel => row[d] = NoRow \/ row[d].account = a
  PROVE  /\ Fields' /\ \A e \in Targets : RowSound(e)'
         /\ dest'[d].account = a /\ dest'[d].key = dest[d].key /\ dest'[d].at = dest[d].at
         /\ \A e \in Targets \ {d} : dest'[e] = dest[e]
<1>1. dest \in [Targets -> DestStates] /\ dest' = [dest EXCEPT ![d].account = a]
  BY DEF BcInv, Fields, LinkTo
<1>2. /\ dest' \in [Targets -> DestStates]
      /\ dest'[d].account = a /\ dest'[d].key = dest[d].key /\ dest'[d].at = dest[d].at
      /\ \A e \in Targets \ {d} : dest'[e] = dest[e]
  BY <1>1 DEF DestStates
<1>3. Fields'
  BY <1>2 DEF BcInv, Fields
<1>4. \A e \in Targets : RowSound(e)'
  BY <1>2 DEF BcInv, Rows, RowSound, Exists, OfItsAccount
<1> QED BY <1>2, <1>3, <1>4

\* The new destination gets its account.
LEMMA LinksKeeps == ASSUME BcInv, NEW q \in Asks, Links(q) PROVE BcInv'
<1>1. ask[q].at = "link" /\ UNCHANGED <<row, accounts, made, onePanel, halfMade>>
  BY DEF Links
<1>2. CASE To(q, "undo") /\ UNCHANGED dest
  BY <1>1, <1>2, MovesKeep
<1>3. CASE CanLink(ask[q].dest, ask[q].acct) /\ LinkTo(ask[q].dest, ask[q].acct) /\ To(q, "note")
  <2>1. /\ ask[q] \in AskStates /\ AskSound(ask[q]) /\ (onePanel => StillSo(ask[q])) /\ ask[q] # NoAsk
        /\ ask \in [Asks -> AskStates]
    BY <1>1, AskKnown DEF BcInv, AskInv
  <2>2. PICK d \in Targets, a \in Channels : d = ask[q].dest /\ a = ask[q].acct
    BY <1>1, <2>1 DEF AskSound, HalfWay
  <2>3. PICK r : r = [ask[q] EXCEPT !.at = "note"]
    OBVIOUS
  <2>4. /\ r \in AskStates /\ ask' = [ask EXCEPT ![q] = r]
        /\ r.at = "note" /\ r.op = ask[q].op /\ r.dest = d /\ r.acct = a /\ r.ref = ask[q].ref
    BY <1>3, <2>1, <2>2, <2>3 DEF To, AskStates
  <2>5. AskSound(r)
    BY <1>1, <2>1, <2>2, <2>4 DEF AskSound, HalfWay
  <2>6. onePanel => row[d] = NoRow
    BY <1>1, <2>1, <2>2 DEF StillSo, HalfWay
  <2>7. /\ Fields' /\ \A e \in Targets : RowSound(e)'
        /\ dest'[d].account = a /\ dest'[d].key = dest[d].key /\ dest'[d].at = dest[d].at
    BY <1>1, <1>3, <2>2, <2>6, LinkKeeps
  <2>8. onePanel => StillSo(r)'
    <3>1. r.op = "create"
      BY <1>1, <2>1, <2>4 DEF AskSound, HalfWay
    <3>2. onePanel => (Exists(d) => dest[d].key = r.ref)
      BY <1>1, <2>1, <2>2, <2>4 DEF StillSo, HalfWay
    <3> QED BY <1>1, <2>4, <2>6, <2>7, <3>1, <3>2 DEF StillSo, HalfWay, Exists
  <2>9. AskInv'
    BY <1>1, <2>1, <2>4, <2>5, <2>8, AskStep
  <2>10. HalfSound'
    BY <1>1, <2>2, <2>4, HalfStep DEF HalfWay
  <2> QED BY <2>7, <2>9, <2>10 DEF BcInv, Rows
<1> QED BY <1>2, <1>3 DEF Links

\* The end of a request that has written what it had to.
LEMMA OverKeeps ==
  ASSUME BcInv, NEW q \in Asks, ask[q] # NoAsk, AskOver(q), UNCHANGED onePanel,
         halfMade' \in SUBSET halfMade,
         ask[q].at \in HalfWay => ask[q].dest \notin halfMade'
  PROVE  AskInv' /\ HalfSound'
<1>1. ask' = [ask EXCEPT ![q] = NoAsk]
  BY DEF AskOver
<1>2. StillSo(NoAsk)'
  BY DEF StillSo, NoAsk, HalfWay
<1>3. AskInv'
  BY <1>1, <1>2, NoAskSound, AskStep
<1>4. HalfSound'
  BY <1>1, NoAskSound, HalfStep
<1> QED BY <1>3, <1>4

\* A broadcast is noted for a destination and an account that are there.
LEMMA NotedKeeps ==
  ASSUME BcInv, NEW d \in Targets, NEW a \in Channels, NEW n \in Refs, CanLink(d, a),
         SetBroadcast(d, a, n), UNCHANGED <<accounts, made, onePanel>>,
         dest' \in [Targets -> DestStates], \A e \in Targets \ {d} : dest'[e] = dest[e],
         dest'[d].at = dest[d].at, halfMade' \in SUBSET halfMade,
         onePanel => dest'[d].account = a /\ dest'[d].key = n
  PROVE  Fields' /\ \A e \in Targets : RowSound(e)'
<1>1. [ref |-> n, account |-> a, status |-> "created"] \in RowStates
  BY BroadcastConstants DEF RowStates, Refs
<1>2. /\ row \in [Targets -> RowStates]
      /\ row' = [row EXCEPT ![d] = [ref |-> n, account |-> a, status |-> "created"]]
  BY DEF BcInv, Fields, SetBroadcast
<1>3. /\ row' \in [Targets -> RowStates] /\ \A e \in Targets \ {d} : row'[e] = row[e]
      /\ row'[d].ref = n /\ row'[d].account = a /\ row'[d].status = "created"
  BY <1>1, <1>2
<1>4. Fields'
  BY <1>3 DEF BcInv, Fields
<1>5. \A e \in Targets : RowSound(e)'
  BY <1>3 DEF BcInv, Rows, RowSound, Exists, OfItsAccount, CanLink
<1> QED BY <1>4, <1>5

\* The row of the broadcast is written for the new destination.
LEMMA NotesKeeps == ASSUME BcInv, NEW q \in Asks, Notes(q) PROVE BcInv'
<1>1. ask[q].at = "note" /\ UNCHANGED <<dest, accounts, made, onePanel>>
  BY DEF Notes
<1>2. CASE To(q, "undo") /\ UNCHANGED <<row, halfMade>>
  BY <1>1, <1>2, MovesKeep
<1>3. CASE /\ CanLink(ask[q].dest, ask[q].acct) /\ SetBroadcast(ask[q].dest, ask[q].acct, ask[q].ref)
           /\ AskOver(q) /\ halfMade' = halfMade \ {ask[q].dest}
  <2>1. AskSound(ask[q]) /\ (onePanel => StillSo(ask[q])) /\ ask[q] # NoAsk
    BY <1>1, AskKnown
  <2>2. PICK d \in Targets, a \in Channels, n \in Refs : d = ask[q].dest /\ a = ask[q].acct /\ n = ask[q].ref
    BY <1>1, <2>1 DEF AskSound, HalfWay
  <2>3. onePanel => dest[d].account = a /\ dest[d].key = n
    BY <1>1, <1>3, <2>1, <2>2 DEF StillSo, HalfWay, CanLink
  <2>4. dest' = dest /\ dest \in [Targets -> DestStates]
    BY <1>1 DEF BcInv, Fields
  <2>5. Fields' /\ \A e \in Targets : RowSound(e)'
    BY <1>1, <1>3, <2>2, <2>3, <2>4, NotedKeeps
  <2>6. AskInv' /\ HalfSound'
    BY <1>1, <1>3, <2>1, OverKeeps
  <2> QED BY <2>5, <2>6 DEF BcInv, Rows
<1> QED BY <1>2, <1>3 DEF Notes

\* A destination that could not be finished is deleted again.
LEMMA UndoesKeeps == ASSUME BcInv, NEW q \in Asks, Undoes(q) PROVE BcInv'
<1>1. /\ ask[q].at = "undo" /\ AskOver(q) /\ halfMade' = halfMade \ {ask[q].dest}
      /\ UNCHANGED <<accounts, made, onePanel>>
  BY DEF Undoes
<1>2. AskSound(ask[q]) /\ ask[q] # NoAsk
  BY <1>1, AskKnown
<1>3. AskInv' /\ HalfSound'
  BY <1>1, <1>2, OverKeeps
<1>4. Fields' /\ \A e \in Targets : RowSound(e)'
  <2>1. CASE UNCHANGED <<dest, row>>
    BY <1>1, <2>1 DEF BcInv, Fields, Rows, RowSound, Exists, OfItsAccount
  <2>2. CASE DropDest(ask[q].dest)
    <3>1. PICK d \in Targets : d = ask[q].dest
      BY <1>1, <1>2 DEF AskSound, HalfWay
    <3> QED BY <1>1, <2>2, <3>1, DropKeeps
  <2> QED BY <2>1, <2>2 DEF Undoes
<1> QED BY <1>3, <1>4 DEF BcInv, Rows

\* Key and row of an existing destination are written together.
LEMMA CommitsKeeps == ASSUME BcInv, NEW q \in Asks, Commits(q) PROVE BcInv'
<1>1. /\ ask[q].at = "commit" /\ CanLink(ask[q].dest, ask[q].acct)
      /\ SetBroadcast(ask[q].dest, ask[q].acct, ask[q].ref) /\ AskOver(q)
      /\ dest' = [dest EXCEPT ![ask[q].dest].key = ask[q].ref]
      /\ UNCHANGED <<accounts, made, onePanel, halfMade>>
  BY DEF Commits
<1>2. AskSound(ask[q]) /\ (onePanel => StillSo(ask[q])) /\ ask[q] # NoAsk
  BY <1>1, AskKnown
<1>3. PICK d \in Targets, a \in Channels, n \in Refs : d = ask[q].dest /\ a = ask[q].acct /\ n = ask[q].ref
  BY <1>1, <1>2 DEF AskSound
<1>4. onePanel => dest[d].account = a
  BY <1>1, <1>2, <1>3 DEF StillSo, AskSound
<1>5. /\ dest' \in [Targets -> DestStates] /\ \A e \in Targets \ {d} : dest'[e] = dest[e]
      /\ dest'[d].at = dest[d].at /\ dest'[d].account = dest[d].account /\ dest'[d].key = n
  <2>1. dest \in [Targets -> DestStates] /\ n \in 0..MaxRefs
    BY BroadcastConstants DEF BcInv, Fields, Refs
  <2> QED BY <1>1, <1>3, <2>1 DEF DestStates
<1>6. Fields' /\ \A e \in Targets : RowSound(e)'
  BY <1>1, <1>3, <1>4, <1>5, NotedKeeps
<1>7. AskInv' /\ HalfSound'
  BY <1>1, <1>2, OverKeeps DEF HalfWay
<1> QED BY <1>6, <1>7 DEF BcInv, Rows

\* StartBroadcast and EndBroadcast: whoever goes on to stamp has seen the platform do it.
LEMMA TransitionsKeeps == ASSUME BcInv, NEW q \in Asks, Transitions(q) PROVE BcInv'
<1>1. /\ ask[q].at = "transition" /\ UNCHANGED <<dest, row, accounts, onePanel, halfMade>>
      /\ To(q, "stamp") \/ AskOver(q)
  BY DEF Transitions
<1>2. /\ ask[q] \in AskStates /\ AskSound(ask[q]) /\ (onePanel => StillSo(ask[q])) /\ ask[q] # NoAsk
      /\ made \in [Refs -> MadeStates] /\ ask \in [Asks -> AskStates]
  BY <1>1, AskKnown DEF BcInv, Fields, AskInv
<1>3. PICK n \in Refs : n = ask[q].ref
  BY <1>1, <1>2 DEF AskSound
<1>4. /\ made' \in [Refs -> MadeStates]
      /\ \A m \in Refs : made[m].state \in {"live", "complete"} => made'[m].state \in {"live", "complete"}
      /\ ask[q].op = "live" => made'[n].state = "live"
  <2>1. \/ ask[q].op = "live" /\ made' = [made EXCEPT ![n].state = "live"]
        \/ ask[q].op = "complete" /\ made' = [made EXCEPT ![n].state = "complete"]
        \/ ask[q].op = "complete" /\ made' = made
    BY <1>3 DEF Transitions
  <2> QED BY <1>2, <2>1 DEF MadeStates
<1>5. Fields' /\ \A d \in Targets : RowSound(d)'
  BY <1>1, <1>4, MadeKeeps
<1>6. CASE AskOver(q)
  <2>1. AskInv' /\ HalfSound'
    BY <1>1, <1>2, <1>6, OverKeeps DEF HalfWay
  <2> QED BY <1>5, <2>1 DEF BcInv, Rows
<1>7. CASE To(q, "stamp")
  <2>1. PICK r : r = [ask[q] EXCEPT !.at = "stamp"]
    OBVIOUS
  <2>2. /\ r \in AskStates /\ ask' = [ask EXCEPT ![q] = r]
        /\ r.at = "stamp" /\ r.op = ask[q].op /\ r.dest = ask[q].dest /\ r.acct = ask[q].acct /\ r.ref = n
    BY <1>2, <1>3, <1>7, <2>1 DEF To, AskStates
  <2>3. AskSound(r)
    BY <1>1, <1>2, <2>2 DEF AskSound, HalfWay
  <2>4. onePanel => StillSo(r)'
    <3>1. r.op \in {"live", "complete"}
      BY <1>1, <1>2, <2>2 DEF AskSound
    <3>2. onePanel => (row[r.dest] # NoRow => row[r.dest].ref = r.ref)
      BY <1>1, <1>2, <1>3, <2>2 DEF StillSo
    <3> QED BY <1>1, <1>4, <2>2, <3>1, <3>2 DEF StillSo, HalfWay
  <2>5. AskInv'
    BY <1>1, <1>2, <2>2, <2>3, <2>4, AskStep
  <2>6. HalfSound'
    BY <1>1, <2>2, HalfStep DEF HalfWay
  <2> QED BY <1>5, <2>5, <2>6 DEF BcInv, Rows
<1> QED BY <1>1, <1>6, <1>7

\* The row follows what the platform has been asked to do.
LEMMA StampsKeeps == ASSUME BcInv, NEW q \in Asks, Stamps(q) PROVE BcInv'
<1>1. ask[q].at = "stamp" /\ AskOver(q) /\ UNCHANGED <<dest, accounts, made, onePanel, halfMade>>
  BY DEF Stamps
<1>2. AskSound(ask[q]) /\ (onePanel => StillSo(ask[q])) /\ ask[q] # NoAsk
  BY <1>1, AskKnown
<1>3. AskInv' /\ HalfSound'
  BY <1>1, <1>2, OverKeeps DEF HalfWay
<1>4. PICK d \in Targets, op \in {"live", "complete"} : d = ask[q].dest /\ op = ask[q].op
  BY <1>1, <1>2 DEF AskSound
<1>5. row \in [Targets -> RowStates] /\ row' = IF row[d] = NoRow THEN row ELSE [row EXCEPT ![d].status = op]
  BY <1>4 DEF Stamps, BcInv, Fields
<1>6. CASE row[d] = NoRow
  <2>1. row' = row
    BY <1>5, <1>6
  <2>2. Fields' /\ \A e \in Targets : RowSound(e)'
    BY <1>1, <2>1 DEF BcInv, Fields, Rows, RowSound, Exists, OfItsAccount
  <2> QED BY <1>3, <2>2 DEF BcInv, Rows
<1>7. CASE row[d] # NoRow
  <2>1. /\ row' \in [Targets -> RowStates] /\ \A e \in Targets \ {d} : row'[e] = row[e]
        /\ row'[d].status = op /\ row'[d].ref = row[d].ref /\ row'[d].account = row[d].account
    BY <1>5, <1>7 DEF RowStates
  <2>2. onePanel /\ op = "live" => made[row[d].ref].state \in {"live", "complete"}
    BY <1>1, <1>2, <1>4, <1>7 DEF StillSo
  <2>3. Fields'
    BY <1>1, <2>1 DEF BcInv, Fields
  <2>4. RowSound(d)'
    BY <1>1, <1>7, <2>1, <2>2 DEF BcInv, Rows, RowSound, Exists, OfItsAccount
  <2>5. \A e \in Targets : RowSound(e)'
    BY <1>1, <2>1, <2>4 DEF BcInv, Rows, RowSound, Exists, OfItsAccount
  <2> QED BY <1>3, <2>3, <2>5 DEF BcInv, Rows
<1> QED BY <1>6, <1>7

\* A broadcast's row is cleared.
LEMMA ClearedKeeps ==
  ASSUME BcInv, NEW d \in Targets, row' = [row EXCEPT ![d] = NoRow],
         UNCHANGED <<dest, accounts, made, onePanel, halfMade>>
  PROVE  Fields' /\ \A e \in Targets : RowSound(e)' /\ row'[d] = NoRow
<1>1. NoRow \in RowStates /\ row \in [Targets -> RowStates]
  BY BroadcastConstants DEF NoRow, RowStates, BcInv, Fields
<1>2. row' \in [Targets -> RowStates] /\ row'[d] = NoRow /\ \A e \in Targets \ {d} : row'[e] = row[e]
  BY <1>1
<1>3. Fields'
  BY <1>2 DEF BcInv, Fields
<1>4. \A e \in Targets : RowSound(e)'
  BY <1>2 DEF BcInv, Rows, RowSound, Exists, OfItsAccount
<1> QED BY <1>2, <1>3, <1>4

\* PATCH of a destination: the row of another account goes before the account changes.
LEMMA PatchKeeps ==
  ASSUME BcInv, NEW q \in Asks, PatchReads(q) \/ PatchClears(q) \/ PatchRelinks(q)
  PROVE  BcInv'
<1>0. /\ ask[q] \in AskStates /\ AskSound(ask[q]) /\ (onePanel => StillSo(ask[q])) /\ ask[q] # NoAsk
      /\ ask \in [Asks -> AskStates]
  BY AskKnown DEF PatchReads, PatchClears, PatchRelinks, IsAt, BcInv, AskInv
<1>1. CASE PatchReads(q)
  <2>1. /\ IsAt(q, "patch", "read") /\ UNCHANGED <<dest, row, accounts, made, onePanel, halfMade>>
        /\ \/ To(q, "clear")
           \/ /\ To(q, "relink")
              /\ row[ask[q].dest] # NoRow => row[ask[q].dest].account = ask[q].acct
    BY <1>1 DEF PatchReads
  <2> QED BY <2>1, MovesKeep
<1>2. CASE PatchClears(q)
  <2>1. /\ ask[q].op = "patch" /\ ask[q].at = "clear" /\ row' = [row EXCEPT ![ask[q].dest] = NoRow]
        /\ To(q, "relink") /\ UNCHANGED <<dest, accounts, made, onePanel, halfMade>>
    BY <1>2 DEF PatchClears, IsAt
  <2>2. PICK d \in Targets : d = ask[q].dest
    BY <1>0, <2>1 DEF AskSound
  <2>3. Fields' /\ \A e \in Targets : RowSound(e)' /\ row'[d] = NoRow
    BY <2>1, <2>2, ClearedKeeps
  <2>4. PICK r : r = [ask[q] EXCEPT !.at = "relink"]
    OBVIOUS
  <2>5. /\ r \in AskStates /\ ask' = [ask EXCEPT ![q] = r]
        /\ r.at = "relink" /\ r.op = "patch" /\ r.dest = d
    BY <1>0, <2>1, <2>2, <2>4 DEF To, AskStates
  <2>6. AskSound(r) /\ StillSo(r)'
    BY <2>1, <2>3, <2>5 DEF AskSound, StillSo, HalfWay
  <2>7. AskInv'
    BY <1>0, <2>1, <2>5, <2>6, AskStep
  <2>8. HalfSound'
    BY <2>1, <2>5, HalfStep DEF HalfWay
  <2> QED BY <2>3, <2>7, <2>8 DEF BcInv, Rows
<1>3. CASE PatchRelinks(q)
  <2>1. ask[q].at = "relink" /\ AskOver(q) /\ UNCHANGED <<row, accounts, made, onePanel, halfMade>>
    BY <1>3 DEF PatchRelinks
  <2>2. PICK d \in Targets, a \in Channels \cup {NoAccount} : d = ask[q].dest /\ a = ask[q].acct
    BY <1>0, <2>1 DEF AskSound, AskStates
  <2>3. AskInv' /\ HalfSound'
    BY <1>0, <2>1, OverKeeps DEF HalfWay
  <2>4. Fields' /\ \A e \in Targets : RowSound(e)'
    <3>1. CASE UNCHANGED dest
      BY <2>1, <3>1 DEF BcInv, Fields, Rows, RowSound, Exists, OfItsAccount
    <3>2. CASE LinkTo(d, a)
      <4>1. onePanel => row[d] = NoRow \/ row[d].account = a
        BY <1>0, <2>1, <2>2 DEF StillSo
      <4> QED BY <2>1, <3>2, <4>1, LinkKeeps
    <3> QED BY <1>3, <2>2, <3>1, <3>2 DEF PatchRelinks
  <2> QED BY <2>3, <2>4 DEF BcInv, Rows
<1> QED BY <1>1, <1>2, <1>3

\* The account is forgotten: its rows go first, and then its destinations' links.
LEMMA ForgetKeeps == ASSUME BcInv, NEW q \in Asks, ForgetClears(q) \/ DeletesAccount(q) PROVE BcInv'
<1>0. ask[q] # NoAsk /\ (onePanel => StillSo(ask[q])) /\ ask[q] \in AskStates /\ AskSound(ask[q])
  BY AskKnown DEF ForgetClears, DeletesAccount, IsAt
<1>1. CASE ForgetClears(q)
  <2>1. IsAt(q, "forget", "clear") /\ UNCHANGED <<dest, accounts, made, onePanel, halfMade>>
    BY <1>1 DEF ForgetClears
  <2>2. CASE To(q, "delete") /\ UNCHANGED row
    BY <2>1, <2>2, MovesKeep
  <2>3. ASSUME NEW d \in Targets, row' = [row EXCEPT ![d] = NoRow], UNCHANGED ask PROVE BcInv'
    <3>1. Fields' /\ \A e \in Targets : RowSound(e)'
      BY <2>1, <2>3, ClearedKeeps
    <3>2. PICK r \in AskStates : r = ask[q]
      BY <1>0
    <3>3. ask' = [ask EXCEPT ![q] = r] /\ r.at = "clear" /\ r.op = "forget"
      BY <2>1, <2>3, <3>2 DEF IsAt, BcInv, AskInv
    <3>4. AskSound(r) /\ StillSo(r)'
      BY <3>3, <1>0, <3>2 DEF StillSo, HalfWay
    <3>5. AskInv'
      BY <1>0, <2>1, <3>3, <3>4, AskStep
    <3>6. HalfSound'
      BY <2>1, <2>3 DEF BcInv, Rows, HalfSound
    <3> QED BY <3>1, <3>5, <3>6 DEF BcInv, Rows
  <2> QED BY <1>1, <2>2, <2>3 DEF ForgetClears
<1>2. CASE DeletesAccount(q)
  <2>1. /\ IsAt(q, "forget", "delete") /\ AskOver(q) /\ UNCHANGED <<made, onePanel, halfMade>>
        /\ accounts' = accounts \ {ask[q].acct}
        /\ dest' = [d \in Targets |-> IF dest[d].account = ask[q].acct
                                        THEN [dest[d] EXCEPT !.account = NoAccount] ELSE dest[d]]
        /\ row' = [d \in Targets |-> IF row[d].account = ask[q].acct THEN NoRow ELSE row[d]]
    BY <1>2 DEF DeletesAccount
  <2>2. AskInv' /\ HalfSound'
    BY <1>0, <2>1, OverKeeps DEF IsAt, HalfWay
  <2>3. /\ dest \in [Targets -> DestStates] /\ row \in [Targets -> RowStates]
        /\ NoRow \in RowStates
    BY BroadcastConstants DEF BcInv, Fields, NoRow, RowStates
  <2>4. /\ dest' \in [Targets -> DestStates] /\ row' \in [Targets -> RowStates]
        /\ \A d \in Targets : /\ dest'[d].at = dest[d].at /\ dest'[d].key = dest[d].key
                              /\ dest[d].account # ask[q].acct => dest'[d].account = dest[d].account
                              /\ row'[d] # NoRow => row'[d] = row[d] /\ row[d].account # ask[q].acct
    BY <2>1, <2>3 DEF DestStates
  <2>5. Fields'
    BY <2>1, <2>4 DEF BcInv, Fields
  <2>6. \A d \in Targets : RowSound(d)'
    BY <2>1, <2>4 DEF BcInv, Rows, RowSound, Exists, OfItsAccount
  <2> QED BY <2>2, <2>5, <2>6 DEF BcInv, Rows
<1> QED BY <1>1, <1>2

\* The process dies, and every request with it.
LEMMA DiesKeeps == ASSUME BcInv, Dies PROVE BcInv'
<1>1. /\ ask' = [q \in Asks |-> NoAsk] /\ halfMade' = {}
      /\ UNCHANGED <<dest, row, accounts, made, onePanel>>
  BY DEF Dies
<1>2. ask' \in [Asks -> AskStates] /\ \A q \in Asks : ask'[q] = NoAsk
  BY <1>1, NoAskSound
<1>3. ASSUME NEW q \in Asks PROVE AskSound(ask[q])' /\ StillSo(ask[q])'
  <2>1. ask'[q].at = "free" /\ ask'[q].op = "none" /\ ask'[q] = NoAsk
    BY <1>2 DEF NoAsk
  <2> QED BY <2>1 DEF AskSound, StillSo, HalfWay
<1>4. AskInv'
  BY <1>2, <1>3 DEF AskInv, Alone
<1>5. Fields' /\ Rows'
  BY <1>1 DEF BcInv, Fields, Rows, RowSound, HalfSound, Exists, OfItsAccount
<1> QED BY <1>4, <1>5 DEF BcInv

\* No step of the broadcasts breaks the invariant.
LEMMA BcStepKeeps == ASSUME BcInv, [BcNext]_bcVars PROVE BcInv'
<1>1. CASE UNCHANGED bcVars
  BY <1>1 DEF bcVars, BcInv, Fields, AskInv, Rows, AskSound, StillSo, Alone, RowSound, HalfSound,
              Exists, OfItsAccount
<1>2. ASSUME NEW q \in Asks, Binds(q) PROVE BcInv'
  <2>1. /\ ask[q].at = "bind" /\ To(q, IF ask[q].op = "create" THEN "store" ELSE "commit")
        /\ UNCHANGED <<dest, row, accounts, made, onePanel, halfMade>>
    BY <1>2 DEF Binds
  <2> QED BY <2>1, MovesKeep
<1> QED
  BY <1>1, <1>2, DiesKeeps, AutoKeeps, AsksKeep, PatchBeginsKeeps, DeletesDestinationKeeps, FailsKeeps,
     InsertsKeeps, StoresKeeps, LinksKeeps, NotesKeeps, UndoesKeeps, CommitsKeeps, TransitionsKeeps,
     StampsKeeps, PatchKeeps, ForgetKeeps
  DEF BcNext

\* The broadcasts and their rows (httpapi/broadcasts.go) keep their inductive invariant.
THEOREM BroadcastHolds == BcSpec => []BcInv
BY BcInitInv, BcStepKeeps, PTL DEF BcSpec

\* What the run checks follows from it.
LEMMA BcImplied == BcInv => RowsAgree
<1> SUFFICES ASSUME BcInv PROVE RowsAgree
  OBVIOUS
<1>1. BcTypeOK
  <2>1. \A q \in Asks : ask[q].at = "free" <=> ask[q] = NoAsk
    BY NoAskSound DEF BcInv, AskInv, AskSound
  <2> QED BY <2>1 DEF BcInv, Fields, BcTypeOK, DestStates, RowStates, MadeStates
<1>2. NoHalfMadeDestination
  <2>1. \A q \in Asks : ask[q].at \in HalfWay => ask[q].op = "create"
    BY DEF BcInv, AskInv, AskSound
  <2> QED BY <2>1 DEF BcInv, Rows, HalfSound, NoHalfMadeDestination
<1> QED BY <1>1, <1>2 DEF RowsAgree, BcInv, Rows, RowSound

\* For any destinations, accounts and number of requests, a row belongs to a destination
\* that is there and to an account that is connected; and with one panel also to the
\* account of its destination, with its key and no more than its state
\* (handleCreateBroadcast, transicionEmision, handlePatchDestination).
THEOREM RowsKeepAgreeing == BcSpec => []RowsAgree
BY BroadcastHolds, BcImplied, PTL

-----------------------------------------------------------------------------
HubPlaces     == {"start", "take", "signal", "wait", "register"}
SessionPlaces == {"off", "listing", "adding", "live", "closing", "grace"} \cup HubPlaces
RequestPlaces == {"idle", "applying", "building", "removing", "remove"} \cup HubPlaces
SinkStates    == [dest : Dests, session : 0..MaxSessions,
                  state : {"built", "running", "stopping", "ended"}]
JobStates     == [dest : Dests \cup {0}, sink : Nat, old : Nat]

HotFields ==
  /\ table \in [Dests -> {"absent", "enabled", "disabled", "deleted"}]
  /\ \E n \in 0..MaxSinks : DOMAIN sinks = 1..n
  /\ sinks \in [DOMAIN sinks -> SinkStates] /\ fed \subseteq DOMAIN sinks
  /\ hub \in [Dests -> Nat]
  /\ sessions \in 0..MaxSessions /\ sessionID \in 0..sessions
  /\ want \in [Requests -> {"enabled", "disabled"}]

HotPlaces ==
  /\ place \in [Processes -> SessionPlaces \cup RequestPlaces]
  /\ place["publisher"] \in SessionPlaces /\ \A h \in Requests : place[h] \in RequestPlaces
  /\ todo \in [Processes -> SUBSET Dests] /\ job \in [Processes -> JobStates]
  /\ \A a \in Processes :
       /\ place[a] \in HubPlaces \cup {"building", "removing", "remove"} => job[a].dest \in Dests
       /\ place[a] \in {"removing", "remove"} => job[a].sink = 0

\* A process that adds a sink has it in hand until it is registered; one that stops a
\* sink has taken it out of the registry.
Adds(a)  == \/ place[a] \in {"start", "take", "register"}
            \/ place[a] \in {"signal", "wait"} /\ job[a].sink # 0
Stops(a) == place[a] \in {"signal", "wait"}

\* What is registered runs; what is in hand was never fed, and nobody else has it; what
\* is being stopped is not registered.
Registered == \A d \in Dests : hub[d] # 0 =>
                 hub[d] \in fed /\ State(hub[d]) = "running" /\ sinks[hub[d]].dest = d
Fresh(a)   == Adds(a) => /\ job[a].sink \in DOMAIN sinks \ fed
                         /\ sinks[job[a].sink].dest = job[a].dest
                         /\ State(job[a].sink) = IF place[a] = "start" THEN "built" ELSE "running"
OldOut(a)  == Stops(a) => job[a].old \in fed /\ \A d \in Dests : hub[d] # job[a].old
EachItsOwn == \A a, b \in Processes : Adds(a) /\ Adds(b) /\ a # b => job[a].sink # job[b].sink
Registry   == Registered /\ (\A a \in Processes : Fresh(a) /\ OldOut(a)) /\ EachItsOwn

\* With one user: one process at a time is at work.
OneBusy == \A a, b \in Processes : ~Quiet(a) /\ ~Quiet(b) => a = b

\* Sinks are built, added and removed during a session, and have its number.
InSession ==
  /\ sessionID = 0 <=> place["publisher"] = "off"
  /\ \A x \in DOMAIN sinks : sinks[x].session \in 1..sessions
  /\ \A a \in Processes : place[a] \in HubPlaces \cup {"building", "remove"} => sessionID # 0
  /\ \A a \in Processes : Adds(a) => sinks[job[a].sink].session = sessionID
  /\ place["publisher"] \in {"off", "grace"} => \A d \in Dests : hub[d] = 0

\* What runs is registered or in hand; the destination in hand has no registered sink
\* once the old one was taken out.
Handled ==
  /\ \A x \in DOMAIN sinks : State(x) = "running" =>
       \/ hub[sinks[x].dest] = x
       \/ \E a \in Processes : \/ Adds(a) /\ job[a].sink = x
                               \/ place[a] = "signal" /\ job[a].old = x
  /\ \A a \in Processes : /\ place[a] \in {"signal", "wait", "register"} => hub[job[a].dest] = 0
                          /\ place[a] = "signal" => State(job[a].old) = "running"

\* What was fed in this session and still writes is registered or being stopped, until
\* the hub has been closed.
WritersKnown ==
  \A x \in DOMAIN sinks : Writes(x) =>
    \/ hub[sinks[x].dest] = x
    \/ \E a \in Processes : Stops(a) /\ job[a].old = x
    \/ sinks[x].session # sessionID
    \/ place["publisher"] = "grace"

\* What is left to do agrees with the table: a destination that is not enabled is fed
\* only while a request is about to remove it.
ToDo ==
  /\ \A h \in Requests : /\ place[h] = "idle" => todo[h] = {}
                         /\ \A d \in todo[h] : table[d] = want[h]
                         /\ place[h] = "building" => table[job[h].dest] = "enabled"
  /\ place["publisher"] \notin {"adding"} \cup HubPlaces => todo["publisher"] = {}
  /\ \A d \in todo["publisher"] : table[d] = "enabled"
  /\ \A a \in Processes : Adds(a) => table[job[a].dest] = "enabled"
Allowed ==
  \A d \in Dests : table[d] # "enabled" /\ hub[d] # 0 =>
    \E h \in Requests : \/ ~Quiet(h) /\ want[h] = "disabled" /\ d \in todo[h]
                        \/ place[h] \in {"removing", "remove"} /\ job[h].dest = d

Orderly == OneBusy /\ InSession /\ Handled /\ WritersKnown /\ NoDoubleWrite /\ ToDo /\ Allowed
HotInv  == HotFields /\ HotPlaces /\ Registry /\ (OneAtATime => Orderly)

-----------------------------------------------------------------------------
\* Nobody but a is at work.
OthersQuiet(a) == \A b \in Processes \ {a} : Quiet(b)

\* The step of one process leaves the others where they are, with what they have in hand.
OthersStay(a) == \A b \in Processes \ {a} : place'[b] = place[b] /\ job'[b] = job[b]

\* Nothing is on the air and nobody asks for anything.
LEMMA HotInitInv == HotInit => HotInv
<1> SUFFICES ASSUME HotInit PROVE HotInv
  OBVIOUS
<1> USE HotBounds DEF HotInit
<1>1. DOMAIN sinks = 1..0
  OBVIOUS
<1>2. HotFields
  <2>1. 0 \in 0..MaxSinks
    BY HotBounds
  <2>2. \E n \in 0..MaxSinks : DOMAIN sinks = 1..n
    BY <1>1, <2>1
  <2>3. sinks \in [DOMAIN sinks -> SinkStates] /\ fed \subseteq DOMAIN sinks
    OBVIOUS
  <2>4. /\ hub \in [Dests -> Nat] /\ want \in [Requests -> {"enabled", "disabled"}]
        /\ table \in [Dests -> {"absent", "enabled", "disabled", "deleted"}]
    OBVIOUS
  <2>5. sessions \in 0..MaxSessions /\ sessionID \in 0..sessions
    OBVIOUS
  <2> HIDE HotBounds DEF HotInit
  <2> QED BY <2>2, <2>3, <2>4, <2>5 DEF HotFields
<1>3. /\ \A a \in Processes : place[a] = IF a = "publisher" THEN "off" ELSE "idle"
      /\ \A a \in Processes : Quiet(a) /\ ~Adds(a) /\ ~Stops(a) /\ todo[a] = {}
  BY DEF Quiet, Adds, Stops, Processes
<1>4. HotPlaces
  BY <1>3 DEF HotPlaces, SessionPlaces, RequestPlaces, JobStates, NoJob, Processes, HubPlaces
<1>5. Registry
  BY <1>1, <1>3 DEF Registry, Registered, Fresh, OldOut, EachItsOwn
<1>6. Orderly
  <2>1. OneBusy /\ WritersKnown /\ NoDoubleWrite /\ Allowed
    BY <1>1, <1>3 DEF OneBusy, WritersKnown, NoDoubleWrite, Allowed
  <2>2. InSession
    BY <1>1, <1>3 DEF InSession, HubPlaces, Processes
  <2>3. Handled
    BY <1>1, <1>3 DEF Handled, Processes
  <2>4. ToDo
    BY <1>3 DEF ToDo, Processes
  <2> QED BY <2>1, <2>2, <2>3, <2>4 DEF Orderly
<1> QED BY <1>2, <1>4, <1>5, <1>6 DEF HotInv

\* Where a process goes, and what it has in hand there.
LEMMA PlacesStep ==
  ASSUME HotPlaces, NEW a \in Processes, NEW s, place' = [place EXCEPT ![a] = s],
         s \in IF a = "publisher" THEN SessionPlaces ELSE RequestPlaces,
         todo' \in [Processes -> SUBSET Dests], job' \in [Processes -> JobStates],
         \A b \in Processes \ {a} : job'[b] = job[b],
         s \in HubPlaces \cup {"building", "removing", "remove"} => job'[a].dest \in Dests,
         s \in {"removing", "remove"} => job'[a].sink = 0
  PROVE  HotPlaces' /\ place'[a] = s /\ OthersStay(a)
<1>1. place'[a] = s /\ \A b \in Processes \ {a} : place'[b] = place[b]
  BY DEF HotPlaces
<1>2. "publisher" \in Processes /\ Requests \subseteq Processes
  BY DEF Processes
<1>3. place' \in [Processes -> SessionPlaces \cup RequestPlaces]
  BY DEF HotPlaces
<1>4. place'["publisher"] \in SessionPlaces
  BY <1>1, <1>2 DEF HotPlaces
<1>5. ASSUME NEW h \in Requests PROVE place'[h] \in RequestPlaces
  BY <1>1, <1>2, <1>5, HotBounds DEF HotPlaces
<1>6. ASSUME NEW b \in Processes, place'[b] \in HubPlaces \cup {"building", "removing", "remove"}
      PROVE  job'[b].dest \in Dests
  BY <1>1, <1>6 DEF HotPlaces
<1>7. ASSUME NEW b \in Processes, place'[b] \in {"removing", "remove"} PROVE job'[b].sink = 0
  BY <1>1, <1>7 DEF HotPlaces
<1>8. OthersStay(a)
  BY <1>1 DEF OthersStay
<1> QED BY <1>1, <1>3, <1>4, <1>5, <1>6, <1>7, <1>8 DEF HotPlaces

\* A process that goes on outside the hub leaves the registry as it is.
LEMMA RegistryMoves ==
  ASSUME HotInv, NEW a \in Processes, UNCHANGED <<sinks, fed, hub>>, OthersStay(a),
         place'[a] \notin HubPlaces
  PROVE  Registry'
<1>1. Registered'
  BY DEF HotInv, Registry, Registered, State
<1>2. ~Adds(a)' /\ ~Stops(a)'
  BY DEF Adds, Stops, HubPlaces
<1>3. ASSUME NEW b \in Processes \ {a}
      PROVE  Adds(b)' = Adds(b) /\ Stops(b)' = Stops(b) /\ place'[b] = place[b] /\ job'[b] = job[b]
  BY <1>3 DEF Adds, Stops, OthersStay
<1>4. ASSUME NEW b \in Processes PROVE Fresh(b)' /\ OldOut(b)'
  <2>1. CASE b = a
    BY <1>2, <2>1 DEF Fresh, OldOut
  <2>2. CASE b # a
    BY <1>3, <2>2 DEF HotInv, Registry, Fresh, OldOut, State
  <2> QED BY <2>1, <2>2
<1>5. EachItsOwn'
  BY <1>2, <1>3 DEF HotInv, Registry, EachItsOwn
<1> QED BY <1>1, <1>4, <1>5 DEF Registry

\* Who is at work is alone, with one user; and so is who begins.
LEMMA AloneAtWork ==
  ASSUME HotInv, OneAtATime, NEW a \in Processes, ~Quiet(a) \/ MayBegin(a)
  PROVE  OthersQuiet(a)
BY DEF HotInv, Orderly, OneBusy, OthersQuiet, MayBegin

\* Who is quiet has nothing in hand.
LEMMA QuietPlaces ==
  ASSUME NEW b \in Processes, Quiet(b)
  PROVE  /\ place[b] \notin HubPlaces \cup {"building", "removing", "remove", "applying", "adding", "grace"}
         /\ ~Adds(b) /\ ~Stops(b)
BY DEF Quiet, HubPlaces, Adds, Stops

\* A process that was alone at work, or begins alone, still is.
LEMMA OneBusyKept ==
  ASSUME NEW a \in Processes, OthersQuiet(a), OthersStay(a)
  PROVE  OneBusy' /\ \A b \in Processes \ {a} : Quiet(b)'
BY DEF OneBusy, OthersQuiet, OthersStay, Quiet

\* A process that goes on outside the hub, from outside the hub, in the same session.
LEMMA OrderlyMoves ==
  ASSUME HotInv, OneAtATime, NEW a \in Processes, OthersQuiet(a), OthersStay(a),
         UNCHANGED <<sinks, fed, hub, sessionID, sessions>>,
         place[a] \notin HubPlaces, place'[a] \notin HubPlaces,
         a = "publisher" => place[a] \notin {"off", "grace"} /\ place'[a] \notin {"off", "grace"},
         place'[a] \in {"building", "remove"} => sessionID # 0
  PROVE  OneBusy' /\ InSession' /\ Handled' /\ WritersKnown' /\ NoDoubleWrite'
<1> USE DEF HotInv
<1>1. \A b \in Processes : /\ ~Adds(b) /\ ~Stops(b) /\ place[b] \notin HubPlaces
                           /\ ~Adds(b)' /\ ~Stops(b)' /\ place'[b] \notin HubPlaces
  BY QuietPlaces DEF OthersQuiet, OthersStay, Adds, Stops, HubPlaces
<1>2. OneBusy'
  BY OneBusyKept
<1>3. "publisher" \in Processes
  BY DEF Processes
<1>4. /\ place'["publisher"] = "off" <=> place["publisher"] = "off"
      /\ place'["publisher"] = "grace" <=> place["publisher"] = "grace"
  BY <1>3 DEF OthersStay
<1>5. InSession'
  <2>1. \A b \in Processes : place'[b] \in HubPlaces \cup {"building", "remove"} => sessionID # 0
    BY <1>1 DEF Orderly, InSession, OthersStay
  <2> QED BY <1>1, <1>4, <2>1 DEF Orderly, InSession
<1>6. Handled'
  BY <1>1 DEF Orderly, Handled, State, HubPlaces
<1>7. WritersKnown' /\ NoDoubleWrite'
  BY <1>1, <1>4 DEF Orderly, WritersKnown, NoDoubleWrite, Writes, State
<1> QED BY <1>2, <1>5, <1>6, <1>7

-----------------------------------------------------------------------------
\* The session, outside the hub: the publisher is a process and no request.
LEMMA PublisherHere == "publisher" \in Processes /\ "publisher" \notin Requests
                       /\ \A h \in Requests : h \in Processes /\ h # "publisher"
BY HotBounds DEF Processes

\* startSession lists what is enabled.
LEMMA ListEnabledKeeps == ASSUME HotInv, ListEnabled PROVE HotInv'
<1> USE DEF HotInv, relay
<1> DEFINE a == "publisher"
<1>0. a \in Processes /\ place[a] = "listing" /\ a \notin Requests
  BY PublisherHere DEF ListEnabled
<1>1. PICK good \in SUBSET {d \in Dests : table[d] = "enabled"} :
        todo' = [todo EXCEPT ![a] = good]
  BY DEF ListEnabled
<1>2. /\ place' = [place EXCEPT ![a] = "adding"] /\ job' = job
      /\ UNCHANGED <<table, sinks, fed, hub, sessionID, sessions, want>>
  BY DEF ListEnabled, Goes
<1>3. HotFields'
  BY <1>2 DEF HotFields
<1>4. /\ HotPlaces' /\ place'[a] = "adding" /\ OthersStay(a)
      /\ todo'[a] = good /\ \A b \in Processes \ {a} : todo'[b] = todo[b]
  <2>1. todo' \in [Processes -> SUBSET Dests] /\ todo'[a] = good
        /\ \A b \in Processes \ {a} : todo'[b] = todo[b]
    BY <1>0, <1>1 DEF HotPlaces
  <2>2. job' \in [Processes -> JobStates]
    BY <1>2 DEF HotPlaces
  <2>3. "adding" \in SessionPlaces /\ "adding" \notin HubPlaces \cup {"building", "removing", "remove"}
    BY DEF SessionPlaces, HubPlaces
  <2> QED BY <1>0, <1>2, <2>1, <2>2, <2>3, PlacesStep
<1>5. place'[a] \notin HubPlaces /\ place[a] \notin HubPlaces
  BY <1>0, <1>4 DEF HubPlaces
<1>6. Registry'
  BY <1>0, <1>2, <1>4, <1>5, RegistryMoves
<1>7. ASSUME OneAtATime PROVE Orderly'
  <2>1. OthersQuiet(a)
    BY <1>0, <1>7, AloneAtWork DEF Quiet
  <2>2. OneBusy' /\ InSession' /\ Handled' /\ WritersKnown' /\ NoDoubleWrite'
    BY <1>0, <1>2, <1>4, <1>5, <1>7, <2>1, OrderlyMoves
  <2>3. \A b \in Processes : ~Adds(b)'
    BY <1>4, <1>5, <2>1, QuietPlaces DEF OthersQuiet, OthersStay, Adds, HubPlaces
  <2>4. ToDo'
    BY <1>0, <1>1, <1>2, <1>4, <1>7, <2>3, PublisherHere DEF Orderly, ToDo, OthersStay
  <2>5. Allowed'
    BY <1>0, <1>2, <1>4, <1>7, PublisherHere DEF Orderly, Allowed, OthersStay, Quiet
  <2> QED BY <2>2, <2>4, <2>5 DEF Orderly
<1> QED BY <1>3, <1>4, <1>6, <1>7

\* The list is done, or the publisher leaves.
LEMMA SessionMovesKeep == ASSUME HotInv, AllAdded \/ EndSession PROVE HotInv'
<1> USE DEF HotInv, relay
<1> DEFINE a == "publisher"
<1>0. a \in Processes /\ a \notin Requests
  BY PublisherHere
<1>1. PICK s \in {"live", "closing"} : place' = [place EXCEPT ![a] = s]
  BY DEF AllAdded, EndSession, Goes
<1>2. /\ UNCHANGED <<table, sinks, fed, hub, sessionID, sessions, want, todo>>
      /\ job' \in {job, [job EXCEPT ![a] = NoJob]}
      /\ \/ place[a] = "adding" /\ todo[a] = {}
         \/ place[a] = "live"
      /\ ~Quiet(a) \/ MayBegin(a)
  BY DEF AllAdded, EndSession, Quiet
<1>3. HotFields'
  BY <1>2 DEF HotFields
<1>4. HotPlaces' /\ place'[a] = s /\ OthersStay(a)
  <2>1. job' \in [Processes -> JobStates] /\ \A b \in Processes \ {a} : job'[b] = job[b]
    BY <1>2 DEF HotPlaces, NoJob, JobStates
  <2>2. todo' \in [Processes -> SUBSET Dests]
    BY <1>2 DEF HotPlaces
  <2>3. s \in SessionPlaces /\ s \notin HubPlaces \cup {"building", "removing", "remove"}
    BY DEF SessionPlaces, HubPlaces
  <2> QED BY <1>0, <1>1, <2>1, <2>2, <2>3, PlacesStep
<1>5. /\ place'[a] \notin HubPlaces /\ place[a] \notin HubPlaces
      /\ place[a] \notin {"off", "grace"} /\ place'[a] \notin {"off", "grace"}
  BY <1>2, <1>4 DEF HubPlaces
<1>6. Registry'
  BY <1>0, <1>2, <1>4, <1>5, RegistryMoves
<1>7. ASSUME OneAtATime PROVE Orderly'
  <2>1. OthersQuiet(a)
    BY <1>0, <1>2, <1>7, AloneAtWork
  <2>2. OneBusy' /\ InSession' /\ Handled' /\ WritersKnown' /\ NoDoubleWrite'
    BY <1>0, <1>2, <1>4, <1>5, <1>7, <2>1, OrderlyMoves
  <2>3. \A b \in Processes : ~Adds(b)'
    BY <1>4, <1>5, <2>1, QuietPlaces DEF OthersQuiet, OthersStay, Adds, HubPlaces
  <2>4. todo[a] = {}
    BY <1>2, <1>7 DEF Orderly, ToDo, HubPlaces
  <2>5. ToDo'
    BY <1>0, <1>2, <1>4, <1>7, <2>3, <2>4, PublisherHere DEF Orderly, ToDo, OthersStay
  <2>6. Allowed'
    BY <1>0, <1>2, <1>4, <1>7, PublisherHere DEF Orderly, Allowed, OthersStay, Quiet
  <2> QED BY <2>2, <2>5, <2>6 DEF Orderly
<1> QED BY <1>3, <1>4, <1>6, <1>7

\* A session begins with nothing registered, and with a number no sink has.
LEMMA OpenSessionKeeps == ASSUME HotInv, OpenSession PROVE HotInv'
<1> USE DEF HotInv, relay
<1> DEFINE a == "publisher"
<1>0. a \in Processes /\ a \notin Requests /\ place[a] = "off"
  BY PublisherHere DEF OpenSession
<1>1. /\ place' = [place EXCEPT ![a] = "listing"]
      /\ sessions < MaxSessions /\ sessions' = sessions + 1 /\ sessionID' = sessions + 1
      /\ UNCHANGED <<table, sinks, fed, hub, want, todo, job>> /\ MayBegin(a)
  BY DEF OpenSession, Goes
<1>2. sessions \in Nat /\ MaxSessions \in Nat /\ sessions' \in 0..MaxSessions /\ sessionID' \in 0..sessions'
      /\ sessionID' # 0
  BY <1>1, HotBounds DEF HotFields
<1>3. HotFields'
  BY <1>1, <1>2 DEF HotFields
<1>4. HotPlaces' /\ place'[a] = "listing" /\ OthersStay(a)
  <2>1. job' \in [Processes -> JobStates] /\ todo' \in [Processes -> SUBSET Dests]
        /\ \A b \in Processes \ {a} : job'[b] = job[b]
    BY <1>1 DEF HotPlaces
  <2>2. "listing" \in SessionPlaces
        /\ "listing" \notin HubPlaces \cup {"building", "removing", "remove"}
    BY DEF SessionPlaces, HubPlaces
  <2> QED BY <1>0, <1>1, <2>1, <2>2, PlacesStep
<1>5. place'[a] \notin HubPlaces /\ place[a] \notin HubPlaces
  BY <1>0, <1>4 DEF HubPlaces
<1>6. Registry'
  BY <1>0, <1>1, <1>4, <1>5, RegistryMoves
<1>7. ASSUME OneAtATime PROVE Orderly'
  <2>1. OthersQuiet(a)
    BY <1>0, <1>1, <1>7, AloneAtWork
  <2>2. OneBusy'
    BY <1>0, <1>4, <2>1, OneBusyKept
  <2>3. \A b \in Processes : /\ ~Adds(b)' /\ ~Stops(b)' /\ place'[b] \notin HubPlaces
                             /\ ~Adds(b) /\ ~Stops(b) /\ place[b] \notin HubPlaces
    BY <1>0, <1>4, <1>5, <2>1, QuietPlaces DEF OthersQuiet, OthersStay, Adds, Stops, HubPlaces
  <2>4. InSession'
    <3>1. ASSUME NEW x \in DOMAIN sinks
          PROVE  sinks[x].session \in 1..sessions' /\ sinks[x].session # sessionID'
      BY <1>1, <1>2, <1>7 DEF Orderly, InSession
    <3> QED BY <1>0, <1>1, <1>2, <1>4, <1>7, <2>3, <3>1 DEF Orderly, InSession
  <2>5. Handled'
    BY <1>1, <1>7, <2>3 DEF Orderly, Handled, State, HubPlaces
  <2>6. WritersKnown'
    <3>1. ASSUME NEW x \in DOMAIN sinks PROVE sinks[x].session # sessionID'
      BY <1>1, <1>2, <1>7 DEF Orderly, InSession
    <3> QED BY <1>1, <3>1 DEF WritersKnown
  <2>7. NoDoubleWrite'
    BY <1>1, <1>7 DEF Orderly, NoDoubleWrite, Writes, State
  <2>8. ToDo'
    BY <1>0, <1>1, <1>4, <1>7, <2>3, PublisherHere DEF Orderly, ToDo, OthersStay, HubPlaces
  <2>9. Allowed'
    BY <1>0, <1>1, <1>4, <1>7, PublisherHere DEF Orderly, Allowed, OthersStay, Quiet
  <2> QED BY <2>2, <2>4, <2>5, <2>6, <2>7, <2>8, <2>9 DEF Orderly
<1> QED BY <1>3, <1>4, <1>6, <1>7

\* The sinks have ended, or the grace has, and the session is over.
LEMMA GraceEndsKeeps == ASSUME HotInv, GraceEnds PROVE HotInv'
<1> USE DEF HotInv, relay
<1> DEFINE a == "publisher"
<1>0. a \in Processes /\ a \notin Requests /\ place[a] = "grace" /\ ~Quiet(a)
  BY PublisherHere DEF GraceEnds, Quiet
<1>1. /\ place' = [place EXCEPT ![a] = "off"] /\ sessionID' = 0
      /\ UNCHANGED <<table, sinks, fed, hub, sessions, want, todo, job>>
  BY DEF GraceEnds, Goes
<1>3. HotFields'
  BY <1>1 DEF HotFields
<1>4. HotPlaces' /\ place'[a] = "off" /\ OthersStay(a)
  <2>1. job' \in [Processes -> JobStates] /\ todo' \in [Processes -> SUBSET Dests]
        /\ \A b \in Processes \ {a} : job'[b] = job[b]
    BY <1>1 DEF HotPlaces
  <2>2. "off" \in SessionPlaces /\ "off" \notin HubPlaces \cup {"building", "removing", "remove"}
    BY DEF SessionPlaces, HubPlaces
  <2> QED BY <1>0, <1>1, <2>1, <2>2, PlacesStep
<1>5. place'[a] \notin HubPlaces /\ place[a] \notin HubPlaces
  BY <1>0, <1>4 DEF HubPlaces
<1>6. Registry'
  BY <1>0, <1>1, <1>4, <1>5, RegistryMoves
<1>7. ASSUME OneAtATime PROVE Orderly'
  <2>1. OthersQuiet(a)
    BY <1>0, <1>7, AloneAtWork
  <2>2. OneBusy'
    BY <1>0, <1>4, <2>1, OneBusyKept
  <2>3. \A b \in Processes : /\ ~Adds(b)' /\ ~Stops(b)'
                             /\ place'[b] \notin HubPlaces \cup {"building", "remove"}
                             /\ ~Adds(b) /\ ~Stops(b) /\ place[b] \notin HubPlaces
    BY <1>0, <1>4, <1>5, <2>1, QuietPlaces DEF OthersQuiet, OthersStay, Adds, Stops, HubPlaces
  <2>4. InSession'
    <3>1. \A d \in Dests : hub[d] = 0
      BY <1>0, <1>7 DEF Orderly, InSession
    <3> QED BY <1>0, <1>1, <1>4, <1>7, <2>3, <3>1 DEF Orderly, InSession
  <2>5. Handled'
    BY <1>1, <1>7, <2>3 DEF Orderly, Handled, State, HubPlaces
  <2>6. WritersKnown'
    BY <1>1, <1>7 DEF Orderly, InSession, WritersKnown
  <2>7. NoDoubleWrite'
    BY <1>1, <1>7 DEF Orderly, NoDoubleWrite, Writes, State
  <2>8. ToDo'
    BY <1>0, <1>1, <1>4, <1>7, <2>3, PublisherHere DEF Orderly, ToDo, OthersStay, HubPlaces
  <2>9. Allowed'
    BY <1>0, <1>1, <1>4, <1>7, PublisherHere DEF Orderly, Allowed, OthersStay, Quiet
  <2> QED BY <2>2, <2>4, <2>5, <2>6, <2>7, <2>8, <2>9 DEF Orderly
<1> QED BY <1>3, <1>4, <1>6, <1>7

-----------------------------------------------------------------------------
\* A request goes on outside the hub: what the session did stays, and so does what
\* OrderlyMoves keeps; ToDo and Allowed are shown of each.
LEMMA RequestGoes ==
  ASSUME HotInv, NEW h \in Requests, NEW s \in RequestPlaces \ HubPlaces,
         place' = [place EXCEPT ![h] = s], place[h] \notin HubPlaces,
         ~Quiet(h) \/ MayBegin(h),
         UNCHANGED <<sinks, fed, hub, sessionID, sessions>>,
         table' \in [Dests -> {"absent", "enabled", "disabled", "deleted"}],
         want' \in [Requests -> {"enabled", "disabled"}],
         todo' \in [Processes -> SUBSET Dests], job' \in [Processes -> JobStates],
         \A b \in Processes \ {h} : job'[b] = job[b],
         s \in {"building", "removing", "remove"} => job'[h].dest \in Dests,
         s \in {"removing", "remove"} => job'[h].sink = 0,
         s \in {"building", "remove"} => sessionID # 0
  PROVE  /\ HotFields' /\ HotPlaces' /\ Registry' /\ place'[h] = s /\ OthersStay(h)
         /\ OneAtATime => /\ OneBusy' /\ InSession' /\ Handled' /\ WritersKnown' /\ NoDoubleWrite'
                          /\ OthersQuiet(h) /\ \A b \in Processes : ~Adds(b)'
<1>0. h \in Processes /\ h # "publisher"
  BY PublisherHere
<1>1. HotFields'
  BY DEF HotInv, HotFields
<1>2. HotPlaces' /\ place'[h] = s /\ OthersStay(h)
  BY <1>0, PlacesStep DEF HotInv
<1>3. Registry'
  BY <1>0, <1>2, RegistryMoves
<1>4. ASSUME OneAtATime
      PROVE  /\ OneBusy' /\ InSession' /\ Handled' /\ WritersKnown' /\ NoDoubleWrite'
             /\ OthersQuiet(h) /\ \A b \in Processes : ~Adds(b)'
  <2>1. OthersQuiet(h)
    BY <1>0, <1>4, AloneAtWork
  <2>2. OneBusy' /\ InSession' /\ Handled' /\ WritersKnown' /\ NoDoubleWrite'
    BY <1>0, <1>2, <1>4, <2>1, OrderlyMoves
  <2>3. \A b \in Processes : ~Adds(b)'
    BY <1>0, <1>2, <2>1, QuietPlaces DEF OthersQuiet, OthersStay, Adds, HubPlaces
  <2> QED BY <2>1, <2>2, <2>3
<1> QED BY <1>1, <1>2, <1>3, <1>4

\* create, patch, toggle and toggle-all write the table, and have all of it to apply.
LEMMA UpdateKeeps ==
  ASSUME HotInv, NEW h \in Requests, NEW S \in SUBSET Dests, NEW e \in {"enabled", "disabled"},
         Update(h, S, e)
  PROVE  HotInv'
<1>0. h \in Processes /\ h # "publisher"
  BY PublisherHere
<1>1. /\ place[h] = "idle" /\ MayBegin(h) /\ place' = [place EXCEPT ![h] = "applying"]
      /\ table' = [d \in Dests |-> IF d \in S THEN e ELSE table[d]]
      /\ want' = [want EXCEPT ![h] = e] /\ todo' = [todo EXCEPT ![h] = S]
      /\ UNCHANGED <<sinks, fed, hub, sessionID, sessions, job>>
  BY DEF Update, Goes, relay
<1>2. /\ table' \in [Dests -> {"absent", "enabled", "disabled", "deleted"}]
      /\ want' \in [Requests -> {"enabled", "disabled"}]
      /\ todo' \in [Processes -> SUBSET Dests] /\ job' \in [Processes -> JobStates]
      /\ \A b \in Processes \ {h} : job'[b] = job[b] /\ todo'[b] = todo[b]
      /\ todo'[h] = S /\ want'[h] = e /\ \A g \in Requests \ {h} : want'[g] = want[g]
  BY <1>0, <1>1 DEF HotInv, HotFields, HotPlaces
<1>3. "applying" \in RequestPlaces \ HubPlaces /\ place[h] \notin HubPlaces
      /\ "applying" \notin {"building", "removing", "remove"}
  BY <1>1 DEF RequestPlaces, HubPlaces
<1>4. /\ HotFields' /\ HotPlaces' /\ Registry' /\ place'[h] = "applying" /\ OthersStay(h)
      /\ OneAtATime => /\ OneBusy' /\ InSession' /\ Handled' /\ WritersKnown' /\ NoDoubleWrite'
                       /\ OthersQuiet(h) /\ \A b \in Processes : ~Adds(b)'
  BY <1>1, <1>2, <1>3, RequestGoes
<1>5. ASSUME OneAtATime PROVE ToDo' /\ Allowed'
  <2>1. \A b \in Processes \ {h} : todo[b] = {} /\ todo'[b] = {} /\ Quiet(b) /\ place'[b] = place[b]
    BY <1>2, <1>4, <1>5, PublisherHere DEF HotInv, Orderly, ToDo, OthersQuiet, OthersStay, Quiet, HubPlaces, HotPlaces, RequestPlaces, SessionPlaces, Processes
  <2>2. ToDo'
    <3>1. ASSUME NEW g \in Requests
          PROVE  /\ place'[g] = "idle" => todo'[g] = {}
                 /\ \A d \in todo'[g] : table'[d] = want'[g]
                 /\ place'[g] # "building"
      BY <1>0, <1>1, <1>2, <1>4, <2>1, <3>1, PublisherHere DEF Quiet
    <3>2. todo'["publisher"] = {}
      BY <1>0, <2>1, PublisherHere
    <3> QED BY <1>4, <1>5, <3>1, <3>2 DEF ToDo
  <2>3. Allowed'
    <3>1. ASSUME NEW d \in Dests, table[d] # "enabled", hub[d] # 0 PROVE FALSE
      BY <1>1, <1>5, <2>1, <3>1, PublisherHere DEF HotInv, Orderly, Allowed, Quiet
    <3>2. ASSUME NEW d \in Dests, table'[d] # "enabled", hub'[d] # 0
          PROVE  ~Quiet(h)' /\ want'[h] = "disabled" /\ d \in todo'[h]
      BY <1>1, <1>2, <1>4, <3>1, <3>2 DEF Quiet
    <3> QED BY <3>2 DEF Allowed
  <2> QED BY <2>2, <2>3
<1> QED BY <1>4, <1>5 DEF HotInv, Orderly

\* DELETE of a destination.
LEMMA DeleteKeeps ==
  ASSUME HotInv, NEW h \in Requests, NEW d \in Dests, Delete(h, d) PROVE HotInv'
<1>0. h \in Processes /\ h # "publisher"
  BY PublisherHere
<1>1. /\ place[h] = "idle" /\ MayBegin(h) /\ place' = [place EXCEPT ![h] = "removing"]
      /\ table' = [table EXCEPT ![d] = "deleted"]
      /\ job' = [job EXCEPT ![h] = [NoJob EXCEPT !.dest = d]]
      /\ UNCHANGED <<sinks, fed, hub, sessionID, sessions, todo, want>>
  BY DEF Delete, Goes, relay
<1>2. /\ table' \in [Dests -> {"absent", "enabled", "disabled", "deleted"}]
      /\ want' \in [Requests -> {"enabled", "disabled"}]
      /\ todo' \in [Processes -> SUBSET Dests] /\ job' \in [Processes -> JobStates]
      /\ \A b \in Processes \ {h} : job'[b] = job[b]
      /\ job'[h].dest = d /\ job'[h].sink = 0
  BY <1>0, <1>1 DEF HotInv, HotFields, HotPlaces, NoJob, JobStates
<1>3. "removing" \in RequestPlaces \ HubPlaces /\ place[h] \notin HubPlaces
      /\ "removing" \notin {"building", "remove"}
  BY <1>1 DEF RequestPlaces, HubPlaces
<1>4. /\ HotFields' /\ HotPlaces' /\ Registry' /\ place'[h] = "removing" /\ OthersStay(h)
      /\ OneAtATime => /\ OneBusy' /\ InSession' /\ Handled' /\ WritersKnown' /\ NoDoubleWrite'
                       /\ OthersQuiet(h) /\ \A b \in Processes : ~Adds(b)'
  BY <1>1, <1>2, <1>3, RequestGoes
<1>5. ASSUME OneAtATime PROVE ToDo' /\ Allowed'
  <2>1. \A b \in Processes : todo[b] = {} /\ (b # h => Quiet(b) /\ place'[b] = place[b])
    BY <1>1, <1>2, <1>4, <1>5, PublisherHere DEF HotInv, Orderly, ToDo, OthersQuiet, OthersStay, Quiet, HubPlaces, HotPlaces, RequestPlaces, SessionPlaces, Processes
  <2>2. ToDo'
    <3>1. ASSUME NEW g \in Requests PROVE todo'[g] = {} /\ place'[g] # "building"
      BY <1>1, <1>4, <2>1, PublisherHere DEF Quiet
    <3>2. todo'["publisher"] = {}
      BY <1>1, <2>1, PublisherHere
    <3> QED BY <1>4, <1>5, <3>1, <3>2 DEF ToDo
  <2>3. Allowed'
    <3>1. ASSUME NEW c \in Dests, table[c] # "enabled", hub[c] # 0 PROVE FALSE
      BY <1>1, <1>5, <2>1, <3>1, PublisherHere DEF HotInv, Orderly, Allowed, Quiet
    <3>2. ASSUME NEW c \in Dests, table'[c] # "enabled", hub'[c] # 0
          PROVE  place'[h] \in {"removing", "remove"} /\ job'[h].dest = c
      BY <1>1, <1>2, <1>4, <3>1, <3>2 DEF HotInv, HotFields
    <3> QED BY <3>2 DEF Allowed
  <2> QED BY <2>2, <2>3
<1> QED BY <1>4, <1>5 DEF HotInv, Orderly

\* A retry of a destination that is on.
LEMMA RetryKeeps ==
  ASSUME HotInv, NEW h \in Requests, NEW d \in Dests, Retry(h, d) PROVE HotInv'
<1>0. h \in Processes /\ h # "publisher"
  BY PublisherHere
<1>1. /\ place[h] = "idle" /\ MayBegin(h) /\ place' = [place EXCEPT ![h] = "applying"]
      /\ table[d] = "enabled" /\ todo' = [todo EXCEPT ![h] = {d}]
      /\ want' = [want EXCEPT ![h] = "enabled"]
      /\ UNCHANGED <<table, sinks, fed, hub, sessionID, sessions, job>>
  BY DEF Retry, Goes, relay
<1>2. /\ table' \in [Dests -> {"absent", "enabled", "disabled", "deleted"}]
      /\ want' \in [Requests -> {"enabled", "disabled"}]
      /\ todo' \in [Processes -> SUBSET Dests] /\ job' \in [Processes -> JobStates]
      /\ \A b \in Processes \ {h} : job'[b] = job[b] /\ todo'[b] = todo[b]
      /\ todo'[h] = {d} /\ want'[h] = "enabled" /\ \A g \in Requests \ {h} : want'[g] = want[g]
  BY <1>0, <1>1 DEF HotInv, HotFields, HotPlaces
<1>3. "applying" \in RequestPlaces \ HubPlaces /\ place[h] \notin HubPlaces
      /\ "applying" \notin {"building", "removing", "remove"}
  BY <1>1 DEF RequestPlaces, HubPlaces
<1>4. /\ HotFields' /\ HotPlaces' /\ Registry' /\ place'[h] = "applying" /\ OthersStay(h)
      /\ OneAtATime => /\ OneBusy' /\ InSession' /\ Handled' /\ WritersKnown' /\ NoDoubleWrite'
                       /\ OthersQuiet(h) /\ \A b \in Processes : ~Adds(b)'
  BY <1>1, <1>2, <1>3, RequestGoes
<1>5. ASSUME OneAtATime PROVE ToDo' /\ Allowed'
  <2>1. \A b \in Processes \ {h} : todo'[b] = {} /\ Quiet(b) /\ place'[b] = place[b]
    BY <1>2, <1>4, <1>5, PublisherHere DEF HotInv, Orderly, ToDo, OthersQuiet, OthersStay, Quiet, HubPlaces, HotPlaces, RequestPlaces, SessionPlaces, Processes
  <2>2. ToDo'
    <3>1. ASSUME NEW g \in Requests
          PROVE  /\ place'[g] = "idle" => todo'[g] = {}
                 /\ \A c \in todo'[g] : table'[c] = want'[g]
                 /\ place'[g] # "building"
      BY <1>0, <1>1, <1>2, <1>4, <2>1, <3>1, PublisherHere DEF Quiet
    <3>2. todo'["publisher"] = {}
      BY <1>0, <2>1, PublisherHere
    <3> QED BY <1>4, <1>5, <3>1, <3>2 DEF ToDo
  <2>3. Allowed'
    <3>1. ASSUME NEW c \in Dests, table[c] # "enabled", hub[c] # 0 PROVE FALSE
      BY <1>1, <1>5, <2>1, <3>1, PublisherHere DEF HotInv, Orderly, Allowed, Quiet
    <3> QED BY <1>1, <3>1 DEF Allowed
  <2> QED BY <2>2, <2>3
<1> QED BY <1>4, <1>5 DEF HotInv, Orderly

\* applyHot without a session has nothing to do: nothing is registered.
LEMMA SkipKeeps ==
  ASSUME HotInv, NEW h \in Requests, place[h] = "applying", Skip(h) PROVE HotInv'
<1>0. h \in Processes /\ h # "publisher"
  BY PublisherHere
<1>1. PICK d \in todo[h] :
      /\ sessionID = 0 /\ todo' = [todo EXCEPT ![h] = todo[h] \ {d}]
      /\ UNCHANGED <<table, sinks, fed, hub, sessionID, sessions, place, want, job>>
  BY DEF Skip, relay, liveSession
<1>2. /\ table' \in [Dests -> {"absent", "enabled", "disabled", "deleted"}]
      /\ want' \in [Requests -> {"enabled", "disabled"}]
      /\ todo' \in [Processes -> SUBSET Dests] /\ job' \in [Processes -> JobStates]
      /\ \A b \in Processes \ {h} : job'[b] = job[b] /\ todo'[b] = todo[b]
      /\ todo'[h] = todo[h] \ {d}
      /\ place' = [place EXCEPT ![h] = "applying"]
  BY <1>0, <1>1 DEF HotInv, HotFields, HotPlaces
<1>3. "applying" \in RequestPlaces \ HubPlaces /\ place[h] \notin HubPlaces
      /\ "applying" \notin {"building", "removing", "remove"}
  BY <1>1 DEF RequestPlaces, HubPlaces
<1>4. /\ HotFields' /\ HotPlaces' /\ Registry' /\ place'[h] = "applying" /\ OthersStay(h)
      /\ OneAtATime => /\ OneBusy' /\ InSession' /\ Handled' /\ WritersKnown' /\ NoDoubleWrite'
                       /\ OthersQuiet(h) /\ \A b \in Processes : ~Adds(b)'
  BY <1>1, <1>2, <1>3, RequestGoes DEF Quiet
<1>5. ASSUME OneAtATime PROVE ToDo' /\ Allowed'
  <2>1. \A b \in Processes : place'[b] = place[b] /\ todo'[b] \subseteq todo[b] /\ job'[b] = job[b]
    BY <1>1, <1>2
  <2>2. ToDo'
    BY <1>0, <1>1, <1>2, <1>4, <1>5, <2>1, PublisherHere DEF HotInv, Orderly, ToDo, HubPlaces
  <2>3. \A c \in Dests : hub'[c] = 0
    BY <1>1, <1>5 DEF HotInv, Orderly, InSession
  <2> QED BY <2>2, <2>3 DEF Allowed
<1> QED BY <1>4, <1>5 DEF HotInv, Orderly

\* During one, it builds or removes the sink of the next destination.
LEMMA SwitchKeeps ==
  ASSUME HotInv, NEW h \in Requests, place[h] = "applying", Switch(h) PROVE HotInv'
<1>0. h \in Processes /\ h # "publisher"
  BY PublisherHere
<1> DEFINE s == IF want[h] = "enabled" THEN "building" ELSE "removing"
<1>1. PICK d \in todo[h] :
      /\ sessionID # 0 /\ todo' = [todo EXCEPT ![h] = todo[h] \ {d}]
      /\ job' = [job EXCEPT ![h] = [NoJob EXCEPT !.dest = d]]
      /\ place' = [place EXCEPT ![h] = s]
      /\ UNCHANGED <<table, sinks, fed, hub, sessionID, sessions, want>>
  BY DEF Switch, relay, liveSession, Goes
<1>2. /\ table' \in [Dests -> {"absent", "enabled", "disabled", "deleted"}]
      /\ want' \in [Requests -> {"enabled", "disabled"}]
      /\ todo' \in [Processes -> SUBSET Dests] /\ job' \in [Processes -> JobStates]
      /\ \A b \in Processes \ {h} : job'[b] = job[b] /\ todo'[b] = todo[b]
      /\ todo'[h] = todo[h] \ {d} /\ job'[h].dest = d /\ job'[h].sink = 0 /\ d \in Dests
  BY <1>0, <1>1 DEF HotInv, HotFields, HotPlaces, NoJob, JobStates
<1>3. s \in RequestPlaces \ HubPlaces /\ place[h] \notin HubPlaces
  BY <1>1 DEF RequestPlaces, HubPlaces
<1> HIDE DEF s
<1>4. /\ HotFields' /\ HotPlaces' /\ Registry' /\ place'[h] = s /\ OthersStay(h)
      /\ OneAtATime => /\ OneBusy' /\ InSession' /\ Handled' /\ WritersKnown' /\ NoDoubleWrite'
                       /\ OthersQuiet(h) /\ \A b \in Processes : ~Adds(b)'
  BY <1>1, <1>2, <1>3, RequestGoes DEF Quiet
<1>5. ASSUME OneAtATime PROVE ToDo' /\ Allowed'
  <2>1. s \in {"building", "removing"} /\ (s = "building" <=> want[h] = "enabled")
    BY DEF s
  <2>2. table[d] = want[h]
    BY <1>5 DEF HotInv, Orderly, ToDo
  <2>3. ToDo'
    <3>1. ASSUME NEW g \in Requests
          PROVE  /\ place'[g] = "idle" => todo'[g] = {}
                 /\ \A c \in todo'[g] : table'[c] = want'[g]
                 /\ place'[g] = "building" => table'[job'[g].dest] = "enabled"
      <4>1. CASE g = h
        BY <1>1, <1>2, <1>4, <1>5, <2>1, <2>2, <4>1 DEF HotInv, Orderly, ToDo
      <4>2. CASE g # h
        BY <1>1, <1>2, <1>4, <1>5, <4>2, PublisherHere DEF HotInv, Orderly, ToDo, OthersStay
      <4> QED BY <4>1, <4>2
    <3>2. /\ todo'["publisher"] = todo["publisher"] /\ place'["publisher"] = place["publisher"]
      BY <1>0, <1>2, <1>4, PublisherHere DEF OthersStay
    <3> QED BY <1>1, <1>4, <1>5, <3>1, <3>2 DEF HotInv, Orderly, ToDo, HubPlaces
  <2>4. Allowed'
    <3>1. ASSUME NEW c \in Dests, table'[c] # "enabled", hub'[c] # 0
          PROVE  \E g \in Requests : \/ ~Quiet(g)' /\ want'[g] = "disabled" /\ c \in todo'[g]
                                     \/ place'[g] \in {"removing", "remove"} /\ job'[g].dest = c
      <4>1. PICK g \in Requests : \/ ~Quiet(g) /\ want[g] = "disabled" /\ c \in todo[g]
                                  \/ place[g] \in {"removing", "remove"} /\ job[g].dest = c
        BY <1>1, <1>5, <3>1 DEF HotInv, Orderly, Allowed
      <4>2. g = h
        BY <1>4, <1>5, <4>1, PublisherHere DEF OthersQuiet, Quiet
      <4>3. ~Quiet(h)' /\ want'[h] = "disabled"
        BY <1>1, <1>4, <2>1, <4>1, <4>2 DEF Quiet
      <4>4. CASE c = d
        BY <1>1, <1>2, <1>4, <2>1, <4>1, <4>2, <4>4
      <4>5. CASE c # d
        BY <1>1, <1>2, <4>1, <4>2, <4>3, <4>5
      <4> QED BY <4>4, <4>5
    <3> QED BY <3>1 DEF Allowed
  <2> QED BY <2>3, <2>4
<1> QED BY <1>4, <1>5 DEF HotInv, Orderly

\* The request answers, with nothing left to do; or the destination in hand was not
\* built, or the session is over when its sink is to be removed.
LEMMA AnswerKeeps ==
  ASSUME HotInv, NEW h \in Requests, place[h] = "applying", Answer(h) PROVE HotInv'
<1>0. h \in Processes /\ h # "publisher"
  BY PublisherHere
<1>1. /\ todo[h] = {} /\ job' = [job EXCEPT ![h] = NoJob] /\ place' = [place EXCEPT ![h] = "idle"]
      /\ UNCHANGED <<table, sinks, fed, hub, sessionID, sessions, todo, want>>
  BY DEF Answer, relay, Goes
<1>2. /\ table' \in [Dests -> {"absent", "enabled", "disabled", "deleted"}]
      /\ want' \in [Requests -> {"enabled", "disabled"}]
      /\ todo' \in [Processes -> SUBSET Dests] /\ job' \in [Processes -> JobStates]
      /\ \A b \in Processes \ {h} : job'[b] = job[b]
  BY <1>0, <1>1 DEF HotInv, HotFields, HotPlaces, NoJob, JobStates
<1>3. "idle" \in RequestPlaces \ HubPlaces /\ place[h] \notin HubPlaces
      /\ "idle" \notin {"building", "removing", "remove"}
  BY <1>1 DEF RequestPlaces, HubPlaces
<1>4. /\ HotFields' /\ HotPlaces' /\ Registry' /\ place'[h] = "idle" /\ OthersStay(h)
      /\ OneAtATime => /\ OneBusy' /\ InSession' /\ Handled' /\ WritersKnown' /\ NoDoubleWrite'
                       /\ OthersQuiet(h) /\ \A b \in Processes : ~Adds(b)'
  BY <1>1, <1>2, <1>3, RequestGoes DEF Quiet
<1>5. ASSUME OneAtATime PROVE ToDo' /\ Allowed'
  <2>1. ToDo'
    BY <1>0, <1>1, <1>4, <1>5, PublisherHere DEF HotInv, Orderly, ToDo, OthersStay, HubPlaces
  <2>2. Allowed'
    BY <1>0, <1>1, <1>4, <1>5, PublisherHere DEF HotInv, Orderly, Allowed, OthersStay, Quiet
  <2> QED BY <2>1, <2>2
<1> QED BY <1>4, <1>5 DEF HotInv, Orderly

\* A request goes on to its next destination, or to remove the one it has, with no sink
\* of its own.
LEMMA TurnsKeep ==
  ASSUME HotInv, NEW h \in Requests, NEW s \in {"applying", "remove"},
         place' = [place EXCEPT ![h] = s],
         \/ place[h] = "building" /\ s = "applying"
         \/ place[h] = "removing" /\ s = "applying" /\ sessionID = 0
         \/ place[h] = "removing" /\ s = "remove" /\ sessionID # 0,
         UNCHANGED <<table, sinks, fed, hub, sessionID, sessions, todo, want, job>>
  PROVE  HotInv'
<1>0. h \in Processes /\ h # "publisher"
  BY PublisherHere
<1>2. /\ table' \in [Dests -> {"absent", "enabled", "disabled", "deleted"}]
      /\ want' \in [Requests -> {"enabled", "disabled"}]
      /\ todo' \in [Processes -> SUBSET Dests] /\ job' \in [Processes -> JobStates]
      /\ \A b \in Processes \ {h} : job'[b] = job[b]
      /\ job'[h].dest \in Dests
      /\ s = "remove" => job'[h].sink = 0
  BY <1>0 DEF HotInv, HotFields, HotPlaces
<1>3. s \in RequestPlaces \ HubPlaces /\ place[h] \notin HubPlaces /\ s # "building"
      /\ (s = "remove" => sessionID # 0)
  BY DEF RequestPlaces, HubPlaces
<1>4. /\ HotFields' /\ HotPlaces' /\ Registry' /\ place'[h] = s /\ OthersStay(h)
      /\ OneAtATime => /\ OneBusy' /\ InSession' /\ Handled' /\ WritersKnown' /\ NoDoubleWrite'
                       /\ OthersQuiet(h) /\ \A b \in Processes : ~Adds(b)'
  BY <1>2, <1>3, RequestGoes DEF Quiet
<1>5. ASSUME OneAtATime PROVE ToDo' /\ Allowed'
  <2>1. ToDo'
    BY <1>0, <1>4, <1>5, PublisherHere DEF HotInv, Orderly, ToDo, OthersStay, HubPlaces
  <2>2. Allowed'
    <3>1. ASSUME NEW c \in Dests, table'[c] # "enabled", hub'[c] # 0
          PROVE  \E g \in Requests : \/ ~Quiet(g)' /\ want'[g] = "disabled" /\ c \in todo'[g]
                                     \/ place'[g] \in {"removing", "remove"} /\ job'[g].dest = c
      <4>1. PICK g \in Requests : \/ ~Quiet(g) /\ want[g] = "disabled" /\ c \in todo[g]
                                  \/ place[g] \in {"removing", "remove"} /\ job[g].dest = c
        BY <1>5, <3>1 DEF HotInv, Orderly, Allowed
      <4>2. g = h
        BY <1>4, <1>5, <4>1, PublisherHere DEF OthersQuiet, Quiet
      <4>3. ~Quiet(h)'
        BY <1>4 DEF Quiet
      <4>4. sessionID # 0
        BY <1>5, <3>1 DEF HotInv, Orderly, InSession
      <4> QED BY <1>4, <4>1, <4>2, <4>3, <4>4
    <3> QED BY <3>1 DEF Allowed
  <2> QED BY <2>1, <2>2
<1> QED BY <1>4, <1>5 DEF HotInv, Orderly

-----------------------------------------------------------------------------
\* What a new sink is, and that it has a number nobody has.
LEMMA NewSink ==
  ASSUME HotInv, NEW a \in Processes, NEW d \in Dests, BuildSink(a, d)
  PROVE  \E n \in 0..MaxSinks :
           /\ DOMAIN sinks = 1..n /\ n + 1 \in 1..MaxSinks /\ n + 1 \notin DOMAIN sinks
           /\ DOMAIN sinks' = DOMAIN sinks \cup {n + 1} /\ DOMAIN sinks' = 1..(n + 1)
           /\ \A x \in DOMAIN sinks : sinks'[x] = sinks[x]
           /\ sinks'[n + 1] = [dest |-> d, session |-> sessionID, state |-> "built"]
           /\ sinks' = [x \in DOMAIN sinks' |-> sinks'[x]]
           /\ job' = [job EXCEPT ![a] = [dest |-> d, sink |-> n + 1, old |-> 0]]
<1>1. PICK n \in 0..MaxSinks : DOMAIN sinks = 1..n
  BY DEF HotInv, HotFields
<1>2. MaxSinks \in Nat /\ n \in Nat
  BY HotBounds
<1>3. NextSink = n + 1
  <2>1. Cardinality(1..n) = n
    BY <1>2, FS_Interval
  <2> QED BY <1>1, <2>1 DEF NextSink
<1>4. n + 1 \in 1..MaxSinks
  BY <1>3 DEF BuildSink, Ids
<1>5. (1..MaxSinks) \cap (1 .. (n + 1)) = 1..(n + 1)
  BY <1>2, <1>4
<1>6. sinks' = [x \in 1..(n + 1) |->
                  IF x = n + 1 THEN [dest |-> d, session |-> sessionID, state |-> "built"]
                               ELSE sinks[x]]
  BY <1>3, <1>5 DEF BuildSink, Ids
<1>7. job' = [job EXCEPT ![a] = [dest |-> d, sink |-> n + 1, old |-> 0]]
  BY <1>3 DEF BuildSink
<1>8. n + 1 \notin 1..n /\ 1..(n + 1) = (1..n) \cup {n + 1} /\ n + 1 \in 1..(n + 1)
  BY <1>2
<1> QED BY <1>1, <1>4, <1>6, <1>7, <1>8

\* The session and a request build a sink for an enabled destination.
LEMMA BuildKeeps ==
  ASSUME HotInv, NEW a \in Processes, NEW d \in Dests, BuildSink(a, d),
         IF a = "publisher" THEN place[a] = "adding" ELSE place[a] = "building",
         UNCHANGED <<table, want>>, todo' \in [Processes -> SUBSET Dests],
         todo'["publisher"] \subseteq todo["publisher"],
         \A h \in Requests : todo'[h] = todo[h],
         OneAtATime => table[d] = "enabled"
  PROVE  HotInv'
<1> USE DEF HotInv
<1>1. PICK n \in 0..MaxSinks :
           /\ DOMAIN sinks = 1..n /\ n + 1 \in 1..MaxSinks /\ n + 1 \notin DOMAIN sinks
           /\ DOMAIN sinks' = DOMAIN sinks \cup {n + 1} /\ DOMAIN sinks' = 1..(n + 1)
           /\ \A x \in DOMAIN sinks : sinks'[x] = sinks[x]
           /\ sinks'[n + 1] = [dest |-> d, session |-> sessionID, state |-> "built"]
           /\ sinks' = [x \in DOMAIN sinks' |-> sinks'[x]]
           /\ job' = [job EXCEPT ![a] = [dest |-> d, sink |-> n + 1, old |-> 0]]
  BY NewSink
<1>2. PICK k : k = n + 1
  OBVIOUS
<1>3. /\ k \in Nat /\ k \in 1..MaxSinks /\ k # 0 /\ k \notin DOMAIN sinks
      /\ DOMAIN sinks' = DOMAIN sinks \cup {k} /\ DOMAIN sinks' = 1..k
      /\ sinks'[k] = [dest |-> d, session |-> sessionID, state |-> "built"]
      /\ job' = [job EXCEPT ![a] = [dest |-> d, sink |-> k, old |-> 0]]
  BY <1>1, <1>2
<1>4. UNCHANGED <<fed, hub, sessionID, sessions>> /\ place' = [place EXCEPT ![a] = "start"]
  BY DEF BuildSink, Goes
<1>5. /\ job'[a].dest = d /\ job'[a].sink = k /\ \A b \in Processes \ {a} : job'[b] = job[b]
      /\ job' \in [Processes -> JobStates]
  BY <1>3 DEF HotPlaces, JobStates
<1>6. HotPlaces' /\ place'[a] = "start" /\ OthersStay(a)
  <2>1. "start" \in SessionPlaces /\ "start" \in RequestPlaces
    BY DEF SessionPlaces, RequestPlaces, HubPlaces
  <2> QED BY <1>4, <1>5, <2>1, PlacesStep
<1>7. HotFields'
  <2>1. sinks'[k] \in SinkStates
    BY <1>3, HotBounds DEF HotFields, SinkStates
  <2>2. sinks' \in [DOMAIN sinks' -> SinkStates]
    BY <1>1, <1>3, <2>1 DEF HotFields
  <2>3. k \in 0..MaxSinks
    BY <1>3, HotBounds
  <2> QED BY <1>3, <1>4, <2>2, <2>3 DEF HotFields
<1>8. place[a] \notin HubPlaces /\ ~Adds(a) /\ ~Stops(a) /\ ~Quiet(a)
  BY DEF HubPlaces, Adds, Stops, Quiet
<1>9. Adds(a)' /\ ~Stops(a)' /\ \A b \in Processes \ {a} :
        /\ Adds(b)' = Adds(b) /\ Stops(b)' = Stops(b) /\ place'[b] = place[b] /\ job'[b] = job[b]
  BY <1>6 DEF Adds, Stops, OthersStay
<1>10. fed \subseteq DOMAIN sinks /\ k \notin fed
  BY <1>3 DEF HotFields
<1>11. Registry'
  <2>1. Registered'
    BY <1>1, <1>4, <1>10 DEF Registry, Registered, State
  <2>2. ASSUME NEW b \in Processes PROVE Fresh(b)' /\ OldOut(b)'
    <3>1. CASE b = a
      BY <1>3, <1>4, <1>5, <1>6, <1>9, <1>10, <3>1 DEF Fresh, OldOut, State
    <3>2. CASE b # a
      BY <1>1, <1>3, <1>4, <1>9, <3>2 DEF Registry, Fresh, OldOut, State
    <3> QED BY <3>1, <3>2
  <2>3. EachItsOwn'
    <3>1. ASSUME NEW b \in Processes \ {a}, Adds(b)' PROVE job'[b].sink # k
      BY <1>3, <1>9, <3>1 DEF Registry, Fresh
    <3> QED BY <1>5, <1>9, <3>1 DEF Registry, EachItsOwn
  <2> QED BY <2>1, <2>2, <2>3 DEF Registry
<1>12. ASSUME OneAtATime PROVE Orderly'
  <2>1. OthersQuiet(a)
    BY <1>8, <1>12, AloneAtWork
  <2>2. OneBusy'
    BY <1>6, <2>1, OneBusyKept
  <2>3. \A b \in Processes \ {a} : ~Adds(b)' /\ ~Stops(b)' /\ ~Adds(b) /\ ~Stops(b) /\ Quiet(b)
                                   /\ place[b] \notin HubPlaces \cup {"building", "removing", "remove"}
    BY <1>9, <2>1, QuietPlaces DEF OthersQuiet
  <2>4. /\ place'["publisher"] = "off" <=> place["publisher"] = "off"
        /\ place'["publisher"] = "grace" <=> place["publisher"] = "grace"
    BY <1>6, PublisherHere DEF OthersStay
  <2>5. sessionID # 0
    BY <1>12, PublisherHere DEF Orderly, InSession
  <2>6. InSession'
    <3>1. \A x \in DOMAIN sinks' : sinks'[x].session \in 1..sessions
      BY <1>1, <1>3, <1>12, <2>5 DEF Orderly, InSession, HotFields
    <3>2. \A b \in Processes : Adds(b)' => sinks'[job'[b].sink].session = sessionID
      BY <1>3, <1>5, <2>3
    <3> QED BY <1>4, <1>12, <2>4, <2>5, <3>1, <3>2 DEF Orderly, InSession
  <2>7. Handled'
    <3>1. ASSUME NEW x \in DOMAIN sinks', State(x)' = "running" PROVE hub'[sinks'[x].dest] = x
      <4>1. x # k
        BY <1>3, <3>1 DEF State
      <4>2. x \in DOMAIN sinks /\ State(x) = "running" /\ sinks'[x] = sinks[x]
        BY <1>1, <1>3, <3>1, <4>1 DEF State
      <4>3. \A b \in Processes : ~Adds(b) /\ ~Stops(b) /\ place[b] # "signal"
        BY <1>8, <2>3 DEF HubPlaces
      <4> QED BY <1>4, <1>12, <4>2, <4>3 DEF Orderly, Handled
    <3>2. \A b \in Processes : place'[b] \notin {"signal", "wait", "register"}
      BY <1>6, <1>9, <2>3 DEF HubPlaces
    <3> QED BY <3>1, <3>2 DEF Handled
  <2>8. ASSUME NEW x \in DOMAIN sinks', Writes(x)' PROVE x \in DOMAIN sinks /\ Writes(x) /\ sinks'[x] = sinks[x]
    BY <1>1, <1>3, <1>4, <1>10, <2>8 DEF Writes, State
  <2>9. WritersKnown' /\ NoDoubleWrite'
    <3>1. ~(\E b \in Processes : Stops(b))
      BY <1>8, <2>3
    <3>2. WritersKnown'
      BY <1>4, <1>12, <2>4, <2>8, <3>1 DEF Orderly, WritersKnown
    <3>3. NoDoubleWrite'
      BY <1>12, <2>8 DEF Orderly, NoDoubleWrite
    <3> QED BY <3>2, <3>3
  <2>10. ToDo'
    <3>1. ASSUME NEW g \in Requests
          PROVE  /\ place'[g] = "idle" => todo'[g] = {}
                 /\ \A c \in todo'[g] : table'[c] = want'[g]
                 /\ place'[g] # "building"
      BY <1>6, <1>9, <1>12, <2>3, PublisherHere DEF Orderly, ToDo
    <3>2. place'["publisher"] \notin {"adding"} \cup HubPlaces => todo'["publisher"] = {}
      <4>1. CASE a = "publisher"
        BY <1>6, <4>1 DEF HubPlaces
      <4>2. CASE a # "publisher"
        BY <1>9, <1>12, <4>2, PublisherHere DEF Orderly, ToDo
      <4> QED BY <4>1, <4>2
    <3>3. \A c \in todo'["publisher"] : table'[c] = "enabled"
      BY <1>12 DEF Orderly, ToDo
    <3>4. \A b \in Processes : Adds(b)' => table'[job'[b].dest] = "enabled"
      BY <1>5, <1>12, <2>3
    <3> QED BY <3>1, <3>2, <3>3, <3>4 DEF ToDo
  <2>11. Allowed'
    <3>1. ASSUME NEW c \in Dests, table'[c] # "enabled", hub'[c] # 0
          PROVE  \E g \in Requests : ~Quiet(g)' /\ want'[g] = "disabled" /\ c \in todo'[g]
      <4>1. PICK g \in Requests : \/ ~Quiet(g) /\ want[g] = "disabled" /\ c \in todo[g]
                                  \/ place[g] \in {"removing", "remove"} /\ job[g].dest = c
        BY <1>4, <1>12, <3>1 DEF Orderly, Allowed
      <4>2. g = a
        BY <2>3, <4>1, PublisherHere DEF Quiet
      <4> QED BY <1>6, <4>1, <4>2, PublisherHere DEF Quiet
    <3> QED BY <3>1 DEF Allowed
  <2> QED BY <2>2, <2>6, <2>7, <2>9, <2>10, <2>11 DEF Orderly
<1> QED BY <1>6, <1>7, <1>11, <1>12

\* The session builds the sink of the next destination of its list.
LEMMA AddNextKeeps == ASSUME HotInv, AddNext PROVE HotInv'
<1> DEFINE a == "publisher"
<1>1. PICK d \in todo[a] : BuildSink(a, d) /\ todo' = [todo EXCEPT ![a] = todo[a] \ {d}]
  BY DEF AddNext
<1>2. /\ a \in Processes /\ place[a] = "adding" /\ UNCHANGED <<table, want>>
  BY PublisherHere DEF AddNext
<1>3. d \in Dests /\ todo' \in [Processes -> SUBSET Dests] /\ todo'[a] \subseteq todo[a]
      /\ \A h \in Requests : todo'[h] = todo[h]
  BY <1>1, <1>2, PublisherHere DEF HotInv, HotPlaces
<1>4. OneAtATime => table[d] = "enabled"
  BY <1>1 DEF HotInv, Orderly, ToDo
<1> QED BY <1>1, <1>2, <1>3, <1>4, BuildKeeps

\* A request builds the sink of a destination, or finds the session over.
LEMMA BuildRequestKeeps == ASSUME HotInv, NEW h \in Requests, Build(h) PROVE HotInv'
<1>1. CASE Returns(h) /\ UNCHANGED <<relay, job>>
  <2>1. /\ place[h] = "building" /\ place' = [place EXCEPT ![h] = "applying"]
        /\ UNCHANGED <<table, sinks, fed, hub, sessionID, sessions, todo, want, job>>
    BY <1>1, PublisherHere DEF Build, Returns, relay, Goes
  <2> QED BY <2>1, TurnsKeep
<1>2. CASE BuildSink(h, job[h].dest)
  <2>1. h \in Processes /\ h # "publisher" /\ place[h] = "building" /\ UNCHANGED <<table, todo, want>>
    BY PublisherHere DEF Build
  <2>2. job[h].dest \in Dests /\ todo' \in [Processes -> SUBSET Dests]
    BY <2>1 DEF HotInv, HotPlaces
  <2>3. OneAtATime => table[job[h].dest] = "enabled"
    BY <2>1 DEF HotInv, Orderly, ToDo
  <2>4. todo'["publisher"] \subseteq todo["publisher"] /\ \A g \in Requests : todo'[g] = todo[g]
    BY <2>1
  <2> QED BY <1>2, <2>1, <2>2, <2>3, <2>4, BuildKeeps
<1> QED BY <1>1, <1>2 DEF Build

-----------------------------------------------------------------------------
\* The steps of the hub that change the state of one sink.
LEMMA StateStep ==
  ASSUME HotInv, NEW x \in DOMAIN sinks, NEW s \in {"running", "stopping", "ended"}, Becomes(x, s)
  PROVE  /\ sinks' \in [DOMAIN sinks -> SinkStates] /\ DOMAIN sinks' = DOMAIN sinks
         /\ State(x)' = s /\ sinks'[x].dest = sinks[x].dest /\ sinks'[x].session = sinks[x].session
         /\ \A y \in DOMAIN sinks \ {x} : sinks'[y] = sinks[y] /\ State(y)' = State(y)
BY DEF HotInv, HotFields, Becomes, SinkStates, State

\* A step that changes sinks and nothing they are counted by.
LEMMA StateFields ==
  ASSUME HotInv, sinks' \in [DOMAIN sinks -> SinkStates], DOMAIN sinks' = DOMAIN sinks,
         UNCHANGED <<table, hub, sessionID, sessions, want>>, fed' \subseteq DOMAIN sinks
  PROVE  HotFields'
BY DEF HotInv, HotFields

\* A sink that was told to stop has stopped.
LEMMA SinkEndsKeeps == ASSUME HotInv, NEW x \in DOMAIN sinks, SinkEnds(x) PROVE HotInv'
<1> USE DEF HotInv
<1>1. /\ UNCHANGED <<table, fed, hub, sessionID, sessions, place, todo, want, job>>
      /\ State(x) = "stopping" /\ Becomes(x, "ended")
  BY DEF SinkEnds, local
<1>2. /\ sinks' \in [DOMAIN sinks -> SinkStates] /\ DOMAIN sinks' = DOMAIN sinks
      /\ State(x)' = "ended" /\ sinks'[x].dest = sinks[x].dest /\ sinks'[x].session = sinks[x].session
      /\ \A y \in DOMAIN sinks \ {x} : sinks'[y] = sinks[y] /\ State(y)' = State(y)
  BY <1>1, StateStep
<1>3. \A y \in DOMAIN sinks : sinks'[y].dest = sinks[y].dest /\ sinks'[y].session = sinks[y].session
  BY <1>2
<1>4. fed \subseteq DOMAIN sinks
  BY DEF HotFields
<1>5. HotFields' /\ HotPlaces'
  BY <1>1, <1>2, <1>4, StateFields DEF HotPlaces
<1>6. \A b \in Processes : Adds(b)' = Adds(b) /\ Stops(b)' = Stops(b)
  BY <1>1 DEF Adds, Stops
<1>7. Registry'
  <2>1. Registered'
    BY <1>1, <1>2, <1>3, <1>4 DEF Registry, Registered
  <2>2. ASSUME NEW b \in Processes PROVE Fresh(b)' /\ OldOut(b)'
    BY <1>1, <1>2, <1>3, <1>6 DEF Registry, Fresh, OldOut
  <2>3. EachItsOwn'
    BY <1>1, <1>6 DEF Registry, EachItsOwn
  <2> QED BY <2>1, <2>2, <2>3 DEF Registry
<1>8. ASSUME OneAtATime PROVE Orderly'
  <2>1. OneBusy' /\ ToDo' /\ Allowed'
    BY <1>1, <1>6, <1>8 DEF Orderly, OneBusy, Quiet, ToDo, Allowed
  <2>2. InSession'
    <3>1. \A b \in Processes : Adds(b) => job[b].sink \in DOMAIN sinks
      BY DEF Registry, Fresh
    <3> QED BY <1>1, <1>2, <1>3, <1>6, <1>8, <3>1 DEF Orderly, InSession
  <2>3. Handled'
    <3>1. ASSUME NEW y \in DOMAIN sinks', State(y)' = "running" PROVE State(y) = "running" /\ y # x
      BY <1>2, <3>1
    <3>2. ASSUME NEW b \in Processes, place'[b] = "signal" PROVE State(job[b].old)' = "running"
      <4>1. State(job[b].old) = "running" /\ job[b].old \in DOMAIN sinks
        BY <1>1, <1>4, <1>8, <3>2 DEF Orderly, Handled, Registry, OldOut, Stops
      <4> QED BY <1>1, <1>2, <4>1 DEF State
    <3> QED BY <1>1, <1>2, <1>3, <1>6, <1>8, <3>1, <3>2 DEF Orderly, Handled, State
  <2>4. \A y \in DOMAIN sinks : Writes(y)' => Writes(y)
    BY <1>1, <1>2 DEF Writes
  <2>5. WritersKnown'
    BY <1>1, <1>2, <1>3, <1>6, <1>8, <2>4 DEF Orderly, WritersKnown
  <2>6. NoDoubleWrite'
    BY <1>1, <1>2, <1>3, <1>8, <2>4 DEF Orderly, NoDoubleWrite
  <2> QED BY <2>1, <2>2, <2>3, <2>5, <2>6 DEF Orderly
<1> QED BY <1>5, <1>7, <1>8

\* Engine.RemoveSink takes a sink out of the registry.
LEMMA RemoveHotKeeps == ASSUME HotInv, NEW h \in Requests, removeHot(h) PROVE HotInv'
<1>1. place[h] = "removing" /\ UNCHANGED <<table, sinks, fed, hub, sessionID, sessions, todo, want, job>>
  BY DEF removeHot, relay
<1>2. CASE sessionID # 0
  BY <1>1, <1>2, TurnsKeep DEF removeHot, liveSession, Goes
<1>3. CASE sessionID = 0
  <2>1. place' = [place EXCEPT ![h] = "applying"]
    BY <1>3, PublisherHere DEF removeHot, liveSession, Returns, Goes
  <2> QED BY <1>1, <1>3, <2>1, TurnsKeep
<1> QED BY <1>2, <1>3

\* A process at work in the hub: alone with one user, in a session.
LEMMA AtTheHub ==
  ASSUME HotInv, NEW a \in Processes, place[a] \in HubPlaces \cup {"remove"}
  PROVE  /\ ~Quiet(a) /\ job[a].dest \in Dests
         /\ OneAtATime => /\ OthersQuiet(a) /\ sessionID # 0
                          /\ \A b \in Processes \ {a} :
                               /\ ~Adds(b) /\ ~Stops(b) /\ Quiet(b)
                               /\ place[b] \notin HubPlaces \cup {"building", "removing", "remove"}
<1>1. ~Quiet(a)
  BY DEF Quiet, HubPlaces
<1>2. job[a].dest \in Dests
  BY DEF HotInv, HotPlaces
<1>3. ASSUME OneAtATime PROVE OthersQuiet(a) /\ sessionID # 0
  BY <1>1, <1>3, AloneAtWork DEF HotInv, Orderly, InSession
<1> QED BY <1>1, <1>2, <1>3, QuietPlaces DEF OthersQuiet

\* The destination in hand, and the table, stay as they are while a process goes from
\* one place of the hub to another.
LEMMA HubToDo ==
  ASSUME HotInv, OneAtATime, NEW a \in Processes,
         place[a] \in HubPlaces \cup {"remove"}, place'[a] \in HubPlaces \cup {"adding", "applying"},
         HotPlaces', OthersStay(a), UNCHANGED <<table, todo, want>>, job'[a].dest = job[a].dest,
         Adds(a)' => Adds(a),
         \A d \in Dests : hub'[d] # 0 => hub[d] # 0 \/ table[d] = "enabled",
         place[a] = "remove" => hub'[job[a].dest] = 0
  PROVE  OneBusy' /\ ToDo' /\ Allowed'
<1> USE DEF HotInv
<1>1. /\ ~Quiet(a) /\ OthersQuiet(a) /\ sessionID # 0
      /\ \A b \in Processes \ {a} :
           /\ ~Adds(b) /\ ~Stops(b) /\ Quiet(b)
           /\ place[b] \notin HubPlaces \cup {"building", "removing", "remove"}
  BY AtTheHub
<1>2. \A b \in Processes \ {a} : place'[b] = place[b] /\ job'[b] = job[b] /\ Adds(b)' = Adds(b)
  BY DEF OthersStay, Adds
<1>3. OneBusy'
  BY <1>1, OneBusyKept
<1>4. ToDo'
  <2>1. ASSUME NEW g \in Requests
        PROVE  /\ place'[g] = "idle" => todo'[g] = {}
               /\ \A d \in todo'[g] : table'[d] = want'[g]
               /\ place'[g] # "building"
    BY <1>1, <1>2, PublisherHere DEF Orderly, ToDo, HubPlaces
  <2>2. place'["publisher"] \notin {"adding"} \cup HubPlaces => todo'["publisher"] = {}
    BY <1>2, PublisherHere DEF Orderly, ToDo, HotPlaces, SessionPlaces
  <2>3. \A b \in Processes : Adds(b)' => table'[job'[b].dest] = "enabled"
    BY <1>2 DEF Orderly, ToDo
  <2> QED BY <2>1, <2>2, <2>3 DEF Orderly, ToDo
<1>5. Allowed'
  <2>1. ASSUME NEW d \in Dests, table'[d] # "enabled", hub'[d] # 0
        PROVE  \E g \in Requests : ~Quiet(g)' /\ want'[g] = "disabled" /\ d \in todo'[g]
    <3>1. PICK g \in Requests : \/ ~Quiet(g) /\ want[g] = "disabled" /\ d \in todo[g]
                                \/ place[g] \in {"removing", "remove"} /\ job[g].dest = d
      BY <2>1 DEF Orderly, Allowed
    <3>2. g = a \/ (~Quiet(g) /\ place'[g] = place[g])
      BY <1>1, <1>2, <3>1, PublisherHere DEF Quiet
    <3>3. ~Quiet(g)'
      BY <3>2 DEF Quiet, HubPlaces
    <3>4. ~(place[g] \in {"removing", "remove"} /\ job[g].dest = d)
      BY <1>1, <2>1, <3>1, PublisherHere DEF HubPlaces
    <3> QED BY <3>1, <3>3, <3>4
  <2> QED BY <2>1 DEF Allowed
<1> QED BY <1>3, <1>4, <1>5

\* Hub.Add starts the sink ...
LEMMA StartSinkKeeps == ASSUME HotInv, NEW a \in Processes, StartSink(a) PROVE HotInv'
<1> USE DEF HotInv
<1>0. place[a] = "start" /\ place[a] \in HubPlaces /\ Adds(a) /\ ~Stops(a)
  BY DEF StartSink, HubPlaces, Adds, Stops
<1>k. PICK k : k = job[a].sink
  OBVIOUS
<1>1. /\ Becomes(k, "running") /\ place' = [place EXCEPT ![a] = "take"]
      /\ UNCHANGED <<table, fed, hub, sessionID, sessions, todo, want, job>>
  BY <1>k DEF StartSink, Goes
<1>2. k \in DOMAIN sinks \ fed /\ sinks[k].dest = job[a].dest /\ State(k) = "built"
  BY <1>k, <1>0 DEF Registry, Fresh
<1>3. /\ sinks' \in [DOMAIN sinks -> SinkStates] /\ DOMAIN sinks' = DOMAIN sinks
      /\ State(k)' = "running" /\ sinks'[k].dest = sinks[k].dest /\ sinks'[k].session = sinks[k].session
      /\ \A y \in DOMAIN sinks \ {k} : sinks'[y] = sinks[y] /\ State(y)' = State(y)
  BY <1>1, <1>2, StateStep
<1>4. fed \subseteq DOMAIN sinks
  BY DEF HotFields
<1>5. HotFields'
  BY <1>1, <1>3, <1>4, StateFields
<1>6. HotPlaces' /\ place'[a] = "take" /\ OthersStay(a)
  <2>1. job[a].dest \in Dests
    BY <1>0, AtTheHub
  <2>2. job' \in [Processes -> JobStates] /\ todo' \in [Processes -> SUBSET Dests]
        /\ \A b \in Processes \ {a} : job'[b] = job[b]
    BY <1>1 DEF HotPlaces
  <2>3. "take" \in SessionPlaces /\ "take" \in RequestPlaces
    BY DEF SessionPlaces, RequestPlaces, HubPlaces
  <2> QED BY <1>1, <2>1, <2>2, <2>3, PlacesStep
<1>7. Adds(a)' /\ ~Stops(a)' /\ \A b \in Processes \ {a} :
        /\ Adds(b)' = Adds(b) /\ Stops(b)' = Stops(b) /\ place'[b] = place[b] /\ job'[b] = job[b]
  BY <1>6 DEF Adds, Stops, OthersStay
<1>8. \A y \in DOMAIN sinks : sinks'[y].dest = sinks[y].dest /\ sinks'[y].session = sinks[y].session
  BY <1>3
<1>9. Registry'
  <2>1. Registered'
    BY <1>1, <1>2, <1>3, <1>4, <1>8 DEF Registry, Registered
  <2>2. ASSUME NEW b \in Processes PROVE Fresh(b)' /\ OldOut(b)'
    <3>1. CASE b = a
      BY <1>k, <1>1, <1>2, <1>3, <1>6, <1>7, <3>1 DEF Fresh, OldOut, State
    <3>2. CASE b # a
      <4>1. Adds(b) => job[b].sink # k
        BY <1>k, <1>0, <3>2 DEF Registry, EachItsOwn
      <4> QED BY <1>1, <1>3, <1>7, <1>8, <3>2, <4>1 DEF Registry, Fresh, OldOut, State
    <3> QED BY <3>1, <3>2
  <2>3. EachItsOwn'
    BY <1>0, <1>1, <1>7 DEF Registry, EachItsOwn
  <2> QED BY <2>1, <2>2, <2>3 DEF Registry
<1>10. ASSUME OneAtATime PROVE Orderly'
  <2>1. \A b \in Processes \ {a} : /\ ~Adds(b) /\ ~Stops(b) /\ Quiet(b)
                                   /\ place[b] \notin HubPlaces \cup {"building", "removing", "remove"}
    BY <1>0, <1>10, AtTheHub
  <2>2. OneBusy' /\ ToDo' /\ Allowed'
    <3>1. place'[a] \in HubPlaces
      BY <1>6 DEF HubPlaces
    <3>2. job'[a].dest = job[a].dest /\ \A d \in Dests : hub'[d] # 0 => hub[d] # 0
      BY <1>1
    <3> QED BY <1>0, <1>1, <1>6, <1>10, <3>1, <3>2, HubToDo
  <2>3. /\ place'["publisher"] = "off" <=> place["publisher"] = "off"
        /\ place'["publisher"] = "grace" <=> place["publisher"] = "grace"
    BY <1>0, <1>6, PublisherHere DEF OthersStay
  <2>4. InSession'
    <3>1. \A b \in Processes : Adds(b)' => sinks'[job'[b].sink].session = sessionID
      BY <1>k, <1>0, <1>1, <1>2, <1>7, <1>8, <1>10, <2>1 DEF Orderly, InSession
    <3>2. \A b \in Processes : place'[b] \in HubPlaces \cup {"building", "remove"} => sessionID # 0
      BY <1>0, <1>7, <1>10 DEF Orderly, InSession
    <3> QED BY <1>1, <1>3, <1>8, <1>10, <2>3, <3>1, <3>2 DEF Orderly, InSession
  <2>5. Handled'
    <3>1. ASSUME NEW y \in DOMAIN sinks', State(y)' = "running"
          PROVE  hub'[sinks'[y].dest] = y \/ (Adds(a)' /\ job'[a].sink = y)
      <4>1. CASE y = k
        BY <1>k, <1>1, <1>7, <4>1
      <4>2. CASE y # k
        <5>1. State(y) = "running" /\ y \in DOMAIN sinks
          BY <1>3, <3>1, <4>2
        <5>2. hub[sinks[y].dest] = y
          BY <1>k, <1>0, <1>10, <2>1, <4>2, <5>1 DEF Orderly, Handled, HubPlaces
        <5> QED BY <1>1, <1>8, <5>1, <5>2
      <4> QED BY <4>1, <4>2
    <3>2. \A b \in Processes : place'[b] \notin {"signal", "wait", "register"}
      BY <1>6, <1>7, <2>1 DEF HubPlaces
    <3> QED BY <3>1, <3>2 DEF Handled
  <2>6. \A y \in DOMAIN sinks : Writes(y)' => Writes(y)
    BY <1>1, <1>2, <1>3 DEF Writes
  <2>7. WritersKnown' /\ NoDoubleWrite'
    BY <1>0, <1>1, <1>3, <1>7, <1>8, <1>10, <2>1, <2>3, <2>6 DEF Orderly, WritersKnown, NoDoubleWrite
  <2> QED BY <2>2, <2>4, <2>5, <2>7 DEF Orderly
<1> QED BY <1>5, <1>6, <1>9, <1>10

\* SignalOld asks the old sink to stop: it was running, out of the registry.
LEMMA SignalOldKeeps == ASSUME HotInv, NEW a \in Processes, SignalOld(a) PROVE HotInv'
<1> USE DEF HotInv
<1>0. place[a] = "signal" /\ place[a] \in HubPlaces /\ Stops(a)
  BY DEF SignalOld, HubPlaces, Stops
<1>k. PICK k : k = job[a].old
  OBVIOUS
<1>1. /\ Becomes(k, "stopping") /\ place' = [place EXCEPT ![a] = "wait"]
      /\ UNCHANGED <<table, fed, hub, sessionID, sessions, todo, want, job>>
  BY <1>k DEF SignalOld, Goes
<1>2. k \in fed /\ k \in DOMAIN sinks /\ \A d \in Dests : hub[d] # k
  BY <1>k, <1>0 DEF Registry, OldOut, HotFields
<1>3. /\ sinks' \in [DOMAIN sinks -> SinkStates] /\ DOMAIN sinks' = DOMAIN sinks
      /\ State(k)' = "stopping" /\ sinks'[k].dest = sinks[k].dest /\ sinks'[k].session = sinks[k].session
      /\ \A y \in DOMAIN sinks \ {k} : sinks'[y] = sinks[y] /\ State(y)' = State(y)
  BY <1>1, <1>2, StateStep
<1>4. fed \subseteq DOMAIN sinks
  BY DEF HotFields
<1>5. HotFields'
  BY <1>1, <1>3, <1>4, StateFields
<1>6. HotPlaces' /\ place'[a] = "wait" /\ OthersStay(a)
  <2>1. job[a].dest \in Dests
    BY <1>0, AtTheHub
  <2>2. job' \in [Processes -> JobStates] /\ todo' \in [Processes -> SUBSET Dests]
        /\ \A b \in Processes \ {a} : job'[b] = job[b]
    BY <1>1 DEF HotPlaces
  <2>3. "wait" \in SessionPlaces /\ "wait" \in RequestPlaces
    BY DEF SessionPlaces, RequestPlaces, HubPlaces
  <2> QED BY <1>1, <2>1, <2>2, <2>3, PlacesStep
<1>7. /\ Adds(a)' = Adds(a) /\ Stops(a)'
      /\ \A b \in Processes \ {a} :
           /\ Adds(b)' = Adds(b) /\ Stops(b)' = Stops(b) /\ place'[b] = place[b] /\ job'[b] = job[b]
  BY <1>0, <1>1, <1>6 DEF Adds, Stops, OthersStay
<1>8. \A y \in DOMAIN sinks : sinks'[y].dest = sinks[y].dest /\ sinks'[y].session = sinks[y].session
  BY <1>3
<1>9. Registry'
  <2>1. Registered'
    BY <1>1, <1>2, <1>3, <1>4, <1>8 DEF Registry, Registered
  <2>2. ASSUME NEW b \in Processes PROVE Fresh(b)' /\ OldOut(b)'
    <3>1. Adds(b) => job[b].sink # k
      BY <1>2 DEF Registry, Fresh
    <3>2. OldOut(b)'
      BY <1>0, <1>1, <1>7 DEF Registry, OldOut
    <3>3. place[b] = "start" <=> place'[b] = "start"
      BY <1>0, <1>6, <1>7
    <3>4. Adds(b)' = Adds(b) /\ job'[b] = job[b]
      BY <1>1, <1>7
    <3> QED BY <1>1, <1>3, <1>8, <3>1, <3>2, <3>3, <3>4 DEF Registry, Fresh, State
  <2>3. EachItsOwn'
    BY <1>1, <1>7 DEF Registry, EachItsOwn
  <2> QED BY <2>1, <2>2, <2>3 DEF Registry
<1>10. ASSUME OneAtATime PROVE Orderly'
  <2>1. \A b \in Processes \ {a} : /\ ~Adds(b) /\ ~Stops(b) /\ Quiet(b)
                                   /\ place[b] \notin HubPlaces \cup {"building", "removing", "remove"}
    BY <1>0, <1>10, AtTheHub
  <2>2. OneBusy' /\ ToDo' /\ Allowed'
    <3>1. place'[a] \in HubPlaces
      BY <1>6 DEF HubPlaces
    <3>2. job'[a].dest = job[a].dest /\ \A d \in Dests : hub'[d] # 0 => hub[d] # 0
      BY <1>1
    <3> QED BY <1>0, <1>1, <1>6, <1>7, <1>10, <3>1, <3>2, HubToDo
  <2>3. /\ place'["publisher"] = "off" <=> place["publisher"] = "off"
        /\ place'["publisher"] = "grace" <=> place["publisher"] = "grace"
    BY <1>0, <1>6, PublisherHere DEF OthersStay
  <2>4. InSession'
    <3>1. \A b \in Processes : Adds(b)' => sinks'[job'[b].sink].session = sessionID
      <4>1. Adds(a) => job[a].sink \in DOMAIN sinks
        BY DEF Registry, Fresh
      <4> QED BY <1>0, <1>1, <1>7, <1>8, <1>10, <2>1, <4>1 DEF Orderly, InSession
    <3>2. \A b \in Processes : place'[b] \in HubPlaces \cup {"building", "remove"} => sessionID # 0
      BY <1>0, <1>7, <1>10 DEF Orderly, InSession
    <3> QED BY <1>1, <1>3, <1>8, <1>10, <2>3, <3>1, <3>2 DEF Orderly, InSession
  <2>5. Handled'
    <3>1. ASSUME NEW y \in DOMAIN sinks', State(y)' = "running"
          PROVE  hub'[sinks'[y].dest] = y \/ (Adds(a)' /\ job'[a].sink = y)
      <4>1. y # k
        BY <1>3, <3>1
      <4>2. State(y) = "running" /\ y \in DOMAIN sinks
        BY <1>3, <3>1, <4>1
      <4>3. hub[sinks[y].dest] = y \/ (Adds(a) /\ job[a].sink = y)
        BY <1>k, <1>0, <1>10, <2>1, <4>1, <4>2 DEF Orderly, Handled, HubPlaces
      <4> QED BY <1>1, <1>7, <1>8, <4>2, <4>3
    <3>2. \A b \in Processes : place'[b] # "signal"
      BY <1>6, <1>7, <2>1 DEF HubPlaces
    <3>3. \A b \in Processes : place'[b] \in {"wait", "register"} => hub'[job'[b].dest] = 0
      BY <1>0, <1>1, <1>7, <1>10, <2>1 DEF Orderly, Handled, HubPlaces
    <3> QED BY <3>1, <3>2, <3>3 DEF Handled
  <2>6. \A y \in DOMAIN sinks : Writes(y)' => Writes(y)
    <3>1. State(k) = "running"
      BY <1>k, <1>0, <1>10 DEF Orderly, Handled
    <3> QED BY <1>1, <1>2, <1>3, <3>1 DEF Writes
  <2>7. WritersKnown' /\ NoDoubleWrite'
    BY <1>0, <1>1, <1>3, <1>7, <1>8, <1>10, <2>1, <2>3, <2>6 DEF Orderly, WritersKnown, NoDoubleWrite
  <2> QED BY <2>2, <2>4, <2>5, <2>7 DEF Orderly
<1> QED BY <1>5, <1>6, <1>9, <1>10

\* ... the old one has stopped, and nobody else knows it ...
LEMMA OldStoppedKeeps == ASSUME HotInv, NEW a \in Processes, OldStopped(a) PROVE HotInv'
<1> USE DEF HotInv
<1>0. place[a] = "wait" /\ place[a] \in HubPlaces /\ Stops(a) /\ (Adds(a) <=> job[a].sink # 0)
  BY DEF OldStopped, HubPlaces, Stops, Adds
<1> DEFINE s == IF job[a].sink # 0 THEN "register"
                                  ELSE IF a = "publisher" THEN "adding" ELSE "applying"
<1>1. /\ State(job[a].old) = "ended" /\ place' = [place EXCEPT ![a] = s]
      /\ UNCHANGED <<table, sinks, fed, hub, sessionID, sessions, todo, want, job>>
  BY DEF OldStopped, Returns, Goes, relay
<1>2. /\ s \in {"register", "adding", "applying"} /\ (s = "register" <=> job[a].sink # 0)
      /\ s \in IF a = "publisher" THEN SessionPlaces ELSE RequestPlaces
  BY DEF SessionPlaces, RequestPlaces, HubPlaces
<1> HIDE DEF s
<1>3. HotFields'
  BY <1>1 DEF HotFields
<1>4. HotPlaces' /\ place'[a] = s /\ OthersStay(a)
  <2>1. job[a].dest \in Dests
    BY <1>0, AtTheHub
  <2>2. job' \in [Processes -> JobStates] /\ todo' \in [Processes -> SUBSET Dests]
        /\ \A b \in Processes \ {a} : job'[b] = job[b]
    BY <1>1 DEF HotPlaces
  <2> QED BY <1>1, <1>2, <2>1, <2>2, PlacesStep
<1>5. /\ Adds(a)' = Adds(a) /\ ~Stops(a)'
      /\ \A b \in Processes \ {a} :
           /\ Adds(b)' = Adds(b) /\ Stops(b)' = Stops(b) /\ place'[b] = place[b] /\ job'[b] = job[b]
  BY <1>0, <1>1, <1>2, <1>4 DEF Adds, Stops, OthersStay
<1>6. Registry'
  <2>1. ASSUME NEW b \in Processes PROVE Fresh(b)' /\ OldOut(b)'
    <3>1. Adds(b)' = Adds(b) /\ (Stops(b)' => Stops(b)) /\ (place[b] = "start" <=> place'[b] = "start")
      BY <1>0, <1>2, <1>4, <1>5
    <3> QED BY <1>1, <3>1 DEF Registry, Fresh, OldOut, State
  <2>2. Registered' /\ EachItsOwn'
    BY <1>1, <1>5 DEF Registry, Registered, EachItsOwn, State
  <2> QED BY <2>1, <2>2 DEF Registry
<1>7. ASSUME OneAtATime PROVE Orderly'
  <2>1. \A b \in Processes \ {a} : /\ ~Adds(b) /\ ~Stops(b) /\ Quiet(b)
                                   /\ place[b] \notin HubPlaces \cup {"building", "removing", "remove"}
    BY <1>0, <1>7, AtTheHub
  <2>2. OneBusy' /\ ToDo' /\ Allowed'
    <3>1. place'[a] \in HubPlaces \cup {"adding", "applying"}
      BY <1>2, <1>4 DEF HubPlaces
    <3> QED BY <1>0, <1>1, <1>4, <1>5, <1>7, <3>1, HubToDo
  <2>3. /\ place'["publisher"] = "off" <=> place["publisher"] = "off"
        /\ place'["publisher"] = "grace" <=> place["publisher"] = "grace"
    BY <1>0, <1>2, <1>4, PublisherHere DEF OthersStay
  <2>4. InSession'
    <3>1. \A b \in Processes : place'[b] \in HubPlaces \cup {"building", "remove"} => sessionID # 0
      BY <1>0, <1>5, <1>7 DEF Orderly, InSession
    <3> QED BY <1>1, <1>5, <1>7, <2>3, <3>1 DEF Orderly, InSession
  <2>5. Handled'
    <3>1. \A b \in Processes : place[b] = "signal" => FALSE
      BY <1>0, <2>1 DEF HubPlaces
    <3>2. \A b \in Processes : /\ place'[b] # "signal"
                               /\ place'[b] \in {"wait", "register"} => b = a
      BY <1>2, <1>4, <1>5, <2>1 DEF HubPlaces
    <3> QED BY <1>0, <1>1, <1>5, <1>7, <3>1, <3>2 DEF Orderly, Handled, State
  <2>6. WritersKnown'
    <3>1. ~Writes(job[a].old)
      BY <1>1 DEF Writes
    <3> QED BY <1>1, <1>7, <2>1, <2>3, <3>1 DEF Orderly, WritersKnown, Writes, State
  <2>7. NoDoubleWrite'
    BY <1>1, <1>7 DEF Orderly, NoDoubleWrite, Writes, State
  <2> QED BY <2>2, <2>4, <2>5, <2>6, <2>7 DEF Orderly
<1> QED BY <1>3, <1>4, <1>6, <1>7

\* The first critical section of Hub.Add, or that of Hub.Remove: the sink that was
\* registered is in hand, and runs.
LEMMA TakeOldKeeps == ASSUME HotInv, NEW a \in Processes, TakeOld(a) PROVE HotInv'
<1> USE DEF HotInv
<1>0. /\ place[a] \in {"take", "remove"} /\ place[a] \in HubPlaces \cup {"remove"} /\ ~Stops(a)
      /\ Adds(a) <=> place[a] = "take"
  BY DEF TakeOld, HubPlaces, Stops, Adds
<1>1. PICK d : d = job[a].dest
  OBVIOUS
<1>2. d \in Dests /\ ~Quiet(a)
  BY <1>0, <1>1, AtTheHub
<1>3. PICK k : k = hub[d]
  OBVIOUS
<1> DEFINE s == IF k # 0 THEN "signal" ELSE IF place[a] = "take" THEN "register"
                ELSE IF a = "publisher" THEN "adding" ELSE "applying"
<1>4. /\ job' = [job EXCEPT ![a].old = k] /\ hub' = [hub EXCEPT ![d] = 0]
      /\ place' = [place EXCEPT ![a] = s]
      /\ UNCHANGED <<table, sinks, fed, sessionID, sessions, todo, want>>
  BY <1>1, <1>3 DEF TakeOld, Returns, Goes
<1>5. a = "publisher" => place[a] = "take"
  BY <1>0 DEF HotPlaces, SessionPlaces, HubPlaces
<1>6. /\ s \in {"signal", "register", "adding", "applying"} /\ (s = "signal" <=> k # 0)
      /\ s = "register" <=> k = 0 /\ place[a] = "take"
      /\ s \in IF a = "publisher" THEN SessionPlaces ELSE RequestPlaces
  BY <1>0, <1>5 DEF SessionPlaces, RequestPlaces, HubPlaces
<1> HIDE DEF s
<1>7. k \in Nat /\ hub' \in [Dests -> Nat] /\ hub'[d] = 0 /\ \A c \in Dests \ {d} : hub'[c] = hub[c]
  BY <1>2, <1>3, <1>4 DEF HotFields
<1>8. HotFields'
  BY <1>4, <1>7 DEF HotFields
<1>9. /\ job' \in [Processes -> JobStates] /\ job'[a].dest = d /\ job'[a].sink = job[a].sink
      /\ job'[a].old = k /\ \A b \in Processes \ {a} : job'[b] = job[b]
  BY <1>1, <1>4, <1>7 DEF HotPlaces, JobStates
<1>10. HotPlaces' /\ place'[a] = s /\ OthersStay(a)
  <2>1. todo' \in [Processes -> SUBSET Dests]
    BY <1>4 DEF HotPlaces
  <2> QED BY <1>2, <1>4, <1>6, <1>9, <2>1, PlacesStep
<1>11. place[a] = "remove" => job[a].sink = 0
  BY DEF HotPlaces
<1>12. Adds(a)' => place[a] = "take"
  BY <1>0, <1>6, <1>9, <1>10, <1>11 DEF Adds
<1>13. /\ Stops(a)' <=> k # 0
       /\ \A b \in Processes \ {a} :
            /\ Adds(b)' = Adds(b) /\ Stops(b)' = Stops(b) /\ place'[b] = place[b] /\ job'[b] = job[b]
  BY <1>6, <1>10 DEF Adds, Stops, OthersStay
<1>14. 0 \notin fed
  BY DEF HotFields
<1>15. k # 0 => k \in fed /\ State(k) = "running" /\ sinks[k].dest = d
  BY <1>2, <1>3 DEF Registry, Registered
<1>16. Registry'
  <2>1. Registered'
    BY <1>4, <1>7 DEF Registry, Registered, State
  <2>2. ASSUME NEW b \in Processes PROVE Fresh(b)' /\ OldOut(b)'
    <3>1. CASE b = a
      <4>1. Fresh(b)'
        BY <1>0, <1>1, <1>4, <1>6, <1>9, <1>10, <1>12, <3>1 DEF Registry, Fresh, State
      <4>2. OldOut(b)'
        <5>1. ASSUME k # 0, NEW c \in Dests PROVE hub'[c] # k
          BY <1>2, <1>3, <1>7, <1>15, <5>1 DEF Registry, Registered
        <5> QED BY <1>4, <1>9, <1>13, <1>15, <3>1, <5>1 DEF OldOut
      <4> QED BY <4>1, <4>2
    <3>2. CASE b # a
      BY <1>4, <1>7, <1>13, <1>14, <3>2 DEF Registry, Fresh, OldOut, State
    <3> QED BY <3>1, <3>2
  <2>3. EachItsOwn'
    BY <1>0, <1>9, <1>12, <1>13 DEF Registry, EachItsOwn
  <2> QED BY <2>1, <2>2, <2>3 DEF Registry
<1>17. ASSUME OneAtATime PROVE Orderly'
  <2>1. /\ sessionID # 0
        /\ \A b \in Processes \ {a} : /\ ~Adds(b) /\ ~Stops(b) /\ Quiet(b)
                                      /\ place[b] \notin HubPlaces \cup {"building", "removing", "remove"}
    BY <1>0, <1>17, AtTheHub
  <2>2. OneBusy' /\ ToDo' /\ Allowed'
    <3>1. place'[a] \in HubPlaces \cup {"adding", "applying"}
      BY <1>6, <1>10 DEF HubPlaces
    <3>2. hub'[job[a].dest] = 0 /\ \A c \in Dests : hub'[c] # 0 => hub[c] # 0
      BY <1>1, <1>7
    <3>3. job'[a].dest = job[a].dest /\ (Adds(a)' => Adds(a))
      BY <1>0, <1>1, <1>9, <1>12
    <3> QED BY <1>0, <1>4, <1>10, <1>17, <3>1, <3>2, <3>3, HubToDo
  <2>3. /\ place'["publisher"] = "off" <=> place["publisher"] = "off"
        /\ place'["publisher"] = "grace" <=> place["publisher"] = "grace"
    BY <1>0, <1>6, <1>10, PublisherHere DEF OthersStay
  <2>4. InSession'
    <3>1. \A b \in Processes : Adds(b)' => sinks'[job'[b].sink].session = sessionID
      BY <1>0, <1>4, <1>9, <1>12, <1>13, <1>17, <2>1 DEF Orderly, InSession
    <3>2. place'["publisher"] \in {"off", "grace"} => \A c \in Dests : hub'[c] = 0
      BY <1>7, <1>17, <2>3 DEF Orderly, InSession
    <3> QED BY <1>4, <1>17, <2>1, <2>3, <3>1, <3>2 DEF Orderly, InSession
  <2>5. Handled'
    <3>1. ASSUME NEW x \in DOMAIN sinks', State(x)' = "running"
          PROVE  \/ hub'[sinks'[x].dest] = x
                 \/ \E b \in Processes : \/ Adds(b)' /\ job'[b].sink = x
                                         \/ place'[b] = "signal" /\ job'[b].old = x
      <4>1. x \in DOMAIN sinks /\ State(x) = "running" /\ sinks'[x] = sinks[x] /\ x # 0
            /\ sinks[x].dest \in Dests
        BY <1>4, <3>1 DEF State, HotFields, SinkStates
      <4>2. hub[sinks[x].dest] = x \/ (Adds(a) /\ job[a].sink = x)
        BY <1>0, <1>17, <2>1, <4>1 DEF Orderly, Handled, HubPlaces
      <4>3. CASE Adds(a) /\ job[a].sink = x
        <5>1. Adds(a)'
          BY <1>0, <1>6, <1>9, <1>10, <4>1, <4>3 DEF Adds
        <5> QED BY <1>9, <4>3, <5>1
      <4>4. CASE hub[sinks[x].dest] = x /\ sinks[x].dest = d
        BY <1>3, <1>6, <1>9, <1>10, <4>1, <4>4
      <4>5. CASE hub[sinks[x].dest] = x /\ sinks[x].dest # d
        BY <1>7, <4>1, <4>5
      <4> QED BY <4>2, <4>3, <4>4, <4>5
    <3>2. \A b \in Processes : place'[b] \in {"signal", "wait", "register"} => b = a
      BY <1>13, <2>1 DEF HubPlaces
    <3>3. place'[a] = "signal" => State(k)' = "running"
      BY <1>4, <1>6, <1>10, <1>15 DEF State
    <3> QED BY <1>7, <1>9, <3>1, <3>2, <3>3 DEF Handled, State
  <2>6. WritersKnown'
    <3>1. ASSUME NEW x \in DOMAIN sinks', Writes(x)'
          PROVE  \/ hub'[sinks'[x].dest] = x
                 \/ \E b \in Processes : Stops(b)' /\ job'[b].old = x
                 \/ sinks'[x].session # sessionID'
                 \/ place'["publisher"] = "grace"
      <4>1. x \in DOMAIN sinks /\ Writes(x) /\ sinks'[x] = sinks[x] /\ x # 0
            /\ sinks[x].dest \in Dests
        BY <1>4, <3>1 DEF State, Writes, HotFields, SinkStates
      <4>2. \/ hub[sinks[x].dest] = x \/ sinks[x].session # sessionID \/ place["publisher"] = "grace"
        BY <1>0, <1>17, <2>1, <4>1 DEF Orderly, WritersKnown
      <4>3. CASE hub[sinks[x].dest] = x /\ sinks[x].dest = d
        BY <1>3, <1>9, <1>13, <4>1, <4>3
      <4>4. CASE hub[sinks[x].dest] = x /\ sinks[x].dest # d
        BY <1>7, <4>1, <4>4
      <4> QED BY <1>4, <2>3, <4>1, <4>2, <4>3, <4>4
    <3> QED BY <3>1 DEF WritersKnown
  <2>7. NoDoubleWrite'
    BY <1>4, <1>17 DEF Orderly, NoDoubleWrite, Writes, State
  <2> QED BY <2>2, <2>4, <2>5, <2>6, <2>7 DEF Orderly
<1> QED BY <1>8, <1>10, <1>16, <1>17

\* The second critical section of Hub.Add: with one user nobody else has registered a
\* sink of that destination meanwhile, nor does another write there in this session.
LEMMA RegisterKeeps == ASSUME HotInv, NEW a \in Processes, Register(a) PROVE HotInv'
<1> USE DEF HotInv
<1>0. place[a] = "register" /\ place[a] \in HubPlaces /\ Adds(a) /\ ~Stops(a)
  BY DEF Register, HubPlaces, Adds, Stops
<1>1. PICK d : d = job[a].dest
  OBVIOUS
<1>2. PICK k : k = job[a].sink
  OBVIOUS
<1>3. d \in Dests
  BY <1>0, <1>1, AtTheHub
<1> DEFINE s == IF a = "publisher" THEN "adding" ELSE "applying"
<1>4. /\ hub' = [hub EXCEPT ![d] = k] /\ fed' = fed \cup {k} /\ place' = [place EXCEPT ![a] = s]
      /\ UNCHANGED <<table, sinks, sessionID, sessions, todo, want, job>>
  BY <1>1, <1>2 DEF Register, Returns, Goes
<1>5. s \in {"adding", "applying"} /\ s \in IF a = "publisher" THEN SessionPlaces ELSE RequestPlaces
  BY DEF SessionPlaces, RequestPlaces, HubPlaces
<1> HIDE DEF s
<1>6. k \in DOMAIN sinks /\ k \notin fed /\ sinks[k].dest = d /\ State(k) = "running"
  BY <1>0, <1>1, <1>2 DEF Registry, Fresh
<1>7. k \in Nat /\ k # 0
  BY <1>6 DEF HotFields
<1>8. hub' \in [Dests -> Nat] /\ hub'[d] = k /\ \A c \in Dests \ {d} : hub'[c] = hub[c]
  BY <1>3, <1>4, <1>7 DEF HotFields
<1>9. HotFields'
  BY <1>4, <1>6, <1>8 DEF HotFields
<1>10. HotPlaces' /\ place'[a] = s /\ OthersStay(a)
  <2>1. job' \in [Processes -> JobStates] /\ todo' \in [Processes -> SUBSET Dests]
        /\ \A b \in Processes \ {a} : job'[b] = job[b]
    BY <1>4 DEF HotPlaces
  <2>2. job'[a].dest \in Dests
    BY <1>1, <1>3, <1>4
  <2> QED BY <1>4, <1>5, <2>1, <2>2, PlacesStep
<1>11. ~Adds(a)' /\ ~Stops(a)' /\ \A b \in Processes \ {a} :
         /\ Adds(b)' = Adds(b) /\ Stops(b)' = Stops(b) /\ place'[b] = place[b] /\ job'[b] = job[b]
  BY <1>5, <1>10 DEF Adds, Stops, OthersStay
<1>12. Registry'
  <2>1. Registered'
    BY <1>4, <1>6, <1>8 DEF Registry, Registered, State
  <2>2. ASSUME NEW b \in Processes PROVE Fresh(b)' /\ OldOut(b)'
    <3>1. CASE b = a
      BY <1>11, <3>1 DEF Fresh, OldOut
    <3>2. CASE b # a
      <4>1. Adds(b) => job[b].sink # k
        BY <1>0, <1>2, <3>2 DEF Registry, EachItsOwn
      <4>2. Stops(b) => job[b].old # k
        BY <1>6 DEF Registry, OldOut
      <4> QED BY <1>4, <1>8, <1>11, <3>2, <4>1, <4>2 DEF Registry, Fresh, OldOut, State
    <3> QED BY <3>1, <3>2
  <2>3. EachItsOwn'
    BY <1>4, <1>11 DEF Registry, EachItsOwn
  <2> QED BY <2>1, <2>2, <2>3 DEF Registry
<1>13. ASSUME OneAtATime PROVE Orderly'
  <2>1. /\ sessionID # 0
        /\ \A b \in Processes \ {a} : /\ ~Adds(b) /\ ~Stops(b) /\ Quiet(b)
                                      /\ place[b] \notin HubPlaces \cup {"building", "removing", "remove"}
    BY <1>0, <1>13, AtTheHub
  <2>2. hub[d] = 0 /\ table[d] = "enabled" /\ sinks[k].session = sessionID
    BY <1>0, <1>1, <1>2, <1>13 DEF Orderly, Handled, ToDo, InSession
  <2>3. OneBusy' /\ ToDo' /\ Allowed'
    <3>1. place'[a] \in HubPlaces \cup {"adding", "applying"}
      BY <1>5, <1>10
    <3>2. \A c \in Dests : hub'[c] # 0 => hub[c] # 0 \/ table[c] = "enabled"
      BY <1>8, <2>2
    <3> QED BY <1>0, <1>4, <1>10, <1>11, <1>13, <3>1, <3>2, HubToDo
  <2>4. /\ place'["publisher"] \notin {"off", "grace"} /\ place["publisher"] \notin {"off", "grace"}
    <3>1. place["publisher"] # "off"
      BY <1>13, <2>1 DEF Orderly, InSession
    <3>2. place["publisher"] # "grace"
      BY <1>0, <2>1, PublisherHere DEF Quiet
    <3> QED BY <1>5, <1>10, <3>1, <3>2, PublisherHere DEF OthersStay
  <2>5. InSession'
    BY <1>4, <1>11, <1>13, <2>1, <2>4 DEF Orderly, InSession
  <2>6. Handled'
    <3>1. ASSUME NEW x \in DOMAIN sinks', State(x)' = "running" PROVE hub'[sinks'[x].dest] = x
      <4>1. x \in DOMAIN sinks /\ State(x) = "running" /\ sinks'[x] = sinks[x] /\ x # 0
            /\ sinks[x].dest \in Dests
        BY <1>4, <3>1 DEF State, HotFields, SinkStates
      <4>2. hub[sinks[x].dest] = x \/ x = k
        BY <1>0, <1>2, <1>13, <2>1, <4>1 DEF Orderly, Handled, HubPlaces
      <4> QED BY <1>6, <1>8, <2>2, <4>1, <4>2
    <3>2. \A b \in Processes : place'[b] \notin {"signal", "wait", "register"}
      BY <1>5, <1>10, <1>11, <2>1 DEF HubPlaces
    <3> QED BY <3>1, <3>2 DEF Handled
  <2>7. ASSUME NEW x \in DOMAIN sinks, Writes(x)', x # k
        PROVE  Writes(x) /\ (hub[sinks[x].dest] = x \/ sinks[x].session # sessionID)
    <3>1. Writes(x)
      BY <1>4, <2>7 DEF Writes, State
    <3> QED BY <1>0, <1>13, <2>1, <2>4, <3>1 DEF Orderly, WritersKnown
  <2>8. WritersKnown'
    <3>1. ASSUME NEW x \in DOMAIN sinks', Writes(x)'
          PROVE  hub'[sinks'[x].dest] = x \/ sinks'[x].session # sessionID'
      <4>1. x \in DOMAIN sinks /\ sinks'[x] = sinks[x] /\ x # 0 /\ sinks[x].dest \in Dests
        BY <1>4, <3>1 DEF HotFields, SinkStates
      <4> QED BY <1>4, <1>6, <1>8, <2>2, <2>7, <3>1, <4>1
    <3> QED BY <3>1 DEF WritersKnown
  <2>9. NoDoubleWrite'
    <3>1. ASSUME NEW x \in DOMAIN sinks, x # k, Writes(x)', sinks[x].dest = d, sinks[x].session = sessionID
          PROVE  FALSE
      <4>1. hub[d] = x /\ x # 0
        BY <2>7, <3>1 DEF HotFields
      <4> QED BY <2>2, <4>1
    <3> QED BY <1>4, <1>6, <1>13, <2>2, <2>7, <3>1 DEF Orderly, NoDoubleWrite
  <2> QED BY <2>3, <2>5, <2>6, <2>8, <2>9 DEF Orderly
<1> QED BY <1>9, <1>10, <1>12, <1>13

\* Hub.Close takes every registered sink out and asks it to stop.
LEMMA CloseHubKeeps == ASSUME HotInv, CloseHub PROVE HotInv'
<1> USE DEF HotInv
<1> DEFINE a == "publisher"
<1>0. a \in Processes /\ a \notin Requests /\ place[a] = "closing" /\ ~Quiet(a)
  BY PublisherHere DEF CloseHub, Quiet
<1>1. /\ hub' = [d \in Dests |-> 0] /\ place' = [place EXCEPT ![a] = "grace"]
      /\ sinks' = [x \in DOMAIN sinks |->
                     IF \E d \in Dests : hub[d] = x THEN [sinks[x] EXCEPT !.state = "stopping"]
                                                    ELSE sinks[x]]
      /\ UNCHANGED <<table, fed, sessionID, sessions, todo, want, job>>
  BY DEF CloseHub, Goes
<1>2. ASSUME NEW x \in DOMAIN sinks
      PROVE  /\ sinks'[x] \in SinkStates
             /\ sinks'[x].dest = sinks[x].dest /\ sinks'[x].session = sinks[x].session
             /\ (\A d \in Dests : hub[d] # x) => sinks'[x] = sinks[x]
             /\ (\E d \in Dests : hub[d] = x) => State(x)' = "stopping"
  <2>1. sinks[x] \in SinkStates
    BY DEF HotFields
  <2>2. CASE \E d \in Dests : hub[d] = x
    BY <1>1, <2>1, <2>2 DEF SinkStates, State
  <2>3. CASE \A d \in Dests : hub[d] # x
    BY <1>1, <2>1, <2>3
  <2> QED BY <2>2, <2>3
<1>3. DOMAIN sinks' = DOMAIN sinks /\ sinks' \in [DOMAIN sinks -> SinkStates]
  BY <1>1, <1>2
<1>4. HotFields'
  BY <1>1, <1>3 DEF HotFields
<1>5. HotPlaces' /\ place'[a] = "grace" /\ OthersStay(a)
  <2>1. job' \in [Processes -> JobStates] /\ todo' \in [Processes -> SUBSET Dests]
        /\ \A b \in Processes \ {a} : job'[b] = job[b]
    BY <1>1 DEF HotPlaces
  <2>2. "grace" \in SessionPlaces /\ "grace" \notin HubPlaces \cup {"building", "removing", "remove"}
    BY DEF SessionPlaces, HubPlaces
  <2> QED BY <1>0, <1>1, <2>1, <2>2, PlacesStep
<1>6. /\ ~Adds(a) /\ ~Stops(a) /\ ~Adds(a)' /\ ~Stops(a)'
      /\ \A b \in Processes \ {a} :
           /\ Adds(b)' = Adds(b) /\ Stops(b)' = Stops(b) /\ place'[b] = place[b] /\ job'[b] = job[b]
  BY <1>0, <1>5 DEF Adds, Stops, OthersStay
<1>7. \A x \in DOMAIN sinks : (\E d \in Dests : hub[d] = x) => x \in fed /\ State(x) = "running" /\ x # 0
  BY DEF Registry, Registered, HotFields
<1>8. Registry'
  <2>1. Registered'
    BY <1>1 DEF Registered
  <2>2. ASSUME NEW b \in Processes PROVE Fresh(b)' /\ OldOut(b)'
    <3>1. CASE b = a
      BY <1>6, <3>1 DEF Fresh, OldOut
    <3>2. CASE b # a
      <4>1. Fresh(b)'
        <5>1. ASSUME Adds(b) PROVE /\ job[b].sink \in DOMAIN sinks \ fed
                                   /\ sinks'[job[b].sink] = sinks[job[b].sink]
          BY <1>2, <1>7, <5>1 DEF Registry, Fresh
        <5>2. Adds(b)' = Adds(b) /\ place'[b] = place[b] /\ job'[b] = job[b] /\ fed' = fed
          BY <1>1, <1>6, <3>2
        <5>3. CASE Adds(b)
          BY <1>3, <5>1, <5>2, <5>3 DEF Registry, Fresh, State
        <5> QED BY <5>2, <5>3 DEF Fresh
      <4>2. OldOut(b)'
        <5>1. 0 \notin fed
          BY DEF HotFields
        <5> QED BY <1>1, <1>6, <3>2, <5>1 DEF Registry, OldOut
      <4> QED BY <4>1, <4>2
    <3> QED BY <3>1, <3>2
  <2>3. EachItsOwn'
    BY <1>1, <1>6 DEF Registry, EachItsOwn
  <2> QED BY <2>1, <2>2, <2>3 DEF Registry
<1>9. ASSUME OneAtATime PROVE Orderly'
  <2>1. OthersQuiet(a)
    BY <1>0, <1>9, AloneAtWork
  <2>2. \A b \in Processes : /\ ~Adds(b)' /\ ~Stops(b)' /\ place'[b] \notin HubPlaces \cup {"building", "remove"}
                             /\ ~Adds(b) /\ ~Stops(b) /\ place[b] \notin HubPlaces
    BY <1>0, <1>5, <1>6, <2>1, QuietPlaces DEF OthersQuiet, OthersStay, HubPlaces
  <2>3. OneBusy'
    BY <1>0, <1>5, <2>1, OneBusyKept
  <2>4. InSession'
    <3>1. sessionID # 0
      BY <1>0, <1>9 DEF Orderly, InSession
    <3>2. \A x \in DOMAIN sinks' : sinks'[x].session \in 1..sessions
      BY <1>2, <1>3, <1>9 DEF Orderly, InSession
    <3> QED BY <1>1, <1>5, <2>2, <3>1, <3>2 DEF InSession
  <2>5. Handled'
    <3>1. ASSUME NEW x \in DOMAIN sinks', State(x)' = "running" PROVE FALSE
      <4>1. x \in DOMAIN sinks /\ \A d \in Dests : hub[d] # x
        BY <1>2, <1>3, <3>1
      <4>2. State(x) = "running" /\ sinks[x].dest \in Dests
        BY <1>2, <3>1, <4>1 DEF State, HotFields, SinkStates
      <4> QED BY <1>9, <2>2, <4>1, <4>2 DEF Orderly, Handled, HubPlaces
    <3> QED BY <2>2, <3>1 DEF Handled, HubPlaces
  <2>6. WritersKnown'
    BY <1>5 DEF WritersKnown
  <2>7. NoDoubleWrite'
    <3>1. ASSUME NEW x \in DOMAIN sinks, Writes(x)' PROVE Writes(x)
      BY <1>1, <1>2, <1>7, <3>1 DEF Writes, State
    <3> QED BY <1>2, <1>3, <1>9, <3>1 DEF Orderly, NoDoubleWrite
  <2>8. ToDo'
    BY <1>0, <1>1, <1>5, <1>6, <1>9, <2>2, PublisherHere DEF Orderly, ToDo, HubPlaces
  <2>9. Allowed'
    BY <1>1 DEF Allowed
  <2> QED BY <2>3, <2>4, <2>5, <2>6, <2>7, <2>8, <2>9 DEF Orderly
<1> QED BY <1>4, <1>5, <1>8, <1>9

\* The steps of Hub.Add together.
LEMMA HubStepKeeps == ASSUME HotInv, NEW a \in Processes, HubStep(a) PROVE HotInv'
BY StartSinkKeeps, TakeOldKeeps, SignalOldKeeps, OldStoppedKeeps, RegisterKeeps DEF HubStep

\* The steps of a request together.
LEMMA RequestKeeps == ASSUME HotInv, NEW h \in Requests, Request(h) PROVE HotInv'
<1>1. CASE UpdateOne(h) \/ ToggleAll(h)
  BY <1>1, UpdateKeeps DEF UpdateOne, ToggleAll
<1>2. CASE \E d \in Dests : Delete(h, d) \/ Retry(h, d)
  BY <1>2, DeleteKeeps, RetryKeeps
<1>3. CASE applyHot(h)
  BY <1>3, SkipKeeps, SwitchKeeps, AnswerKeeps DEF applyHot
<1>4. CASE Build(h) \/ removeHot(h)
  BY <1>4, BuildRequestKeeps, RemoveHotKeeps
<1>5. CASE HubStep(h)
  BY <1>5, PublisherHere, HubStepKeeps
<1> QED BY <1>1, <1>2, <1>3, <1>4, <1>5 DEF Request, Works

\* The steps of the session together.
LEMMA SessionKeeps == ASSUME HotInv, Session PROVE HotInv'
BY PublisherHere, OpenSessionKeeps, ListEnabledKeeps, AddNextKeeps, SessionMovesKeep, CloseHubKeeps,
   GraceEndsKeeps, HubStepKeeps DEF Session

\* No step of the hub, the session or the requests breaks the invariant.
LEMMA HotStepKeeps == ASSUME HotInv, [HotNext]_hotVars PROVE HotInv'
<1>1. CASE \E h \in Requests : Request(h)
  BY <1>1, RequestKeeps
<1>2. CASE Session
  BY <1>2, SessionKeeps
<1>3. CASE \E x \in DOMAIN sinks : SinkEnds(x)
  BY <1>3, SinkEndsKeeps
<1>4. CASE UNCHANGED hotVars
  <2>1. UNCHANGED <<table, sinks, fed, hub, sessionID, sessions, place, todo, want, job>>
    BY <1>4 DEF hotVars, relay, local
  <2>2. \A b \in Processes : Adds(b)' = Adds(b) /\ Stops(b)' = Stops(b) /\ Quiet(b)' = Quiet(b)
    BY <2>1 DEF Adds, Stops, Quiet
  <2>3. HotFields' /\ HotPlaces'
    BY <2>1 DEF HotInv, HotFields, HotPlaces
  <2>4. Registry'
    BY <2>1, <2>2 DEF HotInv, Registry, Registered, Fresh, OldOut, EachItsOwn, State
  <2>5. ASSUME OneAtATime PROVE Orderly'
    <3>1. OneBusy' /\ InSession' /\ Handled'
      BY <2>1, <2>2, <2>5 DEF HotInv, Orderly, OneBusy, InSession, Handled, State
    <3>2. WritersKnown' /\ NoDoubleWrite'
      BY <2>1, <2>2, <2>5 DEF HotInv, Orderly, WritersKnown, NoDoubleWrite, Writes, State
    <3>3. ToDo'
      BY <2>1, <2>2, <2>5 DEF HotInv, Orderly, ToDo
    <3>4. Allowed'
      BY <2>1, <2>5, PublisherHere DEF HotInv, Orderly, Allowed, Quiet
    <3> QED BY <3>1, <3>2, <3>3, <3>4 DEF Orderly
  <2> QED BY <2>3, <2>4, <2>5 DEF HotInv
<1> QED BY <1>1, <1>2, <1>3, <1>4 DEF HotNext

\* The hub, the session and the requests that edit destinations on the air (relay/hub.go,
\* engine.go, httpapi/destinations.go) keep their inductive invariant.
THEOREM HotHolds == HotSpec => []HotInv
BY HotInitInv, HotStepKeeps, PTL DEF HotSpec

\* What the runs check follows from it.
LEMMA HotImplied ==
  ASSUME HotInv
  PROVE  /\ RegisteredRuns
         /\ OneAtATime => NoDoubleWrite /\ SinksAccountedFor
<1> USE DEF HotInv
<1>1. RegisteredRuns
  BY DEF Registry, Registered, RegisteredRuns
<1>2. ASSUME OneAtATime PROVE NoDoubleWrite /\ SinksAccountedFor
  <2>1. HotTypeOK
    <3>1. DOMAIN sinks \subseteq Ids
      <4>1. PICK n \in 0..MaxSinks : DOMAIN sinks = 1..n
        BY DEF HotFields
      <4> QED BY <4>1, HotBounds DEF Ids
    <3>2. ASSUME NEW x \in DOMAIN sinks
          PROVE  sinks[x] \in [dest : Dests, session : 1 .. MaxSessions,
                               state : {"built", "running", "stopping", "ended"}]
      <4>1. sinks[x] \in SinkStates /\ sinks[x].session \in 1..sessions /\ sessions \in 0..MaxSessions
        BY <1>2 DEF HotFields, Orderly, InSession
      <4>2. sinks[x].session \in 1..MaxSessions
        BY <4>1, HotBounds
      <4> QED BY <4>1, <4>2 DEF SinkStates
    <3>3. \A d \in Dests : hub[d] \in {0} \cup DOMAIN sinks
      BY DEF Registry, Registered, HotFields
    <3>4. sessionID \in 0..MaxSessions
      BY HotBounds DEF HotFields
    <3>5. \A b \in Processes : todo[b] \subseteq Dests
      BY DEF HotPlaces
    <3> QED BY <3>1, <3>2, <3>3, <3>4, <3>5 DEF HotTypeOK, HotFields
  <2>2. ASSUME NEW x \in DOMAIN sinks, State(x) = "running" PROVE sessionID # 0
    BY <1>2, <2>2 DEF Orderly, InSession, Handled, HubPlaces, Adds, HotFields, SinkStates
  <2>3. NoSinkBetweenSessions
    BY <2>2 DEF NoSinkBetweenSessions
  <2>4. NoLostSink
    <3>1. \A b \in Processes : Adds(b) \/ place[b] = "signal" => ~Quiet(b)
      BY DEF Adds, Quiet
    <3> QED BY <1>2, <3>1 DEF Orderly, Handled, NoLostSink
  <2>5. OffIsOff
    BY <1>2, PublisherHere DEF Orderly, Allowed, OffIsOff, Quiet
  <2> QED BY <1>2, <2>1, <2>3, <2>4, <2>5 DEF SinksAccountedFor, Orderly
<1> QED BY <1>1, <1>2

\* Whoever edits the destinations, and however requests and the session overlap, every sink
\* the hub feeds was started, runs and is the one of its destination (Hub.Add, Engine.AddSink).
THEOREM RegisteredAreRunning == HotSpec => []RegisteredRuns
BY HotHolds, HotImplied, PTL

\* With one user, who waits for each answer, no destination is ever written by two sinks
\* of a session: the new one is registered once the old one has stopped (Hub.Add).
THEOREM OneWriterPerDestination == ASSUME OneAtATime PROVE HotSpec => []NoDoubleWrite
<1>1. HotInv /\ OneAtATime => NoDoubleWrite
  BY HotImplied
<1> QED BY <1>1, HotHolds, PTL

\* With one user too, no sink runs on that is neither registered nor in hand, none runs
\* between sessions, and what is off is not fed (applyHot, startSession, OnPublishEnd).
THEOREM ChangesApplyAtOnce == ASSUME OneAtATime PROVE HotSpec => []SinksAccountedFor
<1>1. HotInv /\ OneAtATime => SinksAccountedFor
  BY HotImplied
<1> QED BY <1>1, HotHolds, PTL

-----------------------------------------------------------------------------
\* The tokens of an account.

\* Nobody works with a grant the person has not given, nor with a generation the
\* platform has not reached; a grant not yet given has not been refreshed.
Ordered ==
  /\ 1 \in given /\ account.pair.grant \in given
  /\ account.pair.gen =< newest[account.pair.grant]
  /\ \A p \in Procs : /\ pair[p].grant \in given
                      /\ pair[p].gen =< newest[pair[p].grant]
  /\ \A g \in Grants \ given : newest[g] = 0

\* The answer about to be written is the newest pair of its grant.
AnswerIsNewest ==
  \A p \in Procs : pc[p] = "saving" => pair[p].gen = newest[pair[p].grant]

TokenInv == /\ TypeOK /\ SingleFlight /\ Ordered /\ AnswerIsNewest
            /\ StoredPairUsable /\ HandedWereStored

-----------------------------------------------------------------------------
\* The account starts connected, with the first pair of the first grant.
LEMMA InitTokens == Init => TokenInv
<1> SUFFICES ASSUME Init PROVE TokenInv
  OBVIOUS
<1> USE TokenConstants DEF Init, Idle, First
<1>1. First \in Pair
  BY DEF Pair
<1>2. near \in BOOLEAN
  OBVIOUS
<1>3. /\ account \in [status : {"ok", "reauth", "deleted"}, pair : Pair]
      /\ pc \in [Procs -> Places] /\ pair \in [Procs -> Pair] /\ leader \in [Procs -> Procs]
      /\ restarts \in 0..MaxRestarts /\ newest \in [Grants -> 0..MaxGen]
  BY <1>1 DEF Places
<1>4. TypeOK
  BY <1>2, <1>3 DEF TypeOK
<1>5. SingleFlight
  BY DEF SingleFlight, Leading, Procs
<1>6. Ordered /\ AnswerIsNewest
  BY DEF Ordered, AnswerIsNewest, Procs
<1>7. StoredPairUsable /\ HandedWereStored
  BY DEF StoredPairUsable, HandedWereStored
<1> QED BY <1>4, <1>5, <1>6, <1>7 DEF TokenInv

\* Types are kept by every step.
LEMMA TypesKept == ASSUME TypeOK, [Next]_vars PROVE TypeOK'
<1> USE TokenConstants DEF TypeOK, Procs, Pair, First, Places, Leading, Closing, HasAccount
<1>1. ASSUME NEW c \in Callers, ReadStatus(c) PROVE TypeOK'
  BY <1>1 DEF ReadStatus, Move, platform
<1>2. ASSUME NEW c \in Callers, ReadTokens(c) PROVE TypeOK'
  BY <1>2 DEF ReadTokens, Return, platform
<1>3. ASSUME Validate PROVE TypeOK'
  <2>1. CASE ListAccounts BY <2>1 DEF ListAccounts, Move, platform
  <2>2. CASE ReadToValidate BY <2>2 DEF ReadToValidate, Return, platform
  <2>3. CASE Validate401 BY <2>3 DEF Validate401, Move, platform
  <2>4. CASE ValidateLater BY <2>4 DEF ValidateLater, Return, platform
  <2> QED BY <1>3, <2>1, <2>2, <2>3, <2>4 DEF Validate
<1>4. ASSUME NEW p \in Procs, Refresh(p) PROVE TypeOK'
  <2>1. CASE Join(p) BY <2>1 DEF Join, Move, platform
  <2>2. CASE Refused(p) BY <2>2 DEF Refused, Move, platform
  <2>3. CASE Rotated(p)
    <3>1. pair[p] \in Pair /\ newest[pair[p].grant] \in 0..MaxGen
      OBVIOUS
    <3>2. pair[p].gen + 1 \in 0..MaxGen
      <4>1. pair[p].gen \in 0..MaxGen /\ pair[p].gen < MaxGen
        BY <2>3, <3>1 DEF Rotated
      <4> HIDE DEF TypeOK
      <4> QED BY <4>1
    <3>3. newest' \in [Grants -> 0..MaxGen]
      BY <2>3, <3>1, <3>2 DEF Rotated, CanRotate
    <3>4. pair' = [pair EXCEPT ![p] = [grant |-> pair[p].grant, gen |-> pair[p].gen + 1]]
      BY <2>3 DEF Rotated
    <3>5. [grant |-> pair[p].grant, gen |-> pair[p].gen + 1] \in Pair
      BY <3>1, <3>2
    <3>6. pair' \in [Procs -> Pair]
      <4>1. pair \in [Procs -> Pair]
        OBVIOUS
      <4> HIDE DEF TypeOK, Pair
      <4> QED BY <3>4, <3>5, <4>1
    <3> QED BY <2>3, <3>3, <3>6 DEF Rotated
  <2>4. CASE RotatedUnheard(p)
    <3>1. pair[p].grant \in Grants /\ pair[p].gen \in 0..MaxGen /\ pair[p].gen < MaxGen
          /\ newest \in [Grants -> 0..MaxGen]
      BY <2>4 DEF RotatedUnheard
    <3>2. newest' = [newest EXCEPT ![pair[p].grant] = pair[p].gen + 1]
      BY <2>4 DEF RotatedUnheard, CanRotate
    <3>3. newest' \in [Grants -> 0..MaxGen]
      <4> HIDE DEF TypeOK
      <4>1. pair[p].gen + 1 \in 0..MaxGen
        BY <3>1
      <4> QED BY <3>1, <3>2, <4>1
    <3> QED BY <2>4, <3>1, <3>3 DEF RotatedUnheard, Move
  <2>5. CASE Unreachable(p) BY <2>5 DEF Unreachable, Move, platform
  <2>6. CASE Save(p)
    <3>1. pair[p] \in Pair /\ pair[p].grant \in Grants
      OBVIOUS
    <3>2. CASE Written(p)
      <4>1. account' \in [status : {"ok", "reauth", "deleted"}, pair : Pair]
        BY <3>1, <3>2 DEF Written
      <4> QED BY <3>2, <4>1 DEF Written, Move, platform
    <3>3. CASE Unwritten(p, "failed")
      BY <3>1, <3>3 DEF Unwritten, Move, platform
    <3> QED BY <2>6, <3>2, <3>3 DEF Save
  <2>7. CASE Mark(p) BY <2>7 DEF Mark, Move, platform
  <2>8. CASE MarkFails(p) BY <2>8 DEF MarkFails, Move, platform
  <2>9. CASE Forget(p) BY <2>9 DEF Forget, Move, platform
  <2>10. CASE Close(p) BY <2>10 DEF Close, Return, WaitingFor, platform
  <2> QED BY <1>4, <2>1, <2>2, <2>3, <2>4, <2>5, <2>6, <2>7, <2>8, <2>9, <2>10 DEF Refresh
<1>5. ASSUME NEW p \in Procs, GiveUp(p) PROVE TypeOK'
  BY <1>5 DEF GiveUp, Return, platform
<1>6. ASSUME Person PROVE TypeOK'
  <2>1. ASSUME NEW g \in Grants, Reconnect(g) PROVE TypeOK'
    <3>1. account' \in [status : {"ok", "reauth", "deleted"}, pair : Pair]
      BY <2>1 DEF Reconnect
    <3> QED BY <2>1, <3>1 DEF Reconnect, process, locals
  <2>2. ASSUME NEW g \in Grants, Revoke(g) PROVE TypeOK'
    BY <2>2 DEF Revoke, process, locals
  <2>3. CASE DeleteAccount BY <2>3 DEF DeleteAccount, process, locals, platform
  <2>4. CASE Age BY <2>4 DEF Age, process, locals, platform
  <2> QED BY <1>6, <2>1, <2>2, <2>3, <2>4 DEF Person
<1>7. ASSUME Restart PROVE TypeOK'
  <2>1. \A p \in Procs : pair[p].grant \in Grants
    OBVIOUS
  <2>2. lost' \subseteq Grants
    <3>1. {pair[p].grant : p \in {q \in Procs : pc[q] = "saving"}} \subseteq Grants
      <4> HIDE DEF TypeOK
      <4> QED BY <2>1
    <3> QED BY <1>7, <3>1 DEF Restart
  <2>3. pc' \in [Procs -> Places] /\ pair' \in [Procs -> Pair] /\ leader' \in [Procs -> Procs]
    BY <1>7 DEF Restart, Return
  <2>4. restarts' \in 0..MaxRestarts /\ inflight' = NoOne
    BY <1>7 DEF Restart
  <2> QED BY <1>7, <2>2, <2>3, <2>4 DEF Restart, platform
<1>8. ASSUME UNCHANGED vars PROVE TypeOK'
  BY <1>8 DEF vars, process, locals, platform
<1> QED BY <1>1, <1>2, <1>3, <1>4, <1>5, <1>6, <1>7, <1>8 DEF Next
-----------------------------------------------------------------------------
\* One goroutine leads: it enters only an empty map and leaves it when it stops.
LEMMA FlightKept == ASSUME TypeOK, SingleFlight, [Next]_vars PROVE SingleFlight'
<1> USE TokenConstants DEF SingleFlight, Leading, Closing, Procs
<1>t. pc \in [Procs -> Places] /\ inflight \in Procs \cup {NoOne}
  BY DEF TypeOK
<1> USE <1>t
<1>1. ASSUME NEW c \in Callers, ReadStatus(c) \/ ReadTokens(c) PROVE SingleFlight'
  BY <1>1 DEF ReadStatus, ReadTokens, Move, Return
<1>2. ASSUME Validate PROVE SingleFlight'
  BY <1>2 DEF Validate, ListAccounts, ReadToValidate, Validate401, ValidateLater, Move, Return
<1>3. ASSUME NEW p \in Procs, Refresh(p) PROVE SingleFlight'
  <2>1. CASE Join(p) BY <2>1 DEF Join, Move
  <2>2. CASE Refused(p) BY <2>2 DEF Refused, Move
  <2>3. CASE Rotated(p) BY <2>3 DEF Rotated
  <2>4. CASE RotatedUnheard(p) BY <2>4 DEF RotatedUnheard, Move
  <2>5. CASE Unreachable(p) BY <2>5 DEF Unreachable, Move
  <2>6. CASE Save(p) BY <2>6 DEF Save, Written, Unwritten, Move
  <2>7. CASE Mark(p) BY <2>7 DEF Mark, Move
  <2>8. CASE MarkFails(p) BY <2>8 DEF MarkFails, Move
  <2>9. CASE Forget(p) BY <2>9 DEF Forget, Move
  <2>10. CASE Close(p) BY <2>10 DEF Close, Return, WaitingFor
  <2> QED BY <1>3, <2>1, <2>2, <2>3, <2>4, <2>5, <2>6, <2>7, <2>8, <2>9, <2>10 DEF Refresh
<1>4. ASSUME NEW p \in Procs, GiveUp(p) PROVE SingleFlight'
  BY <1>4 DEF GiveUp, Return
<1>5. ASSUME Person PROVE SingleFlight'
  BY <1>5 DEF Person, Reconnect, Revoke, DeleteAccount, Age, process, locals
<1>6. ASSUME Restart PROVE SingleFlight'
  BY <1>6 DEF Restart, Return
<1>7. ASSUME UNCHANGED vars PROVE SingleFlight'
  BY <1>7 DEF vars, process, locals
<1> QED BY <1>1, <1>2, <1>3, <1>4, <1>5, <1>6, <1>7 DEF Next
-----------------------------------------------------------------------------
\* The order of the generations, the answer about to be written, and what they say
\* of the row and of the pairs about to be handed out.
Books == Ordered /\ AnswerIsNewest /\ StoredPairUsable /\ HandedWereStored

LEMMA BooksKept == ASSUME TokenInv, [Next]_vars PROVE Books'
<1> USE TokenConstants
<1>t. /\ account \in [status : {"ok", "reauth", "deleted"}, pair : Pair]
      /\ pc \in [Procs -> Places] /\ pair \in [Procs -> Pair]
      /\ newest \in [Grants -> 0..MaxGen]
      /\ given \subseteq Grants
      /\ SingleFlight
  BY DEF TokenInv, TypeOK
<1>b. Books
  BY DEF TokenInv, Books
<1>p. Callers \subseteq Procs /\ Validator \in Procs
  BY DEF Procs
<1> USE <1>t, <1>b, <1>p DEF Books, Ordered, AnswerIsNewest, StoredPairUsable, HandedWereStored,
        Pair, First, HasAccount, SingleFlight, Leading, Closing
<1>1. ASSUME NEW c \in Callers, ReadStatus(c) \/ ReadTokens(c) PROVE Books'
  <2>1. CASE ReadStatus(c) BY <2>1 DEF ReadStatus, Move, platform
  <2>2. CASE ReadTokens(c)
    <3>1. CASE HasAccount /\ near BY <2>2, <3>1 DEF ReadTokens, platform
    <3>2. CASE ~(HasAccount /\ near)
      <4>1. Return({c}) BY ONLY <2>2, <3>2 DEF ReadTokens
      <4>2. pc[c] = "reading" /\ UNCHANGED <<account, inflight, newest, given, lost>>
        BY <2>2 DEF ReadTokens, platform
      <4> QED BY <4>1, <4>2 DEF Return
    <3> QED BY <3>1, <3>2
  <2> QED BY <1>1, <2>1, <2>2
<1>2. ASSUME Validate PROVE Books'
  <2>1. CASE ListAccounts BY <2>1 DEF ListAccounts, Move, platform
  <2>2. CASE ReadToValidate
    <3>1. CASE HasAccount BY <2>2, <3>1 DEF ReadToValidate, platform
    <3>2. CASE ~HasAccount BY <2>2, <3>2 DEF ReadToValidate, Return, platform
    <3> QED BY <3>1, <3>2
  <2>3. CASE Validate401 BY <2>3 DEF Validate401, Move, platform
  <2>4. CASE ValidateLater BY <2>4 DEF ValidateLater, Return, platform
  <2> QED BY <1>2, <2>1, <2>2, <2>3, <2>4 DEF Validate
<1>3. ASSUME NEW p \in Procs, Refresh(p) PROVE Books'
  <2>1. CASE Join(p) BY <2>1 DEF Join, Move, platform
  <2>2. CASE Refused(p) BY <2>2 DEF Refused, Move, platform
  <2>3. CASE Rotated(p) BY <2>3 DEF Rotated, CanRotate
  <2>4. CASE RotatedUnheard(p) BY <2>4 DEF RotatedUnheard, CanRotate, Move
  <2>5. CASE Unreachable(p) BY <2>5 DEF Unreachable, Move, platform
  <2>6. CASE Save(p)
    <3>1. CASE Written(p) BY <2>6, <3>1 DEF Save, Written, Move, platform
    <3>2. CASE Unwritten(p, "failed") BY <2>6, <3>2 DEF Save, Unwritten, Move, platform
    <3> QED BY <2>6, <3>1, <3>2 DEF Save
  <2>7. CASE Mark(p) BY <2>7 DEF Mark, Move, platform
  <2>8. CASE MarkFails(p) BY <2>8 DEF MarkFails, Move, platform
  <2>9. CASE Forget(p) BY <2>9 DEF Forget, Move, platform
  <2>10. CASE Close(p) BY <2>10 DEF Close, Return, WaitingFor, platform
  <2> QED BY <1>3, <2>1, <2>2, <2>3, <2>4, <2>5, <2>6, <2>7, <2>8, <2>9, <2>10 DEF Refresh
<1>4. ASSUME NEW p \in Procs, GiveUp(p) PROVE Books'
  BY <1>4 DEF GiveUp, Return, platform
<1>5. ASSUME Person PROVE Books'
  <2>1. ASSUME NEW g \in Grants, Reconnect(g) PROVE Books'
    BY <2>1 DEF Reconnect, process, locals
  <2>2. ASSUME NEW g \in Grants, Revoke(g) PROVE Books'
    BY <2>2 DEF Revoke, process, locals
  <2>3. CASE DeleteAccount BY <2>3 DEF DeleteAccount, process, locals, platform
  <2>4. CASE Age BY <2>4 DEF Age, process, locals, platform
  <2> QED BY <1>5, <2>1, <2>2, <2>3, <2>4 DEF Person
<1>6. ASSUME Restart PROVE Books'
  BY <1>6 DEF Restart, Return, platform
<1>7. ASSUME UNCHANGED vars PROVE Books'
  BY <1>7 DEF vars, process, locals, platform
<1> QED BY <1>1, <1>2, <1>3, <1>4, <1>5, <1>6, <1>7 DEF Next

-----------------------------------------------------------------------------
\* The inductive invariant of the tokens.
THEOREM TokensHold == Spec => []TokenInv
<1>1. TokenInv /\ [Next]_vars => TokenInv'
  <2> SUFFICES ASSUME TokenInv, [Next]_vars PROVE TokenInv'
    OBVIOUS
  <2>1. TypeOK' BY TypesKept DEF TokenInv
  <2>2. SingleFlight' BY FlightKept DEF TokenInv
  <2>3. Books' BY BooksKept
  <2> QED BY <2>1, <2>2, <2>3 DEF TokenInv, Books
<1> QED BY InitTokens, <1>1, PTL DEF Spec

\* However many goroutines want a token, one at a time asks the platform for it.
THEOREM OneFlight == Spec => []SingleFlight
  BY TokensHold, PTL DEF TokenInv

\* No rotation is wasted but by a lost answer or a failed write.
THEOREM RotationSurvives == Spec => []StoredPairUsable
  BY TokensHold, PTL DEF TokenInv

\* What is handed out has been stored.
THEOREM StoredFirst == Spec => []HandedWereStored
  BY TokensHold, PTL DEF TokenInv
=============================================================================
