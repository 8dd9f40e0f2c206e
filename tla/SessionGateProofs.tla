-------------------------- MODULE SessionGateProofs --------------------------
(***************************************************************************)
(* For any number of encoders and cameras: one publisher is on the air at  *)
(* a time, every open row has an owner, and the engine implements the      *)
(* promise of module Airtime.                                              *)
(*                                                                         *)
(* OneSource alone is not inductive.  The gate is kept by two variables    *)
(* written at different moments, so the invariant says which of them       *)
(* covers each place: arrancando the inside of startSession, sessionID     *)
(* everything from SetSession to ClearSession.                             *)
(***************************************************************************)
EXTENDS SessionGate, TLAPS

Recorded == {"connecting", "publishing", "ending", "finished"}
Unwritten == {"opened", "connecting", "publishing", "ending"}

\* What covers a publisher at each place.
Covered(p) ==
  /\ place[p] \in Starting => arrancando
  /\ place[p] \in {"opening", "opened"} => sessionID = 0
  /\ place[p] \in Recorded => sessionID = row[p]
  /\ place[p] \in Recorded \cup {"opened"} => row[p] # 0
  /\ place[p] \notin Recorded \cup {"opened"} => row[p] = 0
  /\ row[p] < nextRow

OpenRows == \A r \in open :
              \/ r \in lost
              \/ \E p \in Publishers : place[p] \in Unwritten /\ row[p] = r

Gate == /\ OneSource
        /\ \A p \in Publishers : Covered(p)
        /\ OpenRows

IInv == TypeOK /\ Gate

\* The names an action is made of, cited wherever one is expanded.
USE DEF Publishers, Places, OnAir, Starting, Recorded, Unwritten, At, Alive, Moves,
        engine, table, keys, Busy

-----------------------------------------------------------------------------
\* The types hold initially and every step keeps them; the rows of publishers stay
\* below nextRow, which is what bounds the row FinishSession gives up on.
LEMMA InitTypes == Init => TypeOK
<1> SUFFICES ASSUME Init PROVE TypeOK
  OBVIOUS
<1>1. nextRow \in Nat \ {0} /\ key \in Nat /\ cutKey \in Nat /\ sessionID \in Nat
  BY DEF Init
<1>2. row \in [Publishers -> Nat] /\ usedKey \in [Publishers -> Nat]
  BY DEF Init
<1> QED BY <1>1, <1>2 DEF Init, TypeOK

LEMMA StepTypes == IInv /\ [Next]_vars => TypeOK'
<1> SUFFICES ASSUME TypeOK, \A p \in Publishers : Covered(p), [Next]_vars
             PROVE  TypeOK'
  BY DEF IInv, Gate
<1> USE DEF TypeOK
<1>1. ASSUME NEW p \in Publishers, Publish(p) PROVE TypeOK'
  <2>1. CASE Arrive(p) BY <2>1 DEF Arrive
  <2>2. CASE Depart(p) BY <2>2 DEF Depart
  <2>3. CASE OnPublishStart(p) BY <2>3 DEF OnPublishStart
  <2>4. CASE Validate(p) BY <2>4 DEF Validate
  <2>5. CASE StartSession(p) BY <2>5 DEF StartSession
  <2>6. CASE OnPublishEnd(p) BY <2>6 DEF OnPublishEnd
  <2>7. CASE OpenRow(p) BY <2>7 DEF OpenRow
  <2>8. CASE OpenRowFails(p) BY <2>8 DEF OpenRowFails
  <2>9. CASE SetSession(p) BY <2>9 DEF SetSession
  <2>10. CASE Admitted(p) BY <2>10 DEF Admitted
  <2>11. CASE FinishSession(p)
    <3>1. row[p] \in 1 .. (nextRow - 1)
      <4>1. row[p] \in Nat /\ nextRow \in Nat
        OBVIOUS
      <4>2. row[p] # 0 /\ row[p] < nextRow
        BY <2>11 DEF FinishSession, Covered
      <4> QED BY <4>1, <4>2
    <3>2. open' \subseteq 1 .. (nextRow - 1) /\ lost' \subseteq 1 .. (nextRow - 1)
      BY <2>11, <3>1 DEF FinishSession
    <3> QED BY <2>11, <3>2 DEF FinishSession
  <2>12. CASE ClearSession(p) BY <2>12 DEF ClearSession
  <2> QED BY <1>1, <2>1, <2>2, <2>3, <2>4, <2>5, <2>6, <2>7, <2>8, <2>9, <2>10,
             <2>11, <2>12 DEF Publish, Proceeds
<1>2. CASE RotateKey BY <1>2 DEF RotateKey
<1>3. CASE DisconnectPublisher BY <1>3 DEF DisconnectPublisher, Tracked
<1>4. CASE Main
  BY <1>4 DEF Main, ShutdownStep, Signal, CloseIngest, DisconnectCameras, WaitIdle,
              WaitIdleTimesOut, Exit, Tracked
<1>5. CASE UNCHANGED vars BY <1>5 DEF vars
<1> QED BY <1>1, <1>2, <1>3, <1>4, <1>5 DEF Next

-----------------------------------------------------------------------------
\* Each publisher stays covered, no two of them come on the air, and every open row
\* keeps an owner until it is written or given up.
LEMMA InitGate == Init => Gate
  BY DEF Init, Gate, OneSource, Covered, OpenRows

LEMMA StepGate == IInv /\ [Next]_vars => Gate'
<1> SUFFICES ASSUME TypeOK, Gate, [Next]_vars
             PROVE  Gate'
  BY DEF IInv
<1>t. /\ place \in [Publishers -> Places] /\ row \in [Publishers -> Nat]
      /\ sessionID \in Nat /\ nextRow \in Nat
      /\ \A r \in open : r \in Nat /\ r < nextRow
  BY DEF TypeOK
<1> USE <1>t DEF Gate, OneSource, Covered, OpenRows
<1>1. ASSUME NEW p \in Publishers, Publish(p) PROVE Gate'
  <2>1. CASE Arrive(p) BY <2>1 DEF Arrive
  <2>2. CASE Depart(p) BY <2>2 DEF Depart
  <2>3. CASE OnPublishStart(p) BY <2>3 DEF OnPublishStart
  <2>4. CASE Validate(p) BY <2>4 DEF Validate
  <2>5. CASE StartSession(p)
    <3>1. \A q \in Publishers : place[q] \notin OnAir
      BY <2>5 DEF StartSession
    <3> QED BY <2>5, <3>1 DEF StartSession
  <2>6. CASE OnPublishEnd(p) BY <2>6 DEF OnPublishEnd
  <2>7. CASE OpenRow(p) BY <2>7 DEF OpenRow
  <2>8. CASE OpenRowFails(p) BY <2>8 DEF OpenRowFails
  <2>9. CASE SetSession(p) BY <2>9 DEF SetSession
  <2>10. CASE Admitted(p) BY <2>10 DEF Admitted
  <2>11. CASE FinishSession(p) BY <2>11 DEF FinishSession
  <2>12. CASE ClearSession(p) BY <2>12 DEF ClearSession
  <2> QED BY <1>1, <2>1, <2>2, <2>3, <2>4, <2>5, <2>6, <2>7, <2>8, <2>9, <2>10,
             <2>11, <2>12 DEF Publish, Proceeds
<1>2. CASE RotateKey BY <1>2 DEF RotateKey
<1>3. CASE DisconnectPublisher BY <1>3 DEF DisconnectPublisher
<1>4. CASE Main
  BY <1>4 DEF Main, ShutdownStep, Signal, CloseIngest, DisconnectCameras, WaitIdle,
              WaitIdleTimesOut, Exit
<1>5. CASE UNCHANGED vars BY <1>5 DEF vars
<1> QED BY <1>1, <1>2, <1>3, <1>4, <1>5 DEF Next

THEOREM GateHolds == Spec => []IInv
<1>1. Init => IInv
  BY InitTypes, InitGate DEF IInv
<1>2. IInv /\ [Next]_vars => IInv'
  BY StepTypes, StepGate DEF IInv
<1> QED BY <1>1, <1>2, PTL DEF Spec

\* Two publishers are never on the air together.
THEOREM OneSourceHolds == Spec => []OneSource
  BY GateHolds, PTL DEF IInv, Gate

\* No open row is left without the publisher that has to close it.
THEOREM RowsOwned == Spec => []RowsHaveOwners
<1>1. IInv => RowsHaveOwners
  BY DEF IInv, Gate, OpenRows, RowsHaveOwners
<1> QED BY <1>1, GateHolds, PTL

\* SessionID answers the row in course from SetSession until after FinishSession.
THEOREM WritesCovered == Spec => []SessionCoversWrites
<1>1. IInv => SessionCoversWrites
  BY DEF IInv, Gate, Covered, SessionCoversWrites
<1> QED BY <1>1, GateHolds, PTL

-----------------------------------------------------------------------------
\* The rotation of the key: nothing is validated with a key older than the last cut
\* and stays connected.  The keys only grow, so a new validation is always recent.
KeysInOrder == OldKeyIsOut /\ cutKey <= key

LEMMA StepKeys == IInv /\ KeysInOrder /\ [Next]_vars => KeysInOrder'
<1> SUFFICES ASSUME TypeOK, KeysInOrder, [Next]_vars
             PROVE  KeysInOrder'
  BY DEF IInv
<1>t. /\ place \in [Publishers -> Places] /\ usedKey \in [Publishers -> Nat]
      /\ key \in Nat /\ cutKey \in Nat
  BY DEF TypeOK
<1> USE <1>t DEF KeysInOrder, OldKeyIsOut
<1>1. ASSUME NEW p \in Publishers, Publish(p) PROVE KeysInOrder'
  <2>1. CASE Arrive(p) BY <2>1, PublisherKinds DEF Arrive
  <2>2. CASE Depart(p) BY <2>2 DEF Depart
  <2>3. CASE OnPublishStart(p) BY <2>3 DEF OnPublishStart
  <2>4. CASE Validate(p) BY <2>4 DEF Validate
  <2>5. CASE StartSession(p) BY <2>5 DEF StartSession
  <2>6. CASE OnPublishEnd(p) BY <2>6 DEF OnPublishEnd
  <2>7. CASE Proceeds(p)
    BY <2>7 DEF Proceeds, OpenRow, OpenRowFails, SetSession, Admitted, FinishSession,
                ClearSession
  <2> QED BY <1>1, <2>1, <2>2, <2>3, <2>4, <2>5, <2>6, <2>7 DEF Publish
<1>2. CASE RotateKey BY <1>2 DEF RotateKey
<1>3. CASE DisconnectPublisher BY <1>3 DEF DisconnectPublisher, Tracked
<1>4. CASE Main
  BY <1>4 DEF Main, ShutdownStep, Signal, CloseIngest, DisconnectCameras, WaitIdle,
              WaitIdleTimesOut, Exit
<1>5. CASE UNCHANGED vars BY <1>5 DEF vars
<1> QED BY <1>1, <1>2, <1>3, <1>4, <1>5 DEF Next

\* A rotation with disconnect_now leaves no encoder of an older key connected.
THEOREM OldKeyHolds == Spec => []OldKeyIsOut
<1>1. Init => KeysInOrder
  BY DEF Init, KeysInOrder, OldKeyIsOut
<1>2. KeysInOrder => OldKeyIsOut
  BY DEF KeysInOrder
<1> QED BY <1>1, <1>2, StepKeys, GateHolds, PTL DEF Spec

-----------------------------------------------------------------------------
\* The engine implements Airtime: being on the air is holding it, and the row in
\* course is the one its holder carries.
Holders == {p \in Publishers : place[p] \in OnAir}
Current == {row[p] : p \in Holders} \ {0}

LEMMA Mapping == /\ Promise!Init <=> Holders = {} /\ Current = {} /\ open = {}
                 /\ Promise!vars = <<Holders, Current, open>>
  BY DEF Promise!Init, Promise!vars, Holders, Current

\* A publisher on the air is the only holder, and its row the only current one.
LEMMA HolderIs ==
  ASSUME TypeOK, Gate, NEW p \in Publishers, place[p] \in OnAir
  PROVE  Holders = {p} /\ Current = {row[p]} \ {0}
  BY DEF Gate, OneSource, Holders, Current

LEMMA NextHolderIs ==
  ASSUME TypeOK', Gate', NEW p \in Publishers, place'[p] \in OnAir
  PROVE  Holders' = {p} /\ Current' = {row'[p]} \ {0}
  BY DEF Gate, OneSource, Holders, Current

\* A step that moves no publisher on or off the air and no row is a stutter.
LEMMA StepRefines ==
  ASSUME IInv, IInv', [Next]_vars
  PROVE  [Promise!Next]_(Promise!vars)
<1>t. /\ place \in [Publishers -> Places] /\ row \in [Publishers -> Nat]
      /\ nextRow \in Nat /\ \A r \in open : r \in Nat /\ r < nextRow
  BY DEF IInv, TypeOK
<1>s. ASSUME UNCHANGED <<Holders, Current, open>> PROVE [Promise!Next]_(Promise!vars)
  BY <1>s, Mapping DEF Promise!vars, Holders, Current
<1>1. ASSUME NEW p \in Publishers, Publish(p) PROVE [Promise!Next]_(Promise!vars)
  <2>1. CASE Arrive(p) \/ Depart(p) \/ OnPublishStart(p) \/ Validate(p)
    <3>1. UNCHANGED <<Holders, Current, open>>
      BY <2>1, <1>t DEF Arrive, Depart, OnPublishStart, Validate, Holders, Current
    <3> QED BY <3>1, <1>s
  <2>5. CASE StartSession(p)
    <3>1. Holders = {} /\ Current = {}
      BY <2>5 DEF StartSession, IInv, Gate, Covered, Holders, Current
    <3>2. Holders' = {p} /\ Current' = {}
      BY <2>5, <1>t, NextHolderIs DEF StartSession, IInv, Gate, Covered
    <3>3. Promise!Take(p)
      BY <2>5, <3>1, <3>2 DEF StartSession, Promise!Take, Holders, Current
    <3> QED BY <3>3 DEF Promise!Next
  <2>7. CASE OpenRow(p)
    <3>1. Holders = {p} /\ Current = {}
      BY <2>7, HolderIs DEF OpenRow, IInv, Gate, Covered
    <3>2. Holders' = {p} /\ Current' = {nextRow}
      BY <2>7, <1>t, NextHolderIs DEF OpenRow, IInv, TypeOK
    <3>3. nextRow \in 1 .. MaxRows /\ nextRow \notin open
      BY <2>7, <1>t, GateBounds DEF OpenRow, IInv, TypeOK
    <3>4. PICK r \in 1 .. MaxRows : r = nextRow
      BY <3>3
    <3>5. Promise!Begin(r)
      BY <2>7, <3>1, <3>2, <3>3, <3>4 DEF OpenRow, Promise!Begin, Holders, Current
    <3> QED BY <3>5 DEF Promise!Next
  <2>8. CASE OpenRowFails(p) \/ ClearSession(p)
    <3>1. Holders = {p}
      BY <2>8, HolderIs DEF OpenRowFails, ClearSession, IInv
    <3>2. Holders' = {} /\ Current' = {}
      BY <2>8, <3>1, <1>t DEF OpenRowFails, ClearSession, Holders, Current
    <3>3. Promise!Release
      BY <2>8, <3>1, <3>2
         DEF OpenRowFails, ClearSession, Promise!Release, Holders, Current
    <3> QED BY <3>3 DEF Promise!Next
  <2>9. CASE SetSession(p) \/ Admitted(p) \/ OnPublishEnd(p)
    <3>1. place[p] \in OnAir /\ place'[p] \in OnAir /\ row'[p] = row[p] /\ open' = open
      BY <2>9, <1>t DEF SetSession, Admitted, OnPublishEnd, IInv, Gate, Covered
    <3>2. UNCHANGED <<Holders, Current, open>>
      BY <3>1, HolderIs, NextHolderIs DEF IInv
    <3> QED BY <3>2, <1>s
  <2>11. CASE FinishSession(p)
    <3>1. /\ Holders = {p} /\ Current = {row[p]} /\ Holders' = {p} /\ Current' = {row[p]}
      BY <2>11, <1>t, HolderIs, NextHolderIs DEF FinishSession, IInv, Gate, Covered
    <3>2. CASE open' = open \ {row[p]}
      <4>1. Promise!End
        BY <3>1, <3>2 DEF Promise!End, Holders, Current
      <4> QED BY <4>1 DEF Promise!Next
    <3>3. CASE UNCHANGED open
      BY <3>1, <3>3, <1>s
    <3> QED BY <2>11, <3>2, <3>3 DEF FinishSession
  <2> QED BY <1>1, <2>1, <2>5, <2>7, <2>8, <2>9, <2>11 DEF Publish, Proceeds
<1>2. CASE RotateKey \/ DisconnectPublisher \/ Main \/ UNCHANGED vars
  <2>1. UNCHANGED <<Holders, Current, open>>
    BY <1>2 DEF RotateKey, DisconnectPublisher, Main, ShutdownStep, Signal, CloseIngest,
                DisconnectCameras, WaitIdle, WaitIdleTimesOut, Exit, vars, Holders, Current
  <2> QED BY <2>1, <1>s
<1> QED BY <1>1, <1>2 DEF Next

\* Every behaviour of the engine is one of the sequential promise.
THEOREM ImplementsAirtime == Spec => OneSessionAtATime
<1>1. Init => Promise!Init
  BY Mapping DEF Init, Holders, Current
<1>2. IInv /\ IInv' /\ [Next]_vars => [Promise!Next]_(Promise!vars)
  BY StepRefines
<1> QED BY <1>1, <1>2, GateHolds, PTL DEF Spec, OneSessionAtATime, Promise!Spec
=============================================================================
