---------------------------- MODULE ChannelProofs ----------------------------
(***************************************************************************)
(* What goes through a channel, for every value of the constants: the      *)
(* frames of a destination (Chain, of GopChannel), those of the preview    *)
(* (PlayInv, of PreviewTap), and the messages of the chats.  For these,    *)
(* each part has the inductive invariant of one module: TwInv of           *)
(* TwitchChat, YtInv of YouTubeChat, KickInv of KickWebhook, and CsInv of  *)
(* ChatSession; a lemma per conjunct or step that takes work; and the      *)
(* property the runs check, which follows.  Sockets, waits and units of    *)
(* quota are chosen as the least of a set (SetFacts).                      *)
(***************************************************************************)
EXTENDS GopChannel, PreviewTap, TwitchChat, YouTubeChat, KickWebhook, ChatSession,
        SequenceTheorems, SetFacts

\* Two sockets open at most: there is one more to dial with.
LEMMA SocketLeft ==
  ASSUME NEW s \in Sockets \cup {NoSocket}, NEW ss, ss = {s} \ {NoSocket}
  PROVE  Min(Sockets \ ss) \in Sockets \ ss
<1>1. IsFiniteSet(Sockets) /\ Sockets \in SUBSET Nat /\ Cardinality(Sockets) >= 3
  BY TwitchConstants
<1>2. IsFiniteSet({s}) /\ Cardinality({s}) = 1
  BY FS_Singleton
<1>3. Sockets \ ss # {}
  <2> SUFFICES ASSUME Sockets \ ss = {} PROVE FALSE
    OBVIOUS
  <2>1. Sockets \in SUBSET {s}
    OBVIOUS
  <2>2. Cardinality(Sockets) =< 1
    BY <1>2, <2>1, FS_Subset
  <2>3. Cardinality(Sockets) \in Nat
    BY <1>1, FS_CardinalityType
  <2> QED BY <1>1, <2>2, <2>3
<1>4. Sockets \ ss \in SUBSET Sockets
  OBVIOUS
<1>5. IsFiniteSet(Sockets \ ss)
  BY <1>1, <1>4, FS_Subset
<1>6. Sockets \ ss \in SUBSET Int
  <2>1. Sockets \in SUBSET Int
    BY <1>1
  <2> QED BY <1>4, <2>1
<1> DEFINE left == Sockets \ ss
<1> HIDE DEF left
<1>7. left \in SUBSET Int /\ IsFiniteSet(left) /\ left # {}
  BY <1>3, <1>5, <1>6 DEF left
<1>8. Min(left) \in left
  BY <1>7, LeastOfSome
<1> QED BY <1>8 DEF left

Held == {"reading", "subscribing", "following", "greeting"}

\* The sockets held are the open ones, each where ReadChat can hold it.
Holding ==
  /\ open = {conn, nueva} \ {NoSocket}
  /\ conn # NoSocket <=> twPlace \in Held
  /\ nueva # NoSocket <=> twPlace = "greeting"
  /\ nueva # NoSocket => nueva # conn

\* A socket that is closed carries nothing; the one that is read carries the chat once,
\* unless it is still to be subscribed.
Hearing ==
  /\ \A s \in Sockets \ open : carries[s] = 0
  /\ conn # NoSocket => carries[conn] = IF subscribe THEN 0 ELSE 1
  /\ established => conn # NoSocket /\ ~subscribe
  /\ twPlace = "subscribing" => subscribe
  /\ twPlace \in {"following", "greeting"} => ~subscribe

\* The wait that a cut would start covers that cut too.
Backing ==
  /\ twPlace = "sleeping" => espera >= cuts
  /\ twPlace \notin {"sleeping", "returned"} /\ ~established => espera >= OneMore(cuts)

TwInv == TwTypeOK /\ Holding /\ Hearing /\ Backing

\* The wait doubles up to its bound, and so covers one cut more than the one before.
LEMMA Waits ==
  ASSUME TwTypeOK
  PROVE  /\ OneMore(cuts) \in 0..WaitMax /\ OneMore(0) =< 1
         /\ Doubled(espera) \in 1..WaitMax
         /\ espera >= cuts => Doubled(espera) >= OneMore(cuts)
<1>1. espera \in 1..WaitMax /\ cuts \in 0..WaitMax /\ WaitMax \in Nat \ {0}
  BY TwitchConstants DEF TwTypeOK
<1>2. OneMore(cuts) = IF cuts + 1 =< WaitMax THEN cuts + 1 ELSE WaitMax
  BY <1>1, LeastOfTwo DEF OneMore
<1>3. OneMore(0) = IF 1 =< WaitMax THEN 1 ELSE WaitMax
  BY <1>1, LeastOfTwo DEF OneMore
<1>4. Doubled(espera) = IF 2 * espera =< WaitMax THEN 2 * espera ELSE WaitMax
  BY <1>1, LeastOfTwo DEF Doubled
<1> QED BY <1>1, <1>2, <1>3, <1>4

\* ReadChat begins with nothing open.
LEMMA TwInitInv == TwInit => TwInv
<1> SUFFICES ASSUME TwInit PROVE TwInv
  OBVIOUS
<1>1. TwTypeOK
  <2>1. espera \in 1..WaitMax /\ cuts \in 0..WaitMax /\ carries \in [Sockets -> Nat]
    BY TwitchConstants DEF TwInit
  <2> QED BY <2>1 DEF TwInit, TwTypeOK, TwPlaces
<1>2. OneMore(0) =< 1
  BY <1>1, Waits
<1> QED
  BY <1>1, <1>2 DEF TwInit, TwInv, Holding, Hearing, Backing, Held, NoSocket

\* The socket that is dialled next is one that is closed.
LEMMA NextSocket ==
  ASSUME TwTypeOK, Holding, twPlace \in {"dialing", "following"}
  PROVE  FreeSocket \in Sockets \ open /\ FreeSocket # NoSocket
<1>1. open = {conn} \ {NoSocket}
  BY DEF Holding, Held
<1>2. conn \in Sockets \cup {NoSocket}
  BY DEF TwTypeOK
<1>3. Min(Sockets \ open) \in Sockets \ open
  BY <1>1, <1>2, SocketLeft
<1> QED BY <1>3, TwitchConstants DEF FreeSocket, NoSocket

\* However a session without a successor ends, the reader is left as it should be.
LEMMA SessionOverKeeps ==
  ASSUME TwInv, NEW r \in BOOLEAN, SessionOverWith(r), twPlace \in Held,
         sessionOver' \in BOOLEAN
  PROVE  TwInv'
<1> USE TwitchConstants DEF NoSocket
<1>1. /\ open' = {} /\ conn' = NoSocket /\ nueva' = NoSocket
      /\ subscribe' = FALSE /\ established' = FALSE
      /\ carries' = [s \in Sockets |-> IF s \in {conn, nueva} THEN 0 ELSE carries[s]]
  BY DEF SessionOverWith, Shut, TwInv, Holding
<1>2. carries' \in [Sockets -> Nat] /\ \A s \in Sockets : carries'[s] = 0
  BY <1>1 DEF TwInv, TwTypeOK, Holding, Hearing
<1>3. /\ espera \in 1..WaitMax /\ cuts \in 0..WaitMax
      /\ OneMore(cuts) \in 0..WaitMax /\ (~established => espera >= OneMore(cuts))
  BY Waits DEF TwInv, TwTypeOK, Backing, Held
<1>4. CASE ContextOver \/ r
  <2>1. twPlace' = "returned" /\ espera' = espera /\ cuts' = cuts
    BY <1>4 DEF SessionOverWith, ChatReturns
  <2>2. revoked' \in BOOLEAN
    BY <1>4 DEF SessionOverWith
  <2> QED
    BY <1>1, <1>2, <1>3, <2>1, <2>2
    DEF TwInv, TwTypeOK, TwPlaces, Holding, Hearing, Backing, Held
<1>5. CASE ~(ContextOver \/ r)
  <2>1. twPlace' = "sleeping" /\ revoked' = revoked
    BY <1>5 DEF SessionOverWith
  <2>2. espera' \in 1..WaitMax /\ cuts' \in 0..WaitMax /\ espera' >= cuts'
    <3>1. CASE established
      BY <1>3, <1>5, <3>1 DEF SessionOverWith
    <3>2. CASE ~established
      BY <1>3, <1>5, <3>2 DEF SessionOverWith
    <3> QED BY <3>1, <3>2
  <2> QED
    BY <1>1, <1>2, <2>1, <2>2
    DEF TwInv, TwTypeOK, TwPlaces, Holding, Hearing, Backing, Held
<1> QED BY <1>4, <1>5

\* The greeting of the socket of a reconnection: it inherits the subscription, and the
\* other is closed.
LEMMA HandoverKeeps == ASSUME TwInv, Greeted PROVE TwInv'
<1> USE TwitchConstants DEF NoSocket
<1>1. /\ twPlace = "greeting" /\ conn \in Sockets /\ nueva \in Sockets /\ conn # nueva
      /\ open = {conn, nueva} /\ carries[conn] = 1 /\ carries \in [Sockets -> Nat]
      /\ \A s \in Sockets \ open : carries[s] = 0
      /\ conn # NoSocket /\ nueva # NoSocket
  BY DEF Greeted, Handover, TwInv, TwTypeOK, Holding, Hearing, Held
<1>2. revoked' = revoked /\ sessionOver' = sessionOver /\ nueva' = NoSocket
  BY DEF Greeted, Handover
<1>3. CASE ContextOver
  <2>1. /\ open' = {} /\ conn' = NoSocket /\ ~subscribe' /\ ~established'
        /\ subscribe' \in BOOLEAN /\ established' \in BOOLEAN
        /\ twPlace' = "returned" /\ espera' = espera /\ cuts' = cuts
    BY <1>1, <1>3 DEF Greeted, Handover, ChatReturns
  <2>2. carries' = [s \in Sockets |-> IF s \in {conn, nueva} THEN 0 ELSE carries[s]]
    BY <1>3 DEF Greeted, Handover
  <2>3. \A s \in Sockets : carries'[s] = 0
    BY <1>1, <2>2
  <2>4. carries' \in [Sockets -> Nat]
    BY <1>1, <2>2
  <2> QED
    BY <1>2, <2>1, <2>3, <2>4
    DEF TwInv, TwTypeOK, TwPlaces, Holding, Hearing, Backing, Held
<1>4. CASE ~ContextOver
  <2>1. /\ open' = {nueva} /\ conn' = nueva /\ ~subscribe' /\ established'
        /\ subscribe' \in BOOLEAN /\ established' \in BOOLEAN
        /\ twPlace' = "reading"
    BY <1>1, <1>4 DEF Greeted, Handover
  <2>2. carries' = [s \in Sockets |-> CASE s = nueva /\ s \notin {conn} -> carries[conn]
                                        [] s \in {conn} -> 0 [] OTHER -> carries[s]]
    BY <1>4 DEF Greeted, Handover
  <2>3. carries'[nueva] = 1 /\ \A s \in Sockets \ {nueva} : carries'[s] = 0
    BY <1>1, <2>2
  <2>4. carries' \in [Sockets -> Nat]
    BY <1>1, <2>2
  <2>5. espera' \in 1..WaitMax /\ cuts' \in 0..WaitMax
    BY <1>4 DEF Greeted, Handover, TwInv, TwTypeOK
  <2> QED
    BY <1>1, <1>2, <2>1, <2>3, <2>4, <2>5
    DEF TwInv, TwTypeOK, TwPlaces, Holding, Hearing, Backing, Held
<1> QED BY <1>3, <1>4

\* No step of ReadChat, nor the end of the session, breaks the invariant.
LEMMA TwStepKeeps == ASSUME TwInv, [TwNext]_twVars PROVE TwInv'
<1> USE TwitchConstants DEF NoSocket, TwInv, Holding, Hearing, Backing, Held
<1>0. /\ twPlace \in TwPlaces /\ sessionOver \in BOOLEAN /\ espera \in 1..WaitMax
      /\ revoked \in BOOLEAN /\ conn \in Sockets \cup {NoSocket}
      /\ nueva \in Sockets \cup {NoSocket} /\ subscribe \in BOOLEAN /\ established \in BOOLEAN
      /\ open \subseteq Sockets /\ carries \in [Sockets -> Nat] /\ cuts \in 0..WaitMax
  BY DEF TwTypeOK
<1>w. /\ OneMore(cuts) \in 0..WaitMax /\ Doubled(espera) \in 1..WaitMax
      /\ espera >= cuts => Doubled(espera) >= OneMore(cuts)
  BY Waits
<1>1. CASE TwSessionEnds
  BY <1>0, <1>1 DEF TwSessionEnds, reader, wire, TwTypeOK
<1>2. CASE FirstToken
  BY <1>0, <1>2 DEF FirstToken, wire, TwTypeOK, TwPlaces
<1>3. CASE Dials
  <2>1. FreeSocket \in Sockets \ open /\ FreeSocket # NoSocket
    BY <1>3, NextSocket DEF Dials
  <2>2. open = {} /\ nueva = NoSocket
    BY <1>0, <1>3 DEF Dials
  <2> QED BY <1>0, <1>3, <2>1, <2>2 DEF Dials, TwTypeOK, TwPlaces
<1>4. CASE NoDial
  BY <1>0, <1>w, <1>4 DEF NoDial, ChatReturns, wire, TwTypeOK, TwPlaces
<1>5. CASE Wake
  BY <1>0, <1>w, <1>5 DEF Wake, ChatReturns, wire, TwTypeOK, TwPlaces
<1>6. CASE ReadFails
  BY <1>0, <1>6, SessionOverKeeps DEF ReadFails
<1>7. CASE Revocation
  BY <1>0, <1>7, SessionOverKeeps DEF Revocation
<1>8. CASE Welcome
  BY <1>0, <1>8 DEF Welcome, wire, TwTypeOK, TwPlaces
<1>9. CASE Subscribed
  <2>1. /\ twPlace = "subscribing" /\ subscribe /\ conn \in Sockets /\ conn # NoSocket
        /\ conn \in open /\ carries[conn] = 0
    BY <1>0, <1>9 DEF Subscribed
  <2>2. carries' = [carries EXCEPT ![conn] = 1]
    BY <1>9, <2>1 DEF Subscribed
  <2>3. /\ ~subscribe' /\ established' /\ twPlace' = "reading"
        /\ subscribe' \in BOOLEAN /\ established' \in BOOLEAN
        /\ UNCHANGED <<espera, revoked, conn, nueva, sessionOver, open, cuts>>
    BY <1>9 DEF Subscribed
  <2>4. carries' \in [Sockets -> Nat] /\ carries'[conn] = 1
        /\ \A s \in Sockets \ open : carries'[s] = 0
    BY <1>0, <2>1, <2>2
  <2> QED BY <1>0, <2>1, <2>3, <2>4 DEF TwTypeOK, TwPlaces
<1>10. CASE NotSubscribed
  BY <1>0, <1>10, SessionOverKeeps DEF NotSubscribed
<1>11. CASE Reconnect
  BY <1>0, <1>11 DEF Reconnect, wire, TwTypeOK, TwPlaces
<1>12. CASE FollowOk
  <2>1. FreeSocket \in Sockets \ open /\ FreeSocket # NoSocket
    BY <1>12, NextSocket DEF FollowOk
  <2> QED BY <1>0, <1>12, <2>1 DEF FollowOk, TwTypeOK, TwPlaces
<1>13. CASE FollowFails
  BY <1>0, <1>13, SessionOverKeeps DEF FollowFails
<1>14. CASE Greeted
  BY <1>14, HandoverKeeps
<1>15. CASE UNCHANGED twVars
  BY <1>0, <1>15 DEF twVars, reader, wire, TwTypeOK
<1> QED
  BY <1>1, <1>2, <1>3, <1>4, <1>5, <1>6, <1>7, <1>8, <1>9, <1>10, <1>11, <1>12, <1>13, <1>14,
     <1>15
  DEF TwNext, TwStep

\* ReadChat of Twitch (twitch/chat.go) keeps its inductive invariant.
THEOREM TwitchHolds == TwSpec => []TwInv
BY TwInitInv, TwStepKeeps, PTL DEF TwSpec

\* What the run checks follows from the invariant.
LEMMA TwitchImplied == TwInv => TwitchReader
BY DEF TwInv, TwitchReader, Holding, Hearing, Backing, Held

\* At any number of sockets and with any longest wait, ReadChat of Twitch holds a second
\* socket only while its greeting is awaited, leaves none open, hears the chat exactly
\* once when it takes itself for established, and backs off from a connection that is
\* cut again and again (seguirReconexion, sesionChat, dormir).
THEOREM TwitchReads == TwSpec => []TwitchReader
BY TwitchHolds, TwitchImplied, PTL

-----------------------------------------------------------------------------

\* The messages up to a token are those up to an earlier one and those of the page.
LEMMA PageAppends ==
  ASSUME NEW a \in Nat, NEW b \in Nat, a =< b
  PROVE  [i \in 1..a |-> i] \o [i \in 1..(b - a) |-> a + i] = [i \in 1..b |-> i]
<1> DEFINE s == [i \in 1..a |-> i]
           t == [i \in 1..(b - a) |-> a + i]
           u == [i \in 1..b |-> i]
<1>1. s \in Seq(Nat) /\ t \in Seq(Nat) /\ u \in Seq(Nat)
  OBVIOUS
<1>2. Len(s) = a /\ Len(t) = b - a /\ Len(u) = b
  OBVIOUS
<1>3. s \o t \in Seq(Nat) /\ Len(s \o t) = b
  BY <1>1, <1>2, ConcatProperties
<1>4. ASSUME NEW i \in 1..b PROVE (s \o t)[i] = u[i]
  <2>1. (s \o t)[i] = IF i =< a THEN s[i] ELSE t[i - a]
    <3> HIDE DEF s, t
    <3> QED BY <1>1, <1>2, ConcatProperties
  <2> QED BY <2>1
<1> HIDE DEF s, t, u
<1>5. s \o t = u
  BY <1>1, <1>2, <1>3, <1>4, SeqEqual
<1> QED BY <1>5 DEF s, t, u

\* The chat that is read is of a broadcast there has been; of the last one, no more
\* is read than was written.
Reading ==
  /\ onAir \in {0, lastOne} /\ chat =< lastOne
  /\ chat = lastOne => pageToken =< posts
  /\ ytPlace \in {"polling", "asking"} => chat # 0
  /\ chat = 0 => pageToken = 0
  /\ sent = [i \in 1..pageToken |-> i]

\* The pages are part of what is spent, and the one about to be asked for fits.
Spending ==
  /\ pages =< used
  /\ ~blind => pages =< Budget
  /\ ~blind /\ ytPlace = "asking" => pages + PageCost =< Budget

YtInv == YtTypeOK /\ Reading /\ Spending

\* What is spent grows by the units, up to the bound.
LEMMA Spent ==
  ASSUME NEW a \in 0..QuotaMax, NEW units \in Nat
  PROVE  /\ Min({a + units, QuotaMax}) \in 0..QuotaMax
         /\ Min({a + units, QuotaMax}) >= a
         /\ a + units =< QuotaMax => Min({a + units, QuotaMax}) = a + units
<1>1. QuotaMax \in Nat
  BY YouTubeConstants
<1>2. Min({a + units, QuotaMax}) = IF a + units =< QuotaMax THEN a + units ELSE QuotaMax
  BY <1>1, LeastOfTwo
<1> QED BY <1>1, <1>2

\* ReadChat begins without a broadcast, and the day with nothing spent.
LEMMA YtInitInv == YtInit => YtInv
<1> SUFFICES ASSUME YtInit PROVE YtInv
  OBVIOUS
<1>1. 0 \in 0..QuotaMax /\ 0 \in 0..MaxBroadcasts /\ 0 \in 0..MaxPosts /\ 0 \in 0..GiveUp
  BY YouTubeConstants
<1>2. YtTypeOK
  <2>1. ytPlace = "searching" /\ ytOver \in BOOLEAN /\ blind \in BOOLEAN
    BY DEF YtInit
  <2>2. /\ {chat, onAir, lastOne} \subseteq 0..MaxBroadcasts
        /\ pageToken \in 0..MaxPosts /\ posts \in 0..MaxPosts /\ waited \in 0..GiveUp
        /\ used \in 0..QuotaMax /\ pages \in 0..QuotaMax
    BY <1>1 DEF YtInit
  <2>3. sent \in Seq(1..MaxPosts)
    BY DEF YtInit
  <2> QED BY <2>1, <2>2, <2>3 DEF YtTypeOK
<1>3. Reading
  <2>1. <<>> = [i \in 1..0 |-> i]
    OBVIOUS
  <2> QED BY <2>1 DEF YtInit, Reading
<1>4. Spending
  BY YouTubeConstants DEF YtInit, Spending
<1> QED BY <1>2, <1>3, <1>4 DEF YtInv


\* The actions leave the types as they are.
LEMMA YtTypesKept == ASSUME YtInv, [YtNext]_ytVars PROVE YtTypeOK'
<1>c. /\ ListCost \in Nat /\ PageCost \in Nat /\ PanelCost \in Nat /\ QuotaMax \in Nat
      /\ MaxBroadcasts \in Nat /\ MaxPosts \in Nat /\ GiveUp \in Nat
  BY YouTubeConstants
<1>0. /\ ytPlace \in {"searching", "pausing", "polling", "asking", "returned"}
      /\ ytOver \in BOOLEAN /\ blind \in BOOLEAN
      /\ chat \in 0..MaxBroadcasts /\ onAir \in 0..MaxBroadcasts /\ lastOne \in 0..MaxBroadcasts
      /\ pageToken \in 0..MaxPosts /\ posts \in 0..MaxPosts /\ waited \in 0..GiveUp
      /\ used \in 0..QuotaMax /\ pages \in 0..QuotaMax
      /\ sent \in Seq(1..MaxPosts)
  BY DEF YtInv, YtTypeOK
<1>w. Min({waited + 1, GiveUp}) \in 0..GiveUp
  <2>1. Min({waited + 1, GiveUp}) = IF waited + 1 =< GiveUp THEN waited + 1 ELSE GiveUp
    BY <1>0, <1>c, LeastOfTwo
  <2> QED BY <1>0, <1>c, <2>1
<1>z. 0 \in 0..MaxBroadcasts /\ 0 \in 0..MaxPosts /\ 0 \in 0..GiveUp /\ 0 \in 0..QuotaMax
  BY <1>c
<1>a. ASSUME NEW units \in {ListCost, PageCost, PanelCost}, Spend(units)
      PROVE  used' \in 0..QuotaMax
  BY <1>0, <1>c, <1>a, Spent DEF Spend
<1>b. ASSUME ChargePage PROVE used' \in 0..QuotaMax /\ pages' \in 0..QuotaMax
  BY <1>0, <1>a, <1>b, <1>c, Spent DEF ChargePage
<1>1. CASE GoesOnAir
  <2>1. lastOne + 1 \in 0..MaxBroadcasts
    BY <1>0, <1>1, <1>c DEF GoesOnAir
  <2> QED BY <1>0, <1>1, <1>z, <2>1 DEF GoesOnAir, ytReader, ytPast, YtTypeOK
<1>2. CASE GoesOffAir
  BY <1>0, <1>2, <1>z DEF GoesOffAir, ytReader, ytPast, YtTypeOK
<1>3. CASE SomeoneWrites
  <2>1. posts + 1 \in 0..MaxPosts
    BY <1>0, <1>3, <1>c DEF SomeoneWrites
  <2> QED BY <1>0, <1>3, <2>1 DEF SomeoneWrites, ytReader, ytPast, YtTypeOK
<1>4. CASE PanelSpends
  BY <1>0, <1>4, <1>a DEF PanelSpends, ytReader, youtube, ytPast, YtTypeOK
<1>5. CASE NewDay
  BY <1>0, <1>5, <1>z DEF NewDay, ytReader, youtube, YtTypeOK
<1>6. CASE YtSessionEnds
  BY <1>0, <1>6 DEF YtSessionEnds, ytReader, youtube, ytPast, YtTypeOK
<1>7. CASE Found
  BY <1>0, <1>7, <1>a, <1>z DEF Found, youtube, YtTypeOK
<1>8. CASE NotFound
  BY <1>0, <1>8, <1>a DEF NotFound, youtube, ytPast, YtTypeOK
<1>9. CASE SearchFails
  BY <1>0, <1>9, <1>a DEF SearchFails, youtube, ytPast, YtTypeOK
<1>10. CASE PauseEnds
  BY <1>0, <1>10, <1>w DEF PauseEnds, youtube, ytPast, YtTypeOK
<1>11. CASE Refused
  BY <1>0, <1>11, <1>a DEF Refused, youtube, ytPast, YtTypeOK
<1>12. CASE BudgetChecked
  BY <1>0, <1>12 DEF BudgetChecked, youtube, ytPast, YtTypeOK
<1>13. CASE BudgetUnread
  BY <1>0, <1>13 DEF BudgetUnread, youtube, YtTypeOK
<1>14. CASE PageOk
  <2>1. chat = lastOne /\ pageToken =< posts
    BY <1>14 DEF PageOk, YtInv, Reading
  <2>2. sent' \in Seq(1..MaxPosts)
    <3>1. [i \in 1..(posts - pageToken) |-> pageToken + i] \in Seq(1..MaxPosts)
      BY <1>0, <1>c, <2>1
    <3> QED BY <1>0, <1>14, <3>1, ConcatProperties DEF PageOk
  <2>3. UNCHANGED <<chat, waited, ytOver, onAir, lastOne, posts, blind>>
        /\ pageToken' = posts /\ ytPlace' = "pausing"
    BY <1>14 DEF PageOk, youtube
  <2>4. used' \in 0..QuotaMax /\ pages' \in 0..QuotaMax
    BY <1>14, <1>b DEF PageOk
  <2> QED BY <1>0, <2>2, <2>3, <2>4 DEF YtTypeOK
<1>15. CASE ChatEnds
  <2>1. used' \in 0..QuotaMax /\ pages' \in 0..QuotaMax
    BY <1>15, <1>b DEF ChatEnds
  <2> QED BY <1>0, <1>15, <1>z, <2>1 DEF ChatEnds, youtube, YtTypeOK
<1>16. CASE PageFails
  <2>1. used' \in 0..QuotaMax /\ pages' \in 0..QuotaMax
    BY <1>16, <1>b DEF PageFails
  <2> QED BY <1>0, <1>16, <2>1 DEF PageFails, youtube, YtTypeOK
<1>17. CASE YtCancelled
  BY <1>0, <1>17 DEF YtCancelled, youtube, ytPast, YtTypeOK
<1>18. CASE UNCHANGED ytVars
  BY <1>0, <1>18 DEF ytVars, ytReader, youtube, ytPast, YtTypeOK
<1> QED
  BY <1>1, <1>2, <1>3, <1>4, <1>5, <1>6, <1>7, <1>8, <1>9, <1>10, <1>11, <1>12, <1>13, <1>14,
     <1>15, <1>16, <1>17, <1>18
  DEF YtNext

\* No step gives a message twice, leaves one out or changes their order.
LEMMA ReadingKept == ASSUME YtInv, [YtNext]_ytVars PROVE Reading'
<1> USE DEF Reading
<1>0. /\ Reading
      /\ chat \in Nat /\ onAir \in Nat /\ lastOne \in Nat
      /\ pageToken \in Nat /\ posts \in Nat
  BY YouTubeConstants DEF YtInv, YtTypeOK
<1>z. <<>> = [i \in 1..0 |-> i]
  OBVIOUS
<1>1. CASE GoesOnAir
  BY <1>0, <1>1 DEF GoesOnAir, ytReader, ytPast
<1>2. CASE GoesOffAir
  BY <1>0, <1>2 DEF GoesOffAir, ytReader, ytPast
<1>3. CASE SomeoneWrites
  BY <1>0, <1>3 DEF SomeoneWrites, ytReader, ytPast
<1>4. CASE PanelSpends
  BY <1>0, <1>4 DEF PanelSpends, ytReader, youtube, ytPast
<1>5. CASE NewDay
  BY <1>0, <1>5 DEF NewDay, ytReader, youtube
<1>6. CASE YtSessionEnds
  BY <1>0, <1>6 DEF YtSessionEnds, ytReader, youtube, ytPast
<1>7. CASE Found
  BY <1>0, <1>7, <1>z DEF Found, youtube
<1>8. CASE NotFound
  BY <1>0, <1>8 DEF NotFound, youtube, ytPast
<1>9. CASE SearchFails
  BY <1>0, <1>9 DEF SearchFails, youtube, ytPast
<1>10. CASE PauseEnds
  BY <1>0, <1>10 DEF PauseEnds, youtube, ytPast
<1>11. CASE Refused
  BY <1>0, <1>11 DEF Refused, youtube, ytPast
<1>12. CASE BudgetChecked
  BY <1>0, <1>12 DEF BudgetChecked, youtube, ytPast
<1>13. CASE BudgetUnread
  BY <1>0, <1>13 DEF BudgetUnread, youtube
<1>14. CASE PageOk
  <2>1. /\ chat = lastOne /\ pageToken =< posts /\ chat # 0
        /\ sent' = sent \o [i \in 1..(posts - pageToken) |-> pageToken + i]
        /\ pageToken' = posts /\ ytPlace' = "pausing"
        /\ UNCHANGED <<chat, onAir, lastOne, posts>>
    BY <1>0, <1>14 DEF PageOk, youtube
  <2>2. sent' = [i \in 1..posts |-> i]
    BY <1>0, <2>1, PageAppends
  <2> QED BY <1>0, <2>1, <2>2
<1>15. CASE ChatEnds
  BY <1>0, <1>15, <1>z DEF ChatEnds, youtube
<1>16. CASE PageFails
  BY <1>0, <1>16 DEF PageFails, youtube
<1>17. CASE YtCancelled
  BY <1>0, <1>17 DEF YtCancelled, youtube, ytPast
<1>18. CASE UNCHANGED ytVars
  BY <1>0, <1>18 DEF ytVars, ytReader, youtube, ytPast
<1> QED
  BY <1>1, <1>2, <1>3, <1>4, <1>5, <1>6, <1>7, <1>8, <1>9, <1>10, <1>11, <1>12, <1>13, <1>14,
     <1>15, <1>16, <1>17, <1>18
  DEF YtNext

\* No step spends more on pages than the budget, if it was read before each.
LEMMA SpendingKept == ASSUME YtInv, [YtNext]_ytVars PROVE Spending'
<1> USE DEF Spending
<1>c. /\ ListCost \in Nat /\ PageCost \in Nat /\ PanelCost \in Nat /\ QuotaMax \in Nat
      /\ Budget \in Nat /\ QuotaMax > Budget + PageCost
  BY YouTubeConstants
<1>0. /\ Spending
      /\ used \in 0..QuotaMax /\ pages \in 0..QuotaMax
      /\ used' \in 0..QuotaMax /\ pages' \in 0..QuotaMax
  BY YtTypesKept DEF YtInv, YtTypeOK
<1>a. ASSUME NEW units \in {ListCost, PageCost, PanelCost}, Spend(units) PROVE used' >= used
  BY <1>0, <1>c, <1>a, Spent DEF Spend
<1>b. ASSUME ChargePage, ytPlace = "asking", blind' = blind, ytPlace' # "asking"
      PROVE  Spending'
  <2>1. /\ used' = IF used + PageCost =< QuotaMax THEN used + PageCost ELSE QuotaMax
        /\ pages' = IF pages + PageCost =< QuotaMax THEN pages + PageCost ELSE QuotaMax
    BY <1>0, <1>b, <1>c, LeastOfTwo DEF ChargePage, Spend
  <2>2. pages' =< used'
    BY <1>0, <1>c, <2>1
  <2>3. CASE blind
    BY <1>b, <2>2, <2>3
  <2>4. CASE ~blind
    <3>1. pages' =< Budget
      BY <1>0, <1>b, <1>c, <2>1, <2>4
    <3> QED BY <1>b, <2>2, <2>4, <3>1
  <2> QED BY <2>3, <2>4
<1>1. CASE GoesOnAir
  BY <1>0, <1>1 DEF GoesOnAir, ytReader, ytPast
<1>2. CASE GoesOffAir
  BY <1>0, <1>2 DEF GoesOffAir, ytReader, ytPast
<1>3. CASE SomeoneWrites
  BY <1>0, <1>3 DEF SomeoneWrites, ytReader, ytPast
<1>4. CASE PanelSpends
  <2>1. used' >= used
    BY <1>4, <1>a DEF PanelSpends
  <2> QED BY <1>0, <1>4, <2>1 DEF PanelSpends, ytReader, ytPast
<1>5. CASE NewDay
  <2>1. used' = 0 /\ pages' = 0 /\ ytPlace' = ytPlace /\ blind' = (blind /\ ytPlace = "asking")
    BY <1>5 DEF NewDay, ytReader
  <2>2. ~blind' /\ ytPlace' = "asking" => ~blind
    BY <2>1
  <2>3. ~blind /\ ytPlace = "asking" => PageCost =< Budget
    BY <1>0, <1>c
  <2> QED BY <1>c, <2>1, <2>2, <2>3
<1>6. CASE YtSessionEnds
  BY <1>0, <1>6 DEF YtSessionEnds, ytReader, ytPast
<1>7. CASE Found
  <2>1. used' >= used /\ ytPlace' = "polling" /\ UNCHANGED <<pages, blind>>
    BY <1>7, <1>a DEF Found
  <2> QED BY <1>0, <2>1
<1>8. CASE NotFound
  <2>1. used' >= used /\ ytPlace' # "asking" /\ UNCHANGED <<pages, blind>>
    BY <1>8, <1>a DEF NotFound, ytPast
  <2> QED BY <1>0, <2>1
<1>9. CASE SearchFails
  <2>1. used' >= used /\ ytPlace' # "asking" /\ UNCHANGED <<pages, blind>>
    BY <1>9, <1>a DEF SearchFails, ytPast
  <2> QED BY <1>0, <2>1
<1>10. CASE PauseEnds
  <2>1. used' = used /\ ytPlace' # "asking" /\ UNCHANGED <<pages, blind>>
    BY <1>10 DEF PauseEnds, ytPast
  <2> QED BY <1>0, <2>1
<1>11. CASE Refused
  <2>1. used' >= used /\ ytPlace' # "asking" /\ UNCHANGED <<pages, blind>>
    BY <1>0, <1>11, <1>a DEF Refused, ytPast
  <2> QED BY <1>0, <2>1
<1>12. CASE BudgetChecked
  <2>1. /\ UNCHANGED <<used, pages, blind>>
        /\ ytPlace' = "asking" => used + PageCost =< Budget
    BY <1>0, <1>c, <1>12 DEF BudgetChecked, ytPast
  <2> QED BY <1>0, <1>c, <2>1
<1>13. CASE BudgetUnread
  BY <1>0, <1>13 DEF BudgetUnread
<1>14. CASE PageOk
  BY <1>14, <1>b DEF PageOk
<1>15. CASE ChatEnds
  BY <1>15, <1>b DEF ChatEnds
<1>16. CASE PageFails
  BY <1>16, <1>b DEF PageFails
<1>17. CASE YtCancelled
  BY <1>0, <1>17 DEF YtCancelled, youtube, ytPast
<1>18. CASE UNCHANGED ytVars
  BY <1>0, <1>18 DEF ytVars, ytReader, youtube, ytPast
<1> QED
  BY <1>1, <1>2, <1>3, <1>4, <1>5, <1>6, <1>7, <1>8, <1>9, <1>10, <1>11, <1>12, <1>13, <1>14,
     <1>15, <1>16, <1>17, <1>18
  DEF YtNext

\* ReadChat of YouTube (youtube/chat.go) keeps its inductive invariant.
THEOREM YouTubeHolds == YtSpec => []YtInv
<1>1. YtInv /\ [YtNext]_ytVars => YtInv'
  BY YtTypesKept, ReadingKept, SpendingKept DEF YtInv
<1> QED BY YtInitInv, <1>1, PTL DEF YtSpec

\* For any budget and any costs, ReadChat of YouTube gives every message of the chat once
\* and in order up to the token it holds, and its pages of a day stay within the budget
\* although the panel spends of the same quota between the check and the page
\* (sondearChat, chatPage).
THEOREM YouTubeReads == YtSpec => []YouTubePages
<1>1. YtInv => YouTubePages
  BY DEF YtInv, Reading, Spending, YouTubePages
<1> QED BY YouTubeHolds, <1>1, PTL

-----------------------------------------------------------------------------

\* A delivery carries a signature only of a message Kick has sent, and goes on to be
\* marked only with one that held; the key it has tried is another.
Signed ==
  \A d \in Deliveries :
    /\ sig[d] # NoKey => signedBy[of[d]] = sig[d]
    /\ step[d] = "mark" => sig[d] # NoKey
    /\ step[d] = "refresh" => pub # NoKey /\ tried[d] # sig[d]

\* An id that was taken in time is still in the map, marked no earlier than its window,
\* or its window has passed.
Remembered ==
  \A m \in KickMessages :
    /\ accepted[m] > 0 => signedBy[m] # NoKey
    /\ seen[m] # Never => accepted[m] > 0
    /\ accepted[m] > 0 /\ ~late[m] =>
         IF seen[m] = Never THEN now > stamped[m] + Window
                            ELSE seen[m] >= stamped[m] - Window

KickInv == KickTypeOK /\ Signed /\ Remembered /\ KickOnce /\ KickSignatures

\* Nothing has been delivered, marked or fetched at the beginning.
LEMMA KickInitInv == KickInit => KickInv
<1> SUFFICES ASSUME KickInit PROVE KickInv
  OBVIOUS
<1> USE KickConstants DEF KickInit, NoKey, Never
<1>1. (CHOOSE m \in KickMessages : TRUE) \in KickMessages
  OBVIOUS
<1>2. 0 \in 0..Horizon /\ 1 \in 1..MaxKeys /\ 0 \in 0..MaxKeys
  OBVIOUS
<1>3. KickTypeOK
  <2>1. late \in [KickMessages -> BOOLEAN] /\ wronged \in BOOLEAN
    OBVIOUS
  <2>2. kickKey \in 1..MaxKeys /\ stamped \in [KickMessages -> Int] /\ accepted \in [KickMessages -> Nat]
    OBVIOUS
  <2> QED BY <1>1, <1>2, <2>1, <2>2 DEF KickTypeOK
<1>4. Signed /\ Remembered /\ KickSignatures
  BY DEF Signed, Remembered, KickSignatures
<1>5. KickOnce
  BY <1>3 DEF KickOnce
<1> QED BY <1>3, <1>4, <1>5 DEF KickInv

\* The key that is used is a key of Kick's, fetched some time before.
LEMMA KeyFetched ==
  ASSUME KickTypeOK, NEW force \in BOOLEAN, ClavePublica(force)
  PROVE  pub' \in 0..MaxKeys /\ fetchedAt' \in 0..Horizon
<1>1. /\ kickKey \in 0..MaxKeys /\ now \in 0..Horizon
      /\ pub \in 0..MaxKeys /\ fetchedAt \in 0..Horizon
  BY KickConstants DEF KickTypeOK
<1> QED BY <1>1 DEF ClavePublica, cache

\* The actions leave the types as they are.
LEMMA KickTypesKept == ASSUME KickTypeOK, [KickNext]_kickVars PROVE KickTypeOK'
<1> USE KickConstants DEF KickTypeOK, NoKey, Never
<1>1. CASE KickTick
  BY <1>1 DEF KickTick, cache, delivery, kickPast
<1>2. CASE Rotates
  BY <1>2 DEF Rotates, cache, delivery, kickPast
<1>3. ASSUME NEW m \in KickMessages, Sends(m) PROVE KickTypeOK'
  BY <1>3 DEF Sends, cache, delivery, kickPast
<1>4. ASSUME NEW d \in Deliveries, NEW m \in KickMessages, NEW key \in {NoKey, signedBy[m]},
             Arrives(d, m, key)
      PROVE KickTypeOK'
  BY <1>4 DEF Arrives, kick, cache, kickPast
<1>5. ASSUME NEW d \in Deliveries, KeyTried(d) PROVE KickTypeOK'
  <2>1. pub' \in 0..MaxKeys /\ fetchedAt' \in 0..Horizon
    BY <1>5, KeyFetched DEF KeyTried
  <2> QED BY <1>5, <2>1 DEF KeyTried, TurnsDown, Done, kick, kickPast
<1>6. ASSUME NEW d \in Deliveries, KeyRefreshed(d) PROVE KickTypeOK'
  <2>1. pub' \in 0..MaxKeys /\ fetchedAt' \in 0..Horizon
    BY <1>6, KeyFetched DEF KeyRefreshed
  <2>2. CASE TurnsDown(d)
    BY <1>6, <2>1, <2>2 DEF KeyRefreshed, TurnsDown, Done, kick
  <2>3. CASE step' = [step EXCEPT ![d] = "mark"] /\ tried' = [tried EXCEPT ![d] = NoKey]
             /\ UNCHANGED <<of, sig, kickPast>>
    BY <1>6, <2>1, <2>3 DEF KeyRefreshed, kick, kickPast
  <2> QED BY <1>6, <2>2, <2>3 DEF KeyRefreshed
<1>7. ASSUME NEW d \in Deliveries, Marcar(d) PROVE KickTypeOK'
  BY <1>7 DEF Marcar, Done, kick, cache
<1>8. CASE UNCHANGED kickVars
  BY <1>8 DEF kickVars, kick, cache, delivery, kickPast
<1> QED BY <1>1, <1>2, <1>3, <1>4, <1>5, <1>6, <1>7, <1>8 DEF KickNext

\* No step lets through a delivery whose signature holds with no key of Kick's.
LEMMA SignedKept == ASSUME KickInv, [KickNext]_kickVars PROVE Signed'
<1> USE DEF Signed, NoKey
<1>0. /\ Signed /\ pub \in 0..MaxKeys /\ kickKey \in 1..MaxKeys
      /\ step \in [Deliveries -> {"none", "key", "refresh", "mark"}]
      /\ of \in [Deliveries -> KickMessages] /\ sig \in [Deliveries -> 0..MaxKeys]
      /\ tried \in [Deliveries -> 0..MaxKeys] /\ signedBy \in [KickMessages -> 0..MaxKeys]
  BY DEF KickInv, KickTypeOK
<1>a. ASSUME NEW force \in BOOLEAN, ClavePublica(force), pub # NoKey PROVE pub' # NoKey
  BY <1>0, <1>a DEF ClavePublica, cache
<1>1. CASE KickTick
  BY <1>0, <1>1 DEF KickTick, cache, delivery, kickPast
<1>2. CASE Rotates
  BY <1>0, <1>2 DEF Rotates, cache, delivery, kickPast
<1>3. ASSUME NEW m \in KickMessages, Sends(m) PROVE Signed'
  BY <1>0, <1>3 DEF Sends, cache, delivery, kickPast
<1>4. ASSUME NEW d \in Deliveries, NEW m \in KickMessages, NEW key \in {NoKey, signedBy[m]},
             Arrives(d, m, key)
      PROVE Signed'
  BY <1>0, <1>4 DEF Arrives, kick, cache, kickPast
<1>5. ASSUME NEW d \in Deliveries, KeyTried(d) PROVE Signed'
  <2>1. CASE pub' = NoKey
    <3>1. pub = NoKey
      BY <1>5, <1>a, <2>1 DEF KeyTried
    <3> QED BY <1>0, <1>5, <2>1, <3>1 DEF KeyTried, TurnsDown, Done, kick
  <2>2. CASE pub' # NoKey
    BY <1>0, <1>5, <2>2 DEF KeyTried, kick, kickPast
  <2> QED BY <2>1, <2>2
<1>6. ASSUME NEW d \in Deliveries, KeyRefreshed(d) PROVE Signed'
  <2>1. CASE TurnsDown(d)
    <3>1. pub' # NoKey
      BY <1>0, <1>6, <1>a DEF KeyRefreshed
    <3> QED BY <1>0, <1>6, <2>1, <3>1 DEF KeyRefreshed, TurnsDown, Done, kick
  <2>2. CASE /\ sig[d] = pub' /\ pub' # tried[d]
             /\ step' = [step EXCEPT ![d] = "mark"] /\ tried' = [tried EXCEPT ![d] = NoKey]
             /\ UNCHANGED <<of, sig, kickPast>>
    <3>1. pub' # NoKey
      BY <1>0, <1>6, <1>a DEF KeyRefreshed
    <3> QED BY <1>0, <1>6, <2>2, <3>1 DEF KeyRefreshed, kick, kickPast
  <2> QED BY <1>0, <1>6, <2>1, <2>2 DEF KeyRefreshed
<1>7. ASSUME NEW d \in Deliveries, Marcar(d) PROVE Signed'
  BY <1>0, <1>7 DEF Marcar, Done, kick, cache
<1>8. CASE UNCHANGED kickVars
  BY <1>0, <1>8 DEF kickVars, kick, cache, delivery, kickPast
<1> QED BY <1>1, <1>2, <1>3, <1>4, <1>5, <1>6, <1>7, <1>8 DEF KickNext

\* No step forgets an id before its window has passed, nor takes one twice within it:
\* what clears old marks leaves those younger than twice the window.
LEMMA OnceKept == ASSUME KickInv, [KickNext]_kickVars PROVE (Remembered /\ KickOnce)'
<1> DEFINE Marks(m) ==
      /\ accepted[m] > 0 => signedBy[m] # NoKey
      /\ seen[m] # Never => accepted[m] > 0
      /\ accepted[m] > 0 /\ ~late[m] =>
           IF seen[m] = Never THEN now > stamped[m] + Window ELSE seen[m] >= stamped[m] - Window
      /\ late[m] \/ accepted[m] <= 1
<1> SUFFICES ASSUME NEW n \in KickMessages PROVE Marks(n)'
  BY KickTypesKept DEF Remembered, KickOnce, KickInv
<1>0. Marks(n) /\ KickTypeOK
  BY DEF KickInv, Remembered, KickOnce
<1> USE KickConstants DEF KickTypeOK, NoKey, Never
<1>1. CASE KickTick
  BY <1>0, <1>1 DEF KickTick, cache, delivery, kickPast
<1>2. CASE Rotates
  BY <1>0, <1>2 DEF Rotates, cache, delivery, kickPast
<1>3. ASSUME NEW m \in KickMessages, Sends(m) PROVE Marks(n)'
  BY <1>0, <1>3 DEF Sends, cache, delivery, kickPast
<1>4. ASSUME NEW d \in Deliveries, NEW m \in KickMessages, NEW key \in {NoKey, signedBy[m]},
             Arrives(d, m, key)
      PROVE Marks(n)'
  BY <1>0, <1>4 DEF Arrives, kick, cache, kickPast
<1>5. ASSUME NEW d \in Deliveries, KeyTried(d) PROVE Marks(n)'
  BY <1>0, <1>5 DEF KeyTried, TurnsDown, Done, kick, kickPast
<1>6. ASSUME NEW d \in Deliveries, KeyRefreshed(d) PROVE Marks(n)'
  BY <1>0, <1>6 DEF KeyRefreshed, TurnsDown, Done, kick, kickPast
<1>7. ASSUME NEW d \in Deliveries, Marcar(d) PROVE Marks(n)'
  <2> DEFINE kept == [i \in KickMessages |-> IF now - seen[i] > SeenTTL THEN Never ELSE seen[i]]
  <2> HIDE DEF KickTypeOK
  <2>a. Window \in Nat /\ AskedSeenTTL \in Nat /\ Horizon \in Nat
    OBVIOUS
  <2>0. /\ accepted[n] \in Nat /\ stamped[n] \in Int /\ now \in Nat
        /\ seen \in [KickMessages -> Int] /\ accepted \in [KickMessages -> Nat]
    BY <1>0, <2>a DEF KickTypeOK
  <2>1. SeenTTL \in Nat /\ SeenTTL >= 2 * Window
    BY <2>a DEF SeenTTL
  <2>2. /\ now' = now /\ stamped' = stamped /\ signedBy' = signedBy
        /\ late' = [late EXCEPT ![of[d]] = @ \/ ~InWindow(of[d])]
        /\ \/ kept[of[d]] # Never /\ seen' = kept /\ accepted' = accepted
           \/ /\ kept[of[d]] = Never /\ seen' = [kept EXCEPT ![of[d]] = now]
              /\ accepted' = [accepted EXCEPT ![of[d]] = @ + 1]
    BY <1>7 DEF Marcar, kick
  <2>3. /\ signedBy[of[d]] # NoKey /\ of[d] \in KickMessages
        /\ late \in [KickMessages -> BOOLEAN]
    BY <1>7 DEF Marcar, KickInv, Signed, KickTypeOK
  <2>4. kept[n] \in Int /\ kept[n] \in {Never, seen[n]} /\ kept \in [KickMessages -> Int]
    BY <2>0
  <2>5. CASE n # of[d]
    <3>1. late'[n] = late[n] /\ accepted'[n] = accepted[n] /\ seen'[n] = kept[n]
      BY <2>2, <2>3, <2>4, <2>5, <2>0
    <3>2. accepted[n] > 0 /\ ~late[n] =>
            IF kept[n] = Never THEN now > stamped[n] + Window ELSE kept[n] >= stamped[n] - Window
      BY <1>0, <2>0, <2>1, <2>a
    <3> QED BY <1>0, <2>2, <2>4, <3>1, <3>2
  <2>6. CASE n = of[d]
    <3>1. late'[n] <=> (late[n] \/ ~InWindow(n))
      BY <2>2, <2>3, <2>6
    <3>2. signedBy'[n] # NoKey
      BY <2>2, <2>3, <2>6
    <3>3. \/ kept[n] # Never /\ seen'[n] = kept[n] /\ accepted'[n] = accepted[n]
          \/ kept[n] = Never /\ seen'[n] = now /\ accepted'[n] = accepted[n] + 1
      BY <2>0, <2>2, <2>4, <2>6
    <3>4. seen'[n] # Never => accepted'[n] > 0
      BY <1>0, <2>0, <2>4, <3>3
    <3>5. CASE late'[n]
      BY <3>2, <3>4, <3>5
    <3>6. CASE ~late'[n]
      <4>1. ~late[n] /\ InWindow(n)
        BY <3>1, <3>6
      <4>2. now - stamped[n] <= Window /\ now - stamped[n] >= -Window
        BY <2>0, <2>a, <4>1 DEF InWindow
      <4>3. accepted[n] = 0 \/ (accepted[n] = 1 /\ kept[n] # Never /\ kept[n] >= stamped[n] - Window)
        BY <1>0, <2>0, <2>1, <2>a, <4>1, <4>2
      <4>4. kept[n] # Never => accepted[n] > 0
        BY <1>0, <2>4
      <4>5. accepted'[n] <= 1 /\ seen'[n] # Never /\ seen'[n] >= stamped'[n] - Window
        <5>1. stamped'[n] = stamped[n]
          BY <2>2
        <5> HIDE DEF kept
        <5> QED BY <2>0, <2>4, <2>a, <3>3, <4>2, <4>3, <4>4, <5>1
      <4> QED BY <3>2, <3>4, <4>5
    <3> QED BY <3>5, <3>6
  <2> QED BY <2>5, <2>6
<1>8. CASE UNCHANGED kickVars
  BY <1>0, <1>8 DEF kickVars, kick, cache, delivery, kickPast
<1> QED BY <1>1, <1>2, <1>3, <1>4, <1>5, <1>6, <1>7, <1>8 DEF KickNext

\* No step refuses what was signed with the key the handler has just fetched.
LEMMA NoneWronged == ASSUME KickInv, [KickNext]_kickVars PROVE KickSignatures'
<1> USE DEF KickInv, KickSignatures, Signed, NoKey
<1>1. CASE KickTick
  BY <1>1 DEF KickTick, kickPast
<1>2. CASE Rotates
  BY <1>2 DEF Rotates, kickPast
<1>3. ASSUME NEW m \in KickMessages, Sends(m) PROVE KickSignatures'
  BY <1>3 DEF Sends, kickPast
<1>4. ASSUME NEW d \in Deliveries, NEW m \in KickMessages, NEW key \in {NoKey, signedBy[m]},
             Arrives(d, m, key)
      PROVE KickSignatures'
  BY <1>4 DEF Arrives, kickPast
<1>5. ASSUME NEW d \in Deliveries, KeyTried(d) PROVE KickSignatures'
  BY <1>5 DEF KeyTried, TurnsDown, kickPast
<1>6. ASSUME NEW d \in Deliveries, KeyRefreshed(d) PROVE KickSignatures'
  BY <1>6 DEF KeyRefreshed, TurnsDown, kickPast
<1>7. ASSUME NEW d \in Deliveries, Marcar(d) PROVE KickSignatures'
  BY <1>7 DEF Marcar
<1>8. CASE UNCHANGED kickVars
  BY <1>8 DEF kickVars, kickPast
<1> QED BY <1>1, <1>2, <1>3, <1>4, <1>5, <1>6, <1>7, <1>8 DEF KickNext

\* The webhook of Kick (httpapi/kick.go, kick/webhook.go) keeps its inductive invariant.
THEOREM KickHolds == KickSpec => []KickInv
<1>1. KickInv /\ [KickNext]_kickVars => KickInv'
  BY KickTypesKept, SignedKept, OnceKept, NoneWronged DEF KickInv
<1> QED BY KickInitInv, <1>1, PTL DEF KickSpec

\* However often a message is delivered, and however early or late in its window its
\* sender's clock puts it, it is accepted once as long as no delivery of it is marked
\* after its window (Marcar of the store of ids, handleKickWebhook).
THEOREM KickMarksOnce == KickSpec => []KickOnce
<1>1. KickInv => KickOnce
  BY DEF KickInv
<1> QED BY KickHolds, <1>1, PTL

\* A delivery that Kick signed is never turned down with the key that verifies it in the
\* cache, however keys rotate and whichever delivery fetched it (ClavePublica).
THEOREM KickTrustsKeys == KickSpec => []KickSignatures
<1>1. KickInv => KickSignatures
  BY DEF KickInv
<1> QED BY KickHolds, <1>1, PTL

-----------------------------------------------------------------------------

PanelStates == [at : {"off", "joining", "streaming", "lagging"}, ch : Seq(Msgs)]
WriterStates == [at : {"off", "on", "delivering", "draining", "lastDelivering"},
                 session : 0..MaxSessions, msg : 0..MaxMsgs]

\* The types, in the parts the actions leave alone together.
BusTypes ==
  /\ live \in 0..MaxSessions /\ latest \in 0..MaxSessions
  /\ events \in Seq(Event) /\ Len(events) =< EventBuffer /\ missed \in BOOLEAN
RunTypes ==
  /\ runAt \in {"select", "waiting", "listing", "leaving", "ended"}
  /\ next \in 0..MaxSessions /\ sessionID \in 0..MaxSessions
  /\ over \in BOOLEAN /\ shutdown \in BOOLEAN
WayTypes ==
  /\ writer \in WriterStates /\ readers \subseteq Accounts
  /\ input \in [Sessions -> Seq(Msgs)] /\ \A s \in Sessions : Len(input[s]) =< InputBuffer
  /\ batch \in Seq(Msgs) /\ Len(batch) < BatchSize
  /\ holding \in [Hooks -> -1..MaxSessions]
  /\ stored \subseteq Msgs /\ counted \subseteq Msgs /\ refused \subseteq Msgs /\ inTime \subseteq Msgs
  /\ arrived \in 0..MaxMsgs
PanelTypes ==
  /\ recent \in Seq(Entry) /\ Len(recent) =< RecentKeep
  /\ resetFor \in 0..MaxSessions /\ panel \in PanelStates /\ owed \subseteq Msgs

\* The writer has a session while it is there, and a message while it delivers; when Run
\* has waited for it, it is gone and so are the readers.
Goroutines ==
  /\ writer.at = "off" => writer = Idle
  /\ writer.at # "off" => writer.session # None /\ writer.session = resetFor
  /\ writer.msg # None <=> writer.at \in {"delivering", "lastDelivering"}
  /\ runAt = "listing" => ~Running /\ next # None /\ resetFor = next
  /\ runAt = "leaving" => next = None

\* No channel has a message twice, nor two channels the same.
Distinct(q) == \A i, k \in 1..Len(q) : q[i] = q[k] => i = k
ChannelsApart ==
  /\ \A s \in Sessions : Distinct(input[s])
  /\ \A s, t \in Sessions : s # t => ToSet(input[s]) \cap ToSet(input[t]) = {}

\* Every message that arrived is in one place.
InOnePlace ==
  /\ Queued \cup InHand \cup ToSet(batch) \cup stored \cup counted \cup refused = 1..arrived
  /\ Queued \cap (InHand \cup ToSet(batch) \cup stored \cup counted \cup refused) = {}
  /\ InHand \cap (ToSet(batch) \cup stored \cup counted \cup refused) = {}
  /\ ToSet(batch) \cap (stored \cup counted \cup refused) = {}
  /\ stored \cap (counted \cup refused) = {} /\ counted \cap refused = {}

\* What entered a channel in time is in the writer's.
InTimeKept ==
  /\ inTime \subseteq 1..arrived
  /\ \A s \in Sessions : writer.session # s => ToSet(input[s]) \cap inTime = {}

\* The recent messages are of one session; what a panel is owed is on its way to it.
PanelSound ==
  /\ \A e \in ToSet(recent) : e.session = resetFor
  /\ panel.at \in {"off", "lagging"} => owed = {}
  /\ panel.at \in {"joining", "streaming"} => owed \subseteq ToSet(panel.ch) \cup InHand

CsInv == /\ BusTypes /\ RunTypes /\ WayTypes /\ PanelTypes
         /\ Goroutines /\ ChannelsApart /\ InOnePlace /\ InTimeKept /\ PanelSound

-----------------------------------------------------------------------------
\* Sequences and the set of what is in them.
LEMMA Appended ==
  ASSUME NEW S, NEW q \in Seq(S), NEW x \in S
  PROVE  /\ Append(q, x) \in Seq(S) /\ Len(Append(q, x)) = Len(q) + 1 /\ Len(q) \in Nat
         /\ ToSet(Append(q, x)) = ToSet(q) \cup {x}
         /\ Distinct(q) /\ x \notin ToSet(q) => Distinct(Append(q, x))
<1>1. /\ DOMAIN q = 1..Len(q) /\ Len(q) \in Nat
      /\ Append(q, x) \in Seq(S) /\ DOMAIN Append(q, x) = 1..(Len(q) + 1)
      /\ Len(Append(q, x)) = Len(q) + 1
      /\ \A i \in 1..Len(q) : Append(q, x)[i] = q[i]
      /\ Append(q, x)[Len(q) + 1] = x
  BY AppendProperties, LenProperties
<1>2. ToSet(Append(q, x)) = ToSet(q) \cup {x}
  <2>1. \A y \in ToSet(q) : \E i \in 1..(Len(q) + 1) : y = Append(q, x)[i]
    BY <1>1 DEF ToSet
  <2>2. x \in ToSet(Append(q, x)) /\ ToSet(q) \subseteq ToSet(Append(q, x))
    BY <1>1, <2>1 DEF ToSet
  <2>3. ASSUME NEW i \in 1..(Len(q) + 1) PROVE Append(q, x)[i] \in ToSet(q) \cup {x}
    <3>1. i \in 1..Len(q) \/ i = Len(q) + 1
      BY <1>1
    <3> QED BY <1>1, <3>1 DEF ToSet
  <2>4. ToSet(Append(q, x)) \subseteq ToSet(q) \cup {x}
    BY <1>1, <2>3 DEF ToSet
  <2> QED BY <2>2, <2>4
<1>3. ASSUME Distinct(q), x \notin ToSet(q) PROVE Distinct(Append(q, x))
  <2>1. \A i \in 1..Len(q) : Append(q, x)[i] # x
    BY <1>1, <1>3 DEF ToSet
  <2>2. ASSUME NEW i \in 1..(Len(q) + 1), NEW k \in 1..(Len(q) + 1),
               Append(q, x)[i] = Append(q, x)[k]
        PROVE  i = k
    <3>1. (i \in 1..Len(q) \/ i = Len(q) + 1) /\ (k \in 1..Len(q) \/ k = Len(q) + 1)
      BY <1>1
    <3> QED BY <1>1, <1>3, <2>1, <2>2, <3>1 DEF Distinct
  <2> QED BY <1>1, <2>2 DEF Distinct
<1> QED BY <1>1, <1>2, <1>3

LEMMA HeadTaken ==
  ASSUME NEW S, NEW q \in Seq(S), q # <<>>
  PROVE  /\ Head(q) \in S /\ Head(q) \in ToSet(q) /\ Tail(q) \in Seq(S)
         /\ Len(Tail(q)) = Len(q) - 1 /\ Len(q) \in Nat
         /\ ToSet(Tail(q)) \subseteq ToSet(q) /\ ToSet(q) \subseteq ToSet(Tail(q)) \cup {Head(q)}
         /\ Distinct(q) => Distinct(Tail(q)) /\ Head(q) \notin ToSet(Tail(q))
<1>1. /\ Head(q) \in S /\ Tail(q) \in Seq(S) /\ Len(Tail(q)) = Len(q) - 1
      /\ \A i \in 1..Len(Tail(q)) : Tail(q)[i] = q[i + 1]
  BY HeadTailProperties
<1>2. Len(q) \in Nat /\ Len(q) # 0 /\ DOMAIN q = 1..Len(q) /\ DOMAIN Tail(q) = 1..Len(Tail(q))
  BY <1>1, LenProperties, EmptySeq
<1>3. Head(q) = q[1]
  BY <1>2
<1>4. \A i \in 1..(Len(q) - 1) : Tail(q)[i] = q[i + 1] /\ i + 1 \in 1..Len(q)
  BY <1>1, <1>2
<1>5. Head(q) \in ToSet(q) /\ ToSet(Tail(q)) \subseteq ToSet(q)
  BY <1>1, <1>2, <1>3, <1>4 DEF ToSet
<1>6. ASSUME NEW i \in 1..Len(q) PROVE q[i] \in ToSet(Tail(q)) \cup {Head(q)}
  <2>1. CASE i = 1
    BY <1>3, <2>1
  <2>2. CASE i # 1
    <3>1. i - 1 \in 1..(Len(q) - 1) /\ (i - 1) + 1 = i
      BY <1>2, <2>2
    <3>2. Tail(q)[i - 1] = q[i]
      BY <1>4, <3>1
    <3> QED BY <1>1, <1>2, <3>1, <3>2 DEF ToSet
  <2> QED BY <2>1, <2>2
<1>7. ASSUME Distinct(q) PROVE Distinct(Tail(q)) /\ Head(q) \notin ToSet(Tail(q))
  <2>1. ASSUME NEW i \in 1..(Len(q) - 1), NEW k \in 1..(Len(q) - 1), Tail(q)[i] = Tail(q)[k]
        PROVE  i = k
    <3>1. i + 1 = k + 1
      BY <1>4, <1>7, <2>1 DEF Distinct
    <3> QED BY <1>2, <3>1
  <2>2. ASSUME NEW i \in 1..(Len(q) - 1) PROVE Tail(q)[i] # Head(q)
    <3>1. q[i + 1] = q[1] => i + 1 = 1
      BY <1>2, <1>4, <1>7 DEF Distinct
    <3> QED BY <1>2, <1>3, <1>4, <3>1
  <2> QED BY <1>1, <1>2, <2>1, <2>2 DEF Distinct, ToSet
<1> QED BY <1>1, <1>2, <1>5, <1>6, <1>7 DEF ToSet

LEMMA NoneIn == ToSet(<<>>) = {} /\ \A S : <<>> \in Seq(S) /\ Len(<<>>) = 0
BY DEF ToSet

LEMMA ChatNumbers ==
  /\ {MaxSessions, MaxMsgs, EventBuffer, InputBuffer, BatchSize, RecentKeep, PanelBuffer} \subseteq Nat
  /\ MaxSessions > 0 /\ MaxMsgs > 0 /\ EventBuffer > 0 /\ InputBuffer > 0 /\ BatchSize > 0
  /\ RecentKeep > 0 /\ PanelBuffer > 0
BY ChatConstants

LEMMA ChatInitInv == ChatInit => CsInv
<1> SUFFICES ASSUME ChatInit PROVE CsInv
  OBVIOUS
<1> USE DEF ChatInit
<1>1. BusTypes /\ RunTypes
  <2>1. 0 \in 0..MaxSessions /\ <<>> \in Seq(Event) /\ Len(<<>>) =< EventBuffer
    BY ChatNumbers, NoneIn
  <2> QED BY <2>1 DEF BusTypes, RunTypes, None
<1>2. WayTypes
  <2>1. writer \in WriterStates
    BY ChatNumbers DEF WriterStates, Idle, None
  <2>2. input \in [Sessions -> Seq(Msgs)] /\ \A s \in Sessions : Len(input[s]) =< InputBuffer
    BY ChatNumbers, NoneIn
  <2>3. batch \in Seq(Msgs) /\ Len(batch) < BatchSize
    BY ChatNumbers, NoneIn
  <2>4. holding \in [Hooks -> -1..MaxSessions] /\ arrived \in 0..MaxMsgs
    BY ChatNumbers
  <2> QED BY <2>1, <2>2, <2>3, <2>4 DEF WayTypes
<1>3. PanelTypes
  BY ChatNumbers, NoneIn DEF PanelTypes, PanelStates, PanelGone, None
<1>4. Goroutines
  BY DEF Goroutines, Idle, None
<1>5. \A s \in Sessions : ToSet(input[s]) = {} /\ Len(input[s]) = 0
  BY NoneIn
<1>6. ChannelsApart /\ InTimeKept
  BY <1>5 DEF ChannelsApart, InTimeKept, Distinct
<1>7. InOnePlace
  <2>1. Queued = {} /\ InHand = {} /\ ToSet(batch) = {} /\ 1..arrived = {}
    BY <1>5, NoneIn DEF Queued, InHand, Idle
  <2> QED BY <2>1 DEF InOnePlace
<1>8. PanelSound
  BY NoneIn DEF PanelSound, PanelGone
<1> QED BY <1>1, <1>2, <1>3, <1>4, <1>6, <1>7, <1>8 DEF CsInv

\* What a step leaves alone keeps what is said of it.
LEMMA MessagesStay ==
  ASSUME CsInv, UNCHANGED <<writer, readers, input, batch, holding, books>>
  PROVE  WayTypes' /\ ChannelsApart' /\ InOnePlace' /\ InTimeKept'
BY DEF CsInv, WayTypes, ChannelsApart, Distinct, InOnePlace, InTimeKept, Queued, InHand, books

LEMMA PanelStays ==
  ASSUME CsInv, writer.msg' = writer.msg, UNCHANGED chatBus
  PROVE  PanelTypes' /\ PanelSound'
BY DEF CsInv, PanelTypes, PanelSound, InHand, chatBus, panelV

LEMMA RunStays ==
  ASSUME CsInv, UNCHANGED <<engine, bus, runVars>>
  PROVE  BusTypes' /\ RunTypes'
BY DEF CsInv, BusTypes, RunTypes, engine, bus, runVars

-----------------------------------------------------------------------------
\* The engine and the bus: of Run they touch the subscription, and the context.
LEMMA Published ==
  ASSUME BusTypes, NEW kind \in {"connected", "disconnected"}, NEW s \in Sessions, BusPublish(kind, s)
  PROVE  events' \in Seq(Event) /\ Len(events') =< EventBuffer /\ missed' \in BOOLEAN
<1>1. [kind |-> kind, session |-> s] \in Event
  BY DEF Event
<1>2. CASE UNCHANGED bus
  BY <1>2 DEF BusTypes, bus
<1>3. CASE Len(events) < EventBuffer /\ events' = Append(events, [kind |-> kind, session |-> s])
           /\ UNCHANGED missed
  <2>1. events' \in Seq(Event) /\ Len(events') = Len(events) + 1 /\ Len(events) \in Nat
    BY <1>1, <1>3, Appended DEF BusTypes
  <2> QED BY <1>3, <2>1, ChatNumbers DEF BusTypes
<1>4. CASE missed' = TRUE /\ UNCHANGED events
  BY <1>4 DEF BusTypes
<1> QED BY <1>2, <1>3, <1>4 DEF BusPublish

LEMMA EngineKeeps == ASSUME CsInv, OpenSession \/ CloseSession \/ Shutdown PROVE CsInv'
<1>1. UNCHANGED <<writer, readers, input, batch, holding, books, chatBus, runAt, next, sessionID, over>>
  BY DEF OpenSession, CloseSession, Shutdown, runVars
<1>2. WayTypes' /\ ChannelsApart' /\ InOnePlace' /\ InTimeKept' /\ PanelTypes' /\ PanelSound'
  BY <1>1, MessagesStay, PanelStays
<1>3. Goroutines'
  BY <1>1 DEF CsInv, Goroutines, Running, chatBus
<1>4. shutdown' \in BOOLEAN
  BY DEF OpenSession, CloseSession, Shutdown, runVars, CsInv, RunTypes
<1>5. RunTypes'
  BY <1>1, <1>4 DEF CsInv, RunTypes
<1>6. BusTypes'
  <2>1. CASE OpenSession
    <3>1. latest + 1 \in Sessions /\ live' = latest + 1 /\ latest' = latest + 1
      BY <2>1, ChatNumbers DEF OpenSession, CsInv, BusTypes, Sessions
    <3>2. BusPublish("connected", latest + 1)
      BY <2>1 DEF OpenSession
    <3>3. events' \in Seq(Event) /\ Len(events') =< EventBuffer /\ missed' \in BOOLEAN
      BY <3>1, <3>2, Published DEF CsInv
    <3>4. live' \in 0..MaxSessions /\ latest' \in 0..MaxSessions
      BY <3>1 DEF Sessions
    <3> QED BY <3>3, <3>4 DEF BusTypes
  <2>2. CASE CloseSession
    <3>1. live \in Sessions /\ live' = 0 /\ latest' = latest /\ latest \in 0..MaxSessions
      BY <2>2, ChatNumbers DEF CloseSession, CsInv, BusTypes, Sessions, None
    <3>2. BusPublish("disconnected", live)
      BY <2>2 DEF CloseSession
    <3>3. events' \in Seq(Event) /\ Len(events') =< EventBuffer /\ missed' \in BOOLEAN
      BY <3>1, <3>2, Published DEF CsInv
    <3>4. live' \in 0..MaxSessions
      BY <3>1, ChatNumbers
    <3> QED BY <3>1, <3>3, <3>4 DEF BusTypes
  <2>3. CASE Shutdown
    BY <2>3 DEF Shutdown, CsInv, BusTypes, engine, bus
  <2> QED BY <2>1, <2>2, <2>3
<1> QED BY <1>2, <1>3, <1>5, <1>6 DEF CsInv

-----------------------------------------------------------------------------
\* Run: hearing, leaving, waiting and starting.
LEMMA Stopping ==
  ASSUME RunTypes, NEW s \in 0..MaxSessions, NEW at \in {"waiting", "leaving"}, Stop(s, at)
  PROVE  RunTypes' /\ runAt' # "listing" /\ (runAt' = "leaving" => next' = s)
<1>1. /\ runAt' = at /\ next' = s /\ sessionID' = 0 /\ shutdown' = shutdown
      /\ 0 \in 0..MaxSessions
  BY ChatNumbers DEF Stop, None
<1>2. over' \in BOOLEAN
  BY DEF Stop, RunTypes
<1> QED BY <1>1, <1>2 DEF RunTypes

LEMMA RunKeeps == ASSUME CsInv, Hear \/ Leave \/ Waited \/ NoChat PROVE CsInv'
<1>1. UNCHANGED <<live, latest, missed, writer, readers, input, batch, holding, books, panelV>>
  BY DEF Hear, Leave, Waited, NoChat, engine, bus, chatBus
<1>2. WayTypes' /\ ChannelsApart' /\ InOnePlace' /\ InTimeKept'
  BY <1>1, MessagesStay
<1>3. CASE Hear \/ Leave
  <2>1. UNCHANGED chatBus
    BY <1>3 DEF Hear, Leave
  <2>2. PanelTypes' /\ PanelSound'
    BY <1>1, <2>1, PanelStays
  <2>3. RunTypes' /\ runAt' # "listing" /\ (runAt' = "leaving" => next' = None)
    <3>1. CASE Hear
      <4>1. events \in Seq(Event) /\ events # <<>>
        BY <3>1 DEF Hear, CsInv, BusTypes
      <4>2. Head(events) \in Event
        BY <4>1, HeadTaken
      <4>3. PICK s \in 0..MaxSessions : Stop(s, "waiting")
        <5>1. Head(events).session \in 0..MaxSessions /\ Head(events).kind \in {"connected", "disconnected"}
              /\ None \in 0..MaxSessions
          BY <4>2, ChatNumbers DEF Event, Sessions, None
        <5>2. Stop(Head(events).session, "waiting") \/ Stop(None, "waiting")
          BY <3>1, <5>1 DEF Hear
        <5> QED BY <5>1, <5>2
      <4>4. runAt' = "waiting"
        BY <4>3 DEF Stop
      <4> QED BY <4>3, <4>4, Stopping DEF CsInv
    <3>2. CASE Leave
      <4>1. Stop(None, "leaving") /\ None \in 0..MaxSessions
        BY <3>2, ChatNumbers DEF Leave, None
      <4> QED BY <4>1, Stopping DEF CsInv
    <3> QED BY <1>3, <3>1, <3>2
  <2>4. events' \in Seq(Event) /\ Len(events') =< EventBuffer
    <3>1. CASE Hear
      <4>1. events \in Seq(Event) /\ events # <<>> /\ events' = Tail(events) /\ Len(events) =< EventBuffer
        BY <3>1 DEF Hear, CsInv, BusTypes
      <4> QED BY <4>1, HeadTaken, ChatNumbers
    <3>2. CASE Leave
      BY <3>2 DEF Leave, CsInv, BusTypes, bus
    <3> QED BY <1>3, <3>1, <3>2
  <2>5. BusTypes'
    BY <1>1, <2>4 DEF CsInv, BusTypes
  <2>6. Goroutines'
    BY <1>1, <2>1, <2>3 DEF CsInv, Goroutines, chatBus
  <2> QED BY <1>2, <2>2, <2>3, <2>5, <2>6 DEF CsInv
<1>4. CASE Waited
  <2>1. /\ ~Running /\ UNCHANGED <<next, sessionID, over, shutdown>>
        /\ runAt' \in {"ended", "listing", "select"}
        /\ runAt' = "listing" => runAt = "waiting" /\ next # None
        /\ events' = events \/ events' = <<>>
    <3>0. ~Running /\ runAt \in {"waiting", "leaving"}
      BY <1>4 DEF Waited
    <3>1. ~Running /\ UNCHANGED <<next, sessionID, over, shutdown>> /\ runAt \in {"waiting", "leaving"}
      <4>1. UNCHANGED <<next, sessionID, over, shutdown>>
        BY <1>4, Zenon DEF Waited
      <4> QED BY <3>0, <4>1
    <3>2. CASE runAt = "leaving"
      <4>1. next = None
        BY <3>2 DEF CsInv, Goroutines
      <4>2. runAt' = "ended" /\ events' = <<>>
        BY <1>4, <3>2, <4>1 DEF Waited
      <4> QED BY <3>1, <4>2
    <3>3. CASE runAt = "waiting" /\ next # None
      <4>1. runAt' = "listing" /\ events' = events
        BY <1>4, <3>3 DEF Waited
      <4> QED BY <3>1, <3>3, <4>1
    <3>4. CASE runAt = "waiting" /\ next = None
      <4>1. runAt' = "select" /\ events' = events
        BY <1>4, <3>4 DEF Waited
      <4> QED BY <3>1, <4>1
    <3> QED BY <3>1, <3>2, <3>3, <3>4
  <2>2. \/ recent' = <<>> /\ resetFor' = next
        \/ UNCHANGED <<recent, resetFor>> /\ runAt' # "listing"
    BY <1>4, <2>1 DEF Waited
  <2>3. RunTypes'
    BY <2>1 DEF CsInv, RunTypes
  <2>4. events' \in Seq(Event) /\ Len(events') =< EventBuffer
    <3>1. CASE events' = events
      BY <3>1 DEF CsInv, BusTypes
    <3>2. CASE events' = <<>>
      <4>1. <<>> \in Seq(Event) /\ Len(<<>>) =< EventBuffer
        BY NoneIn, ChatNumbers
      <4> QED BY <3>2, <4>1
    <3> QED BY <2>1, <3>1, <3>2
  <2>5. BusTypes'
    BY <1>1, <2>4 DEF CsInv, BusTypes
  <2>6. writer.at = "off"
    BY <2>1 DEF Running
  <2>7. Goroutines'
    BY <1>1, <2>1, <2>2, <2>6 DEF CsInv, Goroutines, Running
  <2>8. recent' \in Seq(Entry) /\ Len(recent') =< RecentKeep /\ resetFor' \in 0..MaxSessions
        /\ \A e \in ToSet(recent') : e.session = resetFor'
    <3>1. CASE recent' = <<>> /\ resetFor' = next
      BY <3>1, NoneIn, ChatNumbers DEF CsInv, RunTypes
    <3>2. CASE UNCHANGED <<recent, resetFor>>
      BY <3>2 DEF CsInv, PanelTypes, PanelSound
    <3> QED BY <2>2, <3>1, <3>2
  <2>9. PanelTypes' /\ PanelSound'
    BY <1>1, <2>8 DEF CsInv, PanelTypes, PanelSound, InHand, panelV
  <2> QED BY <1>2, <2>3, <2>5, <2>7, <2>9 DEF CsInv
<1>5. CASE NoChat
  <2>1. UNCHANGED <<engine, bus, sessionID, over, shutdown, chatBus>> /\ runAt' = "select" /\ next' = 0
    BY <1>5 DEF NoChat, None
  <2>2. PanelTypes' /\ PanelSound'
    BY <1>1, <2>1, PanelStays
  <2>3. BusTypes'
    BY <2>1 DEF CsInv, BusTypes, engine, bus
  <2>4. next' \in 0..MaxSessions
    BY <2>1, ChatNumbers
  <2>5. RunTypes'
    BY <2>1, <2>4 DEF CsInv, RunTypes
  <2>6. Goroutines'
    BY <1>1, <2>1 DEF CsInv, Goroutines, chatBus
  <2> QED BY <1>2, <2>2, <2>3, <2>5, <2>6 DEF CsInv
<1> QED BY <1>3, <1>4, <1>5

LEMMA LaunchKeeps == ASSUME CsInv, Launch PROVE CsInv'
<1>1. /\ runAt = "listing" /\ ~Running /\ next # None /\ resetFor = next /\ next \in Sessions
      /\ writer.at = "off"
  BY ChatNumbers DEF Launch, CsInv, Goroutines, RunTypes, Sessions, None, Running
<1>2. /\ UNCHANGED <<engine, bus, shutdown, input, batch, holding, books, chatBus>>
      /\ readers' \subseteq Accounts
      /\ writer' = [at |-> "on", session |-> next, msg |-> None]
      /\ sessionID' = next /\ over' = FALSE /\ runAt' = "select" /\ next' = 0
  BY DEF Launch, None
<1>3. writer = Idle /\ writer.msg = None /\ writer'.msg = None
  BY <1>1, <1>2 DEF CsInv, Goroutines, Idle
<1>4. BusTypes'
  BY <1>2 DEF CsInv, BusTypes, engine, bus
<1>5. next' \in 0..MaxSessions /\ sessionID' \in 0..MaxSessions /\ over' \in BOOLEAN /\ 0 \in 0..MaxMsgs
  <2>1. 0 \in 0..MaxSessions /\ 0 \in 0..MaxMsgs
    BY ChatNumbers
  <2> QED BY <1>2, <2>1 DEF CsInv, RunTypes
<1>6. RunTypes'
  BY <1>2, <1>5 DEF CsInv, RunTypes
<1>7. writer' \in WriterStates
  BY <1>2, <1>5 DEF WriterStates, None
<1>8. WayTypes'
  BY <1>2, <1>7 DEF CsInv, WayTypes, books
<1>9. PanelTypes' /\ PanelSound'
  BY <1>2, <1>3, PanelStays
<1>10. Goroutines'
  BY <1>1, <1>2 DEF Goroutines, None, chatBus
<1>11. ChannelsApart' /\ InOnePlace'
  <2>1. InHand = {} /\ InHand' = {} /\ Queued' = Queued
    BY <1>2, <1>3 DEF InHand, Queued
  <2>2. InOnePlace'
    BY <1>2, <2>1 DEF CsInv, InOnePlace, books
  <2> QED BY <1>2, <2>2 DEF CsInv, ChannelsApart, Distinct
<1>12. InTimeKept'
  BY <1>2, <1>3 DEF CsInv, InTimeKept, Idle, None, Sessions, books
<1> QED BY <1>4, <1>6, <1>8, <1>9, <1>10, <1>11, <1>12 DEF CsInv

-----------------------------------------------------------------------------
\* A channel loses its head, or gets a message that is in none.
LEMMA ChannelTaken ==
  ASSUME WayTypes, ChannelsApart, NEW s \in Sessions, input[s] # <<>>, NEW m, m = Head(input[s]),
         input' = [input EXCEPT ![s] = Tail(@)]
  PROVE  /\ m \in Msgs /\ m \in Queued /\ ChannelsApart' /\ Queued' = Queued \ {m}
         /\ input' \in [Sessions -> Seq(Msgs)] /\ \A t \in Sessions : Len(input'[t]) =< InputBuffer
         /\ \A t \in Sessions : ToSet(input'[t]) \subseteq ToSet(input[t])
<1>1. /\ input[s] \in Seq(Msgs) /\ input \in [Sessions -> Seq(Msgs)]
      /\ input'[s] = Tail(input[s]) /\ \A t \in Sessions \ {s} : input'[t] = input[t]
      /\ \A t \in Sessions : Distinct(input[t]) /\ Len(input[t]) =< InputBuffer
  BY DEF WayTypes, ChannelsApart
<1>2. /\ m \in Msgs /\ m \in ToSet(input[s]) /\ input'[s] \in Seq(Msgs)
      /\ Len(input'[s]) = Len(input[s]) - 1 /\ Len(input[s]) \in Nat
      /\ ToSet(input'[s]) \subseteq ToSet(input[s]) /\ ToSet(input[s]) \subseteq ToSet(input'[s]) \cup {m}
      /\ Distinct(input'[s]) /\ m \notin ToSet(input'[s])
  BY <1>1, HeadTaken
<1>3. input' \in [Sessions -> Seq(Msgs)]
  BY <1>1, <1>2
<1>4. \A t \in Sessions : Len(input'[t]) =< InputBuffer
  <2>1. Len(input'[s]) =< InputBuffer
    BY <1>1, <1>2, ChatNumbers
  <2> QED BY <1>1, <2>1
<1>5. \A t \in Sessions : ToSet(input'[t]) \subseteq ToSet(input[t]) /\ Distinct(input'[t])
  BY <1>1, <1>2
<1>6. ChannelsApart'
  BY <1>5 DEF ChannelsApart, Distinct
<1>7. \A t \in Sessions \ {s} : m \notin ToSet(input[t])
  BY <1>2 DEF ChannelsApart
<1>8. Queued' = Queued \ {m} /\ m \in Queued
  <2>1. ASSUME NEW y PROVE (\E t \in Sessions : y \in ToSet(input'[t])) <=>
                           y # m /\ \E t \in Sessions : y \in ToSet(input[t])
    BY <1>1, <1>2, <1>7
  <2> QED BY <1>2, <2>1 DEF Queued
<1> QED BY <1>2, <1>3, <1>4, <1>5, <1>6, <1>8

LEMMA ChannelGets ==
  ASSUME WayTypes, ChannelsApart, NEW s \in Sessions, NEW x \in Msgs, x \notin Queued,
         Len(input[s]) < InputBuffer, input' = [input EXCEPT ![s] = Append(@, x)]
  PROVE  /\ ChannelsApart' /\ Queued' = Queued \cup {x}
         /\ input' \in [Sessions -> Seq(Msgs)] /\ \A t \in Sessions : Len(input'[t]) =< InputBuffer
         /\ ToSet(input'[s]) = ToSet(input[s]) \cup {x}
         /\ \A t \in Sessions \ {s} : input'[t] = input[t]
<1>1. /\ input[s] \in Seq(Msgs) /\ input \in [Sessions -> Seq(Msgs)]
      /\ input'[s] = Append(input[s], x) /\ \A t \in Sessions \ {s} : input'[t] = input[t]
      /\ \A t \in Sessions : Distinct(input[t]) /\ Len(input[t]) =< InputBuffer
  BY DEF WayTypes, ChannelsApart
<1>2. \A t \in Sessions : x \notin ToSet(input[t])
  BY DEF Queued
<1>3. /\ input'[s] \in Seq(Msgs) /\ Len(input'[s]) = Len(input[s]) + 1 /\ Len(input[s]) \in Nat
      /\ ToSet(input'[s]) = ToSet(input[s]) \cup {x} /\ Distinct(input'[s])
  BY <1>1, <1>2, Appended
<1>4. input' \in [Sessions -> Seq(Msgs)]
  BY <1>1, <1>3
<1>5. \A t \in Sessions : Len(input'[t]) =< InputBuffer
  <2>1. Len(input'[s]) =< InputBuffer
    BY <1>3, ChatNumbers
  <2> QED BY <1>1, <2>1
<1>6. ChannelsApart'
  <2>1. \A t \in Sessions : Distinct(input'[t])
    BY <1>1, <1>3
  <2>2. ASSUME NEW t \in Sessions, NEW u \in Sessions, t # u
        PROVE  ToSet(input'[t]) \cap ToSet(input'[u]) = {}
    BY <1>1, <1>2, <1>3, <2>2 DEF ChannelsApart
  <2> QED BY <2>1, <2>2 DEF ChannelsApart, Distinct
<1>7. Queued' = Queued \cup {x}
  <2>1. ASSUME NEW y PROVE (\E t \in Sessions : y \in ToSet(input'[t])) <=>
                           y = x \/ \E t \in Sessions : y \in ToSet(input[t])
    BY <1>1, <1>3
  <2> QED BY <2>1 DEF Queued
<1> QED BY <1>1, <1>3, <1>4, <1>5, <1>6, <1>7

-----------------------------------------------------------------------------
\* The readers and the webhook: a message goes into a channel ...
LEMMA PutKeeps ==
  ASSUME CsInv, NEW s \in Sessions, Put(s), Len(input[s]) < InputBuffer, NextMessage,
         UNCHANGED <<writer, readers, batch, stored, counted, refused>>,
         holding' \in [Hooks -> -1..MaxSessions]
  PROVE  WayTypes' /\ ChannelsApart' /\ InOnePlace' /\ InTimeKept'
<1> USE DEF CsInv
<1>1. PICK x : x = arrived + 1
  OBVIOUS
<1>2. /\ x \in Msgs /\ arrived' = x /\ arrived' \in 0..MaxMsgs /\ x \notin 1..arrived
      /\ 1..arrived' = 1..arrived \cup {x}
  BY <1>1, ChatNumbers DEF NextMessage, WayTypes, Msgs
<1>3. x \notin Queued \cup InHand \cup ToSet(batch) \cup stored \cup counted \cup refused \cup inTime
  BY <1>2 DEF InOnePlace, InTimeKept
<1>4. input' = [input EXCEPT ![s] = Append(@, x)]
      /\ inTime' = IF Ending \/ writer.session # s THEN inTime ELSE inTime \cup {x}
  BY <1>1 DEF Put
<1>5. /\ ChannelsApart' /\ Queued' = Queued \cup {x}
      /\ input' \in [Sessions -> Seq(Msgs)] /\ \A t \in Sessions : Len(input'[t]) =< InputBuffer
      /\ ToSet(input'[s]) = ToSet(input[s]) \cup {x}
      /\ \A t \in Sessions \ {s} : input'[t] = input[t]
  <2>1. x \notin Queued
    BY <1>3
  <2> QED BY <1>2, <1>4, <2>1, ChannelGets
<1>6. inTime' \subseteq 1..arrived' /\ inTime' \subseteq Msgs
  BY <1>2, <1>4 DEF InTimeKept, WayTypes
<1>7. WayTypes'
  BY <1>2, <1>5, <1>6 DEF WayTypes
<1>8. InOnePlace'
  <2>1. InHand' = InHand /\ ToSet(batch)' = ToSet(batch)
    BY DEF InHand
  <2>2. /\ Queued' \cup InHand' \cup ToSet(batch)' \cup stored' \cup counted' \cup refused' = 1..arrived'
        /\ Queued' \cap (InHand' \cup ToSet(batch)' \cup stored' \cup counted' \cup refused') = {}
    BY <1>2, <1>3, <1>5, <2>1 DEF InOnePlace
  <2> QED BY <2>1, <2>2 DEF InOnePlace
<1>9. InTimeKept'
  <2>1. ASSUME NEW t \in Sessions, writer'.session # t PROVE ToSet(input'[t]) \cap inTime' = {}
    <3>1. ToSet(input[t]) \cap inTime = {} /\ x \notin ToSet(input[t])
      BY <1>3, <2>1 DEF InTimeKept, Queued
    <3>2. CASE t = s
      BY <1>3, <1>4, <1>5, <2>1, <3>1, <3>2
    <3>3. CASE t # s
      BY <1>4, <1>5, <3>1, <3>3
    <3> QED BY <3>2, <3>3
  <2> QED BY <1>6, <2>1 DEF InTimeKept
<1> QED BY <1>5, <1>7, <1>8, <1>9

\* ... or is discarded, with or without being counted.
LEMMA DropKeeps ==
  ASSUME CsInv, NextMessage, UNCHANGED <<writer, readers, input, batch, stored, inTime>>,
         \/ refused' = refused \cup {arrived + 1} /\ UNCHANGED counted
         \/ counted' = counted \cup {arrived + 1} /\ UNCHANGED refused,
         holding' \in [Hooks -> -1..MaxSessions]
  PROVE  WayTypes' /\ ChannelsApart' /\ InOnePlace' /\ InTimeKept'
<1> USE DEF CsInv
<1>1. PICK x : x = arrived + 1
  OBVIOUS
<1>2. /\ x \in Msgs /\ arrived' = x /\ arrived' \in 0..MaxMsgs /\ x \notin 1..arrived
      /\ 1..arrived' = 1..arrived \cup {x}
  BY <1>1, ChatNumbers DEF NextMessage, WayTypes, Msgs
<1>3. x \notin Queued \cup InHand \cup ToSet(batch) \cup stored \cup counted \cup refused \cup inTime
  BY <1>2 DEF InOnePlace, InTimeKept
<1>4. Queued' = Queued /\ InHand' = InHand /\ ToSet(batch)' = ToSet(batch)
  BY DEF Queued, InHand
<1>5. refused' \subseteq Msgs /\ counted' \subseteq Msgs
  BY <1>1, <1>2 DEF WayTypes
<1>6. WayTypes'
  BY <1>2, <1>5 DEF WayTypes
<1>7. InOnePlace'
  BY <1>1, <1>2, <1>3, <1>4 DEF InOnePlace
<1>8. ChannelsApart' /\ InTimeKept'
  BY <1>2 DEF ChannelsApart, InTimeKept, Distinct
<1> QED BY <1>6, <1>7, <1>8

LEMMA ArrivalKeeps ==
  ASSUME CsInv,
         \/ \E a \in Accounts : ReaderSends(a) \/ ReaderEnds(a)
         \/ \E h \in Hooks : IngestLooks(h) \/ IngestSends(h)
  PROVE  CsInv'
<1> USE DEF CsInv
<1>1. UNCHANGED <<engine, bus, runVars, writer, batch, stored, chatBus>>
  BY DEF ReaderSends, ReaderEnds, IngestLooks, IngestSends, books
<1>2. BusTypes' /\ RunTypes' /\ PanelTypes' /\ PanelSound'
  BY <1>1, RunStays, PanelStays
<1>3. readers' \subseteq readers
  BY DEF ReaderSends, ReaderEnds, IngestLooks, IngestSends
<1>4. Goroutines'
  BY <1>1, <1>3 DEF Goroutines, Running, runVars, chatBus
<1>5. ASSUME NEW a \in Accounts, ReaderSends(a)
      PROVE  WayTypes' /\ ChannelsApart' /\ InOnePlace' /\ InTimeKept'
  <2>1. writer.at # "off" /\ NextMessage /\ UNCHANGED <<readers, holding, counted>>
    BY <1>5 DEF ReaderSends
  <2>2. writer.session \in Sessions /\ holding' \in [Hooks -> -1..MaxSessions]
    BY <2>1 DEF Goroutines, WayTypes, WriterStates, Sessions, None
  <2>3. \/ Len(input[writer.session]) < InputBuffer /\ Put(writer.session) /\ UNCHANGED refused
        \/ refused' = refused \cup {arrived + 1} /\ UNCHANGED <<input, inTime>>
    BY <1>5 DEF ReaderSends
  <2>4. CASE Len(input[writer.session]) < InputBuffer /\ Put(writer.session) /\ UNCHANGED refused
    <3>1. PICK s \in Sessions : s = writer.session
      BY <2>2
    <3>2. Len(input[s]) < InputBuffer /\ Put(s)
      BY <2>4, <3>1
    <3> QED BY <1>1, <2>1, <2>2, <2>4, <3>2, PutKeeps
  <2>5. CASE refused' = refused \cup {arrived + 1} /\ UNCHANGED <<input, inTime>>
    BY <1>1, <2>1, <2>2, <2>5, DropKeeps
  <2> QED BY <2>3, <2>4, <2>5
<1>6. ASSUME NEW a \in Accounts, ReaderEnds(a)
      PROVE  WayTypes' /\ ChannelsApart' /\ InOnePlace' /\ InTimeKept'
  BY <1>3, <1>6 DEF ReaderEnds, WayTypes, ChannelsApart, Distinct, InOnePlace, InTimeKept, Queued,
                    InHand, books
<1>7. ASSUME NEW h \in Hooks, IngestLooks(h)
      PROVE  WayTypes' /\ ChannelsApart' /\ InOnePlace' /\ InTimeKept'
  <2>1. sessionID \in -1..MaxSessions
    BY ChatNumbers DEF RunTypes
  <2>2. holding' \in [Hooks -> -1..MaxSessions]
    BY <1>7, <2>1 DEF IngestLooks, WayTypes
  <2>3. UNCHANGED <<writer, readers, input, batch, books>>
    BY <1>7 DEF IngestLooks
  <2>4. WayTypes'
    BY <2>2, <2>3 DEF WayTypes, books
  <2>5. Queued' = Queued /\ InHand' = InHand /\ UNCHANGED <<stored, counted, refused, inTime, arrived>>
    BY <2>3 DEF Queued, InHand, books
  <2> QED BY <2>3, <2>4, <2>5 DEF ChannelsApart, Distinct, InOnePlace, InTimeKept
<1>8. ASSUME NEW h \in Hooks, IngestSends(h)
      PROVE  WayTypes' /\ ChannelsApart' /\ InOnePlace' /\ InTimeKept'
  <2>1. NextMessage /\ UNCHANGED <<readers, refused>> /\ holding[h] # -1
    BY <1>8 DEF IngestSends
  <2>2. -1 \in -1..MaxSessions
    BY ChatNumbers
  <2>3. holding' \in [Hooks -> -1..MaxSessions]
    BY <1>8, <2>2 DEF IngestSends, WayTypes
  <2>4. holding[h] \in -1..MaxSessions
    BY DEF WayTypes
  <2>5. \/ holding[h] # None /\ Len(input[holding[h]]) < InputBuffer /\ Put(holding[h]) /\ UNCHANGED counted
        \/ counted' = counted \cup {arrived + 1} /\ UNCHANGED <<input, inTime>>
    BY <1>8 DEF IngestSends
  <2>6. CASE holding[h] # None /\ Len(input[holding[h]]) < InputBuffer /\ Put(holding[h]) /\ UNCHANGED counted
    <3>1. holding[h] \in Sessions
      BY <2>1, <2>4, <2>6, ChatNumbers DEF Sessions, None
    <3> QED BY <1>1, <2>1, <2>3, <2>6, <3>1, PutKeeps
  <2>7. CASE counted' = counted \cup {arrived + 1} /\ UNCHANGED <<input, inTime>>
    BY <1>1, <2>1, <2>3, <2>7, DropKeeps
  <2> QED BY <2>5, <2>6, <2>7
<1> QED BY <1>2, <1>4, <1>5, <1>6, <1>7, <1>8

-----------------------------------------------------------------------------
\* The writer takes a message of its session ...
LEMMA Windowed ==
  ASSUME PanelTypes, NEW e \in Entry, recent' = Kept(Append(recent, e)),
         \A r \in ToSet(recent) : r.session = resetFor, e.session = resetFor
  PROVE  /\ recent' \in Seq(Entry) /\ Len(recent') =< RecentKeep
         /\ \A r \in ToSet(recent') : r.session = resetFor
<1> DEFINE q == Append(recent, e)
<1>1. /\ q \in Seq(Entry) /\ Len(q) = Len(recent) + 1 /\ Len(recent) \in Nat /\ Len(recent) =< RecentKeep
      /\ ToSet(q) = ToSet(recent) \cup {e}
  BY Appended DEF PanelTypes
<1> HIDE DEF q
<1>2. q # <<>>
  BY <1>1, NoneIn
<1>3. /\ Tail(q) \in Seq(Entry) /\ Len(Tail(q)) = Len(q) - 1 /\ ToSet(Tail(q)) \subseteq ToSet(q)
  BY <1>1, <1>2, HeadTaken
<1>4. recent' = IF Len(q) > RecentKeep THEN Tail(q) ELSE q
  BY DEF Kept, q
<1>5. CASE Len(q) > RecentKeep
  <2>1. recent' = Tail(q)
    BY <1>4, <1>5
  <2>2. Len(Tail(q)) =< RecentKeep
    BY <1>1, <1>3
  <2> QED BY <1>1, <1>3, <2>1, <2>2
<1>6. CASE ~(Len(q) > RecentKeep)
  <2>1. recent' = q
    BY <1>4, <1>6
  <2>2. Len(q) =< RecentKeep
    BY <1>1, <1>6, ChatNumbers
  <2> QED BY <1>1, <2>1, <2>2
<1> QED BY <1>5, <1>6

LEMMA TakesKeeps == ASSUME CsInv, WriterTakes PROVE CsInv'
<1> USE DEF CsInv
<1>1. PICK s \in Sessions : s = writer.session
  BY DEF WriterTakes, Goroutines, WayTypes, WriterStates, Sessions, None
<1>2. PICK m : m = Head(input[s])
  OBVIOUS
<1>3. /\ writer.at \in {"on", "draining"} /\ input[s] # <<>>
      /\ input' = [input EXCEPT ![s] = Tail(@)]
      /\ recent' = Kept(Append(recent, [msg |-> m, session |-> s]))
      /\ owed' = IF panel.at \in {"off", "lagging"} THEN owed ELSE owed \cup {m}
      /\ writer' = [writer EXCEPT !.msg = m, !.at = IF @ = "on" THEN "delivering" ELSE "lastDelivering"]
      /\ inTime' = inTime \ {m}
      /\ UNCHANGED <<engine, bus, runVars, readers, batch, holding, stored, counted, refused, arrived,
                     resetFor, panel>>
  BY <1>1, <1>2 DEF WriterTakes
<1>4. /\ m \in Msgs /\ m \in Queued /\ ChannelsApart' /\ Queued' = Queued \ {m}
      /\ input' \in [Sessions -> Seq(Msgs)] /\ \A t \in Sessions : Len(input'[t]) =< InputBuffer
      /\ \A t \in Sessions : ToSet(input'[t]) \subseteq ToSet(input[t])
  BY <1>2, <1>3, ChannelTaken
<1>5. /\ writer \in WriterStates /\ writer.msg = None
      /\ writer' \in WriterStates /\ writer'.msg = m /\ writer'.session = s
      /\ writer'.at \in {"delivering", "lastDelivering"} /\ m # None
  <2>1. writer \in WriterStates /\ writer.msg = None
    BY <1>3 DEF WayTypes, Goroutines
  <2>2. m \in 0..MaxMsgs /\ m # None
    BY <1>4, ChatNumbers DEF Msgs, None
  <2> QED BY <1>1, <1>3, <2>1, <2>2 DEF WriterStates
<1>6. BusTypes' /\ RunTypes'
  BY <1>3, RunStays
<1>7. WayTypes'
  <2>1. inTime' \subseteq Msgs
    BY <1>3 DEF WayTypes
  <2> QED BY <1>3, <1>4, <1>5, <2>1 DEF WayTypes
<1>8. InOnePlace'
  <2>1. InHand = {} /\ InHand' = {m} /\ ToSet(batch)' = ToSet(batch)
    BY <1>3, <1>5 DEF InHand
  <2> QED BY <1>3, <1>4, <2>1 DEF InOnePlace
<1>9. InTimeKept'
  BY <1>1, <1>3, <1>4, <1>5 DEF InTimeKept
<1>10. Goroutines'
  <2>1. writer.session = resetFor
    BY <1>3 DEF Goroutines
  <2>2. s # None
    BY <1>1, ChatNumbers DEF Sessions, None
  <2>3. runAt # "listing"
    BY <1>3 DEF Goroutines, Running
  <2> QED BY <1>1, <1>3, <1>5, <2>1, <2>2, <2>3 DEF Goroutines, runVars
<1>11. /\ recent' \in Seq(Entry) /\ Len(recent') =< RecentKeep
       /\ \A r \in ToSet(recent') : r.session = resetFor
  <2>1. PICK e : e = [msg |-> m, session |-> s]
    OBVIOUS
  <2>2. e \in Entry /\ e.session = resetFor
    BY <1>1, <1>3, <1>4, <2>1 DEF Entry, Goroutines
  <2>3. recent' = Kept(Append(recent, e))
    BY <1>3, <2>1
  <2>4. \A r \in ToSet(recent) : r.session = resetFor
    BY DEF PanelSound
  <2> QED BY <2>2, <2>3, <2>4, Windowed
<1>12. PanelTypes'
  BY <1>3, <1>4, <1>11 DEF PanelTypes
<1>13. PanelSound'
  <2>1. InHand = {} /\ InHand' = {m}
    BY <1>5 DEF InHand
  <2>2. panel.at \in {"off", "lagging"} => owed' = {}
    BY <1>3 DEF PanelSound
  <2>3. panel.at \in {"joining", "streaming"} => owed' \subseteq ToSet(panel.ch) \cup InHand'
    BY <1>3, <2>1 DEF PanelSound
  <2> QED BY <1>3, <1>11, <2>2, <2>3 DEF PanelSound
<1> QED BY <1>4, <1>6, <1>7, <1>8, <1>9, <1>10, <1>12, <1>13

\* ... and delivers it: to the panel, and to the batch.
LEMMA BatchSaved ==
  ASSUME NEW msgs, msgs \subseteq Msgs, stored \subseteq Msgs, counted \subseteq Msgs, Save(msgs)
  PROVE  /\ stored' \subseteq Msgs /\ counted' \subseteq Msgs
         /\ \/ stored' = stored \cup msgs /\ counted' = counted
            \/ counted' = counted \cup msgs /\ stored' = stored
BY DEF Save

LEMMA DeliversKeeps == ASSUME CsInv, WriterDelivers PROVE CsInv'
<1> USE DEF CsInv
<1>1. PICK m \in Msgs : m = writer.msg
  <2>1. writer.msg # None /\ writer.msg \in 0..MaxMsgs
    BY DEF WriterDelivers, Goroutines, WayTypes, WriterStates
  <2> QED BY <2>1, ChatNumbers DEF Msgs, None
<1>2. /\ writer.at \in {"delivering", "lastDelivering"}
      /\ writer' = [writer EXCEPT !.msg = None, !.at = IF @ = "delivering" THEN "on" ELSE "draining"]
      /\ UNCHANGED <<engine, bus, runVars, readers, input, holding, refused, inTime, arrived,
                     recent, resetFor>>
  BY DEF WriterDelivers
<1>3. /\ writer' \in WriterStates /\ writer'.msg = None /\ writer'.session = writer.session
      /\ writer'.at \in {"on", "draining"}
  <2>1. writer \in WriterStates /\ None \in 0..MaxMsgs
    BY ChatNumbers DEF WayTypes, None
  <2> QED BY <1>2, <2>1 DEF WriterStates
<1>4. PICK lote : lote = Append(batch, m)
  OBVIOUS
<1>5. /\ lote \in Seq(Msgs) /\ Len(lote) = Len(batch) + 1 /\ Len(batch) \in Nat /\ Len(batch) < BatchSize
      /\ ToSet(lote) = ToSet(batch) \cup {m}
  BY <1>4, Appended DEF WayTypes
<1>6. \/ Len(lote) = BatchSize /\ batch' = <<>> /\ Save(ToSet(lote))
      \/ Len(lote) # BatchSize /\ batch' = lote /\ UNCHANGED <<stored, counted>>
  BY <1>1, <1>4 DEF WriterDelivers
<1>7. stored \subseteq Msgs /\ counted \subseteq Msgs /\ ToSet(lote) \subseteq Msgs
  <2>1. DOMAIN lote = 1..Len(lote) /\ \A i \in 1..Len(lote) : lote[i] \in Msgs
    BY <1>5, LenProperties
  <2> QED BY <2>1 DEF WayTypes, ToSet
<1>8. /\ batch' \in Seq(Msgs) /\ Len(batch') < BatchSize
      /\ stored' \subseteq Msgs /\ counted' \subseteq Msgs
      /\ \/ ToSet(batch') = {} /\ stored' = stored \cup ToSet(batch) \cup {m} /\ counted' = counted
         \/ ToSet(batch') = {} /\ counted' = counted \cup ToSet(batch) \cup {m} /\ stored' = stored
         \/ ToSet(batch') = ToSet(batch) \cup {m} /\ stored' = stored /\ counted' = counted
  <2>1. CASE Len(lote) = BatchSize /\ batch' = <<>> /\ Save(ToSet(lote))
    <3>1. /\ stored' \subseteq Msgs /\ counted' \subseteq Msgs
          /\ \/ stored' = stored \cup ToSet(lote) /\ counted' = counted
             \/ counted' = counted \cup ToSet(lote) /\ stored' = stored
      BY <1>7, <2>1, BatchSaved
    <3>2. batch' \in Seq(Msgs) /\ Len(batch') < BatchSize /\ ToSet(batch') = {}
      BY <2>1, NoneIn, ChatNumbers
    <3> QED BY <1>5, <3>1, <3>2
  <2>2. CASE Len(lote) # BatchSize /\ batch' = lote /\ UNCHANGED <<stored, counted>>
    <3>1. Len(lote) < BatchSize
      BY <1>5, <2>2, ChatNumbers
    <3> QED BY <1>5, <1>7, <2>2, <3>1
  <2> QED BY <1>6, <2>1, <2>2
<1>9. BusTypes' /\ RunTypes'
  BY <1>2, RunStays
<1>10. WayTypes'
  BY <1>2, <1>3, <1>8 DEF WayTypes
<1>11. Queued' = Queued /\ InHand = {m} /\ InHand' = {} /\ m # None
  BY <1>1, <1>2, <1>3, ChatNumbers DEF Queued, InHand, Msgs, None
<1>12. InOnePlace'
  <2>1. /\ refused' = refused /\ arrived' = arrived
    BY <1>2
  <2> QED BY <1>8, <1>11, <2>1 DEF InOnePlace
<1>13. ChannelsApart' /\ InTimeKept'
  BY <1>2, <1>3 DEF ChannelsApart, InTimeKept, Distinct
<1>14. Goroutines'
  <2>1. runAt # "listing"
    BY <1>2 DEF Goroutines, Running
  <2> QED BY <1>2, <1>3, <2>1 DEF Goroutines, runVars
<1>15. \/ panel.at \in {"off", "lagging"} /\ UNCHANGED panelV
       \/ /\ panel.at \in {"joining", "streaming"} /\ panel' = [panel EXCEPT !.ch = Append(@, m)]
          /\ UNCHANGED owed
       \/ panel' = [PanelGone EXCEPT !.at = "lagging"] /\ owed' = {}
  BY <1>1 DEF WriterDelivers, PanelTypes, PanelStates
<1>16. panel' \in PanelStates /\ owed' \subseteq Msgs
       /\ (panel'.at \in {"off", "lagging"} => owed' = {})
       /\ (panel'.at \in {"joining", "streaming"} => owed' \subseteq ToSet(panel'.ch))
  <2>1. CASE panel.at \in {"off", "lagging"} /\ UNCHANGED panelV
    BY <2>1 DEF PanelTypes, PanelSound, panelV
  <2>2. CASE /\ panel.at \in {"joining", "streaming"} /\ panel' = [panel EXCEPT !.ch = Append(@, m)]
             /\ UNCHANGED owed
    <3>1. panel \in PanelStates /\ panel.ch \in Seq(Msgs)
      BY DEF PanelTypes, PanelStates
    <3>2. Append(panel.ch, m) \in Seq(Msgs) /\ ToSet(Append(panel.ch, m)) = ToSet(panel.ch) \cup {m}
      BY <3>1, Appended
    <3>3. panel' \in PanelStates /\ panel'.ch = Append(panel.ch, m) /\ panel'.at = panel.at
      BY <2>2, <3>1, <3>2 DEF PanelStates
    <3>4. owed' \subseteq ToSet(panel.ch) \cup {m} /\ owed' \subseteq Msgs
      BY <1>11, <2>2 DEF PanelSound, PanelTypes
    <3> QED BY <2>2, <3>2, <3>3, <3>4
  <2>3. CASE panel' = [PanelGone EXCEPT !.at = "lagging"] /\ owed' = {}
    <3>1. panel' = [at |-> "lagging", ch |-> <<>>]
      BY <2>3 DEF PanelGone
    <3>2. <<>> \in Seq(Msgs)
      BY NoneIn
    <3>3. panel' \in PanelStates /\ panel'.at = "lagging"
      BY <3>1, <3>2 DEF PanelStates
    <3> QED BY <2>3, <3>3
  <2> QED BY <1>15, <2>1, <2>2, <2>3
<1>17. PanelTypes' /\ PanelSound'
  BY <1>2, <1>11, <1>16 DEF PanelTypes, PanelSound
<1> QED BY <1>9, <1>10, <1>12, <1>13, <1>14, <1>17

\* The writer saves what it has: when its ticker fires, and at the end.
LEMMA SavesKeep ==
  ASSUME CsInv, writer.at \in {"on", "draining"}, Save(ToSet(batch)), batch' = <<>>,
         \/ writer' = writer
         \/ writer' = Idle /\ writer.at = "draining" /\ input[writer.session] = <<>>,
         UNCHANGED <<engine, bus, runVars, readers, input, holding, refused, inTime, arrived, chatBus>>
  PROVE  CsInv'
<1> USE DEF CsInv
<1>1. writer \in WriterStates /\ writer.msg = None /\ writer'.msg = None /\ writer' \in WriterStates
  BY ChatNumbers DEF WayTypes, Goroutines, WriterStates, Idle, None
<1>2. ToSet(batch) \subseteq Msgs /\ stored \subseteq Msgs /\ counted \subseteq Msgs
  <2>1. DOMAIN batch = 1..Len(batch) /\ \A i \in 1..Len(batch) : batch[i] \in Msgs
    BY LenProperties DEF WayTypes
  <2> QED BY <2>1 DEF WayTypes, ToSet
<1>3. /\ stored' \subseteq Msgs /\ counted' \subseteq Msgs
      /\ \/ stored' = stored \cup ToSet(batch) /\ counted' = counted
         \/ counted' = counted \cup ToSet(batch) /\ stored' = stored
  BY <1>2, BatchSaved
<1>4. batch' \in Seq(Msgs) /\ Len(batch') < BatchSize /\ ToSet(batch') = {}
  BY NoneIn, ChatNumbers
<1>5. BusTypes' /\ RunTypes' /\ PanelTypes' /\ PanelSound'
  BY <1>1, RunStays, PanelStays
<1>6. WayTypes'
  BY <1>1, <1>3, <1>4 DEF WayTypes
<1>7. InOnePlace'
  <2>1. Queued' = Queued /\ InHand = {} /\ InHand' = {}
    BY <1>1 DEF Queued, InHand
  <2> QED BY <1>3, <1>4, <2>1 DEF InOnePlace
<1>8. ChannelsApart'
  BY DEF ChannelsApart, Distinct
<1>9. InTimeKept'
  <2>1. input[writer.session] = <<>> => ToSet(input[writer.session]) = {}
    BY NoneIn
  <2> QED BY <2>1 DEF InTimeKept
<1>10. Goroutines'
  <2>1. runAt # "listing"
    BY DEF Goroutines, Running
  <2> QED BY <1>1, <2>1 DEF Goroutines, Idle, runVars, chatBus
<1> QED BY <1>5, <1>6, <1>7, <1>8, <1>9, <1>10

LEMMA WriterKeeps == ASSUME CsInv, WriterStep PROVE CsInv'
<1>1. CASE WriterTick
  BY <1>1, SavesKeep DEF WriterTick
<1>2. CASE WriterDrains
  <2>1. CASE writer.at = "draining" /\ input[writer.session] = <<>>
             /\ Save(ToSet(batch)) /\ batch' = <<>> /\ writer' = Idle
    BY <1>2, <2>1, SavesKeep DEF WriterDrains
  <2>2. CASE writer.at = "on" /\ writer' = [writer EXCEPT !.at = "draining"]
             /\ UNCHANGED <<batch, stored, counted>>
    <3> USE DEF CsInv
    <3>1. UNCHANGED <<engine, bus, runVars, readers, input, holding, refused, inTime, arrived, chatBus>>
      BY <1>2 DEF WriterDrains
    <3>2. /\ writer \in WriterStates /\ writer' \in WriterStates /\ writer'.at = "draining"
          /\ writer'.msg = writer.msg /\ writer'.session = writer.session
      BY <2>2 DEF WayTypes, WriterStates
    <3>3. BusTypes' /\ RunTypes' /\ PanelTypes' /\ PanelSound'
      BY <3>1, <3>2, RunStays, PanelStays
    <3>4. WayTypes'
      BY <2>2, <3>1, <3>2 DEF WayTypes
    <3>5. Queued' = Queued /\ InHand' = InHand
      BY <3>1, <3>2 DEF Queued, InHand
    <3>6. ChannelsApart' /\ InOnePlace' /\ InTimeKept'
      BY <2>2, <3>1, <3>2, <3>5 DEF ChannelsApart, Distinct, InOnePlace, InTimeKept
    <3>7. Goroutines'
      BY <2>2, <3>1, <3>2 DEF Goroutines, Running, runVars, chatBus
    <3> QED BY <3>3, <3>4, <3>6, <3>7
  <2> QED BY <1>2, <2>1, <2>2 DEF WriterDrains
<1> QED BY <1>1, <1>2, TakesKeeps, DeliversKeeps DEF WriterStep

-----------------------------------------------------------------------------
\* The panel joins, is sent what there is, and leaves.
LEMMA PanelKeeps == ASSUME CsInv, PanelStep PROVE CsInv'
<1> USE DEF CsInv
<1>1. UNCHANGED <<engine, bus, runVars, writer, readers, input, batch, holding, books, recent, resetFor>>
  BY DEF PanelStep, PanelJoins, PanelGetsRecent, PanelGetsNext, PanelLeaves
<1>2. BusTypes' /\ RunTypes' /\ WayTypes' /\ ChannelsApart' /\ InOnePlace' /\ InTimeKept'
  BY <1>1, MessagesStay, RunStays
<1>3. Goroutines'
  BY <1>1 DEF Goroutines, Running, runVars
<1>4. panel \in PanelStates /\ panel.ch \in Seq(Msgs) /\ owed \subseteq Msgs /\ <<>> \in Seq(Msgs)
  BY NoneIn DEF PanelTypes, PanelStates
<1>5. /\ panel' \in PanelStates /\ owed' \subseteq Msgs
      /\ panel'.at \in {"off", "lagging"} => owed' = {}
      /\ panel'.at \in {"joining", "streaming"} => owed' \subseteq ToSet(panel'.ch) \cup InHand
  <2>1. CASE PanelJoins
    BY <1>4, <2>1 DEF PanelJoins, PanelStates, PanelSound
  <2>2. CASE PanelGetsRecent
    BY <1>4, <2>2 DEF PanelGetsRecent, PanelStates, PanelSound
  <2>3. CASE PanelGetsNext
    <3>1. Tail(panel.ch) \in Seq(Msgs) /\ ToSet(panel.ch) \subseteq ToSet(Tail(panel.ch)) \cup {Head(panel.ch)}
      BY <1>4, <2>3, HeadTaken DEF PanelGetsNext
    <3>2. /\ panel.at = "streaming" /\ panel' = [panel EXCEPT !.ch = Tail(@)]
          /\ owed' = owed \ {Head(panel.ch)}
      BY <2>3 DEF PanelGetsNext
    <3>3. panel' \in PanelStates /\ panel'.at = "streaming" /\ panel'.ch = Tail(panel.ch)
      BY <1>4, <3>1, <3>2 DEF PanelStates
    <3> QED BY <1>4, <3>1, <3>2, <3>3 DEF PanelSound
  <2>4. CASE PanelLeaves
    BY <1>4, <2>4 DEF PanelLeaves, PanelGone, PanelStates
  <2> QED BY <2>1, <2>2, <2>3, <2>4 DEF PanelStep
<1>6. InHand' = InHand
  BY <1>1 DEF InHand
<1>7. PanelTypes' /\ PanelSound'
  BY <1>1, <1>5, <1>6 DEF PanelTypes, PanelSound
<1> QED BY <1>2, <1>3, <1>7

LEMMA ChatStepKeeps == ASSUME CsInv, [ChatNext]_chatVars PROVE CsInv'
<1>1. CASE UNCHANGED chatVars
  <2>1. UNCHANGED <<engine, bus, runVars, writer, readers, input, batch, holding, books, chatBus>>
    BY <1>1 DEF chatVars
  <2>2. Goroutines'
    BY <2>1 DEF CsInv, Goroutines, Running, runVars, chatBus
  <2> QED BY <2>1, <2>2, MessagesStay, PanelStays, RunStays DEF CsInv
<1>2. CASE RunStep
  BY <1>2, RunKeeps, LaunchKeeps DEF RunStep
<1> QED BY <1>1, <1>2, EngineKeeps, WriterKeeps, PanelKeeps, ArrivalKeeps DEF ChatNext

THEOREM ChatHolds == ChatSpec => []CsInv
BY ChatInitInv, ChatStepKeeps, PTL DEF ChatSpec

LEMMA ChatImplied == CsInv => NothingLost /\ PanelSeesTheSession
<1> SUFFICES ASSUME CsInv PROVE NothingLost /\ PanelSeesTheSession
  OBVIOUS
<1> USE DEF CsInv
<1>1. ChatTypeOK
  <2>1. panel.at \in {"off", "joining", "streaming", "lagging"}
    BY DEF PanelTypes, PanelStates
  <2> QED BY <2>1 DEF ChatTypeOK, BusTypes, RunTypes, WayTypes, PanelTypes, WriterStates
<1>2. ASSUME NEW places, places = <<Queued, InHand, ToSet(batch), stored, counted, refused>>
      PROVE  /\ UNION ToSet(places) = 1..arrived
             /\ \A i, j \in DOMAIN places : i # j => places[i] \cap places[j] = {}
  <2>1. /\ DOMAIN places = 1..6
        /\ places[1] = Queued /\ places[2] = InHand /\ places[3] = ToSet(batch)
        /\ places[4] = stored /\ places[5] = counted /\ places[6] = refused
    BY <1>2
  <2>2. 1..6 = {1, 2, 3, 4, 5, 6}
    OBVIOUS
  <2>3. ToSet(places) = {Queued, InHand, ToSet(batch), stored, counted, refused}
    <3>1. ToSet(places) = {places[i] : i \in {1, 2, 3, 4, 5, 6}}
      BY <2>1, <2>2 DEF ToSet
    <3> QED BY <2>1, <3>1
  <2>4. UNION ToSet(places) = 1..arrived
    BY <2>3 DEF InOnePlace
  <2>5. ASSUME NEW i \in {1, 2, 3, 4, 5, 6}, NEW j \in {1, 2, 3, 4, 5, 6}, i < j
        PROVE  places[i] \cap places[j] = {}
    BY <2>1, <2>5 DEF InOnePlace
  <2>6. ASSUME NEW i \in {1, 2, 3, 4, 5, 6}, NEW j \in {1, 2, 3, 4, 5, 6}, i # j
        PROVE  places[i] \cap places[j] = {}
    <3>1. i < j \/ j < i
      BY <2>6
    <3> QED BY <2>5, <3>1
  <2> QED BY <2>1, <2>2, <2>4, <2>6
<1>3. NothingLost
  BY <1>1, <1>2 DEF NothingLost, InTimeKept
<1>4. PanelSeesTheSession
  BY DEF PanelSeesTheSession, PanelSound
<1> QED BY <1>3, <1>4

THEOREM NoMessageLost == ChatSpec => []NothingLost
<1>1. CsInv => NothingLost
  BY ChatImplied
<1> QED BY <1>1, ChatHolds, PTL

THEOREM PanelsSeeTheirSession == ChatSpec => []PanelSeesTheSession
<1>1. CsInv => PanelSeesTheSession
  BY ChatImplied
<1> QED BY <1>1, ChatHolds, PTL

-----------------------------------------------------------------------------
\* The channel of frames.

\* The frames between the decoder and the publisher form one unbroken chain:
\* each pending frame follows its neighbour, the first follows what the decoder
\* took last, and while the channel is synced the newest of them is the newest
\* frame published, so that whatever comes next follows it too.
NewestIsPublished ==
  ~closed /\ synced => IF pending = <<>> THEN last = NoFrame \/ last.n = published
                       ELSE pending[Len(pending)].n = published

Chain == /\ \A i \in 1..(Len(pending) - 1) : Follows(pending[i], pending[i + 1])
         /\ pending # <<>> /\ last # NoFrame => Follows(last, pending[1])
         /\ NewestIsPublished

-----------------------------------------------------------------------------
\* The variables of the channel keep their types, however long the stream
\* (queue.go: the fields items, dropping and closed of the deque).
THEOREM ChannelTypes == Spec => []TypeOK
<1> <<>> \in Seq(Frame) /\ 0 \in Nat
  BY EmptySeq
<1>1. Init => TypeOK
  BY DEF Init, TypeOK
<1>2. TypeOK /\ [Next]_chan => TypeOK'
  <2> SUFFICES ASSUME TypeOK, [Next]_chan PROVE TypeOK'
    OBVIOUS
  <2> USE DEF TypeOK
  <2> published + 1 \in Nat
    OBVIOUS
  <2>1. ASSUME NEW key \in BOOLEAN, Accept(key) PROVE TypeOK'
    <3>1. NextFrame(key) \in Frame
      BY DEF NextFrame, Frame
    <3>2. Append(pending, NextFrame(key)) \in Seq(Frame)
      BY <3>1
    <3>3. QED
      BY <2>1, <3>2 DEF Accept
  <2>2. ASSUME NEW key \in BOOLEAN, Refuse(key) PROVE TypeOK'
    BY <2>2 DEF Refuse
  <2>3. ASSUME NEW key \in BOOLEAN, Overflow(key) PROVE TypeOK'
    BY <2>3 DEF Overflow
  <2>4. CASE Lose
    BY <2>4 DEF Lose
  <2>5. CASE Take
    <3>1. Head(pending) \in Frame /\ Tail(pending) \in Seq(Frame)
      BY <2>5 DEF Take
    <3>2. QED
      BY <2>5, <3>1 DEF Take
  <2>6. CASE Close
    BY <2>6 DEF Close
  <2>7. CASE UNCHANGED chan
    BY <2>7 DEF chan
  <2>8. QED
    BY <2>1, <2>2, <2>3, <2>4, <2>5, <2>6, <2>7 DEF Next
<1>3. QED
  BY <1>1, <1>2, PTL DEF Spec

\* The chain is preserved by every operation of the channel: joining keeps it
\* whole because a frame joins only behind its predecessor or as a keyframe, and
\* losses remove everything pending at once (queue.go push, dropQueuedVideo, pop).
LEMMA ChainInductive ==
  ASSUME TypeOK, Chain, [Next]_chan
  PROVE  Chain'
<1> USE DEF TypeOK, Frame, NoFrame, Follows
<1>1. ASSUME NEW key \in BOOLEAN, Accept(key) PROVE Chain'
  <2> DEFINE f == NextFrame(key)
  <2>1. /\ pending' = Append(pending, f) /\ Len(pending') = Len(pending) + 1
        /\ pending'[Len(pending) + 1] = f
        /\ \A i \in 1..Len(pending) : pending'[i] = pending[i]
        /\ f.n = published + 1 /\ f.key = key
        /\ published' = published + 1 /\ last' = last /\ closed' = closed
        /\ ~closed /\ (synced \/ key)
    BY <1>1 DEF Accept, NextFrame
  <2> HIDE DEF f
  <2>2. ASSUME NEW i \in 1..(Len(pending') - 1)
        PROVE  Follows(pending'[i], pending'[i + 1])
    <3>1. CASE i < Len(pending)
      <4>1. i \in 1..(Len(pending) - 1) /\ i \in 1..Len(pending)
            /\ i + 1 \in 1..Len(pending)
        BY <3>1
      <4>2. QED
        BY <4>1, <2>1 DEF Chain
    <3>2. CASE i = Len(pending)
      <4>1. pending # <<>> /\ i \in 1..Len(pending)
        BY <2>2, <3>2
      <4>2. key \/ pending[Len(pending)].n = published
        BY <4>1, <2>1 DEF Chain, NewestIsPublished
      <4>3. QED
        BY <4>1, <4>2, <3>2, <2>1
    <3>3. QED
      BY <2>1, <2>2, <3>1, <3>2
  <2>3. pending' # <<>> /\ last' # NoFrame => Follows(last', pending'[1])
    <3>1. CASE pending = <<>>
      BY <3>1, <2>1 DEF Chain, NewestIsPublished
    <3>2. CASE pending # <<>>
      BY <3>2, <2>1 DEF Chain
    <3>3. QED
      BY <3>1, <3>2
  <2>4. NewestIsPublished'
    BY <2>1 DEF NewestIsPublished
  <2>5. QED
    BY <2>2, <2>3, <2>4 DEF Chain
<1>2. ASSUME NEW key \in BOOLEAN, Refuse(key) PROVE Chain'
  BY <1>2 DEF Refuse, Chain, NewestIsPublished
<1>3. ASSUME NEW key \in BOOLEAN, Overflow(key) PROVE Chain'
  BY <1>3 DEF Overflow, Chain, NewestIsPublished
<1>4. CASE Lose
  BY <1>4 DEF Lose, Chain, NewestIsPublished
<1>5. CASE Take
  <2>1. /\ pending # <<>> /\ last' = pending[1] /\ pending' = Tail(pending)
        /\ Len(pending') = Len(pending) - 1
        /\ \A i \in 1..Len(pending') : pending'[i] = pending[i + 1]
        /\ UNCHANGED <<published, synced, closed>>
    BY <1>5 DEF Take
  <2>2. \A i \in 1..(Len(pending') - 1) : Follows(pending'[i], pending'[i + 1])
    BY <2>1 DEF Chain
  <2>3. pending' # <<>> => Follows(last', pending'[1])
    <3>1. pending' # <<>> => 1 \in 1..(Len(pending) - 1) /\ pending'[1] = pending[2]
      BY <2>1
    <3>2. QED
      BY <3>1, <2>1 DEF Chain
  <2>4. NewestIsPublished'
    <3>1. CASE pending' = <<>>
      <4>1. Len(pending) = 1
        BY <3>1, <2>1
      <4>2. QED
        BY <4>1, <3>1, <2>1 DEF Chain, NewestIsPublished
    <3>2. CASE pending' # <<>>
      BY <3>2, <2>1 DEF Chain, NewestIsPublished
    <3>3. QED
      BY <3>1, <3>2
  <2>5. QED
    BY <2>2, <2>3, <2>4 DEF Chain
<1>6. CASE Close
  BY <1>6 DEF Close, Chain, NewestIsPublished
<1>7. CASE UNCHANGED chan
  BY <1>7 DEF chan, Chain, NewestIsPublished
<1>8. QED
  BY <1>1, <1>2, <1>3, <1>4, <1>5, <1>6, <1>7 DEF Next

\* Whatever is lost, every frame the sink takes can be decoded right after the
\* one it took before (queue.go push: only a keyframe resumes the video).
THEOREM Decodable == Spec => DecodableDelivery
<1>1. Init => Chain
  BY DEF Init, Chain, NewestIsPublished
<1>2. TypeOK /\ Chain /\ [Next]_chan => Chain'
  BY ChainInductive
<1>3. TypeOK /\ Chain /\ [Next]_chan
      => [last' # last => last = NoFrame \/ Follows(last, last')]_chan
  <2> SUFFICES ASSUME TypeOK, Chain, Next, last' # last, last # NoFrame
               PROVE  Follows(last, last')
    BY DEF chan
  <2>1. Take
    BY DEF Next, Accept, Refuse, Overflow, Lose, Close
  <2>2. QED
    BY <2>1 DEF Take, Chain, TypeOK
<1>4. QED
  BY <1>1, <1>2, <1>3, ChannelTypes, PTL DEF Spec, DecodableDelivery

-----------------------------------------------------------------------------
\* What the tap is still to be given is not among what has been given.
FramesIn   == frames - (IF hand.kind = "frame" THEN 1 ELSE 0)
VersionsIn == version - (IF hand.kind = "header" THEN 1 ELSE 0)

\* Its records are what they are written to be, and whoever has a configuration to send
\* it is configured.
TapShape ==
  /\ tap = [state |-> tap.state, ch |-> tap.ch, waiting |-> tap.waiting, lost |-> tap.lost]
  /\ viewer = [at |-> viewer.at, config |-> viewer.config, last |-> viewer.last, since |-> viewer.since]
  /\ viewer.at \in {"away", "tapped"} => viewer.config = 0
  /\ viewer.at = "watching" => viewer.config # 0

\* The publisher has in its hand the last message it observed, and the preamble keeps the
\* last header or none.
HandHolds ==
  /\ cached \in {0, version}
  /\ hand # NoMessage => /\ ingest = "live" /\ cached # 0
                         /\ hand.header = version /\ hand.kind \in {"header", "frame"}
                         /\ hand.kind = "frame" => hand.n = frames

\* The channel s is what a decoder with the last frame l, the configuration c and the
\* losses o can be given: its frames follow one another, and each of them finds its own
\* header, or an older one where its own was lost, or a newer one where it was
\* published before the configuration was read.
Fits(c, m, o, since) == \/ c = m.header
                        \/ c < m.header /\ m.header \in o
                        \/ c > m.header /\ m.n <= since
FollowOn(s, l) == \A i \in DOMAIN s : s[i].kind = "frame" => s[i].key \/ s[i].n = Seen(s, "frame", l, i) + 1
Configured(s, c, o, since) ==
  \A i \in DOMAIN s : s[i].kind = "frame" /\ Seen(s, "header", c, i) # 0 =>
                        Fits(Seen(s, "header", c, i), s[i], o, since)
FromPublisher(s) == \A i \in DOMAIN s : /\ s[i].header <= version
                                        /\ s[i].kind = "frame" => s[i].n <= frames

\* The next frame of an open tap that is not waiting follows the last of the channel, and
\* the last header of the channel is the newest but for those the tap has lost.
Continues ==
  tap.state = "open" =>
    /\ ~tap.waiting => FrameBefore(Len(tap.ch) + 1) = FramesIn
    /\ ConfigAt(Len(tap.ch) + 1) # 0 =>
         /\ ConfigAt(Len(tap.ch) + 1) <= version
         /\ ConfigAt(Len(tap.ch) + 1) < VersionsIn => VersionsIn \in tap.lost

PlayInv == /\ TapTypeOK /\ TapShape /\ HandHolds
           /\ FollowOn(tap.ch, viewer.last.n)
           /\ Configured(tap.ch, viewer.config, tap.lost, viewer.since)
           /\ FromPublisher(tap.ch) /\ Continues

-----------------------------------------------------------------------------
\* Of the messages before the i-th, Seen finds the last of its kind.
LEMMA SeenIs ==
  ASSUME NEW s, NEW kind, NEW d, NEW i \in Nat \ {0}
  PROVE  \/ (\A j \in 1..(i - 1) : s[j].kind # kind) /\ Seen(s, kind, d, i) = d
         \/ \E k \in 1..(i - 1) : /\ s[k].kind = kind /\ Seen(s, kind, d, i) = Mark(s[k])
                                  /\ \A j \in 1..(i - 1) : s[j].kind = kind => j <= k
<1> DEFINE T == {j \in 1..(i - 1) : s[j].kind = kind}
<1>1. Seen(s, kind, d, i) = IF T = {} THEN d ELSE Mark(s[Max(T)])
  BY DEF Seen
<1>2. CASE T = {}
  BY <1>1, <1>2
<1>3. CASE T # {}
  <2>1. IsFiniteSet(T)
    <3>1. IsFiniteSet(1..(i - 1)) /\ T \subseteq 1..(i - 1)
      BY FS_Interval
    <3> QED BY <3>1, FS_Subset
  <2>2. T \in SUBSET Int
    OBVIOUS
  <2>3. Max(T) \in T /\ \A y \in T : y =< Max(T)
    BY <2>1, <2>2, <1>3, GreatestOfSome
  <2>4. PICK k \in T : k = Max(T)
    BY <2>3
  <2> QED BY <1>1, <1>3, <2>3, <2>4
<1> QED BY <1>2, <1>3

\* What Seen finds depends on nothing else.
LEMMA SeenBy ==
  ASSUME NEW s, NEW kind, NEW d, NEW i \in Nat \ {0}
  PROVE  /\ (\A j \in 1..(i - 1) : s[j].kind # kind) => Seen(s, kind, d, i) = d
         /\ \A k \in 1..(i - 1) :
              s[k].kind = kind /\ (\A j \in 1..(i - 1) : s[j].kind = kind => j <= k)
                => Seen(s, kind, d, i) = Mark(s[k])
<1>1. CASE (\A j \in 1..(i - 1) : s[j].kind # kind) /\ Seen(s, kind, d, i) = d
  BY <1>1
<1>2. CASE \E k \in 1..(i - 1) : /\ s[k].kind = kind /\ Seen(s, kind, d, i) = Mark(s[k])
                                 /\ \A j \in 1..(i - 1) : s[j].kind = kind => j <= k
  <2>1. PICK k \in 1..(i - 1) : /\ s[k].kind = kind /\ Seen(s, kind, d, i) = Mark(s[k])
                                /\ \A j \in 1..(i - 1) : s[j].kind = kind => j <= k
    BY <1>2
  <2>2. ASSUME NEW l \in 1..(i - 1), s[l].kind = kind, \A j \in 1..(i - 1) : s[j].kind = kind => j <= l
        PROVE  l = k
    <3>1. l <= k /\ k <= l /\ l \in Nat /\ k \in Nat
      BY <2>1, <2>2
    <3> QED BY <3>1
  <2> QED BY <2>1, <2>2
<1> QED BY <1>1, <1>2, SeenIs

\* A message at the end of the channel changes nothing for those before it.
LEMMA SeenAppend ==
  ASSUME NEW s \in Seq(TapMessages), NEW m \in TapMessages, NEW kind, NEW d
  PROVE  /\ \A i \in 1..(Len(s) + 1) : Seen(Append(s, m), kind, d, i) = Seen(s, kind, d, i)
         /\ Seen(Append(s, m), kind, d, Len(s) + 2)
              = IF m.kind = kind THEN Mark(m) ELSE Seen(s, kind, d, Len(s) + 1)
<1> DEFINE t == Append(s, m)
<1>1. /\ Len(s) \in Nat /\ \A j \in 1..Len(s) : t[j] = s[j]
      /\ t[Len(s) + 1] = m
  OBVIOUS
<1> HIDE DEF t
<1>2. ASSUME NEW i \in 1..(Len(s) + 1) PROVE Seen(t, kind, d, i) = Seen(s, kind, d, i)
  <2>1. i \in Nat \ {0} /\ \A j \in 1..(i - 1) : t[j] = s[j]
    BY <1>1
  <2>2. CASE (\A j \in 1..(i - 1) : s[j].kind # kind) /\ Seen(s, kind, d, i) = d
    <3>1. \A j \in 1..(i - 1) : t[j].kind # kind
      BY <2>1, <2>2
    <3>2. Seen(t, kind, d, i) = d
      BY <2>1, <3>1, SeenBy
    <3> QED BY <2>2, <3>2
  <2>3. ASSUME NEW k \in 1..(i - 1), s[k].kind = kind, Seen(s, kind, d, i) = Mark(s[k]),
               \A j \in 1..(i - 1) : s[j].kind = kind => j <= k
        PROVE  Seen(t, kind, d, i) = Seen(s, kind, d, i)
    <3>1. t[k] = s[k] /\ \A j \in 1..(i - 1) : t[j].kind = kind => j <= k
      BY <2>1, <2>3
    <3>2. Seen(t, kind, d, i) = Mark(t[k])
      BY <2>1, <2>3, <3>1, SeenBy
    <3> QED BY <2>3, <3>1, <3>2
  <2> QED BY <2>1, <2>2, <2>3, SeenIs
<1>3. Seen(t, kind, d, Len(s) + 2) = IF m.kind = kind THEN Mark(m) ELSE Seen(s, kind, d, Len(s) + 1)
  <2> DEFINE e == Len(s) + 2
  <2>1. e \in Nat \ {0} /\ 1..(e - 1) = 1..(Len(s) + 1)
    BY <1>1
  <2>2. PICK l \in Nat : l = Len(s)
    BY <1>1
  <2>3. CASE m.kind = kind
    <3>1. l + 1 \in 1..(e - 1) /\ t[l + 1].kind = kind /\ \A j \in 1..(e - 1) : j <= l + 1
      BY <1>1, <2>1, <2>2, <2>3
    <3>2. Seen(t, kind, d, e) = Mark(t[l + 1])
      BY <2>1, <3>1, SeenBy
    <3> QED BY <1>1, <2>2, <2>3, <3>2
  <2>4. CASE m.kind # kind
    <3>0. l + 1 \in Nat \ {0} /\ (l + 1) - 1 = l /\ e = l + 2
      BY <2>2
    <3>1. CASE (\A j \in 1..((l + 1) - 1) : s[j].kind # kind) /\ Seen(s, kind, d, l + 1) = d
      <4>1. \A j \in 1..(e - 1) : t[j].kind # kind
        <5> SUFFICES ASSUME NEW j \in 1..(e - 1) PROVE t[j].kind # kind
          OBVIOUS
        <5>1. CASE j = l + 1
          BY <1>1, <2>2, <2>4, <5>1
        <5>2. CASE j # l + 1
          <6>1. j \in 1..l
            BY <3>0, <5>2
          <6> QED BY <1>1, <2>2, <3>0, <3>1, <6>1
        <5> QED BY <5>1, <5>2
      <4>2. Seen(t, kind, d, e) = d
        BY <2>1, <4>1, SeenBy
      <4> QED BY <2>2, <2>4, <3>1, <4>2
    <3>2. ASSUME NEW k \in 1..((l + 1) - 1), s[k].kind = kind, Seen(s, kind, d, l + 1) = Mark(s[k]),
                 \A j \in 1..((l + 1) - 1) : s[j].kind = kind => j <= k
          PROVE  Seen(t, kind, d, e) = Seen(s, kind, d, l + 1)
      <4>1. k \in 1..l /\ k \in 1..(e - 1) /\ t[k] = s[k]
        BY <1>1, <2>2, <3>0
      <4>2. ASSUME NEW j \in 1..(e - 1), t[j].kind = kind PROVE j <= k
        <5>1. j # l + 1
          BY <1>1, <2>2, <2>4, <4>2
        <5>2. j \in 1..l
          BY <3>0, <5>1
        <5> QED BY <1>1, <2>2, <3>0, <3>2, <4>2, <5>2
      <4>3. Seen(t, kind, d, e) = Mark(t[k])
        BY <2>1, <3>2, <4>1, <4>2, SeenBy
      <4> QED BY <3>2, <4>1, <4>3
    <3>3. Seen(t, kind, d, e) = Seen(s, kind, d, l + 1)
      BY <3>0, <3>1, <3>2, SeenIs, <2>2, <2>4
    <3> QED BY <2>2, <2>4, <3>3
  <2> QED BY <2>3, <2>4
<1> QED BY <1>2, <1>3 DEF t

\* The first of the channel, once it has been sent on, is what its follower finds.
LEMMA SeenTail ==
  ASSUME NEW s \in Seq(TapMessages), s # <<>>, NEW kind, NEW d
  PROVE  \A i \in 1..Len(s) :
           Seen(Tail(s), kind, IF Head(s).kind = kind THEN Mark(Head(s)) ELSE d, i) = Seen(s, kind, d, i + 1)
<1> SUFFICES ASSUME NEW i \in 1..Len(s)
             PROVE  Seen(Tail(s), kind, IF Head(s).kind = kind THEN Mark(Head(s)) ELSE d, i)
                      = Seen(s, kind, d, i + 1)
  OBVIOUS
<1> DEFINE t == Tail(s)
           x == IF Head(s).kind = kind THEN Mark(Head(s)) ELSE d
<1>1. /\ Len(s) \in Nat /\ i \in Nat \ {0} /\ i + 1 \in Nat \ {0} /\ (i + 1) - 1 = i
      /\ \A j \in 1..(i - 1) : t[j] = s[j + 1]
      /\ Head(s) = s[1]
  OBVIOUS
<1> HIDE DEF t
<1>2. CASE (\A j \in 1..((i + 1) - 1) : s[j].kind # kind) /\ Seen(s, kind, d, i + 1) = d
  <2>1. x = d
    BY <1>1, <1>2
  <2>2. \A j \in 1..(i - 1) : t[j].kind # kind
    BY <1>1, <1>2
  <2>3. Seen(t, kind, x, i) = x
    BY <1>1, <2>2, SeenBy
  <2> QED BY <1>2, <2>1, <2>3 DEF t
<1>3. ASSUME NEW k \in 1..((i + 1) - 1), s[k].kind = kind, Seen(s, kind, d, i + 1) = Mark(s[k]),
             \A j \in 1..((i + 1) - 1) : s[j].kind = kind => j <= k
      PROVE  Seen(t, kind, x, i) = Mark(s[k])
  <2>1. CASE k = 1
    <3>1. x = Mark(s[k])
      BY <1>1, <1>3, <2>1
    <3>2. \A j \in 1..(i - 1) : t[j].kind # kind
      <4> SUFFICES ASSUME NEW j \in 1..(i - 1), t[j].kind = kind PROVE FALSE
        OBVIOUS
      <4>1. s[j + 1].kind = kind /\ j + 1 \in 1..((i + 1) - 1)
        BY <1>1
      <4>2. j + 1 <= k
        BY <1>3, <4>1
      <4> QED BY <2>1, <4>2
    <3>3. Seen(t, kind, x, i) = x
      BY <1>1, <3>2, SeenBy
    <3> QED BY <3>1, <3>3
  <2>2. CASE k # 1
    <3>1. PICK l \in 1..(i - 1) : k = l + 1
      <4>1. k - 1 \in 1..(i - 1) /\ k = (k - 1) + 1
        BY <1>1, <2>2
      <4> QED BY <4>1
    <3>2. t[l] = s[k] /\ t[l].kind = kind
      BY <1>1, <1>3, <3>1
    <3>3. ASSUME NEW j \in 1..(i - 1), t[j].kind = kind PROVE j <= l
      <4>1. s[j + 1].kind = kind /\ j + 1 \in 1..((i + 1) - 1)
        BY <1>1, <3>3
      <4>2. j + 1 <= k
        BY <1>3, <4>1
      <4> QED BY <3>1, <4>2
    <3>4. t[l].kind = kind /\ \A j \in 1..(i - 1) : t[j].kind = kind => j <= l
      BY <3>2, <3>3
    <3>5. Seen(t, kind, x, i) = Mark(t[l])
      BY <3>1, <3>4, SeenBy
    <3> QED BY <3>2, <3>5
  <2> QED BY <2>1, <2>2
<1>4. Seen(t, kind, x, i) = Seen(s, kind, d, i + 1)
  <2>1. CASE (\A j \in 1..((i + 1) - 1) : s[j].kind # kind) /\ Seen(s, kind, d, i + 1) = d
    BY <1>2, <2>1 DEF t
  <2>2. CASE \E k \in 1..((i + 1) - 1) :
               /\ s[k].kind = kind /\ Seen(s, kind, d, i + 1) = Mark(s[k])
               /\ \A j \in 1..((i + 1) - 1) : s[j].kind = kind => j <= k
    BY <1>3, <2>2
  <2> QED BY <1>1, <2>1, <2>2, SeenIs
<1> QED BY <1>4 DEF t

\* Another configuration at the decoder matters until the first header.
LEMMA SeenFirst ==
  ASSUME NEW s, NEW kind, NEW d, NEW e, NEW i \in Nat \ {0}
  PROVE  \/ Seen(s, kind, d, i) = d /\ Seen(s, kind, e, i) = e
         \/ Seen(s, kind, d, i) = Seen(s, kind, e, i)
<1>1. CASE \A j \in 1..(i - 1) : s[j].kind # kind
  BY <1>1, SeenBy
<1>2. ASSUME NEW k \in 1..(i - 1), s[k].kind = kind, \A j \in 1..(i - 1) : s[j].kind = kind => j <= k
      PROVE  Seen(s, kind, d, i) = Seen(s, kind, e, i)
  <2>1. Seen(s, kind, d, i) = Mark(s[k]) /\ Seen(s, kind, e, i) = Mark(s[k])
    BY <1>2, SeenBy
  <2> QED BY <2>1
<1> QED BY <1>1, <1>2, SeenIs

-----------------------------------------------------------------------------
\* Nothing has been published and nobody looks.
LEMMA PlayInitInv == TapInit => PlayInv
<1> SUFFICES ASSUME TapInit PROVE PlayInv
  OBVIOUS
<1> USE DEF TapInit, NoTap, NoViewer
<1>1. 0 \in 0..TapHeaders /\ 0 \in 0..TapFrames /\ TapRoom \in Nat
  BY TapConstants
<1>2. tap.ch = <<>> /\ DOMAIN tap.ch = {} /\ Len(tap.ch) = 0 /\ tap.ch \in Seq(TapMessages)
  OBVIOUS
<1>3. TapTypeOK
  BY <1>1, <1>2 DEF TapTypeOK
<1>4. TapShape /\ HandHolds
  BY DEF TapShape, HandHolds
<1>5. FollowOn(tap.ch, viewer.last.n) /\ Configured(tap.ch, viewer.config, tap.lost, viewer.since) /\ FromPublisher(tap.ch)
  BY <1>2 DEF FollowOn, Configured, FromPublisher
<1>6. Continues
  BY DEF Continues
<1> QED BY <1>3, <1>4, <1>5, <1>6 DEF PlayInv

\* The session goes from one place to another; its taps may close.
LEMMA IngestKeeps ==
  ASSUME PlayInv, GoesLive \/ ClosesTaps \/ ForgetsPreamble \/ GoesOff
  PROVE  PlayInv'
<1>1. /\ UNCHANGED <<version, frames, hand, viewer>> /\ cached' \in {0, cached}
      /\ ingest' \in {"off", "live", "tapsClosed", "forgotten"} /\ hand = NoMessage
      /\ tap' = tap \/ tap' = [tap EXCEPT !.state = "closed"]
  BY DEF PlayInv, HandHolds, GoesLive, ClosesTaps, ForgetsPreamble, GoesOff
<1>2. /\ tap' = [state |-> tap'.state, ch |-> tap'.ch, waiting |-> tap'.waiting, lost |-> tap'.lost]
      /\ tap'.ch = tap.ch /\ tap'.waiting = tap.waiting /\ tap'.lost = tap.lost
      /\ tap'.state \in {tap.state, "closed"}
  BY <1>1 DEF PlayInv, TapShape
<1>3. TapTypeOK'
  BY <1>1, <1>2, TapConstants DEF PlayInv, TapTypeOK
<1>4. TapShape' /\ HandHolds'
  BY <1>1, <1>2 DEF PlayInv, TapShape, HandHolds
<1>5. /\ FollowOn(tap.ch, viewer.last.n)' /\ FromPublisher(tap.ch)'
      /\ Configured(tap.ch, viewer.config, tap.lost, viewer.since)'
  <2>1. FollowOn(tap'.ch, viewer'.last.n) /\ Configured(tap'.ch, viewer'.config, tap'.lost, viewer'.since)
    BY <1>1, <1>2 DEF PlayInv
  <2>2. FromPublisher(tap.ch)'
    BY <1>1, <1>2 DEF PlayInv, FromPublisher
  <2> QED BY <2>1, <2>2 DEF FollowOn, Configured
<1>6. Continues'
  <2>1. FramesIn' = FramesIn /\ VersionsIn' = VersionsIn
    BY <1>1 DEF FramesIn, VersionsIn
  <2>2. \A i : FrameBefore(i)' = FrameBefore(i) /\ ConfigAt(i)' = ConfigAt(i)
    BY <1>1, <1>2 DEF FrameBefore, ConfigAt, Seen
  <2> QED BY <1>1, <1>2, <2>1, <2>2 DEF PlayInv, Continues
<1> QED BY <1>3, <1>4, <1>5, <1>6 DEF PlayInv

\* What is observed is not in any tap yet.
LEMMA ObservesKeeps == ASSUME PlayInv, ObservesHeader \/ ObservesFrame PROVE PlayInv'
<1> USE DEF PlayInv
<1>1. UNCHANGED <<ingest, tap, viewer>> /\ ingest = "live" /\ hand = NoMessage
  BY DEF ObservesHeader, ObservesFrame
<1>2. /\ version \in Nat /\ frames \in Nat /\ TapHeaders \in Nat /\ TapFrames \in Nat
      /\ version =< TapHeaders /\ frames =< TapFrames
  BY TapConstants DEF TapTypeOK
<1>3. /\ version' \in 0..TapHeaders /\ frames' \in 0..TapFrames /\ version =< version' /\ frames =< frames'
      /\ FramesIn' = FramesIn /\ VersionsIn' = VersionsIn
      /\ hand' \in TapMessages /\ HandHolds' /\ cached' \in 0..TapHeaders
  <2>1. CASE ObservesHeader
    <3>1. hand' = [kind |-> "header", key |-> FALSE, n |-> 0, header |-> version + 1]
      BY <2>1 DEF ObservesHeader, NoMessage
    <3>2. /\ version' = version + 1 /\ cached' = version + 1 /\ frames' = frames
          /\ version + 1 \in 1..TapHeaders /\ version + 1 \in 0..TapHeaders /\ 0 \in 0..TapFrames
      BY <1>2, <2>1 DEF ObservesHeader
    <3>3. hand' \in TapMessages
      BY <3>1, <3>2 DEF TapMessages
    <3>4. HandHolds'
      BY <1>1, <1>2, <3>1, <3>2 DEF HandHolds
    <3>5. FramesIn' = FramesIn /\ VersionsIn' = VersionsIn
      BY <1>1, <1>2, <3>1, <3>2 DEF FramesIn, VersionsIn, NoMessage
    <3> QED BY <1>2, <3>2, <3>3, <3>4, <3>5
  <2>2. CASE ObservesFrame
    <3>1. PICK key \in BOOLEAN : hand' = [kind |-> "frame", key |-> key, n |-> frames + 1, header |-> cached]
      BY <2>2 DEF ObservesFrame
    <3>2. /\ version' = version /\ cached' = cached /\ frames' = frames + 1 /\ cached # 0
          /\ frames + 1 \in 0..TapFrames
      BY <1>2, <2>2 DEF ObservesFrame
    <3>3. cached = version /\ cached \in 1..TapHeaders
      BY <1>2, <3>2 DEF HandHolds
    <3>4. hand' \in TapMessages
      BY <3>1, <3>2, <3>3 DEF TapMessages
    <3>5. HandHolds'
      BY <1>1, <3>1, <3>2, <3>3 DEF HandHolds
    <3>6. FramesIn' = FramesIn /\ VersionsIn' = VersionsIn
      BY <1>1, <1>2, <3>1, <3>2 DEF FramesIn, VersionsIn, NoMessage
    <3> QED BY <1>2, <3>2, <3>3, <3>4, <3>5, <3>6
  <2> QED BY <2>1, <2>2
<1>4. TapTypeOK' /\ TapShape'
  BY <1>1, <1>3 DEF TapTypeOK, TapShape
<1>5. /\ FollowOn(tap.ch, viewer.last.n)'
      /\ Configured(tap.ch, viewer.config, tap.lost, viewer.since)'
  BY <1>1 DEF FollowOn, Configured, Seen
<1>6. FromPublisher(tap.ch)'
  <2>1. \A i \in DOMAIN tap.ch : tap.ch[i] \in TapMessages /\ tap.ch[i].n \in Nat /\ tap.ch[i].header \in Nat
    <3>1. \A i \in DOMAIN tap.ch : tap.ch[i] \in TapMessages
      BY DEF TapTypeOK
    <3> QED BY <3>1, TapConstants DEF TapMessages
  <2>2. version' \in Nat /\ frames' \in Nat
    BY <1>2, <1>3
  <2> QED BY <1>1, <1>2, <1>3, <2>1, <2>2 DEF FromPublisher
<1>7. Continues'
  <2>1. \A i : FrameBefore(i)' = FrameBefore(i) /\ ConfigAt(i)' = ConfigAt(i)
    BY <1>1 DEF FrameBefore, ConfigAt, Seen
  <2>2. ConfigAt(Len(tap.ch) + 1) \in Nat
    <3>1. \A i \in DOMAIN tap.ch : tap.ch[i] \in TapMessages /\ Mark(tap.ch[i]) \in Nat
      <4>1. \A i \in DOMAIN tap.ch : tap.ch[i] \in TapMessages
        BY DEF TapTypeOK
      <4> QED BY <4>1, TapConstants DEF TapMessages, Mark
    <3>2. viewer.config \in Nat /\ Len(tap.ch) \in Nat /\ Len(tap.ch) + 1 \in Nat \ {0}
          /\ (Len(tap.ch) + 1) - 1 = Len(tap.ch)
      BY DEF TapTypeOK
    <3> QED BY <3>1, <3>2, SeenIs DEF ConfigAt
  <2>3. version' \in Nat
    BY <1>2, <1>3
  <2> QED BY <1>1, <1>2, <1>3, <2>1, <2>2, <2>3 DEF Continues
<1> QED BY <1>3, <1>4, <1>5, <1>6, <1>7

\* A viewer comes or goes, with a tap of its own.
LEMMA ViewerComesKeeps == ASSUME PlayInv, UNCHANGED Publishing, Opens \/ Releases PROVE PlayInv'
<1>1. /\ tap'.ch = <<>> /\ tap'.lost = {} /\ tap'.state \in {"open", "none"}
      /\ tap'.waiting \in BOOLEAN /\ (tap'.state = "open" => tap'.waiting = TRUE)
      /\ tap' = [state |-> tap'.state, ch |-> tap'.ch, waiting |-> tap'.waiting, lost |-> tap'.lost]
      /\ viewer'.at \in {"away", "tapped"} /\ viewer'.config = 0 /\ viewer'.last = NoMessage /\ viewer'.since = 0
      /\ viewer' = [at |-> viewer'.at, config |-> viewer'.config, last |-> viewer'.last, since |-> viewer'.since]
  <2>1. CASE Opens
    <3>1. /\ tap' = [state |-> "open", ch |-> <<>>, waiting |-> TRUE, lost |-> {}]
          /\ viewer' = [at |-> "tapped", config |-> 0, last |-> NoMessage, since |-> 0]
      BY <2>1 DEF Opens, NoTap, NoViewer
    <3> QED BY <3>1
  <2>2. CASE Releases
    <3>1. /\ tap' = [state |-> "none", ch |-> <<>>, waiting |-> FALSE, lost |-> {}]
          /\ viewer' = [at |-> "away", config |-> 0, last |-> NoMessage, since |-> 0]
      BY <2>2 DEF Releases, NoTap, NoViewer
    <3> QED BY <3>1
  <2> QED BY <2>1, <2>2
<1>2. DOMAIN tap'.ch = {} /\ Len(tap'.ch) = 0 /\ tap'.ch \in Seq(TapMessages)
  BY <1>1
<1>3. 0 \in 0..TapHeaders /\ 0 \in 0..TapFrames /\ TapRoom \in Nat
  BY TapConstants
<1>4. TapTypeOK'
  BY <1>1, <1>2, <1>3 DEF PlayInv, TapTypeOK, Publishing
<1>5. TapShape' /\ HandHolds'
  BY <1>1 DEF PlayInv, TapShape, HandHolds, Publishing
<1>6. /\ FollowOn(tap.ch, viewer.last.n)' /\ FromPublisher(tap.ch)'
      /\ Configured(tap.ch, viewer.config, tap.lost, viewer.since)'
  BY <1>2 DEF FollowOn, Configured, FromPublisher
<1>7. Continues'
  <2>1. ConfigAt(Len(tap.ch) + 1)' = 0
    <3>1. Seen(tap'.ch, "header", 0, 1) = 0
      BY SeenBy
    <3> QED BY <1>1, <1>2, <3>1 DEF ConfigAt, Seen
  <2> QED BY <1>1, <2>1 DEF Continues
<1> QED BY <1>4, <1>5, <1>6, <1>7 DEF PlayInv

\* The numbers of the messages of a channel, and what is found of them.
LEMMA SeenTypes ==
  ASSUME NEW s \in Seq(TapMessages), NEW d \in Nat
  PROVE  /\ \A i \in DOMAIN s : /\ s[i] \in TapMessages /\ s[i].n \in Nat /\ s[i].header \in Nat \ {0}
                                /\ s[i].key \in BOOLEAN
         /\ \A i \in 1..(Len(s) + 1) : /\ Seen(s, "frame", d, i) \in Nat /\ Seen(s, "header", d, i) \in Nat
<1>1. ASSUME NEW i \in DOMAIN s
      PROVE  /\ s[i] \in TapMessages /\ s[i].n \in Nat /\ s[i].header \in Nat \ {0} /\ s[i].key \in BOOLEAN
             /\ Mark(s[i]) \in Nat
  <2>1. s[i] \in TapMessages
    OBVIOUS
  <2> QED BY <2>1, TapConstants DEF TapMessages, Mark
<1>2. ASSUME NEW i \in 1..(Len(s) + 1), NEW kind PROVE Seen(s, kind, d, i) \in Nat
  <2>1. i \in Nat \ {0} /\ 1..(i - 1) \subseteq DOMAIN s
    OBVIOUS
  <2> QED BY <1>1, <2>1, SeenIs
<1> QED BY <1>1, <1>2

\* The message in hand is given to the tap: it is queued, or dropped and waited for.
LEMMA TapDeliversKeeps == ASSUME PlayInv, Delivers PROVE PlayInv'
<1> USE DEF PlayInv
<1>1. hand \in TapMessages /\ hand # NoMessage /\ hand' = NoMessage
      /\ UNCHANGED <<ingest, version, frames, cached, viewer>>
  BY DEF Delivers, TapTypeOK
<1>2. /\ version \in Nat /\ frames \in Nat /\ hand.header = version /\ hand.kind \in {"header", "frame"}
      /\ hand.kind = "frame" => hand.n = frames
      /\ hand.n \in Nat /\ hand.header \in 1..TapHeaders /\ hand.key \in BOOLEAN
      /\ viewer.last.n \in Nat /\ viewer.config \in Nat
  <2>1. hand.n \in Nat /\ hand.header \in 1..TapHeaders /\ hand.key \in BOOLEAN
    BY <1>1, TapConstants DEF TapMessages
  <2>2. viewer.last.n \in Nat
    BY TapConstants DEF TapTypeOK, TapMessages, NoMessage
  <2> QED BY <1>1, <2>1, <2>2, TapConstants DEF HandHolds, TapTypeOK
<1>3. /\ FramesIn' = frames /\ VersionsIn' = version
      /\ FramesIn = IF hand.kind = "frame" THEN frames - 1 ELSE frames
      /\ VersionsIn = IF hand.kind = "header" THEN version - 1 ELSE version
  BY <1>1, <1>2 DEF FramesIn, VersionsIn, NoMessage
<1>4. HandHolds'
  BY <1>1 DEF HandHolds
<1> DEFINE s == tap.ch
           n == Len(tap.ch)
<1>5. s \in Seq(TapMessages) /\ n \in Nat /\ tap.lost \subseteq 1..TapHeaders /\ n =< TapRoom
  BY DEF TapTypeOK
<1>6. /\ \A i \in DOMAIN s : /\ s[i].n \in Nat /\ s[i].header \in Nat \ {0}
      /\ \A i \in 1..(n + 1) : FrameBefore(i) \in Nat /\ ConfigAt(i) \in Nat
  BY <1>2, <1>5, SeenTypes DEF FrameBefore, ConfigAt
<1>7. CASE tap' = tap /\ (tap.state # "open" \/ (tap.waiting /\ hand.kind = "frame"))
  <2>1. TapTypeOK' /\ TapShape'
    BY <1>1, <1>7 DEF TapTypeOK, TapShape
  <2>2. FollowOn(s, viewer.last.n)' /\ Configured(s, viewer.config, tap.lost, viewer.since)'
    BY <1>1, <1>7
  <2>3. FromPublisher(s)'
    BY <1>1, <1>7 DEF FromPublisher
  <2>4. Continues'
    <3>1. FrameBefore(n + 1)' = FrameBefore(n + 1) /\ ConfigAt(n + 1)' = ConfigAt(n + 1)
      BY <1>1, <1>7 DEF FrameBefore, ConfigAt
    <3>2. CASE tap.state # "open"
      BY <1>7, <3>2 DEF Continues
    <3>3. CASE tap.state = "open" /\ tap.waiting /\ hand.kind = "frame"
      <4>1. VersionsIn' = VersionsIn
        BY <1>3, <3>3
      <4> QED BY <1>1, <1>7, <3>1, <3>3, <4>1 DEF Continues
    <3> QED BY <1>7, <3>2, <3>3
  <2> QED BY <1>4, <2>1, <2>2, <2>3, <2>4
<1>8. CASE tap.state = "open" /\ tap' = Drops(tap, hand)
  <2> DEFINE o == Lost(tap, hand)
  <2>1. o \subseteq 1..TapHeaders /\ tap.lost \subseteq o /\ (hand.kind = "header" => version \in o)
    BY <1>2, <1>5 DEF Lost
  <2>2. tap' = [state |-> "open", ch |-> s, waiting |-> TRUE, lost |-> o]
    BY <1>8 DEF Drops, TapShape
  <2> HIDE DEF o
  <2>3. TapTypeOK' /\ TapShape'
    BY <1>1, <1>5, <2>1, <2>2 DEF TapTypeOK, TapShape
  <2>4. FollowOn(s, viewer.last.n)'
    BY <1>1, <2>2
  <2>5. Configured(s, viewer.config, tap.lost, viewer.since)'
    <3>1. Configured(s, viewer.config, o, viewer.since)
      BY <2>1 DEF Configured, Fits
    <3> QED BY <1>1, <2>2, <3>1
  <2>6. FromPublisher(s)'
    BY <1>1, <2>2 DEF FromPublisher
  <2>7. Continues'
    <3>1. ConfigAt(n + 1)' = ConfigAt(n + 1)
      BY <1>1, <2>2 DEF ConfigAt
    <3>2. ConfigAt(n + 1) # 0 => /\ ConfigAt(n + 1) =< version
                                 /\ ConfigAt(n + 1) < version => version \in o
      <4>1. CASE hand.kind = "header"
        BY <1>8, <2>1, <4>1 DEF Continues
      <4>2. CASE hand.kind # "header"
        BY <1>3, <1>8, <2>1, <4>2 DEF Continues
      <4> QED BY <4>1, <4>2
    <3>3. tap'.waiting /\ tap'.ch = s /\ tap'.lost = o
      BY <2>2
    <3> QED BY <1>1, <1>3, <3>1, <3>2, <3>3 DEF Continues
  <2> QED BY <1>4, <2>3, <2>4, <2>5, <2>6, <2>7
<1>9. CASE tap.state = "open" /\ tap' = Queues(tap, hand) /\ Passes(tap, hand) /\ ~Full(tap)
  <2> DEFINE t == Append(s, hand)
  <2>1. tap' = [state |-> "open", ch |-> t, waiting |-> tap.waiting /\ hand.kind = "header", lost |-> tap.lost]
    BY <1>9 DEF Queues, TapShape
  <2>2. /\ t \in Seq(TapMessages) /\ Len(t) = n + 1 /\ \A i \in 1..n : t[i] = s[i]
        /\ t[n + 1] = hand /\ DOMAIN t = 1..(n + 1) /\ DOMAIN s = 1..n
    BY <1>1, <1>5
  <2>3. n + 1 =< TapRoom
    BY <1>5, <1>9, TapConstants DEF Full
  <2>4. \A kind, d : /\ \A i \in 1..(n + 1) : Seen(t, kind, d, i) = Seen(s, kind, d, i)
                     /\ Seen(t, kind, d, n + 2) = IF hand.kind = kind THEN Mark(hand) ELSE Seen(s, kind, d, n + 1)
    BY <1>1, <1>5, SeenAppend
  <2> HIDE DEF t
  <2>5. TapTypeOK' /\ TapShape'
    <3>1. tap'.waiting \in BOOLEAN /\ tap'.ch = t /\ tap'.lost = tap.lost /\ tap'.state = "open"
      BY <2>1 DEF TapTypeOK
    <3> QED BY <1>1, <1>5, <2>1, <2>2, <2>3, <3>1 DEF TapTypeOK, TapShape
  <2>6. FromPublisher(s)'
    <3>1. ASSUME NEW i \in DOMAIN t
          PROVE  t[i].header <= version /\ (t[i].kind = "frame" => t[i].n <= frames)
      <4>1. CASE i = n + 1
        BY <1>2, <2>2, <4>1
      <4>2. CASE i # n + 1
        <5>1. i \in DOMAIN s /\ t[i] = s[i]
          BY <1>5, <2>2, <4>2
        <5> QED BY <5>1 DEF FromPublisher
      <4> QED BY <4>1, <4>2
    <3>2. tap'.ch = t
      BY <2>1
    <3> QED BY <1>1, <3>1, <3>2 DEF FromPublisher
  <2>7. hand.kind = "frame" /\ ~hand.key => hand.n = FrameBefore(n + 1) + 1
    <3> SUFFICES ASSUME hand.kind = "frame", ~hand.key PROVE hand.n = FrameBefore(n + 1) + 1
      OBVIOUS
    <3>1. ~tap.waiting
      BY <1>9 DEF Passes
    <3>2. FrameBefore(n + 1) = frames - 1
      BY <1>3, <1>9, <3>1 DEF Continues
    <3> QED BY <1>2, <3>2
  <2>8. FollowOn(s, viewer.last.n)'
    <3>1. ASSUME NEW i \in DOMAIN t, t[i].kind = "frame"
          PROVE  t[i].key \/ t[i].n = Seen(t, "frame", viewer.last.n, i) + 1
      <4>1. CASE i = n + 1
        BY <1>2, <2>2, <2>4, <2>7, <3>1, <4>1 DEF FrameBefore
      <4>2. CASE i # n + 1
        <5>1. i \in DOMAIN s /\ t[i] = s[i] /\ i \in 1..(n + 1)
          BY <1>5, <2>2, <4>2
        <5> QED BY <2>4, <3>1, <5>1 DEF FollowOn
      <4> QED BY <4>1, <4>2
    <3>2. FollowOn(t, viewer.last.n)
      BY <3>1 DEF FollowOn
    <3> QED BY <1>1, <2>1, <3>2
  <2>9. hand.kind = "frame" /\ ConfigAt(n + 1) # 0 => Fits(ConfigAt(n + 1), hand, tap.lost, viewer.since)
    <3> SUFFICES ASSUME hand.kind = "frame", ConfigAt(n + 1) # 0
                 PROVE  Fits(ConfigAt(n + 1), hand, tap.lost, viewer.since)
      OBVIOUS
    <3>1. PICK c \in Nat : c = ConfigAt(n + 1)
      BY <1>5, <1>6
    <3>2. c =< version /\ (c < version => version \in tap.lost)
      BY <1>3, <1>9, <3>1 DEF Continues
    <3> QED BY <1>2, <3>1, <3>2 DEF Fits
  <2>10. Configured(s, viewer.config, tap.lost, viewer.since)'
    <3>1. ASSUME NEW i \in DOMAIN t, t[i].kind = "frame", Seen(t, "header", viewer.config, i) # 0
          PROVE  Fits(Seen(t, "header", viewer.config, i), t[i], tap.lost, viewer.since)
      <4>1. CASE i = n + 1
        <5>1. Seen(t, "header", viewer.config, i) = ConfigAt(n + 1) /\ t[i] = hand
          BY <2>2, <2>4, <4>1 DEF ConfigAt
        <5> QED BY <2>9, <3>1, <5>1
      <4>2. CASE i # n + 1
        <5>1. i \in DOMAIN s /\ t[i] = s[i] /\ i \in 1..(n + 1)
          BY <1>5, <2>2, <4>2
        <5>2. Seen(t, "header", viewer.config, i) = Seen(s, "header", viewer.config, i)
          BY <2>4, <5>1
        <5> QED BY <3>1, <5>1, <5>2 DEF Configured
      <4> QED BY <4>1, <4>2
    <3>2. Configured(t, viewer.config, tap.lost, viewer.since)
      BY <3>1 DEF Configured
    <3>3. tap'.ch = t /\ tap'.lost = tap.lost
      BY <2>1
    <3> QED BY <1>1, <3>2, <3>3
  <2>11. Continues'
    <3>1. FrameBefore(Len(tap.ch) + 1)' = Seen(t, "frame", viewer.last.n, n + 2)
          /\ ConfigAt(Len(tap.ch) + 1)' = Seen(t, "header", viewer.config, n + 2)
      <4>1. tap'.ch = t /\ viewer' = viewer /\ (n + 1) + 1 = n + 2
        BY <1>1, <1>5, <2>1
      <4> QED BY <2>2, <4>1 DEF FrameBefore, ConfigAt
    <3>2. tap'.waiting = (tap.waiting /\ hand.kind = "header") /\ tap'.lost = tap.lost
      BY <2>1
    <3>3. CASE hand.kind = "frame"
      <4>1. Seen(t, "frame", viewer.last.n, n + 2) = frames
        BY <1>2, <2>4, <3>3 DEF Mark
      <4>2. Seen(t, "header", viewer.config, n + 2) = ConfigAt(n + 1)
        BY <2>4, <3>3 DEF ConfigAt
      <4>3. VersionsIn' = VersionsIn
        BY <1>3, <3>3
      <4> QED BY <1>1, <1>3, <1>9, <3>1, <3>2, <4>1, <4>2, <4>3 DEF Continues
    <3>4. CASE hand.kind = "header"
      <4>1. Seen(t, "frame", viewer.last.n, n + 2) = FrameBefore(n + 1)
        BY <2>4, <3>4 DEF FrameBefore
      <4>2. Seen(t, "header", viewer.config, n + 2) = version
        BY <1>2, <2>4, <3>4 DEF Mark
      <4>3. FramesIn' = FramesIn /\ VersionsIn' = version
        BY <1>3, <3>4
      <4>4. ~tap'.waiting => FrameBefore(Len(tap.ch) + 1)' = FramesIn'
        BY <1>9, <3>1, <3>2, <3>4, <4>1, <4>3 DEF Continues
      <4> QED BY <1>1, <1>2, <3>1, <4>2, <4>3, <4>4 DEF Continues
    <3> QED BY <1>2, <3>3, <3>4
  <2> QED BY <1>4, <2>5, <2>6, <2>8, <2>10, <2>11
<1> QED BY <1>2, <1>7, <1>8, <1>9 DEF Delivers, Passes, TapTypeOK

\* The viewer is answered after it has read the configuration.
LEMMA ConfiguresKeeps == ASSUME PlayInv, ReadsConfig \/ Answers PROVE PlayInv'
<1> USE DEF PlayInv
<1>1. UNCHANGED Publishing
  BY DEF ReadsConfig, Answers
<1> DEFINE s == tap.ch
           n == Len(tap.ch)
<1>2. /\ s \in Seq(TapMessages) /\ n \in Nat /\ cached \in Nat /\ frames \in Nat /\ version \in Nat
      /\ viewer.last \in TapMessages \cup {NoMessage} /\ viewer.last.n \in Nat /\ viewer.config \in Nat
  BY TapConstants DEF TapTypeOK, TapMessages, NoMessage
<1>3. CASE ReadsConfig
  <2>1. /\ viewer' = [at |-> "configured", config |-> cached, last |-> viewer.last, since |-> frames]
        /\ tap' = tap /\ viewer.config = 0
    BY <1>3 DEF ReadsConfig, TapShape
  <2>2. TapTypeOK' /\ TapShape' /\ HandHolds'
    BY <1>1, <2>1 DEF TapTypeOK, TapShape, HandHolds, Publishing
  <2>3. FollowOn(s, viewer.last.n)' /\ FromPublisher(s)'
    BY <1>1, <2>1 DEF FromPublisher, Publishing
  <2>4. \A i \in 1..(n + 1) : \/ Seen(s, "header", 0, i) = 0 /\ Seen(s, "header", cached, i) = cached
                              \/ Seen(s, "header", 0, i) = Seen(s, "header", cached, i)
    BY <1>2, SeenFirst
  <2>5. Configured(s, viewer.config, tap.lost, viewer.since)'
    <3>1. ASSUME NEW i \in DOMAIN s, s[i].kind = "frame", Seen(s, "header", cached, i) # 0
          PROVE  Fits(Seen(s, "header", cached, i), s[i], tap.lost, frames)
      <4>1. /\ s[i].header \in Nat /\ s[i].n \in Nat /\ s[i].header =< version /\ s[i].n =< frames
            /\ i \in 1..(n + 1)
        <5>1. s[i].header \in Nat /\ s[i].n \in Nat
          BY <1>2, SeenTypes
        <5> QED BY <1>2, <3>1, <5>1 DEF FromPublisher
      <4>2. CASE Seen(s, "header", 0, i) = 0 /\ Seen(s, "header", cached, i) = cached
        <5>1. cached = version
          BY <3>1, <4>2 DEF HandHolds
        <5>2. cached = s[i].header \/ cached > s[i].header
          BY <1>2, <4>1, <5>1
        <5> QED BY <4>1, <4>2, <5>2 DEF Fits
      <4>3. CASE Seen(s, "header", 0, i) = Seen(s, "header", cached, i)
        <5>1. Fits(Seen(s, "header", 0, i), s[i], tap.lost, viewer.since)
          BY <2>1, <3>1, <4>3 DEF Configured
        <5> QED BY <4>1, <4>3, <5>1 DEF Fits
      <4> QED BY <2>4, <4>1, <4>2, <4>3
    <3>2. Configured(s, cached, tap.lost, frames)
      BY <3>1 DEF Configured
    <3>3. viewer'.config = cached /\ viewer'.since = frames
      BY <2>1
    <3> QED BY <2>1, <3>2, <3>3
  <2>6. Continues'
    <3>1. /\ FrameBefore(n + 1)' = FrameBefore(n + 1) /\ ConfigAt(n + 1)' = Seen(s, "header", cached, n + 1)
          /\ ConfigAt(n + 1) = Seen(s, "header", 0, n + 1)
      <4>1. viewer'.last = viewer.last /\ viewer'.config = cached
        BY <2>1
      <4> QED BY <2>1, <4>1 DEF FrameBefore, ConfigAt
    <3>2. FramesIn' = FramesIn /\ VersionsIn' = VersionsIn /\ VersionsIn =< version /\ VersionsIn \in Int
      BY <1>1, <1>2 DEF FramesIn, VersionsIn, Publishing
    <3>3. CASE ConfigAt(n + 1) = 0 /\ ConfigAt(n + 1)' = cached
      <4>1. cached # 0 => cached = version /\ ~(cached < VersionsIn)
        BY <1>2, <3>2 DEF HandHolds
      <4> QED BY <1>1, <1>2, <2>1, <3>1, <3>2, <3>3, <4>1 DEF Continues, Publishing
    <3>4. CASE ConfigAt(n + 1)' = ConfigAt(n + 1)
      BY <1>1, <2>1, <3>1, <3>2, <3>4 DEF Continues, Publishing
    <3> QED BY <1>2, <2>4, <3>1, <3>3, <3>4
  <2> QED BY <2>2, <2>3, <2>5, <2>6
<1>4. CASE Answers
  <2>1. CASE Releases
    BY <1>1, <2>1, ViewerComesKeeps
  <2>2. CASE viewer.config # 0 /\ viewer' = [viewer EXCEPT !.at = "watching"] /\ tap' = tap
    <3>1. viewer' = [at |-> "watching", config |-> viewer.config, last |-> viewer.last, since |-> viewer.since]
      BY <2>2 DEF TapShape
    <3>2. TapTypeOK' /\ TapShape' /\ HandHolds'
      BY <1>1, <2>2, <3>1 DEF TapTypeOK, TapShape, HandHolds, Publishing
    <3>3. viewer'.last = viewer.last /\ viewer'.config = viewer.config /\ viewer'.since = viewer.since
      BY <3>1
    <3>4. FollowOn(s, viewer.last.n)' /\ Configured(s, viewer.config, tap.lost, viewer.since)'
      BY <2>2, <3>3
    <3>5. FromPublisher(s)'
      BY <1>1, <2>2 DEF FromPublisher, Publishing
    <3>6. Continues'
      <4>1. FrameBefore(n + 1)' = FrameBefore(n + 1) /\ ConfigAt(n + 1)' = ConfigAt(n + 1)
        BY <2>2, <3>3 DEF FrameBefore, ConfigAt
      <4>2. FramesIn' = FramesIn /\ VersionsIn' = VersionsIn
        BY <1>1 DEF FramesIn, VersionsIn, Publishing
      <4> QED BY <1>1, <2>2, <4>1, <4>2 DEF Continues, Publishing
    <3> QED BY <3>2, <3>4, <3>5, <3>6
  <2> QED BY <1>4, <2>1, <2>2 DEF Answers
<1> QED BY <1>3, <1>4

\* The first message of the channel goes on to the decoder.
LEMMA SendsOnKeeps == ASSUME PlayInv, SendsOn PROVE PlayInv'
<1> USE DEF PlayInv
<1> DEFINE s == tap.ch
           n == Len(tap.ch)
           t == Tail(tap.ch)
           m == Head(tap.ch)
<1>1. /\ UNCHANGED <<ingest, version, frames, cached, hand>> /\ s # <<>> /\ viewer.at = "watching"
      /\ s \in Seq(TapMessages)
  BY DEF SendsOn, Publishing, TapTypeOK
<1>2. /\ n \in Nat \ {0} /\ t \in Seq(TapMessages) /\ Len(t) = n - 1 /\ m = s[1] /\ m \in TapMessages
      /\ \A i \in 1..(n - 1) : t[i] = s[i + 1] /\ i + 1 \in DOMAIN s
      /\ DOMAIN t = 1..(n - 1) /\ DOMAIN s = 1..n
  BY <1>1
<1>3. tap' = [state |-> tap.state, ch |-> t, waiting |-> tap.waiting, lost |-> tap.lost]
  BY DEF SendsOn, TapShape
<1> DEFINE c == IF m.kind = "header" THEN m.header ELSE viewer.config
           l == IF m.kind = "frame" THEN m.n ELSE viewer.last.n
<1>4. /\ viewer' = [at |-> "watching", config |-> c, last |-> viewer'.last, since |-> viewer.since]
      /\ viewer'.last \in {viewer.last, m} /\ viewer'.last.n = l
  <2>1. CASE m.kind = "header"
    <3>1. viewer' = [at |-> "watching", config |-> m.header, last |-> viewer.last, since |-> viewer.since]
      BY <1>1, <2>1 DEF SendsOn, TapShape
    <3> QED BY <2>1, <3>1
  <2>2. CASE m.kind # "header"
    <3>1. m.kind = "frame"
      BY <1>2, <2>2 DEF TapMessages
    <3>2. viewer' = [at |-> "watching", config |-> viewer.config, last |-> m, since |-> viewer.since]
      BY <1>1, <2>2 DEF SendsOn, TapShape
    <3> QED BY <2>2, <3>1, <3>2
  <2> QED BY <2>1, <2>2
<1>5. /\ m.header \in 1..TapHeaders /\ viewer.config \in 0..TapHeaders /\ viewer.config # 0
      /\ c \in 0..TapHeaders /\ c # 0
  <2>1. m.header \in 1..TapHeaders /\ TapHeaders \in Nat
    BY <1>2, TapConstants DEF TapMessages
  <2>2. viewer.config \in 0..TapHeaders /\ viewer.config # 0
    BY <1>1 DEF TapTypeOK, TapShape
  <2> QED BY <2>1, <2>2
<1>6. \A i \in 1..n : /\ Seen(t, "header", c, i) = Seen(s, "header", viewer.config, i + 1)
                      /\ Seen(t, "frame", l, i) = Seen(s, "frame", viewer.last.n, i + 1)
  BY <1>1, SeenTail DEF Mark
<1>7. tap'.ch = t /\ tap'.lost = tap.lost /\ tap'.state = tap.state /\ tap'.waiting = tap.waiting
      /\ viewer'.config = c /\ viewer'.since = viewer.since /\ viewer'.at = "watching"
  BY <1>3, <1>4
<1> HIDE DEF t, c, l, m
<1>8. TapTypeOK'
  <2>1. Len(t) =< TapRoom
    <3>1. n =< TapRoom /\ TapRoom \in Nat
      BY TapConstants DEF TapTypeOK
    <3> QED BY <1>2, <3>1
  <2>2. viewer'.last \in TapMessages \cup {NoMessage}
    BY <1>2, <1>4 DEF TapTypeOK
  <2> QED BY <1>1, <1>2, <1>5, <1>7, <2>1, <2>2 DEF TapTypeOK
<1>9. TapShape' /\ HandHolds'
  BY <1>1, <1>3, <1>4, <1>5, <1>7 DEF TapShape, HandHolds
<1>10. FollowOn(tap.ch, viewer.last.n)'
  <2>1. ASSUME NEW i \in DOMAIN t, t[i].kind = "frame" PROVE t[i].key \/ t[i].n = Seen(t, "frame", l, i) + 1
    <3>1. i \in 1..n /\ t[i] = s[i + 1] /\ i + 1 \in DOMAIN s
      BY <1>2
    <3> QED BY <1>6, <2>1, <3>1 DEF FollowOn
  <2>2. FollowOn(t, l)
    BY <2>1 DEF FollowOn
  <2> QED BY <1>4, <1>7, <2>2
<1>11. Configured(tap.ch, viewer.config, tap.lost, viewer.since)'
  <2>1. ASSUME NEW i \in DOMAIN t, t[i].kind = "frame", Seen(t, "header", c, i) # 0
        PROVE  Fits(Seen(t, "header", c, i), t[i], tap.lost, viewer.since)
    <3>1. i \in 1..n /\ t[i] = s[i + 1] /\ i + 1 \in DOMAIN s
      BY <1>2
    <3>2. Seen(t, "header", c, i) = Seen(s, "header", viewer.config, i + 1)
      BY <1>6, <3>1
    <3> QED BY <2>1, <3>1, <3>2 DEF Configured
  <2>2. Configured(t, c, tap.lost, viewer.since)
    BY <2>1 DEF Configured
  <2> QED BY <1>7, <2>2
<1>12. FromPublisher(tap.ch)'
  <2>1. \A i \in DOMAIN t : t[i].header <= version /\ (t[i].kind = "frame" => t[i].n <= frames)
    BY <1>2 DEF FromPublisher
  <2> QED BY <1>1, <1>7, <2>1 DEF FromPublisher
<1>13. Continues'
  <2>1. /\ FrameBefore(Len(tap.ch) + 1)' = FrameBefore(n + 1)
        /\ ConfigAt(Len(tap.ch) + 1)' = ConfigAt(n + 1)
    <3>1. Len(tap'.ch) + 1 = n /\ n \in 1..n
      BY <1>2, <1>7
    <3> QED BY <1>4, <1>6, <1>7, <3>1 DEF FrameBefore, ConfigAt
  <2>2. FramesIn' = FramesIn /\ VersionsIn' = VersionsIn
    BY <1>1 DEF FramesIn, VersionsIn
  <2> QED BY <1>1, <1>7, <2>1, <2>2 DEF Continues
<1> QED BY <1>8, <1>9, <1>10, <1>11, <1>12, <1>13

\* Each step keeps the invariant.
LEMMA PlayStepKeeps == ASSUME PlayInv, [TapNext]_tapVars PROVE PlayInv'
<1>1. CASE SeesTheEnd \/ Leaves
  BY <1>1, ViewerComesKeeps DEF SeesTheEnd, Leaves
<1>2. CASE Opens
  BY <1>2, ViewerComesKeeps DEF Opens
<1>3. CASE UNCHANGED tapVars
  BY <1>3 DEF tapVars, PlayInv, TapTypeOK, TapShape, HandHolds, FromPublisher, Continues, FrameBefore, ConfigAt,
              FramesIn, VersionsIn
<1> QED BY <1>1, <1>2, <1>3, IngestKeeps, ObservesKeeps, TapDeliversKeeps, ConfiguresKeeps, SendsOnKeeps DEF TapNext

\* The preview (relay/tap.go, httpapi/preview.go) keeps its inductive invariant.
THEOREM PreviewHolds == TapSpec => []PlayInv
<1>1. PlayInv /\ [TapNext]_tapVars => PlayInv'
  BY PlayStepKeeps
<1> QED BY PlayInitInv, <1>1, PTL DEF TapSpec

\* For a channel of any capacity and any number of headers, frames and sessions, the decoder
\* of the preview gets a keyframe after every gap and each frame under its own
\* configuration, but for a header lost to a full channel and for the frames that were
\* queued when the configuration was read (tap.deliver, handlePreviewWS).
THEOREM PreviewAlwaysPlays == TapSpec => []PreviewPlays
<1>1. PlayInv => PreviewPlays
  <2> SUFFICES ASSUME PlayInv PROVE PreviewPlays
    OBVIOUS
  <2>1. viewer.at = "watching" => \A i \in DOMAIN tap.ch : ConfigAt(i) # 0
    <3> SUFFICES ASSUME viewer.at = "watching", NEW i \in DOMAIN tap.ch PROVE ConfigAt(i) # 0
      OBVIOUS
    <3>1. /\ viewer.config # 0 /\ i \in Nat \ {0} /\ tap.ch \in Seq(TapMessages)
          /\ \A j \in 1..(i - 1) : j \in DOMAIN tap.ch
      BY DEF PlayInv, TapShape, TapTypeOK
    <3>2. \A j \in 1..(i - 1) : tap.ch[j].header # 0
      <4>1. \A j \in 1..(i - 1) : tap.ch[j] \in TapMessages
        BY <3>1
      <4> QED BY <4>1, TapConstants DEF TapMessages
    <3> QED BY <3>1, <3>2, SeenIs DEF ConfigAt, Mark
  <2> QED BY <2>1 DEF PlayInv, PreviewPlays, FollowOn, Configured, Fits, FrameBefore, ConfigAt
<1> QED BY PreviewHolds, <1>1, PTL
=============================================================================
