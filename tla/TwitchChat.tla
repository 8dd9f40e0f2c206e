----------------------------- MODULE TwitchChat -----------------------------
(***************************************************************************)
(* ReadChat of Twitch (platforms/twitch/chat.go): one goroutine that keeps *)
(* an EventSub socket open while the session lasts.  It subscribes once    *)
(* Twitch greets it, follows a session_reconnect to a second socket whose  *)
(* greeting it awaits before it lets the first go, and starts again, ever  *)
(* more slowly, when a connection is cut.  What Twitch sends, and whether  *)
(* a request fails, is chosen freely; the contents of the chat are left    *)
(* out.                                                                    *)
(***************************************************************************)
EXTENDS Integers, FiniteSets, FiniteSetsExt

CONSTANTS Sockets, \* connections that may be open at the same time, numbered
          WaitMax  \* chatBackoffMax, in units of the first wait

ASSUME TwitchConstants ==
  /\ IsFiniteSet(Sockets) /\ Sockets \subseteq Nat \ {0} /\ Cardinality(Sockets) >= 3
  /\ WaitMax \in Nat \ {0}

NoSocket == 0

VARIABLES twPlace,     \* where ReadChat is
          sessionOver, \* ctx has ended
          espera,      \* the next wait
          revoked      \* ReadChat returned ErrChatRevoked
VARIABLES conn,        \* the connection of sesionChat
          subscribe,   \* ... conexionChat.suscribir
          established, \* ... conexionChat.establecida
          nueva        \* the connection seguirReconexion awaits the greeting of
VARIABLES open,        \* the sockets not closed
          carries,     \* Twitch: subscriptions to the chat each socket carries
          cuts         \* history: connections lost in a row, none established

reader == <<twPlace, espera, revoked, conn, subscribe, established, nueva>>
wire   == <<open, carries>>
twVars == <<reader, sessionOver, wire, cuts>>

TwPlaces == {"token", "dialing", "reading", "subscribing", "following", "greeting", "sleeping",
           "returned"}

TwTypeOK ==
  /\ twPlace \in TwPlaces /\ sessionOver \in BOOLEAN /\ espera \in 1..WaitMax /\ revoked \in BOOLEAN
  /\ conn \in Sockets \cup {NoSocket} /\ nueva \in Sockets \cup {NoSocket}
  /\ subscribe \in BOOLEAN /\ established \in BOOLEAN
  /\ open \subseteq Sockets /\ carries \in [Sockets -> Nat] /\ cuts \in 0..WaitMax

TwInit ==
  /\ twPlace = "token" /\ sessionOver = FALSE /\ espera = 1 /\ revoked = FALSE
  /\ conn = NoSocket /\ nueva = NoSocket /\ subscribe = FALSE /\ established = FALSE
  /\ open = {} /\ carries = [s \in Sockets |-> 0] /\ cuts = 0

Doubled(w) == Min({2 * w, WaitMax})
OneMore(n) == Min({n + 1, WaitMax})  \* bound: cuts that are told apart

\* Mutant: the reader is given a context that outlives the session.
ContextNever == FALSE

ContextOver == sessionOver

TwSessionEnds ==
  /\ ~sessionOver /\ sessionOver' = TRUE
  /\ UNCHANGED <<reader, wire, cuts>>

-----------------------------------------------------------------------------
ChatReturns == twPlace' = "returned"
FreeSocket   == Min(Sockets \ open)
Shut(ss) == /\ open' = open \ ss
             /\ carries' = [s \in Sockets |-> IF s \in ss THEN 0 ELSE carries[s]]

\* The first token: without one the account has a problem, and ReadChat ends.
FirstToken ==
  /\ twPlace = "token"
  /\ twPlace' \in {"dialing", "returned"}
  /\ UNCHANGED <<espera, revoked, conn, subscribe, established, nueva, sessionOver, wire, cuts>>

\* abrirChat.
Dials ==
  /\ twPlace = "dialing"
  /\ conn' = FreeSocket /\ open' = open \cup {FreeSocket}
  /\ subscribe' = TRUE /\ established' = FALSE
  /\ twPlace' = "reading"
  /\ UNCHANGED <<espera, revoked, nueva, sessionOver, carries, cuts>>

NoDial ==
  /\ twPlace = "dialing"
  /\ IF ContextOver THEN ChatReturns /\ UNCHANGED cuts
                    ELSE twPlace' = "sleeping" /\ cuts' = OneMore(cuts)
  /\ UNCHANGED <<espera, revoked, conn, subscribe, established, nueva, sessionOver, wire>>

\* dormir: the wait, and what the next one will be.
Wake ==
  /\ twPlace = "sleeping"
  /\ IF ContextOver THEN ChatReturns /\ UNCHANGED espera
                    ELSE twPlace' = "dialing" /\ espera' = Doubled(espera)
  /\ UNCHANGED <<revoked, conn, subscribe, established, nueva, sessionOver, wire, cuts>>

\* sesionChat returns without a next connection: its deferred CloseNow closes the
\* one it had, and ReadChat decides.  A session that worked starts the waits anew.
SessionOverWith(isRevoked) ==
  /\ Shut({conn, nueva}) /\ conn' = NoSocket /\ nueva' = NoSocket
  /\ subscribe' = FALSE /\ established' = FALSE
  /\ IF ContextOver \/ isRevoked
       THEN /\ ChatReturns
            /\ revoked' = (isRevoked /\ ~ContextOver)
            /\ UNCHANGED <<espera, cuts>>
       ELSE /\ twPlace' = "sleeping"
            /\ espera' = IF established THEN 1 ELSE espera
            /\ cuts' = IF established THEN 0 ELSE OneMore(cuts)
            /\ UNCHANGED revoked

-----------------------------------------------------------------------------
\* The socket is read with a deadline, which any message renews.  A connection
\* that fails, is closed by Twitch, says nothing in time, or greets or redirects
\* without the data it should bring, is over.
ReadFails == twPlace = "reading" /\ SessionOverWith(FALSE) /\ UNCHANGED sessionOver

Revocation == twPlace = "reading" /\ SessionOverWith(TRUE) /\ UNCHANGED sessionOver

\* session_welcome: the subscription, unless the socket inherited one.
Welcome ==
  /\ twPlace = "reading"
  /\ IF subscribe THEN twPlace' = "subscribing" /\ UNCHANGED established
                  ELSE established' = TRUE /\ UNCHANGED twPlace
  /\ UNCHANGED <<espera, revoked, conn, subscribe, nueva, sessionOver, wire, cuts>>

\* suscribirChat.  When the answer is lost Twitch may have subscribed the socket.
Subscribed ==
  /\ twPlace = "subscribing"
  /\ carries' = [carries EXCEPT ![conn] = @ + 1]
  /\ subscribe' = FALSE /\ established' = TRUE /\ twPlace' = "reading"
  /\ UNCHANGED <<espera, revoked, conn, nueva, sessionOver, open, cuts>>

NotSubscribed == twPlace = "subscribing" /\ SessionOverWith(FALSE) /\ UNCHANGED sessionOver

\* session_reconnect, of a session Twitch has greeted, and the new connection of
\* seguirReconexion.
Reconnect ==
  /\ twPlace = "reading" /\ ~subscribe
  /\ twPlace' = "following"
  /\ UNCHANGED <<espera, revoked, conn, subscribe, established, nueva, sessionOver, wire, cuts>>

FollowOk ==
  /\ twPlace = "following"
  /\ nueva' = FreeSocket /\ open' = open \cup {FreeSocket}
  /\ twPlace' = "greeting"
  /\ UNCHANGED <<espera, revoked, conn, subscribe, established, sessionOver, carries, cuts>>

\* Neither the dial nor the greeting came: seguirReconexion closes the new socket
\* and sesionChat the old one.
FollowFails ==
  /\ twPlace \in {"following", "greeting"}
  /\ SessionOverWith(FALSE)
  /\ UNCHANGED sessionOver

\* The greeting: Twitch hands the subscriptions over, the old socket is closed, and
\* ReadChat goes on with the new one, unless the session ended meanwhile.
Handover(inherits, closes) ==
  /\ twPlace = "greeting"
  /\ open' = open \ closes
  /\ carries' = [s \in Sockets |-> CASE s = nueva /\ s \notin closes -> carries[conn]
                                     [] s \in closes -> 0 [] OTHER -> carries[s]]
  /\ nueva' = NoSocket
  /\ IF ContextOver
       THEN /\ ChatReturns /\ conn' = NoSocket /\ subscribe' = FALSE /\ established' = FALSE
            /\ UNCHANGED <<espera, cuts>>
       ELSE /\ twPlace' = "reading" /\ conn' = nueva
            /\ subscribe' = ~inherits /\ established' = inherits
            /\ espera' = IF established THEN 1 ELSE espera
            /\ cuts' = IF established THEN 0 ELSE cuts
  /\ UNCHANGED <<revoked, sessionOver>>

\* Mutant: the new socket is left open when the session ends during the greeting.
GreetedForgets == Handover(TRUE, {conn})

Greeted == Handover(TRUE, IF ContextOver THEN {conn, nueva} ELSE {conn})

TwStep == \/ FirstToken \/ Dials \/ NoDial \/ Wake
          \/ ReadFails \/ Revocation \/ Welcome \/ Subscribed \/ NotSubscribed
          \/ Reconnect \/ FollowOk \/ FollowFails \/ Greeted

TwNext == TwSessionEnds \/ TwStep
TwSpec == TwInit /\ [][TwNext]_twVars

\* The end of the context ends whatever ReadChat waits for: the dial, the read,
\* the request, the sleep.
TwFairness ==
  WF_twVars(sessionOver /\ (FirstToken \/ NoDial \/ Wake \/ ReadFails \/ NotSubscribed
                              \/ FollowFails))

-----------------------------------------------------------------------------
\* A second socket is open only while its greeting is awaited and none outlives
\* ReadChat; a reader that takes its connection for established hears the chat, and
\* hears it once, since the socket of a reconnection inherits the subscription; and
\* connections cut again and again before they ever work are retried ever more
\* slowly, whether Twitch could not be dialled or cut what was dialled.
TwitchReader ==
  /\ TwTypeOK
  /\ open = {conn, nueva} \ {NoSocket}
  /\ nueva # NoSocket => twPlace = "greeting"
  /\ twPlace = "returned" => open = {}
  /\ established => carries[conn] = 1
  /\ twPlace = "sleeping" => espera >= cuts
=============================================================================
