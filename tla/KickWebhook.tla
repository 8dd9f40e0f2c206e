---------------------------- MODULE KickWebhook ----------------------------
(***************************************************************************)
(* The chat of Kick is not read: Kick posts it, signed, to an endpoint of  *)
(* the panel (httpapi/webhook.go), which verifies each delivery before it  *)
(* takes it (ParseWebhook, platforms/kick/webhook.go).  Deliveries are     *)
(* handled concurrently; they share the public key, fetched when it is     *)
(* needed, and the ids already seen.  A message may be delivered again and *)
(* again, early or late by Kick's clock, and Kick may change its key.      *)
(* Times are absolute; seen and the key live as long as the process.       *)
(***************************************************************************)
EXTENDS Integers, FiniteSets

CONSTANTS KickMessages,  \* ids of messages
          Deliveries,    \* requests handled at the same time
          Window,        \* ventana
          AskedSeenTTL,  \* Options.SeenTTL
          KeyTTL,        \* claveTTL
          MinAge,        \* edadMinRefresco
          Horizon,       \* bound: the last time that is told apart
          MaxKeys        \* bound: keys Kick has, one after another

ASSUME KickConstants ==
  /\ IsFiniteSet(KickMessages) /\ KickMessages # {} /\ IsFiniteSet(Deliveries)
  /\ \A n \in {Window, AskedSeenTTL, KeyTTL, MinAge, Horizon, MaxKeys} : n \in Nat \ {0}

Never == -1
NoKey == 0

VARIABLES now,
          kickKey,   \* Kick: its current key
          stamped,   \* Kick: the time a message carries, Never before it is sent
          signedBy   \* Kick: the key it is signed with
VARIABLES pub,       \* the cached key
          fetchedAt,
          seen       \* the time each id was marked, Never if it is not in the map
VARIABLES step,      \* where each delivery is
          of,        \* ... the message it claims to be
          sig,       \* ... the key its signature holds for, NoKey for none
          tried      \* ... the key verificar has tried it with
VARIABLES accepted,  \* history: times a message has gone through
          late,      \* history: a delivery of it was marked past its window
          wronged    \* history: refused, though its signature held for the cached key

kick     == <<now, kickKey, stamped, signedBy>>
cache    == <<pub, fetchedAt>>
delivery == <<step, of, sig, tried>>
kickPast == <<accepted, late, wronged>>
kickVars == <<kick, cache, seen, delivery, kickPast>>

KickTypeOK ==
  /\ now \in 0..Horizon /\ kickKey \in 1..MaxKeys
  /\ stamped \in [KickMessages -> Int] /\ signedBy \in [KickMessages -> 0..MaxKeys]
  /\ pub \in 0..MaxKeys /\ fetchedAt \in 0..Horizon
  /\ seen \in [KickMessages -> {Never} \cup 0..Horizon]
  /\ step \in [Deliveries -> {"none", "key", "refresh", "mark"}]
  /\ of \in [Deliveries -> KickMessages] /\ sig \in [Deliveries -> 0..MaxKeys]
  /\ tried \in [Deliveries -> 0..MaxKeys]
  /\ accepted \in [KickMessages -> Nat] /\ late \in [KickMessages -> BOOLEAN] /\ wronged \in BOOLEAN

KickInit ==
  /\ now = 0 /\ kickKey = 1
  /\ stamped = [m \in KickMessages |-> Never] /\ signedBy = [m \in KickMessages |-> NoKey]
  /\ pub = NoKey /\ fetchedAt = 0 /\ seen = [m \in KickMessages |-> Never]
  /\ step = [d \in Deliveries |-> "none"]
  /\ of = [d \in Deliveries |-> CHOOSE m \in KickMessages : TRUE]
  /\ sig = [d \in Deliveries |-> NoKey] /\ tried = [d \in Deliveries |-> NoKey]
  /\ accepted = [m \in KickMessages |-> 0] /\ late = [m \in KickMessages |-> FALSE]
  /\ wronged = FALSE

-----------------------------------------------------------------------------
KickTick ==
  /\ now < Horizon /\ now' = now + 1
  /\ UNCHANGED <<kickKey, stamped, signedBy, cache, seen, delivery, kickPast>>

Rotates ==
  /\ kickKey < MaxKeys /\ kickKey' = kickKey + 1
  /\ UNCHANGED <<now, stamped, signedBy, cache, seen, delivery, kickPast>>

\* Kick's clock may be ahead of this one, by as much as the window allows.
Sends(m) ==
  /\ signedBy[m] = NoKey
  /\ signedBy' = [signedBy EXCEPT ![m] = kickKey]
  /\ \E ahead \in 0..Window : stamped' = [stamped EXCEPT ![m] = now + ahead]
  /\ UNCHANGED <<now, kickKey, cache, seen, delivery, kickPast>>

-----------------------------------------------------------------------------
\* The 401: the delivery is over, and Kick may try it again.
Done(d) == /\ step' = [step EXCEPT ![d] = "none"]
           /\ of' = [of EXCEPT ![d] = CHOOSE m \in KickMessages : TRUE]
           /\ sig' = [sig EXCEPT ![d] = NoKey] /\ tried' = [tried EXCEPT ![d] = NoKey]

InWindow(m) == now - stamped[m] \in (-Window)..Window

\* A delivery of a message, first or repeated, or of something that claims its id with
\* a signature that does not hold.  What is out of the window goes no further.
Arrives(d, m, key) ==
  /\ step[d] = "none"
  /\ key # NoKey => InWindow(m)
  /\ step' = [step EXCEPT ![d] = "key"]
  /\ of' = [of EXCEPT ![d] = m] /\ sig' = [sig EXCEPT ![d] = key]
  /\ UNCHANGED <<kick, cache, seen, tried, kickPast>>

\* clavePublica, with its mutex held during the request: the cached key while it is
\* fresh, or else a new one; the old one if Kick does not answer.
Fresh(force) == pub # NoKey /\ now - fetchedAt < (IF force THEN MinAge ELSE KeyTTL)

ClavePublica(force) ==
  \/ Fresh(force) /\ UNCHANGED cache
  \/ ~Fresh(force) /\ pub' = kickKey /\ fetchedAt' = now
  \/ ~Fresh(force) /\ UNCHANGED cache

TurnsDown(d) == /\ Done(d)
              /\ wronged' = (wronged \/ (sig[d] # NoKey /\ sig[d] = pub'))
              /\ UNCHANGED <<accepted, late>>

\* verificar, its first look: no key at all refuses the delivery, another key than
\* the one that signed it asks for a newer one.
KeyTried(d) ==
  /\ step[d] = "key" /\ ClavePublica(FALSE)
  /\ IF pub' = NoKey THEN TurnsDown(d)
     ELSE /\ step' = [step EXCEPT ![d] = IF sig[d] = pub' THEN "mark" ELSE "refresh"]
          /\ tried' = [tried EXCEPT ![d] = IF sig[d] = pub' THEN NoKey ELSE pub']
          /\ UNCHANGED <<of, sig, kickPast>>
  /\ UNCHANGED <<kick, seen>>

\* Mutant: only the delivery that fetched the newer key tries it.
OnlyTheFetcher(d) ==
  /\ step[d] = "refresh" /\ ClavePublica(TRUE)
  /\ IF pub' = pub \/ sig[d] # pub'
       THEN TurnsDown(d)
       ELSE /\ step' = [step EXCEPT ![d] = "mark"] /\ tried' = [tried EXCEPT ![d] = NoKey]
            /\ UNCHANGED <<of, sig, kickPast>>
  /\ UNCHANGED <<kick, seen>>

\* ... its second look, at a key it has not tried: this one's request may have
\* brought it, or another delivery's.
KeyRefreshed(d) ==
  /\ step[d] = "refresh" /\ ClavePublica(TRUE)
  /\ IF pub' = tried[d] \/ sig[d] # pub'
       THEN TurnsDown(d)
       ELSE /\ step' = [step EXCEPT ![d] = "mark"] /\ tried' = [tried EXCEPT ![d] = NoKey]
            /\ UNCHANGED <<of, sig, kickPast>>
  /\ UNCHANGED <<kick, seen>>

\* Mutant: the option is taken as it comes.
SeenTTLAsAsked == AskedSeenTTL

\* init: never shorter than the two sides of the window.
SeenTTL == IF AskedSeenTTL < 2 * Window THEN 2 * Window ELSE AskedSeenTTL

\* marcar: the map forgets what is old; an id still in it is refused.  A message that
\* is new goes on to ingestarChat, which drops what cannot be read or is not of an
\* account of this server.
Marcar(d) ==
  LET m    == of[d]
      kept == [i \in KickMessages |-> IF now - seen[i] > SeenTTL THEN Never ELSE seen[i]]
  IN  /\ step[d] = "mark"
      /\ Done(d)
      /\ late' = [late EXCEPT ![m] = @ \/ ~InWindow(m)]
      /\ IF kept[m] # Never
           THEN seen' = kept /\ UNCHANGED accepted
           ELSE /\ seen' = [kept EXCEPT ![m] = now]
                /\ accepted' = [accepted EXCEPT ![m] = @ + 1]
      /\ UNCHANGED <<kick, cache, wronged>>

KickNext ==
  \/ KickTick \/ Rotates
  \/ \E m \in KickMessages : Sends(m)
  \/ \E d \in Deliveries :
       \/ \E m \in KickMessages : \E key \in {NoKey, signedBy[m]} : Arrives(d, m, key)
       \/ KeyTried(d) \/ KeyRefreshed(d) \/ Marcar(d)

KickSpec == KickInit /\ [][KickNext]_kickVars

-----------------------------------------------------------------------------
\* A message is taken at most once, however often it is delivered and wherever in
\* its window, early or late: an id is not forgotten while the window still admits
\* it.  (A delivery that passes the window and is marked only after it, because
\* the key took long to come, is left out: that one may be taken again.)
KickOnce == KickTypeOK /\ \A m \in KickMessages : late[m] \/ accepted[m] <= 1

\* A delivery that Kick signed is not refused while the key that verifies it is the
\* cached one: neither when the key has just changed nor when another delivery was
\* the one to fetch it.
KickSignatures == ~wronged
=============================================================================
