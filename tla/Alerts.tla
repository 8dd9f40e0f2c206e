------------------------------- MODULE Alerts -------------------------------
(***************************************************************************)
(* The dispatcher of alerts (alerts/webhooks.go): one goroutine takes the  *)
(* events of the bus (events/bus.go) from a channel that loses what does   *)
(* not fit, and starts a goroutine for each webhook an event concerns.     *)
(* Those share a semaphore, retry what may pass and note the outcome in    *)
(* the webhook's row.  When the process ends, Run waits for them, and the  *)
(* database is closed after it.  What an endpoint answers is chosen        *)
(* freely; a POST without an answer may have arrived.                      *)
(***************************************************************************)
EXTENDS Integers, Sequences, FiniteSets

CONSTANTS Webhooks,
          MaxAlerts, \* bound: events published
          AlertRoom, \* busBuffer
          Parallel,  \* maxParalelo
          Retries    \* len(Backoff)

ASSUME AlertConstants ==
  /\ IsFiniteSet(Webhooks) /\ MaxAlerts \in Nat
  /\ AlertRoom \in Nat \ {0} /\ Parallel \in Nat \ {0} /\ Retries \in Nat

VARIABLES published, \* events published so far, numbered
          inbox,     \* the channel Run listens to
          dispatcher, \* where Run is
          ending,    \* sinkCtx is over
          job,       \* where the delivery of each event to each webhook is
          tries,     \* ... POSTs that failed and were tried again
          acks,      \* history: ... POSTs answered with success
          dbOpen
alertVars == <<published, inbox, dispatcher, ending, job, tries, acks, dbOpen>>

Jobs == (1..MaxAlerts) \X Webhooks
Active == {"waiting", "posting", "backoff"}

AlertTypeOK ==
  /\ published \in 0..MaxAlerts
  /\ inbox \in Seq(1..MaxAlerts) /\ Len(inbox) <= AlertRoom
  /\ dispatcher \in {"listening", "waiting", "returned"}
  /\ ending \in BOOLEAN /\ dbOpen \in BOOLEAN
  /\ job \in [Jobs -> Active \cup {"none", "over"}]
  /\ tries \in [Jobs -> Nat] /\ acks \in [Jobs -> Nat]

AlertInit ==
  /\ published = 0 /\ inbox = <<>>
  /\ dispatcher = "listening" /\ ending = FALSE /\ dbOpen = TRUE
  /\ job = [j \in Jobs |-> "none"]
  /\ tries = [j \in Jobs |-> 0] /\ acks = [j \in Jobs |-> 0]

Moves(j, to) == job' = [job EXCEPT ![j] = to]

-----------------------------------------------------------------------------
\* LogEvent, and the bus: what does not fit in the channel is lost.
PublishEvent ==
  /\ published < MaxAlerts /\ dbOpen
  /\ published' = published + 1
  /\ inbox' = IF Len(inbox) < AlertRoom /\ dispatcher # "returned"
                THEN Append(inbox, published + 1) ELSE inbox
  /\ UNCHANGED <<dispatcher, ending, job, tries, acks, dbOpen>>

Ends ==
  /\ ~ending /\ ending' = TRUE
  /\ UNCHANGED <<published, inbox, dispatcher, job, tries, acks, dbOpen>>

-----------------------------------------------------------------------------
\* dispatch: the webhooks are read at this moment; those that are not enabled or that
\* the level of the event does not reach are left out, and all if the read fails.
Dispatch ==
  /\ dispatcher = "listening" /\ inbox # <<>>
  /\ inbox' = Tail(inbox)
  /\ \E concerned \in SUBSET Webhooks :
       job' = [j \in Jobs |-> IF j[1] = Head(inbox) /\ j[2] \in concerned THEN "waiting" ELSE job[j]]
  /\ UNCHANGED <<published, dispatcher, ending, tries, acks, dbOpen>>

HoldsSemaphore == {j \in Jobs : job[j] \in {"posting", "backoff"}}

Acquires(j) ==
  /\ job[j] = "waiting" /\ Cardinality(HoldsSemaphore) < Parallel
  /\ Moves(j, "posting")
  /\ UNCHANGED <<published, inbox, dispatcher, ending, tries, acks, dbOpen>>

\* ... or the process ends first, and nothing is sent nor noted.
GoneUnsent(j) ==
  /\ job[j] = "waiting" /\ ending
  /\ Moves(j, "over")
  /\ UNCHANGED <<published, inbox, dispatcher, ending, tries, acks, dbOpen>>

\* Send cannot even build the request: the secret cannot be read.
CannotSign(j) ==
  /\ job[j] = "posting" /\ tries[j] = 0
  /\ Moves(j, "over")
  /\ UNCHANGED <<published, inbox, dispatcher, ending, tries, acks, dbOpen>>

\* The delivery is over, and RecordWebhookDelivery notes how.
Settles(j) == Moves(j, "over") /\ tries' = [tries EXCEPT ![j] = 0]

\* intento: accepted, or refused with a 4xx, which no retry would mend.
Answered(j) ==
  /\ job[j] = "posting" /\ Settles(j)
  /\ \E ok \in {0, 1} : acks' = [acks EXCEPT ![j] = @ + ok]
  /\ UNCHANGED <<published, inbox, dispatcher, ending, dbOpen>>

\* Mutant: the retries are counted from one.
NoAnswerOnceMore(j) ==
  /\ job[j] = "posting"
  /\ IF tries[j] > Retries THEN Settles(j)
       ELSE Moves(j, "backoff") /\ tries' = [tries EXCEPT ![j] = @ + 1]
  /\ UNCHANGED <<published, inbox, dispatcher, ending, acks, dbOpen>>

\* Mutant: an attempt that failed is not counted.
NoAnswerUncounted(j) ==
  /\ job[j] = "posting"
  /\ IF tries[j] >= Retries THEN Settles(j) ELSE Moves(j, "backoff") /\ UNCHANGED tries
  /\ UNCHANGED <<published, inbox, dispatcher, ending, acks, dbOpen>>

\* The network, the timeout of the attempt, a 5xx: after a wait, while there are any.
NoAnswer(j) ==
  /\ job[j] = "posting"
  /\ IF tries[j] >= Retries THEN Settles(j)
       ELSE Moves(j, "backoff") /\ tries' = [tries EXCEPT ![j] = @ + 1]
  /\ UNCHANGED <<published, inbox, dispatcher, ending, acks, dbOpen>>

RetryDue(j) ==
  /\ job[j] = "backoff" /\ Moves(j, "posting")
  /\ UNCHANGED <<published, inbox, dispatcher, ending, tries, acks, dbOpen>>

\* The wait is cut short by the end of the process; a POST is not.
Interrupted(j) ==
  /\ job[j] = "backoff" /\ ending /\ Settles(j)
  /\ UNCHANGED <<published, inbox, dispatcher, ending, acks, dbOpen>>

-----------------------------------------------------------------------------
\* Run, told to end: it takes no more events, and returns when every goroutine has.
StopsListening ==
  /\ dispatcher = "listening" /\ ending /\ dispatcher' = "waiting"
  /\ UNCHANGED <<published, inbox, ending, job, tries, acks, dbOpen>>

\* Mutant: Run does not wait.
ReturnsAtOnce ==
  /\ dispatcher = "waiting"
  /\ dispatcher' = "returned" /\ inbox' = <<>>
  /\ UNCHANGED <<published, ending, job, tries, acks, dbOpen>>

Returns ==
  /\ dispatcher = "waiting" /\ \A j \in Jobs : job[j] \notin Active
  /\ dispatcher' = "returned" /\ inbox' = <<>>
  /\ UNCHANGED <<published, ending, job, tries, acks, dbOpen>>

\* main: the database is closed after Run has returned.  (The ten seconds after which
\* main stops waiting for it are left out.)
DbCloses ==
  /\ dispatcher = "returned" /\ dbOpen /\ dbOpen' = FALSE
  /\ UNCHANGED <<published, inbox, dispatcher, ending, job, tries, acks>>

JobStep(j) == \/ Acquires(j) \/ GoneUnsent(j) \/ CannotSign(j) \/ Answered(j)
              \/ NoAnswer(j) \/ RetryDue(j) \/ Interrupted(j)

AlertNext ==
  \/ PublishEvent \/ Ends \/ Dispatch \/ StopsListening \/ Returns \/ DbCloses
  \/ \E j \in Jobs : JobStep(j)

AlertSpec == AlertInit /\ [][AlertNext]_alertVars

\* Every goroutine goes on: attempts and waits have their timers.
AlertFairness ==
  /\ WF_alertVars(Dispatch)
  /\ WF_alertVars(StopsListening)
  /\ WF_alertVars(Returns)
  /\ \A j \in Jobs : WF_alertVars(JobStep(j))

AlertFairSpec == AlertSpec /\ AlertFairness
-----------------------------------------------------------------------------
\* An endpoint that acknowledged an alert is not sent it again and one that never
\* answers is tried Retries times more, at most Parallel of them at a time; and
\* when the database closes, every delivery has noted its outcome or never began.
AlertsBounded ==
  /\ AlertTypeOK
  /\ \A j \in Jobs : acks[j] <= 1 /\ (acks[j] = 1 => job[j] = "over") /\ tries[j] <= Retries
  /\ Cardinality(HoldsSemaphore) <= Parallel
  /\ ~dbOpen => \A j \in Jobs : job[j] \notin Active

\* Every alert that is dispatched to a webhook comes to an end, however the other
\* endpoints behave, and Run returns when the process ends.
AlertsEnd ==
  /\ \A j \in Jobs : (job[j] = "waiting") ~> (job[j] \notin Active)
  /\ ending ~> (dispatcher = "returned")
=============================================================================
