----------------------------- MODULE MCRequests -----------------------------
(***************************************************************************)
(* The requests that change rows in several steps, checked in one run: the *)
(* destinations edited on the air, the broadcasts, the accounts being      *)
(* connected and the deliveries of Kick's webhook.  They share no          *)
(* variable, so a behaviour picks one of them at the start and the others  *)
(* never move.                                                             *)
(***************************************************************************)
EXTENDS HotApply, Broadcasts, AuthFlows, KickWebhook, TLC

VARIABLE part
requestVars == <<part, hotVars, bcVars, authVars, kickVars>>

RequestsInit ==
  /\ part \in {"destinations", "broadcasts", "accounts", "kick"}
  /\ IF part = "destinations" THEN HotInit ELSE HotInit /\ table = [d \in Dests |-> "absent"]
  /\ IF part = "broadcasts" THEN BcInit ELSE BcInit /\ onePanel /\ \A d \in Targets : dest[d] = New
  /\ IF part = "accounts" THEN AuthInit ELSE AuthInit /\ redirect
  /\ KickInit

RequestsNext ==
  \/ part = "destinations" /\ HotNext /\ UNCHANGED <<part, bcVars, authVars, kickVars>>
  \/ part = "broadcasts" /\ BcNext /\ UNCHANGED <<part, hotVars, authVars, kickVars>>
  \/ part = "accounts" /\ AuthNext /\ UNCHANGED <<part, hotVars, bcVars, kickVars>>
  \/ part = "kick" /\ KickNext /\ UNCHANGED <<part, hotVars, bcVars, authVars>>

RequestsSpec == RequestsInit /\ [][RequestsNext]_requestVars

\* What is checked of the broadcasts does not tell one request, or one account, from
\* another.
Interchangeable ==
  UNION {Permutations(S) : S \in {Asks, Channels}}
=============================================================================
