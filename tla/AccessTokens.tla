---------------------------- MODULE AccessTokens ----------------------------
(***************************************************************************)
(* The tokens of one connected account (internal/platforms/tokens/         *)
(* manager.go, store/accounts.go): whoever needs a token calls Token; the  *)
(* hourly validation of Run looks at every account; both end in refresh,   *)
(* which shares one request among all who want it.  Meanwhile the person   *)
(* may reconnect the account, revoke the permission on the platform, or    *)
(* delete the account.                                                     *)
(*                                                                         *)
(* A grant is one authorisation by the person; each refresh of a grant     *)
(* gives a new pair (access and refresh token) and the platform accepts    *)
(* the newest refresh token only.  A pair is therefore a grant and a       *)
(* generation.  An account's id is never used again (AUTOINCREMENT), so a  *)
(* deleted account stays deleted.  Scopes, names and the OAuth exchange    *)
(* that produces a grant are left out.                                     *)
(***************************************************************************)
EXTENDS Integers

CONSTANTS Callers,     \* goroutines that call Token: chat reader, requests
          Validator,   \* the goroutine of Run
          Grants,      \* authorisations the person may give, 1 the first
          BareGrants,  \* those the platform gave no refresh token for
          MaxGen,      \* bound: refreshes of one grant
          MaxRestarts, \* bound: restarts of the process
          NoOne        \* no refresh in progress

ASSUME TokenConstants ==
  /\ Grants \subseteq Nat /\ 1 \in Grants /\ BareGrants \subseteq Grants
  /\ MaxGen \in Nat /\ MaxRestarts \in Nat
  /\ Validator \notin Callers
  /\ NoOne \notin Callers \cup {Validator}

Procs == Callers \cup {Validator}
Pair  == [grant : Grants, gen : 0..MaxGen]
First == [grant |-> 1, gen |-> 0]

VARIABLES account,  \* the row of platform_accounts: status and pair
          near,     \* the stored pair is in its last five minutes, or past them
          inflight, \* Manager.inflight: who leads a refresh of this account
          pc,       \* where each goroutine is
          pair,     \* the pair each goroutine works with
          leader,   \* whose refresh a waiting goroutine waits for
          restarts
VARIABLES newest,   \* the platform: generation it accepts, per grant
          given,    \* the grants the person has given
          revoked   \* the grants the person has withdrawn
VARIABLE  lost      \* history: grants whose newest pair never got to the row

locals   == <<pc, pair, leader>>
process  == <<inflight, locals, restarts>>
platform == <<newest, given, revoked>>
vars     == <<account, near, process, platform, lost>>

\* The places of the goroutine that leads a refresh while the map names it, and
\* the two in which it is about to hand out an outcome.
Leading == {"refreshing", "saving", "marking", "renewed", "failed"}
Closing == {"closeRenewed", "closeFailed"}
Places  == {"idle", "reading", "validating", "joining", "waiting"} \cup Leading \cup Closing

TypeOK ==
  /\ account \in [status : {"ok", "reauth", "deleted"}, pair : Pair]
  /\ near \in BOOLEAN
  /\ inflight \in Procs \cup {NoOne}
  /\ pc \in [Procs -> Places]
  /\ pair \in [Procs -> Pair]
  /\ leader \in [Procs -> Procs]
  /\ restarts \in 0..MaxRestarts
  /\ newest \in [Grants -> 0..MaxGen]
  /\ given \subseteq Grants /\ revoked \subseteq given
  /\ lost \subseteq Grants

Idle == /\ pc = [p \in Procs |-> "idle"]
        /\ pair = [p \in Procs |-> First]
        /\ leader = [p \in Procs |-> p]

Init == /\ account = [status |-> "ok", pair |-> First] /\ near = FALSE
        /\ inflight = NoOne /\ Idle /\ restarts = 0
        /\ newest = [g \in Grants |-> 0]
        /\ given = {1} /\ revoked = {} /\ lost = {}

HasAccount == account.status # "deleted"

\* One goroutine moves on; those that return forget what they worked with.
Move(p, place) == pc' = [pc EXCEPT ![p] = place] /\ UNCHANGED <<pair, leader>>
Return(out)    == /\ pc'     = [q \in Procs |-> IF q \in out THEN "idle" ELSE pc[q]]
                  /\ pair'   = [q \in Procs |-> IF q \in out THEN First ELSE pair[q]]
                  /\ leader' = [q \in Procs |-> IF q \in out THEN q ELSE leader[q]]

-----------------------------------------------------------------------------
\* Token: the status first, the tokens in a second query.  An account in reauth,
\* or gone, is an error and nothing changes.
ReadStatus(c) ==
  /\ pc[c] = "idle"
  /\ account.status = "ok"
  /\ Move(c, "reading")
  /\ UNCHANGED <<account, near, inflight, restarts, platform, lost>>

\* A pair far from its expiry is returned as it is; another one is refreshed.
ReadTokens(c) ==
  /\ pc[c] = "reading"
  /\ IF HasAccount /\ near
       THEN /\ pair' = [pair EXCEPT ![c] = account.pair]
            /\ pc' = [pc EXCEPT ![c] = "joining"]
            /\ UNCHANGED leader
       ELSE Return({c})
  /\ UNCHANGED <<account, near, inflight, restarts, platform, lost>>

\* validarTodas: the list of accounts, then the tokens of each healthy one.
ListAccounts ==
  /\ pc[Validator] = "idle"
  /\ account.status = "ok"
  /\ Move(Validator, "reading")
  /\ UNCHANGED <<account, near, inflight, restarts, platform, lost>>

ReadToValidate ==
  /\ pc[Validator] = "reading"
  /\ IF HasAccount
       THEN /\ pair' = [pair EXCEPT ![Validator] = account.pair]
            /\ pc' = [pc EXCEPT ![Validator] = "validating"]
            /\ UNCHANGED leader
       ELSE Return({Validator})
  /\ UNCHANGED <<account, near, inflight, restarts, platform, lost>>

\* The platform may refuse an access token at any time (it expired, it was
\* superseded, the permission was withdrawn).
Validate401 ==
  /\ pc[Validator] = "validating"
  /\ Move(Validator, "joining")
  /\ UNCHANGED <<account, near, inflight, restarts, platform, lost>>

\* It accepts the token, or it cannot be reached.
ValidateLater ==
  /\ pc[Validator] = "validating"
  /\ Return({Validator})
  /\ UNCHANGED <<account, near, inflight, restarts, platform, lost>>

-----------------------------------------------------------------------------
\* Mutant: the goroutine refreshes without looking for a refresh in progress.
LeadAnyway(p) ==
  /\ pc[p] = "joining"
  /\ inflight' = p
  /\ Move(p, "refreshing")
  /\ UNCHANGED <<account, near, restarts, platform, lost>>

\* refresh, under the mutex: join the one in progress or lead a new one, with
\* the pair read before.
Join(p) ==
  /\ pc[p] = "joining"
  /\ IF inflight = NoOne
       THEN inflight' = p /\ Move(p, "refreshing")
       ELSE /\ leader' = [leader EXCEPT ![p] = inflight]
            /\ pc' = [pc EXCEPT ![p] = "waiting"]
            /\ UNCHANGED <<inflight, pair>>
  /\ UNCHANGED <<account, near, restarts, platform, lost>>

\* The context of a caller ends: only a wait hears it.
GiveUp(p) ==
  /\ pc[p] = "waiting"
  /\ Return({p})
  /\ UNCHANGED <<account, near, inflight, restarts, platform, lost>>

\* doRefresh has no refresh token, or the platform refuses it: marcarReauth.
CanRotate(p) == /\ pair[p].grant \notin BareGrants \cup revoked
                /\ pair[p].gen = newest[pair[p].grant]

Refused(p) ==
  /\ pc[p] = "refreshing"
  /\ ~CanRotate(p)
  /\ Move(p, "marking")
  /\ UNCHANGED <<account, near, inflight, restarts, platform, lost>>

\* The platform rotates the pair and its answer arrives.
Rotated(p) ==
  /\ pc[p] = "refreshing"
  /\ CanRotate(p) /\ pair[p].gen < MaxGen
  /\ newest' = [newest EXCEPT ![pair[p].grant] = @ + 1]
  /\ pair' = [pair EXCEPT ![p] = [grant |-> @.grant, gen |-> @.gen + 1]]
  /\ pc' = [pc EXCEPT ![p] = "saving"]
  /\ UNCHANGED <<account, near, inflight, leader, restarts, given, revoked, lost>>

\* The platform rotates the pair and its answer does not arrive in 30 seconds.
RotatedUnheard(p) ==
  /\ pc[p] = "refreshing"
  /\ CanRotate(p) /\ pair[p].gen < MaxGen
  /\ newest' = [newest EXCEPT ![pair[p].grant] = @ + 1]
  /\ lost' = lost \cup {pair[p].grant}
  /\ Move(p, "failed")
  /\ UNCHANGED <<account, near, inflight, restarts, given, revoked>>

\* No provider, unreadable credentials, or a platform out of reach: the account
\* is not blamed.
Unreachable(p) ==
  /\ pc[p] = "refreshing"
  /\ Move(p, "failed")
  /\ UNCHANGED <<account, near, inflight, restarts, platform, lost>>

Written(p)   == /\ HasAccount
                /\ account' = [status |-> "ok", pair |-> pair[p]]
                /\ near' = FALSE
                /\ Move(p, "renewed")
                /\ UNCHANGED <<inflight, restarts, platform, lost>>
Unwritten(p, place) == /\ lost' = lost \cup {pair[p].grant}
                       /\ Move(p, place)
                       /\ UNCHANGED <<account, near, inflight, restarts, platform>>

\* Mutant: the write is cancelled with the caller's context.
SaveForCaller(p) ==
  /\ pc[p] = "saving"
  /\ \/ Written(p)
     \/ Unwritten(p, "failed")
     \/ Move(p, "failed") /\ UNCHANGED <<account, near, inflight, restarts, platform, lost>>

\* Mutant: the error of the write is ignored and the token returned.
SaveUnchecked(p) == pc[p] = "saving" /\ (Written(p) \/ Unwritten(p, "renewed"))

\* SaveTokens writes the pair and the status in one statement; it fails if the
\* account is gone or the database refuses.
Save(p) == pc[p] = "saving" /\ (Written(p) \/ Unwritten(p, "failed"))

\* SetAccountStatus.
Mark(p) ==
  /\ pc[p] = "marking" /\ HasAccount
  /\ account' = [account EXCEPT !.status = "reauth"]
  /\ Move(p, "failed")
  /\ UNCHANGED <<near, inflight, restarts, platform, lost>>

\* It fails like SaveTokens.
MarkFails(p) ==
  /\ pc[p] = "marking"
  /\ Move(p, "failed")
  /\ UNCHANGED <<account, near, inflight, restarts, platform, lost>>

\* The end of refresh: out of the map under the mutex ...
Forget(p) ==
  /\ pc[p] \in {"renewed", "failed"}
  /\ inflight' = NoOne
  /\ Move(p, IF pc[p] = "renewed" THEN "closeRenewed" ELSE "closeFailed")
  /\ UNCHANGED <<account, near, restarts, platform, lost>>

WaitingFor(p) == {q \in Procs : pc[q] = "waiting" /\ leader[q] = p}

\* Mutant: the leader returns without waking those who wait for it.
CloseAlone(p) ==
  /\ pc[p] \in Closing
  /\ Return({p})
  /\ UNCHANGED <<account, near, inflight, restarts, platform, lost>>

\* ... and close(hecho), which hands the outcome to all who wait.
Close(p) ==
  /\ pc[p] \in Closing
  /\ Return({p} \cup WaitingFor(p))
  /\ UNCHANGED <<account, near, inflight, restarts, platform, lost>>

-----------------------------------------------------------------------------
\* UpsertAccount at the end of an authorisation: a new grant, status ok.
Reconnect(g) ==
  /\ g \in Grants \ given /\ HasAccount
  /\ given' = given \cup {g}
  /\ account' = [status |-> "ok", pair |-> [grant |-> g, gen |-> 0]]
  /\ near' = FALSE
  /\ UNCHANGED <<process, newest, revoked, lost>>

\* DeleteAccount.
DeleteAccount == /\ HasAccount
          /\ account' = [account EXCEPT !.status = "deleted"]
          /\ UNCHANGED <<near, process, platform, lost>>

\* The person withdraws the permission on the platform's own pages.
Revoke(g) == /\ g \in given \ revoked
             /\ revoked' = revoked \cup {g}
             /\ UNCHANGED <<account, near, process, newest, given, lost>>

\* Time passes: refreshBefore before the expiry.
Age == /\ ~near
       /\ near' = TRUE
       /\ UNCHANGED <<account, process, platform, lost>>

\* The process dies and starts again: an answer not yet written goes with it.
Restart ==
  /\ restarts < MaxRestarts
  /\ restarts' = restarts + 1
  /\ lost' = lost \cup {pair[p].grant : p \in {q \in Procs : pc[q] = "saving"}}
  /\ inflight' = NoOne
  /\ Return(Procs)
  /\ UNCHANGED <<account, near, platform>>

-----------------------------------------------------------------------------
Refresh(p) == \/ Join(p) \/ Refused(p) \/ Rotated(p) \/ RotatedUnheard(p)
              \/ Unreachable(p) \/ Save(p) \/ Mark(p) \/ MarkFails(p)
              \/ Forget(p) \/ Close(p)
Validate   == ListAccounts \/ ReadToValidate \/ Validate401 \/ ValidateLater
Person     == (\E g \in Grants : Reconnect(g) \/ Revoke(g)) \/ DeleteAccount \/ Age

Next == \/ \E c \in Callers : ReadStatus(c) \/ ReadTokens(c)
        \/ Validate
        \/ \E p \in Procs : Refresh(p) \/ GiveUp(p)
        \/ Person \/ Restart

Spec == Init /\ [][Next]_vars

\* Every step of a goroutine is taken in the end (requests to the platform have a
\* deadline); Run comes round every hour; a platform that is asked again and
\* again answers some time, and so does the database.
FairSpec == /\ Spec
            /\ \A p \in Procs : WF_vars(Refresh(p))
            /\ \A c \in Callers : WF_vars(ReadTokens(c))
            /\ WF_vars(Validate) /\ SF_vars(Validate401)
            /\ SF_vars(\E p \in Procs : Refused(p))
            /\ SF_vars(\E p \in Procs : Mark(p))

-----------------------------------------------------------------------------
\* One refresh at a time: the map names the only goroutine inside doRefresh, so
\* two never offer a rotating token to the platform together.
SingleFlight ==
  /\ \A p \in Procs : pc[p] \in Leading => inflight = p
  /\ inflight \in Procs => pc[inflight] \in Leading

\* A rotation survives whoever asked for it: what is stored is the newest pair of
\* its grant, unless the answer is about to be written or was lost on the way.
StoredPairUsable ==
  \/ account.status = "deleted"
  \/ account.pair.gen = newest[account.pair.grant]
  \/ account.pair.grant \in lost
  \/ \E p \in Procs : pc[p] = "saving" /\ pair[p].grant = account.pair.grant

\* A renewed token is stored before anybody gets it: from the moment the leader
\* may hand it out, the row holds it or something that came later.
HandedWereStored ==
  \A p \in Procs : pc[p] \in {"renewed", "closeRenewed"} =>
    \/ account.status = "deleted"
    \/ account.pair.grant # pair[p].grant
    \/ account.pair.gen >= pair[p].gen

\* Whoever waits for another's refresh is let go, with its outcome or by its own
\* deadline, and the goroutine that leads it always gets to the end; and a permission
\* withdrawn on the platform ends as an account marked for reconnection, without
\* anybody using the account.
Unnoticed == account.status = "ok" /\ account.pair.grant \in revoked
TokensSettle ==
  /\ \A p \in Procs : (pc[p] \in {"waiting", "joining"} \cup Leading) ~> (pc[p] = "idle")
  /\ Unnoticed ~> ~Unnoticed

\* An account is marked for reconnection when nothing else can be done: never
\* while the stored refresh token is one the platform accepts.
ReauthIsLastResort ==
  account.status = "reauth" =>
    \/ account.pair.grant \in revoked \cup lost \cup BareGrants
    \/ account.pair.gen # newest[account.pair.grant]
=============================================================================
