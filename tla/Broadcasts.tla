----------------------------- MODULE Broadcasts -----------------------------
(***************************************************************************)
(* A destination, the account it is linked to and the broadcast the        *)
(* platform made for it: three rows of the database and an object of the   *)
(* platform, which the panel's requests change in several steps            *)
(* (httpapi/broadcasts.go, destinations.go and platforms.go, with the      *)
(* statements of internal/store and the calls of platforms/youtube).       *)
(* A request talks to the platform for up to a minute and a half between   *)
(* reading the rows and writing them; any call may fail, with or without   *)
(* effect on the platform, and the process may die between two.            *)
(*                                                                         *)
(* The key a broadcast comes with has the broadcast's number, and one      *)
(* typed by a person is 0.  The accounts are of one platform, which knows  *)
(* how to make broadcasts (YouTube); names, titles and what applyHot does  *)
(* with the engine (HotApply) are left out.                                *)
(***************************************************************************)
EXTENDS Integers, FiniteSets

CONSTANTS Targets,    \* rows of destinations there may ever be
          Channels, \* platform accounts
          Asks,     \* requests served at the same time
          MaxRefs   \* bound: broadcasts the platform makes

ASSUME BroadcastConstants ==
  IsFiniteSet(Targets) /\ IsFiniteSet(Channels) /\ IsFiniteSet(Asks) /\ MaxRefs \in Nat

NoAccount == "none"
Keep      == "keep"   \* the patch does not name an account
Refs      == 1..MaxRefs
ByHand    == 0

VARIABLES dest,     \* destinations, with the key and the account they are linked to
          row,      \* destination_broadcasts
          accounts, \* platform_accounts
          made,     \* the broadcasts of the platform
          ask,      \* the requests
          onePanel, \* whoever uses the panel waits for each answer before the next request
          halfMade  \* history: destinations whose creation from an account has not ended well,
                    \* less those a failed clean-up or the death of the process left behind
bcVars == <<dest, row, accounts, made, ask, onePanel, halfMade>>

NoAsk  == [op |-> "none", at |-> "free", dest |-> "none", acct |-> NoAccount, ref |-> 0]
NoRow == [ref |-> 0, account |-> NoAccount, status |-> "none"]
Unmade == [state |-> "none", owner |-> NoAccount]
New   == [at |-> "none", key |-> ByHand, account |-> NoAccount]

BcTypeOK ==
  /\ dest \in [Targets -> [at : {"none", "there", "deleted"}, key : 0..MaxRefs,
                         account : Channels \cup {NoAccount}]]
  /\ row \in [Targets -> [ref : 0..MaxRefs, account : Channels \cup {NoAccount},
                        status : {"none", "created", "live", "complete"}]]
  /\ accounts \subseteq Channels
  /\ made \in [Refs -> [state : {"none", "made", "live", "complete"},
                        owner : Channels \cup {NoAccount}]]
  /\ \A q \in Asks : ask[q].at = "free" <=> ask[q] = NoAsk
  /\ onePanel \in BOOLEAN /\ halfMade \subseteq Targets

BcInit ==
  /\ dest \in [Targets -> {New} \cup [at : {"there"}, key : {ByHand},
                                    account : Channels \cup {NoAccount}]]
  /\ row = [d \in Targets |-> NoRow] /\ accounts = Channels
  /\ made = [n \in Refs |-> Unmade]
  /\ ask = [q \in Asks |-> NoAsk]
  /\ onePanel \in BOOLEAN /\ halfMade = {}

Exists(d)     == dest[d].at = "there"
IsAt(q, op, place) == ask[q].op = op /\ ask[q].at = place
To(q, place) == ask' = [ask EXCEPT ![q].at = place]
AskOver(q)      == ask' = [ask EXCEPT ![q] = NoAsk]
NewAsk(q, r) ==
  /\ ask[q] = NoAsk /\ (onePanel => \A o \in Asks : ask[o] = NoAsk)
  /\ ask' = [ask EXCEPT ![q] = r]
\* ON DELETE CASCADE of a destination's row
DropDest(d)  == /\ dest' = [dest EXCEPT ![d] = [New EXCEPT !.at = "deleted"]]
                /\ row' = [row EXCEPT ![d] = NoRow]

-----------------------------------------------------------------------------
\* What a request reads before it talks to the platform.
AsksFromAccount(q) ==
  /\ \E a \in accounts : NewAsk(q, [NoAsk EXCEPT !.op = "create", !.at = "insert", !.acct = a])
  /\ UNCHANGED <<dest, row, accounts, made, onePanel, halfMade>>

AsksBroadcast(q) ==
  /\ \E d \in Targets :
       /\ Exists(d) /\ dest[d].account # NoAccount
       /\ NewAsk(q, [NoAsk EXCEPT !.op = "renew", !.at = "insert", !.dest = d,
                                  !.acct = dest[d].account])
  /\ UNCHANGED <<dest, row, accounts, made, onePanel, halfMade>>

AsksTransition(q) ==
  /\ \E d \in Targets, op \in {"live", "complete"} :
       /\ row[d] # NoRow /\ dest[d].account # NoAccount
       /\ NewAsk(q, [op |-> op, at |-> "transition", dest |-> d, acct |-> dest[d].account,
                      ref |-> row[d].ref])
  /\ UNCHANGED <<dest, row, accounts, made, onePanel, halfMade>>

\* UpdateDestination comes first, with whatever the patch has for the row; the account
\* after it, in steps of their own.
AsksPatch(q) ==
  /\ \E d \in Targets, account \in accounts \cup {NoAccount, Keep} :
       /\ Exists(d)
       /\ NewAsk(q, IF account = Keep THEN NoAsk
                     ELSE [NoAsk EXCEPT !.op = "patch", !.at = "read", !.dest = d, !.acct = account])
       /\ \E key \in {ByHand, dest[d].key} : dest' = [dest EXCEPT ![d].key = key]
  /\ UNCHANGED <<row, accounts, made, onePanel, halfMade>>

AsksDeleteAccount(q) ==
  /\ \E a \in accounts : NewAsk(q, [NoAsk EXCEPT !.op = "forget", !.at = "clear", !.acct = a])
  /\ UNCHANGED <<dest, row, accounts, made, onePanel, halfMade>>

DeletesDestination(q) ==
  /\ NewAsk(q, NoAsk) /\ \E d \in Targets : Exists(d) /\ DropDest(d)
  /\ UNCHANGED <<accounts, made, onePanel, halfMade>>

\* Any call may fail: the request is over, and what it wrote stays.  A destination
\* being created has its own way out.
Fails(q) ==
  /\ ask[q] # NoAsk /\ ask[q].at \notin {"link", "note", "undo"}
  /\ AskOver(q)
  /\ UNCHANGED <<dest, row, accounts, made, onePanel, halfMade>>

-----------------------------------------------------------------------------
\* CreateBroadcast of the platform: insert, then the stream and bind.  An insert
\* without an answer, or a bind that fails, leaves a broadcast that nobody knows of.
Unmades == {n \in Refs : made[n] = Unmade}

Inserts(q) ==
  /\ ask[q].at = "insert" /\ Unmades # {}
  /\ LET n == CHOOSE m \in Unmades : \A o \in Unmades : m <= o IN
       /\ made' = [made EXCEPT ![n] = [state |-> "made", owner |-> ask[q].acct]]
       /\ \/ ask' = [ask EXCEPT ![q].at = "bind", ![q].ref = n]
          \/ AskOver(q)
  /\ UNCHANGED <<dest, row, accounts, onePanel, halfMade>>

Binds(q) ==
  /\ ask[q].at = "bind" /\ To(q, IF ask[q].op = "create" THEN "store" ELSE "commit")
  /\ UNCHANGED <<dest, row, accounts, made, onePanel, halfMade>>

\* The broadcast goes on the air and ends with the video it is bound to.
AutoStarts(n) ==
  /\ made[n].state = "made" /\ \E d \in Targets : Exists(d) /\ dest[d].key = n
  /\ made' = [made EXCEPT ![n].state = "live"]
  /\ UNCHANGED <<dest, row, accounts, ask, onePanel, halfMade>>

AutoStops(n) ==
  /\ made[n].state = "live" /\ made' = [made EXCEPT ![n].state = "complete"]
  /\ UNCHANGED <<dest, row, accounts, ask, onePanel, halfMade>>

-----------------------------------------------------------------------------
\* handleCreateDestinationFromAccount: three writes, each undone by hand.
StoresDestination(q) ==
  /\ ask[q].at = "store"
  /\ \E d \in Targets :
       /\ dest[d].at = "none"
       /\ dest' = [dest EXCEPT ![d] = [New EXCEPT !.at = "there", !.key = ask[q].ref]]
       /\ ask' = [ask EXCEPT ![q].at = "link", ![q].dest = d]
       /\ halfMade' = halfMade \cup {d}
  /\ UNCHANGED <<row, accounts, made, onePanel>>

CanLink(d, a) == Exists(d) /\ a \in accounts
LinkTo(d, a)  == dest' = [dest EXCEPT ![d].account = a]

Links(q) ==
  /\ ask[q].at = "link"
  /\ \/ CanLink(ask[q].dest, ask[q].acct) /\ LinkTo(ask[q].dest, ask[q].acct) /\ To(q, "note")
     \/ To(q, "undo") /\ UNCHANGED dest
  /\ UNCHANGED <<row, accounts, made, onePanel, halfMade>>

\* SetBroadcast: the foreign keys of the row need both.
SetBroadcast(d, a, n) == row' = [row EXCEPT ![d] = [ref |-> n, account |-> a, status |-> "created"]]

\* Mutant: the failure of the last write is only answered.
NotesOrNot(q) ==
  /\ ask[q].at = "note"
  /\ LET d == ask[q].dest a == ask[q].acct IN
       \/ CanLink(d, a) /\ SetBroadcast(d, a, ask[q].ref) /\ AskOver(q) /\ halfMade' = halfMade \ {d}
       \/ AskOver(q) /\ UNCHANGED <<row, halfMade>>
  /\ UNCHANGED <<dest, accounts, made, onePanel>>

Notes(q) ==
  /\ ask[q].at = "note"
  /\ LET d == ask[q].dest a == ask[q].acct IN
       \/ CanLink(d, a) /\ SetBroadcast(d, a, ask[q].ref) /\ AskOver(q) /\ halfMade' = halfMade \ {d}
       \/ To(q, "undo") /\ UNCHANGED <<row, halfMade>>
  /\ UNCHANGED <<dest, accounts, made, onePanel>>

\* borrarDestinoAMedias: it may fail too, and then the destination stays.
Undoes(q) ==
  /\ ask[q].at = "undo" /\ AskOver(q) /\ halfMade' = halfMade \ {ask[q].dest}
  /\ \/ Exists(ask[q].dest) /\ DropDest(ask[q].dest)
     \/ UNCHANGED <<dest, row>>
  /\ UNCHANGED <<accounts, made, onePanel>>

\* Mutant: the key and the broadcast are written one after the other, and the second fails.
CommitsHalf(q) ==
  /\ ask[q].at = "commit" /\ CanLink(ask[q].dest, ask[q].acct)
  /\ SetBroadcast(ask[q].dest, ask[q].acct, ask[q].ref)
  /\ \/ UNCHANGED dest \/ dest' = [dest EXCEPT ![ask[q].dest].key = ask[q].ref]
  /\ AskOver(q)
  /\ UNCHANGED <<accounts, made, onePanel, halfMade>>

\* handleCreateBroadcast: the broadcast and the key that goes with it, in a transaction.
Commits(q) ==
  /\ ask[q].at = "commit" /\ CanLink(ask[q].dest, ask[q].acct)
  /\ SetBroadcast(ask[q].dest, ask[q].acct, ask[q].ref)
  /\ dest' = [dest EXCEPT ![ask[q].dest].key = ask[q].ref]
  /\ AskOver(q)
  /\ UNCHANGED <<accounts, made, onePanel, halfMade>>

-----------------------------------------------------------------------------
\* StartBroadcast, retried while the signal has not arrived, and EndBroadcast, to which
\* a broadcast that is not on the air is as good as ended.  The platform answers only to
\* the account that made the broadcast; its answer may be lost (Fails).
Transitions(q) ==
  /\ ask[q].at = "transition"
  /\ LET n == ask[q].ref IN
       /\ made[n].owner = ask[q].acct
       /\ \/ ask[q].op = "live" /\ made[n].state = "made" /\ made' = [made EXCEPT ![n].state = "live"]
          \/ ask[q].op = "complete" /\ made[n].state = "live"
             /\ made' = [made EXCEPT ![n].state = "complete"]
          \/ ask[q].op = "complete" /\ made[n].state # "live" /\ UNCHANGED made
  /\ (To(q, "stamp") \/ AskOver(q))
  /\ UNCHANGED <<dest, row, accounts, onePanel, halfMade>>

\* SetBroadcastStatus: whatever broadcast the destination has by now.
Stamps(q) ==
  /\ ask[q].at = "stamp"
  /\ LET d == ask[q].dest IN
       row' = IF row[d] = NoRow THEN row ELSE [row EXCEPT ![d].status = ask[q].op]
  /\ AskOver(q)
  /\ UNCHANGED <<dest, accounts, made, onePanel, halfMade>>

-----------------------------------------------------------------------------
\* handlePatchDestination with an account, or with null: the broadcast is read, cleared
\* if it is another account's, and the link changed.
PatchReads(q) ==
  /\ IsAt(q, "patch", "read")
  /\ LET b == row[ask[q].dest] IN
       To(q, IF b # NoRow /\ b.account # ask[q].acct THEN "clear" ELSE "relink")
  /\ UNCHANGED <<dest, row, accounts, made, onePanel, halfMade>>

PatchClears(q) ==
  /\ IsAt(q, "patch", "clear")
  /\ row' = [row EXCEPT ![ask[q].dest] = NoRow] /\ To(q, "relink")
  /\ UNCHANGED <<dest, accounts, made, onePanel, halfMade>>

PatchRelinks(q) ==
  /\ ask[q].at = "relink"
  /\ LET d == ask[q].dest a == ask[q].acct IN
       IF Exists(d) /\ (a = NoAccount \/ a \in accounts) THEN LinkTo(d, a) ELSE UNCHANGED dest
  /\ AskOver(q)
  /\ UNCHANGED <<row, accounts, made, onePanel, halfMade>>

\* handleDeleteAccount: each broadcast is cleared, then the account goes, and by the
\* foreign keys its links and what broadcasts were written meanwhile.
ForgetClears(q) ==
  /\ IsAt(q, "forget", "clear")
  /\ \/ \E d \in Targets : /\ dest[d].account = ask[q].acct /\ row[d] # NoRow
                         /\ row' = [row EXCEPT ![d] = NoRow] /\ UNCHANGED ask
     \/ To(q, "delete") /\ UNCHANGED row
  /\ UNCHANGED <<dest, accounts, made, onePanel, halfMade>>

DeletesAccount(q) ==
  /\ IsAt(q, "forget", "delete")
  /\ LET a == ask[q].acct IN
       /\ accounts' = accounts \ {a}
       /\ dest' = [d \in Targets |-> IF dest[d].account = a THEN [dest[d] EXCEPT !.account = NoAccount]
                                                          ELSE dest[d]]
       /\ row' = [d \in Targets |-> IF row[d].account = a THEN NoRow ELSE row[d]]
  /\ AskOver(q)
  /\ UNCHANGED <<made, onePanel, halfMade>>

\* The process dies and starts again: the requests are gone, the rows are not.
Dies ==
  /\ \E q \in Asks : ask[q] # NoAsk
  /\ ask' = [q \in Asks |-> NoAsk] /\ halfMade' = {}
  /\ UNCHANGED <<dest, row, accounts, made, onePanel>>

BcNext ==
  \/ Dies
  \/ \E n \in Refs : AutoStarts(n) \/ AutoStops(n)
  \/ \E q \in Asks :
       \/ AsksFromAccount(q) \/ AsksBroadcast(q) \/ AsksTransition(q) \/ AsksPatch(q)
       \/ AsksDeleteAccount(q) \/ DeletesDestination(q) \/ Fails(q)
       \/ Inserts(q) \/ Binds(q) \/ StoresDestination(q) \/ Links(q) \/ Notes(q) \/ Undoes(q)
       \/ Commits(q) \/ Transitions(q) \/ Stamps(q)
       \/ PatchReads(q) \/ PatchClears(q) \/ PatchRelinks(q)
       \/ ForgetClears(q) \/ DeletesAccount(q)

BcSpec == BcInit /\ [][BcNext]_bcVars

-----------------------------------------------------------------------------
OfItsAccount(d) == row[d] # NoRow => row[d].account = dest[d].account

\* A destination made from an account is whole or gone when its request is answered,
\* unless the clean-up failed or the process died.
NoHalfMadeDestination ==
  \A d \in halfMade : Exists(d) => \E q \in Asks : ask[q].op = "create" /\ ask[q].dest = d

\* While whoever uses the panel waits for each answer, the three rows agree after every
\* step of every request, with whatever failure or restart in between: a destination's
\* broadcast is of the account it is linked to, its key is the broadcast's or one typed
\* since, and it is marked live only if the platform took it live.  However many
\* requests overlap, no broadcast outlives its destination or its account, and no
\* request that is answered leaves a destination half made.
RowsAgree ==
  /\ BcTypeOK
  /\ \A d \in Targets : row[d] # NoRow => Exists(d) /\ row[d].account \in accounts
  /\ onePanel => \A d \in Targets : row[d] # NoRow =>
       /\ OfItsAccount(d)
       /\ dest[d].key \in {row[d].ref, ByHand}
       /\ row[d].status = "live" => made[row[d].ref].state \in {"live", "complete"}
  /\ NoHalfMadeDestination

\* The broadcast of a destination is of the account it is linked to (the comment of
\* handlePatchDestination: otherwise ending it would be asked of the wrong account).
BroadcastOfLinkedAccount == \A d \in Targets : OfItsAccount(d)
=============================================================================
