---------------------------- MODULE YouTubeChat ----------------------------
(***************************************************************************)
(* ReadChat of YouTube (platforms/youtube/chat.go): there is nothing to    *)
(* listen to, so one goroutine looks for the active broadcast and then     *)
(* asks for its chat page after page, each with the token of the page      *)
(* before.  Every call costs quota of the account's day, which the panel   *)
(* spends too; the pages stop at a budget.  Time is counted in waits, and  *)
(* a message is its place in the chat of its broadcast.                    *)
(***************************************************************************)
EXTENDS Integers, Sequences, FiniteSets, FiniteSetsExt

CONSTANTS MaxBroadcasts, \* bound: broadcasts of the account, one after another
          MaxPosts,      \* bound: messages of one chat
          GiveUp,        \* waits without a broadcast before the search ends
          ListCost, PageCost, PanelCost,  \* units of quota a call costs
          Budget,        \* units at which the pages stop
          QuotaMax       \* bound: units of a day that are told apart

ASSUME YouTubeConstants ==
  /\ \A n \in {MaxBroadcasts, MaxPosts, GiveUp, ListCost, PageCost, PanelCost} : n \in Nat \ {0}
  /\ Budget \in Nat /\ QuotaMax \in Nat /\ QuotaMax > Budget + PageCost

VARIABLES ytPlace,    \* where ReadChat is
          ytOver,     \* ctx has ended
          chat,       \* the broadcast whose chat is read, 0 none
          pageToken,  \* how far the pages have got, 0 without a token
          waited      \* waits of the search for a broadcast
VARIABLES onAir,      \* YouTube: the active broadcast, 0 none
          lastOne,    \* ... the last one that was
          posts,      \* ... messages of the chat of the active one, or of the last
          used        \* units of quota spent today
VARIABLES sent,       \* history: what the reader gave the aggregator of this chat
          pages,      \* history: units its pages cost today
          blind       \* history: a page of today was asked for with the quota unread

ytReader == <<ytPlace, chat, pageToken, waited>>
youtube  == <<onAir, lastOne, posts>>
ytPast   == <<sent, pages, blind>>
ytVars   == <<ytReader, ytOver, youtube, used, ytPast>>

YtTypeOK ==
  /\ ytPlace \in {"searching", "pausing", "polling", "asking", "returned"}
  /\ ytOver \in BOOLEAN /\ blind \in BOOLEAN
  /\ {chat, onAir, lastOne} \subseteq 0..MaxBroadcasts
  /\ pageToken \in 0..MaxPosts /\ posts \in 0..MaxPosts /\ waited \in 0..GiveUp
  /\ used \in 0..QuotaMax /\ pages \in 0..QuotaMax
  /\ sent \in Seq(1..MaxPosts)

YtInit ==
  /\ ytPlace = "searching" /\ ytOver = FALSE /\ chat = 0 /\ pageToken = 0 /\ waited = 0
  /\ onAir = 0 /\ lastOne = 0 /\ posts = 0 /\ used = 0
  /\ sent = <<>> /\ pages = 0 /\ blind = FALSE

Spend(units) == used' = Min({used + units, QuotaMax})
YtOver == ytOver

-----------------------------------------------------------------------------
\* The world: broadcasts start and end, people write, the panel spends quota, the
\* session and the day end.
GoesOnAir ==
  /\ onAir = 0 /\ lastOne < MaxBroadcasts
  /\ onAir' = lastOne + 1 /\ lastOne' = lastOne + 1 /\ posts' = 0
  /\ UNCHANGED <<ytReader, ytOver, used, ytPast>>

GoesOffAir ==
  /\ onAir # 0 /\ onAir' = 0
  /\ UNCHANGED <<ytReader, ytOver, lastOne, posts, used, ytPast>>

SomeoneWrites ==
  /\ onAir # 0 /\ posts < MaxPosts
  /\ posts' = posts + 1
  /\ UNCHANGED <<ytReader, ytOver, onAir, lastOne, used, ytPast>>

PanelSpends ==
  /\ Spend(PanelCost)
  /\ UNCHANGED <<ytReader, ytOver, youtube, ytPast>>

NewDay ==
  /\ used' = 0 /\ pages' = 0
  /\ blind' = (blind /\ ytPlace = "asking") \* the page in flight is of the new day
  /\ UNCHANGED <<ytReader, ytOver, youtube, sent>>

YtSessionEnds ==
  /\ ~ytOver /\ ytOver' = TRUE
  /\ UNCHANGED <<ytReader, youtube, used, ytPast>>

-----------------------------------------------------------------------------
\* buscarEmisionActiva.  The chat of the broadcast that is found is read from its
\* beginning.
Found ==
  /\ ytPlace = "searching" /\ onAir # 0
  /\ Spend(ListCost)
  /\ ytPlace' = "polling" /\ chat' = onAir /\ pageToken' = 0 /\ waited' = 0
  /\ sent' = <<>>
  /\ UNCHANGED <<ytOver, youtube, pages, blind>>

\* Without one the search waits, and gives up when it has waited long enough.
NotFound ==
  /\ ytPlace = "searching" /\ onAir = 0
  /\ Spend(ListCost)
  /\ ytPlace' = IF waited >= GiveUp THEN "returned" ELSE "pausing"
  /\ UNCHANGED <<chat, pageToken, waited, ytOver, youtube, ytPast>>

\* A failure that is not the account's is tried again after a wait.
SearchFails ==
  /\ ytPlace = "searching"
  /\ Spend(ListCost)
  /\ ytPlace' = "pausing"
  /\ UNCHANGED <<chat, pageToken, waited, ytOver, youtube, ytPast>>

\* The end of a wait: the call it put off is made again.
PauseEnds ==
  /\ ytPlace = "pausing" /\ ~YtOver
  /\ IF chat = 0 THEN ytPlace' = "searching" /\ waited' = Min({waited + 1, GiveUp})
                 ELSE ytPlace' = "polling" /\ UNCHANGED waited
  /\ UNCHANGED <<chat, pageToken, ytOver, youtube, used, ytPast>>

\* No token, 401, 403 quotaExceeded: ReadChat returns the error.
Refused ==
  /\ ytPlace \in {"searching", "asking"}
  /\ \/ Spend(IF ytPlace = "searching" THEN ListCost ELSE PageCost)
     \/ UNCHANGED used
  /\ ytPlace' = "returned"
  /\ UNCHANGED <<chat, pageToken, waited, ytOver, youtube, ytPast>>

-----------------------------------------------------------------------------
\* Mutant: the cost of the page about to be asked for is left out.
BudgetOffByOne ==
  /\ ytPlace = "polling"
  /\ ytPlace' = IF used > Budget THEN "returned" ELSE "asking"
  /\ UNCHANGED <<chat, pageToken, waited, ytOver, youtube, used, ytPast>>

\* sondearChat: the budget is looked at before each page; past it, ReadChat ends.
BudgetChecked ==
  /\ ytPlace = "polling"
  /\ ytPlace' = IF used + PageCost > Budget THEN "returned" ELSE "asking"
  /\ UNCHANGED <<chat, pageToken, waited, ytOver, youtube, used, ytPast>>

\* It cannot be read: the page is asked for all the same.
BudgetUnread ==
  /\ ytPlace = "polling"
  /\ ytPlace' = "asking" /\ blind' = TRUE
  /\ UNCHANGED <<chat, pageToken, waited, ytOver, youtube, used, sent, pages>>

ChargePage == Spend(PageCost) /\ pages' = Min({pages + PageCost, QuotaMax})

\* chatPage: what was written since the page before, and the next token.
PageOk ==
  /\ ytPlace = "asking" /\ chat = lastOne
  /\ ChargePage
  /\ sent' = sent \o [i \in 1..(posts - pageToken) |-> pageToken + i]
  /\ pageToken' = posts
  /\ ytPlace' = "pausing"
  /\ UNCHANGED <<chat, waited, ytOver, youtube, blind>>

\* offlineAt with the last page, or a chat that has ended: another broadcast is
\* looked for.
ChatEnds ==
  /\ ytPlace = "asking" /\ onAir # chat
  /\ ChargePage
  /\ sent' = <<>>
  /\ ytPlace' = "searching" /\ chat' = 0 /\ pageToken' = 0 /\ waited' = 0
  /\ UNCHANGED <<ytOver, youtube, blind>>

\* Mutant: a page that fails is asked for again from the beginning of the chat.
PageForgets ==
  /\ ytPlace = "asking"
  /\ ChargePage
  /\ ytPlace' = "pausing" /\ pageToken' = 0
  /\ UNCHANGED <<chat, waited, ytOver, youtube, sent, blind>>

\* Any other failure: the same page is asked for again after a wait.
PageFails ==
  /\ ytPlace = "asking"
  /\ ChargePage
  /\ ytPlace' = "pausing"
  /\ UNCHANGED <<chat, pageToken, waited, ytOver, youtube, sent, blind>>

\* ctx.Done, wherever ReadChat is.
YtCancelled ==
  /\ YtOver /\ ytPlace # "returned"
  /\ ytPlace' = "returned"
  /\ UNCHANGED <<chat, pageToken, waited, ytOver, youtube, used, ytPast>>

YtNext ==
  \/ GoesOnAir \/ GoesOffAir \/ SomeoneWrites \/ PanelSpends \/ NewDay \/ YtSessionEnds
  \/ Found \/ NotFound \/ SearchFails \/ PauseEnds \/ Refused
  \/ BudgetChecked \/ BudgetUnread \/ PageOk \/ ChatEnds \/ PageFails \/ YtCancelled

YtSpec == YtInit /\ [][YtNext]_ytVars

\* Waits and calls end when the context does.
YtFairness == WF_ytVars(YtCancelled)

-----------------------------------------------------------------------------
\* Of the chat that is being read, every message up to the token has been given
\* to the aggregator once and in order, however many pages failed in between; and
\* its pages of one day stay within the budget, whatever the panel spends
\* meanwhile, if the quota could be read before each.
YouTubePages ==
  /\ YtTypeOK
  /\ sent = [i \in 1..pageToken |-> i]
  /\ ~blind => pages <= Budget
=============================================================================
