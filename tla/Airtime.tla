------------------------------- MODULE Airtime -------------------------------
(***************************************************************************)
(* What the engine promises about sessions (internal/relay/engine.go,      *)
(* ErrSessionInProgress and the comments of startSession and OnPublishEnd):*)
(* one publisher at a time is on the air, it opens one session row and     *)
(* writes no other, and it leaves only once its row has been written.      *)
(***************************************************************************)
CONSTANTS Publishers,
          Rows \* ids a session can have

VARIABLES holders, \* the publishers on the air: none or one
          current, \* the row of the session in course: none or one
          open     \* rows whose end has not been written

vars == <<holders, current, open>>

Init == holders = {} /\ current = {} /\ open = {}

Take(p) == /\ holders = {}
           /\ holders' = {p}
           /\ UNCHANGED <<current, open>>

Begin(r) == /\ holders # {}
            /\ current = {}
            /\ r \notin open
            /\ current' = {r}
            /\ open' = open \cup {r}
            /\ UNCHANGED holders

End == /\ holders # {}
       /\ open' = open \ current
       /\ UNCHANGED <<holders, current>>

Release == /\ holders # {}
           /\ holders' = {}
           /\ current' = {}
           /\ UNCHANGED open

Next == \/ \E p \in Publishers : Take(p)
        \/ \E r \in Rows : Begin(r)
        \/ End \/ Release

Spec == Init /\ [][Next]_vars
=============================================================================
