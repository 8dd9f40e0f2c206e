----------------------------- MODULE GopChannel -----------------------------
(***************************************************************************)
(* What the deque of a sink promises about the video track, without        *)
(* limits, bytes or clocks: frames may be lost only as a whole tail, and   *)
(* after a loss nothing passes until the next keyframe.  A decoder that    *)
(* reads the channel therefore meets every inter frame right after the     *)
(* frame it depends on.                                                    *)
(*                                                                         *)
(* Frames are numbered in publication order from 1.                        *)
(***************************************************************************)
EXTENDS Integers, Sequences

VARIABLES published,  \* number of the last frame offered
          pending,    \* frames accepted and not yet taken
          synced,     \* FALSE from a loss until the next keyframe
          last,       \* the last frame taken, NoFrame before the first
          closed

chan == <<published, pending, synced, last, closed>>

Frame   == [n : Nat \ {0}, key : BOOLEAN]
NoFrame == [n |-> 0, key |-> FALSE]

Init == /\ published = 0
        /\ pending = <<>>
        /\ synced = TRUE
        /\ last = NoFrame
        /\ closed = FALSE

NextFrame(key) == [n |-> published + 1, key |-> key]

\* The frame joins the channel: always while synced, else only if a keyframe.
Accept(key) ==
  /\ ~closed
  /\ synced \/ key
  /\ published' = published + 1
  /\ pending' = Append(pending, NextFrame(key))
  /\ synced' = TRUE
  /\ UNCHANGED <<last, closed>>

\* An inter frame is turned away while the channel waits for a keyframe, and
\* any frame once the channel is closed.
Refuse(key) ==
  /\ closed \/ (~synced /\ ~key)
  /\ published' = published + 1
  /\ UNCHANGED <<pending, synced, last, closed>>

\* The frame overflows the channel: it goes, with everything pending.
Overflow(key) ==
  /\ ~closed
  /\ synced \/ key
  /\ published' = published + 1
  /\ pending' = <<>>
  /\ synced' = FALSE
  /\ UNCHANGED <<last, closed>>

\* Another track overflows the channel: everything pending goes.
Lose ==
  /\ ~closed
  /\ pending' = <<>>
  /\ synced' = FALSE
  /\ UNCHANGED <<published, last, closed>>

Take ==
  /\ pending # <<>>
  /\ last' = Head(pending)
  /\ pending' = Tail(pending)
  /\ UNCHANGED <<published, synced, closed>>

Close ==
  /\ ~closed
  /\ closed' = TRUE
  /\ pending' = <<>>
  /\ UNCHANGED <<published, synced, last>>

Next == \/ \E key \in BOOLEAN : Accept(key) \/ Refuse(key) \/ Overflow(key)
        \/ Lose \/ Take \/ Close

Spec == Init /\ [][Next]_chan

-----------------------------------------------------------------------------
TypeOK == /\ published \in Nat
          /\ pending \in Seq(Frame)
          /\ synced \in BOOLEAN
          /\ last \in Frame \cup {NoFrame}
          /\ closed \in BOOLEAN

\* g can be decoded right after f.
Follows(f, g) == g.key \/ g.n = f.n + 1

\* Every frame taken can be decoded right after the one taken before it
\* (queue.go: dropping single frames "corrompería la decodificación").
DecodableDelivery ==
  [][last' # last => last = NoFrame \/ Follows(last, last')]_chan
=============================================================================
