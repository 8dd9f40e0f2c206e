---------------------------- MODULE MCRelayQueue ----------------------------
(***************************************************************************)
(* A small instance of RelayQueue where bytes, items and media time all    *)
(* overflow and the timestamp counter wraps around.                        *)
(***************************************************************************)
EXTENDS RelayQueue

Shape(kind, key, seq, size) == [kind |-> kind, key |-> key, seq |-> seq, size |-> size]

Keyframe(size) == Shape("video", TRUE, FALSE, size)
Inter(size)    == Shape("video", FALSE, FALSE, size)
Audio(size)    == Shape("audio", FALSE, FALSE, size)
Header(size)   == Shape("video", TRUE, TRUE, size)
Meta(size)     == Shape("meta", FALSE, FALSE, size)

\* A keyframe heavier than an inter frame, and metadata of two sizes, so that
\* a replacement changes the byte count.
MCInputs == {Keyframe(2), Inter(1), Audio(1), Header(1), Meta(0), Meta(2)}
=============================================================================
