--------------------------- MODULE MCSinkDelivery ---------------------------
(* Small instances of SinkDelivery: an RTMP publisher and a browser camera.  *)
EXTENDS SinkDelivery

Shape(kind, key, seq) == [kind |-> kind, key |-> key, seq |-> seq, size |-> 1]

MCInputs == {Shape("video", TRUE, FALSE), Shape("video", FALSE, FALSE),
             Shape("audio", FALSE, FALSE), Shape("video", TRUE, TRUE)}
=============================================================================
