------------------------------ MODULE MCStreams ------------------------------
(* Small instances of Streams: three items, so that a batch may be cut short *)
(* in the middle and a fetch may leave messages behind.                      *)
EXTENDS Streams

MCKinds == {"write", "read"}
=============================================================================
