------------------------- MODULE MCHighLevelProducer -------------------------
(* Small instances of HighLevelProducer: a message whose reference the first *)
(* session leaves over and one produced in the second.                       *)
EXTENDS HighLevelProducer

CONSTANTS m1, m2

MCMessages == {m1, m2}
=============================================================================
