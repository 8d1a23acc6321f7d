------------------------------ MODULE MCConsume ------------------------------
(* Small instances of Consume: items enough for two messages and two eof     *)
(* events or warnings in any order, to either mode, and a second loop.       *)
EXTENDS Consume

MCStyles == {"outside", "inside"}
=============================================================================
