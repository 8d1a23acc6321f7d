--------------------------- MODULE MCNativeHandle ---------------------------
(* Small instances of NativeHandle: the JavaScript thread and two threads   *)
(* of the pool.                                                             *)
EXTENDS NativeHandle

CONSTANTS p1, p2

MCPool == {p1, p2}
AllOps == Kinds
PollOps == {"connect", "disconnect", "poll"}
BothRoles == {"producer", "consumer"}
ProducerOnly == {"producer"}
=============================================================================
