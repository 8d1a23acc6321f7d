-------------------------- MODULE MCClientLifecycle --------------------------
(* Small instances of ClientLifecycle: both subclasses, both kinds of caller, *)
(* and enough calls for a failed connect, a retry, a disconnect and one more. *)
EXTENDS ClientLifecycle

MCSubclasses == {"producer", "consumer"}
MCStyles == {"patient", "eager"}
Patient == {"patient"}
=============================================================================
