---------------------------- MODULE ReportChannel ----------------------------
(* What a producer promises about delivery reports, with no threads, locks  *)
(* or wake-ups: a report that librdkafka has ready waits until JavaScript   *)
(* gets it, JavaScript gets it at most once, and reports that wait are      *)
(* given up only when the client is deleted.                                *)
EXTENDS Naturals, Sequences

VARIABLES open,      \* a native client exists
          known,     \* how many reports there have been
          waiting,   \* those not handed to JavaScript yet
          reported   \* those handed to JavaScript, in order

vars == <<open, known, waiting, reported>>

Init == open = FALSE /\ known = 0 /\ waiting = {} /\ reported = <<>>

Open == ~open /\ open' = TRUE /\ UNCHANGED <<known, waiting, reported>>

Arrive ==
  /\ open
  /\ known' = known + 1
  /\ waiting' = waiting \cup {known'}
  /\ UNCHANGED <<open, reported>>

Report ==
  \E m \in waiting :
    /\ waiting' = waiting \ {m}
    /\ reported' = Append(reported, m)
    /\ UNCHANGED <<open, known>>

Close ==
  /\ open
  /\ open' = FALSE
  /\ \E kept \in SUBSET waiting : waiting' = kept
  /\ UNCHANGED <<known, reported>>

Next == Open \/ Arrive \/ Report \/ Close

Spec == Init /\ [][Next]_vars
=============================================================================
