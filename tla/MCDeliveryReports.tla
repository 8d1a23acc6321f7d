-------------------------- MODULE MCDeliveryReports --------------------------
(* Small instances of DeliveryReports: one pool thread beside the           *)
(* JavaScript thread, and batches smaller than the number of reports.       *)
EXTENDS DeliveryReports

CONSTANTS f1

MCFlushers == {f1}
=============================================================================
