-------------------------- MODULE MCConsumerSession --------------------------
(* Small instances of ConsumerSession: two partitions, so that a cooperative *)
(* rebalance may revoke one and keep the other, and two sessions.            *)
EXTENDS ConsumerSession

CONSTANTS p1, p2

MCPartitions == {p1, p2}
MCProtocols == {"EAGER", "COOPERATIVE", "AUTO"}
=============================================================================
