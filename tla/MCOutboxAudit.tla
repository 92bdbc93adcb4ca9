---------------------------- MODULE MCOutboxAudit ----------------------------
(* Instances of OutboxAudit for TLC.                                          *)
EXTENDS OutboxAudit, TLC

CONSTANTS q1, q2, h1, h2

Symmetric == Permutations({q1, q2}) \cup Permutations({h1, h2})
=============================================================================
