------------------------------- MODULE AuditLog -------------------------------
(* What delivery promises: an append-only log without duplicates, from which    *)
(* every acknowledged event can be read back.                                  *)
EXTENDS Sequences, Naturals

CONSTANT Events

VARIABLES
  log,    \* the events in the order they were sealed
  acked   \* the events the producer has stopped sending

Init == log = <<>> /\ acked = {}

Logged == {log[i] : i \in 1 .. Len(log)}

Seal(e) == e \notin Logged /\ log' = Append(log, e) /\ UNCHANGED acked

Acknowledge(e) == e \in Logged /\ acked' = acked \cup {e} /\ UNCHANGED log

Next == \E e \in Events : Seal(e) \/ Acknowledge(e)

Spec == Init /\ [][Next]_<<log, acked>>
=============================================================================
