------------------------------- MODULE MCAudit -------------------------------
(* Two instances of OutboxAudit in one run.  A behaviour belongs to one of two    *)
(* worlds: in "delivery" rows are refused and fixed, and what is fair must come   *)
(* to pass; in "tampered", with fewer rows, stored audit rows change and the      *)
(* chain is restored from a dump, every delivery state reset with it.            *)
EXTENDS MCOutboxAudit

CONSTANTS RowsTampered, FaultsTampered

VARIABLE world

Tampered == INSTANCE OutboxAudit WITH
  N <- RowsTampered, Poison <- {}, Fixable <- FALSE, Tamper <- TRUE, Recovery <- TRUE,
  Margin <- RowsTampered, MaxFaults <- FaultsTampered

WorldInit ==
  \/ world = "delivery" /\ Init
  \/ world = "tampered" /\ Tampered!Init

WorldNext ==
  /\ \/ world = "delivery" /\ Next
     \/ world = "tampered" /\ Tampered!Next
  /\ world' = world

WorldSpec == WorldInit /\ [][WorldNext]_<<vars, world>> /\ Fairness

Log == INSTANCE AuditLog WITH
  log   <- IF world = "delivery" THEN [i \in 1 .. Len(chain) |-> chain[i].event] ELSE <<>>,
  acked <- IF world = "delivery" THEN processed ELSE {}

(* Through races, crashes and redelivery, the chain grows by events it does not  *)
(* hold, keeps every one of them in its place, and backs every processed_at.      *)
ImplementsAuditLog == Log!Spec

(* Every committed row is eventually in the chain and marked, past crashes,       *)
(* lost answers and rows that are refused, while the refused ones do not fill a   *)
(* batch.                                                                       *)
EventuallyChained ==
  \A e \in Events :
    e \in committed ~> (e \in processed \/ e \in poison \/ world = "tampered")
==============================================================================
