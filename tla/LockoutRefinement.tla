-------------------------- MODULE LockoutRefinement --------------------------
(* The requests of Lockout, seen at their commits, are the atomic steps of    *)
(* LockoutCycle.                                                            *)
EXTENDS Lockout

(* the defect whose opened_at is the lockout's current_status_since           *)
Starter(e) ==
  IF equipment[e].status = "OUT_OF_SERVICE"
    THEN CHOOSE d \in Submits : /\ defects[d] # None
                                /\ defects[d].equipment = e
                                /\ defects[d].openedAt = equipment[e].since
    ELSE None

Cycles == INSTANCE LockoutCycle WITH
  status  <- [e \in Equipment |-> equipment[e].status],
  ledger  <- {[id |-> i.id, body |-> i.body] : i \in inspections},
  answer  <- [p \in Submits |-> IF response[p] = None THEN None
                                ELSE response[p].inspection],
  stage   <- [d \in Submits |-> IF defects[d] = None THEN None ELSE defects[d].status],
  starter <- [e \in Equipment |-> Starter(e)]

(* Whatever interleaves, whichever transaction is rolled back, the database    *)
(* goes through a behaviour of LockoutCycle: the submit, return and transition *)
(* handlers are atomic in effect, and an approval never outruns the defect     *)
(* that caused the lockout.                                                   *)
ImplementsLockoutCycle == Cycles!Spec
=============================================================================
