----------------------------- MODULE LockoutCycle -----------------------------
(***************************************************************************)
(* What the lockout cycle promises, with every request one atomic step:     *)
(* a key records at most one inspection and all its answers name it; a      *)
(* blocking failure and the lockout of its equipment are one event; and     *)
(* equipment comes back only by an approval given after the defect that     *)
(* locked it out was closed and some defect of it was repaired.             *)
(***************************************************************************)
EXTENDS Naturals

CONSTANTS Equipment, Submits, Bodies, RetireAllowed, None

VARIABLES
  status,   \* of each piece of equipment
  ledger,   \* the recorded inspections
  answer,   \* the inspection each successful request was told of
  stage,    \* of each defect
  starter   \* the defect that locked the equipment out, None while it is not

vars == <<status, ledger, answer, stage, starter>>

Closed == {"RESOLVED", "REJECTED"}

DefectOf(d, e) == \E i \in ledger : i.id = d /\ i.body.equipment = e

Init ==
  /\ status = [e \in Equipment |-> "AWAITING_INSPECTION"]
  /\ ledger = {}
  /\ answer = [p \in Submits |-> None]
  /\ stage = [d \in Submits |-> None]
  /\ starter = [e \in Equipment |-> None]

Accept(p, b) ==
  /\ \A i \in ledger : i.id # p /\ i.body.key # b.key
  /\ ledger' = ledger \cup {[id |-> p, body |-> b]}
  /\ answer' = [answer EXCEPT ![p] = p]
  /\ \/ b.result # "FAIL_BLOCKING" /\ UNCHANGED <<status, stage, starter>>
     \/ /\ b.result = "FAIL_BLOCKING"
        /\ stage' = [stage EXCEPT ![p] = "OPEN"]
        /\ \/ /\ status[b.equipment] = "AWAITING_INSPECTION"
              /\ status' = [status EXCEPT ![b.equipment] = "OUT_OF_SERVICE"]
              /\ starter' = [starter EXCEPT ![b.equipment] = p]
           \/ /\ status[b.equipment] # "AWAITING_INSPECTION"
              /\ UNCHANGED <<status, starter>>

Repeat(p) ==
  /\ answer[p] = None
  /\ \E i \in ledger : answer' = [answer EXCEPT ![p] = i.id]
  /\ UNCHANGED <<status, ledger, stage, starter>>

Progress(d) ==
  /\ stage[d] \notin Closed \cup {None}
  /\ \E s \in {"ACKNOWLEDGED", "IN_REPAIR"} \cup Closed :
       /\ s = "ACKNOWLEDGED" => stage[d] = "OPEN"
       /\ s = "IN_REPAIR" => stage[d] = "ACKNOWLEDGED"
       /\ s = "RESOLVED" => stage[d] = "IN_REPAIR"
       /\ stage' = [stage EXCEPT ![d] = s]
  /\ UNCHANGED <<status, ledger, answer, starter>>

Return(e) ==
  /\ status[e] = "OUT_OF_SERVICE"
  /\ stage[starter[e]] \in Closed
  /\ \E d \in Submits : DefectOf(d, e) /\ stage[d] = "RESOLVED"
  /\ status' = [status EXCEPT ![e] = "AWAITING_INSPECTION"]
  /\ starter' = [starter EXCEPT ![e] = None]
  /\ UNCHANGED <<ledger, answer, stage>>

Retire(e) ==
  /\ RetireAllowed
  /\ status' = [status EXCEPT ![e] = "RETIRED"]
  /\ starter' = [starter EXCEPT ![e] = None]
  /\ UNCHANGED <<ledger, answer, stage>>

Next ==
  \/ \E p \in Submits : Repeat(p) \/ \E b \in Bodies : Accept(p, b)
  \/ \E d \in Submits : Progress(d)
  \/ \E e \in Equipment : Return(e) \/ Retire(e)

Spec == Init /\ [][Next]_vars
=============================================================================
