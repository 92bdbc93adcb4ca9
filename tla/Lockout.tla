------------------------------- MODULE Lockout -------------------------------
(***************************************************************************)
(* The lockout cycle of a piece of equipment (ADR 0006) as the Core API     *)
(* runs it: POST /inspections, POST /equipment/:id/return-to-service and    *)
(* the four defect transitions, as requests that interleave over one        *)
(* Postgres database at READ COMMITTED.                                     *)
(*                                                                         *)
(* A request is a process.  The rows a transaction writes become visible    *)
(* in its commit step; what it decided from an earlier read is kept in the  *)
(* process until then.  The row locks of Postgres on equipment are derived  *)
(* from the phases: an INSERT with a foreign key to equipment takes         *)
(* FOR KEY SHARE, which only conflicts with FOR UPDATE.                     *)
(*                                                                         *)
(* All rows are of one lab-local calendar day, the day on which a PASS can  *)
(* still make equipment READY.                                              *)
(***************************************************************************)
EXTENDS Naturals, FiniteSets

CONSTANTS
  Equipment,    \* rows of the equipment table
  Keys,         \* (operator, Idempotency-Key) pairs
  Bodies,       \* the submissions clients may send
  Submits,      \* requests to POST /inspections; also names the rows they insert
  Approvals,    \* requests to POST /equipment/:id/return-to-service
  Repairs,      \* concurrent requests to /defects/:id/<transition>
  RetireAllowed,   \* may a database administrator retire equipment?
  None

Result == {"PASS", "FAIL_WARNING", "FAIL_BLOCKING"}
Body   == [key : Keys, equipment : Equipment, result : Result]

ASSUME BodiesAssumption == Bodies \subseteq Body
ASSUME RequestsAssumption == Submits \cap Approvals = {}

VARIABLES
  clock,        \* the last now() a transaction was given
  equipment,    \* equipment row: status, currentStatusSince, readinessBaselineAt
  inspections,  \* committed inspection rows
  defects,      \* committed defect rows, by the submit that opened them
  idempotencyKeys,
  outbox,       \* how many rows of each event are committed
  pc, body, start, previousStatus, response,   \* the submits
  apc, target, astart, resolved,               \* the approvals
  job,                                         \* the defect requests
  straddling   \* history: <<d, p>> when p was in transaction as d went IN_REPAIR

submitVars   == <<pc, body, start, previousStatus, response>>
approvalVars == <<apc, target, astart, resolved>>
repairVars   == <<job, straddling>>
tables       == <<equipment, inspections, defects, idempotencyKeys, outbox>>
vars == <<clock, tables, submitVars, approvalVars, repairVars>>

-----------------------------------------------------------------------------
(* The rows *)

(* as stored: READY is computed on every read and never written *)
EquipmentStatus == {"AWAITING_INSPECTION", "OUT_OF_SERVICE", "RETIRED"}
DefectStatus    == {"OPEN", "ACKNOWLEDGED", "IN_REPAIR", "RESOLVED", "REJECTED"}
Terminal        == {"RESOLVED", "REJECTED"}

EquipmentRow  == [status : EquipmentStatus, since : Nat, baseline : Nat]
InspectionRow == [id : Submits, body : Body, submittedAt : Nat]
DefectRow     == [status : DefectStatus, equipment : Equipment,
                  openedAt : Nat, approved : BOOLEAN]
KeyRow        == [key : Keys, digest : Body, inspection : Submits]
Job           == [defect : Submits, from : DefectStatus, to : DefectStatus]

(* the answers of POST /inspections *)
Code == {"CREATED", "REPLAYED", "IDEMPOTENCY_MISMATCH", "EQUIPMENT_RETIRED",
         "EQUIPMENT_OUT_OF_SERVICE", "CRASH", "DEADLOCK"}
Response == [code : Code, inspection : Submits \cup {None}]

ASSUME NoneAssumption ==
  None \notin Submits \cup Approvals \cup Equipment \cup Body \cup DefectRow \cup Job
                 \cup DefectStatus \cup Response

SubmitEvent == {"INSPECTION_SUBMITTED", "DEFECT_OPENED", "DEFECT_RESOLVED",
                "EQUIPMENT_STATUS_CHANGED"}
Event == [type : SubmitEvent, source : Submits]
           \cup [type : {"EQUIPMENT_STATUS_CHANGED"}, source : Approvals]

DefectTransitions ==
  [s \in DefectStatus |->
     CASE s = "OPEN"         -> {"ACKNOWLEDGED", "REJECTED"}
       [] s = "ACKNOWLEDGED" -> {"IN_REPAIR", "REJECTED"}
       [] s = "IN_REPAIR"    -> {"RESOLVED", "REJECTED"}
       [] OTHER              -> {}]

Blocking(p)  == body[p].result = "FAIL_BLOCKING"
OpenDefect(d) == defects[d] # None /\ defects[d].status \notin Terminal

(* computeReadiness, for a row read in the same instant as the two queries *)
Ready(e) ==
  /\ equipment[e].status = "AWAITING_INSPECTION"
  /\ \E i \in inspections :
       /\ i.body.equipment = e
       /\ i.body.result = "PASS"
       /\ i.submittedAt >= equipment[e].baseline
  /\ ~ \E d \in Submits : OpenDefect(d) /\ defects[d].equipment = e

(* the outbox with one more row for every event of S *)
Emit(S) == outbox' = [ev \in Event |-> outbox[ev] + (IF ev \in S THEN 1 ELSE 0)]

-----------------------------------------------------------------------------
(* The row locks of a transaction on equipment row e *)

HoldsKeyShare(p, e) ==
  /\ pc[p] \in {"inserted", "locked", "keyed"}
  /\ body[p].equipment = e

HoldsUpdate(p, e) ==
  /\ pc[p] = "locked" \/ (pc[p] = "keyed" /\ Blocking(p))
  /\ body[p].equipment = e

ApprovalHoldsUpdate(a, e) == apc[a] \in {"locked", "stamped"} /\ target[a] = e

(* what keeps another transaction from getting FOR KEY SHARE, FOR UPDATE *)
KeyShareFree(p, e) ==
  /\ \A q \in Submits \ {p} : ~HoldsUpdate(q, e)
  /\ \A a \in Approvals : ~ApprovalHoldsUpdate(a, e)

UpdateFree(p, e) ==
  /\ \A q \in Submits \ {p} : ~HoldsKeyShare(q, e)
  /\ \A a \in Approvals \ {p} : ~ApprovalHoldsUpdate(a, e)

-----------------------------------------------------------------------------
(* POST /inspections *)

Respond(p, code, inspection) ==
  /\ pc' = [pc EXCEPT ![p] = "done"]
  /\ response' = [response EXCEPT ![p] = [code |-> code, inspection |-> inspection]]

(* findCachedResponse: the answer for a key that is already recorded *)
Replay(p, b) ==
  \E row \in idempotencyKeys :
    /\ row.key = b.key
    /\ IF row.digest = b
         THEN Respond(p, "REPLAYED", row.inspection)
         ELSE Respond(p, "IDEMPOTENCY_MISMATCH", None)

KeyRecorded(k) == \E row \in idempotencyKeys : row.key = k

Precheck(p) ==
  /\ pc[p] = "idle"
  /\ \E b \in Bodies :
       /\ body' = [body EXCEPT ![p] = b]
       /\ \/ Replay(p, b)
          \/ /\ ~KeyRecorded(b.key)
             /\ pc' = [pc EXCEPT ![p] = "prechecked"]
             /\ UNCHANGED response
  /\ UNCHANGED <<clock, tables, start, previousStatus, approvalVars, repairVars>>

(* the gates on the equipment row, read without a lock *)
Admit(p) ==
  LET status == equipment[body[p].equipment].status IN
  /\ pc[p] = "prechecked"
  /\ \/ status = "RETIRED" /\ Respond(p, "EQUIPMENT_RETIRED", None)
     \/ /\ status = "OUT_OF_SERVICE" /\ ~Blocking(p)
        /\ Respond(p, "EQUIPMENT_OUT_OF_SERVICE", None)
     \/ /\ status = "AWAITING_INSPECTION" \/ (status = "OUT_OF_SERVICE" /\ Blocking(p))
        /\ pc' = [pc EXCEPT ![p] = "admitted"]
        /\ UNCHANGED response
  /\ UNCHANGED <<clock, tables, body, start, previousStatus, approvalVars, repairVars>>

(* BEGIN fixes now() for every row of the transaction *)
Begin(p) ==
  /\ pc[p] = "admitted"
  /\ clock' = clock + 1
  /\ start' = [start EXCEPT ![p] = clock + 1]
  /\ pc' = [pc EXCEPT ![p] = "begun"]
  /\ UNCHANGED <<tables, body, previousStatus, response, approvalVars, repairVars>>

(* INSERT INTO inspections, inspection_responses, outbox, defects *)
InsertInspection(p) ==
  /\ pc[p] = "begun"
  /\ KeyShareFree(p, body[p].equipment)
  /\ pc' = [pc EXCEPT ![p] = "inserted"]
  /\ UNCHANGED <<clock, tables, body, start, previousStatus, response, approvalVars, repairVars>>

(* faulty: the status is read without FOR UPDATE *)
LockEquipmentUnlocked(p) ==
  /\ pc[p] = "inserted"
  /\ Blocking(p)
  /\ previousStatus' = [previousStatus EXCEPT ![p] = equipment[body[p].equipment].status]
  /\ pc' = [pc EXCEPT ![p] = "locked"]
  /\ UNCHANGED <<clock, tables, body, start, response, approvalVars, repairVars>>

(* SELECT status ... FOR UPDATE: the previous status decides the lockout write *)
LockEquipment(p) ==
  /\ pc[p] = "inserted"
  /\ Blocking(p)
  /\ UpdateFree(p, body[p].equipment)
  /\ previousStatus' = [previousStatus EXCEPT ![p] = equipment[body[p].equipment].status]
  /\ pc' = [pc EXCEPT ![p] = "locked"]
  /\ UNCHANGED <<clock, tables, body, start, response, approvalVars, repairVars>>

(* faulty: no unique index on (operator, key) *)
InsertKeyUnindexed(p) ==
  /\ pc[p] = "locked" \/ (pc[p] = "inserted" /\ ~Blocking(p))
  /\ pc' = [pc EXCEPT ![p] = "keyed"]
  /\ UNCHANGED <<clock, tables, body, start, previousStatus, response, approvalVars, repairVars>>

(* INSERT INTO idempotency_keys, under the unique index on (operator, key):  *)
(* it waits for a transaction that inserted the same key to end, and fails   *)
(* when that one committed.                                                 *)
InsertKey(p) ==
  /\ pc[p] = "locked" \/ (pc[p] = "inserted" /\ ~Blocking(p))
  /\ ~ \E q \in Submits \ {p} : pc[q] = "keyed" /\ body[q].key = body[p].key
  /\ pc' = [pc EXCEPT ![p] = IF KeyRecorded(body[p].key) THEN "conflict" ELSE "keyed"]
  /\ UNCHANGED <<clock, tables, body, start, previousStatus, response, approvalVars, repairVars>>

(* faulty: RETIRED is re-stamped as well *)
LocksOutRetired(p) == Blocking(p) /\ previousStatus[p] # "OUT_OF_SERVICE"

(* the submit found the row neither OUT_OF_SERVICE nor RETIRED under its lock *)
LocksOut(p) == Blocking(p) /\ previousStatus[p] = "AWAITING_INSPECTION"

SubmitEvents(p) ==
  {[type |-> "INSPECTION_SUBMITTED", source |-> p]}
    \cup (IF Blocking(p) THEN {[type |-> "DEFECT_OPENED", source |-> p]} ELSE {})
    \cup (IF LocksOut(p) THEN {[type |-> "EQUIPMENT_STATUS_CHANGED", source |-> p]} ELSE {})

CommitSubmit(p) ==
  LET e == body[p].equipment IN
  /\ pc[p] = "keyed"
  /\ inspections' = inspections
       \cup {[id |-> p, body |-> body[p], submittedAt |-> start[p]]}
  /\ idempotencyKeys' = idempotencyKeys
       \cup {[key |-> body[p].key, digest |-> body[p], inspection |-> p]}
  /\ defects' = IF ~Blocking(p) THEN defects
                ELSE [defects EXCEPT ![p] =
                        [status |-> "OPEN", equipment |-> e,
                         openedAt |-> start[p], approved |-> FALSE]]
  /\ equipment' = IF ~LocksOut(p) THEN equipment
                  ELSE [equipment EXCEPT ![e].status = "OUT_OF_SERVICE",
                                         ![e].since = start[p]]
  /\ Emit(SubmitEvents(p))
  /\ Respond(p, "CREATED", p)
  /\ UNCHANGED <<clock, body, start, previousStatus, approvalVars, repairVars>>

(* the catch block: the unique violation rolled the transaction back *)
ReplayWinner(p) ==
  /\ pc[p] = "conflict"
  /\ Replay(p, body[p])
  /\ UNCHANGED <<clock, tables, body, start, previousStatus, approvalVars, repairVars>>

InTransaction(p) == pc[p] \in {"begun", "inserted", "locked", "keyed"}

(* the connection or the process dies: Postgres rolls the transaction back *)
CrashSubmit(p) ==
  /\ InTransaction(p)
  /\ Respond(p, "CRASH", None)
  /\ UNCHANGED <<clock, tables, body, start, previousStatus, approvalVars, repairVars>>

(* p asks for FOR UPDATE while q holds a lock on the same row *)
WaitsFor(p, q) ==
  /\ p # q
  /\ pc[p] = "inserted" /\ Blocking(p)
  /\ HoldsKeyShare(q, body[p].equipment)

(* Postgres ends a wait cycle by aborting one of its transactions *)
DeadlockVictim(p) ==
  /\ \E q \in Submits : WaitsFor(p, q) /\ WaitsFor(q, p)
  /\ Respond(p, "DEADLOCK", None)
  /\ UNCHANGED <<clock, tables, body, start, previousStatus, approvalVars, repairVars>>

-----------------------------------------------------------------------------
(* POST /equipment/:id/return-to-service *)

BeginApproval(a) ==
  /\ apc[a] = "idle"
  /\ \E e \in Equipment : target' = [target EXCEPT ![a] = e]
  /\ clock' = clock + 1
  /\ astart' = [astart EXCEPT ![a] = clock + 1]
  /\ apc' = [apc EXCEPT ![a] = "begun"]
  /\ UNCHANGED <<tables, submitVars, resolved, repairVars>>

(* faulty: the approval reads the row without FOR UPDATE *)
LockForApprovalUnlocked(a) ==
  /\ apc[a] = "begun"
  /\ apc' = [apc EXCEPT ![a] =
               IF equipment[target[a]].status = "OUT_OF_SERVICE" THEN "locked" ELSE "done"]
  /\ UNCHANGED <<clock, tables, submitVars, target, astart, resolved, repairVars>>

(* SELECT ... FOR UPDATE, refused unless the row is OUT_OF_SERVICE *)
LockForApproval(a) ==
  /\ apc[a] = "begun"
  /\ UpdateFree(a, target[a])
  /\ apc' = [apc EXCEPT ![a] =
               IF equipment[target[a]].status = "OUT_OF_SERVICE" THEN "locked" ELSE "done"]
  /\ UNCHANGED <<clock, tables, submitVars, target, astart, resolved, repairVars>>

(* faulty: every defect the equipment ever had *)
CycleUnscoped(e) == {d \in Submits : defects[d] # None /\ defects[d].equipment = e}

(* faulty: the defect that began the lockout is left out *)
CycleStrict(e) == {d \in Submits : /\ defects[d] # None
                                   /\ defects[d].equipment = e
                                   /\ defects[d].openedAt > equipment[e].since}

(* the defects of the current lockout: opened_at >= current_status_since *)
Cycle(e) == {d \in Submits : /\ defects[d] # None
                             /\ defects[d].equipment = e
                             /\ defects[d].openedAt >= equipment[e].since}

(* faulty: one resolved defect is enough, whatever else is open *)
StampAnyResolved(a) ==
  LET fixed == {d \in Cycle(target[a]) : defects[d].status = "RESOLVED"} IN
  /\ apc[a] = "locked"
  /\ apc' = [apc EXCEPT ![a] = IF fixed = {} THEN "done" ELSE "stamped"]
  /\ resolved' = [resolved EXCEPT ![a] = fixed]
  /\ UNCHANGED <<clock, tables, submitVars, target, astart, repairVars>>

(* faulty: a refusal leaves the transaction open, with its lock *)
StampWithoutRollback(a) ==
  LET cycle == Cycle(target[a]) IN
  /\ apc[a] = "locked"
  /\ \A d \in cycle : ~OpenDefect(d)
  /\ \E d \in cycle : defects[d].status = "RESOLVED"
  /\ apc' = [apc EXCEPT ![a] = "stamped"]
  /\ resolved' = [resolved EXCEPT ![a] = {d \in cycle : defects[d].status = "RESOLVED"}]
  /\ UNCHANGED <<clock, tables, submitVars, target, astart, repairVars>>

(* refused when a defect of the cycle is still open or none is resolved *)
StampResolved(a) ==
  LET cycle == Cycle(target[a])
      fixed == {d \in cycle : defects[d].status = "RESOLVED"} IN
  /\ apc[a] = "locked"
  /\ \/ /\ (\E d \in cycle : OpenDefect(d)) \/ fixed = {}
        /\ apc' = [apc EXCEPT ![a] = "done"]
        /\ UNCHANGED resolved
     \/ /\ \A d \in cycle : ~OpenDefect(d)
        /\ fixed # {}
        /\ apc' = [apc EXCEPT ![a] = "stamped"]
        /\ resolved' = [resolved EXCEPT ![a] = fixed]
  /\ UNCHANGED <<clock, tables, submitVars, target, astart, repairVars>>

Stamped(S) == [d \in Submits |-> IF d \in S THEN [defects[d] EXCEPT !.approved = TRUE]
                                            ELSE defects[d]]

(* faulty: the computed status is stored instead of AWAITING_INSPECTION *)
CommitApprovalReady(a) ==
  /\ apc[a] = "stamped"
  /\ apc' = [apc EXCEPT ![a] = "done"]
  /\ defects' = Stamped(resolved[a])
  /\ equipment' = [equipment EXCEPT ![target[a]] = [status   |-> "READY",
                                                    since    |-> astart[a],
                                                    baseline |-> astart[a]]]
  /\ Emit({[type |-> "EQUIPMENT_STATUS_CHANGED", source |-> a]})
  /\ UNCHANGED <<clock, inspections, idempotencyKeys, submitVars, target, astart, resolved, repairVars>>

(* faulty: the readiness watermark is not bumped *)
CommitApprovalOldBaseline(a) ==
  /\ apc[a] = "stamped"
  /\ apc' = [apc EXCEPT ![a] = "done"]
  /\ defects' = Stamped(resolved[a])
  /\ equipment' = [equipment EXCEPT ![target[a]].status = "AWAITING_INSPECTION",
                                    ![target[a]].since = astart[a]]
  /\ Emit({[type |-> "EQUIPMENT_STATUS_CHANGED", source |-> a]})
  /\ UNCHANGED <<clock, inspections, idempotencyKeys, submitVars, target, astart, resolved, repairVars>>

CommitApproval(a) ==
  LET e == target[a] IN
  /\ apc[a] = "stamped"
  /\ apc' = [apc EXCEPT ![a] = "done"]
  /\ defects' = Stamped(resolved[a])
  /\ equipment' = [equipment EXCEPT ![e] = [status   |-> "AWAITING_INSPECTION",
                                            since    |-> astart[a],
                                            baseline |-> astart[a]]]
  /\ Emit({[type |-> "EQUIPMENT_STATUS_CHANGED", source |-> a]})
  /\ UNCHANGED <<clock, inspections, idempotencyKeys, submitVars, target, astart, resolved, repairVars>>

CrashApproval(a) ==
  /\ apc[a] \in {"begun", "locked", "stamped"}
  /\ apc' = [apc EXCEPT ![a] = "done"]
  /\ UNCHANGED <<clock, tables, submitVars, target, astart, resolved, repairVars>>

-----------------------------------------------------------------------------
(* POST /defects/:id/acknowledge, start-repair, resolve, reject *)

(* loadDefect and assertCanTransition; a request they refuse changes nothing *)
LoadDefect(r) ==
  /\ job[r] = None
  /\ \E d \in Submits, to \in DefectStatus :
       /\ defects[d] # None
       /\ to \in DefectTransitions[defects[d].status]
       /\ job' = [job EXCEPT ![r] = [defect |-> d, from |-> defects[d].status, to |-> to]]
  /\ UNCHANGED <<clock, tables, submitVars, approvalVars, straddling>>

(* faulty: UPDATE ... WHERE id = <id>, without the loaded status *)
TransitionBlind(r) ==
  /\ job[r] # None
  /\ job' = [job EXCEPT ![r] = None]
  /\ defects' = [defects EXCEPT ![job[r].defect].status = job[r].to]
  /\ Emit(IF job[r].to = "RESOLVED"
            THEN {[type |-> "DEFECT_RESOLVED", source |-> job[r].defect]} ELSE {})
  /\ UNCHANGED <<clock, equipment, inspections, idempotencyKeys,
                 submitVars, approvalVars, straddling>>

(* UPDATE ... WHERE status = <loaded status>; resolve adds its event *)
Transition(r) ==
  /\ job[r] # None
  /\ job' = [job EXCEPT ![r] = None]
  /\ LET d == job[r].defect IN
     IF defects[d].status = job[r].from
       THEN /\ defects' = [defects EXCEPT ![d].status = job[r].to]
            /\ Emit(IF job[r].to = "RESOLVED"
                      THEN {[type |-> "DEFECT_RESOLVED", source |-> d]} ELSE {})
            /\ straddling' = straddling \cup
                 {<<d, p>> : p \in {q \in Submits : InTransaction(q) /\ job[r].to = "IN_REPAIR"}}
       ELSE UNCHANGED <<defects, outbox, straddling>>
  /\ UNCHANGED <<clock, equipment, inspections, idempotencyKeys, submitVars, approvalVars>>

(* no route retires equipment: an administrator's UPDATE, which emits nothing *)
Retire(e) ==
  /\ RetireAllowed
  /\ equipment[e].status # "RETIRED"
  /\ KeyShareFree(None, e)   \* its FOR NO KEY UPDATE only waits for FOR UPDATE
  /\ equipment' = [equipment EXCEPT ![e].status = "RETIRED"]
  /\ UNCHANGED <<clock, inspections, defects, idempotencyKeys, outbox,
                 submitVars, approvalVars, repairVars>>

-----------------------------------------------------------------------------
Init ==
  /\ clock = 0
  /\ equipment = [e \in Equipment |->
                    [status |-> "AWAITING_INSPECTION", since |-> 0, baseline |-> 0]]
  /\ inspections = {}
  /\ defects = [d \in Submits |-> None]
  /\ idempotencyKeys = {}
  /\ outbox = [ev \in Event |-> 0]
  /\ pc = [p \in Submits |-> "idle"]
  /\ body = [p \in Submits |-> None]
  /\ start = [p \in Submits |-> 0]
  /\ previousStatus = [p \in Submits |-> None]
  /\ response = [p \in Submits |-> None]
  /\ apc = [a \in Approvals |-> "idle"]
  /\ target = [a \in Approvals |-> None]
  /\ astart = [a \in Approvals |-> 0]
  /\ resolved = [a \in Approvals |-> {}]
  /\ job = [r \in Repairs |-> None]
  /\ straddling = {}

SubmitStep(p) ==
  \/ Precheck(p) \/ Admit(p) \/ Begin(p) \/ InsertInspection(p) \/ LockEquipment(p)
  \/ InsertKey(p) \/ CommitSubmit(p) \/ ReplayWinner(p)
  \/ CrashSubmit(p) \/ DeadlockVictim(p)

ApprovalStep(a) ==
  BeginApproval(a) \/ LockForApproval(a) \/ StampResolved(a) \/ CommitApproval(a)
    \/ CrashApproval(a)

Next ==
  \/ \E p \in Submits : SubmitStep(p)
  \/ \E a \in Approvals : ApprovalStep(a)
  \/ \E r \in Repairs : LoadDefect(r) \/ Transition(r)
  \/ \E e \in Equipment : Retire(e)

Spec == Init /\ [][Next]_vars
-----------------------------------------------------------------------------
(* What the cycle guarantees *)

Phase == {"idle", "prechecked", "admitted", "begun", "inserted", "locked", "keyed",
          "conflict", "done"}
ApprovalPhase == {"idle", "begun", "locked", "stamped", "done"}

(* Every table row and every request's memory has its type; a submit past its *)
(* precheck knows its body, an approval past BEGIN its equipment.             *)
TypeOK ==
  /\ clock \in Nat
  /\ equipment \in [Equipment -> EquipmentRow]
  /\ inspections \subseteq InspectionRow
  /\ defects \in [Submits -> DefectRow \cup {None}]
  /\ idempotencyKeys \subseteq KeyRow
  /\ outbox \in [Event -> Nat]
  /\ pc \in [Submits -> Phase]
  /\ body \in [Submits -> Body \cup {None}]
  /\ \A p \in Submits : pc[p] # "idle" => body[p] # None
  /\ start \in [Submits -> Nat]
  /\ previousStatus \in [Submits -> EquipmentStatus \cup {None}]
  /\ response \in [Submits -> Response \cup {None}]
  /\ apc \in [Approvals -> ApprovalPhase]
  /\ target \in [Approvals -> Equipment \cup {None}]
  /\ \A a \in Approvals : apc[a] # "idle" => target[a] # None
  /\ astart \in [Approvals -> Nat]
  /\ resolved \in [Approvals -> SUBSET Submits]
  /\ \A a \in Approvals : \A d \in resolved[a] : defects[d] # None
  /\ job \in [Repairs -> Job \cup {None}]
  /\ \A r \in Repairs : job[r] # None => defects[job[r].defect] # None
  /\ straddling \subseteq Submits \X Submits

(* However many attempts race with one Idempotency-Key (submit.ts:108-115,    *)
(* 363-374), one inspection is recorded for it, and every attempt that is     *)
(* told 201 is told of the recorded inspection of the very body it sent.      *)
ExactlyOneInspection ==
  /\ \A i, j \in inspections : i.body.key = j.body.key => i = j
  /\ \A p \in Submits :
       (response[p] # None /\ response[p].code \in {"CREATED", "REPLAYED"})
         => \E i \in inspections : i.id = response[p].inspection /\ i.body = body[p]

(* The outbox is a faithful account of the tables (ADR 0008): one event for   *)
(* each inspection, each defect and each resolution, and none for anything    *)
(* that was rolled back, replayed or lost to a concurrent transition.         *)
Count(b) == IF b THEN 1 ELSE 0
OutboxMatchesTables ==
  \A p \in Submits :
    /\ outbox[[type |-> "INSPECTION_SUBMITTED", source |-> p]]
         = Count(\E i \in inspections : i.id = p)
    /\ outbox[[type |-> "DEFECT_OPENED", source |-> p]] = Count(defects[p] # None)
    /\ outbox[[type |-> "DEFECT_RESOLVED", source |-> p]]
         = Count(defects[p] # None /\ defects[p].status = "RESOLVED")

(* EQUIPMENT_STATUS_CHANGED events tell the stored status: a lockout and a     *)
(* return alternate, so that the lockouts of e outnumber its returns exactly   *)
(* while e is OUT_OF_SERVICE (no spurious event, submit.ts:310-312).          *)
StatusEvent(r) == outbox[[type |-> "EQUIPMENT_STATUS_CHANGED", source |-> r]] > 0
Lockouts(e) == {p \in Submits : StatusEvent(p) /\ body[p].equipment = e}
Returns(e)  == {a \in Approvals : StatusEvent(a) /\ target[a] = e}
StatusEventsBalance ==
  \A e \in Equipment :
    equipment[e].status # "RETIRED" =>
      Cardinality(Lockouts(e))
        = Cardinality(Returns(e)) + Count(equipment[e].status = "OUT_OF_SERVICE")

(* A blocking failure is never recorded beside usable equipment: in the state  *)
(* its inspection and its defect become visible, the equipment is locked out   *)
(* (submit.ts:258-260), whatever returns and retirements ran meanwhile.        *)
BlockingFailureLocksOut ==
  [][\A p \in Submits :
       (defects[p] = None /\ defects'[p] # None)
         => /\ \E i \in inspections' : i.id = p /\ i.body = body[p]
            /\ equipment'[defects'[p].equipment].status \in {"OUT_OF_SERVICE", "RETIRED"}]_vars

(* Return-to-service is the only way back (submit.ts:181), and at the moment   *)
(* it takes effect the lockout is finished: no defect opened since it began    *)
(* is open, one of them was resolved, and all the resolved ones are stamped    *)
(* with the approval (return-to-service.ts:69-97).                            *)
ReturnClosesLockout ==
  [][\A e \in Equipment :
       (equipment[e].status = "OUT_OF_SERVICE" /\ equipment'[e].status = "AWAITING_INSPECTION")
         => LET fixed == {d \in Cycle(e) : defects[d].status = "RESOLVED"} IN
            /\ \A d \in Cycle(e) : ~OpenDefect(d)
            /\ fixed # {}
            /\ \A d \in fixed : defects'[d].approved]_vars

(* RETIRED is terminal (submit.ts:129-130): neither a lockout decided from an   *)
(* earlier read nor an approval in progress brings the equipment back.         *)
RetiredIsTerminal ==
  [][\A e \in Equipment :
       equipment[e].status = "RETIRED" => equipment'[e].status = "RETIRED"]_vars

(* A defect's status moves along DEFECT_TRANSITIONS only, though two requests   *)
(* may have loaded the same status (load-defect.ts:7-8), and an approval is     *)
(* never taken back.                                                          *)
DefectsMoveForward ==
  [][\A d \in Submits :
       defects[d] # None =>
         /\ defects'[d] # None
         /\ defects'[d].status \in {defects[d].status} \cup DefectTransitions[defects[d].status]
         /\ defects[d].approved => defects'[d].approved]_vars

(* A defect of an earlier repair cycle, returned to service then, does not      *)
(* authorise another return (return-to-service.ts:53-57), with one exception,   *)
(* since a lockout is dated by the BEGIN of the submit that wrote it: that very *)
(* submit was in transaction when the repair of each such defect started, and   *)
(* stayed so until after it was returned.                                      *)
PriorCycleNeverAuthorizes ==
  [][\A a \in Approvals :
       (apc[a] = "stamped" /\ equipment'[target[a]] # equipment[target[a]])
         => \/ \E d \in resolved[a] : ~defects[d].approved
            \/ \E p \in Cycle(target[a]) :
                 /\ defects[p].openedAt = equipment[target[a]].since
                 /\ \A d \in resolved[a] : <<d, p>> \in straddling]_vars

(* The approval leaves the equipment AWAITING_INSPECTION: no inspection made    *)
(* before it counts towards READY (return-to-service.ts:19-21).                *)
ReturnReadsAwaiting ==
  [][\A e \in Equipment :
       (equipment[e].status = "OUT_OF_SERVICE" /\ equipment'[e].status = "AWAITING_INSPECTION")
         => ~Ready(e)']_vars

(* What a transaction decided under its row lock is still so when it commits:   *)
(* nobody else can write the equipment row or add a defect to its cycle between *)
(* the FOR UPDATE and the COMMIT (submit.ts:310-346, return-to-service.ts:35-112). *)
LocksExclude ==
  \A e \in Equipment :
    /\ \A p, q \in Submits : HoldsUpdate(p, e) /\ HoldsKeyShare(q, e) => p = q
    /\ \A a \in Approvals, p \in Submits : ~(ApprovalHoldsUpdate(a, e) /\ HoldsKeyShare(p, e))
    /\ \A a, b \in Approvals : ApprovalHoldsUpdate(a, e) /\ ApprovalHoldsUpdate(b, e) => a = b

SubmitDecides ==
  \A p \in Submits :
    /\ pc[p] = "locked" => Blocking(p)
    /\ HoldsUpdate(p, body[p].equipment)
         => previousStatus[p] = equipment[body[p].equipment].status

ApprovalDecides ==
  \A a \in Approvals :
    /\ apc[a] \in {"locked", "stamped"} => equipment[target[a]].status = "OUT_OF_SERVICE"
    /\ apc[a] = "stamped" =>
         /\ resolved[a] = {d \in Cycle(target[a]) : defects[d].status = "RESOLVED"}
         /\ resolved[a] # {}
         /\ \A d \in Cycle(target[a]) : ~OpenDefect(d)

DecisionsHold ==
  /\ LocksExclude /\ SubmitDecides /\ ApprovalDecides
  /\ \A p \in Submits : defects[p] # None => pc[p] = "done"
  /\ \A r \in Repairs : job[r] # None => job[r].to \in DefectTransitions[job[r].from]

(* The unique index and the tables agree: a key row stands for one inspection,  *)
(* an inspection for one key row, and no transaction that got past the index    *)
(* can collide with another at commit (submit.ts:353-374).                     *)
KeysMatchInspections ==
  /\ \A row \in idempotencyKeys :
       \E i \in inspections : i.id = row.inspection /\ i.body = row.digest /\ i.body.key = row.key
  /\ \A i \in inspections : KeyRecorded(i.body.key)
  /\ \A p, q \in Submits :
       pc[p] = "keyed" => /\ ~KeyRecorded(body[p].key)
                          /\ (pc[q] = "keyed" /\ body[q].key = body[p].key) => p = q
  /\ \A p \in Submits : response[p] # None => pc[p] = "done"

(* Every request ends, whatever the others hold: a lock is released, a wait     *)
(* cycle is broken.                                                           *)
Fairness ==
  /\ \A p \in Submits :
       WF_vars(Admit(p) \/ Begin(p) \/ InsertInspection(p) \/ LockEquipment(p)
                 \/ InsertKey(p) \/ CommitSubmit(p) \/ ReplayWinner(p) \/ DeadlockVictim(p))
  /\ \A a \in Approvals :
       WF_vars(LockForApproval(a) \/ StampResolved(a) \/ CommitApproval(a))
FairSpec == Spec /\ Fairness

EveryRequestEnds ==
  /\ \A p \in Submits : pc[p] # "idle" ~> pc[p] = "done"
  /\ \A a \in Approvals : apc[a] # "idle" ~> apc[a] = "done"

-----------------------------------------------------------------------------
(* What the comments say and the code does not keep *)

(* return-to-service.ts:74: "Resolve all open blocking defects before           *)
(* return-to-service": an approval leaves no open defect behind on equipment.  *)
ReturnLeavesNoOpenDefect ==
  [][\A e \in Equipment :
       (equipment[e].status = "OUT_OF_SERVICE" /\ equipment'[e].status = "AWAITING_INSPECTION")
         => ~ \E d \in Submits : OpenDefect(d) /\ defects[d].equipment = e]_vars

(* submit.ts:310: concurrent submits serialize on the status write: none of     *)
(* them fails because of another.                                             *)
SubmitsSerialize ==
  \A p \in Submits : response[p] # None => response[p].code # "DEADLOCK"
=============================================================================
