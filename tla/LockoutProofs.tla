----------------------------- MODULE LockoutProofs -----------------------------
(***************************************************************************)
(* Lockout, for any equipment, keys, bodies and numbers of concurrent        *)
(* requests: its types, one inspection for each key, what the row locks      *)
(* protect, with what a commit then does to the equipment and its defects;   *)
(* then that the outbox accounts for the tables, and that their history is a *)
(* behaviour of LockoutCycle, in which every request is one atomic step.     *)
(***************************************************************************)
EXTENDS LockoutRefinement, FiniteSetTheorems, TLAPS

-----------------------------------------------------------------------------
(* Types *)

(* The tables are empty and no request has begun. *)
LEMMA InitType == Init => TypeOK
  BY DEF Init, TypeOK, EquipmentRow, EquipmentStatus, Phase, ApprovalPhase

(* The outbox stays a count of rows. *)
LEMMA EmitType ==
  ASSUME outbox \in [Event -> Nat], NEW S, Emit(S)
  PROVE  outbox' \in [Event -> Nat]
  BY DEF Emit

(* Setting a field of a defect row leaves a defect row. *)
LEMMA StampedType ==
  ASSUME defects \in [Submits -> DefectRow \cup {None}], NEW S \in SUBSET Submits,
         \A d \in S : defects[d] \in DefectRow
  PROVE  /\ Stamped(S) \in [Submits -> DefectRow \cup {None}]
         /\ \A d \in Submits : defects[d] # None => Stamped(S)[d] # None
<1>1. \A d \in S : [defects[d] EXCEPT !.approved = TRUE] \in DefectRow
  BY DEF DefectRow
<1>2. None \notin DefectRow
  BY NoneAssumption
<1> QED
  BY <1>1, <1>2 DEF Stamped

(* Moving a defect along its transitions keeps the rows typed. *)
LEMMA MovedType ==
  ASSUME defects \in [Submits -> DefectRow \cup {None}], NEW d \in Submits,
         defects[d] \in DefectRow, NEW to \in DefectStatus
  PROVE  LET moved == [defects EXCEPT ![d].status = to] IN
         /\ moved \in [Submits -> DefectRow \cup {None}]
         /\ \A c \in Submits : defects[c] # None => moved[c] # None
<1>1. [defects[d] EXCEPT !.status = to] \in DefectRow
  BY DEF DefectRow
<1>2. None \notin DefectRow
  BY NoneAssumption
<1> QED
  BY <1>1, <1>2

(* Every step of a submit writes rows of the right type. *)
LEMMA SubmitType ==
  ASSUME TypeOK, NEW p \in Submits, SubmitStep(p)
  PROVE  TypeOK'
<1> USE DEF tables, approvalVars, Phase, repairVars
<1>1. CASE Precheck(p)
  <2> PICK b \in Bodies : /\ body' = [body EXCEPT ![p] = b]
                          /\ Replay(p, b) \/ (pc' = [pc EXCEPT ![p] = "prechecked"] /\ UNCHANGED response)
    BY <1>1 DEF Precheck
  <2>1. b \in Body /\ b # None
    BY BodiesAssumption, NoneAssumption
  <2>2. /\ pc' \in [Submits -> Phase] /\ response' \in [Submits -> Response \cup {None}]
        /\ \A q \in Submits : q # p => pc'[q] = pc[q]
    BY DEF Replay, Respond, TypeOK, KeyRow, Response, Code
  <2> QED
    BY <1>1, <2>1, <2>2 DEF Precheck, TypeOK
<1>2. CASE Admit(p)
  BY <1>2 DEF Admit, Respond, TypeOK, Response, Code
<1>3. CASE Begin(p)
  BY <1>3 DEF Begin, TypeOK
<1>4. CASE InsertInspection(p)
  BY <1>4 DEF InsertInspection, TypeOK
<1>5. CASE LockEquipment(p)
  BY <1>5 DEF LockEquipment, TypeOK, EquipmentRow, Body
<1>6. CASE InsertKey(p)
  BY <1>6 DEF InsertKey, TypeOK
<1>7. CASE CommitSubmit(p)
  <2> DEFINE e == body[p].equipment
  <2>1. body[p] \in Body /\ e \in Equipment /\ body[p].key \in Keys
    BY <1>7 DEF CommitSubmit, TypeOK, Body
  <2>2. /\ inspections' \subseteq InspectionRow
        /\ idempotencyKeys' \subseteq KeyRow
    BY <1>7, <2>1 DEF CommitSubmit, TypeOK, InspectionRow, KeyRow
  <2>3. /\ defects' \in [Submits -> DefectRow \cup {None}]
        /\ \A d \in Submits : defects[d] # None => defects'[d] # None
    <3> DEFINE row == [status |-> "OPEN", equipment |-> e,
                       openedAt |-> start[p], approved |-> FALSE]
    <3>1. row \in DefectRow
      BY <2>1 DEF TypeOK, DefectRow, DefectStatus
    <3>2. row # None
      BY <3>1, NoneAssumption
    <3>3. defects' = defects \/ defects' = [defects EXCEPT ![p] = row]
      BY <1>7 DEF CommitSubmit
    <3> HIDE DEF row
    <3> QED
      BY <3>1, <3>2, <3>3 DEF TypeOK
  <2>4. equipment' \in [Equipment -> EquipmentRow]
    BY <1>7, <2>1 DEF CommitSubmit, TypeOK, EquipmentRow, EquipmentStatus
  <2>5. outbox' \in [Event -> Nat]
    BY <1>7, EmitType DEF CommitSubmit, TypeOK
  <2>6. response' \in [Submits -> Response \cup {None}]
    BY <1>7 DEF CommitSubmit, Respond, TypeOK, Response, Code
  <2>7. job' = job /\ resolved' = resolved
    BY <1>7 DEF CommitSubmit
  <2> QED
    BY <1>7, <2>2, <2>3, <2>4, <2>5, <2>6, <2>7 DEF CommitSubmit, Respond, TypeOK, Job
<1>8. CASE ReplayWinner(p)
  BY <1>8 DEF ReplayWinner, Replay, Respond, TypeOK, KeyRow, Response, Code
<1>9. CASE CrashSubmit(p)
  BY <1>9 DEF CrashSubmit, InTransaction, Respond, TypeOK, Response, Code
<1>10. CASE DeadlockVictim(p)
  BY <1>10 DEF DeadlockVictim, WaitsFor, Respond, TypeOK, Response, Code
<1> QED
  BY <1>1, <1>2, <1>3, <1>4, <1>5, <1>6, <1>7, <1>8, <1>9, <1>10 DEF SubmitStep
(* Every step of an approval writes rows of the right type. *)
LEMMA ApprovalType ==
  ASSUME TypeOK, NEW a \in Approvals, ApprovalStep(a)
  PROVE  TypeOK'
<1> USE DEF tables, submitVars, ApprovalPhase, repairVars
<1>1. CASE BeginApproval(a)
  BY <1>1, NoneAssumption DEF BeginApproval, TypeOK
<1>2. CASE LockForApproval(a)
  BY <1>2 DEF LockForApproval, TypeOK
<1>3. CASE StampResolved(a)
  <2>1. /\ apc' \in [Approvals -> ApprovalPhase]
        /\ resolved' \in [Approvals -> SUBSET Submits]
        /\ \A b \in Approvals : apc'[b] # "idle" => target[b] # None
        /\ \A b \in Approvals : \A d \in resolved'[b] : defects[d] # None
    BY <1>3 DEF StampResolved, TypeOK, Cycle
  <2> QED
    BY <1>3, <2>1 DEF StampResolved, TypeOK
<1>4. CASE CommitApproval(a)
  <2>1. target[a] \in Equipment
    BY <1>4 DEF CommitApproval, TypeOK
  <2>2. equipment' \in [Equipment -> EquipmentRow]
    BY <1>4, <2>1 DEF CommitApproval, TypeOK, EquipmentRow, EquipmentStatus
  <2>3. resolved[a] \in SUBSET Submits /\ \A d \in resolved[a] : defects[d] \in DefectRow
    BY DEF TypeOK
  <2>4. /\ defects' \in [Submits -> DefectRow \cup {None}]
        /\ \A d \in Submits : defects[d] # None => defects'[d] # None
    BY <1>4, <2>3, StampedType DEF CommitApproval, TypeOK
  <2>5. outbox' \in [Event -> Nat]
    BY <1>4, EmitType DEF CommitApproval, TypeOK
  <2> QED
    BY <1>4, <2>2, <2>4, <2>5 DEF CommitApproval, TypeOK, Job
<1>5. CASE CrashApproval(a)
  BY <1>5 DEF CrashApproval, TypeOK
<1> QED
  BY <1>1, <1>2, <1>3, <1>4, <1>5 DEF ApprovalStep

(* Every step of a defect request writes rows of the right type. *)
LEMMA RepairType ==
  ASSUME TypeOK, NEW r \in Repairs, LoadDefect(r) \/ Transition(r)
  PROVE  TypeOK'
<1> USE DEF tables, submitVars, approvalVars, repairVars
<1>1. CASE LoadDefect(r)
  <2>1. PICK d \in Submits, to \in DefectStatus :
          /\ defects[d] # None
          /\ job' = [job EXCEPT ![r] = [defect |-> d, from |-> defects[d].status, to |-> to]]
    BY <1>1 DEF LoadDefect
  <2>2. [defect |-> d, from |-> defects[d].status, to |-> to] \in Job
    BY <2>1 DEF TypeOK, Job, DefectRow
  <2>3. job' \in [Repairs -> Job \cup {None}]
    BY <2>1, <2>2 DEF TypeOK
  <2>4. \A s \in Repairs : job'[s] # None => defects[job'[s].defect] # None
    BY <2>1 DEF TypeOK
  <2> QED
    BY <1>1, <2>3, <2>4 DEF LoadDefect, TypeOK
<1>2. CASE Transition(r)
  <2>1. job[r] \in Job /\ job[r].defect \in Submits /\ job[r].to \in DefectStatus
    BY <1>2 DEF Transition, TypeOK, Job
  <2>2. defects[job[r].defect] \in DefectRow
    BY <1>2, <2>1 DEF Transition, TypeOK
  <2>3. /\ defects' \in [Submits -> DefectRow \cup {None}]
        /\ \A d \in Submits : defects[d] # None => defects'[d] # None
    BY <1>2, <2>1, <2>2, MovedType DEF Transition, TypeOK
  <2>4. outbox' \in [Event -> Nat]
    BY <1>2, EmitType DEF Transition, TypeOK
  <2>5. straddling' \subseteq Submits \X Submits
    BY <1>2, <2>1 DEF Transition, TypeOK
  <2> QED
    BY <1>2, <2>3, <2>4, <2>5 DEF Transition, TypeOK, Job
<1> QED
  BY <1>1, <1>2

(* Types hold in every reachable state. *)
LEMMA NextType ==
  ASSUME TypeOK, [Next]_vars
  PROVE  TypeOK'
<1>1. CASE \E p \in Submits : SubmitStep(p)
  BY <1>1, SubmitType
<1>2. CASE \E a \in Approvals : ApprovalStep(a)
  BY <1>2, ApprovalType
<1>3. CASE \E r \in Repairs : LoadDefect(r) \/ Transition(r)
  BY <1>3, RepairType
<1>4. CASE \E e \in Equipment : Retire(e)
  BY <1>4 DEF Retire, TypeOK, EquipmentRow, EquipmentStatus, submitVars, approvalVars, repairVars
<1>5. CASE UNCHANGED vars
  BY <1>5 DEF vars, tables, submitVars, approvalVars, repairVars,
      TypeOK
<1> QED
  BY <1>1, <1>2, <1>3, <1>4, <1>5 DEF Next

(* Table rows and request memory keep their types, for any number of requests:  *)
(* a submit past its precheck has a body, a stamped defect exists (submit.ts,   *)
(* return-to-service.ts, the defect routes).                                   *)
THEOREM TypeCorrect == Spec => []TypeOK
  BY InitType, NextType, PTL DEF Spec

-----------------------------------------------------------------------------
(* One inspection for each Idempotency-Key, however many attempts race with it *)

KeyInvariant == KeysMatchInspections /\ ExactlyOneInspection

keyTables == <<inspections, idempotencyKeys>>

(* No key, no inspection and no request at the start. *)
LEMMA InitKeys == Init => KeyInvariant
  BY DEF Init, KeyInvariant, KeysMatchInspections, ExactlyOneInspection, KeyRecorded

(* A step of p that records nothing and does not pass the index. *)
LEMMA RecordsNothing ==
  ASSUME TypeOK, KeyInvariant, NEW p \in Submits, UNCHANGED keyTables,
         \A q \in Submits : q # p => /\ pc'[q] = pc[q] /\ body'[q] = body[q]
                                     /\ response'[q] = response[q],
         pc'[p] # "keyed",
         response'[p] = None
           \/ (pc'[p] = "done" /\ response'[p].code \notin {"CREATED", "REPLAYED"})
           \/ (/\ pc'[p] = "done"
               /\ \E row \in idempotencyKeys : /\ row.digest = body'[p]
                                               /\ row.inspection = response'[p].inspection)
  PROVE  KeyInvariant'
<1> USE DEF keyTables
<1>1. \A k : KeyRecorded(k)' <=> KeyRecorded(k)
  BY DEF KeyRecorded
<1>2. KeysMatchInspections'
  BY <1>1 DEF KeyInvariant, KeysMatchInspections
<1>3. ASSUME NEW q \in Submits, response'[q] # None,
             response'[q].code \in {"CREATED", "REPLAYED"}
      PROVE  \E i \in inspections' : i.id = response'[q].inspection /\ i.body = body'[q]
  <2>1. CASE q # p
    BY <1>3, <2>1 DEF KeyInvariant, ExactlyOneInspection
  <2>2. CASE q = p
    BY <1>3, <2>2 DEF KeyInvariant, KeysMatchInspections
  <2> QED
    BY <2>1, <2>2
<1> QED
  BY <1>2, <1>3 DEF KeyInvariant, ExactlyOneInspection

(* The step of a submit keeps keys and inspections in agreement. *)
LEMMA SubmitKeepsKeys ==
  ASSUME TypeOK, TypeOK', KeyInvariant, NEW p \in Submits, SubmitStep(p)
  PROVE  KeyInvariant'
<1> USE DEF tables
<1>1. CASE Precheck(p) \/ ReplayWinner(p)
  <2>1. UNCHANGED keyTables
    BY <1>1 DEF Precheck, ReplayWinner, keyTables
  <2>2. \A q \in Submits : q # p => /\ pc'[q] = pc[q] /\ body'[q] = body[q]
                                    /\ response'[q] = response[q]
    BY <1>1 DEF Precheck, ReplayWinner, Replay, Respond, TypeOK
  <2>3. pc'[p] # "keyed"
    BY <1>1 DEF Precheck, ReplayWinner, Replay, Respond, TypeOK
  <2>4. PICK b : /\ body'[p] = b
                 /\ Replay(p, b) \/ (pc[p] = "idle" /\ response' = response)
    BY <1>1 DEF Precheck, ReplayWinner, TypeOK
  <2>5. CASE Replay(p, b)
    BY <2>1, <2>2, <2>3, <2>4, <2>5, RecordsNothing DEF Replay, Respond, TypeOK
  <2>6. CASE pc[p] = "idle" /\ response' = response
    <3>1. response'[p] = None
      BY <2>6 DEF KeyInvariant, KeysMatchInspections
    <3> QED
      BY <2>1, <2>2, <2>3, <3>1, RecordsNothing
  <2> QED
    BY <2>4, <2>5, <2>6
<1>2. CASE Admit(p) \/ Begin(p) \/ InsertInspection(p) \/ LockEquipment(p) \/ CrashSubmit(p)
             \/ DeadlockVictim(p)
  <2> USE DEF Admit, Begin, InsertInspection, LockEquipment, CrashSubmit, DeadlockVictim
  <2>1. UNCHANGED keyTables
    BY <1>2 DEF keyTables
  <2>2. \A q \in Submits : q # p => /\ pc'[q] = pc[q] /\ body'[q] = body[q]
                                    /\ response'[q] = response[q]
    BY <1>2 DEF Respond, TypeOK
  <2>3. pc'[p] # "keyed"
    BY <1>2 DEF Respond, TypeOK
  <2>4. pc[p] # "done"
    BY <1>2 DEF InTransaction, WaitsFor
  <2>5. response[p] = None
    BY <2>4 DEF KeyInvariant, KeysMatchInspections
  <2>6. \/ response'[p] = None
        \/ pc'[p] = "done" /\ response'[p].code \notin {"CREATED", "REPLAYED"}
    BY <1>2, <2>5 DEF Respond, TypeOK
  <2> QED
    BY <2>1, <2>2, <2>3, <2>6, RecordsNothing
<1>3. CASE InsertKey(p)
  <2>1. UNCHANGED <<keyTables, body, response>>
    BY <1>3 DEF InsertKey, keyTables
  <2>2. /\ \A q \in Submits : q # p => pc'[q] = pc[q]
        /\ pc'[p] = IF KeyRecorded(body[p].key) THEN "conflict" ELSE "keyed"
        /\ pc[p] # "done"
        /\ \A q \in Submits : q # p /\ pc[q] = "keyed" => body[q].key # body[p].key
    BY <1>3 DEF InsertKey, TypeOK
  <2>3. \A k : KeyRecorded(k)' <=> KeyRecorded(k)
    BY <2>1 DEF KeyRecorded, keyTables
  <2>4. KeysMatchInspections'
    BY <2>1, <2>2, <2>3 DEF KeyInvariant, KeysMatchInspections, keyTables
  <2> QED
    BY <2>1, <2>4 DEF KeyInvariant, ExactlyOneInspection, keyTables
<1>4. CASE CommitSubmit(p)
  <2> DEFINE row == [key |-> body[p].key, digest |-> body[p], inspection |-> p]
             new == [id |-> p, body |-> body[p], submittedAt |-> start[p]]
  <2>0. /\ row.key = body[p].key /\ row.digest = body[p] /\ row.inspection = p
        /\ new.id = p /\ new.body = body[p]
    OBVIOUS
  <2>1. /\ idempotencyKeys' = idempotencyKeys \cup {row}
        /\ inspections' = inspections \cup {new}
        /\ body' = body /\ pc[p] = "keyed"
    BY <1>4 DEF CommitSubmit
  <2> HIDE DEF row, new
  <2>2. /\ \A q \in Submits : q # p => pc'[q] = pc[q] /\ response'[q] = response[q]
        /\ pc'[p] = "done" /\ response'[p] = [code |-> "CREATED", inspection |-> p]
    BY <1>4 DEF CommitSubmit, Respond, TypeOK
  <2>3. \A k : KeyRecorded(k)' <=> (KeyRecorded(k) \/ k = body[p].key)
    BY <2>0, <2>1 DEF KeyRecorded
  <2>4. ~KeyRecorded(body[p].key)
    BY <2>0, <2>1 DEF KeyInvariant, KeysMatchInspections
  <2>5. \A q \in Submits : q # p /\ pc[q] = "keyed" => body[q].key # body[p].key
    BY <2>0, <2>1 DEF KeyInvariant, KeysMatchInspections
  <2>6. KeysMatchInspections'
    <3>1. \A r \in idempotencyKeys' :
            \E i \in inspections' : i.id = r.inspection /\ i.body = r.digest /\ i.body.key = r.key
      BY <2>0, <2>1 DEF KeyInvariant, KeysMatchInspections
    <3>2. \A i \in inspections' : KeyRecorded(i.body.key)'
      BY <2>0, <2>1, <2>3 DEF KeyInvariant, KeysMatchInspections
    <3>3. \A q \in Submits : pc'[q] = "keyed" => q # p /\ pc[q] = "keyed"
      BY <2>2
    <3>4. \A q, s \in Submits :
            pc'[q] = "keyed" => /\ ~KeyRecorded(body[q].key)'
                                /\ (pc'[s] = "keyed" /\ body'[s].key = body'[q].key) => q = s
      BY <2>0, <2>1, <2>3, <2>5, <3>3 DEF KeyInvariant, KeysMatchInspections
    <3>5. \A q \in Submits : response'[q] # None => pc'[q] = "done"
      BY <2>2 DEF KeyInvariant, KeysMatchInspections
    <3> QED
      BY <2>0, <2>1, <3>1, <3>2, <3>4, <3>5 DEF KeysMatchInspections
  <2>7. ExactlyOneInspection'
    <3>1. \A i \in inspections : i.body.key # body[p].key
      BY <2>4 DEF KeyInvariant, KeysMatchInspections
    <3>2. \A i, j \in inspections' : i.body.key = j.body.key => i = j
      BY <2>0, <2>1, <3>1 DEF KeyInvariant, ExactlyOneInspection
    <3>3. ASSUME NEW q \in Submits, response'[q] # None,
                 response'[q].code \in {"CREATED", "REPLAYED"}
          PROVE  \E i \in inspections' : i.id = response'[q].inspection /\ i.body = body'[q]
      <4>1. CASE q = p
        BY <2>0, <2>1, <2>2, <4>1
      <4>2. CASE q # p
        BY <2>1, <2>2, <3>3, <4>2 DEF KeyInvariant, ExactlyOneInspection
      <4> QED
        BY <4>1, <4>2
    <3> QED
      BY <3>2, <3>3 DEF ExactlyOneInspection
  <2> QED
    BY <2>6, <2>7 DEF KeyInvariant
<1> QED
  BY <1>1, <1>2, <1>3, <1>4 DEF SubmitStep

(* Only submits write either table, so every step does. *)
LEMMA NextKeys ==
  ASSUME TypeOK, TypeOK', KeyInvariant, [Next]_vars
  PROVE  KeyInvariant'
<1> USE DEF KeyInvariant, KeysMatchInspections, ExactlyOneInspection, KeyRecorded
<1>1. CASE \E p \in Submits : SubmitStep(p)
  BY <1>1, SubmitKeepsKeys
<1>2. CASE UNCHANGED <<keyTables, submitVars>>
  BY <1>2 DEF keyTables, submitVars
<1>3. (\E a \in Approvals : ApprovalStep(a)) => UNCHANGED <<keyTables, submitVars>>
  BY DEF ApprovalStep, BeginApproval, LockForApproval, StampResolved, CommitApproval,
         CrashApproval, keyTables, tables
<1>4. (\E r \in Repairs : LoadDefect(r) \/ Transition(r)) => UNCHANGED <<keyTables, submitVars>>
  BY DEF LoadDefect, Transition, keyTables, tables
<1>5. (\E e \in Equipment : Retire(e)) => UNCHANGED <<keyTables, submitVars>>
  BY DEF Retire, keyTables
<1>6. UNCHANGED vars => UNCHANGED <<keyTables, submitVars>>
  BY DEF vars, tables, keyTables
<1> QED
  BY <1>1, <1>2, <1>3, <1>4, <1>5, <1>6 DEF Next

(* Whatever races with an Idempotency-Key, it stands for one inspection, and      *)
(* who is told 201 is told of the one his own body made (submit.ts:108-115,       *)
(* 353-374).                                                                    *)
THEOREM OneInspectionPerKey == Spec => []ExactlyOneInspection
<1>1. TypeOK /\ KeyInvariant /\ [Next]_vars => (TypeOK /\ KeyInvariant)'
  BY NextType, NextKeys
<1>2. KeyInvariant => ExactlyOneInspection
  BY DEF KeyInvariant
<1> QED
  BY <1>1, <1>2, InitType, InitKeys, PTL DEF Spec

(* The key rows and the inspections correspond one to one. *)
THEOREM KeysAlwaysMatch == Spec => []KeysMatchInspections
<1>1. TypeOK /\ KeyInvariant /\ [Next]_vars => (TypeOK /\ KeyInvariant)'
  BY NextType, NextKeys
<1>2. KeyInvariant => KeysMatchInspections
  BY DEF KeyInvariant
<1> QED
  BY <1>1, <1>2, InitType, InitKeys, PTL DEF Spec

-----------------------------------------------------------------------------
(* What a transaction decided under a row lock still holds when it commits *)

locks == <<equipment, defects, previousStatus, approvalVars, repairVars>>

(* A step of p that leaves it without a lock, and nobody with a new one. *)
LEMMA NoNewLocks ==
  ASSUME TypeOK, DecisionsHold, NEW p \in Submits, UNCHANGED locks,
         pc' \in [Submits -> Phase], body' \in [Submits -> Body \cup {None}],
         \A q \in Submits : q # p => pc'[q] = pc[q] /\ body'[q] = body[q],
         pc'[p] \notin {"inserted", "locked", "keyed"},
         pc[p] # "done" \/ pc'[p] = "done"
  PROVE  DecisionsHold'
<1> USE DEF locks, approvalVars, repairVars
<1>1. LocksExclude'
  BY DEF DecisionsHold, LocksExclude, HoldsUpdate, HoldsKeyShare, ApprovalHoldsUpdate, Blocking
<1>2. SubmitDecides'
  BY DEF DecisionsHold, SubmitDecides, HoldsUpdate, Blocking
<1>3. ApprovalDecides'
  BY DEF DecisionsHold, ApprovalDecides, Cycle, OpenDefect
<1>4. \A q \in Submits : defects'[q] # None => pc'[q] = "done"
  BY DEF DecisionsHold
<1>5. \A r \in Repairs : job'[r] # None => job'[r].to \in DefectTransitions[job'[r].from]
  BY DEF DecisionsHold
<1> QED
  BY <1>1, <1>2, <1>3, <1>4, <1>5 DEF DecisionsHold

(* A submit locks before it decides and commits what it decided. *)
LEMMA SubmitKeepsDecisions ==
  ASSUME TypeOK, TypeOK', DecisionsHold, NEW p \in Submits, SubmitStep(p)
  PROVE  DecisionsHold'
<1> USE DEF tables, approvalVars, repairVars
<1>0. ASSUME Precheck(p) \/ Admit(p) \/ Begin(p) \/ ReplayWinner(p) \/ CrashSubmit(p)
               \/ DeadlockVictim(p)
      PROVE  DecisionsHold'
  <2>1. UNCHANGED locks
    BY <1>0 DEF Precheck, Admit, Begin, ReplayWinner, CrashSubmit, DeadlockVictim, locks
  <2>2. \A q \in Submits : q # p => pc'[q] = pc[q] /\ body'[q] = body[q]
    BY <1>0 DEF Precheck, Admit, Begin, ReplayWinner, CrashSubmit, DeadlockVictim,
                Replay, Respond, TypeOK
  <2>3. pc'[p] \in {"prechecked", "admitted", "begun", "done"}
    BY <1>0 DEF Precheck, Admit, Begin, ReplayWinner, CrashSubmit, DeadlockVictim,
                Replay, Respond, TypeOK
  <2>4. pc[p] # "done"
    BY <1>0 DEF Precheck, Admit, Begin, ReplayWinner, CrashSubmit, InTransaction,
                DeadlockVictim, WaitsFor
  <2> QED
    BY <2>1, <2>2, <2>3, <2>4, NoNewLocks DEF TypeOK
<1>1. CASE InsertInspection(p)
  <2> USE <1>1 DEF InsertInspection
  <2>1. LocksExclude'
    BY DEF TypeOK, DecisionsHold, LocksExclude, KeyShareFree, HoldsUpdate, HoldsKeyShare,
           ApprovalHoldsUpdate, Blocking
  <2>2. SubmitDecides' /\ ApprovalDecides'
    BY DEF TypeOK, DecisionsHold, SubmitDecides, ApprovalDecides, HoldsUpdate, Blocking,
           Cycle, OpenDefect
  <2> QED
    BY <2>1, <2>2 DEF TypeOK, DecisionsHold
<1>2. CASE LockEquipment(p)
  <2> USE <1>2 DEF LockEquipment
  <2>1. LocksExclude'
    BY DEF TypeOK, DecisionsHold, LocksExclude, UpdateFree, HoldsUpdate, HoldsKeyShare,
           ApprovalHoldsUpdate, Blocking
  <2>2. SubmitDecides' /\ ApprovalDecides'
    BY DEF TypeOK, DecisionsHold, SubmitDecides, ApprovalDecides, HoldsUpdate, Blocking,
           Cycle, OpenDefect
  <2> QED
    BY <2>1, <2>2 DEF TypeOK, DecisionsHold
<1>3. CASE InsertKey(p)
  <2> USE <1>3 DEF InsertKey
  <2>1. LocksExclude'
    BY DEF TypeOK, DecisionsHold, LocksExclude, SubmitDecides, HoldsUpdate, HoldsKeyShare,
           ApprovalHoldsUpdate, Blocking
  <2>2. SubmitDecides' /\ ApprovalDecides'
    BY DEF TypeOK, DecisionsHold, SubmitDecides, ApprovalDecides, HoldsUpdate, Blocking,
           Cycle, OpenDefect
  <2> QED
    BY <2>1, <2>2 DEF TypeOK, DecisionsHold
<1>4. CASE CommitSubmit(p)
  <2> DEFINE e == body[p].equipment
  <2>1. e \in Equipment /\ defects[p] = None /\ HoldsKeyShare(p, e)
    BY <1>4 DEF CommitSubmit, TypeOK, Body, DecisionsHold, HoldsKeyShare
  <2>2. pc' = [pc EXCEPT ![p] = "done"] /\ UNCHANGED <<body, previousStatus, approvalVars, repairVars>>
    BY <1>4 DEF CommitSubmit, Respond
  <2>3. \A f \in Equipment : f # e => equipment'[f] = equipment[f]
    BY <1>4, <2>1 DEF CommitSubmit, TypeOK
  <2>4. /\ \A d \in Submits : d # p => defects'[d] = defects[d]
        /\ defects'[p] = None \/ defects'[p].equipment = e
    BY <1>4, <2>1 DEF CommitSubmit, TypeOK
  <2>5. equipment'[e] # equipment[e] => HoldsUpdate(p, e)
    BY <1>4 DEF CommitSubmit, LocksOut, HoldsUpdate
  <2>6. LocksExclude'
    BY <2>2 DEF TypeOK, DecisionsHold, LocksExclude, HoldsUpdate, HoldsKeyShare,
                ApprovalHoldsUpdate, Blocking
  <2>7. SubmitDecides'
    <3> SUFFICES ASSUME NEW q \in Submits
                 PROVE  /\ pc'[q] = "locked" => Blocking(q)'
                        /\ HoldsUpdate(q, body[q].equipment)'
                             => previousStatus'[q] = equipment'[body'[q].equipment].status
      BY <2>2 DEF SubmitDecides
    <3>1. HoldsUpdate(q, body[q].equipment)' => q # p /\ HoldsUpdate(q, body[q].equipment)
      BY <2>2 DEF HoldsUpdate, TypeOK, Blocking
    <3>2. HoldsUpdate(q, body[q].equipment) => body[q].equipment \in Equipment
      BY DEF HoldsUpdate, TypeOK, Body
    <3>3. q # p /\ HoldsUpdate(q, body[q].equipment) => body[q].equipment # e
      BY <2>1, <3>2 DEF DecisionsHold, LocksExclude
    <3> QED
      BY <2>2, <2>3, <3>1, <3>2, <3>3 DEF DecisionsHold, SubmitDecides, TypeOK, Blocking
  <2>8. ApprovalDecides'
    <3> SUFFICES ASSUME NEW a \in Approvals, apc[a] \in {"locked", "stamped"}
                 PROVE  /\ equipment'[target[a]] = equipment[target[a]]
                        /\ \A d \in Submits :
                             (defects'[d] # None /\ defects'[d].equipment = target[a])
                               => defects'[d] = defects[d]
                        /\ defects[p] = None
      BY <2>1, <2>2, <2>4 DEF DecisionsHold, ApprovalDecides, Cycle, OpenDefect
    <3>1. target[a] \in Equipment /\ target[a] # e
      BY <2>1 DEF TypeOK, DecisionsHold, LocksExclude, ApprovalHoldsUpdate
    <3> QED
      BY <2>1, <2>3, <2>4, <3>1
  <2> QED
    BY <2>2, <2>4, <2>6, <2>7, <2>8 DEF TypeOK, DecisionsHold
<1> QED
  BY <1>0, <1>1, <1>2, <1>3, <1>4 DEF SubmitStep

(* A step of an approval gains the lock of an equipment row only when it is free. *)
LEMMA ApprovalKeepsLocks ==
  ASSUME LocksExclude, NEW a \in Approvals, UNCHANGED submitVars,
         \A b \in Approvals, e \in Equipment :
           ApprovalHoldsUpdate(b, e)' =>
             ApprovalHoldsUpdate(b, e) \/ (b = a /\ UpdateFree(a, e))
  PROVE  LocksExclude'
<1>1. a \notin Submits
  BY RequestsAssumption
<1>2. \A p \in Submits, e \in Equipment :
        /\ HoldsUpdate(p, e)' <=> HoldsUpdate(p, e)
        /\ HoldsKeyShare(p, e)' <=> HoldsKeyShare(p, e)
  BY DEF submitVars, HoldsUpdate, HoldsKeyShare, Blocking
<1>3. \A e \in Equipment, b \in Approvals, p \in Submits :
        ApprovalHoldsUpdate(b, e)' => ~HoldsKeyShare(p, e)
  BY <1>1 DEF LocksExclude, UpdateFree
<1>4. \A e \in Equipment, b, c \in Approvals :
        ApprovalHoldsUpdate(b, e)' /\ ApprovalHoldsUpdate(c, e)' => b = c
  BY DEF LocksExclude, UpdateFree
<1> QED
  BY <1>2, <1>3, <1>4 DEF LocksExclude

(* So does an approval. *)
LEMMA ApprovalKeepsDecisions ==
  ASSUME TypeOK, TypeOK', DecisionsHold, NEW a \in Approvals, ApprovalStep(a)
  PROVE  DecisionsHold'
<1> USE DEF tables, submitVars, repairVars
<1>1. CASE BeginApproval(a) \/ CrashApproval(a)
  <2> USE <1>1 DEF BeginApproval, CrashApproval
  <2>1. LocksExclude'
    BY ApprovalKeepsLocks DEF TypeOK, DecisionsHold, ApprovalHoldsUpdate
  <2>2. SubmitDecides' /\ ApprovalDecides'
    BY DEF TypeOK, DecisionsHold, SubmitDecides, ApprovalDecides, HoldsUpdate, Blocking,
           Cycle, OpenDefect
  <2> QED
    BY <2>1, <2>2 DEF TypeOK, DecisionsHold
<1>2. CASE LockForApproval(a)
  <2> USE <1>2 DEF LockForApproval
  <2>1. LocksExclude'
    BY ApprovalKeepsLocks DEF TypeOK, DecisionsHold, ApprovalHoldsUpdate
  <2>2. SubmitDecides' /\ ApprovalDecides'
    BY DEF TypeOK, DecisionsHold, SubmitDecides, ApprovalDecides, HoldsUpdate, Blocking,
           Cycle, OpenDefect
  <2> QED
    BY <2>1, <2>2 DEF TypeOK, DecisionsHold
<1>3. CASE StampResolved(a)
  <2> USE <1>3 DEF StampResolved
  <2>1. LocksExclude'
    BY ApprovalKeepsLocks DEF TypeOK, DecisionsHold, ApprovalHoldsUpdate
  <2>2. SubmitDecides' /\ ApprovalDecides'
    BY DEF TypeOK, DecisionsHold, SubmitDecides, ApprovalDecides, HoldsUpdate, Blocking,
           Cycle, OpenDefect
  <2> QED
    BY <2>1, <2>2 DEF TypeOK, DecisionsHold
<1>4. CASE CommitApproval(a)
  <2> DEFINE e == target[a]
  <2>1. e \in Equipment /\ ApprovalHoldsUpdate(a, e)
    BY <1>4 DEF CommitApproval, TypeOK, ApprovalHoldsUpdate
  <2>2. /\ apc' = [apc EXCEPT ![a] = "done"]
        /\ UNCHANGED <<submitVars, target, resolved, repairVars>>
    BY <1>4 DEF CommitApproval
  <2>3. \A f \in Equipment : f # e => equipment'[f] = equipment[f]
    BY <1>4, <2>1 DEF CommitApproval, TypeOK
  <2>4. \A d \in Submits : d \notin resolved[a] => defects'[d] = defects[d]
    BY <1>4 DEF CommitApproval, Stamped
  <2>5. \A d \in resolved[a] : defects[d] # None /\ defects[d].equipment = e
    BY <1>4 DEF CommitApproval, DecisionsHold, ApprovalDecides, Cycle
  <2>6. \A d \in resolved[a] : defects'[d].equipment = e
    BY <1>4, <2>5 DEF CommitApproval, Stamped, TypeOK, DefectRow
  <2>7. LocksExclude'
    BY <2>2, ApprovalKeepsLocks DEF TypeOK, DecisionsHold, ApprovalHoldsUpdate
  <2>8. SubmitDecides'
    <3> SUFFICES ASSUME NEW q \in Submits, HoldsUpdate(q, body[q].equipment)
                 PROVE  equipment'[body[q].equipment] = equipment[body[q].equipment]
      BY <2>2 DEF SubmitDecides, DecisionsHold, HoldsUpdate, Blocking
    <3>1. body[q].equipment \in Equipment /\ HoldsKeyShare(q, body[q].equipment)
      BY DEF HoldsUpdate, HoldsKeyShare, TypeOK, Body
    <3> QED
      BY <2>1, <2>3, <3>1 DEF DecisionsHold, LocksExclude
  <2>9. ApprovalDecides'
    <3> SUFFICES ASSUME NEW b \in Approvals, apc[b] \in {"locked", "stamped"}, b # a
                 PROVE  /\ equipment'[target[b]] = equipment[target[b]]
                        /\ Cycle(target[b])' = Cycle(target[b])
                        /\ \A d \in Cycle(target[b]) : defects'[d] = defects[d]
      BY <2>2 DEF DecisionsHold, ApprovalDecides, OpenDefect, TypeOK
    <3>1. target[b] \in Equipment /\ target[b] # e
      BY <2>1 DEF TypeOK, DecisionsHold, LocksExclude, ApprovalHoldsUpdate
    <3>2. equipment'[target[b]] = equipment[target[b]]
      BY <2>3, <3>1
    <3>3. \A d \in Submits :
            d \in resolved[a] => /\ d \notin Cycle(target[b])
                                 /\ d \notin Cycle(target[b])'
      BY <2>2, <2>5, <2>6, <3>1 DEF Cycle
    <3>4. \A d \in Submits :
            d \notin resolved[a] => (d \in Cycle(target[b]) <=> d \in Cycle(target[b])')
      BY <2>2, <2>4, <3>2 DEF Cycle
    <3>5. \A d \in Cycle(target[b]) : d \in Submits /\ d \notin resolved[a]
      BY <3>3 DEF Cycle
    <3>6. Cycle(target[b])' = Cycle(target[b])
      BY <3>3, <3>4 DEF Cycle
    <3> QED
      BY <2>4, <3>2, <3>5, <3>6
  <2>10. \A d \in Submits : defects'[d] # None => pc'[d] = "done"
    BY <2>2, <2>4, <2>5 DEF DecisionsHold
  <2> QED
    BY <2>2, <2>7, <2>8, <2>9, <2>10 DEF DecisionsHold
<1> QED
  BY <1>1, <1>2, <1>3, <1>4 DEF ApprovalStep

(* A defect request cannot reopen a defect an approval counted as closed. *)
LEMMA RepairKeepsDecisions ==
  ASSUME TypeOK, TypeOK', DecisionsHold, NEW r \in Repairs, LoadDefect(r) \/ Transition(r)
  PROVE  DecisionsHold'
<1> USE DEF tables, submitVars, approvalVars, repairVars
<1>0. UNCHANGED <<equipment, submitVars, approvalVars>>
  BY DEF LoadDefect, Transition
<1>1. LocksExclude' /\ SubmitDecides'
  BY <1>0 DEF DecisionsHold, LocksExclude, SubmitDecides, HoldsUpdate, HoldsKeyShare,
              ApprovalHoldsUpdate, Blocking
<1>2. CASE LoadDefect(r)
  <2>1. ApprovalDecides'
    BY <1>2 DEF LoadDefect, DecisionsHold, ApprovalDecides, Cycle, OpenDefect
  <2>2. \A s \in Repairs : job'[s] # None => job'[s].to \in DefectTransitions[job'[s].from]
    BY <1>2 DEF LoadDefect, DecisionsHold, TypeOK
  <2> QED
    BY <1>1, <1>2, <2>1, <2>2 DEF LoadDefect, DecisionsHold
<1>3. CASE Transition(r)
  <2> DEFINE d == job[r].defect
  <2>1. d \in Submits /\ defects[d] # None /\ defects[d] \in DefectRow
        /\ job[r].from \in DefectStatus
    BY <1>3 DEF Transition, TypeOK, Job
  <2>2. job[r].from \notin Terminal
    BY <1>3, <2>1 DEF Transition, DecisionsHold, DefectTransitions, Terminal, DefectStatus
  <2>3. /\ \A c \in Submits : c # d => defects'[c] = defects[c]
        /\ defects'[d] # defects[d] => OpenDefect(d)
        /\ defects'[d].equipment = defects[d].equipment
        /\ defects'[d].openedAt = defects[d].openedAt
    BY <1>3, <2>1, <2>2 DEF Transition, TypeOK, OpenDefect, DefectRow
  <2>4. ApprovalDecides'
    BY <1>0, <2>1, <2>3 DEF DecisionsHold, ApprovalDecides, Cycle, OpenDefect
  <2>5. \A c \in Submits : defects'[c] # None => pc'[c] = "done"
    BY <1>0, <2>1, <2>3 DEF DecisionsHold
  <2>6. \A s \in Repairs : job'[s] # None => job'[s].to \in DefectTransitions[job'[s].from]
    BY <1>3 DEF Transition, DecisionsHold, TypeOK
  <2> QED
    BY <1>1, <2>4, <2>5, <2>6 DEF DecisionsHold
<1> QED
  BY <1>2, <1>3

(* An administrator's UPDATE waits for both kinds of lock holders. *)
LEMMA RetireKeepsDecisions ==
  ASSUME TypeOK, DecisionsHold, NEW e \in Equipment, Retire(e)
  PROVE  DecisionsHold'
<1> USE DEF submitVars, approvalVars, repairVars
<1>1. UNCHANGED <<defects, submitVars, approvalVars, repairVars>>
  BY DEF Retire
<1>2. \A f \in Equipment : f # e => equipment'[f] = equipment[f]
  BY DEF Retire, TypeOK
<1>3. /\ \A q \in Submits : ~HoldsUpdate(q, e)
      /\ \A a \in Approvals : ~ApprovalHoldsUpdate(a, e)
  BY NoneAssumption DEF Retire, KeyShareFree
<1>4. LocksExclude'
  BY <1>1 DEF DecisionsHold, LocksExclude, HoldsUpdate, HoldsKeyShare, ApprovalHoldsUpdate, Blocking
<1>5. SubmitDecides'
  <2> SUFFICES ASSUME NEW q \in Submits, HoldsUpdate(q, body[q].equipment)
               PROVE  equipment'[body[q].equipment] = equipment[body[q].equipment]
    BY <1>1 DEF SubmitDecides, DecisionsHold, HoldsUpdate, Blocking
  <2>1. body[q].equipment \in Equipment
    BY DEF HoldsUpdate, TypeOK, Body
  <2> QED
    BY <1>2, <1>3, <2>1
<1>6. ApprovalDecides'
  <2> SUFFICES ASSUME NEW a \in Approvals, apc[a] \in {"locked", "stamped"}
               PROVE  equipment'[target[a]] = equipment[target[a]]
    BY <1>1 DEF ApprovalDecides, DecisionsHold, Cycle, OpenDefect
  <2>1. target[a] \in Equipment /\ target[a] # e
    BY <1>3 DEF TypeOK, ApprovalHoldsUpdate
  <2> QED
    BY <1>2, <2>1
<1> QED
  BY <1>1, <1>4, <1>5, <1>6 DEF DecisionsHold

(* No request has decided anything at the start. *)
LEMMA InitDecisions == Init => DecisionsHold
  BY DEF Init, DecisionsHold, LocksExclude, SubmitDecides, ApprovalDecides, HoldsUpdate,
         HoldsKeyShare, ApprovalHoldsUpdate

(* DecisionsHold is inductive, given the types. *)
LEMMA NextDecisions ==
  ASSUME TypeOK, TypeOK', DecisionsHold, [Next]_vars
  PROVE  DecisionsHold'
<1>1. CASE \E p \in Submits : SubmitStep(p)
  BY <1>1, SubmitKeepsDecisions
<1>2. CASE \E a \in Approvals : ApprovalStep(a)
  BY <1>2, ApprovalKeepsDecisions
<1>3. CASE \E r \in Repairs : LoadDefect(r) \/ Transition(r)
  BY <1>3, RepairKeepsDecisions
<1>4. CASE \E e \in Equipment : Retire(e)
  BY <1>4, RetireKeepsDecisions
<1>5. CASE UNCHANGED vars
  BY <1>5 DEF vars, tables, submitVars, approvalVars, repairVars, DecisionsHold, LocksExclude,
              SubmitDecides, ApprovalDecides, HoldsUpdate, HoldsKeyShare,
              ApprovalHoldsUpdate, Blocking, Cycle, OpenDefect
<1> QED
  BY <1>1, <1>2, <1>3, <1>4, <1>5 DEF Next

(* From FOR UPDATE to COMMIT a transaction's view of the equipment row and of    *)
(* the lockout's defects stays true (submit.ts:310-346, return-to-service.ts).  *)
THEOREM DecisionsAlwaysHold == Spec => []DecisionsHold
<1>1. TypeOK /\ DecisionsHold /\ [Next]_vars => (TypeOK /\ DecisionsHold)'
  BY NextType, NextDecisions
<1> QED
  BY <1>1, InitType, InitDecisions, PTL DEF Spec

-----------------------------------------------------------------------------
(* What a commit does *)

(* The four steps that write an equipment or a defect row. *)
LEMMA Writers ==
  ASSUME [Next]_vars
  PROVE  \/ UNCHANGED <<equipment, defects>>
         \/ \E p \in Submits : CommitSubmit(p)
         \/ \E a \in Approvals : CommitApproval(a)
         \/ \E r \in Repairs : Transition(r)
         \/ \E e \in Equipment : Retire(e)
<1> USE DEF tables
<1>1. ASSUME NEW p \in Submits, SubmitStep(p)
      PROVE  UNCHANGED <<equipment, defects>> \/ CommitSubmit(p)
  BY <1>1 DEF SubmitStep, Precheck, Admit, Begin, InsertInspection, LockEquipment, InsertKey,
              ReplayWinner, CrashSubmit, DeadlockVictim
<1>2. ASSUME NEW a \in Approvals, ApprovalStep(a)
      PROVE  UNCHANGED <<equipment, defects>> \/ CommitApproval(a)
  BY <1>2 DEF ApprovalStep, BeginApproval, LockForApproval, StampResolved, CrashApproval
<1>3. ASSUME NEW r \in Repairs, LoadDefect(r)
      PROVE  UNCHANGED <<equipment, defects>>
  BY <1>3 DEF LoadDefect
<1>4. UNCHANGED vars => UNCHANGED <<equipment, defects>>
  BY DEF vars
<1> QED
  BY <1>1, <1>2, <1>3, <1>4 DEF Next

(* RETIRED is never written over, by a lockout or by a return. *)
THEOREM RetiredStays == Spec => RetiredIsTerminal
<1>1. ASSUME TypeOK, DecisionsHold, [Next]_vars
      PROVE  \A e \in Equipment :
               equipment[e].status = "RETIRED" => equipment'[e].status = "RETIRED"
  <2> USE <1>1
  <2> SUFFICES ASSUME NEW e \in Equipment, equipment[e].status = "RETIRED"
               PROVE  equipment'[e].status = "RETIRED"
    OBVIOUS
  <2>1. CASE \E p \in Submits : CommitSubmit(p)
    <3> PICK p \in Submits : CommitSubmit(p)
      BY <2>1
    <3>1. LocksOut(p) => HoldsUpdate(p, body[p].equipment)
      BY DEF CommitSubmit, LocksOut, HoldsUpdate
    <3>2. LocksOut(p) => body[p].equipment # e
      BY <3>1 DEF LocksOut, DecisionsHold, SubmitDecides
    <3> QED
      BY <3>2 DEF CommitSubmit, TypeOK
  <2>2. CASE \E a \in Approvals : CommitApproval(a)
    <3> PICK a \in Approvals : CommitApproval(a)
      BY <2>2
    <3>1. target[a] # e
      BY DEF CommitApproval, DecisionsHold, ApprovalDecides
    <3> QED
      BY <3>1 DEF CommitApproval, TypeOK
  <2>3. CASE \E r \in Repairs : Transition(r)
    BY <2>3 DEF Transition
  <2>4. CASE \E f \in Equipment : Retire(f)
    BY <2>4 DEF Retire, TypeOK
  <2> QED
    BY <2>1, <2>2, <2>3, <2>4, Writers
<1> QED
  BY <1>1, TypeCorrect, DecisionsAlwaysHold, PTL DEF Spec, RetiredIsTerminal

(* The commit that makes a blocking inspection's defect visible leaves the       *)
(* equipment OUT_OF_SERVICE (or RETIRED): the status was read under FOR UPDATE   *)
(* and nobody wrote the row since (submit.ts:258-346).                          *)
THEOREM LockoutIsAtomic == Spec => BlockingFailureLocksOut
<1>1. ASSUME TypeOK, DecisionsHold, [Next]_vars
      PROVE  \A p \in Submits :
               (defects[p] = None /\ defects'[p] # None)
                 => /\ \E i \in inspections' : i.id = p /\ i.body = body[p]
                    /\ equipment'[defects'[p].equipment].status \in {"OUT_OF_SERVICE", "RETIRED"}
  <2> USE <1>1
  <2> SUFFICES ASSUME NEW p \in Submits, defects[p] = None, defects'[p] # None
               PROVE  /\ \E i \in inspections' : i.id = p /\ i.body = body[p]
                      /\ equipment'[defects'[p].equipment].status \in {"OUT_OF_SERVICE", "RETIRED"}
    OBVIOUS
  <2>1. ASSUME NEW q \in Submits, CommitSubmit(q)
        PROVE  /\ \E i \in inspections' : i.id = p /\ i.body = body[p]
               /\ equipment'[defects'[p].equipment].status \in {"OUT_OF_SERVICE", "RETIRED"}
    <3> DEFINE e == body[p].equipment
    <3>1. q = p /\ Blocking(p) /\ pc[p] = "keyed" /\ defects'[p].equipment = e
      BY <2>1 DEF CommitSubmit, TypeOK
    <3>2. e \in Equipment /\ equipment[e].status \in EquipmentStatus
      BY <3>1 DEF TypeOK, Body, EquipmentRow
    <3>3. previousStatus[p] = equipment[e].status
      BY <3>1 DEF DecisionsHold, SubmitDecides, HoldsUpdate
    <3>4. [id |-> p, body |-> body[p], submittedAt |-> start[p]] \in inspections'
      BY <2>1, <3>1 DEF CommitSubmit
    <3>5. equipment'[e].status \in {"OUT_OF_SERVICE", "RETIRED"}
      <4>1. CASE LocksOut(p)
        BY <2>1, <3>1, <3>2, <4>1 DEF CommitSubmit, TypeOK, EquipmentRow
      <4>2. CASE ~LocksOut(p)
        <5>1. equipment'[e] = equipment[e]
          BY <2>1, <3>1, <4>2 DEF CommitSubmit
        <5> QED
          BY <3>1, <3>2, <3>3, <4>2, <5>1 DEF LocksOut, EquipmentStatus
      <4> QED
        BY <4>1, <4>2
    <3> QED
      BY <3>1, <3>4, <3>5
  <2>2. ~ \E a \in Approvals : CommitApproval(a)
    BY DEF CommitApproval, Stamped, DecisionsHold, ApprovalDecides, Cycle
  <2>3. ~ \E r \in Repairs : Transition(r)
    BY DEF Transition, TypeOK, Job
  <2>4. ~ \E f \in Equipment : Retire(f)
    BY DEF Retire
  <2> QED
    BY <2>1, <2>2, <2>3, <2>4, Writers
<1> QED
  BY <1>1, TypeCorrect, DecisionsAlwaysHold, PTL DEF Spec, BlockingFailureLocksOut

(* The commit that brings equipment back finds the lockout's defects as they     *)
(* were when it read them: none open, some resolved, all of these stamped        *)
(* (return-to-service.ts:58-112).                                               *)
THEOREM ReturnIsAtomic == Spec => ReturnClosesLockout
<1>1. ASSUME TypeOK, DecisionsHold, [Next]_vars
      PROVE  \A e \in Equipment :
               (equipment[e].status = "OUT_OF_SERVICE" /\ equipment'[e].status = "AWAITING_INSPECTION")
                 => LET fixed == {d \in Cycle(e) : defects[d].status = "RESOLVED"} IN
                    /\ \A d \in Cycle(e) : ~OpenDefect(d)
                    /\ fixed # {}
                    /\ \A d \in fixed : defects'[d].approved
  <2> USE <1>1
  <2> SUFFICES ASSUME NEW e \in Equipment, equipment[e].status = "OUT_OF_SERVICE",
                      equipment'[e].status = "AWAITING_INSPECTION"
               PROVE  LET fixed == {d \in Cycle(e) : defects[d].status = "RESOLVED"} IN
                      /\ \A d \in Cycle(e) : ~OpenDefect(d)
                      /\ fixed # {}
                      /\ \A d \in fixed : defects'[d].approved
    OBVIOUS
  <2>1. ASSUME NEW a \in Approvals, CommitApproval(a)
        PROVE  LET fixed == {d \in Cycle(e) : defects[d].status = "RESOLVED"} IN
               /\ \A d \in Cycle(e) : ~OpenDefect(d)
               /\ fixed # {}
               /\ \A d \in fixed : defects'[d].approved
    <3>1. target[a] = e
      BY <2>1 DEF CommitApproval, TypeOK
    <3>2. /\ resolved[a] = {d \in Cycle(e) : defects[d].status = "RESOLVED"}
          /\ resolved[a] # {}
          /\ \A d \in Cycle(e) : ~OpenDefect(d)
      BY <2>1, <3>1 DEF CommitApproval, DecisionsHold, ApprovalDecides
    <3>3. \A d \in resolved[a] : d \in Submits /\ defects[d] \in DefectRow
      BY <3>2 DEF Cycle, TypeOK
    <3>4. \A d \in resolved[a] : defects'[d].approved
      BY <2>1, <3>3 DEF CommitApproval, Stamped, DefectRow
    <3> QED
      BY <3>2, <3>4
  <2>2. ~ \E p \in Submits : CommitSubmit(p)
    <3> SUFFICES ASSUME NEW p \in Submits, CommitSubmit(p)  PROVE FALSE
      OBVIOUS
    <3>1. equipment[e] \in EquipmentRow
      BY DEF TypeOK
    <3>2. CASE LocksOut(p) /\ body[p].equipment = e
      BY <3>1, <3>2 DEF CommitSubmit, TypeOK, EquipmentRow
    <3>3. CASE ~(LocksOut(p) /\ body[p].equipment = e)
      BY <3>3 DEF CommitSubmit, TypeOK
    <3> QED
      BY <3>2, <3>3
  <2>3. ~ \E r \in Repairs : Transition(r)
    BY DEF Transition
  <2>4. ~ \E f \in Equipment : Retire(f)
    BY DEF Retire, TypeOK, EquipmentRow
  <2> QED
    BY <2>1, <2>2, <2>3, <2>4, Writers
<1> QED
  BY <1>1, TypeCorrect, DecisionsAlwaysHold, PTL DEF Spec, ReturnClosesLockout

(* Defects move along DEFECT_TRANSITIONS and keep their approval, whichever      *)
(* requests loaded the same row (load-defect.ts, transitions.ts).              *)
THEOREM DefectsAdvance == Spec => DefectsMoveForward
<1>1. ASSUME TypeOK, DecisionsHold, [Next]_vars
      PROVE  \A d \in Submits :
               defects[d] # None =>
                 /\ defects'[d] # None
                 /\ defects'[d].status \in {defects[d].status} \cup DefectTransitions[defects[d].status]
                 /\ defects[d].approved => defects'[d].approved
  <2> USE <1>1
  <2> SUFFICES ASSUME NEW d \in Submits, defects[d] # None
               PROVE  /\ defects'[d] # None
                      /\ defects'[d].status \in {defects[d].status} \cup DefectTransitions[defects[d].status]
                      /\ defects[d].approved => defects'[d].approved
    OBVIOUS
  <2>0. defects[d] \in DefectRow
    BY DEF TypeOK
  <2>1. CASE \E p \in Submits : CommitSubmit(p)
    BY <2>1 DEF CommitSubmit, DecisionsHold, TypeOK
  <2>2. CASE \E a \in Approvals : CommitApproval(a)
    <3>1. \/ defects'[d] = defects[d]
          \/ defects'[d] = [defects[d] EXCEPT !.approved = TRUE]
      BY <2>2 DEF CommitApproval, Stamped
    <3>2. [defects[d] EXCEPT !.approved = TRUE] \in DefectRow
      BY <2>0 DEF DefectRow
    <3> QED
      BY <2>0, <3>1, <3>2, NoneAssumption DEF DefectRow
  <2>3. CASE \E r \in Repairs : Transition(r)
    <3> PICK r \in Repairs : Transition(r)
      BY <2>3
    <3>1. job[r] \in Job /\ job[r] # None
      BY DEF Transition, TypeOK
    <3>2. \/ defects'[d] = defects[d]
          \/ /\ defects'[d] = [defects[d] EXCEPT !.status = job[r].to]
             /\ defects[d].status = job[r].from
      BY <3>1 DEF Transition, TypeOK, Job
    <3>3. [defects[d] EXCEPT !.status = job[r].to] \in DefectRow
      BY <2>0, <3>1 DEF DefectRow, Job
    <3>4. job[r].to \in DefectTransitions[job[r].from]
      BY <3>1 DEF DecisionsHold
    <3>5. defects'[d] # None
      BY <3>2, <3>3, NoneAssumption
    <3> QED
      BY <2>0, <3>2, <3>4, <3>5 DEF DefectRow
  <2>4. CASE \E e \in Equipment : Retire(e)
    BY <2>4 DEF Retire
  <2> QED
    BY <2>1, <2>2, <2>3, <2>4, Writers
<1> QED
  BY <1>1, TypeCorrect, DecisionsAlwaysHold, PTL DEF Spec, DefectsMoveForward

-----------------------------------------------------------------------------
(* The rows and the requests that wrote them *)

(* A transaction's now() is its own, since the clock moves at every BEGIN. *)
Timeline ==
  /\ \A p \in Submits : start[p] <= clock
  /\ \A p, q \in Submits : start[p] = start[q] /\ start[p] # 0 => p = q
  /\ \A p \in Submits : pc[p] \in {"begun", "inserted", "locked", "keyed"} => start[p] # 0

(* A row carries what its request sent and when, and a defect row comes with its *)
(* inspection; the request has ended, so that neither changes any more.          *)
Recorded ==
  /\ \A p \in Submits : body[p] # None => body[p] \in Bodies
  /\ \A i \in inspections : pc[i.id] = "done" /\ i.body = body[i.id]
  /\ \A d \in Submits : defects[d] # None =>
       /\ defects[d].openedAt = start[d]
       /\ start[d] # 0
       /\ \E i \in inspections : i.id = d /\ i.body.equipment = defects[d].equipment

(* A finished submit stays as it is, and only a first step picks the body. *)
LEMMA RequestsSettle ==
  ASSUME TypeOK, [Next]_vars
  PROVE  \A p \in Submits :
           /\ pc[p] # "idle" => pc'[p] # "idle" /\ body'[p] = body[p]
           /\ pc[p] = "done" => pc'[p] = "done" /\ start'[p] = start[p]
           /\ body'[p] = body[p] \/ body'[p] \in Bodies
<1> USE DEF TypeOK
<1>1. ASSUME NEW q \in Submits, SubmitStep(q), NEW p \in Submits
      PROVE  /\ pc[p] # "idle" => pc'[p] # "idle" /\ body'[p] = body[p]
             /\ pc[p] = "done" => pc'[p] = "done" /\ start'[p] = start[p]
             /\ body'[p] = body[p] \/ body'[p] \in Bodies
  <2>1. CASE Precheck(q)
    BY <1>1, <2>1 DEF Precheck, Replay, Respond
  <2>2. CASE Admit(q)
    BY <1>1, <2>2 DEF Admit, Respond
  <2>3. CASE Begin(q) \/ InsertInspection(q) \/ LockEquipment(q) \/ InsertKey(q)
    BY <1>1, <2>3 DEF Begin, InsertInspection, LockEquipment, InsertKey
  <2>4. CASE CommitSubmit(q) \/ ReplayWinner(q) \/ CrashSubmit(q) \/ DeadlockVictim(q)
    BY <1>1, <2>4 DEF CommitSubmit, ReplayWinner, CrashSubmit, DeadlockVictim, Replay, Respond
  <2> QED
    BY <1>1, <2>1, <2>2, <2>3, <2>4 DEF SubmitStep
<1>2. (\E a \in Approvals : ApprovalStep(a)) => UNCHANGED submitVars
  BY DEF ApprovalStep, BeginApproval, LockForApproval, StampResolved, CommitApproval,
         CrashApproval
<1>3. (\E r \in Repairs : LoadDefect(r) \/ Transition(r)) => UNCHANGED submitVars
  BY DEF LoadDefect, Transition
<1>4. (\E e \in Equipment : Retire(e)) => UNCHANGED submitVars
  BY DEF Retire
<1>5. UNCHANGED vars => UNCHANGED submitVars
  BY DEF vars
<1> QED
  BY <1>1, <1>2, <1>3, <1>4, <1>5 DEF Next, submitVars

(* The four steps that write a table. *)
LEMMA TableWriters ==
  ASSUME [Next]_vars
  PROVE  \/ UNCHANGED tables
         \/ \E p \in Submits : CommitSubmit(p)
         \/ \E a \in Approvals : CommitApproval(a)
         \/ \E r \in Repairs : Transition(r)
         \/ \E e \in Equipment : Retire(e)
<1>1. ASSUME NEW p \in Submits, SubmitStep(p)
      PROVE  UNCHANGED tables \/ CommitSubmit(p)
  BY <1>1 DEF SubmitStep, Precheck, Admit, Begin, InsertInspection, LockEquipment, InsertKey,
              ReplayWinner, CrashSubmit, DeadlockVictim
<1>2. ASSUME NEW a \in Approvals, ApprovalStep(a)
      PROVE  UNCHANGED tables \/ CommitApproval(a)
  BY <1>2 DEF ApprovalStep, BeginApproval, LockForApproval, StampResolved, CrashApproval
<1>3. ASSUME NEW r \in Repairs, LoadDefect(r)
      PROVE  UNCHANGED tables
  BY <1>3 DEF LoadDefect
<1>4. UNCHANGED vars => UNCHANGED tables
  BY DEF vars
<1> QED
  BY <1>1, <1>2, <1>3, <1>4 DEF Next

(* Nobody has begun at the start. *)
LEMMA InitRecorded == Init => Timeline /\ Recorded
  BY DEF Init, Timeline, Recorded

(* A BEGIN takes a time that no transaction has had. *)
LEMMA NextTimeline ==
  ASSUME TypeOK, Timeline, [Next]_vars
  PROVE  Timeline'
<1> USE DEF TypeOK
<1>1. ASSUME NEW p \in Submits, SubmitStep(p)  PROVE Timeline'
  <2>1. CASE Begin(p)
    <3>1. /\ clock' = clock + 1 /\ start'[p] = clock + 1 /\ pc'[p] = "begun"
          /\ \A q \in Submits : q # p => start'[q] = start[q] /\ pc'[q] = pc[q]
      BY <2>1 DEF Begin
    <3> QED
      BY <3>1 DEF Timeline
  <2>2. CASE /\ UNCHANGED <<clock, start>>
             /\ \A q \in Submits : q # p => pc'[q] = pc[q]
             /\ pc'[p] \in {"begun", "inserted", "locked", "keyed"} =>
                  pc[p] \in {"begun", "inserted", "locked", "keyed"}
    BY <2>2 DEF Timeline
  <2>3. CASE Precheck(p) \/ ReplayWinner(p)
    BY <2>2, <2>3 DEF Precheck, ReplayWinner, Replay, Respond
  <2>4. CASE Admit(p) \/ CrashSubmit(p) \/ DeadlockVictim(p) \/ CommitSubmit(p)
    BY <2>2, <2>4 DEF Admit, CrashSubmit, DeadlockVictim, CommitSubmit, Respond
  <2>5. CASE InsertInspection(p) \/ LockEquipment(p) \/ InsertKey(p)
    BY <2>2, <2>5 DEF InsertInspection, LockEquipment, InsertKey
  <2> QED
    BY <1>1, <2>1, <2>3, <2>4, <2>5 DEF SubmitStep
<1>2. ASSUME UNCHANGED submitVars, clock' = clock \/ clock' = clock + 1
      PROVE  Timeline'
  BY <1>2 DEF submitVars, Timeline
<1>3. ASSUME NEW a \in Approvals, ApprovalStep(a)  PROVE Timeline'
  BY <1>2, <1>3 DEF ApprovalStep, BeginApproval, LockForApproval, StampResolved,
                    CommitApproval, CrashApproval
<1>4. ASSUME NEW r \in Repairs, LoadDefect(r) \/ Transition(r)  PROVE Timeline'
  BY <1>2, <1>4 DEF LoadDefect, Transition
<1>5. ASSUME NEW e \in Equipment, Retire(e)  PROVE Timeline'
  BY <1>2, <1>5 DEF Retire
<1>6. CASE UNCHANGED vars
  BY <1>2, <1>6 DEF vars
<1> QED
  BY <1>1, <1>3, <1>4, <1>5, <1>6 DEF Next

(* A commit records the body and the time of its own request. *)
LEMMA NextRecorded ==
  ASSUME TypeOK, DecisionsHold, Timeline, Recorded, [Next]_vars
  PROVE  Recorded'
<1>1. /\ \A p \in Submits : body'[p] # None => body'[p] \in Bodies
      /\ \A i \in inspections : pc'[i.id] = "done" /\ i.body = body'[i.id]
      /\ \A d \in Submits : defects[d] # None => start'[d] = start[d]
  BY RequestsSettle DEF TypeOK, InspectionRow, Recorded, DecisionsHold
<1>2. ASSUME inspections' = inspections,
             \A d \in Submits :
               defects'[d] # None => /\ defects[d] # None
                                     /\ defects'[d].openedAt = defects[d].openedAt
                                     /\ defects'[d].equipment = defects[d].equipment
      PROVE  Recorded'
  BY <1>1, <1>2 DEF Recorded
<1>3. ASSUME NEW p \in Submits, CommitSubmit(p)  PROVE Recorded'
  <2> DEFINE new == [id |-> p, body |-> body[p], submittedAt |-> start[p]]
  <2>1. /\ inspections' = inspections \cup {new}
        /\ pc'[p] = "done" /\ body' = body /\ start' = start /\ start[p] # 0
    BY <1>3 DEF CommitSubmit, Respond, TypeOK, Timeline
  <2>2. \A d \in Submits : d # p => defects'[d] = defects[d]
    BY <1>3 DEF CommitSubmit, TypeOK
  <2>3. defects'[p] # None => /\ defects'[p].openedAt = start[p]
                              /\ defects'[p].equipment = body[p].equipment
    BY <1>3 DEF CommitSubmit, TypeOK, DecisionsHold
  <2>4. new \in inspections' /\ new.id = p /\ new.body = body[p]
    BY <2>1
  <2> HIDE DEF new
  <2>5. ASSUME NEW d \in Submits, defects'[d] # None
        PROVE  /\ defects'[d].openedAt = start'[d] /\ start'[d] # 0
               /\ \E i \in inspections' : i.id = d /\ i.body.equipment = defects'[d].equipment
    <3>1. CASE d = p
      BY <2>1, <2>3, <2>4, <2>5, <3>1
    <3>2. CASE d # p
      BY <2>1, <2>2, <2>5, <3>2 DEF Recorded
    <3> QED
      BY <3>1, <3>2
  <2> QED
    BY <1>1, <2>1, <2>4, <2>5 DEF Recorded
<1>4. ASSUME NEW a \in Approvals, CommitApproval(a)  PROVE Recorded'
  <2>1. \A d \in Submits :
          \/ defects'[d] = defects[d]
          \/ defects[d] \in DefectRow /\ defects'[d] = [defects[d] EXCEPT !.approved = TRUE]
    BY <1>4 DEF CommitApproval, Stamped, TypeOK
  <2> QED
    BY <1>2, <1>4, <2>1, NoneAssumption DEF CommitApproval, DefectRow
<1>5. ASSUME NEW r \in Repairs, Transition(r)  PROVE Recorded'
  <2>1. job[r].defect \in Submits /\ defects[job[r].defect] \in DefectRow
    BY <1>5 DEF Transition, TypeOK, Job
  <2>2. \A d \in Submits :
          \/ defects'[d] = defects[d]
          \/ defects[d] \in DefectRow /\ defects'[d] = [defects[d] EXCEPT !.status = job[r].to]
    BY <1>5, <2>1 DEF Transition, TypeOK
  <2> QED
    BY <1>2, <1>5, <2>2, NoneAssumption DEF Transition, DefectRow
<1>6. ASSUME NEW e \in Equipment, Retire(e)  PROVE Recorded'
  BY <1>2, <1>6 DEF Retire
<1>7. CASE UNCHANGED tables
  BY <1>2, <1>7 DEF tables
<1> QED
  BY <1>3, <1>4, <1>5, <1>6, <1>7, TableWriters

-----------------------------------------------------------------------------
(* The outbox *)

(* The events of a row of each table, and those of an equipment row's status. *)
Inspected(p)     == [type |-> "INSPECTION_SUBMITTED", source |-> p]
Opened(p)        == [type |-> "DEFECT_OPENED", source |-> p]
Repaired(p)      == [type |-> "DEFECT_RESOLVED", source |-> p]
StatusChanged(r) == [type |-> "EQUIPMENT_STATUS_CHANGED", source |-> r]

Fixed(d) == defects[d] # None /\ defects[d].status = "RESOLVED"

(* The four kinds of events, by what tells them apart. *)
LEMMA EventsDiffer ==
  /\ \A p \in Submits : {Inspected(p), Opened(p), Repaired(p), StatusChanged(p)} \subseteq Event
  /\ \A a \in Approvals : StatusChanged(a) \in Event
  /\ \A p, q : /\ Inspected(p) = Inspected(q) => p = q
               /\ Opened(p) = Opened(q) => p = q
               /\ Repaired(p) = Repaired(q) => p = q
               /\ StatusChanged(p) = StatusChanged(q) => p = q
               /\ Inspected(p) \notin {Opened(q), Repaired(q), StatusChanged(q)}
               /\ Opened(p) \notin {Repaired(q), StatusChanged(q)}
               /\ Repaired(p) # StatusChanged(q)
  BY DEF Event, SubmitEvent, Inspected, Opened, Repaired, StatusChanged

(* Emit adds one row for each event of its set. *)
LEMMA EmitCounts ==
  ASSUME outbox \in [Event -> Nat], NEW S, Emit(S)
  PROVE  \A ev \in Event : /\ outbox[ev] \in Nat
                           /\ ev \in S => outbox'[ev] = outbox[ev] + 1
                           /\ ev \notin S => outbox'[ev] = outbox[ev]
  BY DEF Emit

(* OutboxMatchesTables, row by row. *)
LEMMA OutboxRows ==
  OutboxMatchesTables <=>
    \A p \in Submits :
      /\ outbox[Inspected(p)] = Count(\E i \in inspections : i.id = p)
      /\ outbox[Opened(p)] = Count(defects[p] # None)
      /\ outbox[Repaired(p)] = Count(Fixed(p))
  BY DEF OutboxMatchesTables, Inspected, Opened, Repaired, Fixed

(* What the commit of a submit adds. *)
LEMMA SubmitEmits ==
  ASSUME TypeOK, NEW p \in Submits, CommitSubmit(p), NEW q \in Submits
  PROVE  /\ outbox'[Inspected(q)] = IF q = p THEN outbox[Inspected(q)] + 1 ELSE outbox[Inspected(q)]
         /\ outbox'[Opened(q)] = IF q = p /\ Blocking(p) THEN outbox[Opened(q)] + 1
                                                         ELSE outbox[Opened(q)]
         /\ outbox'[Repaired(q)] = outbox[Repaired(q)]
         /\ outbox'[StatusChanged(q)] = IF q = p /\ LocksOut(p) THEN outbox[StatusChanged(q)] + 1
                                                               ELSE outbox[StatusChanged(q)]
         /\ \A a \in Approvals : outbox'[StatusChanged(a)] = outbox[StatusChanged(a)]
<1>1. SubmitEvents(p) =
        {Inspected(p)} \cup (IF Blocking(p) THEN {Opened(p)} ELSE {})
          \cup (IF LocksOut(p) THEN {StatusChanged(p)} ELSE {})
  BY DEF SubmitEvents, Inspected, Opened, StatusChanged
<1>2. Emit(SubmitEvents(p)) /\ outbox \in [Event -> Nat]
  BY DEF CommitSubmit, TypeOK
<1>3. \A a \in Approvals : a # p
  BY RequestsAssumption
<1> QED
  BY <1>1, <1>2, <1>3, EmitCounts, EventsDiffer

(* Nothing has been written at the start. *)
LEMMA InitOutbox == Init => OutboxMatchesTables
<1> SUFFICES ASSUME Init  PROVE OutboxMatchesTables
  OBVIOUS
<1> QED
  BY OutboxRows, EventsDiffer DEF Init, Fixed, Count

(* Each commit writes the events of the rows it writes. *)
LEMMA NextOutbox ==
  ASSUME TypeOK, DecisionsHold, Recorded, OutboxMatchesTables, [Next]_vars
  PROVE  OutboxMatchesTables'
<1>0. \A p \in Submits :
        /\ outbox[Inspected(p)] = Count(\E i \in inspections : i.id = p)
        /\ outbox[Opened(p)] = Count(defects[p] # None)
        /\ outbox[Repaired(p)] = Count(Fixed(p))
  BY OutboxRows
<1> SUFFICES ASSUME NEW q \in Submits
             PROVE  /\ outbox'[Inspected(q)] = Count(\E i \in inspections' : i.id = q)
                    /\ outbox'[Opened(q)] = Count(defects'[q] # None)
                    /\ outbox'[Repaired(q)] = Count(Fixed(q)')
  BY DEF OutboxMatchesTables, Inspected, Opened, Repaired, Fixed
<1>1. ASSUME UNCHANGED <<inspections, outbox[Inspected(q)], outbox[Opened(q)], outbox[Repaired(q)]>>,
             defects'[q] # None <=> defects[q] # None, Fixed(q)' <=> Fixed(q)
      PROVE  /\ outbox'[Inspected(q)] = Count(\E i \in inspections' : i.id = q)
             /\ outbox'[Opened(q)] = Count(defects'[q] # None)
             /\ outbox'[Repaired(q)] = Count(Fixed(q)')
  BY <1>0, <1>1 DEF Count
<1>2. CASE \E p \in Submits : CommitSubmit(p)
  <2> PICK p \in Submits : CommitSubmit(p)
    BY <1>2
  <2> DEFINE new == [id |-> p, body |-> body[p], submittedAt |-> start[p]]
  <2>1. new.id = p /\ inspections' = inspections \cup {new} /\ pc[p] = "keyed"
    BY DEF CommitSubmit
  <2> HIDE DEF new
  <2>2. (\E i \in inspections' : i.id = q) <=> (q = p \/ \E i \in inspections : i.id = q)
    BY <2>1
  <2>3. ~ \E i \in inspections : i.id = p
    BY <2>1 DEF Recorded
  <2>4. /\ q # p => defects'[q] = defects[q]
        /\ defects[p] = None
        /\ Blocking(p) => defects'[p] # None /\ defects'[p].status = "OPEN"
        /\ ~Blocking(p) => defects'[p] = None
    <3> DEFINE row == [status |-> "OPEN", equipment |-> body[p].equipment,
                       openedAt |-> start[p], approved |-> FALSE]
    <3>1. defects[p] = None
      BY <2>1 DEF DecisionsHold
    <3>2. body[p] \in Body /\ start[p] \in Nat
      BY <2>1 DEF TypeOK
    <3>3. row \in DefectRow /\ row.status = "OPEN"
      BY <3>2 DEF DefectRow, DefectStatus, Body
    <3>4. defects' = IF Blocking(p) THEN [defects EXCEPT ![p] = row] ELSE defects
      BY DEF CommitSubmit
    <3> HIDE DEF row
    <3> QED
      BY <3>1, <3>3, <3>4, NoneAssumption DEF TypeOK
  <2>5. Fixed(q)' <=> Fixed(q)
    BY <2>4 DEF Fixed
  <2> QED
    BY <1>0, <2>2, <2>3, <2>4, <2>5, SubmitEmits DEF Count
<1>3. CASE \E a \in Approvals : CommitApproval(a)
  <2> PICK a \in Approvals : CommitApproval(a)
    BY <1>3
  <2>1. Emit({StatusChanged(a)}) /\ inspections' = inspections /\ outbox \in [Event -> Nat]
    BY DEF CommitApproval, StatusChanged, TypeOK
  <2>2. UNCHANGED <<outbox[Inspected(q)], outbox[Opened(q)], outbox[Repaired(q)]>>
    BY <2>1, EmitCounts, EventsDiffer
  <2>3. \/ defects'[q] = defects[q]
        \/ defects[q] \in DefectRow /\ defects'[q] = [defects[q] EXCEPT !.approved = TRUE]
    BY DEF CommitApproval, Stamped, TypeOK
  <2>4. (defects'[q] # None <=> defects[q] # None) /\ (Fixed(q)' <=> Fixed(q))
    BY <2>3, NoneAssumption DEF DefectRow, Fixed
  <2> QED
    BY <1>1, <2>1, <2>2, <2>4
<1>4. CASE \E r \in Repairs : Transition(r)
  <2> PICK r \in Repairs : Transition(r)
    BY <1>4
  <2> DEFINE d == job[r].defect
  <2>1. /\ d \in Submits /\ defects[d] # None /\ defects[d] \in DefectRow
        /\ job[r].from \in DefectStatus /\ job[r].to \in DefectStatus
        /\ job[r].to \in DefectTransitions[job[r].from]
        /\ inspections' = inspections
    BY DEF Transition, TypeOK, Job, DecisionsHold
  <2>2. CASE UNCHANGED <<defects, outbox>>
    BY <1>1, <2>1, <2>2 DEF Fixed
  <2>3. CASE /\ defects[d].status = job[r].from
             /\ defects' = [defects EXCEPT ![d].status = job[r].to]
             /\ Emit(IF job[r].to = "RESOLVED" THEN {Repaired(d)} ELSE {})
    <3>1. job[r].from # "RESOLVED"
      BY <2>1 DEF DefectTransitions
    <3>2. /\ q # d => defects'[q] = defects[q]
          /\ defects'[d] = [defects[d] EXCEPT !.status = job[r].to]
      BY <2>1, <2>3 DEF TypeOK
    <3>3. defects'[d] # None /\ defects'[d].status = job[r].to
      BY <2>1, <3>2, NoneAssumption DEF DefectRow
    <3>4. /\ UNCHANGED <<outbox[Inspected(q)], outbox[Opened(q)]>>
          /\ outbox'[Repaired(q)] = IF q = d /\ job[r].to = "RESOLVED"
                                      THEN outbox[Repaired(q)] + 1 ELSE outbox[Repaired(q)]
      <4>1. outbox \in [Event -> Nat]
        BY DEF TypeOK
      <4> HIDE DEF d
      <4>2. CASE job[r].to = "RESOLVED"
        BY <2>3, <4>1, <4>2, EmitCounts, EventsDiffer
      <4>3. CASE job[r].to # "RESOLVED"
        BY <2>3, <4>1, <4>3, EmitCounts, EventsDiffer
      <4> QED
        BY <4>2, <4>3
    <3>5. Fixed(q)' <=> (Fixed(q) \/ (q = d /\ job[r].to = "RESOLVED"))
      BY <2>3, <3>1, <3>2, <3>3, <2>1 DEF Fixed
    <3>6. q = d => ~Fixed(q)
      BY <2>3, <3>1 DEF Fixed
    <3>7. defects'[q] # None <=> defects[q] # None
      BY <2>1, <3>2, <3>3
    <3> HIDE DEF d
    <3> QED
      BY <1>0, <2>1, <3>4, <3>5, <3>6, <3>7 DEF Count
  <2> QED
    BY <2>2, <2>3 DEF Transition, Repaired
<1>5. CASE \E e \in Equipment : Retire(e)
  BY <1>1, <1>5 DEF Retire, Fixed
<1>6. CASE UNCHANGED tables
  BY <1>1, <1>6 DEF tables, Fixed
<1> QED
  BY <1>2, <1>3, <1>4, <1>5, <1>6, TableWriters

(* The outbox accounts for the tables (ADR 0008): one event for each inspection, *)
(* defect and resolution that is committed, however many requests race, replay   *)
(* or are rolled back (submit.ts:221-256, resolve.ts).                           *)
THEOREM OutboxAlwaysMatches == Spec => []OutboxMatchesTables
<1>1. /\ TypeOK /\ DecisionsHold /\ Timeline /\ Recorded /\ OutboxMatchesTables
      /\ [Next]_vars
      => (TypeOK /\ DecisionsHold /\ Timeline /\ Recorded /\ OutboxMatchesTables)'
  BY NextType, NextDecisions, NextTimeline, NextRecorded, NextOutbox
<1> QED
  BY <1>1, InitType, InitDecisions, InitRecorded, InitOutbox, PTL DEF Spec

-----------------------------------------------------------------------------
(* The status events *)

(* A request emits its status event at its commit, so that what the event is     *)
(* about is settled; each one counts finitely many of its kind.                   *)
StatusAccount ==
  /\ \A p \in Submits : StatusEvent(p) => pc[p] = "done"
  /\ \A a \in Approvals : StatusEvent(a) => apc[a] = "done"
  /\ \A e \in Equipment : IsFiniteSet(Lockouts(e)) /\ IsFiniteSet(Returns(e))
  /\ StatusEventsBalance

(* A finished approval stays as it is, and only a first step picks the target. *)
LEMMA ApprovalsSettle ==
  ASSUME TypeOK, [Next]_vars
  PROVE  \A a \in Approvals :
           /\ apc[a] # "idle" => target'[a] = target[a]
           /\ apc[a] = "done" => apc'[a] = "done"
<1> USE DEF TypeOK
<1>1. ASSUME NEW b \in Approvals, ApprovalStep(b), NEW a \in Approvals
      PROVE  /\ apc[a] # "idle" => target'[a] = target[a]
             /\ apc[a] = "done" => apc'[a] = "done"
  BY <1>1 DEF ApprovalStep, BeginApproval, LockForApproval, StampResolved, CommitApproval,
              CrashApproval
<1>2. (\E p \in Submits : SubmitStep(p)) => UNCHANGED approvalVars
  BY DEF SubmitStep, Precheck, Admit, Begin, InsertInspection, LockEquipment, InsertKey,
         CommitSubmit, ReplayWinner, CrashSubmit, DeadlockVictim
<1>3. (\E r \in Repairs : LoadDefect(r) \/ Transition(r)) => UNCHANGED approvalVars
  BY DEF LoadDefect, Transition
<1>4. (\E e \in Equipment : Retire(e)) => UNCHANGED approvalVars
  BY DEF Retire
<1>5. UNCHANGED vars => UNCHANGED approvalVars
  BY DEF vars
<1> QED
  BY <1>1, <1>2, <1>3, <1>4, <1>5 DEF Next, approvalVars

(* StatusEvent, by the row it counts. *)
LEMMA StatusEvents ==
  \A r : /\ StatusEvent(r) <=> outbox[StatusChanged(r)] > 0
         /\ StatusEvent(r)' <=> outbox'[StatusChanged(r)] > 0
  BY DEF StatusEvent, StatusChanged

(* No status event at the start. *)
LEMMA InitStatusAccount == Init => StatusAccount
<1> SUFFICES ASSUME Init  PROVE StatusAccount
  OBVIOUS
<1>1. \A r \in Submits \cup Approvals : ~StatusEvent(r)
  <2>1. \A r \in Submits \cup Approvals : StatusChanged(r) \in Event
    BY EventsDiffer
  <2> QED
    BY <2>1, StatusEvents DEF Init
<1>2. \A e \in Equipment : Lockouts(e) = {} /\ Returns(e) = {}
  BY <1>1 DEF Lockouts, Returns
<1>3. \A e \in Equipment : Count(equipment[e].status = "OUT_OF_SERVICE") = 0
  BY DEF Init, Count
<1> QED
  BY <1>1, <1>2, <1>3, FS_EmptySet DEF StatusAccount, StatusEventsBalance

(* A commit changes the status and counts one more event, or neither. *)
LEMMA NextStatusAccount ==
  ASSUME TypeOK, DecisionsHold, StatusAccount, [Next]_vars
  PROVE  StatusAccount'
<1>0. outbox \in [Event -> Nat]
  BY DEF TypeOK
<1>1. \A p \in Submits : StatusEvent(p) => pc'[p] = "done" /\ body'[p] = body[p]
  BY RequestsSettle DEF StatusAccount
<1>2. \A a \in Approvals : StatusEvent(a) => apc'[a] = "done" /\ target'[a] = target[a]
  BY ApprovalsSettle DEF StatusAccount
<1>3. ASSUME \A r \in Submits \cup Approvals : StatusEvent(r)' <=> StatusEvent(r)
      PROVE  \A e \in Equipment : UNCHANGED <<Lockouts(e), Returns(e)>>
  BY <1>1, <1>2, <1>3 DEF Lockouts, Returns
<1>4. ASSUME \A r \in Submits \cup Approvals : StatusEvent(r)' <=> StatusEvent(r),
             \A e \in Equipment :
               equipment'[e].status = "RETIRED" \/ equipment'[e].status = equipment[e].status
      PROVE  StatusAccount'
  <2>1. \A e \in Equipment : UNCHANGED <<Lockouts(e), Returns(e)>>
    BY <1>3, <1>4
  <2> QED
    BY <1>1, <1>2, <1>4, <2>1 DEF StatusAccount, StatusEventsBalance, Count
<1>5. CASE \E p \in Submits : CommitSubmit(p)
  <2> PICK p \in Submits : CommitSubmit(p)
    BY <1>5
  <2>0. /\ \A r \in Submits : outbox[StatusChanged(r)] \in Nat
        /\ \E e \in Equipment : e = body[p].equipment
    BY <1>0, EventsDiffer DEF CommitSubmit, TypeOK, Body
  <2> PICK e \in Equipment : e = body[p].equipment
    BY <2>0
  <2>1. \A q \in Submits : StatusEvent(q)' <=> StatusEvent(q) \/ (q = p /\ LocksOut(p))
    BY <2>0, SubmitEmits, StatusEvents
  <2>2. \A a \in Approvals : StatusEvent(a)' <=> StatusEvent(a)
    BY SubmitEmits, StatusEvents
  <2>3. pc[p] = "keyed" /\ pc'[p] = "done" /\ body' = body /\ body[p] \in Body
    BY DEF CommitSubmit, Respond, TypeOK
  <2>4. CASE ~LocksOut(p)
    BY <1>4, <2>1, <2>2, <2>4 DEF CommitSubmit
  <2>5. CASE LocksOut(p)
    <3>1. e \in Equipment /\ equipment[e].status = "AWAITING_INSPECTION"
      BY <2>3, <2>5 DEF Body, LocksOut, DecisionsHold, SubmitDecides, HoldsUpdate
    <3>2. /\ equipment'[e].status = "OUT_OF_SERVICE"
          /\ \A f \in Equipment : f # e => equipment'[f] = equipment[f]
      BY <2>5, <3>1 DEF CommitSubmit, TypeOK, EquipmentRow
    <3>3. \A f \in Equipment : Returns(f)' = Returns(f)
      BY <1>2, <2>2 DEF Returns
    <3>4. Lockouts(e)' = Lockouts(e) \cup {p}
      BY <1>1, <2>1, <2>3, <2>5 DEF Lockouts
    <3>5. \A f \in Equipment : f # e => Lockouts(f)' = Lockouts(f)
      BY <1>1, <2>1, <2>3, <2>5 DEF Lockouts
    <3>6. p \notin Lockouts(e)
      BY <2>3 DEF Lockouts, StatusAccount
    <3>7. IsFiniteSet(Lockouts(e)) /\ IsFiniteSet(Returns(e))
      BY <3>1 DEF StatusAccount
    <3>8. /\ IsFiniteSet(Lockouts(e)')
          /\ Cardinality(Lockouts(e)') = Cardinality(Lockouts(e)) + 1
      BY <3>4, <3>6, <3>7, FS_AddElement
    <3>9. Cardinality(Lockouts(e)) = Cardinality(Returns(e)) /\ Cardinality(Returns(e)) \in Nat
      BY <3>1, <3>7, FS_CardinalityType DEF StatusAccount, StatusEventsBalance, Count
    <3>10. \A f \in Equipment : IsFiniteSet(Lockouts(f)') /\ IsFiniteSet(Returns(f)')
      BY <3>3, <3>5, <3>8 DEF StatusAccount
    <3>11. StatusEventsBalance'
      <4> SUFFICES ASSUME NEW f \in Equipment, equipment'[f].status # "RETIRED"
                   PROVE  Cardinality(Lockouts(f)')
                            = Cardinality(Returns(f)') + Count(equipment'[f].status = "OUT_OF_SERVICE")
        BY DEF StatusEventsBalance, Count
      <4>1. CASE f = e
        BY <3>1, <3>2, <3>3, <3>8, <3>9, <4>1 DEF Count
      <4>2. CASE f # e
        BY <3>2, <3>3, <3>5, <4>2 DEF StatusAccount, StatusEventsBalance, Count
      <4> QED
        BY <4>1, <4>2
    <3> QED
      BY <1>1, <1>2, <2>1, <2>2, <2>3, <3>10, <3>11 DEF StatusAccount
  <2> QED
    BY <2>4, <2>5
<1>6. CASE \E a \in Approvals : CommitApproval(a)
  <2> PICK a \in Approvals : CommitApproval(a)
    BY <1>6
  <2>0. \E e \in Equipment : e = target[a]
    BY DEF CommitApproval, TypeOK
  <2> PICK e \in Equipment : e = target[a]
    BY <2>0
  <2>1. Emit({StatusChanged(a)}) /\ apc[a] = "stamped" /\ apc'[a] = "done" /\ target' = target
    BY DEF CommitApproval, StatusChanged, TypeOK
  <2>2. \A b \in Approvals : StatusEvent(b)' <=> StatusEvent(b) \/ b = a
    <3>1. \A b \in Approvals :
            /\ outbox[StatusChanged(b)] \in Nat
            /\ outbox'[StatusChanged(b)] = IF b = a THEN outbox[StatusChanged(b)] + 1
                                                   ELSE outbox[StatusChanged(b)]
      <4>1. \A b \in Approvals :
              StatusChanged(b) \in Event /\ (StatusChanged(b) = StatusChanged(a) <=> b = a)
        BY EventsDiffer
      <4>2. \A ev \in Event :
              /\ outbox[ev] \in Nat
              /\ outbox'[ev] = IF ev = StatusChanged(a) THEN outbox[ev] + 1 ELSE outbox[ev]
        BY <1>0, <2>1, EmitCounts
      <4> QED
        BY <4>1, <4>2
    <3> QED
      BY <3>1, StatusEvents
  <2>3. \A p \in Submits : p # a
    BY RequestsAssumption
  <2>4. \A p \in Submits : StatusEvent(p)' <=> StatusEvent(p)
    <3>1. \A p \in Submits : outbox'[StatusChanged(p)] = outbox[StatusChanged(p)]
      BY <1>0, <2>1, <2>3, EmitCounts, EventsDiffer
    <3> QED
      BY <3>1, StatusEvents
  <2>5. e \in Equipment /\ equipment[e].status = "OUT_OF_SERVICE"
    BY <2>1 DEF TypeOK, DecisionsHold, ApprovalDecides
  <2>6. /\ equipment'[e].status = "AWAITING_INSPECTION"
        /\ \A f \in Equipment : f # e => equipment'[f] = equipment[f]
    BY <2>5 DEF CommitApproval, TypeOK
  <2>7. \A f \in Equipment : Lockouts(f)' = Lockouts(f)
    BY <1>1, <2>4 DEF Lockouts
  <2>8. Returns(e)' = Returns(e) \cup {a}
    BY <1>2, <2>1, <2>2 DEF Returns
  <2>9. \A f \in Equipment : f # e => Returns(f)' = Returns(f)
    BY <1>2, <2>1, <2>2 DEF Returns
  <2>10. a \notin Returns(e)
    BY <2>1 DEF Returns, StatusAccount
  <2>11. IsFiniteSet(Lockouts(e)) /\ IsFiniteSet(Returns(e))
    BY <2>5 DEF StatusAccount
  <2>12. /\ IsFiniteSet(Returns(e)')
         /\ Cardinality(Returns(e)') = Cardinality(Returns(e)) + 1
    BY <2>8, <2>10, <2>11, FS_AddElement
  <2>13. Cardinality(Lockouts(e)) = Cardinality(Returns(e)) + 1 /\ Cardinality(Returns(e)) \in Nat
    BY <2>5, <2>11, FS_CardinalityType DEF StatusAccount, StatusEventsBalance, Count
  <2>14. \A f \in Equipment : IsFiniteSet(Lockouts(f)') /\ IsFiniteSet(Returns(f)')
    BY <2>7, <2>9, <2>12 DEF StatusAccount
  <2>15. StatusEventsBalance'
    <3> SUFFICES ASSUME NEW f \in Equipment, equipment'[f].status # "RETIRED"
                 PROVE  Cardinality(Lockouts(f)')
                          = Cardinality(Returns(f)') + Count(equipment'[f].status = "OUT_OF_SERVICE")
      BY DEF StatusEventsBalance, Count
    <3>1. CASE f = e
      BY <2>6, <2>7, <2>12, <2>13, <3>1 DEF Count
    <3>2. CASE f # e
      BY <2>6, <2>7, <2>9, <3>2 DEF StatusAccount, StatusEventsBalance, Count
    <3> QED
      BY <3>1, <3>2
  <2> QED
    BY <1>1, <1>2, <2>1, <2>2, <2>4, <2>14, <2>15 DEF StatusAccount
<1>7. CASE \E r \in Repairs : Transition(r)
  <2> PICK r \in Repairs : Transition(r)
    BY <1>7
  <2>1. job[r].defect \in Submits
    BY DEF Transition, TypeOK, Job
  <2>2. /\ equipment' = equipment
        /\ outbox' = outbox \/ \E S \in {{}, {Repaired(job[r].defect)}} : Emit(S)
    BY DEF Transition, Repaired
  <2>3. \A x \in Submits \cup Approvals : outbox'[StatusChanged(x)] = outbox[StatusChanged(x)]
    BY <1>0, <2>2, EmitCounts, EventsDiffer
  <2> QED
    BY <1>4, <2>2, <2>3, StatusEvents
<1>8. CASE \E e \in Equipment : Retire(e)
  BY <1>4, <1>8 DEF Retire, TypeOK, EquipmentRow, StatusEvent
<1>9. CASE UNCHANGED tables
  BY <1>4, <1>9 DEF tables, StatusEvent
<1> QED
  BY <1>5, <1>6, <1>7, <1>8, <1>9, TableWriters

(* Consumers that count EQUIPMENT_STATUS_CHANGED events know the stored status:   *)
(* the lockouts of equipment outnumber its returns by one while it is out of      *)
(* service and not otherwise, until it is retired (submit.ts:310-346,             *)
(* return-to-service.ts:99-127).                                                 *)
THEOREM StatusEventsAlwaysBalance == Spec => []StatusEventsBalance
<1>1. TypeOK /\ DecisionsHold /\ StatusAccount /\ [Next]_vars
        => (TypeOK /\ DecisionsHold /\ StatusAccount)'
  BY NextType, NextDecisions, NextStatusAccount
<1>2. StatusAccount => StatusEventsBalance
  BY DEF StatusAccount
<1> QED
  BY <1>1, <1>2, InitType, InitDecisions, InitStatusAccount, PTL DEF Spec

-----------------------------------------------------------------------------
(* The repair cycles *)

UnderRepair(d) == defects[d].status \in {"IN_REPAIR", "RESOLVED"}

(* A transaction in flight began after the defects whose repair has started, unless *)
(* it straddles the start of that repair.                                          *)
RepairsPrecede ==
  \A d, p \in Submits :
    defects[d] # None /\ UnderRepair(d) /\ InTransaction(p)
      => start[d] < start[p] \/ <<d, p>> \in straddling

(* The submits whose commit dated the present lockout of e. *)
StartedBy(d, e) ==
  /\ defects[d] # None
  /\ defects[d].equipment = e
  /\ defects[d].openedAt = equipment[e].since

(* An approved defect is of an earlier lockout than the present one, unless that was *)
(* written by a submit that straddles its repair.                                   *)
ApprovedIsPast ==
  \A d \in Submits :
    defects[d] # None /\ defects[d].approved =>
      /\ defects[d].status = "RESOLVED"
      /\ LET e == defects[d].equipment IN
         equipment[e].status = "OUT_OF_SERVICE" =>
           \/ defects[d].openedAt < equipment[e].since
           \/ \E p \in Submits : StartedBy(p, e) /\ <<d, p>> \in straddling

(* No defect at the start. *)
LEMMA InitRepairs == Init => RepairsPrecede /\ ApprovedIsPast
  BY DEF Init, RepairsPrecede, ApprovedIsPast

(* The only step into a transaction takes a new time. *)
LEMMA NewTransactions ==
  ASSUME TypeOK, Timeline, [Next]_vars, NEW p \in Submits, InTransaction(p)'
  PROVE  \/ InTransaction(p) /\ start'[p] = start[p]
         \/ start'[p] = clock + 1
<1> USE DEF TypeOK, InTransaction
<1>1. ASSUME NEW q \in Submits, SubmitStep(q)
      PROVE  \/ InTransaction(p) /\ start'[p] = start[p]
             \/ start'[p] = clock + 1
  <2>1. CASE Precheck(q) \/ ReplayWinner(q)
    BY <2>1 DEF Precheck, ReplayWinner, Replay, Respond
  <2>2. CASE Admit(q) \/ CrashSubmit(q) \/ DeadlockVictim(q) \/ CommitSubmit(q)
    BY <2>2 DEF Admit, CrashSubmit, DeadlockVictim, CommitSubmit, Respond
  <2>3. CASE Begin(q)
    BY <2>3 DEF Begin
  <2>4. CASE InsertInspection(q) \/ LockEquipment(q) \/ InsertKey(q)
    BY <2>4 DEF InsertInspection, LockEquipment, InsertKey
  <2> QED
    BY <1>1, <2>1, <2>2, <2>3, <2>4 DEF SubmitStep
<1>2. (\E a \in Approvals : ApprovalStep(a)) => UNCHANGED submitVars
  BY DEF ApprovalStep, BeginApproval, LockForApproval, StampResolved, CommitApproval,
         CrashApproval
<1>3. (\E r \in Repairs : LoadDefect(r) \/ Transition(r)) => UNCHANGED submitVars
  BY DEF LoadDefect, Transition
<1>4. (\E e \in Equipment : Retire(e)) => UNCHANGED submitVars
  BY DEF Retire
<1>5. UNCHANGED vars => UNCHANGED submitVars
  BY DEF vars
<1> QED
  BY <1>1, <1>2, <1>3, <1>4, <1>5 DEF Next, submitVars

(* A repair that starts records who is in transaction, and none is forgotten. *)
LEMMA NewRepairs ==
  ASSUME TypeOK, DecisionsHold, [Next]_vars,
         NEW d \in Submits, defects'[d] # None, UnderRepair(d)'
  PROVE  /\ straddling \subseteq straddling'
         /\ \/ defects[d] # None /\ UnderRepair(d)
            \/ \A p \in Submits : InTransaction(p)' => <<d, p>> \in straddling'
<1>1. ASSUME UNCHANGED straddling, defects'[d] = defects[d]
      PROVE  straddling \subseteq straddling' /\ defects[d] # None /\ UnderRepair(d)
  BY <1>1 DEF UnderRepair
<1>2. CASE \E q \in Submits : SubmitStep(q)
  <2> PICK q \in Submits : SubmitStep(q)
    BY <1>2
  <2>1. UNCHANGED straddling
    BY DEF SubmitStep, Precheck, Admit, Begin, InsertInspection, LockEquipment, InsertKey,
           CommitSubmit, ReplayWinner, CrashSubmit, DeadlockVictim, repairVars
  <2>2. ~(CommitSubmit(q) /\ d = q /\ Blocking(q))
    BY DEF CommitSubmit, TypeOK, DecisionsHold, UnderRepair
  <2>3. defects'[d] = defects[d]
    BY <2>2 DEF SubmitStep, Precheck, Admit, Begin, InsertInspection, LockEquipment,
           InsertKey, CommitSubmit, ReplayWinner, CrashSubmit, DeadlockVictim, tables, TypeOK
  <2> QED
    BY <1>1, <2>1, <2>3
<1>3. CASE \E a \in Approvals : ApprovalStep(a)
  <2> PICK a \in Approvals : ApprovalStep(a)
    BY <1>3
  <2>1. UNCHANGED straddling
    BY DEF ApprovalStep, BeginApproval, LockForApproval, StampResolved, CommitApproval,
           CrashApproval, repairVars
  <2>2. \/ defects'[d] = defects[d]
        \/ defects[d] \in DefectRow /\ defects'[d] = [defects[d] EXCEPT !.approved = TRUE]
    BY DEF ApprovalStep, BeginApproval, LockForApproval, StampResolved, CommitApproval,
           CrashApproval, Stamped, tables, TypeOK
  <2>3. defects[d] # None /\ defects'[d].status = defects[d].status
    BY <2>2, NoneAssumption DEF DefectRow
  <2> QED
    BY <2>1, <2>3 DEF UnderRepair
<1>4. CASE \E r \in Repairs : LoadDefect(r)
  BY <1>1, <1>4 DEF LoadDefect, tables
<1>5. CASE \E r \in Repairs : Transition(r)
  <2> PICK r \in Repairs : Transition(r)
    BY <1>5
  <2>1. /\ job[r] # None /\ job[r] \in Job /\ job[r].defect \in Submits
        /\ defects[job[r].defect] \in DefectRow
        /\ job[r].to \in DefectTransitions[job[r].from] /\ job[r].from \in DefectStatus
        /\ UNCHANGED pc
    BY DEF Transition, TypeOK, Job, DecisionsHold, submitVars
  <2>2. straddling \subseteq straddling'
    BY DEF Transition
  <2>3. CASE defects'[d] = defects[d]
    BY <2>2, <2>3 DEF UnderRepair
  <2>4. CASE defects'[d] # defects[d]
    <3>1. /\ d = job[r].defect /\ defects[d].status = job[r].from
          /\ defects'[d].status = job[r].to /\ defects[d] # None
      BY <2>1, <2>4, NoneAssumption DEF Transition, TypeOK, DefectRow
    <3>2. job[r].to = "RESOLVED" => job[r].from = "IN_REPAIR"
      BY <2>1 DEF DefectTransitions, DefectStatus
    <3>3. job[r].to = "IN_REPAIR" =>
            \A p \in Submits : InTransaction(p) => <<d, p>> \in straddling'
      BY <3>1 DEF Transition
    <3> QED
      BY <2>1, <2>2, <3>1, <3>2, <3>3 DEF UnderRepair, InTransaction
  <2> QED
    BY <2>3, <2>4
<1>6. CASE \E e \in Equipment : Retire(e)
  BY <1>1, <1>6 DEF Retire, repairVars
<1>7. CASE UNCHANGED vars
  BY <1>1, <1>7 DEF vars, tables, repairVars
<1> QED
  BY <1>2, <1>3, <1>4, <1>5, <1>6, <1>7 DEF Next

(* A transaction that begins later than the repair began later than the defect. *)
LEMMA NextRepairsPrecede ==
  ASSUME TypeOK, DecisionsHold, Timeline, Recorded, RepairsPrecede, [Next]_vars
  PROVE  RepairsPrecede'
<1> SUFFICES ASSUME NEW d \in Submits, NEW p \in Submits,
                    defects'[d] # None, UnderRepair(d)', InTransaction(p)',
                    <<d, p>> \notin straddling'
             PROVE  start'[d] < start'[p]
  BY DEF RepairsPrecede
<1>1. defects[d] # None /\ UnderRepair(d) /\ <<d, p>> \notin straddling
  BY NewRepairs
<1>2. start'[d] = start[d] /\ start[d] <= clock /\ start[d] \in Nat /\ clock \in Nat
  BY <1>1, RequestsSettle DEF DecisionsHold, Timeline, TypeOK
<1>3. CASE InTransaction(p) /\ start'[p] = start[p]
  BY <1>1, <1>2, <1>3 DEF RepairsPrecede
<1>4. CASE start'[p] = clock + 1
  BY <1>2, <1>4
<1> QED
  BY <1>3, <1>4, NewTransactions

(* What straddles a repair is kept. *)
LEMMA StraddlingKept ==
  ASSUME [Next]_vars
  PROVE  straddling \subseteq straddling'
<1>1. ASSUME NEW p \in Submits, SubmitStep(p)  PROVE UNCHANGED straddling
  BY <1>1 DEF SubmitStep, Precheck, Admit, Begin, InsertInspection, LockEquipment, InsertKey,
              CommitSubmit, ReplayWinner, CrashSubmit, DeadlockVictim, repairVars
<1>2. ASSUME NEW a \in Approvals, ApprovalStep(a)  PROVE UNCHANGED straddling
  BY <1>2 DEF ApprovalStep, BeginApproval, LockForApproval, StampResolved, CommitApproval,
              CrashApproval, repairVars
<1>3. ASSUME NEW r \in Repairs, LoadDefect(r) \/ Transition(r)
      PROVE  straddling \subseteq straddling'
  BY <1>3 DEF LoadDefect, Transition
<1>4. ASSUME NEW e \in Equipment, Retire(e)  PROVE UNCHANGED straddling
  BY <1>4 DEF Retire, repairVars
<1>5. UNCHANGED vars => UNCHANGED straddling
  BY DEF vars, repairVars
<1> QED
  BY <1>1, <1>2, <1>3, <1>4, <1>5 DEF Next

(* A return stamps the defects of the lockout it ends, and the next one is later or *)
(* straddles their repair.                                                        *)
LEMMA NextApprovedIsPast ==
  ASSUME TypeOK, DecisionsHold, Timeline, Recorded, RepairsPrecede, ApprovedIsPast, [Next]_vars
  PROVE  ApprovedIsPast'
<1> DEFINE Past(d) ==
      LET e == defects[d].equipment IN
      equipment[e].status = "OUT_OF_SERVICE" =>
        \/ defects[d].openedAt < equipment[e].since
        \/ \E p \in Submits : StartedBy(p, e) /\ <<d, p>> \in straddling
<1> SUFFICES ASSUME NEW d \in Submits, defects'[d] # None, defects'[d].approved
             PROVE  defects'[d].status = "RESOLVED" /\ Past(d)'
  BY DEF ApprovedIsPast
<1>1. ASSUME defects'[d] = defects[d],
             \A e \in Equipment :
               equipment'[e].status = "OUT_OF_SERVICE" => equipment'[e] = equipment[e],
             \A c \in Submits :
               defects[c] # None => /\ defects'[c] # None
                                    /\ defects'[c].equipment = defects[c].equipment
                                    /\ defects'[c].openedAt = defects[c].openedAt
      PROVE  defects'[d].status = "RESOLVED" /\ Past(d)'
  <2>1. defects[d] # None /\ defects[d] \in DefectRow /\ defects[d].approved
        /\ defects[d].equipment \in Equipment
    BY <1>1 DEF TypeOK, DefectRow
  <2> DEFINE e == defects[d].equipment
  <2>2. defects[d].status = "RESOLVED" /\ Past(d)
    BY <2>1 DEF ApprovedIsPast
  <2>3. SUFFICES ASSUME equipment'[e].status = "OUT_OF_SERVICE"
                 PROVE  \/ defects[d].openedAt < equipment'[e].since
                        \/ \E p \in Submits : StartedBy(p, e)' /\ <<d, p>> \in straddling'
    BY <1>1, <2>2
  <2>4. equipment'[e] = equipment[e]
    BY <1>1, <2>1, <2>3
  <2>5. \A p \in Submits : StartedBy(p, e) => StartedBy(p, e)'
    BY <1>1, <2>4 DEF StartedBy
  <2> QED
    BY <2>2, <2>3, <2>4, <2>5, StraddlingKept
<1>2. CASE \E p \in Submits : CommitSubmit(p)
  <2> PICK p \in Submits : CommitSubmit(p)
    BY <1>2
  <2>1. pc[p] = "keyed" /\ defects[p] = None
    BY DEF CommitSubmit, DecisionsHold
  <2>2. d # p
    BY <2>1 DEF CommitSubmit, TypeOK
  <2>3. defects'[d] = defects[d] /\ defects[d] \in DefectRow /\ defects[d].approved
        /\ defects[d] # None
    BY <2>2 DEF CommitSubmit, TypeOK
  <2>4. CASE LocksOut(p) /\ body[p].equipment = defects[d].equipment
    <3>1. defects[d].status = "RESOLVED" /\ defects[d].openedAt = start[d]
      BY <2>3 DEF ApprovedIsPast, Recorded
    <3>2. start[d] < start[p] \/ <<d, p>> \in straddling
      BY <2>1, <2>3, <3>1 DEF RepairsPrecede, UnderRepair, InTransaction
    <3>3. equipment'[defects[d].equipment].since = start[p]
      BY <2>3, <2>4 DEF CommitSubmit, TypeOK, DefectRow, EquipmentRow
    <3>4. StartedBy(p, defects[d].equipment)'
      <4> DEFINE row == [status |-> "OPEN", equipment |-> body[p].equipment,
                         openedAt |-> start[p], approved |-> FALSE]
      <4>1. row \in DefectRow
        BY <2>3, <2>4 DEF TypeOK, DefectRow, DefectStatus
      <4>2. defects'[p] = row
        BY <2>4 DEF CommitSubmit, LocksOut, TypeOK
      <4>3. defects'[p] # None
        BY <4>1, <4>2, NoneAssumption
      <4> QED
        BY <2>3, <2>4, <3>3, <4>2, <4>3 DEF StartedBy
    <3> QED
      BY <2>3, <3>1, <3>2, <3>3, <3>4, StraddlingKept
  <2>5. CASE ~(LocksOut(p) /\ body[p].equipment = defects[d].equipment)
    <3>1. equipment'[defects[d].equipment] = equipment[defects[d].equipment]
      BY <2>3, <2>5 DEF CommitSubmit, TypeOK, DefectRow
    <3>2. \A c \in Submits : defects[c] # None => defects'[c] = defects[c]
      BY <2>1 DEF CommitSubmit, TypeOK
    <3> QED
      BY <2>3, <3>1, <3>2, StraddlingKept DEF ApprovedIsPast, StartedBy
  <2> QED
    BY <2>4, <2>5
<1>3. CASE \E a \in Approvals : CommitApproval(a)
  <2> PICK a \in Approvals : CommitApproval(a)
    BY <1>3
  <2>1. /\ target[a] \in Equipment
        /\ equipment'[target[a]].status = "AWAITING_INSPECTION"
        /\ \A e \in Equipment : e # target[a] => equipment'[e] = equipment[e]
    BY DEF CommitApproval, TypeOK
  <2>2. CASE d \in resolved[a]
    <3>1. /\ defects[d] \in DefectRow /\ defects[d].equipment = target[a]
          /\ defects[d].status = "RESOLVED"
      BY <2>2 DEF CommitApproval, DecisionsHold, ApprovalDecides, Cycle, TypeOK
    <3>2. defects'[d] = [defects[d] EXCEPT !.approved = TRUE]
      BY <2>2 DEF CommitApproval, Stamped
    <3>3. defects'[d].equipment = target[a] /\ defects'[d].status = "RESOLVED"
      BY <3>1, <3>2 DEF DefectRow
    <3> QED
      BY <2>1, <3>3
  <2>3. CASE d \notin resolved[a]
    <3>1. defects'[d] = defects[d]
      BY <2>3 DEF CommitApproval, Stamped
    <3>2. ASSUME NEW c \in Submits, defects[c] # None
          PROVE  /\ defects'[c] # None
                 /\ defects'[c].equipment = defects[c].equipment
                 /\ defects'[c].openedAt = defects[c].openedAt
      <4>1. defects[c] \in DefectRow
        BY <3>2 DEF TypeOK
      <4>2. defects'[c] \in {defects[c], [defects[c] EXCEPT !.approved = TRUE]}
        BY DEF CommitApproval, Stamped
      <4>3. defects'[c] \in DefectRow
        BY <4>1, <4>2 DEF DefectRow
      <4> QED
        BY <4>1, <4>2, <4>3, NoneAssumption DEF DefectRow
    <3> QED
      BY <1>1, <2>1, <3>1, <3>2
  <2> QED
    BY <2>2, <2>3
<1>4. CASE \E r \in Repairs : Transition(r)
  <2> PICK r \in Repairs : Transition(r)
    BY <1>4
  <2>1. /\ job[r].defect \in Submits /\ defects[job[r].defect] \in DefectRow
        /\ job[r].from \in DefectStatus /\ job[r].to \in DefectStatus
        /\ job[r].to \in DefectTransitions[job[r].from] /\ equipment' = equipment
    BY DEF Transition, TypeOK, Job, DecisionsHold
  <2>2. job[r].from # "RESOLVED"
    BY <2>1 DEF DefectTransitions
  <2>3. ASSUME NEW c \in Submits, defects[c] # None
        PROVE  /\ defects'[c] # None
               /\ defects'[c].equipment = defects[c].equipment
               /\ defects'[c].openedAt = defects[c].openedAt
               /\ defects'[c].approved = defects[c].approved
    <3>1. defects[c] \in DefectRow
      BY <2>3 DEF TypeOK
    <3>2. defects'[c] \in {defects[c], [defects[c] EXCEPT !.status = job[r].to]}
      BY <2>1 DEF Transition, TypeOK
    <3>3. defects'[c] \in DefectRow
      BY <2>1, <3>1, <3>2 DEF DefectRow
    <3> QED
      BY <3>1, <3>2, <3>3, NoneAssumption DEF DefectRow
  <2>4. defects'[d] = defects[d]
    <3> SUFFICES ASSUME defects'[d] # defects[d]  PROVE FALSE
      OBVIOUS
    <3>1. /\ d = job[r].defect /\ defects[d].status = job[r].from
      BY <2>1 DEF Transition, TypeOK
    <3>2. defects[d] # None
      BY <2>1, <3>1, NoneAssumption
    <3> QED
      BY <2>2, <2>3, <3>1, <3>2 DEF ApprovedIsPast
  <2> QED
    BY <1>1, <2>1, <2>3, <2>4
<1>5. CASE \E e \in Equipment : Retire(e)
  <2>1. defects' = defects
    BY <1>5 DEF Retire
  <2>2. \A e \in Equipment :
          equipment'[e].status = "OUT_OF_SERVICE" => equipment'[e] = equipment[e]
    BY <1>5 DEF Retire, TypeOK, EquipmentRow
  <2> QED
    BY <1>1, <2>1, <2>2
<1>6. CASE UNCHANGED <<equipment, defects>>
  BY <1>1, <1>6
<1> QED
  BY <1>2, <1>3, <1>4, <1>5, <1>6, Writers

(* A defect that was returned to service once does not authorise another return,  *)
(* whatever submits, repairs, approvals and retirements interleave, unless the     *)
(* submit that wrote the present lockout was in transaction when the repair of     *)
(* that defect started (return-to-service.ts:53-65).                              *)
THEOREM EachReturnHasItsRepair == Spec => PriorCycleNeverAuthorizes
<1> DEFINE Inv == TypeOK /\ DecisionsHold /\ Timeline /\ Recorded /\ RepairsPrecede
                    /\ ApprovedIsPast
<1>1. Init => Inv
  BY InitType, InitDecisions, InitRecorded, InitRepairs
<1>2. ASSUME Inv, [Next]_vars  PROVE Inv'
  BY <1>2, NextType, NextDecisions, NextTimeline, NextRecorded, NextRepairsPrecede,
     NextApprovedIsPast
<1>3. ASSUME Inv, NEW a \in Approvals, apc[a] = "stamped",
             \A d \in resolved[a] : defects[d].approved
      PROVE  \E p \in Cycle(target[a]) :
               /\ defects[p].openedAt = equipment[target[a]].since
               /\ \A d \in resolved[a] : <<d, p>> \in straddling
  <2>1. /\ target[a] \in Equipment /\ equipment[target[a]].status = "OUT_OF_SERVICE"
        /\ equipment[target[a]].since \in Nat
        /\ resolved[a] \subseteq Cycle(target[a]) /\ resolved[a] # {}
    BY <1>3 DEF TypeOK, DecisionsHold, ApprovalDecides, EquipmentRow
  <2>2. ASSUME NEW d \in resolved[a]
        PROVE  \E p \in Submits : StartedBy(p, target[a]) /\ <<d, p>> \in straddling
    <3>1. /\ d \in Submits /\ defects[d] # None /\ defects[d].equipment = target[a]
          /\ defects[d].openedAt >= equipment[target[a]].since
      BY <2>1, <2>2 DEF Cycle
    <3>2. defects[d].openedAt \in Nat
      BY <1>3, <3>1 DEF TypeOK, DefectRow
    <3> QED
      BY <1>3, <2>1, <2>2, <3>1, <3>2 DEF ApprovedIsPast
  <2>3. \A p, q \in Submits : StartedBy(p, target[a]) /\ StartedBy(q, target[a]) => p = q
    BY <1>3 DEF StartedBy, Recorded, Timeline
  <2>4. PICK p \in Submits : StartedBy(p, target[a])
    BY <2>1, <2>2
  <2>5. p \in Cycle(target[a]) /\ defects[p].openedAt = equipment[target[a]].since
    BY <2>1, <2>4 DEF StartedBy, Cycle
  <2> QED
    BY <2>2, <2>3, <2>4, <2>5
<1>4. Inv /\ [Next]_vars =>
        \A a \in Approvals :
          (apc[a] = "stamped" /\ equipment'[target[a]] # equipment[target[a]])
            => \/ \E d \in resolved[a] : ~defects[d].approved
               \/ \E p \in Cycle(target[a]) :
                    /\ defects[p].openedAt = equipment[target[a]].since
                    /\ \A d \in resolved[a] : <<d, p>> \in straddling
  BY <1>3
<1> HIDE DEF Inv
<1> QED
  BY <1>1, <1>2, <1>4, PTL DEF Spec, PriorCycleNeverAuthorizes

-----------------------------------------------------------------------------
(* The atomic steps *)

(* The defect that Starter names exists. *)
HasStarter ==
  \A e \in Equipment :
    equipment[e].status = "OUT_OF_SERVICE" => \E d \in Submits : StartedBy(d, e)

CycleInvariant ==
  TypeOK /\ KeyInvariant /\ DecisionsHold /\ Timeline /\ Recorded /\ HasStarter

(* LockoutCycle's variables, as LockoutRefinement computes them. *)
Status   == [e \in Equipment |-> equipment[e].status]
Ledger   == {[id |-> i.id, body |-> i.body] : i \in inspections}
Answer   == [p \in Submits |-> IF response[p] = None THEN None ELSE response[p].inspection]
Stage    == [d \in Submits |-> IF defects[d] = None THEN None ELSE defects[d].status]
Starters == [e \in Equipment |-> Starter(e)]

StarterDetermined ==
  \A e \in Equipment, d \in Submits :
    equipment[e].status = "OUT_OF_SERVICE" /\ StartedBy(d, e) => Starter(e) = d

(* Two defects are never opened at one time, so that the starter is determined. *)
LEMMA StarterIs == Timeline /\ Recorded => StarterDetermined
<1> SUFFICES ASSUME Timeline, Recorded, NEW e \in Equipment, NEW d \in Submits,
                    equipment[e].status = "OUT_OF_SERVICE", StartedBy(d, e)
             PROVE  Starter(e) = d
  BY DEF StarterDetermined
<1>1. \A c \in Submits : StartedBy(c, e) => c = d
  BY DEF StartedBy, Timeline, Recorded
<1> QED
  BY <1>1 DEF Starter, StartedBy

(* ... after a step as well. *)
LEMMA StarterIsNext == (Timeline /\ Recorded)' => StarterDetermined'
  BY StarterIs, PTL

(* Equipment whose row and whose starting defect stay keeps its starter. *)
LEMMA StarterStays ==
  ASSUME CycleInvariant, (Timeline /\ Recorded)', NEW e \in Equipment,
         equipment'[e] = equipment[e],
         \A d \in Submits : StartedBy(d, e) => StartedBy(d, e)'
  PROVE  /\ equipment'[e].status = "OUT_OF_SERVICE" => \E d \in Submits : StartedBy(d, e)'
         /\ Starter(e)' = Starter(e)
<1>1. CASE equipment[e].status = "OUT_OF_SERVICE"
  <2>1. PICK d \in Submits : StartedBy(d, e)
    BY <1>1 DEF CycleInvariant, HasStarter
  <2>2. Starter(e) = d
    BY <1>1, <2>1, StarterIs DEF CycleInvariant, StarterDetermined
  <2>3. StartedBy(d, e)' /\ Starter(e)' = d
    BY <1>1, <2>1, StarterIsNext DEF StarterDetermined
  <2> QED
    BY <2>2, <2>3
<1>2. CASE equipment[e].status # "OUT_OF_SERVICE"
  BY <1>2 DEF Starter
<1> QED
  BY <1>1, <1>2

(* No table and no answer at the start. *)
LEMMA InitCycle == Init => HasStarter /\ Cycles!Init
<1> SUFFICES ASSUME Init  PROVE HasStarter /\ Cycles!Init
  OBVIOUS
<1>1. HasStarter
  BY DEF Init, HasStarter
<1>2. Status = [e \in Equipment |-> "AWAITING_INSPECTION"]
  BY DEF Init, Status
<1>3. Ledger = {}
  BY DEF Init, Ledger
<1>4. Answer = [p \in Submits |-> None] /\ Stage = [d \in Submits |-> None]
  BY DEF Init, Answer, Stage
<1>5. Starters = [e \in Equipment |-> None]
  BY DEF Init, Starters, Starter
<1> QED
  BY <1>1, <1>2, <1>3, <1>4, <1>5 DEF Cycles!Init, Status, Ledger, Answer, Stage, Starters

(* The commit of a submit is an Accept. *)
LEMMA CommitAccepts ==
  ASSUME CycleInvariant, (Timeline /\ Recorded)', NEW p \in Submits, CommitSubmit(p)
  PROVE  HasStarter' /\ \E b \in Bodies : Cycles!Accept(p, b)
<1> USE DEF CycleInvariant
<1>0. \E e \in Equipment : e = body[p].equipment
  BY DEF CommitSubmit, TypeOK, Body
<1> PICK e \in Equipment : e = body[p].equipment
  BY <1>0
<1>1. /\ pc[p] = "keyed" /\ body[p] # None /\ body[p] \in Body /\ body[p] \in Bodies
      /\ defects[p] = None /\ body' = body /\ start' = start /\ start[p] # 0
      /\ start[p] \in Nat
  BY DEF CommitSubmit, TypeOK, DecisionsHold, Recorded, Timeline
<1> PICK b \in Bodies : b = body[p]
  BY <1>1
<1>2. /\ \A i \in Ledger : i.id # p /\ i.body.key # body[p].key
      /\ Ledger' = Ledger \cup {[id |-> p, body |-> body[p]]}
  <2>1. \A i \in inspections : i.id # p
    BY <1>1 DEF Recorded
  <2>2. \A i \in inspections : i.body.key # body[p].key
    BY <1>1 DEF KeyInvariant, KeysMatchInspections, KeyRecorded
  <2>3. inspections' = inspections \cup {[id |-> p, body |-> body[p], submittedAt |-> start[p]]}
    BY DEF CommitSubmit
  <2>4. ASSUME NEW i \in Ledger  PROVE i.id # p /\ i.body.key # body[p].key
    <3>1. PICK j \in inspections : i = [id |-> j.id, body |-> j.body]
      BY <2>4 DEF Ledger
    <3>2. i.id = j.id /\ i.body = j.body
      BY <3>1
    <3> QED
      BY <2>1, <2>2, <3>2
  <2> DEFINE new == [id |-> p, body |-> body[p], submittedAt |-> start[p]]
  <2>5. new.id = p /\ new.body = body[p] /\ inspections' = inspections \cup {new}
    BY <2>3
  <2> HIDE DEF new
  <2>6. Ledger' = Ledger \cup {[id |-> new.id, body |-> new.body]}
    BY <2>5 DEF Ledger
  <2> QED
    BY <2>4, <2>5, <2>6
<1>3. Answer' = [Answer EXCEPT ![p] = p]
  <2>1. response' = [response EXCEPT ![p] = [code |-> "CREATED", inspection |-> p]]
    BY DEF CommitSubmit, Respond
  <2>2. [code |-> "CREATED", inspection |-> p] \in Response
    BY DEF Response, Code
  <2>3. [code |-> "CREATED", inspection |-> p] # None
    BY <2>2, NoneAssumption
  <2> QED
    BY <2>1, <2>3 DEF Answer, TypeOK
<1>4. Stage' = IF Blocking(p) THEN [Stage EXCEPT ![p] = "OPEN"] ELSE Stage
  <2> DEFINE row == [status |-> "OPEN", equipment |-> body[p].equipment,
                     openedAt |-> start[p], approved |-> FALSE]
  <2>1. row \in DefectRow /\ row.status = "OPEN"
    BY <1>1 DEF DefectRow, DefectStatus, Body
  <2>2. defects' = IF Blocking(p) THEN [defects EXCEPT ![p] = row] ELSE defects
    BY DEF CommitSubmit
  <2> HIDE DEF row
  <2> QED
    BY <2>1, <2>2, NoneAssumption DEF Stage, TypeOK
<1>5. \A d \in Submits, f \in Equipment :
        StartedBy(d, f) /\ equipment'[f] = equipment[f] => StartedBy(d, f)'
  <2>1. \A d \in Submits : d # p => defects'[d] = defects[d]
    BY DEF CommitSubmit, TypeOK
  <2> QED
    BY <1>1, <2>1 DEF StartedBy
<1>6. CASE ~LocksOut(p)
  <2>1. equipment' = equipment
    BY <1>6 DEF CommitSubmit
  <2>2. /\ HasStarter'
        /\ \A f \in Equipment : Starter(f)' = Starter(f)
    BY <1>5, <2>1, StarterStays DEF HasStarter
  <2>3. Status' = Status /\ Starters' = Starters
    BY <2>1, <2>2 DEF Status, Starters
  <2>4. Blocking(p) => Status[e] # "AWAITING_INSPECTION"
    BY <1>1, <1>6 DEF LocksOut, Status, DecisionsHold, SubmitDecides, HoldsUpdate
  <2> QED
    <3>1. Cycles!Accept(p, b)
      BY <1>1, <1>2, <1>3, <1>4, <2>3, <2>4
         DEF Cycles!Accept, Status, Ledger, Answer, Stage, Starters, Blocking
    <3> QED
      BY <2>2, <3>1
<1>7. CASE LocksOut(p)
  <2>1. Blocking(p) /\ equipment[e].status = "AWAITING_INSPECTION"
    BY <1>1, <1>7 DEF LocksOut, DecisionsHold, SubmitDecides, HoldsUpdate
  <2>2. /\ equipment'[e].status = "OUT_OF_SERVICE" /\ equipment'[e].since = start[p]
        /\ \A f \in Equipment : f # e => equipment'[f] = equipment[f]
    BY <1>7 DEF CommitSubmit, TypeOK, EquipmentRow
  <2>3. StartedBy(p, e)'
    <3>1. defects'[p] # None
      <4>1. Stage'[p] = "OPEN" /\ Stage'[p] = IF defects'[p] = None THEN None ELSE defects'[p].status
        BY <1>4, <2>1 DEF Stage
      <4>2. [status |-> "OPEN", equipment |-> body[p].equipment,
             openedAt |-> start[p], approved |-> FALSE] \in DefectRow
        BY <1>1 DEF DefectRow, DefectStatus, Body
      <4> QED
        BY <2>1, <4>2, NoneAssumption DEF CommitSubmit, TypeOK
    <3>2. defects'[p].equipment = e /\ defects'[p].openedAt = start[p]
      BY <2>1 DEF CommitSubmit, TypeOK
    <3> QED
      BY <2>2, <3>1, <3>2 DEF StartedBy
  <2>4. Starter(e)' = p
    BY <2>2, <2>3, StarterIsNext DEF StarterDetermined
  <2>5. \A f \in Equipment :
          f # e => /\ equipment'[f].status = "OUT_OF_SERVICE" => \E d \in Submits : StartedBy(d, f)'
                   /\ Starter(f)' = Starter(f)
    BY <1>5, <2>2, StarterStays
  <2>6. HasStarter'
    BY <2>3, <2>5 DEF HasStarter
  <2>7. /\ Status' = [Status EXCEPT ![e] = "OUT_OF_SERVICE"]
        /\ Status[e] = "AWAITING_INSPECTION"
    BY <2>1, <2>2 DEF Status
  <2>8. Starters' = [Starters EXCEPT ![e] = p]
    BY <2>4, <2>5 DEF Starters
  <2> QED
    <3>1. Cycles!Accept(p, b)
      BY <1>1, <1>2, <1>3, <1>4, <2>1, <2>7, <2>8
         DEF Cycles!Accept, Status, Ledger, Answer, Stage, Starters, Blocking
    <3> QED
      BY <2>6, <3>1
<1> QED
  BY <1>6, <1>7

(* A step that leaves the tables and the answers. *)
LEMMA TablesStay ==
  ASSUME CycleInvariant, (Timeline /\ Recorded)', UNCHANGED tables
  PROVE  /\ HasStarter'
         /\ UNCHANGED <<Status, Ledger, Stage, Starters>>
<1>1. \A d \in Submits, e \in Equipment : StartedBy(d, e) => StartedBy(d, e)'
  BY DEF tables, StartedBy
<1>2. \A e \in Equipment :
        /\ equipment'[e].status = "OUT_OF_SERVICE" => \E d \in Submits : StartedBy(d, e)'
        /\ Starter(e)' = Starter(e)
  BY <1>1, StarterStays DEF tables
<1> QED
  BY <1>2 DEF tables, HasStarter, Status, Ledger, Stage, Starters

(* The response is what the abstract request is answered. *)
LEMMA RespondAnswers ==
  ASSUME TypeOK, NEW p \in Submits, NEW c \in Code, NEW n \in Submits \cup {None},
         Respond(p, c, n)
  PROVE  Answer' = [Answer EXCEPT ![p] = n]
<1>1. [code |-> c, inspection |-> n] \in Response
  BY DEF Response
<1>2. [code |-> c, inspection |-> n] # None
  BY <1>1, NoneAssumption
<1> QED
  BY <1>2 DEF Respond, Answer, TypeOK

(* A request that is refused, or not yet answered, is no step at all. *)
LEMMA RefusalStutters ==
  ASSUME CycleInvariant, (Timeline /\ Recorded)', UNCHANGED tables,
         \/ response' = response
         \/ \E p \in Submits, c \in Code : Respond(p, c, None) /\ pc[p] # "done"
  PROVE  UNCHANGED Cycles!vars
<1>1. UNCHANGED <<Status, Ledger, Stage, Starters>>
  BY TablesStay
<1>2. Answer' = Answer
  <2>1. CASE response' = response
    BY <2>1 DEF Answer
  <2>2. CASE \E p \in Submits, c \in Code : Respond(p, c, None) /\ pc[p] # "done"
    <3> PICK p \in Submits, c \in Code : Respond(p, c, None) /\ pc[p] # "done"
      BY <2>2
    <3>1. Answer' = [Answer EXCEPT ![p] = None]
      BY RespondAnswers DEF CycleInvariant
    <3>2. Answer[p] = None
      BY DEF CycleInvariant, KeyInvariant, KeysMatchInspections, Answer
    <3> QED
      BY <3>1, <3>2 DEF Answer
  <2> QED
    BY <2>1, <2>2
<1> QED
  BY <1>1, <1>2 DEF Cycles!vars, Status, Ledger, Answer, Stage, Starters

(* A replay is a Repeat; an answer that names no inspection is no step at all. *)
LEMMA ReplayRepeats ==
  ASSUME CycleInvariant, (Timeline /\ Recorded)', UNCHANGED tables,
         NEW p \in Submits, NEW b, Replay(p, b), pc[p] # "done"
  PROVE  Cycles!Repeat(p) \/ UNCHANGED Cycles!vars
<1> USE DEF CycleInvariant
<1>1. UNCHANGED <<Status, Ledger, Stage, Starters>>
  BY TablesStay
<1>2. response[p] = None /\ Answer[p] = None
  BY DEF KeyInvariant, KeysMatchInspections, Answer
<1>3. PICK row \in idempotencyKeys :
        \/ Respond(p, "REPLAYED", row.inspection)
        \/ Respond(p, "IDEMPOTENCY_MISMATCH", None)
  BY DEF Replay
<1>5. CASE Respond(p, "REPLAYED", row.inspection)
  <2>1. row.inspection \in Submits
    BY DEF TypeOK, KeyRow
  <2>2. Answer' = [Answer EXCEPT ![p] = row.inspection]
    BY <1>5, <2>1, RespondAnswers DEF Code
  <2>3. \E i \in Ledger : i.id = row.inspection
    <3>1. PICK i \in inspections : i.id = row.inspection
      BY DEF KeyInvariant, KeysMatchInspections
    <3> DEFINE entry == [id |-> i.id, body |-> i.body]
    <3>2. entry \in Ledger
      BY DEF Ledger
    <3>3. entry.id = row.inspection
      BY <3>1
    <3> QED
      BY <3>2, <3>3
  <2>4. \E i \in Ledger : Answer' = [Answer EXCEPT ![p] = i.id]
    BY <2>2, <2>3
  <2> QED
    BY <1>1, <1>2, <2>4 DEF Cycles!Repeat, Status, Ledger, Answer, Stage, Starters
<1>6. CASE Respond(p, "IDEMPOTENCY_MISMATCH", None)
  BY <1>6, RefusalStutters DEF Code
<1> QED
  BY <1>3, <1>5, <1>6

(* A submit accepts at its commit, repeats at a replay and is no step otherwise. *)
LEMMA SubmitRefines ==
  ASSUME CycleInvariant, (Timeline /\ Recorded)', NEW p \in Submits, SubmitStep(p)
  PROVE  HasStarter' /\ (Cycles!Next \/ UNCHANGED Cycles!vars)
<1>1. CASE CommitSubmit(p)
  BY <1>1, CommitAccepts DEF Cycles!Next
<1>2. CASE ~CommitSubmit(p)
  <2>1. UNCHANGED tables
    BY <1>2 DEF SubmitStep, Precheck, Admit, Begin, InsertInspection, LockEquipment, InsertKey,
                ReplayWinner, CrashSubmit, DeadlockVictim
  <2>2. \/ response' = response
        \/ \E c \in Code : Respond(p, c, None) /\ pc[p] # "done"
        \/ \E b : Replay(p, b) /\ pc[p] # "done"
    <3>1. CASE Precheck(p)
      BY <3>1 DEF Precheck
    <3>2. CASE Admit(p)
      BY <3>2 DEF Admit, Code
    <3>3. CASE Begin(p) \/ InsertInspection(p) \/ LockEquipment(p) \/ InsertKey(p)
      BY <3>3 DEF Begin, InsertInspection, LockEquipment, InsertKey
    <3>4. CASE ReplayWinner(p)
      BY <3>4 DEF ReplayWinner
    <3>5. CASE CrashSubmit(p)
      BY <3>5 DEF CrashSubmit, InTransaction, Code
    <3>6. CASE DeadlockVictim(p)
      BY <3>6 DEF DeadlockVictim, WaitsFor, Code
    <3> QED
      BY <1>2, <3>1, <3>2, <3>3, <3>4, <3>5, <3>6 DEF SubmitStep
  <2>3. Cycles!Repeat(p) => Cycles!Next
    BY DEF Cycles!Next
  <2> QED
    BY <2>1, <2>2, <2>3, TablesStay, RefusalStutters, ReplayRepeats
<1> QED
  BY <1>1, <1>2

(* The commit of an approval is a Return; its other steps are none. *)
LEMMA ApprovalRefines ==
  ASSUME CycleInvariant, (Timeline /\ Recorded)', NEW a \in Approvals, ApprovalStep(a)
  PROVE  HasStarter' /\ (Cycles!Next \/ UNCHANGED Cycles!vars)
<1> USE DEF CycleInvariant
<1>1. CASE ~CommitApproval(a)
  <2>1. UNCHANGED <<tables, response>>
    BY <1>1 DEF ApprovalStep, BeginApproval, LockForApproval, StampResolved, CrashApproval,
                submitVars
  <2> QED
    BY <2>1, TablesStay, RefusalStutters
<1>2. CASE CommitApproval(a)
  <2>0. \E e \in Equipment : e = target[a]
    BY <1>2 DEF CommitApproval, TypeOK
  <2> PICK e \in Equipment : e = target[a]
    BY <2>0
  <2>1. UNCHANGED <<Ledger, Answer>>
    BY <1>2 DEF CommitApproval, submitVars, Ledger, Answer
  <2>2. \A d \in Submits :
          \/ defects'[d] = defects[d]
          \/ defects[d] \in DefectRow /\ defects'[d] = [defects[d] EXCEPT !.approved = TRUE]
    BY <1>2 DEF CommitApproval, Stamped, TypeOK
  <2>3. \A d \in Submits :
          /\ defects'[d] # None <=> defects[d] # None
          /\ defects[d] # None => /\ defects'[d].status = defects[d].status
                                  /\ defects'[d].equipment = defects[d].equipment
                                  /\ defects'[d].openedAt = defects[d].openedAt
    <3> SUFFICES ASSUME NEW d \in Submits, defects[d] \in DefectRow,
                        defects'[d] = [defects[d] EXCEPT !.approved = TRUE]
                 PROVE  /\ defects'[d] # None /\ defects[d] # None
                        /\ defects'[d].status = defects[d].status
                        /\ defects'[d].equipment = defects[d].equipment
                        /\ defects'[d].openedAt = defects[d].openedAt
      BY <2>2
    <3>1. defects'[d] \in DefectRow
      BY DEF DefectRow
    <3> QED
      BY <3>1, NoneAssumption DEF DefectRow
  <2>4. Stage' = Stage
    BY <2>3 DEF Stage
  <2>5. /\ equipment[e].status = "OUT_OF_SERVICE"
        /\ \A d \in Cycle(e) : ~OpenDefect(d)
        /\ \E d \in Cycle(e) : defects[d].status = "RESOLVED"
    BY <1>2 DEF CommitApproval, DecisionsHold, ApprovalDecides
  <2>6. /\ equipment'[e].status = "AWAITING_INSPECTION"
        /\ \A f \in Equipment : f # e => equipment'[f] = equipment[f]
    BY <1>2 DEF CommitApproval, TypeOK
  <2>7. \A f \in Equipment :
          f # e => /\ equipment'[f].status = "OUT_OF_SERVICE" => \E d \in Submits : StartedBy(d, f)'
                   /\ Starter(f)' = Starter(f)
    <3>1. \A d \in Submits, f \in Equipment :
            StartedBy(d, f) /\ equipment'[f] = equipment[f] => StartedBy(d, f)'
      BY <2>3 DEF StartedBy
    <3> QED
      BY <2>6, <3>1, StarterStays
  <2>8. HasStarter'
    BY <2>6, <2>7 DEF HasStarter
  <2>9. Status[e] = "OUT_OF_SERVICE" /\ Status' = [Status EXCEPT ![e] = "AWAITING_INSPECTION"]
    BY <2>5, <2>6 DEF Status
  <2>10. Starter(e)' = None
    BY <2>6 DEF Starter
  <2>11. Starters' = [Starters EXCEPT ![e] = None]
    BY <2>7, <2>10 DEF Starters
  <2>12. Stage[Starters[e]] \in Cycles!Closed
    <3>1. PICK d \in Submits : StartedBy(d, e)
      BY <2>5 DEF HasStarter
    <3>2. Starters[e] = d
      BY <2>5, <3>1, StarterIs DEF StarterDetermined, Starters
    <3>3. d \in Cycle(e) /\ defects[d].status \in Terminal
      <4>1. defects[d] \in DefectRow /\ defects[d].openedAt \in Nat
        BY <3>1 DEF StartedBy, TypeOK, DefectRow
      <4>2. d \in Cycle(e)
        BY <3>1, <4>1 DEF StartedBy, Cycle
      <4> QED
        BY <2>5, <3>1, <4>2 DEF StartedBy, OpenDefect
    <3> QED
      BY <3>1, <3>2, <3>3 DEF Stage, StartedBy, Terminal, Cycles!Closed
  <2>13. \E d \in Submits :
           /\ \E i \in Ledger : i.id = d /\ i.body.equipment = e
           /\ Stage[d] = "RESOLVED"
    <3>1. PICK d \in Submits :
            defects[d] # None /\ defects[d].equipment = e /\ defects[d].status = "RESOLVED"
      BY <2>5 DEF Cycle
    <3>2. PICK i \in inspections : i.id = d /\ i.body.equipment = e
      BY <3>1 DEF Recorded
    <3> DEFINE entry == [id |-> i.id, body |-> i.body]
    <3>3. entry \in Ledger
      BY DEF Ledger
    <3>4. entry.id = d /\ entry.body.equipment = e
      BY <3>2
    <3>5. Stage[d] = "RESOLVED"
      BY <3>1 DEF Stage
    <3> QED
      BY <3>3, <3>4, <3>5
  <2>14. Cycles!Return(e)
    BY <2>1, <2>4, <2>9, <2>11, <2>12, <2>13
       DEF Cycles!Return, Cycles!DefectOf, Status, Ledger, Answer, Stage, Starters
  <2> QED
    BY <2>8, <2>14 DEF Cycles!Next
<1> QED
  BY <1>1, <1>2

(* A defect request that finds the status it loaded is a Progress. *)
LEMMA RepairRefines ==
  ASSUME CycleInvariant, (Timeline /\ Recorded)', NEW r \in Repairs,
         LoadDefect(r) \/ Transition(r)
  PROVE  HasStarter' /\ (Cycles!Next \/ UNCHANGED Cycles!vars)
<1> USE DEF CycleInvariant
<1>1. CASE UNCHANGED <<tables, response>>
  BY <1>1, TablesStay, RefusalStutters
<1>2. LoadDefect(r) => UNCHANGED <<tables, response>>
  BY DEF LoadDefect, submitVars
<1>3. CASE Transition(r) /\ defects[job[r].defect].status = job[r].from
  <2>0. \E d \in Submits : d = job[r].defect
    BY <1>3 DEF Transition, TypeOK, Job
  <2> PICK d \in Submits : d = job[r].defect
    BY <2>0
  <2>1. /\ UNCHANGED <<equipment, inspections, response>>
        /\ defects' = [defects EXCEPT ![d].status = job[r].to]
        /\ job[r].from = defects[d].status
        /\ job[r].to \in DefectTransitions[job[r].from]
        /\ job[r].from \in DefectStatus /\ job[r].to \in DefectStatus
        /\ defects[d] # None /\ defects[d] \in DefectRow
    BY <1>3 DEF Transition, TypeOK, Job, DecisionsHold, submitVars
  <2>2. /\ \A c \in Submits : c # d => defects'[c] = defects[c]
        /\ defects'[d] = [defects[d] EXCEPT !.status = job[r].to]
    BY <2>1 DEF TypeOK
  <2>3. /\ defects'[d] # None /\ defects'[d].status = job[r].to
        /\ defects'[d].equipment = defects[d].equipment
        /\ defects'[d].openedAt = defects[d].openedAt
    <3>1. defects'[d] \in DefectRow
      BY <2>1, <2>2 DEF DefectRow
    <3> QED
      BY <2>1, <2>2, <3>1, NoneAssumption DEF DefectRow
  <2>4. \A c \in Submits, e \in Equipment : StartedBy(c, e) => StartedBy(c, e)'
    BY <2>1, <2>2, <2>3 DEF StartedBy
  <2>5. \A e \in Equipment :
          /\ equipment'[e].status = "OUT_OF_SERVICE" => \E c \in Submits : StartedBy(c, e)'
          /\ Starter(e)' = Starter(e)
    BY <2>1, <2>4, StarterStays
  <2>6. HasStarter' /\ UNCHANGED <<Status, Ledger, Answer, Starters>>
    BY <2>1, <2>5 DEF HasStarter, Status, Ledger, Answer, Starters
  <2>7. Stage' = [Stage EXCEPT ![d] = job[r].to] /\ Stage[d] = job[r].from
    BY <2>1, <2>2, <2>3 DEF Stage
  <2>8. /\ job[r].from \in {"OPEN", "ACKNOWLEDGED", "IN_REPAIR"}
        /\ job[r].to \in {"ACKNOWLEDGED", "IN_REPAIR", "RESOLVED", "REJECTED"}
        /\ job[r].to = "ACKNOWLEDGED" => job[r].from = "OPEN"
        /\ job[r].to = "IN_REPAIR" => job[r].from = "ACKNOWLEDGED"
        /\ job[r].to = "RESOLVED" => job[r].from = "IN_REPAIR"
    BY <2>1 DEF DefectTransitions, DefectStatus
  <2>9. Stage[d] \notin Cycles!Closed \cup {None}
    BY <2>1, <2>7, <2>8, NoneAssumption DEF Cycles!Closed
  <2>10. Cycles!Progress(d)
    BY <2>6, <2>7, <2>8, <2>9
       DEF Cycles!Progress, Cycles!Closed, Status, Ledger, Answer, Stage, Starters
  <2> QED
    BY <2>6, <2>10 DEF Cycles!Next
<1>4. Transition(r) /\ defects[job[r].defect].status # job[r].from
        => UNCHANGED <<tables, response>>
  BY DEF Transition, tables, submitVars
<1> QED
  BY <1>1, <1>2, <1>3, <1>4

(* An administrator's UPDATE is a Retire. *)
LEMMA RetireRefines ==
  ASSUME CycleInvariant, (Timeline /\ Recorded)', NEW e \in Equipment, Retire(e)
  PROVE  HasStarter' /\ (Cycles!Next \/ UNCHANGED Cycles!vars)
<1> USE DEF CycleInvariant
<1>1. /\ RetireAllowed
      /\ UNCHANGED <<inspections, defects, response>>
      /\ equipment'[e].status = "RETIRED"
      /\ \A f \in Equipment : f # e => equipment'[f] = equipment[f]
  BY DEF Retire, TypeOK, EquipmentRow, submitVars
<1>2. \A d \in Submits, f \in Equipment :
        StartedBy(d, f) /\ equipment'[f] = equipment[f] => StartedBy(d, f)'
  BY <1>1 DEF StartedBy
<1>3. \A f \in Equipment :
        f # e => /\ equipment'[f].status = "OUT_OF_SERVICE" => \E d \in Submits : StartedBy(d, f)'
                 /\ Starter(f)' = Starter(f)
  BY <1>1, <1>2, StarterStays
<1>4. HasStarter'
  BY <1>1, <1>3 DEF HasStarter
<1>5. Starter(e)' = None
  BY <1>1 DEF Starter
<1>6. /\ Status' = [Status EXCEPT ![e] = "RETIRED"]
      /\ Starters' = [Starters EXCEPT ![e] = None]
      /\ UNCHANGED <<Ledger, Answer, Stage>>
  BY <1>1, <1>3, <1>5 DEF Status, Starters, Ledger, Answer, Stage
<1>7. Cycles!Retire(e)
  BY <1>1, <1>6 DEF Cycles!Retire, Status, Ledger, Answer, Stage, Starters
<1> QED
  BY <1>4, <1>7 DEF Cycles!Next

(* Every step of the requests is a step of LockoutCycle or none of its variables' *)
(* changes, and the invariant that says so is kept.                             *)
LEMMA NextCycle ==
  ASSUME CycleInvariant, [Next]_vars
  PROVE  CycleInvariant' /\ [Cycles!Next]_(Cycles!vars)
<1>1. TypeOK' /\ KeyInvariant' /\ DecisionsHold' /\ (Timeline /\ Recorded)'
  <2>1. TypeOK'
    BY NextType DEF CycleInvariant
  <2>2. KeyInvariant' /\ DecisionsHold'
    BY <2>1, NextKeys, NextDecisions DEF CycleInvariant
  <2>3. Timeline' /\ Recorded'
    BY NextTimeline, NextRecorded DEF CycleInvariant
  <2> QED
    BY <2>1, <2>2, <2>3
<1>2. HasStarter' /\ (Cycles!Next \/ UNCHANGED Cycles!vars)
  <2>1. CASE \E p \in Submits : SubmitStep(p)
    BY <1>1, <2>1, SubmitRefines
  <2>2. CASE \E a \in Approvals : ApprovalStep(a)
    BY <1>1, <2>2, ApprovalRefines
  <2>3. CASE \E r \in Repairs : LoadDefect(r) \/ Transition(r)
    BY <1>1, <2>3, RepairRefines
  <2>4. CASE \E e \in Equipment : Retire(e)
    BY <1>1, <2>4, RetireRefines
  <2>5. CASE UNCHANGED vars
    <3>1. UNCHANGED <<tables, response>>
      BY <2>5 DEF vars, submitVars
    <3> QED
      BY <1>1, <3>1, TablesStay, RefusalStutters
  <2> QED
    BY <2>1, <2>2, <2>3, <2>4, <2>5 DEF Next
<1> QED
  BY <1>1, <1>2 DEF CycleInvariant

(* Whatever requests interleave and whichever are rolled back, the database goes  *)
(* through a behaviour of LockoutCycle: each handler takes effect at its commit,   *)
(* at once, and equipment comes back only after the defect that locked it out was  *)
(* closed (submit.ts, return-to-service.ts, the defect routes).                    *)
THEOREM RequestsAreAtomic == Spec => ImplementsLockoutCycle
<1>1. Init => CycleInvariant /\ Cycles!Init
  BY InitType, InitKeys, InitDecisions, InitRecorded, InitCycle DEF CycleInvariant
<1>2. CycleInvariant /\ [Next]_vars => CycleInvariant' /\ [Cycles!Next]_(Cycles!vars)
  BY NextCycle
<1> QED
  BY <1>1, <1>2, PTL DEF Spec, ImplementsLockoutCycle, Cycles!Spec
=============================================================================
