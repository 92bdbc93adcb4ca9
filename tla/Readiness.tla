------------------------------ MODULE Readiness ------------------------------
(***************************************************************************)
(* What the Core API answers when it is asked whether a machine is READY      *)
(* (ADR 0006).  READY is stored nowhere: an answer is put together from the   *)
(* machine's row, today's passing inspections, the open blocking defects and,*)
(* in the fleet list, the last inspection, each read by a statement of its   *)
(* own while inspections and approvals commit in between.                   *)
(*                                                                         *)
(* The writers are those of Lockout, with their locks left out: a submit is  *)
(* its unlocked gate, its BEGIN and its COMMIT, the others are one step.     *)
(***************************************************************************)
EXTENDS FiniteSets, Naturals

CONSTANTS
  Fleet,   \* asset tags; a machine has one for life
  Registered, \* those that exist to begin with
  Checks,     \* submits
  Asks,       \* requests that compute readiness
  MaxUpkeep   \* bound on the nights, retirements and new machines

ASSUME MachineAssumption == Registered \subseteq Fleet /\ Fleet # {}
ASSUME UpkeepAssumption == MaxUpkeep \in Nat

VARIABLES
  now, today,   \* transaction timestamps, and the first of this day
  machine,      \* the equipment rows, by asset tag
  check, found, \* the submits, and the blocking defects that they open
  ask,          \* the requests
  slipped,      \* history: machines with a record that ADR 0006 does not expect
  upkeep

fleetVars == <<now, today, machine, check, found>>
readinessVars == <<now, today, machine, check, found, ask, slipped, upkeep>>

StoredStatus == {"AWAITING_INSPECTION", "OUT_OF_SERVICE", "RETIRED"}
EquipmentStatus == StoredStatus \cup {"READY"}
Verdict == {"PASS", "FAIL_BLOCKING"}
Absent == [status |-> "absent", since |-> 0, baseline |-> 0]
Asked == {"idle", "rows", "passes", "blocked", "answered"}

Exists(m) == machine[m] # Absent
Upkeep == upkeep < MaxUpkeep /\ upkeep' = upkeep + 1

-----------------------------------------------------------------------------
(* Readiness *)

InspectionsOf(m) == {c \in Checks : check[c].at = "committed" /\ check[c].of = m}

(* faulty: a pass of today counts, whatever came after it *)
CountsAnyToday(m) ==
  {c \in InspectionsOf(m) : check[c].verdict = "PASS" /\ check[c].time >= today}

(* passingTodayRows: submitted at or after readiness_baseline_at, on the lab's day  *)
PassesToday(m) ==
  {c \in InspectionsOf(m) :
     /\ check[c].verdict = "PASS"
     /\ check[c].time >= machine[m].baseline /\ check[c].time >= today}

(* blockedRows: not RESOLVED, not REJECTED *)
OpenBlocking(m) == {c \in InspectionsOf(m) : found[c] = "OPEN"}

Computed(status, passes, blocked) ==
  IF status \in {"OUT_OF_SERVICE", "RETIRED"} THEN status
  ELSE IF passes # {} /\ blocked = {} THEN "READY"
  ELSE "AWAITING_INSPECTION"

(* ADR 0006, of one moment: what one statement that reads everything would find    *)
StatusOf(m) ==
  IF /\ machine[m].status = "AWAITING_INSPECTION"
     /\ \E c \in InspectionsOf(m) :
          check[c].verdict = "PASS" /\ \A t \in {today, machine[m].baseline} : check[c].time >= t
     /\ \A c \in InspectionsOf(m) : found[c] # "OPEN"
  THEN "READY" ELSE machine[m].status

TimeOf(S) ==
  IF S = {} THEN 0
  ELSE check[CHOOSE c \in S : \A d \in S : check[d].time <= check[c].time].time

-----------------------------------------------------------------------------
(* The requests that read *)

(* Every request under way takes note of what is so after a step.                   *)
Witness ==
  ask' = [a \in Asks |->
            IF ask[a].at \in {"rows", "passes", "blocked"}
            THEN [ask[a] EXCEPT !.seen = [m \in Fleet |->
                    IF Exists(m)' THEN @[m] \cup {StatusOf(m)'} ELSE @[m]]]
            ELSE ask[a]]

(* SELECT ... FROM equipment *)
ReadRows(a, list, S) ==
  /\ ask[a].at = "idle"
  /\ ask' = [ask EXCEPT ![a] =
       [@ EXCEPT !.at = "rows", !.list = list,
                 !.row = [m \in Fleet |-> IF m \in S THEN machine[m].status ELSE "absent"],
                 !.seen = [m \in Fleet |-> IF Exists(m) THEN {StatusOf(m)} ELSE {}]]]

ListEquipment(a) ==
  /\ ReadRows(a, TRUE, {m \in Fleet : Exists(m)})
  /\ UNCHANGED <<fleetVars, slipped, upkeep>>

(* by id, or by the tag of a scan; EQUIPMENT_NOT_FOUND reads no further              *)
GetEquipment(a, m) ==
  /\ Exists(m) /\ ReadRows(a, FALSE, {m})
  /\ UNCHANGED <<fleetVars, slipped, upkeep>>

Candidates(a) == {m \in Fleet : ask[a].row[m] = "AWAITING_INSPECTION"}

(* With no candidate, neither query is made.                                      *)
ReadPasses(a) ==
  /\ ask[a].at = "rows"
  /\ ask' = [ask EXCEPT ![a].at = "passes",
               ![a].pass = [m \in Fleet |->
                  IF m \in Candidates(a) THEN TimeOf(PassesToday(m)) ELSE 0]]
  /\ UNCHANGED <<fleetVars, slipped, upkeep>>

ReadyAnswer(a, m, blocked) ==
  IF ask[a].row[m] = "absent" THEN "absent"
  ELSE Computed(ask[a].row[m], IF ask[a].pass[m] = 0 THEN {} ELSE {ask[a].pass[m]}, blocked)

ReadBlocked(a) ==
  /\ ask[a].at = "passes"
  /\ ask' = [ask EXCEPT ![a].at = IF ask[a].list THEN "blocked" ELSE "answered",
               ![a].answer = [m \in Fleet |-> ReadyAnswer(a, m, OpenBlocking(m))]]
  /\ UNCHANGED <<fleetVars, slipped, upkeep>>

(* the latest submittedAt of each machine of the list *)
LoadLastInspections(a) ==
  /\ ask[a].at = "blocked"
  /\ ask' = [ask EXCEPT ![a].at = "answered",
               ![a].last = [m \in Fleet |->
                  IF ask[a].row[m] = "absent" THEN 0 ELSE TimeOf(InspectionsOf(m))]]
  /\ UNCHANGED <<fleetVars, slipped, upkeep>>

-----------------------------------------------------------------------------
(* The writers *)

(* the gate on the unlocked row; submits are named in the order they are admitted    *)
AdmitCheck(c, m, verdict) ==
  /\ check[c].at = "none" /\ c = CHOOSE d \in Checks : check[d].at = "none"
  /\ Exists(m)
  /\ \/ machine[m].status = "AWAITING_INSPECTION"
     \/ machine[m].status = "OUT_OF_SERVICE" /\ verdict = "FAIL_BLOCKING"
  /\ check' = [check EXCEPT ![c] = [at |-> "admitted", of |-> m, verdict |-> verdict, time |-> 0]]
  /\ UNCHANGED <<now, today, machine, found, slipped, upkeep>>
  /\ Witness

BeginCheck(c) ==
  /\ check[c].at = "admitted"
  /\ now' = now + 1
  /\ check' = [check EXCEPT ![c].at = "begun", ![c].time = now + 1]
  /\ UNCHANGED <<today, machine, found, slipped, upkeep>>
  /\ Witness

(* A PASS admitted before the machine was locked out, or retired, is recorded too.   *)
CommitCheck(c) ==
  LET m == check[c].of
      blocking == check[c].verdict = "FAIL_BLOCKING"
  IN
  /\ check[c].at = "begun"
  /\ check' = [check EXCEPT ![c].at = "committed"]
  /\ found' = IF blocking THEN [found EXCEPT ![c] = "OPEN"] ELSE found
  /\ machine' = IF blocking /\ machine[m].status = "AWAITING_INSPECTION"
                THEN [machine EXCEPT ![m].status = "OUT_OF_SERVICE", ![m].since = check[c].time]
                ELSE machine
  /\ slipped' = IF ~blocking /\ machine[m].status # "AWAITING_INSPECTION"
                THEN slipped \cup {m} ELSE slipped
  /\ UNCHANGED <<now, today, upkeep>>
  /\ Witness

(* POST /defects/:id/resolve, /reject, at the end of its steps *)
CloseDefect(c, outcome) ==
  /\ found[c] = "OPEN"
  /\ found' = [found EXCEPT ![c] = outcome]
  /\ UNCHANGED <<now, today, machine, check, slipped, upkeep>>
  /\ Witness

(* the blocking defects of this lockout: opened since it began *)
Cycle(m) == {c \in InspectionsOf(m) : found[c] # "none" /\ check[c].time >= machine[m].since}

(* POST /equipment/:id/return-to-service; a defect older than the lockout stays open *)
ReturnToService(m) ==
  /\ Exists(m) /\ machine[m].status = "OUT_OF_SERVICE"
  /\ \A c \in Cycle(m) : found[c] # "OPEN"
  /\ \E c \in Cycle(m) : found[c] = "RESOLVED"
  /\ now' = now + 1
  /\ machine' = [machine EXCEPT ![m] =
                   [status |-> "AWAITING_INSPECTION", since |-> now + 1, baseline |-> now + 1]]
  /\ slipped' = IF OpenBlocking(m) # {} THEN slipped \cup {m} ELSE slipped
  /\ UNCHANGED <<today, check, found, upkeep>>
  /\ Witness

(* No route retires a machine; a row that says so is honoured.                      *)
Retire(m) ==
  /\ Exists(m) /\ machine[m].status # "RETIRED" /\ Upkeep
  /\ machine' = [machine EXCEPT ![m].status = "RETIRED"]
  /\ UNCHANGED <<now, today, check, found, slipped>>
  /\ Witness

(* POST /equipment: a tag in use is refused, by the pre-check or by the index       *)
CreateEquipment(m) ==
  /\ ~Exists(m) /\ Upkeep
  /\ machine' = [machine EXCEPT ![m] =
                   [status |-> "AWAITING_INSPECTION", since |-> now, baseline |-> now]]
  /\ UNCHANGED <<now, today, check, found, slipped>>
  /\ Witness

(* PATCH /equipment/:id writes nothing that readiness is made of; its answer is made *)
(* from the row as it left it.                                                    *)
UpdateEquipment(a, m) ==
  /\ Exists(m) /\ ReadRows(a, FALSE, {m})
  /\ UNCHANGED <<fleetVars, slipped, upkeep>>

(* midnight in the lab: no pass is of today any more *)
Midnight ==
  /\ Upkeep
  /\ now' = now + 1 /\ today' = now + 1
  /\ UNCHANGED <<machine, check, found, slipped>>
  /\ Witness

-----------------------------------------------------------------------------
ReadinessInit ==
  /\ now = 0 /\ today = 0 /\ upkeep = 0 /\ slipped = {}
  /\ machine = [m \in Fleet |->
                  IF m \in Registered
                  THEN [status |-> "AWAITING_INSPECTION", since |-> 0, baseline |-> 0] ELSE Absent]
  /\ check = [c \in Checks |->
                [at |-> "none", of |-> CHOOSE m \in Fleet : TRUE, verdict |-> "PASS", time |-> 0]]
  /\ found = [c \in Checks |-> "none"]
  /\ ask = [a \in Asks |->
              [at |-> "idle", list |-> FALSE, row |-> [m \in Fleet |-> "absent"],
               pass |-> [m \in Fleet |-> 0], last |-> [m \in Fleet |-> 0],
               answer |-> [m \in Fleet |-> "absent"], seen |-> [m \in Fleet |-> {}]]]

ReadinessNext ==
  \/ \E a \in Asks :
       \/ ListEquipment(a) \/ ReadPasses(a) \/ ReadBlocked(a) \/ LoadLastInspections(a)
       \/ \E m \in Fleet : GetEquipment(a, m) \/ UpdateEquipment(a, m)
  \/ \E c \in Checks :
       \/ \E m \in Fleet, v \in Verdict : AdmitCheck(c, m, v)
       \/ BeginCheck(c) \/ CommitCheck(c)
       \/ \E o \in {"RESOLVED", "REJECTED"} : CloseDefect(c, o)
  \/ \E m \in Fleet : ReturnToService(m) \/ Retire(m) \/ CreateEquipment(m)
  \/ Midnight

ReadinessSpec == ReadinessInit /\ [][ReadinessNext]_readinessVars

-----------------------------------------------------------------------------
ReadinessTypeOK ==
  /\ now \in Nat /\ today \in 0 .. now /\ upkeep \in 0 .. MaxUpkeep
  /\ machine \in [Fleet -> [status : StoredStatus, since : Nat, baseline : Nat] \cup {Absent}]
  /\ check \in [Checks -> [at : {"none", "admitted", "begun", "committed"}, of : Fleet,
                           verdict : Verdict, time : Nat]]
  /\ found \in [Checks -> {"none", "OPEN", "RESOLVED", "REJECTED"}]
  /\ ask \in [Asks -> [at : Asked, list : BOOLEAN, row : [Fleet -> StoredStatus \cup {"absent"}],
                       pass : [Fleet -> Nat], last : [Fleet -> Nat],
                       answer : [Fleet -> EquipmentStatus \cup {"absent"}],
                       seen : [Fleet -> SUBSET EquipmentStatus]]]
  /\ slipped \subseteq Fleet

(* An answer, pieced together while others commit, was true at some moment of its    *)
(* request.  AWAITING_INSPECTION may also stand for a machine that was READY and     *)
(* ceased to be: the cautious way round (equipment-readiness.ts:15-19).              *)
AnswerWasTrue(a, m) ==
  \/ ask[a].answer[m] \in ask[a].seen[m]
  \/ /\ ask[a].answer[m] = "AWAITING_INSPECTION"
     /\ "READY" \in ask[a].seen[m] /\ Cardinality(ask[a].seen[m]) > 1

(* The fleet list never calls a machine READY on an inspection it does not yet show.  *)
ListShowsThePass(a, m) ==
  ask[a].list /\ ask[a].answer[m] = "READY" => ask[a].last[m] >= ask[a].pass[m]

(* So no machine is called READY that was not, unless its records hold what ADR 0006  *)
(* does not expect: a PASS recorded past a lockout (submit.ts:184-189), or a return   *)
(* that left a blocking defect open.                                              *)
AnswersAreTrue ==
  \A a \in Asks, m \in Fleet :
    ask[a].at = "answered" /\ ask[a].answer[m] # "absent" =>
      (m \in slipped \/ AnswerWasTrue(a, m)) /\ ListShowsThePass(a, m)
=============================================================================
