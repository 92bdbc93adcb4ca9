-------------------------------- MODULE Desk --------------------------------
(***************************************************************************)
(* The dashboard's defects page, open on several desks: the list each has    *)
(* read, the panel of the defect it shows, the buttons of that panel, and    *)
(* the requests they send to the Core API, within one lockout of a machine.  *)
(*                                                                         *)
(* A desk acts on what it last read.  Only its own successes make it read    *)
(* again at once; what another desk did reaches it by a slow poll.           *)
(***************************************************************************)
EXTENDS FiniteSets, Naturals

CONSTANTS
  Desks, Faults,
  EquipmentOf,  \* the machine of a defect
  Filters,      \* the filters that are tried, of ALL, OPEN, ACKNOWLEDGED and IN_REPAIR
  Rank,         \* the order of the list, newest first
  Floors,       \* the desks of one behaviour, those whose user browses, and what
                \* its defects are like and have come to; and a bound on its failed
                \* reads, lost answers and rejections
  Unread,       \* no list yet, or none under way
  NoFault

Severity == {"BLOCKING", "WARNING"}
FaultStatus == {"OPEN", "ACKNOWLEDGED", "IN_REPAIR", "RESOLVED", "REJECTED"}

ASSUME DefectAssumption == DOMAIN EquipmentOf = Faults /\ Rank \in [Faults -> Nat]
ASSUME FloorAssumption ==
  \A f \in Floors : f.browsing \subseteq f.desks /\ f.desks \subseteq Desks
                   /\ f.severity \in [Faults -> Severity \cup {"none"}]
                   /\ f.start \in [Faults -> FaultStatus]
ASSUME FilterAssumption == Filters \subseteq FaultStatus \cup {"ALL"}
ASSUME SetbackAssumption == (\A f \in Floors : f.setbacks \in Nat) /\ NoFault \notin Faults

VARIABLES
  floor,
  fault,     \* the defects' rows
  lockedOut, \* the machines that are OUT_OF_SERVICE
  list,      \* what the desk has read
  reading,   \* the answer of the read under way
  again,     \* the list is to be read again
  broken,    \* the last read failed
  equipmentList, \* the other query of the page: "unread", "loading", "loaded" or "failed"
  filter, selected,
  editor,    \* the panel's resolution: "closed" or "written"
  calls,     \* the requests of the panels' buttons
  told,      \* history: who was told that a step is done
  setbacks

deskVars == <<floor, fault, lockedOut, list, reading, again, broken, equipmentList,
              filter, selected, editor, calls, told, setbacks>>

Machines == {EquipmentOf[d] : d \in Faults}
Present == {d \in Faults : floor.severity[d] # "none"}
FaultRow == [status : FaultStatus, approved : BOOLEAN]
Steps == {"ACKNOWLEDGED", "IN_REPAIR", "RESOLVED", "APPROVED"}

Blocking(d) == floor.severity[d] = "BLOCKING"
Slipped == setbacks < floor.setbacks /\ setbacks' = setbacks + 1

-----------------------------------------------------------------------------
(* The page.  It has two queries, that of the defects and that of the machines; the    *)
(* machines, once read, are kept, and no step of a lockout adds or takes one.       *)

IsPendingApproval(k, d) ==
  Blocking(d) /\ list[k][d].status = "RESOLVED" /\ ~list[k][d].approved

IsQueueOpen(k, d) ==
  /\ list[k][d].status # "REJECTED"
  /\ list[k][d].status = "RESOLVED" => IsPendingApproval(k, d)

Visible(k) == IF list[k] = Unread THEN {} ELSE {d \in Present : IsQueueOpen(k, d)}
Filtered(k) == {d \in Visible(k) : filter[k] \in {"ALL", list[k][d].status}}

(* Neither query is loading, and that of the defects has not failed *)
OnPage(k) == list[k] # Unread /\ equipmentList[k] # "loading" /\ ~broken[k]

Gone(k) == selected[k] # NoFault /\ selected[k] \notin Visible(k)

(* selectedDefect: the selected one; with none selected, or one that the filter hides,  *)
(* the first of the list                                                         *)
Panel(k) ==
  IF ~OnPage(k) \/ Gone(k) \/ Filtered(k) = {} THEN NoFault
  ELSE IF selected[k] \in Filtered(k) THEN selected[k]
  ELSE CHOOSE d \in Filtered(k) : \A e \in Filtered(k) : Rank[d] <= Rank[e]

OwnDefects(k, m) == {d \in Visible(k) : EquipmentOf[d] = m}

(* faulty: one repaired defect is enough *)
CanReturnOnOne(k, m) ==
  equipmentList[k] = "loaded" /\ \E d \in OwnDefects(k, m) : IsPendingApproval(k, d)

(* equipmentCanReturnToService, which has an entry for each machine that was read *)
CanReturnToService(k, m) ==
  /\ equipmentList[k] = "loaded"
  /\ \E d \in OwnDefects(k, m) : IsPendingApproval(k, d)
  /\ \A d \in OwnDefects(k, m) : Blocking(d) => list[k][d].status = "RESOLVED"

(* the button that the panel of a defect has, if it is enabled *)
Offers(k, d, step) ==
  \/ step = "ACKNOWLEDGED" /\ list[k][d].status = "OPEN"
  \/ step = "IN_REPAIR" /\ list[k][d].status = "ACKNOWLEDGED"
  \/ step = "RESOLVED" /\ list[k][d].status = "IN_REPAIR" /\ editor[k] = "written"
  \/ /\ step = "APPROVED" /\ list[k][d].status = "RESOLVED" /\ Blocking(d)
     /\ CanReturnToService(k, EquipmentOf[d])

CallsOf(k) == {c \in calls : c.desk = k}

(* The resolution that is being written belongs to the panel, not to its defect, and *)
(* goes when there is no panel.                                                  *)
Rendered(k) ==
  editor' = IF (Panel(k))' = NoFault THEN [editor EXCEPT ![k] = "closed"] ELSE editor

Opened(k) == equipmentList[k] # "unread"

OpenPage(k, d) ==
  /\ k \in floor.desks /\ ~Opened(k)
  /\ d = NoFault \/ k \in floor.browsing
  /\ again' = [again EXCEPT ![k] = TRUE]
  /\ equipmentList' = [equipmentList EXCEPT ![k] = "loading"]
  /\ selected' = [selected EXCEPT ![k] = d]
  /\ UNCHANGED <<floor, fault, lockedOut, list, reading, broken, filter, editor, calls, told, setbacks>>

SetFilter(k, status) ==
  /\ k \in floor.browsing /\ OnPage(k)
  /\ filter' = [filter EXCEPT ![k] = status]
  /\ UNCHANGED <<floor, fault, lockedOut, list, reading, again, broken, equipmentList,
                 selected, calls, told, setbacks>>
  /\ Rendered(k)

SelectRow(k, d) ==
  /\ k \in floor.browsing /\ OnPage(k) /\ d \in Filtered(k)
  /\ selected' = [selected EXCEPT ![k] = d]
  /\ UNCHANGED <<floor, fault, lockedOut, list, reading, again, broken, equipmentList,
                 filter, calls, told, setbacks>>
  /\ Rendered(k)

BackToQueue(k) ==
  /\ OnPage(k) /\ Gone(k)
  /\ selected' = [selected EXCEPT ![k] = NoFault]
  /\ UNCHANGED <<floor, fault, lockedOut, list, reading, again, broken, equipmentList,
                 filter, calls, told, setbacks>>
  /\ Rendered(k)

(* Resolve, and the notes; Cancel hides them, and Resolve shows them again.         *)
EditNotes(k) ==
  /\ OnPage(k) /\ Panel(k) # NoFault /\ list[k][Panel(k)].status = "IN_REPAIR"
  /\ editor[k] = "closed" /\ editor' = [editor EXCEPT ![k] = "written"]
  /\ UNCHANGED <<floor, fault, lockedOut, list, reading, again, broken, equipmentList,
                 filter, selected, calls, told, setbacks>>

(* A button is disabled while its own request is pending; here, so are the others.  *)
Click(k, step) ==
  /\ OnPage(k) /\ Panel(k) # NoFault /\ Offers(k, Panel(k), step)
  /\ CallsOf(k) = {}
  /\ calls' = calls \cup {[desk |-> k, step |-> step, defect |-> Panel(k), at |-> "sent",
                           saw |-> "none"]}
  /\ UNCHANGED <<floor, fault, lockedOut, list, reading, again, broken, equipmentList,
                 filter, selected, editor, told, setbacks>>

-----------------------------------------------------------------------------
(* The Core API *)

Transitions ==
  [OPEN |-> {"ACKNOWLEDGED", "REJECTED"}, ACKNOWLEDGED |-> {"IN_REPAIR", "REJECTED"},
   IN_REPAIR |-> {"RESOLVED", "REJECTED"}, RESOLVED |-> {}, REJECTED |-> {}]

Moved(c, at, saw) == calls' = (calls \ {c}) \cup {[c EXCEPT !.at = at, !.saw = saw]}

LoadAndCheck(c) ==
  /\ c.at = "sent" /\ c.step # "APPROVED"
  /\ IF c.step \in Transitions[fault[c.defect].status]
     THEN Moved(c, "loaded", fault[c.defect].status)
     ELSE Moved(c, "refused", "none")
  /\ UNCHANGED <<floor, fault, lockedOut, list, reading, again, broken, equipmentList,
                 filter, selected, editor, told, setbacks>>

(* faulty: the update names the row only *)
WriteUnconditionally(c) ==
  /\ c.at = "loaded"
  /\ fault' = [fault EXCEPT ![c.defect].status = c.step]
  /\ Moved(c, "done", "none")
  /\ UNCHANGED <<floor, lockedOut, list, reading, again, broken, equipmentList, filter,
                 selected, editor, told, setbacks>>

(* WHERE status = the status just read *)
WriteIfUnmoved(c) ==
  /\ c.at = "loaded"
  /\ IF fault[c.defect].status = c.saw
     THEN /\ fault' = [fault EXCEPT ![c.defect].status = c.step]
          /\ Moved(c, "done", "none")
     ELSE Moved(c, "refused", "none") /\ UNCHANGED fault
  /\ UNCHANGED <<floor, lockedOut, list, reading, again, broken, equipmentList, filter,
                 selected, editor, told, setbacks>>

BlockingRows(m) == {d \in Present : Blocking(d) /\ EquipmentOf[d] = m}

MayReturn(m) ==
  /\ m \in lockedOut
  /\ \A d \in BlockingRows(m) : fault[d].status \in {"RESOLVED", "REJECTED"}
  /\ \E d \in BlockingRows(m) : fault[d].status = "RESOLVED"

(* POST /equipment/:id/return-to-service holds the machine's row throughout *)
ApproveReturn(c) ==
  LET m == EquipmentOf[c.defect] IN
  /\ c.at = "sent" /\ c.step = "APPROVED"
  /\ IF MayReturn(m)
     THEN /\ fault' = [d \in Faults |->
                         IF d \in BlockingRows(m) /\ fault[d].status = "RESOLVED"
                         THEN [fault[d] EXCEPT !.approved = TRUE] ELSE fault[d]]
          /\ lockedOut' = lockedOut \ {m}
          /\ Moved(c, "done", "none")
     ELSE Moved(c, "refused", "none") /\ UNCHANGED <<fault, lockedOut>>
  /\ UNCHANGED <<floor, list, reading, again, broken, equipmentList, filter, selected,
                 editor, told, setbacks>>

(* POST /defects/:id/reject, which no button sends *)
RejectElsewhere(d) ==
  /\ d \in Present /\ "REJECTED" \in Transitions[fault[d].status] /\ Slipped
  /\ fault' = [fault EXCEPT ![d].status = "REJECTED"]
  /\ UNCHANGED <<floor, lockedOut, list, reading, again, broken, equipmentList, filter,
                 selected, editor, calls, told>>

-----------------------------------------------------------------------------
(* The desk hears *)

(* What waited for a read that is over, or started over, waits no more.             *)
Settled(k) == calls \ {c \in CallsOf(k) : c.at = "read"}

(* onSuccess of a status step returns the promise of the read it asks for, so its   *)
(* button stays disabled until then; that of an approval does not.                *)
Succeeds(c) ==
  /\ c.at = "done"
  /\ told' = told \cup {[desk |-> c.desk, defect |-> c.defect, step |-> c.step]}
  /\ reading' = [reading EXCEPT ![c.desk] = Unread]
  /\ again' = [again EXCEPT ![c.desk] = TRUE]
  /\ calls' = (Settled(c.desk) \ {c})
              \cup (IF c.step = "APPROVED" THEN {} ELSE {[c EXCEPT !.at = "read"]})
  /\ UNCHANGED <<floor, fault, lockedOut, list, broken, equipmentList, filter, selected,
                 editor, setbacks>>

(* A refusal is shown nowhere, and asks for no read.                              *)
Refused(c) ==
  /\ c.at = "refused"
  /\ calls' = calls \ {c}
  /\ UNCHANGED <<floor, fault, lockedOut, list, reading, again, broken, equipmentList,
                 filter, selected, editor, told, setbacks>>

LoseCall(c) ==
  /\ c.at \in {"sent", "done"} /\ Slipped
  /\ calls' = calls \ {c}
  /\ UNCHANGED <<floor, fault, lockedOut, list, reading, again, broken, equipmentList,
                 filter, selected, editor, told>>

(* GET /defects *)
ReadList(k) ==
  /\ again[k] /\ reading[k] = Unread
  /\ reading' = [reading EXCEPT ![k] = fault]
  /\ again' = [again EXCEPT ![k] = FALSE]
  /\ UNCHANGED <<floor, fault, lockedOut, list, broken, equipmentList, filter, selected,
                 editor, calls, told, setbacks>>

ListArrives(k) ==
  /\ reading[k] # Unread
  /\ list' = [list EXCEPT ![k] = reading[k]]
  /\ broken' = [broken EXCEPT ![k] = FALSE]
  /\ reading' = [reading EXCEPT ![k] = Unread]
  /\ UNCHANGED <<floor, fault, lockedOut, again, equipmentList, filter, selected, told,
                 setbacks>>
  /\ calls' = Settled(k)
  /\ Rendered(k)

(* The retry fails too: the page says that the list is unavailable.                *)
ListFails(k) ==
  /\ reading[k] # Unread /\ Slipped
  /\ broken' = [broken EXCEPT ![k] = TRUE]
  /\ reading' = [reading EXCEPT ![k] = Unread]
  /\ UNCHANGED <<floor, fault, lockedOut, list, again, equipmentList, filter, selected,
                 told>>
  /\ calls' = Settled(k)
  /\ Rendered(k)

(* faulty: only a failure is read again *)
RetryOnly(k) ==
  /\ broken[k] /\ ~again[k] /\ reading[k] = Unread
  /\ again' = [again EXCEPT ![k] = TRUE]
  /\ UNCHANGED <<floor, fault, lockedOut, list, reading, broken, equipmentList, filter,
                 selected, editor, calls, told, setbacks>>

(* CROSS_SESSION_SAFETY_POLL_INTERVAL_MS, or Retry *)
ListPoll(k) ==
  /\ list[k] # Unread \/ broken[k]
  /\ ~again[k] /\ reading[k] = Unread
  /\ again' = [again EXCEPT ![k] = TRUE]
  /\ UNCHANGED <<floor, fault, lockedOut, list, reading, broken, equipmentList, filter,
                 selected, editor, calls, told, setbacks>>

(* GET /equipment *)
EquipmentArrives(k) ==
  /\ equipmentList[k] = "loading"
  /\ equipmentList' = [equipmentList EXCEPT ![k] = "loaded"]
  /\ UNCHANGED <<floor, fault, lockedOut, list, reading, again, broken, filter, selected,
                 calls, told, setbacks>>
  /\ Rendered(k)

(* Its retry fails too: the defects are shown, and no machine can be returned.       *)
EquipmentFails(k) ==
  /\ equipmentList[k] = "loading" /\ Slipped
  /\ equipmentList' = [equipmentList EXCEPT ![k] = "failed"]
  /\ UNCHANGED <<floor, fault, lockedOut, list, reading, again, broken, filter, selected,
                 calls, told>>
  /\ Rendered(k)

(* With nothing read yet, the page is loading again, and its panel goes.             *)
EquipmentPoll(k) ==
  /\ equipmentList[k] = "failed"
  /\ equipmentList' = [equipmentList EXCEPT ![k] = "loading"]
  /\ UNCHANGED <<floor, fault, lockedOut, list, reading, again, broken, filter, selected,
                 calls, told, setbacks>>
  /\ Rendered(k)

-----------------------------------------------------------------------------
DeskInit ==
  /\ floor \in Floors
  /\ fault = [d \in Faults |-> [status |-> floor.start[d], approved |-> FALSE]]
  /\ lockedOut = {m \in Machines : \E d \in BlockingRows(m) : TRUE}
  /\ list = [k \in Desks |-> Unread] /\ reading = [k \in Desks |-> Unread]
  /\ again = [k \in Desks |-> FALSE] /\ broken = [k \in Desks |-> FALSE]
  /\ equipmentList = [k \in Desks |-> "unread"]
  /\ filter = [k \in Desks |-> "ALL"] /\ selected = [k \in Desks |-> NoFault]
  /\ editor = [k \in Desks |-> "closed"]
  /\ calls = {} /\ told = {} /\ setbacks = 0

DeskNext ==
  \/ \E k \in Desks :
       \/ \E d \in Present \cup {NoFault} : OpenPage(k, d)
       \/ \E s \in Filters : SetFilter(k, s)
       \/ \E d \in Present : SelectRow(k, d)
       \/ BackToQueue(k) \/ EditNotes(k)
       \/ \E step \in Steps : Click(k, step)
       \/ ReadList(k) \/ ListArrives(k) \/ ListFails(k) \/ ListPoll(k)
       \/ EquipmentArrives(k) \/ EquipmentFails(k) \/ EquipmentPoll(k)
  \/ \E c \in calls :
       \/ LoadAndCheck(c) \/ WriteIfUnmoved(c) \/ ApproveReturn(c)
       \/ Succeeds(c) \/ Refused(c) \/ LoseCall(c)
  \/ \E d \in Faults : RejectElsewhere(d)

(* An open page polls, and its reads end.  Nobody has to click, or to open it.      *)
Reading(k) ==
  ReadList(k) \/ ListArrives(k) \/ ListPoll(k)

ReadingEquipment(k) == EquipmentArrives(k) \/ EquipmentPoll(k)

DeskFairness ==
  \A k \in Desks : WF_deskVars(Reading(k)) /\ WF_deskVars(ReadingEquipment(k))

DeskSpec == DeskInit /\ [][DeskNext]_deskVars
FairDeskSpec == DeskSpec /\ DeskFairness

-----------------------------------------------------------------------------
DeskTypeOK ==
  /\ floor \in Floors
  /\ fault \in [Faults -> FaultRow] /\ lockedOut \subseteq Machines
  /\ list \in [Desks -> [Faults -> FaultRow] \cup {Unread}]
  /\ reading \in [Desks -> [Faults -> FaultRow] \cup {Unread}]
  /\ again \in [Desks -> BOOLEAN] /\ broken \in [Desks -> BOOLEAN]
  /\ equipmentList \in [Desks -> {"unread", "loading", "loaded", "failed"}]
  /\ filter \in [Desks -> FaultStatus \cup {"ALL"}]
  /\ selected \in [Desks -> Faults \cup {NoFault}]
  /\ editor \in [Desks -> {"closed", "written"}]
  /\ calls \subseteq
       [desk : Desks, step : Steps, defect : Faults, saw : FaultStatus \cup {"none"},
        at : {"sent", "loaded", "done", "refused", "read"}]
  /\ told \subseteq [desk : Desks, defect : Faults, step : Steps]
  /\ setbacks \in 0 .. floor.setbacks

(* Of the desks that act on the same stale list, one at most is told that it       *)
(* acknowledged, took up or resolved a defect, or returned the machine: two        *)
(* supervisors are not sent to one machine (acknowledge.ts:31-32, polling.ts:10-14,*)
(* return-to-service.ts:34).  A machine has one approval, whichever of its defects *)
(* was on the panel.                                                            *)
OneDeskIsTold ==
  \A s, t \in told :
    /\ s.step = t.step
    /\ IF s.step = "APPROVED" THEN EquipmentOf[s.defect] = EquipmentOf[t.defect]
       ELSE s.defect = t.defect
    => s = t

(* The page's reading of ADR 0006 is the server's: over a list that is current, the *)
(* approval is offered exactly when it would be granted (defect-queue.ts:13-20), but *)
(* for a desk that has not read the machines, which offers none                    *)
(* (defects-table.tsx:241-244, 269-274).                                          *)
OfferedIsGranted ==
  \A k \in floor.desks : list[k] = fault =>
    \A d \in Visible(k) :
      Offers(k, d, "APPROVED") <=>
        /\ equipmentList[k] = "loaded"
        /\ list[k][d].status = "RESOLVED" /\ MayReturn(EquipmentOf[d])

DesksAgree == OneDeskIsTold /\ OfferedIsGranted

(* What one desk did reaches every other that is open, though no feed reports it    *)
(* and a refusal asks for no read (polling.ts:8-16, use-defects.ts:29-33); and a desk *)
(* that could not read the machines does so in the end (use-equipment.ts:32-34).   *)
EveryDeskCatchesUp ==
  []<>(\A k \in floor.desks :
         Opened(k) => list[k] = fault /\ ~broken[k] /\ equipmentList[k] = "loaded")
=============================================================================
