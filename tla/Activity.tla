------------------------------ MODULE Activity ------------------------------
(***************************************************************************)
(* How a manager's dashboard learns of inspections (ADR 0026): the activity  *)
(* feed of the Core API, the provider that polls it, the bell that shows     *)
(* what is not dismissed, and the failure queue that is read again when the  *)
(* feed brings something new.                                               *)
(*                                                                         *)
(* Each request is two steps, the read in the server and the arrival of the  *)
(* answer, with anything in between.  Polling every two seconds is a request *)
(* that can always be made.  React Query's rules for a query that is already *)
(* being fetched are modelled from their use.                               *)
(***************************************************************************)
EXTENDS FiniteSets, Naturals

CONSTANTS
  Inspections, Tabs,
  Managers, ManagerOf,  \* who is signed in to a tab
  Scenes,               \* the inspections and tabs of one behaviour, and which tabs
                        \* are on a page with the failure queue or the fleet
  Nothing,              \* no answer under way; no data yet
  MaxSlips              \* bound on failed requests and expired sessions

ASSUME TabAssumption   == ManagerOf \in [Tabs -> Managers]
ASSUME SceneAssumption == Scenes \subseteq 
  [inspections : SUBSET Inspections, tabs : SUBSET Tabs, views : SUBSET Tabs]
ASSUME SlipAssumption  == MaxSlips \in Nat
ASSUME NothingAssumption == \A ids \in SUBSET Inspections : ids # Nothing

VARIABLES
  scene,
  inspection,  \* "absent", "recent", or "aged" out of the feed
  dismissed,   \* notification_dismissals
  tab,         \* "closed", "open" or "expired"
  poll,        \* the answer of the poll under way
  stray,       \* the answer of a poll whose result will be dropped
  seen,        \* seenIdsRef
  bell,        \* the notifications shown
  click,       \* the ids of the dismissal under way
  shown,       \* the inspections the failure queue and the fleet reflect
  refetch,     \* the answer of their refetch under way
  stale,       \* they are to be fetched again
  displayed,   \* history: what was ever in a bell of the manager
  slips

feedVars   == <<inspection, dismissed>>
pollVars   == <<poll, stray, seen, bell>>
viewVars   == <<shown, refetch, stale>>
activityVars == <<scene, feedVars, tab, pollVars, click, viewVars, displayed, slips>>

Slip == slips < MaxSlips /\ slips' = slips + 1

(* what GET /activity answers *)
Feed(m) == {i \in Inspections : inspection[i] = "recent" /\ <<m, i>> \notin dismissed}
(* what GET /defects and GET /equipment reflect; a defect does not age *)
Recorded == {i \in Inspections : inspection[i] # "absent"}

-----------------------------------------------------------------------------
(* The Core API's side *)

(* The submit commits.  Until then its row, stamped earlier, is in no answer.     *)
CommitInspection(i) ==
  /\ i \in scene.inspections /\ inspection[i] = "absent"
  /\ inspection' = [inspection EXCEPT ![i] = "recent"]
  /\ UNCHANGED <<scene, dismissed, tab, pollVars, click, viewVars, displayed, slips>>

(* ACTIVITY_RETENTION_MS *)
AgeOut(i) ==
  /\ inspection[i] = "recent"
  /\ inspection' = [inspection EXCEPT ![i] = "aged"]
  /\ UNCHANGED <<scene, dismissed, tab, pollVars, click, viewVars, displayed, slips>>

-----------------------------------------------------------------------------
(* The tab *)

(* a mounted provider remembers nothing, and its queries have no data *)
Mounted(t) ==
  /\ poll' = [poll EXCEPT ![t] = Nothing] /\ stray' = [stray EXCEPT ![t] = Nothing]
  /\ seen' = [seen EXCEPT ![t] = {}] /\ bell' = [bell EXCEPT ![t] = {}]
  /\ click' = [click EXCEPT ![t] = {}]
  /\ shown' = [shown EXCEPT ![t] = Nothing] /\ refetch' = [refetch EXCEPT ![t] = Nothing]
  /\ stale' = [stale EXCEPT ![t] = TRUE]

OpenDashboard(t) ==
  /\ t \in scene.tabs /\ tab[t] = "closed"
  /\ tab' = [tab EXCEPT ![t] = "open"]
  /\ Mounted(t)
  /\ UNCHANGED <<scene, feedVars, displayed, slips>>

(* A poll finds that the session needs the user: polling stops, and the bell       *)
(* shows nothing rather than what it knew.                                      *)
SessionExpires(t) ==
  /\ tab[t] = "open" /\ poll[t] = Nothing
  /\ Slip
  /\ tab' = [tab EXCEPT ![t] = "expired"]
  /\ bell' = [bell EXCEPT ![t] = {}]
  /\ UNCHANGED <<scene, feedVars, poll, stray, seen, click, viewVars, displayed>>

(* The next request that may interact, a click or the timed refetch of a view,      *)
(* goes through the sign-in page and back.                                       *)
SignInAgain(t) ==
  /\ tab[t] = "expired"
  /\ tab' = [tab EXCEPT ![t] = "open"]
  /\ Mounted(t)
  /\ UNCHANGED <<scene, feedVars, displayed, slips>>

-----------------------------------------------------------------------------
(* The poll: queryFn of the feed *)

PollReads(t) ==
  /\ tab[t] = "open" /\ poll[t] = Nothing
  /\ poll' = [poll EXCEPT ![t] = Feed(ManagerOf[t])]
  /\ UNCHANGED <<scene, feedVars, tab, stray, seen, bell, click, viewVars, displayed, slips>>

(* invalidateQueries: a refetch under way is dropped and started over, but a first *)
(* fetch, with no data to fall back on, is left to finish.                        *)
Invalidate(t) ==
  /\ refetch' = [refetch EXCEPT ![t] = IF shown[t] = Nothing THEN @ ELSE Nothing]
  /\ stale' = [stale EXCEPT ![t] = shown[t] # Nothing \/ refetch[t] = Nothing]
  /\ UNCHANGED shown

(* what is new is remembered, and the views react, in one step *)
React(t, answer) ==
  /\ seen' = [seen EXCEPT ![t] = @ \cup answer]
  /\ IF answer \subseteq seen[t] THEN UNCHANGED viewVars ELSE Invalidate(t)

PollArrives(t) ==
  /\ tab[t] = "open" /\ poll[t] # Nothing
  /\ React(t, poll[t])
  /\ bell' = [bell EXCEPT ![t] = poll[t]]
  /\ displayed' = displayed \cup ({ManagerOf[t]} \X poll[t])
  /\ poll' = [poll EXCEPT ![t] = Nothing]
  /\ UNCHANGED <<scene, feedVars, tab, stray, click, slips>>

(* The fetch of a poll that was cancelled runs on: only its result is dropped.     *)
StrayArrives(t) ==
  /\ tab[t] = "open" /\ stray[t] # Nothing
  /\ React(t, stray[t])
  /\ stray' = [stray EXCEPT ![t] = Nothing]
  /\ UNCHANGED <<scene, feedVars, tab, poll, bell, click, displayed, slips>>

PollFails(t) ==
  /\ tab[t] = "open" /\ poll[t] # Nothing
  /\ Slip
  /\ poll' = [poll EXCEPT ![t] = Nothing]
  /\ UNCHANGED <<scene, feedVars, tab, stray, seen, bell, click, viewVars, displayed>>

-----------------------------------------------------------------------------
(* The bell: one notification is dismissed, or all that are on the screen *)

Offered(t) == {{i} : i \in bell[t]} \cup {bell[t]}

Dismiss(t, ids) ==
  /\ tab[t] = "open" /\ click[t] = {} /\ ids # {} /\ ids \in Offered(t)
  /\ click' = [click EXCEPT ![t] = ids]
  /\ UNCHANGED <<scene, feedVars, tab, pollVars, viewVars, displayed, slips>>

(* faulty: the server clears its whole feed *)
AllPairs(t) == IF click[t] = {} THEN {} ELSE {ManagerOf[t]} \X Feed(ManagerOf[t])

Pairs(t) == {ManagerOf[t]} \X click[t]

(* onConflictDoNothing: from two tabs, or twice *)
DismissLands(t) ==
  /\ ~ Pairs(t) \subseteq dismissed
  /\ dismissed' = dismissed \cup Pairs(t)
  /\ UNCHANGED <<scene, inspection, tab, pollVars, click, viewVars, displayed, slips>>

(* onSettled: answered or failed, the feed is read again *)
DismissSettles(t) ==
  /\ click[t] # {} /\ stray[t] = Nothing
  /\ IF Pairs(t) \subseteq dismissed THEN UNCHANGED slips ELSE Slip
  /\ click' = [click EXCEPT ![t] = {}]
  /\ stray' = [stray EXCEPT ![t] = poll[t]]
  /\ poll' = [poll EXCEPT ![t] = Nothing]
  /\ UNCHANGED <<scene, feedVars, tab, seen, bell, viewVars, displayed>>

-----------------------------------------------------------------------------
(* The views: useDefects and useEquipment *)

ViewReads(t) ==
  /\ tab[t] = "open" /\ t \in scene.views /\ stale[t] /\ refetch[t] = Nothing
  /\ refetch' = [refetch EXCEPT ![t] = Recorded]
  /\ stale' = [stale EXCEPT ![t] = FALSE]
  /\ UNCHANGED <<scene, feedVars, tab, pollVars, click, shown, displayed, slips>>

ViewArrives(t) ==
  /\ tab[t] = "open" /\ refetch[t] # Nothing
  /\ shown' = [shown EXCEPT ![t] = refetch[t]]
  /\ refetch' = [refetch EXCEPT ![t] = Nothing]
  /\ UNCHANGED <<scene, feedVars, tab, pollVars, click, stale, displayed, slips>>

(* The retry fails too.  The queue says that it is unavailable, not that it is     *)
(* empty, and what the feed brought is not new a second time.                     *)
ViewFails(t) ==
  /\ tab[t] = "open" /\ refetch[t] # Nothing
  /\ Slip
  /\ refetch' = [refetch EXCEPT ![t] = Nothing]
  /\ UNCHANGED <<scene, feedVars, tab, pollVars, click, shown, stale, displayed>>

(* faulty: the views rely on the feed alone *)
NoSafetyPoll(t) == FALSE /\ UNCHANGED activityVars

(* CROSS_SESSION_SAFETY_POLL_INTERVAL_MS *)
SafetyPoll(t) ==
  /\ tab[t] = "open" /\ ~stale[t] /\ refetch[t] = Nothing
  /\ stale' = [stale EXCEPT ![t] = TRUE]
  /\ UNCHANGED <<scene, feedVars, tab, pollVars, click, shown, refetch, displayed, slips>>

-----------------------------------------------------------------------------
ActivityInit ==
  /\ scene \in Scenes
  /\ inspection = [i \in Inspections |-> "absent"] /\ dismissed = {}
  /\ tab = [t \in Tabs |-> "closed"]
  /\ poll = [t \in Tabs |-> Nothing] /\ stray = [t \in Tabs |-> Nothing]
  /\ seen = [t \in Tabs |-> {}] /\ bell = [t \in Tabs |-> {}] /\ click = [t \in Tabs |-> {}]
  /\ shown = [t \in Tabs |-> Nothing] /\ refetch = [t \in Tabs |-> Nothing]
  /\ stale = [t \in Tabs |-> FALSE]
  /\ displayed = {} /\ slips = 0

ActivityNext ==
  \/ \E i \in Inspections : CommitInspection(i) \/ AgeOut(i)
  \/ \E t \in Tabs :
       \/ OpenDashboard(t) \/ SessionExpires(t) \/ SignInAgain(t)
       \/ PollReads(t) \/ PollArrives(t) \/ StrayArrives(t) \/ PollFails(t)
       \/ \E ids \in SUBSET Inspections : Dismiss(t, ids)
       \/ DismissLands(t) \/ DismissSettles(t)
       \/ ViewReads(t) \/ ViewArrives(t) \/ ViewFails(t) \/ SafetyPoll(t)

(* The timers of an open tab fire and its requests are answered; clicks do not      *)
(* for ever cancel a poll before its answer comes.                              *)
ActivityFairness ==
  \A t \in Tabs :
    /\ WF_activityVars(PollReads(t)) /\ SF_activityVars(PollArrives(t))
    /\ WF_activityVars(ViewReads(t) \/ ViewArrives(t)) /\ WF_activityVars(SafetyPoll(t))

ActivitySpec == ActivityInit /\ [][ActivityNext]_activityVars
FairActivitySpec == ActivitySpec /\ ActivityFairness

-----------------------------------------------------------------------------
ActivityTypeOK ==
  /\ scene \in Scenes
  /\ inspection \in [Inspections -> {"absent", "recent", "aged"}]
  /\ dismissed \subseteq Managers \X Inspections
  /\ tab \in [Tabs -> {"closed", "open", "expired"}]
  /\ poll \in [Tabs -> (SUBSET Inspections) \cup {Nothing}]
  /\ stray \in [Tabs -> (SUBSET Inspections) \cup {Nothing}]
  /\ seen \in [Tabs -> SUBSET Inspections] /\ bell \in [Tabs -> SUBSET Inspections]
  /\ click \in [Tabs -> SUBSET Inspections]
  /\ shown \in [Tabs -> (SUBSET Inspections) \cup {Nothing}]
  /\ refetch \in [Tabs -> (SUBSET Inspections) \cup {Nothing}]
  /\ stale \in [Tabs -> BOOLEAN]
  /\ displayed \subseteq Managers \X Inspections
  /\ slips \in 0 .. MaxSlips

(* A manager never loses a notification they were not shown: a dismissal covers    *)
(* what was on their own screen when they clicked, not what landed meanwhile, nor  *)
(* what another manager cleared (notification-bell.tsx:88-90).                    *)
DismissedWasDisplayed == dismissed \subseteq displayed

CaughtUp(t) ==
  \A i \in Recorded :
    /\ i \in bell[t] \/ <<ManagerOf[t], i>> \in dismissed \/ inspection[i] = "aged"
    /\ t \in scene.views => shown[t] # Nothing /\ i \in shown[t]

(* Whatever overlaps or fails once, an open dashboard catches up time and again:    *)
(* each inspection reaches the bell, until it is dismissed or a day old, and the    *)
(* failure queue and the fleet, even when the refetch that the feed asked for was   *)
(* lost (feed.ts:16-21, polling.ts:10-16).                                       *)
EveryInspectionIsShown == \A t \in Tabs : []<>(tab[t] = "open" => CaughtUp(t))
=============================================================================
