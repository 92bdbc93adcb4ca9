----------------------------- MODULE DashboardProofs -----------------------------
(***************************************************************************)
(* What the dashboard tells of the machines is so, for any number of        *)
(* machines, inspections, defects, screens and requests: the answers of the *)
(* Core API about READY, what the failure queue knows of a defect, and how  *)
(* a failure becomes known.                                                 *)
(***************************************************************************)
EXTENDS Activity, Alerts, Desk, Readiness, SequenceTheorems, FiniteSetTheorems, TLAPS

(***************************************************************************)
(* How a failure becomes known, for any number of inspections, dashboards,  *)
(* managers, retries and delays: no notification is dismissed that was not  *)
(* on a screen of its manager (ADR 0026), and the alerts of a blocking      *)
(* failure are bounded (ADR 0013).                                          *)
(***************************************************************************)
(* What a manager can dismiss, and what was dismissed, was in a bell of theirs.     *)
WasDisplayed(t, ids) == \A i \in ids : <<ManagerOf[t], i>> \in displayed

ScreensHold ==
  /\ \A t \in Tabs : WasDisplayed(t, bell[t]) /\ WasDisplayed(t, click[t])
  /\ DismissedWasDisplayed

ActivityInvariant == ActivityTypeOK /\ ScreensHold

LEMMA ActivityInitially == ActivityInit => ActivityInvariant
<1> SUFFICES ASSUME ActivityInit PROVE ActivityInvariant
  OBVIOUS
<1> USE SlipAssumption DEF ActivityInit
<1>1. ActivityTypeOK
  BY DEF ActivityTypeOK
<1>2. ScreensHold
  BY DEF ScreensHold, WasDisplayed, DismissedWasDisplayed
<1> QED
  BY <1>1, <1>2 DEF ActivityInvariant

(* A step that displays and dismisses nothing, and adds to no bell. *)
LEMMA NothingNew ==
  ASSUME ScreensHold, dismissed' = dismissed, displayed' = displayed,
         \A u \in Tabs : bell'[u] \subseteq bell[u] /\ click'[u] \subseteq click[u]
  PROVE  ScreensHold'
  BY DEF ScreensHold, WasDisplayed, DismissedWasDisplayed

(* The server's steps touch nothing that a screen remembers. *)
LEMMA FeedStep ==
  ASSUME ActivityInvariant, NEW i \in Inspections, CommitInspection(i) \/ AgeOut(i)
  PROVE  ActivityInvariant'
<1> USE DEF ActivityInvariant
<1>1. inspection' \in [Inspections -> {"absent", "recent", "aged"}]
  BY DEF ActivityTypeOK, CommitInspection, AgeOut
<1>2. UNCHANGED <<scene, dismissed, tab, poll, stray, seen, bell, click, shown, refetch,
                  stale, displayed, slips>>
  BY DEF CommitInspection, AgeOut, pollVars, viewVars
<1>3. ActivityTypeOK'
  BY <1>1, <1>2 DEF ActivityTypeOK
<1> QED
  BY <1>2, <1>3, NothingNew

(* A provider that is mounted starts with an empty bell. *)
LEMMA MountStep ==
  ASSUME ActivityInvariant, NEW t \in Tabs, OpenDashboard(t) \/ SignInAgain(t)
  PROVE  ActivityInvariant'
<1> USE DEF ActivityInvariant
<1>1. /\ Mounted(t) /\ tab' = [tab EXCEPT ![t] = "open"]
      /\ UNCHANGED <<scene, inspection, dismissed, displayed, slips>>
  BY DEF OpenDashboard, SignInAgain, feedVars
<1>2. ActivityTypeOK'
  BY <1>1 DEF ActivityTypeOK, Mounted
<1>3. \A u \in Tabs : bell'[u] \in {bell[u], {}} /\ click'[u] \in {click[u], {}}
  BY <1>1 DEF ActivityTypeOK, Mounted
<1> QED
  BY <1>1, <1>2, <1>3, NothingNew

(* An expired session empties the bell; a read and a failure leave it. *)
LEMMA QuietPollStep ==
  ASSUME ActivityInvariant, NEW t \in Tabs,
         SessionExpires(t) \/ PollReads(t) \/ PollFails(t)
  PROVE  ActivityInvariant'
<1> USE DEF ActivityInvariant
<1>1. /\ slips' \in 0 .. MaxSlips
      /\ UNCHANGED <<scene, inspection, dismissed, stray, seen, click, shown, refetch, stale,
                     displayed>>
  BY SlipAssumption DEF ActivityTypeOK, SessionExpires, PollReads, PollFails, Slip, feedVars, viewVars
<1>2. tab' \in [Tabs -> {"closed", "open", "expired"}]
  BY DEF ActivityTypeOK, SessionExpires, PollReads, PollFails
<1>3. poll' \in [Tabs -> (SUBSET Inspections) \cup {Nothing}]
  <2>1. Feed(ManagerOf[t]) \in SUBSET Inspections
    BY DEF Feed
  <2>2. poll' \in {poll, [poll EXCEPT ![t] = Feed(ManagerOf[t])], [poll EXCEPT ![t] = Nothing]}
    BY DEF SessionExpires, PollReads, PollFails
  <2> QED
    BY <2>1, <2>2 DEF ActivityTypeOK
<1>4. bell' \in [Tabs -> SUBSET Inspections] /\ \A u \in Tabs : bell'[u] \in {bell[u], {}}
  BY DEF ActivityTypeOK, SessionExpires, PollReads, PollFails
<1>5. ActivityTypeOK'
  BY <1>1, <1>2, <1>3, <1>4 DEF ActivityTypeOK
<1> QED
  BY <1>1, <1>4, <1>5, NothingNew

(* What the provider remembers, and how its views react, keeps their types. *)
LEMMA ReactType ==
  ASSUME ActivityTypeOK, NEW t \in Tabs, NEW answer \in SUBSET Inspections, React(t, answer)
  PROVE  /\ seen' \in [Tabs -> SUBSET Inspections]
         /\ shown' \in [Tabs -> (SUBSET Inspections) \cup {Nothing}]
         /\ refetch' \in [Tabs -> (SUBSET Inspections) \cup {Nothing}]
         /\ stale' \in [Tabs -> BOOLEAN]
<1>1. seen' \in [Tabs -> SUBSET Inspections]
  BY DEF ActivityTypeOK, React
<1>2. CASE UNCHANGED viewVars
  BY <1>1, <1>2 DEF ActivityTypeOK, viewVars
<1>3. CASE Invalidate(t)
  <2>1. UNCHANGED shown
    BY <1>3 DEF Invalidate
  <2>2. refetch' \in [Tabs -> (SUBSET Inspections) \cup {Nothing}]
    BY <1>3 DEF ActivityTypeOK, Invalidate
  <2>3. (shown[t] # Nothing \/ refetch[t] = Nothing) \in BOOLEAN
    OBVIOUS
  <2>4. stale' \in [Tabs -> BOOLEAN]
    BY <1>3, <2>3, ZenonT(20) DEF ActivityTypeOK, Invalidate
  <2> QED
    BY <1>1, <2>1, <2>2, <2>4 DEF ActivityTypeOK
<1> QED
  BY <1>2, <1>3 DEF React

(* What comes into the bell has been displayed. *)
LEMMA ArrivalStep ==
  ASSUME ActivityInvariant, NEW t \in Tabs, PollArrives(t)
  PROVE  ActivityInvariant'
<1> USE DEF ActivityInvariant
<1>1. poll[t] \in SUBSET Inspections
  BY DEF ActivityTypeOK, PollArrives
<1>2. React(t, poll[t]) /\ UNCHANGED <<scene, inspection, dismissed, tab, stray, click, slips>>
  BY DEF PollArrives, feedVars
<1>3. bell' = [bell EXCEPT ![t] = poll[t]] /\ poll' = [poll EXCEPT ![t] = Nothing]
  BY DEF PollArrives
<1>4. displayed' = displayed \cup ({ManagerOf[t]} \X poll[t])
  BY DEF PollArrives
<1>5. displayed' \subseteq Managers \X Inspections
  BY <1>1, <1>4, TabAssumption DEF ActivityTypeOK
<1>6. ActivityTypeOK'
  BY <1>1, <1>2, <1>3, <1>5, ReactType DEF ActivityTypeOK
<1>7. displayed \subseteq displayed'
  BY <1>4
<1>8. ASSUME NEW u \in Tabs
      PROVE  WasDisplayed(u, bell[u])' /\ WasDisplayed(u, click[u])'
  <2>1. bell'[u] \in {bell[u], poll[t]} /\ (u # t => bell'[u] = bell[u]) /\ click'[u] = click[u]
    BY <1>2, <1>3 DEF ActivityTypeOK
  <2>2. WasDisplayed(u, click[u])' /\ \A i \in bell[u] : <<ManagerOf[u], i>> \in displayed'
    BY <1>7, <2>1 DEF ScreensHold, WasDisplayed
  <2>3. CASE u = t
    BY <1>3, <1>4, <2>2, <2>3 DEF ActivityTypeOK, WasDisplayed
  <2>4. CASE u # t
    BY <2>1, <2>2, <2>4 DEF WasDisplayed
  <2> QED
    BY <2>3, <2>4
<1> QED
  BY <1>2, <1>6, <1>7, <1>8 DEF ScreensHold, DismissedWasDisplayed

LEMMA StrayStep ==
  ASSUME ActivityInvariant, NEW t \in Tabs, StrayArrives(t)
  PROVE  ActivityInvariant'
<1> USE DEF ActivityInvariant
<1>1. stray[t] \in SUBSET Inspections
  BY DEF ActivityTypeOK, StrayArrives
<1>2. /\ React(t, stray[t]) /\ stray' = [stray EXCEPT ![t] = Nothing]
      /\ UNCHANGED <<scene, inspection, dismissed, tab, poll, bell, click, displayed, slips>>
  BY DEF StrayArrives, feedVars
<1>3. ActivityTypeOK'
  BY <1>1, <1>2, ReactType DEF ActivityTypeOK
<1> QED
  BY <1>2, <1>3, NothingNew

(* One can only click on what the bell shows, *)
LEMMA ClickStep ==
  ASSUME ActivityInvariant, NEW t \in Tabs, NEW ids \in SUBSET Inspections, Dismiss(t, ids)
  PROVE  ActivityInvariant'
<1> USE DEF ActivityInvariant
<1>1. /\ click' = [click EXCEPT ![t] = ids]
      /\ UNCHANGED <<scene, inspection, dismissed, tab, poll, stray, seen, bell, shown, refetch,
                     stale, displayed, slips>>
  BY DEF Dismiss, feedVars, pollVars, viewVars
<1>2. ids \subseteq bell[t]
  BY DEF Dismiss, Offered
<1>3. WasDisplayed(t, ids)
  BY <1>2 DEF ScreensHold, WasDisplayed
<1>4. ActivityTypeOK'
  BY <1>1 DEF ActivityTypeOK
<1>5. \A u \in Tabs : click'[u] = IF u = t THEN ids ELSE click[u]
  BY <1>1 DEF ActivityTypeOK
<1> QED
  BY <1>1, <1>3, <1>4, <1>5 DEF ScreensHold, WasDisplayed, DismissedWasDisplayed

(* and the server stores only what was clicked. *)
LEMMA DismissalStep ==
  ASSUME ActivityInvariant, NEW t \in Tabs, DismissLands(t) \/ DismissSettles(t)
  PROVE  ActivityInvariant'
<1> USE DEF ActivityInvariant
<1>1. CASE DismissLands(t)
  <2>1. /\ dismissed' = dismissed \cup ({ManagerOf[t]} \X click[t])
        /\ UNCHANGED <<scene, inspection, tab, poll, stray, seen, bell, click, shown, refetch,
                       stale, displayed, slips>>
    BY <1>1 DEF DismissLands, Pairs, pollVars, viewVars
  <2>2. dismissed' \subseteq displayed
    BY <2>1 DEF ScreensHold, WasDisplayed, DismissedWasDisplayed
  <2>3. ActivityTypeOK'
    BY <2>1, <2>2 DEF ActivityTypeOK
  <2> QED
    BY <2>1, <2>2, <2>3 DEF ScreensHold, WasDisplayed, DismissedWasDisplayed
<1>2. CASE DismissSettles(t)
  <2>1. /\ click' = [click EXCEPT ![t] = {}] /\ stray' = [stray EXCEPT ![t] = poll[t]]
        /\ poll' = [poll EXCEPT ![t] = Nothing]
        /\ UNCHANGED <<scene, inspection, dismissed, tab, seen, bell, shown, refetch, stale,
                       displayed>>
    BY <1>2 DEF DismissSettles, feedVars, viewVars
  <2>2. slips' \in 0 .. MaxSlips
    BY <1>2, SlipAssumption DEF DismissSettles, Slip, ActivityTypeOK
  <2>3. ActivityTypeOK'
    BY <2>1, <2>2 DEF ActivityTypeOK
  <2>4. \A u \in Tabs : click'[u] \in {click[u], {}}
    BY <2>1 DEF ActivityTypeOK
  <2> QED
    BY <2>1, <2>3, <2>4, NothingNew
<1> QED
  BY <1>1, <1>2

LEMMA ViewStep ==
  ASSUME ActivityInvariant, NEW t \in Tabs,
         ViewReads(t) \/ ViewArrives(t) \/ ViewFails(t) \/ SafetyPoll(t)
  PROVE  ActivityInvariant'
<1> USE DEF ActivityInvariant
<1>1. /\ slips' \in 0 .. MaxSlips
      /\ UNCHANGED <<scene, inspection, dismissed, tab, poll, stray, seen, bell, click, displayed>>
  BY SlipAssumption
  DEF ActivityTypeOK, ViewReads, ViewArrives, ViewFails, SafetyPoll, Slip, feedVars, pollVars
<1>2. shown' \in [Tabs -> (SUBSET Inspections) \cup {Nothing}]
  BY DEF ActivityTypeOK, ViewReads, ViewArrives, ViewFails, SafetyPoll
<1>3. refetch' \in [Tabs -> (SUBSET Inspections) \cup {Nothing}]
  BY DEF ActivityTypeOK, ViewReads, ViewArrives, ViewFails, SafetyPoll, Recorded
<1>4. stale' \in [Tabs -> BOOLEAN]
  BY DEF ActivityTypeOK, ViewReads, ViewArrives, ViewFails, SafetyPoll
<1>5. ActivityTypeOK'
  BY <1>1, <1>2, <1>3, <1>4 DEF ActivityTypeOK
<1> QED
  BY <1>1, <1>5, NothingNew

LEMMA ActivityInductive == ActivityInvariant /\ [ActivityNext]_activityVars => ActivityInvariant'
<1> SUFFICES ASSUME ActivityInvariant, [ActivityNext]_activityVars PROVE ActivityInvariant'
  OBVIOUS
<1>1. CASE UNCHANGED activityVars
  BY <1>1, NothingNew
  DEF activityVars, feedVars, pollVars, viewVars, ActivityInvariant, ActivityTypeOK
<1>2. CASE ActivityNext
  BY <1>2, FeedStep, MountStep, QuietPollStep, ArrivalStep, StrayStep, ClickStep, DismissalStep,
     ViewStep DEF ActivityNext
<1> QED
  BY <1>1, <1>2

(* No manager loses a notification they were not shown, whatever tabs they have open *)
(* and however polls, clicks and other managers overlap                             *)
(* (notification-bell.tsx:88-90).                                                  *)
THEOREM NothingDismissedUnseen == ActivitySpec => []DismissedWasDisplayed
<1>1. ActivityInvariant => DismissedWasDisplayed
  BY DEF ActivityInvariant, ScreensHold
<1> QED
  BY <1>1, ActivityInitially, ActivityInductive, PTL DEF ActivitySpec

-----------------------------------------------------------------------------
(* The alerts.  Each attempt takes no more than its time-out and the wait after it. *)
Attempt == WebhookTimeout + LongestDelay

PhasesHold ==
  \A c \in Channels :
    /\ alert[c] = "none" <=> dispatches[c] = 0
    /\ alert[c] \in {"none", "preparing", "addressed"} => attempts[c] = 0 /\ taken[c] = 0
    /\ alert[c] = "sending" => attempts[c] <= Len(Delays)
    /\ alert[c] = "waiting" => attempts[c] \in Retries
    /\ attempts[c] <= Len(Delays) + 1

CountsHold ==
  /\ \A c \in Channels : taken[c] <= unheard[c] + (IF alert[c] = "sent" THEN 1 ELSE 0)
  /\ \A c \in Channels : dispatches[c] <= 1
  /\ \A c \in Channels : dispatches[c] > 0 => result = "FAIL_BLOCKING"

TimeHolds ==
  /\ spent <= attempts["teams"] * Attempt
  /\ alert["teams"] = "waiting" => spent + LongestDelay <= attempts["teams"] * Attempt

AlertInvariant == AlertTypeOK /\ PhasesHold /\ CountsHold /\ TimeHolds

LEMMA Instance ==
  /\ Len(Delays) \in Nat /\ Retries = 1 .. Len(Delays)
  /\ \A n \in Retries : Delays[n] \in 0 .. LongestDelay
  /\ "teams" \in Channels /\ "email" \in Channels
<1>1. Len(Delays) \in Nat /\ Retries = 1 .. Len(Delays)
  BY DelayAssumption, LenProperties DEF Retries
<1>2. \A n \in Retries : Delays[n] \in 0 .. LongestDelay
  BY <1>1, DelayAssumption, ElementOfSeq
<1> QED
  BY <1>1, <1>2, ChannelAssumption

LEMMA AttemptsInTime ==
  ASSUME NEW n \in Nat
  PROVE  /\ Attempt \in Nat /\ n * Attempt \in Nat
         /\ (n + 1) * Attempt = n * Attempt + Attempt
         /\ n <= Len(Delays) + 1 => n * Attempt <= (Len(Delays) + 1) * Attempt
<1>1. Attempt \in Nat
  BY DelayAssumption, TimeAssumption DEF Attempt
<1>2. \A k \in Nat : n * k \in Nat /\ (n + 1) * k = n * k + k
  OBVIOUS
<1>3. \A k, m \in Nat : n <= m => n * k <= m * k
  OBVIOUS
<1>4. Len(Delays) + 1 \in Nat
  BY Instance
<1> QED
  BY <1>1, <1>2, <1>3, <1>4

LEMMA AlertsInitially == AlertInit => AlertInvariant
<1> SUFFICES ASSUME AlertInit PROVE AlertInvariant
  OBVIOUS
<1> USE Instance, TimeAssumption DEF AlertInit
<1>1. AlertTypeOK
  BY DEF AlertTypeOK, Phases
<1>2. PhasesHold /\ CountsHold
  BY DEF PhasesHold, CountsHold
<1>3. TimeHolds
  BY AttemptsInTime DEF TimeHolds
<1> QED
  BY <1>1, <1>2, <1>3 DEF AlertInvariant

(* The dispatch starts alerts that were never started. *)
LEMMA DispatchStep ==
  ASSUME AlertInvariant, NEW r \in {"PASS", "FAIL_WARNING", "FAIL_BLOCKING"},
         CommitAndDispatch(r)
  PROVE  AlertInvariant'
<1> USE Instance DEF AlertInvariant
<1>1. /\ result' = r /\ UNCHANGED <<configured, attempts, taken, unheard, spent, replays>>
      /\ result = "none"
  BY DEF CommitAndDispatch
<1>2. \A c \in Channels : dispatches[c] = 0
  BY <1>1 DEF AlertTypeOK, CountsHold
<1>3. \A c \in Channels : attempts[c] = 0 /\ taken[c] = 0 /\ alert[c] = "none"
  BY <1>2 DEF PhasesHold
<1>4. CASE r = "FAIL_BLOCKING"
  <2>1. \A c \in Channels : alert'[c] = "preparing" /\ dispatches'[c] = 1
    BY <1>4, <1>2 DEF CommitAndDispatch, AlertTypeOK
  <2>2. AlertTypeOK'
    BY <1>1, <1>4 DEF CommitAndDispatch, AlertTypeOK, Phases
  <2> QED
    BY <1>1, <1>4, <1>3, <2>1, <2>2 DEF AlertTypeOK, PhasesHold, CountsHold, TimeHolds
<1>5. CASE r # "FAIL_BLOCKING"
  <2>1. UNCHANGED <<alert, dispatches>>
    BY <1>5 DEF CommitAndDispatch
  <2> QED
    BY <1>1, <1>2, <2>1 DEF AlertTypeOK, PhasesHold, CountsHold, TimeHolds
<1> QED
  BY <1>4, <1>5

(* A change of phase that tries and spends nothing. *)
LEMMA PhaseStep ==
  ASSUME AlertInvariant, NEW c \in Channels, NEW from, NEW to \in Phases, Becomes(c, from, to),
         UNCHANGED <<result, configured, attempts, taken, unheard, dispatches, replays, spent>>,
         from \in {"preparing", "addressed"}, to \in {"addressed", "sending", "dropped"}
  PROVE  AlertInvariant'
<1> USE Instance DEF AlertInvariant
<1>1. alert' \in [Channels -> Phases] /\ \A d \in Channels : alert'[d] = IF d = c THEN to ELSE alert[d]
  BY DEF Becomes, AlertTypeOK
<1>2. alert[c] = from /\ attempts' = attempts
  BY DEF Becomes
<1>3. AlertTypeOK'
  <2>1. replays' \in 0 .. MaxReplays /\ spent' \in Nat
    BY DEF AlertTypeOK
  <2> QED
    BY <1>1, <2>1 DEF AlertTypeOK
<1>4. attempts[c] = 0 /\ dispatches[c] # 0
  BY <1>2 DEF PhasesHold
<1>5. UNCHANGED <<attempts, taken, dispatches>>
  OBVIOUS
<1>6. PhasesHold'
  <2> SUFFICES ASSUME NEW d \in Channels
               PROVE  /\ (alert[d] = "none" <=> dispatches[d] = 0)'
                      /\ (alert[d] \in {"none", "preparing", "addressed"}
                             => attempts[d] = 0 /\ taken[d] = 0)'
                      /\ (alert[d] = "sending" => attempts[d] <= Len(Delays))'
                      /\ (alert[d] = "waiting" => attempts[d] \in Retries)'
                      /\ (attempts[d] <= Len(Delays) + 1)'
    BY DEF PhasesHold
  <2>1. CASE d # c
    BY <1>1, <1>5, <2>1 DEF PhasesHold
  <2>2. CASE d = c
    BY <1>1, <1>2, <1>4, <1>5, <2>2 DEF PhasesHold
  <2> QED
    BY <2>1, <2>2
<1>7. CountsHold'
  BY <1>1, <1>2 DEF CountsHold
<1>8. TimeHolds'
  BY <1>1, <1>2 DEF TimeHolds
<1> QED
  BY <1>3, <1>6, <1>7, <1>8

LEMMA TryStep ==
  ASSUME AlertInvariant, AttemptEmail \/ AttemptCard
  PROVE  AlertInvariant'
<1> USE Instance, TimeAssumption DEF AlertInvariant
<1>1. PICK c \in Channels :
        Try(c) /\ spent' = IF c = "teams" THEN spent + WebhookTimeout ELSE spent
  BY DEF AttemptEmail, AttemptCard
<1>2. PICK took \in BOOLEAN, heard \in BOOLEAN :
       /\ heard => took
       /\ taken' = [taken EXCEPT ![c] = IF took THEN @ + 1 ELSE @]
       /\ unheard' = [unheard EXCEPT ![c] = IF took /\ ~heard THEN @ + 1 ELSE @]
       /\ Becomes(c, "sending",
            IF heard THEN "sent" ELSE IF attempts[c] + 1 \in Retries THEN "waiting" ELSE "dropped")
  BY <1>1 DEF Try
<1>3. /\ attempts' = [attempts EXCEPT ![c] = @ + 1]
      /\ UNCHANGED <<result, configured, dispatches, replays>>
  BY <1>1 DEF Try
<1>4. AlertTypeOK'
  <2>1. alert' \in [Channels -> Phases]
    <3>1. {"sent", "waiting", "dropped"} \subseteq Phases
      BY DEF Phases
    <3> QED
      BY <1>2, <3>1 DEF AlertTypeOK, Becomes
  <2>2. attempts' \in [Channels -> Nat]
    BY <1>3 DEF AlertTypeOK
  <2>5. taken' \in [Channels -> Nat]
    BY <1>2 DEF AlertTypeOK
  <2>3. unheard' \in [Channels -> Nat]
    BY <1>2 DEF AlertTypeOK
  <2>4. spent' \in Nat
    BY <1>1 DEF AlertTypeOK
  <2> QED
    BY <1>3, <2>1, <2>2, <2>3, <2>4, <2>5 DEF AlertTypeOK
<1>5. \A d \in Channels :
        /\ d # c => /\ alert'[d] = alert[d] /\ attempts'[d] = attempts[d]
                    /\ taken'[d] = taken[d] /\ unheard'[d] = unheard[d]
        /\ d = c => /\ alert'[d] = IF heard THEN "sent"
                                   ELSE IF attempts[c] + 1 \in Retries THEN "waiting" ELSE "dropped"
                    /\ attempts'[d] = attempts[d] + 1
                    /\ taken'[d] = IF took THEN taken[d] + 1 ELSE taken[d]
                    /\ unheard'[d] = IF took /\ ~heard THEN unheard[d] + 1 ELSE unheard[d]
  BY <1>2, <1>3 DEF AlertTypeOK, Becomes
<1>6. alert[c] = "sending"
  BY <1>2 DEF Becomes
<1> HIDE DEF Retries
<1>7. UNCHANGED <<result, dispatches>>
  BY <1>3
<1>8. PhasesHold'
  <2> SUFFICES ASSUME NEW d \in Channels
               PROVE  /\ (alert[d] = "none" <=> dispatches[d] = 0)'
                      /\ (alert[d] \in {"none", "preparing", "addressed"}
                             => attempts[d] = 0 /\ taken[d] = 0)'
                      /\ (alert[d] = "sending" => attempts[d] <= Len(Delays))'
                      /\ (alert[d] = "waiting" => attempts[d] \in Retries)'
                      /\ (attempts[d] <= Len(Delays) + 1)'
    BY DEF PhasesHold
  <2>1. CASE d # c
    BY <1>5, <1>7, <2>1 DEF PhasesHold
  <2>2. CASE d = c
    <3>1. attempts[d] \in Nat /\ attempts[d] <= Len(Delays) /\ dispatches[d] # 0
      BY <1>6, <2>2 DEF AlertTypeOK, PhasesHold
    <3> QED
      BY <1>5, <1>7, <2>2, <3>1
  <2> QED
    BY <2>1, <2>2
<1>9. CountsHold'
  <2> SUFFICES ASSUME NEW d \in Channels
               PROVE  (taken[d] <= unheard[d] + (IF alert[d] = "sent" THEN 1 ELSE 0))'
    BY <1>7 DEF CountsHold
  <2>1. CASE d # c
    BY <1>5, <2>1 DEF CountsHold
  <2>2. CASE d = c
    <3>1. taken[d] \in Nat /\ unheard[d] \in Nat
      BY DEF AlertTypeOK
    <3>2. taken[d] <= unheard[d]
      <4>1. taken[d] <= unheard[d] + 0
        BY <1>6, <2>2 DEF CountsHold
      <4> QED
        BY <3>1, <4>1
    <3> QED
      BY <1>2, <1>5, <2>2, <3>1, <3>2
  <2> QED
    BY <2>1, <2>2
<1>10. TimeHolds'
  <2>1. CASE c # "teams"
    BY <1>1, <1>5, <2>1 DEF TimeHolds
  <2>2. CASE c = "teams"
    <3>1. attempts["teams"] \in Nat /\ attempts'["teams"] = attempts["teams"] + 1
      BY <1>5, <2>2 DEF AlertTypeOK
    <3>2. attempts'["teams"] * Attempt = attempts["teams"] * Attempt + Attempt
      BY <3>1, AttemptsInTime
    <3>3. attempts["teams"] * Attempt \in Nat
      BY <3>1, AttemptsInTime
    <3> QED
      BY <1>1, <2>2, <3>2, <3>3, DelayAssumption DEF AlertTypeOK, TimeHolds, Attempt
  <2> QED
    BY <2>1, <2>2
<1> QED
  BY <1>4, <1>8, <1>9, <1>10

LEMMA BackoffStep ==
  ASSUME AlertInvariant, NEW c \in Channels, Backoff(c)
  PROVE  AlertInvariant'
<1> USE Instance DEF AlertInvariant
<1>1. /\ alert[c] = "waiting" /\ alert' = [alert EXCEPT ![c] = "sending"]
      /\ spent' = IF c = "teams" THEN spent + Delays[attempts[c]] ELSE spent
      /\ UNCHANGED <<result, configured, attempts, taken, unheard, dispatches, replays>>
  BY DEF Backoff, Becomes
<1>2. attempts[c] \in Retries /\ Delays[attempts[c]] \in 0 .. LongestDelay
  BY <1>1 DEF PhasesHold
<1>3. AlertTypeOK'
  <2>1. spent' \in Nat
    <3>1. spent \in Nat
      BY DEF AlertTypeOK
    <3>2. Delays[attempts[c]] \in Nat
      BY <1>2, DelayAssumption
    <3> QED
      BY <1>1, <3>1, <3>2
  <2>2. alert' \in [Channels -> Phases]
    <3>1. "sending" \in Phases
      BY DEF Phases
    <3> QED
      BY <1>1, <3>1 DEF AlertTypeOK
  <2> QED
    BY <1>1, <2>1, <2>2 DEF AlertTypeOK
<1>4. \A d \in Channels : alert'[d] = IF d = c THEN "sending" ELSE alert[d]
  BY <1>1 DEF AlertTypeOK
<1>5. PhasesHold' /\ CountsHold'
  BY <1>1, <1>2, <1>4 DEF PhasesHold, CountsHold
<1>6. TimeHolds'
  <2>1. attempts["teams"] * Attempt \in Nat
    BY AttemptsInTime DEF AlertTypeOK
  <2>2. CASE c = "teams"
    <3>1. alert'["teams"] = "sending" /\ attempts' = attempts
      BY <1>1, <1>4, <2>2
    <3>2. spent \in Nat /\ spent + LongestDelay <= attempts["teams"] * Attempt
      BY <1>1, <2>2 DEF AlertTypeOK, TimeHolds
    <3>3. spent' <= attempts["teams"] * Attempt
      BY <1>1, <1>2, <2>1, <2>2, <3>2, DelayAssumption
    <3> QED
      BY <3>1, <3>3 DEF TimeHolds
  <2>3. CASE c # "teams"
    BY <1>1, <1>4, <2>3 DEF TimeHolds
  <2> QED
    BY <2>2, <2>3
<1> QED
  BY <1>3, <1>5, <1>6

LEMMA DeathStep ==
  ASSUME AlertInvariant, CoreApiDies
  PROVE  AlertInvariant'
<1> USE Instance DEF AlertInvariant
<1>1. \A c \in Channels : alert'[c] = IF c \in InFlight THEN "lost" ELSE alert[c]
  BY DEF CoreApiDies
<1>2. AlertTypeOK'
  BY DEF CoreApiDies, AlertTypeOK, Phases
<1>3. \A c \in InFlight : alert[c] \in {"preparing", "addressed", "sending", "waiting"}
  BY DEF InFlight
<1> QED
  BY <1>1, <1>2, <1>3 DEF CoreApiDies, PhasesHold, CountsHold, TimeHolds

LEMMA AlertsInductive == AlertInvariant /\ [AlertNext]_alertVars => AlertInvariant'
<1> SUFFICES ASSUME AlertInvariant, [AlertNext]_alertVars PROVE AlertInvariant'
  OBVIOUS
<1>1. CASE UNCHANGED alertVars
  BY <1>1 DEF alertVars, AlertInvariant, AlertTypeOK, PhasesHold, CountsHold, TimeHolds
<1>2. CASE ReplaySubmit
  BY <1>2, TimeAssumption
  DEF ReplaySubmit, AlertInvariant, AlertTypeOK, PhasesHold, CountsHold, TimeHolds
<1>3. CASE LookUpOperator
  BY <1>3, PhaseStep, Instance DEF LookUpOperator, Phases
<1>4. CASE PrepareEmail
  BY <1>4, PhaseStep, Instance DEF PrepareEmail, Phases
<1>5. CASE PrepareCard
  BY <1>5, PhaseStep, Instance DEF PrepareCard, Phases
<1> QED
  BY <1>1, <1>2, <1>3, <1>4, <1>5, DispatchStep, TryStep, BackoffStep, DeathStep DEF AlertNext

(* A blocking failure is announced at most once for each lost answer and one, other  *)
(* results not at all; no relay is tried oftener than once and its retries; and the  *)
(* card keeps to the budget, for any schedule of retries that leaves it room         *)
(* (submit.ts:387-392, notify-failed-inspection.ts:39-41, teams-webhook.ts:21-24).   *)
THEOREM AlertsStayBounded == AlertSpec => []AlertsBounded
<1>1. AlertInvariant => AlertsBounded
  <2> SUFFICES ASSUME AlertInvariant PROVE AlertsBounded
    OBVIOUS
  <2> USE Instance DEF AlertInvariant
  <2>1. \A c \in Channels : taken[c] > 0 => result = "FAIL_BLOCKING"
    BY DEF AlertTypeOK, PhasesHold, CountsHold
  <2>2. spent <= (Len(Delays) + 1) * Attempt
    <3>1. attempts["teams"] \in Nat /\ attempts["teams"] <= Len(Delays) + 1
      BY DEF AlertTypeOK, PhasesHold
    <3>2. (Len(Delays) + 1) * Attempt \in Nat
      BY AttemptsInTime
    <3>3. /\ attempts["teams"] * Attempt \in Nat
          /\ attempts["teams"] * Attempt <= (Len(Delays) + 1) * Attempt
      BY <3>1, AttemptsInTime
    <3>4. spent \in Nat /\ spent <= attempts["teams"] * Attempt
      BY DEF AlertTypeOK, TimeHolds
    <3> QED
      BY <3>2, <3>3, <3>4
  <2>3. (Len(Delays) + 1) * Attempt \in Nat
    BY AttemptsInTime
  <2>4. spent <= AlertBudget
    BY <2>2, <2>3, RoomAssumption, TimeAssumption DEF AlertTypeOK, Attempt
  <2> QED
    BY <2>1, <2>4 DEF AlertsBounded, CountsHold, PhasesHold
<1> QED
  BY <1>1, AlertsInitially, AlertsInductive, PTL DEF AlertSpec

-----------------------------------------------------------------------------
(***************************************************************************)
(* Desk.  A status is reached once; who wrote it is the one who is told.     *)
(***************************************************************************)

(* The statuses from which a step has still to be taken *)
Before == [ACKNOWLEDGED |-> {"OPEN"}, IN_REPAIR |-> {"OPEN", "ACKNOWLEDGED"},
           RESOLVED |-> {"OPEN", "ACKNOWLEDGED", "IN_REPAIR"}]

DeskCalls ==
  [desk : Desks, step : Steps, defect : Faults, saw : FaultStatus \cup {"none"},
   at : {"sent", "loaded", "done", "refused", "read"}]

DeskTyped ==
  /\ floor \in Floors
  /\ fault \in [Faults -> FaultRow]
  /\ calls \subseteq DeskCalls
  /\ told \subseteq [desk : Desks, defect : Faults, step : Steps]

(* What was done: by whom it was told, and what is yet to be told *)
SameStep(s, t) ==
  /\ s.step = t.step
  /\ IF s.step = "APPROVED" THEN EquipmentOf[s.defect] = EquipmentOf[t.defect]
     ELSE s.defect = t.defect

Taken(s) ==
  IF s.step = "APPROVED" THEN EquipmentOf[s.defect] \notin lockedOut
  ELSE fault[s.defect].status \notin Before[s.step]

StepsTaken ==
  /\ \A s \in told : Taken(s)
  /\ \A c \in calls : c.at = "done" => Taken(c)
  /\ \A c \in calls : c.at = "loaded" => c.step # "APPROVED" /\ c.saw \in FaultStatus
                                         /\ c.step \in Transitions[c.saw]
  /\ \A s, t \in told : SameStep(s, t) => s = t
  /\ \A c \in calls, t \in told : c.at = "done" => ~SameStep(c, t)
  /\ \A c, d \in calls : c.at = "done" /\ d.at = "done" /\ SameStep(c, d) => c = d

(* A machine that was returned has no blocking defect left that is neither rejected *)
(* nor resolved and approved.                                                      *)
MachinesHold ==
  \A d \in Present : Blocking(d) /\ EquipmentOf[d] \notin lockedOut =>
    \/ fault[d].status = "REJECTED"
    \/ fault[d].status = "RESOLVED" /\ fault[d].approved

DeskInvariant == DeskTyped /\ StepsTaken /\ MachinesHold

LEMMA DeskStarts == DeskInit => DeskInvariant
<1> SUFFICES ASSUME DeskInit
             PROVE  DeskInvariant
  OBVIOUS
<1>1. DeskTyped
  BY FloorAssumption DEF DeskInit, DeskTyped, FaultRow
<1>2. StepsTaken
  BY DEF DeskInit, StepsTaken
<1>3. MachinesHold
  BY DEF DeskInit, MachinesHold, BlockingRows, Machines, Present
<1> QED
  BY <1>1, <1>2, <1>3 DEF DeskInvariant

(* Naturals have a least element, and so does a list that is sorted by them. *)
LEMMA LeastRank ==
  ASSUME NEW S \in SUBSET Faults, S # {}
  PROVE  \E d \in S : \A e \in S : Rank[d] <= Rank[e]
<1> DEFINE R == OpToRel(<, Nat)
           T == {Rank[d] : d \in S}
<1>1. \A d \in Faults : Rank[d] \in Nat
  BY DefectAssumption
<1>2. T \subseteq Nat /\ T # {}
  BY <1>1
<1>3. PICK x \in T : \A y \in T : ~(<<y, x>> \in R)
  <2> HIDE DEF R, T
  <2>1. IsWellFoundedOn(R, Nat)
    BY NatLessThanWellFounded DEF R
  <2> QED
    BY <1>2, <2>1, WFMin
<1>4. \A y \in T : ~(y < x)
  BY <1>2, <1>3 DEF OpToRel
<1>5. PICK d \in S : x = Rank[d]
  BY DEF T
<1>6. ASSUME NEW e \in S
      PROVE  Rank[d] <= Rank[e]
  <2>1. Rank[d] \in Nat /\ Rank[e] \in Nat
    BY <1>1
  <2>2. ~(Rank[e] < Rank[d])
    BY <1>4, <1>5
  <2> QED
    BY <2>1, <2>2
<1> QED
  BY <1>6

LEMMA PanelIsDefect ==
  ASSUME NEW k \in Desks, Panel(k) # NoFault
  PROVE  Panel(k) \in Faults
<1>1. Filtered(k) \subseteq Faults /\ Filtered(k) # {}
  BY DEF Panel, Filtered, Visible, Present
<1>2. \E d \in Filtered(k) : \A e \in Filtered(k) : Rank[d] <= Rank[e]
  BY <1>1, LeastRank
<1>3. (CHOOSE d \in Filtered(k) : \A e \in Filtered(k) : Rank[d] <= Rank[e]) \in Filtered(k)
  BY <1>2
<1> QED
  BY <1>1, <1>3 DEF Panel

(* A page only asks. *)
LEMMA DeskPageSteps ==
  ASSUME DeskInvariant, NEW k \in Desks,
         \/ UNCHANGED <<floor, fault, lockedOut, calls, told>>
         \/ \E step \in Steps : Click(k, step)
         \/ ListArrives(k) \/ ListFails(k)
  PROVE  DeskInvariant'
<1>1. CASE UNCHANGED <<floor, fault, lockedOut, calls, told>>
  BY <1>1 DEF DeskInvariant, DeskTyped, StepsTaken, Taken, MachinesHold, Present, Blocking
<1>2. ASSUME calls' \subseteq calls, UNCHANGED <<floor, fault, lockedOut, told>>
      PROVE  DeskInvariant'
  <2>1. DeskTyped'
    BY <1>2 DEF DeskInvariant, DeskTyped
  <2>2. StepsTaken'
    BY <1>2 DEF DeskInvariant, StepsTaken, Taken
  <2>3. MachinesHold'
    BY <1>2 DEF DeskInvariant, MachinesHold, Present, Blocking
  <2> QED
    BY <2>1, <2>2, <2>3 DEF DeskInvariant
<1>3. CASE ListArrives(k) \/ ListFails(k)
  BY <1>2, <1>3 DEF ListArrives, ListFails, Settled
<1>4. CASE \E step \in Steps : Click(k, step)
  <2> PICK step \in Steps : Click(k, step)
    BY <1>4
  <2> DEFINE new == [desk |-> k, step |-> step, defect |-> Panel(k), at |-> "sent", saw |-> "none"]
  <2>1. new \in DeskCalls /\ new.at = "sent"
    BY PanelIsDefect DEF Click, DeskCalls
  <2>2. calls' = calls \cup {new} /\ UNCHANGED <<floor, fault, lockedOut, told>>
    BY DEF Click
  <2> HIDE DEF new
  <2>3. DeskTyped'
    BY <2>1, <2>2 DEF DeskInvariant, DeskTyped
  <2>4. StepsTaken'
    BY <2>1, <2>2 DEF DeskInvariant, StepsTaken, Taken
  <2>5. MachinesHold'
    BY <2>2 DEF DeskInvariant, MachinesHold, Present, Blocking
  <2> QED
    BY <2>3, <2>4, <2>5 DEF DeskInvariant
<1> QED
  BY <1>1, <1>3, <1>4

(* Statuses move on, and never back to one from which a step has still to be taken. *)
LEMMA MovesOn ==
  ASSUME NEW s \in FaultStatus, NEW step \in Steps, step # "APPROVED", step \in Transitions[s]
  PROVE  /\ s \in Before[step] /\ step \notin Before[step] /\ step \in FaultStatus
         /\ s \notin {"RESOLVED", "REJECTED"}
         /\ \A other \in Steps \ {"APPROVED"} : s \notin Before[other] => step \notin Before[other]
BY DEF FaultStatus, Steps, Transitions, Before

(* What a request writes, and what it hears. *)
LEMMA CallSteps ==
  ASSUME DeskInvariant, NEW c \in calls,
         \/ LoadAndCheck(c) \/ WriteIfUnmoved(c) \/ ApproveReturn(c)
         \/ Succeeds(c) \/ Refused(c) \/ LoseCall(c)
  PROVE  DeskInvariant'
<1>0. c \in DeskCalls
  BY DEF DeskInvariant, DeskTyped
<1>1. CASE LoadAndCheck(c)
  <2>1. /\ c.at = "sent" /\ c.step # "APPROVED" /\ UNCHANGED <<floor, fault, lockedOut, told>>
    BY <1>1 DEF LoadAndCheck
  <2>2. fault[c.defect].status \in FaultStatus
    BY <1>0 DEF DeskInvariant, DeskTyped, FaultRow, DeskCalls
  <2>3. PICK at \in {"loaded", "refused"}, saw \in FaultStatus \cup {"none"} :
          /\ calls' = (calls \ {c}) \cup {[c EXCEPT !.at = at, !.saw = saw]}
          /\ at = "loaded" => saw \in FaultStatus /\ c.step \in Transitions[saw]
    BY <1>1, <2>2 DEF LoadAndCheck, Moved
  <2> DEFINE moved == [c EXCEPT !.at = at, !.saw = saw]
  <2>4. /\ moved \in DeskCalls /\ moved.at = at /\ moved.saw = saw
        /\ moved.step = c.step /\ moved.defect = c.defect
    BY <1>0, <2>3 DEF DeskCalls
  <2>5. calls' = (calls \ {c}) \cup {moved}
    BY <2>3
  <2> HIDE DEF moved
  <2>6. DeskTyped'
    BY <2>1, <2>4, <2>5 DEF DeskInvariant, DeskTyped
  <2>7. StepsTaken'
    BY <2>1, <2>3, <2>4, <2>5 DEF DeskInvariant, StepsTaken, Taken
  <2>8. MachinesHold'
    BY <2>1 DEF DeskInvariant, MachinesHold, Present, Blocking
  <2> QED
    BY <2>6, <2>7, <2>8 DEF DeskInvariant
<1>2. CASE WriteIfUnmoved(c)
  <2>1. c.at = "loaded" /\ UNCHANGED <<floor, lockedOut, told>>
    BY <1>2 DEF WriteIfUnmoved
  <2>2. c.step # "APPROVED" /\ c.saw \in FaultStatus /\ c.step \in Transitions[c.saw]
    BY <2>1 DEF DeskInvariant, StepsTaken
  <2>3. PICK at \in {"done", "refused"} :
          /\ calls' = (calls \ {c}) \cup {[c EXCEPT !.at = at, !.saw = "none"]}
          /\ at = "done" => /\ fault[c.defect].status = c.saw
                            /\ fault' = [fault EXCEPT ![c.defect].status = c.step]
          /\ at = "refused" => UNCHANGED fault
    BY <1>2 DEF WriteIfUnmoved, Moved
  <2> DEFINE moved == [c EXCEPT !.at = at, !.saw = "none"]
  <2>4. /\ moved \in DeskCalls /\ moved.at = at
        /\ moved.step = c.step /\ moved.defect = c.defect
    BY <1>0, <2>3 DEF DeskCalls
  <2>5. calls' = (calls \ {c}) \cup {moved}
    BY <2>3
  <2> HIDE DEF moved
  <2>6. c.defect \in Faults /\ c.step \in Steps
    BY <1>0 DEF DeskCalls
  <2>7. /\ c.saw \in Before[c.step] /\ c.step \notin Before[c.step] /\ c.step \in FaultStatus
        /\ c.saw \notin {"RESOLVED", "REJECTED"}
        /\ \A other \in Steps \ {"APPROVED"} : c.saw \notin Before[other] => c.step \notin Before[other]
    BY <2>2, <2>6, MovesOn
  <2>8. CASE at = "refused"
    <3>1. DeskTyped'
      BY <2>1, <2>3, <2>4, <2>5, <2>8 DEF DeskInvariant, DeskTyped
    <3>2. StepsTaken'
      BY <2>1, <2>3, <2>4, <2>5, <2>8 DEF DeskInvariant, StepsTaken, Taken
    <3>3. MachinesHold'
      BY <2>1, <2>3, <2>8 DEF DeskInvariant, MachinesHold, Present, Blocking
    <3> QED
      BY <3>1, <3>2, <3>3 DEF DeskInvariant
  <2>9. CASE at = "done"
    <3>1. /\ fault' \in [Faults -> FaultRow]
          /\ fault'[c.defect].status = c.step
          /\ fault'[c.defect].approved = fault[c.defect].approved
          /\ \A d \in Faults \ {c.defect} : fault'[d] = fault[d]
      BY <2>3, <2>6, <2>7, <2>9 DEF DeskInvariant, DeskTyped, FaultRow
    <3>2. fault[c.defect].status = c.saw
      BY <2>3, <2>9
    <3>3. DeskTyped'
      BY <2>1, <2>4, <2>5, <3>1 DEF DeskInvariant, DeskTyped
    <3>4. \A s \in told \cup {d \in calls : d.at = "done"} :
            /\ s.defect \in Faults /\ s.step \in Steps
            /\ Taken(s)
      BY DEF DeskInvariant, DeskTyped, StepsTaken, DeskCalls
    <3>5. \A s \in told \cup {d \in calls : d.at = "done"} : ~SameStep(moved, s)
      BY <2>2, <2>4, <2>7, <3>2, <3>4 DEF SameStep, Taken
    <3>10. \A s \in told \cup {d \in calls : d.at = "done"} : ~SameStep(s, moved)
      BY <2>2, <2>4, <2>7, <3>2, <3>4 DEF SameStep, Taken
    <3>6. \A s \in told \cup {d \in calls : d.at = "done"} :
            IF s.step = "APPROVED" THEN EquipmentOf[s.defect] \notin lockedOut'
            ELSE fault'[s.defect].status \notin Before[s.step]
      <4> SUFFICES ASSUME NEW s \in told \cup {d \in calls : d.at = "done"}
                   PROVE  IF s.step = "APPROVED" THEN EquipmentOf[s.defect] \notin lockedOut'
                          ELSE fault'[s.defect].status \notin Before[s.step]
        OBVIOUS
      <4>1. s.defect \in Faults /\ s.step \in Steps
            /\ IF s.step = "APPROVED" THEN EquipmentOf[s.defect] \notin lockedOut
               ELSE fault[s.defect].status \notin Before[s.step]
        BY <3>4 DEF Taken
      <4> QED
        BY <2>1, <2>7, <3>1, <3>2, <4>1
    <3>7. fault'[moved.defect].status \notin Before[moved.step] /\ moved.step # "APPROVED"
      BY <2>2, <2>4, <2>7, <3>1
    <3>8. StepsTaken'
      <4>1. \A s \in told' : Taken(s)'
        BY <2>1, <3>6 DEF Taken
      <4>2. \A d \in calls' : d.at = "done" => Taken(d)'
        BY <2>5, <3>6, <3>7 DEF Taken
      <4>3. /\ \A d \in calls' : d.at = "loaded" => d.step # "APPROVED" /\ d.saw \in FaultStatus
                                         /\ d.step \in Transitions[d.saw]
            /\ \A s, t \in told' : SameStep(s, t) => s = t
        BY <2>1, <2>4, <2>5, <2>9 DEF DeskInvariant, StepsTaken
      <4>4. \A d \in calls', t \in told' : d.at = "done" => ~SameStep(d, t)
        BY <2>1, <2>5, <3>5 DEF DeskInvariant, StepsTaken
      <4>5. \A d, e \in calls' : d.at = "done" /\ e.at = "done" /\ SameStep(d, e) => d = e
        BY <2>5, <3>5, <3>10 DEF DeskInvariant, StepsTaken
      <4> QED
        BY <4>1, <4>2, <4>3, <4>4, <4>5 DEF StepsTaken
    <3>9. MachinesHold'
      BY <2>1, <2>7, <3>1, <3>2 DEF DeskInvariant, MachinesHold, Present, Blocking
    <3> QED
      BY <3>3, <3>8, <3>9 DEF DeskInvariant
  <2> QED
    BY <2>8, <2>9
<1>3. CASE ApproveReturn(c)
  <2> DEFINE m == EquipmentOf[c.defect]
  <2>1. c.at = "sent" /\ c.step = "APPROVED" /\ UNCHANGED <<floor, told>>
    BY <1>3 DEF ApproveReturn
  <2>2. PICK at \in {"done", "refused"} :
          /\ calls' = (calls \ {c}) \cup {[c EXCEPT !.at = at, !.saw = "none"]}
          /\ at = "done" => /\ MayReturn(m)
                            /\ lockedOut' = lockedOut \ {m}
                            /\ fault' = [d \in Faults |->
                                 IF d \in BlockingRows(m) /\ fault[d].status = "RESOLVED"
                                 THEN [fault[d] EXCEPT !.approved = TRUE] ELSE fault[d]]
          /\ at = "refused" => UNCHANGED <<fault, lockedOut>>
    BY <1>3 DEF ApproveReturn, Moved
  <2> DEFINE moved == [c EXCEPT !.at = at, !.saw = "none"]
  <2>4. /\ moved \in DeskCalls /\ moved.at = at
        /\ moved.step = c.step /\ moved.defect = c.defect
    BY <1>0, <2>2 DEF DeskCalls
  <2>5. calls' = (calls \ {c}) \cup {moved}
    BY <2>2
  <2> HIDE DEF moved
  <2>6. c.defect \in Faults
    BY <1>0 DEF DeskCalls
  <2>8. CASE at = "refused"
    <3>1. DeskTyped'
      BY <2>1, <2>2, <2>4, <2>5, <2>8 DEF DeskInvariant, DeskTyped
    <3>2. StepsTaken'
      BY <2>1, <2>2, <2>4, <2>5, <2>8 DEF DeskInvariant, StepsTaken, Taken
    <3>3. MachinesHold'
      BY <2>1, <2>2, <2>8 DEF DeskInvariant, MachinesHold, Present, Blocking
    <3> QED
      BY <3>1, <3>2, <3>3 DEF DeskInvariant
  <2>9. CASE at = "done"
    <3>1. /\ fault' \in [Faults -> FaultRow]
          /\ \A d \in Faults : fault'[d].status = fault[d].status
          /\ \A d \in Faults : fault[d].approved => fault'[d].approved
          /\ \A d \in BlockingRows(m) : fault[d].status = "RESOLVED" => fault'[d].approved
      <4>1. \A d \in Faults : fault'[d] = IF d \in BlockingRows(m) /\ fault[d].status = "RESOLVED"
                                 THEN [fault[d] EXCEPT !.approved = TRUE] ELSE fault[d]
        BY <2>2, <2>9
      <4>2. \A d \in Faults : fault[d] \in FaultRow
        BY DEF DeskInvariant, DeskTyped
      <4>3. \A d \in Faults : /\ fault'[d] \in FaultRow /\ fault'[d].status = fault[d].status
                              /\ fault[d].approved => fault'[d].approved
                              /\ d \in BlockingRows(m) /\ fault[d].status = "RESOLVED"
                                   => fault'[d].approved
        BY <4>1, <4>2 DEF FaultRow
      <4>4. fault' = [d \in Faults |-> fault'[d]]
        BY <2>2, <2>9
      <4> QED
        BY <4>3, <4>4 DEF BlockingRows, Present
    <3>2. m \in lockedOut /\ lockedOut' = lockedOut \ {m}
      BY <2>2, <2>9 DEF MayReturn
    <3>3. DeskTyped'
      BY <2>1, <2>4, <2>5, <3>1 DEF DeskInvariant, DeskTyped
    <3>4. \A s \in told \cup {d \in calls : d.at = "done"} :
            /\ s.defect \in Faults /\ s.step \in Steps
            /\ Taken(s)
      BY DEF DeskInvariant, DeskTyped, StepsTaken, DeskCalls
    <3>5. \A s \in told \cup {d \in calls : d.at = "done"} : ~SameStep(moved, s) /\ ~SameStep(s, moved)
      BY <2>1, <2>4, <3>2, <3>4 DEF SameStep, Taken
    <3>6. \A s \in told \cup {d \in calls : d.at = "done"} :
            IF s.step = "APPROVED" THEN EquipmentOf[s.defect] \notin lockedOut'
            ELSE fault'[s.defect].status \notin Before[s.step]
      BY <3>1, <3>2, <3>4 DEF Taken
    <3>7. moved.step = "APPROVED" /\ EquipmentOf[moved.defect] \notin lockedOut'
      BY <2>1, <2>4, <3>2
    <3>8. StepsTaken'
      <4>1. \A s \in told' : Taken(s)'
        BY <2>1, <3>6 DEF Taken
      <4>2. \A d \in calls' : d.at = "done" => Taken(d)'
        BY <2>5, <3>6, <3>7 DEF Taken
      <4>3. /\ \A d \in calls' : d.at = "loaded" => d.step # "APPROVED" /\ d.saw \in FaultStatus
                                         /\ d.step \in Transitions[d.saw]
            /\ \A s, t \in told' : SameStep(s, t) => s = t
        BY <2>1, <2>4, <2>5, <2>9 DEF DeskInvariant, StepsTaken
      <4>4. \A d \in calls', t \in told' : d.at = "done" => ~SameStep(d, t)
        BY <2>1, <2>5, <3>5 DEF DeskInvariant, StepsTaken
      <4>5. \A d, e \in calls' : d.at = "done" /\ e.at = "done" /\ SameStep(d, e) => d = e
        BY <2>5, <3>5 DEF DeskInvariant, StepsTaken
      <4> QED
        BY <4>1, <4>2, <4>3, <4>4, <4>5 DEF StepsTaken
    <3>9. MachinesHold'
      <4> SUFFICES ASSUME NEW d \in Present, Blocking(d), EquipmentOf[d] \notin lockedOut'
                   PROVE  \/ fault'[d].status = "REJECTED"
                          \/ fault'[d].status = "RESOLVED" /\ fault'[d].approved
        BY <2>1 DEF MachinesHold, Present, Blocking
      <4>0. d \in Faults
        BY DEF Present
      <4>1. CASE EquipmentOf[d] = m
        <5>1. d \in BlockingRows(m)
          BY <4>1 DEF BlockingRows
        <5>2. fault[d].status \in {"RESOLVED", "REJECTED"}
          BY <2>2, <2>9, <5>1 DEF MayReturn
        <5> QED
          BY <3>1, <4>0, <5>1, <5>2
      <4>2. CASE EquipmentOf[d] # m
        <5>1. \/ fault[d].status = "REJECTED"
              \/ fault[d].status = "RESOLVED" /\ fault[d].approved
          BY <3>2, <4>2 DEF DeskInvariant, MachinesHold
        <5> QED
          BY <3>1, <4>0, <5>1
      <4> QED
        BY <4>1, <4>2
    <3> QED
      BY <3>3, <3>8, <3>9 DEF DeskInvariant
  <2> QED
    BY <2>8, <2>9
<1>4. CASE Succeeds(c)
  <2> DEFINE news == [desk |-> c.desk, defect |-> c.defect, step |-> c.step]
             waiting == [c EXCEPT !.at = "read"]
  <2>1. /\ c.at = "done" /\ told' = told \cup {news} /\ UNCHANGED <<floor, fault, lockedOut>>
        /\ calls' \subseteq (calls \ {c}) \cup {waiting}
    BY <1>4 DEF Succeeds, Settled
  <2>2. /\ waiting \in DeskCalls /\ waiting.at = "read"
        /\ news \in [desk : Desks, defect : Faults, step : Steps]
        /\ news.step = c.step /\ news.defect = c.defect
    BY <1>0 DEF DeskCalls
  <2> HIDE DEF news, waiting
  <2>3. DeskTyped'
    BY <2>1, <2>2 DEF DeskInvariant, DeskTyped
  <2>4. Taken(c) /\ \A t \in told : ~SameStep(c, t)
    BY <2>1 DEF DeskInvariant, StepsTaken
  <2>5. /\ \A t \in told : ~SameStep(news, t) /\ ~SameStep(t, news)
    BY <2>2, <2>4 DEF SameStep
  <2>6. \A d \in calls : d.at = "done" /\ d # c => ~SameStep(d, news)
    <3>1. \A d \in calls : d.at = "done" /\ SameStep(d, c) => d = c
      BY <2>1 DEF DeskInvariant, StepsTaken
    <3> QED
      BY <2>2, <3>1 DEF SameStep
  <2>7. StepsTaken'
    <3>1. \A s \in told' : Taken(s)'
      BY <2>1, <2>2, <2>4 DEF DeskInvariant, StepsTaken, Taken
    <3>2. \A d \in calls' : d.at = "done" => Taken(d)'
      BY <2>1, <2>2 DEF DeskInvariant, StepsTaken, Taken
    <3>3. \A d \in calls' : d.at = "loaded" => d.step # "APPROVED" /\ d.saw \in FaultStatus
                                         /\ d.step \in Transitions[d.saw]
      BY <2>1, <2>2 DEF DeskInvariant, StepsTaken
    <3>4. \A s, t \in told' : SameStep(s, t) => s = t
      BY <2>1, <2>5 DEF DeskInvariant, StepsTaken
    <3>5. \A d \in calls', t \in told' : d.at = "done" => ~SameStep(d, t)
      BY <2>1, <2>2, <2>6 DEF DeskInvariant, StepsTaken
    <3>6. \A d, e \in calls' : d.at = "done" /\ e.at = "done" /\ SameStep(d, e) => d = e
      BY <2>1, <2>2 DEF DeskInvariant, StepsTaken
    <3> QED
      BY <3>1, <3>2, <3>3, <3>4, <3>5, <3>6 DEF StepsTaken
  <2>8. MachinesHold'
    BY <2>1 DEF DeskInvariant, MachinesHold, Present, Blocking
  <2> QED
    BY <2>3, <2>7, <2>8 DEF DeskInvariant
<1>5. CASE Refused(c) \/ LoseCall(c)
  <2>1. calls' = calls \ {c} /\ UNCHANGED <<floor, fault, lockedOut, told>>
    BY <1>5 DEF Refused, LoseCall
  <2>2. DeskTyped'
    BY <2>1 DEF DeskInvariant, DeskTyped
  <2>3. StepsTaken'
    BY <2>1 DEF DeskInvariant, StepsTaken, Taken
  <2>4. MachinesHold'
    BY <2>1 DEF DeskInvariant, MachinesHold, Present, Blocking
  <2> QED
    BY <2>2, <2>3, <2>4 DEF DeskInvariant
<1> QED
  BY <1>1, <1>2, <1>3, <1>4, <1>5

LEMMA RejectionSteps ==
  ASSUME DeskInvariant, NEW r \in Faults, RejectElsewhere(r)
  PROVE  DeskInvariant'
<1>1. /\ "REJECTED" \in Transitions[fault[r].status]
      /\ fault' = [fault EXCEPT ![r].status = "REJECTED"]
      /\ UNCHANGED <<floor, lockedOut, calls, told>>
  BY DEF RejectElsewhere
<1>2. /\ fault' \in [Faults -> FaultRow] /\ fault'[r].status = "REJECTED"
      /\ \A d \in Faults \ {r} : fault'[d] = fault[d]
  BY <1>1 DEF DeskInvariant, DeskTyped, FaultRow, FaultStatus
<1>3. DeskTyped'
  BY <1>1, <1>2 DEF DeskInvariant, DeskTyped
<1>4. \A s \in told \cup {d \in calls : d.at = "done"} :
        /\ s.defect \in Faults /\ s.step \in Steps /\ Taken(s)
  BY DEF DeskInvariant, DeskTyped, StepsTaken, DeskCalls
<1>5. \A step \in Steps \ {"APPROVED"} : "REJECTED" \notin Before[step]
  BY DEF Steps, Before
<1>6. \A s \in told \cup {d \in calls : d.at = "done"} : Taken(s)'
  BY <1>1, <1>2, <1>4, <1>5 DEF Taken
<1>7. StepsTaken'
  BY <1>1, <1>6 DEF DeskInvariant, StepsTaken
<1>8. MachinesHold'
  BY <1>1, <1>2 DEF DeskInvariant, MachinesHold, Present, Blocking
<1> QED
  BY <1>3, <1>7, <1>8 DEF DeskInvariant

(* Over a list that is current, and the machines read, the page's reading of ADR 0006 *)
(* is the server's (defect-queue.ts:13-20, return-to-service.ts:53-57).              *)
LEMMA PageReadsAsServer ==
  ASSUME DeskInvariant, NEW k, list[k] = fault, NEW d \in Visible(k)
  PROVE  Offers(k, d, "APPROVED") <=>
           /\ equipmentList[k] = "loaded"
           /\ list[k][d].status = "RESOLVED" /\ MayReturn(EquipmentOf[d])
<1> DEFINE m == EquipmentOf[d]
<1>1. Visible(k) = {e \in Present : IsQueueOpen(k, e)} /\ d \in Present
  BY DEF Visible
<1>2. \A e \in Present : IsQueueOpen(k, e) <=>
        /\ fault[e].status # "REJECTED"
        /\ fault[e].status = "RESOLVED" => Blocking(e) /\ ~fault[e].approved
  BY DEF IsQueueOpen, IsPendingApproval
<1>3. ASSUME Offers(k, d, "APPROVED")
      PROVE  equipmentList[k] = "loaded" /\ fault[d].status = "RESOLVED" /\ MayReturn(m)
  <2>1. fault[d].status = "RESOLVED" /\ Blocking(d) /\ CanReturnToService(k, m)
    BY <1>3 DEF Offers
  <2>2. \A e \in BlockingRows(m) : fault[e].status \in {"RESOLVED", "REJECTED"}
    <3> SUFFICES ASSUME NEW e \in BlockingRows(m), fault[e].status # "REJECTED"
                 PROVE  fault[e].status = "RESOLVED"
      OBVIOUS
    <3>1. e \in Present /\ Blocking(e) /\ EquipmentOf[e] = m
      BY DEF BlockingRows
    <3>2. CASE e \in Visible(k)
      BY <2>1, <3>1, <3>2 DEF CanReturnToService, OwnDefects
    <3>3. CASE e \notin Visible(k)
      BY <1>1, <1>2, <3>1, <3>3
    <3> QED
      BY <3>2, <3>3
  <2>3. d \in BlockingRows(m)
    BY <1>1, <2>1 DEF BlockingRows
  <2>4. ~fault[d].approved
    BY <1>1, <1>2, <2>1
  <2>5. m \in lockedOut
    BY <1>1, <2>1, <2>4 DEF DeskInvariant, MachinesHold
  <2> QED
    BY <2>1, <2>2, <2>3, <2>5 DEF MayReturn, CanReturnToService
<1>4. ASSUME equipmentList[k] = "loaded", fault[d].status = "RESOLVED", MayReturn(m)
      PROVE  Offers(k, d, "APPROVED")
  <2>1. Blocking(d) /\ IsPendingApproval(k, d)
    BY <1>1, <1>2, <1>4 DEF IsPendingApproval
  <2>2. \A e \in OwnDefects(k, m) : Blocking(e) => list[k][e].status = "RESOLVED"
    <3> SUFFICES ASSUME NEW e \in OwnDefects(k, m), Blocking(e)
                 PROVE  fault[e].status = "RESOLVED"
      OBVIOUS
    <3>1. e \in Visible(k) /\ EquipmentOf[e] = m
      BY DEF OwnDefects
    <3>2. e \in BlockingRows(m)
      BY <1>1, <3>1 DEF BlockingRows
    <3> QED
      BY <1>1, <1>2, <1>4, <3>1, <3>2 DEF MayReturn
  <2>3. d \in OwnDefects(k, m)
    BY DEF OwnDefects
  <2> QED
    BY <1>4, <2>1, <2>2, <2>3 DEF Offers, CanReturnToService
<1> QED
  BY <1>3, <1>4

LEMMA DeskKeeps == DeskSpec => []DeskInvariant
<1>1. DeskInvariant /\ [DeskNext]_deskVars => DeskInvariant'
  <2> SUFFICES ASSUME DeskInvariant, [DeskNext]_deskVars
               PROVE  DeskInvariant'
    OBVIOUS
  <2>1. CASE \E k \in Desks :
               \/ \E d \in Present \cup {NoFault} : OpenPage(k, d)
               \/ \E s \in Filters : SetFilter(k, s)
               \/ \E d \in Present : SelectRow(k, d)
               \/ BackToQueue(k) \/ EditNotes(k)
               \/ \E step \in Steps : Click(k, step)
               \/ ReadList(k) \/ ListArrives(k) \/ ListFails(k) \/ ListPoll(k)
               \/ EquipmentArrives(k) \/ EquipmentFails(k) \/ EquipmentPoll(k)
    <3> PICK k \in Desks :
               \/ \E d \in Present \cup {NoFault} : OpenPage(k, d)
               \/ \E s \in Filters : SetFilter(k, s)
               \/ \E d \in Present : SelectRow(k, d)
               \/ BackToQueue(k) \/ EditNotes(k)
               \/ \E step \in Steps : Click(k, step)
               \/ ReadList(k) \/ ListArrives(k) \/ ListFails(k) \/ ListPoll(k)
               \/ EquipmentArrives(k) \/ EquipmentFails(k) \/ EquipmentPoll(k)
      BY <2>1
    <3>1. \/ UNCHANGED <<floor, fault, lockedOut, calls, told>>
          \/ \E step \in Steps : Click(k, step)
          \/ ListArrives(k) \/ ListFails(k)
      BY DEF OpenPage, SetFilter, SelectRow, BackToQueue, EditNotes, ReadList, ListPoll,
             EquipmentArrives, EquipmentFails, EquipmentPoll
    <3> QED
      BY <3>1, DeskPageSteps
  <2>2. CASE \E c \in calls :
               \/ LoadAndCheck(c) \/ WriteIfUnmoved(c) \/ ApproveReturn(c)
               \/ Succeeds(c) \/ Refused(c) \/ LoseCall(c)
    BY <2>2, CallSteps
  <2>3. CASE \E d \in Faults : RejectElsewhere(d)
    BY <2>3, RejectionSteps
  <2>4. CASE UNCHANGED deskVars
    BY <2>4 DEF deskVars, DeskInvariant, DeskTyped, StepsTaken, Taken, MachinesHold, Present, Blocking
  <2> QED
    BY <2>1, <2>2, <2>3, <2>4 DEF DeskNext
<1> QED
  BY <1>1, DeskStarts, PTL DEF DeskSpec

(* Of the desks that act on one stale list, one at most is told that it took a step  *)
(* or returned the machine (acknowledge.ts:31-32, return-to-service.ts:34); and over *)
(* a current list the approval is offered exactly when it would be granted, by every  *)
(* desk that has read the machines (defect-queue.ts:13-20, defects-table.tsx:217-228). *)
THEOREM DesksAlwaysAgree == DeskSpec => []DesksAgree
<1>1. DeskInvariant => DesksAgree
  <2> SUFFICES ASSUME DeskInvariant
               PROVE  DesksAgree
    OBVIOUS
  <2>1. OneDeskIsTold
    BY DEF DeskInvariant, StepsTaken, SameStep, OneDeskIsTold
  <2>2. OfferedIsGranted
    BY PageReadsAsServer DEF OfferedIsGranted
  <2> QED
    BY <2>1, <2>2 DEF DesksAgree
<1> QED
  BY <1>1, DeskKeeps, PTL

(* What the types of Desk add to the invariant above. *)
DesksTyped ==
  /\ lockedOut \subseteq Machines
  /\ list \in [Desks -> [Faults -> FaultRow] \cup {Unread}]
  /\ reading \in [Desks -> [Faults -> FaultRow] \cup {Unread}]
  /\ again \in [Desks -> BOOLEAN] /\ broken \in [Desks -> BOOLEAN]
  /\ equipmentList \in [Desks -> {"unread", "loading", "loaded", "failed"}]
  /\ filter \in [Desks -> FaultStatus \cup {"ALL"}]
  /\ selected \in [Desks -> Faults \cup {NoFault}]
  /\ editor \in [Desks -> {"closed", "written"}]
  /\ setbacks \in 0 .. floor.setbacks

LEMMA SlipType ==
  ASSUME floor \in Floors, setbacks \in 0 .. floor.setbacks, Slipped
  PROVE  setbacks' \in 0 .. floor.setbacks
BY SetbackAssumption DEF Slipped

LEMMA RenderedType ==
  ASSUME editor \in [Desks -> {"closed", "written"}], NEW k \in Desks, Rendered(k)
  PROVE  editor' \in [Desks -> {"closed", "written"}]
BY DEF Rendered

LEMMA DesksKeepTypes ==
  ASSUME DeskInvariant, DesksTyped, [DeskNext]_deskVars
  PROVE  DesksTyped'
<1>0. /\ floor \in Floors /\ fault \in [Faults -> FaultRow]
      /\ Present \subseteq Faults
  BY DEF DeskInvariant, DeskTyped, Present
<1>1. ASSUME NEW k \in Desks, NEW d \in Present \cup {NoFault}, OpenPage(k, d)
      PROVE  DesksTyped'
  BY <1>0, <1>1 DEF OpenPage, DesksTyped
<1>2. ASSUME NEW k \in Desks, NEW s \in Filters, SetFilter(k, s)
      PROVE  DesksTyped'
  BY <1>2, RenderedType, FilterAssumption DEF SetFilter, DesksTyped
<1>3. ASSUME NEW k \in Desks, NEW d \in Present, SelectRow(k, d)
      PROVE  DesksTyped'
  BY <1>0, <1>3, RenderedType DEF SelectRow, DesksTyped
<1>4. ASSUME NEW k \in Desks, BackToQueue(k)
      PROVE  DesksTyped'
  BY <1>4, RenderedType DEF BackToQueue, DesksTyped
<1>5. ASSUME NEW k \in Desks, EditNotes(k)
      PROVE  DesksTyped'
  BY <1>5 DEF EditNotes, DesksTyped
<1>6. ASSUME NEW k \in Desks, NEW step \in Steps, Click(k, step)
      PROVE  DesksTyped'
  BY <1>6 DEF Click, DesksTyped
<1>7. ASSUME NEW k \in Desks, ReadList(k) \/ ListPoll(k)
      PROVE  DesksTyped'
  BY <1>0, <1>7 DEF ReadList, ListPoll, DesksTyped
<1>8. ASSUME NEW k \in Desks, ListArrives(k)
      PROVE  DesksTyped'
  BY <1>8, RenderedType DEF ListArrives, DesksTyped
<1>9. ASSUME NEW k \in Desks, ListFails(k)
      PROVE  DesksTyped'
  BY <1>0, <1>9, RenderedType, SlipType DEF ListFails, DesksTyped
<1>10. ASSUME NEW c \in calls, LoadAndCheck(c) \/ WriteIfUnmoved(c) \/ ApproveReturn(c) \/ Refused(c)
       PROVE  DesksTyped'
  <2>1. /\ lockedOut' \subseteq lockedOut
        /\ UNCHANGED <<floor, list, reading, again, broken, equipmentList, filter,
                       selected, editor, setbacks>>
    BY <1>10 DEF LoadAndCheck, WriteIfUnmoved, ApproveReturn, Refused
  <2> QED
    BY <2>1 DEF DesksTyped
<1>11. ASSUME NEW c \in calls, Succeeds(c)
       PROVE  DesksTyped'
  <2>1. c.desk \in Desks
    BY DEF DeskInvariant, DeskTyped, DeskCalls
  <2> QED
    BY <1>11, <2>1 DEF Succeeds, DesksTyped
<1>12. ASSUME NEW c \in calls, LoseCall(c)
       PROVE  DesksTyped'
  BY <1>0, <1>12, SlipType DEF LoseCall, DesksTyped
<1>13. ASSUME NEW d \in Faults, RejectElsewhere(d)
       PROVE  DesksTyped'
  BY <1>0, <1>13, SlipType DEF RejectElsewhere, DesksTyped
<1>14. ASSUME NEW k \in Desks, EquipmentArrives(k) \/ EquipmentPoll(k)
       PROVE  DesksTyped'
  BY <1>14, RenderedType DEF EquipmentArrives, EquipmentPoll, DesksTyped
<1>15. ASSUME NEW k \in Desks, EquipmentFails(k)
       PROVE  DesksTyped'
  BY <1>0, <1>15, RenderedType, SlipType DEF EquipmentFails, DesksTyped
<1>16. CASE UNCHANGED deskVars
  BY <1>16 DEF deskVars, DesksTyped
<1> QED
  BY <1>1, <1>2, <1>3, <1>4, <1>5, <1>6, <1>7, <1>8, <1>9, <1>10, <1>11, <1>12, <1>13, <1>14,
     <1>15, <1>16
  DEF DeskNext

(* Types of the desks and of the requests they send. *)
THEOREM DesksAreTyped == DeskSpec => []DeskTypeOK
<1>1. DeskInit => DesksTyped
  BY SetbackAssumption DEF DeskInit, DesksTyped
<1>2. DeskInvariant /\ DesksTyped => DeskTypeOK
  BY DEF DeskInvariant, DeskTyped, DeskCalls, DesksTyped, DeskTypeOK
<1> QED
  BY <1>1, <1>2, DesksKeepTypes, DeskKeeps, PTL DEF DeskSpec

-----------------------------------------------------------------------------
(***************************************************************************)
(* Readiness.  A request notes a machine as READY from the moment that a     *)
(* pass of today counts, unless the records hold what ADR 0006 does not       *)
(* expect: the pass was committed while the machine was available.           *)
(***************************************************************************)

Underway == {"rows", "passes", "blocked"}

CheckRows == [at : {"none", "admitted", "begun", "committed"},
              of : Fleet \cup {CHOOSE m \in Fleet : TRUE}, verdict : Verdict, time : Nat]
MachineRows == [status : StoredStatus, since : Nat, baseline : Nat] \cup {Absent}
AskRows == [at : Asked, list : BOOLEAN, row : [Fleet -> StoredStatus \cup {"absent"}],
            pass : [Fleet -> Nat], last : [Fleet -> Nat],
            answer : [Fleet -> EquipmentStatus \cup {"absent"}],
            seen : [Fleet -> SUBSET EquipmentStatus]]

FleetTyped ==
  /\ now \in Nat /\ today \in 0 .. now
  /\ machine \in [Fleet -> MachineRows]
  /\ check \in [Checks -> CheckRows]
  /\ found \in [Checks -> {"none", "OPEN", "RESOLVED", "REJECTED"}]
  /\ slipped \subseteq Fleet

(* A machine that is AWAITING_INSPECTION has no open blocking defect, or slipped. *)
RecordsHold ==
  /\ \A m \in Fleet : machine[m].baseline <= now
  /\ \A c \in Checks : check[c].at # "none" => check[c].of \in Fleet
  /\ \A c \in Checks, m \in Fleet : check[c].at # "none" /\ check[c].of = m => Exists(m)
  /\ \A c \in Checks : check[c].at \in {"begun", "committed"} => check[c].time \in 1 .. now
  /\ \A c \in Checks : check[c].at # "committed" => found[c] = "none"
  /\ \A m \in Fleet : machine[m].status = "AWAITING_INSPECTION" /\ OpenBlocking(m) # {} => m \in slipped

FleetInvariant == FleetTyped /\ RecordsHold

(* What one moment's status says of the records, and the records of it *)
StatusTells ==
  \A m \in Fleet : Exists(m) =>
    /\ StatusOf(m) \in EquipmentStatus
    /\ machine[m].status # "AWAITING_INSPECTION" => StatusOf(m) = machine[m].status
    /\ machine[m].status = "AWAITING_INSPECTION" => StatusOf(m) \in {"AWAITING_INSPECTION", "READY"}
    /\ StatusOf(m) = "READY" => PassesToday(m) # {} /\ OpenBlocking(m) = {}
    /\ machine[m].status = "AWAITING_INSPECTION" /\ PassesToday(m) # {} /\ m \notin slipped
         => StatusOf(m) = "READY"

LEMMA StatusIsTelling == FleetInvariant => StatusTells
<1> SUFFICES ASSUME FleetInvariant, NEW m \in Fleet, Exists(m)
             PROVE  /\ StatusOf(m) \in EquipmentStatus
                    /\ machine[m].status # "AWAITING_INSPECTION" => StatusOf(m) = machine[m].status
                    /\ machine[m].status = "AWAITING_INSPECTION"
                         => StatusOf(m) \in {"AWAITING_INSPECTION", "READY"}
                    /\ StatusOf(m) = "READY" => PassesToday(m) # {} /\ OpenBlocking(m) = {}
                    /\ machine[m].status = "AWAITING_INSPECTION" /\ PassesToday(m) # {} /\ m \notin slipped
                         => StatusOf(m) = "READY"
  BY DEF StatusTells
<1>1. machine[m].status \in StoredStatus
  BY DEF FleetInvariant, FleetTyped, MachineRows, Exists
<1>2. PassesToday(m) # {} <=>
        \E c \in InspectionsOf(m) :
          check[c].verdict = "PASS" /\ \A t \in {today, machine[m].baseline} : check[c].time >= t
  BY DEF PassesToday
<1>3. OpenBlocking(m) = {} <=> \A c \in InspectionsOf(m) : found[c] # "OPEN"
  BY DEF OpenBlocking
<1>4. StatusOf(m) = IF machine[m].status = "AWAITING_INSPECTION" /\ PassesToday(m) # {}
                       /\ OpenBlocking(m) = {}
                    THEN "READY" ELSE machine[m].status
  BY <1>2, <1>3 DEF StatusOf
<1>5. machine[m].status = "AWAITING_INSPECTION" /\ OpenBlocking(m) # {} => m \in slipped
  BY DEF FleetInvariant, RecordsHold
<1> QED
  BY <1>1, <1>4, <1>5 DEF StoredStatus, EquipmentStatus

(* The latest of a set of inspections is one of them, and no other is later. *)
LEMMA LatestTime ==
  ASSUME NEW S \in SUBSET Checks, S # {}, FleetTyped,
         \A c \in S : check[c].time <= now
  PROVE  /\ \E c \in S : TimeOf(S) = check[c].time
         /\ \A c \in S : check[c].time <= TimeOf(S)
<1> DEFINE R == OpToRel(<, Nat)
           T == {now - check[c].time : c \in S}
<1>1. now \in Nat /\ \A c \in S : check[c].time \in Nat
  BY DEF FleetTyped, CheckRows
<1>2. T \subseteq Nat /\ T # {}
  BY <1>1
<1>3. PICK x \in T : \A y \in T : ~(<<y, x>> \in R)
  <2> HIDE DEF R, T
  <2>1. IsWellFoundedOn(R, Nat)
    BY NatLessThanWellFounded DEF R
  <2> QED
    BY <1>2, <2>1, WFMin
<1>4. \A y \in T : ~(y < x)
  BY <1>2, <1>3 DEF OpToRel
<1>5. PICK d \in S : x = now - check[d].time
  BY DEF T
<1>6. ASSUME NEW e \in S
      PROVE  check[e].time <= check[d].time
  <2>1. check[d].time \in Nat /\ check[e].time \in Nat
    BY <1>1
  <2>2. ~(now - check[e].time < now - check[d].time)
    BY <1>4, <1>5
  <2> QED
    BY <1>1, <2>1, <2>2
<1> DEFINE latest == CHOOSE c \in S : \A e \in S : check[e].time <= check[c].time
<1>7. latest \in S /\ \A e \in S : check[e].time <= check[latest].time
  BY <1>6
<1>8. TimeOf(S) = check[latest].time
  BY DEF TimeOf
<1> QED
  BY <1>7, <1>8

-----------------------------------------------------------------------------
(* The writers *)

LEMMA FleetStarts == ReadinessInit => FleetInvariant
<1> SUFFICES ASSUME ReadinessInit
             PROVE  FleetInvariant
  OBVIOUS
<1>1. FleetTyped
  BY DEF ReadinessInit, FleetTyped, MachineRows, CheckRows, StoredStatus, Absent, Verdict
<1>2. \A m \in Fleet : machine[m].baseline = 0
  BY DEF ReadinessInit, Absent
<1>3. \A m \in Fleet : OpenBlocking(m) = {}
  <2>1. \A c \in Checks : found[c] # "OPEN"
    BY DEF ReadinessInit
  <2> QED
    BY <2>1 DEF OpenBlocking, InspectionsOf
<1>4. RecordsHold
  BY <1>2, <1>3 DEF ReadinessInit, RecordsHold
<1> QED
  BY <1>1, <1>4 DEF FleetInvariant

Writes ==
  \/ \E c \in Checks :
       \/ \E m \in Fleet, v \in Verdict : AdmitCheck(c, m, v)
       \/ BeginCheck(c) \/ CommitCheck(c)
       \/ \E o \in {"RESOLVED", "REJECTED"} : CloseDefect(c, o)
  \/ \E m \in Fleet : ReturnToService(m) \/ Retire(m) \/ CreateEquipment(m)
  \/ Midnight

(* What time and writers never undo *)
Onward ==
  /\ today <= today' /\ slipped \subseteq slipped'
  /\ \A m \in Fleet : Exists(m) => Exists(m)' /\ machine[m].baseline <= machine'[m].baseline
  /\ \A m \in Fleet : InspectionsOf(m) \subseteq InspectionsOf(m)'
  /\ \A c \in Checks : check[c].at = "committed" => check'[c] = check[c]
  /\ \A m \in Fleet, c \in Checks : Exists(m) /\ m \notin slipped' =>
       (c \in InspectionsOf(m)' /\ check'[c].verdict = "PASS" =>
          c \in InspectionsOf(m) \/ machine'[m].status = "AWAITING_INSPECTION")

LEMMA ExistsMeans ==
  ASSUME FleetTyped, NEW m \in Fleet
  PROVE  Exists(m) <=> machine[m].status \in StoredStatus
BY DEF FleetTyped, MachineRows, Exists, Absent, StoredStatus

LEMMA SubmitSteps ==
  ASSUME FleetInvariant, NEW c \in Checks,
         \/ \E m \in Fleet, v \in Verdict : AdmitCheck(c, m, v)
         \/ BeginCheck(c)
  PROVE  FleetInvariant' /\ Onward
<1> USE DEF FleetInvariant
<1>1. PICK at \in {"admitted", "begun"} :
        /\ check[c].at = (IF at = "admitted" THEN "none" ELSE "admitted")
        /\ check'[c].at = at /\ check'[c].of \in Fleet
        /\ at = "begun" => check'[c].time = now + 1 /\ now' = now + 1
        /\ at = "admitted" => now' = now
        /\ \A m \in Fleet : check'[c].of = m => Exists(m)
        /\ check' \in [Checks -> CheckRows]
        /\ \A d \in Checks \ {c} : check'[d] = check[d]
        /\ UNCHANGED <<today, machine, found, slipped>>
  <2>1. CASE \E m \in Fleet, v \in Verdict : AdmitCheck(c, m, v)
    <3> PICK m \in Fleet, v \in Verdict : AdmitCheck(c, m, v)
      BY <2>1
    <3> DEFINE new == [at |-> "admitted", of |-> m, verdict |-> v, time |-> 0]
    <3>1. new \in CheckRows /\ new.at = "admitted" /\ new.of = m
      BY DEF CheckRows
    <3>2. /\ check[c].at = "none" /\ Exists(m) /\ check' = [check EXCEPT ![c] = new]
          /\ UNCHANGED <<now, today, machine, found, slipped>>
      BY DEF AdmitCheck
    <3> HIDE DEF new
    <3>3. /\ check' \in [Checks -> CheckRows] /\ check'[c] = new
          /\ \A d \in Checks \ {c} : check'[d] = check[d]
      BY <3>1, <3>2 DEF FleetTyped
    <3> QED
      BY <3>1, <3>2, <3>3
  <2>2. CASE BeginCheck(c)
    <3>1. check[c].at = "admitted" /\ check[c] \in CheckRows /\ now + 1 \in Nat
      BY <2>2 DEF BeginCheck, FleetTyped
    <3>2. /\ check' = [check EXCEPT ![c].at = "begun", ![c].time = now + 1]
          /\ now' = now + 1 /\ UNCHANGED <<today, machine, found, slipped>>
      BY <2>2 DEF BeginCheck
    <3>3. /\ check' \in [Checks -> CheckRows] /\ check'[c].at = "begun"
          /\ check'[c].time = now + 1 /\ check'[c].of = check[c].of
          /\ \A d \in Checks \ {c} : check'[d] = check[d]
      BY <3>1, <3>2 DEF FleetTyped, CheckRows
    <3>4. check[c].of \in Fleet /\ \A m \in Fleet : check[c].of = m => Exists(m)
      BY <3>1 DEF RecordsHold
    <3> QED
      BY <3>1, <3>2, <3>3, <3>4
  <2> QED
    BY <2>1, <2>2
<1>5. now' \in Nat /\ now <= now'
  BY <1>1 DEF FleetInvariant, FleetTyped
<1>6. FleetTyped'
  BY <1>1, <1>5 DEF FleetInvariant, FleetTyped
<1>7. \A m \in Fleet : InspectionsOf(m)' = InspectionsOf(m)
  BY <1>1 DEF InspectionsOf
<1>8. \A m \in Fleet : Exists(m)' = Exists(m)
  BY <1>1 DEF Exists
<1>9. RecordsHold'
  <2>1. \A m \in Fleet : machine'[m].baseline <= now'
    <3> TAKE m \in Fleet
    <3>1. machine[m].baseline \in Nat /\ machine[m].baseline <= now /\ now \in Nat
      BY DEF FleetInvariant, FleetTyped, MachineRows, Absent, RecordsHold
    <3> QED
      BY <1>1, <1>5, <3>1
  <2>2. /\ \A d \in Checks : check'[d].at # "none" => check'[d].of \in Fleet
        /\ \A d \in Checks, m \in Fleet : check'[d].at # "none" /\ check'[d].of = m => Exists(m)
    BY <1>1 DEF RecordsHold
  <2>3. \A d \in Checks : check'[d].at \in {"begun", "committed"} => check'[d].time \in 1 .. now'
    <3> SUFFICES ASSUME NEW d \in Checks, check'[d].at \in {"begun", "committed"}
                 PROVE  check'[d].time \in 1 .. now'
      OBVIOUS
    <3>0. now \in Nat
      BY DEF FleetInvariant, FleetTyped
    <3>1. CASE d = c
      BY <1>1, <3>0, <3>1
    <3>2. CASE d # c
      <4>1. check[d].time \in 1 .. now /\ check'[d] = check[d]
        BY <1>1, <3>2 DEF FleetInvariant, RecordsHold
      <4> QED
        BY <1>5, <3>0, <4>1
    <3> QED
      BY <3>1, <3>2
  <2>4. \A d \in Checks : check'[d].at # "committed" => found'[d] = "none"
    BY <1>1 DEF RecordsHold
  <2>5. \A m \in Fleet : OpenBlocking(m)' = OpenBlocking(m)
    BY <1>1, <1>7 DEF OpenBlocking
  <2> QED
    BY <1>1, <1>8, <2>1, <2>2, <2>3, <2>4, <2>5 DEF RecordsHold
<1>10. Onward
  <2>1. today <= today' /\ \A m \in Fleet : machine[m].baseline <= machine'[m].baseline
    <3>1. today \in Nat /\ \A m \in Fleet : machine[m].baseline \in Nat
      BY DEF FleetInvariant, FleetTyped, MachineRows, Absent
    <3> QED
      BY <1>1, <3>1
  <2>2. \A d \in Checks : check[d].at = "committed" => check'[d] = check[d]
    BY <1>1
  <2> QED
    BY <1>1, <1>7, <1>8, <2>1, <2>2 DEF Onward
<1> QED
  BY <1>6, <1>9, <1>10 DEF FleetInvariant

(* A pass that is recorded past a lockout slips; a blocking failure locks out, or    *)
(* finds the machine retired or locked out (submit.ts:184-189, 258-260).             *)
LEMMA CommitSteps ==
  ASSUME FleetInvariant, NEW c \in Checks, CommitCheck(c)
  PROVE  FleetInvariant' /\ Onward
<1> USE DEF FleetInvariant
<1> DEFINE m == check[c].of
           blocking == check[c].verdict = "FAIL_BLOCKING"
<1>1. /\ check[c].at = "begun" /\ check' = [check EXCEPT ![c].at = "committed"]
      /\ found' = IF blocking THEN [found EXCEPT ![c] = "OPEN"] ELSE found
      /\ machine' = IF blocking /\ machine[m].status = "AWAITING_INSPECTION"
                    THEN [machine EXCEPT ![m].status = "OUT_OF_SERVICE", ![m].since = check[c].time]
                    ELSE machine
      /\ slipped' = IF ~blocking /\ machine[m].status # "AWAITING_INSPECTION"
                    THEN slipped \cup {m} ELSE slipped
      /\ UNCHANGED <<now, today>>
  BY DEF CommitCheck
<1>2. m \in Fleet /\ Exists(m) /\ check[c].time \in 1 .. now /\ check[c] \in CheckRows
  BY <1>1 DEF RecordsHold, FleetTyped
<1>3. /\ check' \in [Checks -> CheckRows] /\ check'[c].at = "committed" /\ check'[c].of = m
      /\ check'[c].time = check[c].time /\ check'[c].verdict = check[c].verdict
      /\ \A d \in Checks \ {c} : check'[d] = check[d]
  BY <1>1, <1>2 DEF FleetTyped, CheckRows
<1>4. /\ found' \in [Checks -> {"none", "OPEN", "RESOLVED", "REJECTED"}]
      /\ \A d \in Checks \ {c} : found'[d] = found[d]
      /\ ~blocking => found' = found /\ found'[c] = "none"
  BY <1>1 DEF FleetTyped, RecordsHold
<1>5. machine[m] \in MachineRows /\ machine[m] # Absent /\ now \in Nat
  BY <1>2 DEF FleetTyped, Exists
<1>6. /\ machine' \in [Fleet -> MachineRows] /\ machine'[m] # Absent
      /\ \A e \in Fleet : machine'[e].baseline = machine[e].baseline
      /\ \A e \in Fleet \ {m} : machine'[e] = machine[e]
      /\ blocking => machine'[m].status # "AWAITING_INSPECTION"
      /\ ~blocking => machine' = machine
  <2>1. CASE blocking /\ machine[m].status = "AWAITING_INSPECTION"
    <3>1. /\ machine[m] \in [status : StoredStatus, since : Nat, baseline : Nat]
          /\ check[c].time \in Nat /\ m \in Fleet
      BY <1>2, <1>5 DEF MachineRows
    <3>2. machine' = [machine EXCEPT ![m].status = "OUT_OF_SERVICE", ![m].since = check[c].time]
      BY <1>1, <2>1
    <3>3. /\ machine'[m] \in [status : StoredStatus, since : Nat, baseline : Nat]
          /\ machine'[m].status = "OUT_OF_SERVICE" /\ machine'[m].baseline = machine[m].baseline
          /\ \A e \in Fleet \ {m} : machine'[e] = machine[e]
          /\ DOMAIN machine' = Fleet /\ machine' = [e \in Fleet |-> machine'[e]]
      BY <3>1, <3>2 DEF FleetTyped, StoredStatus
    <3>4. machine'[m] # Absent
      BY <3>3 DEF Absent
    <3>5. machine' \in [Fleet -> MachineRows]
      BY <3>1, <3>3 DEF FleetTyped, MachineRows
    <3> HIDE DEF m
    <3> QED
      BY <2>1, <3>3, <3>4, <3>5
  <2>2. CASE ~(blocking /\ machine[m].status = "AWAITING_INSPECTION")
    BY <1>1, <1>5, <2>2 DEF FleetTyped
  <2> QED
    BY <2>1, <2>2
<1>7. slipped \subseteq slipped' /\ slipped' \subseteq Fleet
  BY <1>1, <1>2 DEF FleetTyped
<1>8. ~blocking /\ m \notin slipped' => machine'[m].status = "AWAITING_INSPECTION"
  BY <1>1
<1> HIDE DEF m, blocking
<1>9. blocking <=> check[c].verdict # "PASS"
  BY <1>2 DEF blocking, CheckRows, Verdict
<1>10. \A e \in Fleet : InspectionsOf(e)' = IF e = m THEN InspectionsOf(e) \cup {c} ELSE InspectionsOf(e)
  BY <1>1, <1>3 DEF InspectionsOf, m
<1>11. \A e \in Fleet : Exists(e) => Exists(e)'
  BY <1>6 DEF Exists
<1>12. FleetTyped'
  BY <1>1, <1>3, <1>4, <1>6, <1>7 DEF FleetTyped
<1>13. \A e \in Fleet : machine'[e].status = "AWAITING_INSPECTION" /\ OpenBlocking(e)' # {} => e \in slipped'
  <2> SUFFICES ASSUME NEW e \in Fleet, machine'[e].status = "AWAITING_INSPECTION",
                      NEW d \in OpenBlocking(e)'
               PROVE  e \in slipped'
    OBVIOUS
  <2>1. d \in InspectionsOf(e)' /\ found'[d] = "OPEN" /\ d \in Checks
    BY DEF OpenBlocking, InspectionsOf
  <2>2. d # c \/ e # m
    BY <1>4, <1>6, <2>1
  <2>3. d \in InspectionsOf(e)
    BY <1>10, <2>1, <2>2
  <2>4. d # c
    BY <1>1, <2>3 DEF InspectionsOf
  <2>5. d \in OpenBlocking(e)
    BY <1>4, <2>1, <2>3, <2>4 DEF OpenBlocking
  <2>6. machine[e].status = "AWAITING_INSPECTION"
    BY <1>2, <1>6
  <2> QED
    BY <1>7, <2>5, <2>6 DEF RecordsHold
<1>14. \A d \in Checks : check'[d].at \in {"begun", "committed"} => check'[d].time \in 1 .. now'
  BY <1>1, <1>2, <1>3 DEF RecordsHold
<1>15. /\ \A d \in Checks : check'[d].at # "none" => check'[d].of \in Fleet
       /\ \A d \in Checks, e \in Fleet : check'[d].at # "none" /\ check'[d].of = e => Exists(e)
  BY <1>1, <1>2, <1>3 DEF RecordsHold
<1>16. \A d \in Checks : check'[d].at # "committed" => found'[d] = "none"
  BY <1>3, <1>4 DEF RecordsHold
<1>17. \A e \in Fleet : machine'[e].baseline <= now'
  BY <1>1, <1>6 DEF RecordsHold
<1>18. RecordsHold'
  BY <1>11, <1>13, <1>14, <1>15, <1>16, <1>17 DEF RecordsHold
<1>19. Onward
  <2>1. today <= today' /\ \A e \in Fleet : machine[e].baseline <= machine'[e].baseline
    <3>1. today \in Nat /\ \A e \in Fleet : machine[e].baseline \in Nat
      BY DEF FleetTyped, MachineRows, Absent
    <3> QED
      BY <1>1, <1>6, <3>1
  <2>2. \A d \in Checks : check[d].at = "committed" => check'[d] = check[d]
    BY <1>1, <1>3
  <2>3. \A e \in Fleet, d \in Checks : Exists(e) /\ e \notin slipped' =>
          (d \in InspectionsOf(e)' /\ check'[d].verdict = "PASS" =>
             d \in InspectionsOf(e) \/ machine'[e].status = "AWAITING_INSPECTION")
    BY <1>3, <1>8, <1>9, <1>10
  <2> QED
    BY <1>7, <1>10, <1>11, <2>1, <2>2, <2>3 DEF Onward
<1> QED
  BY <1>12, <1>18, <1>19

(* Defects are closed, machines return, retire and are created, nights pass: no      *)
(* inspection changes, and the baseline only moves on.                              *)
LEMMA UpkeepSteps ==
  ASSUME FleetInvariant,
         \/ \E c \in Checks, o \in {"RESOLVED", "REJECTED"} : CloseDefect(c, o)
         \/ \E m \in Fleet : ReturnToService(m) \/ Retire(m) \/ CreateEquipment(m)
         \/ Midnight
  PROVE  FleetInvariant' /\ Onward
<1> USE DEF FleetInvariant
<1>0. /\ now \in Nat /\ today \in 0 .. now
      /\ \A m \in Fleet : machine[m] \in MachineRows /\ machine[m].baseline \in 0 .. now
  BY DEF FleetTyped, RecordsHold, MachineRows, Absent
<1>1. ASSUME UNCHANGED check, slipped \subseteq slipped', slipped' \subseteq Fleet,
             now' \in Nat, now <= now', today' \in today .. now',
             machine' \in [Fleet -> MachineRows],
             \A m \in Fleet : machine[m].baseline <= machine'[m].baseline /\ machine'[m].baseline <= now',
             \A m \in Fleet : Exists(m) => Exists(m)',
             found' \in [Checks -> {"none", "OPEN", "RESOLVED", "REJECTED"}],
             \A c \in Checks : found'[c] \in {"none", "OPEN"} => found'[c] = found[c],
             \A c \in Checks : found[c] = "none" => found'[c] = "none",
             \A m \in Fleet : machine'[m].status = "AWAITING_INSPECTION" /\ OpenBlocking(m) # {}
                                => m \in slipped' \/ machine[m].status = "AWAITING_INSPECTION"
      PROVE  FleetInvariant' /\ Onward
  <2>1. \A m \in Fleet : InspectionsOf(m)' = InspectionsOf(m)
    BY <1>1 DEF InspectionsOf
  <2>2. \A m \in Fleet : OpenBlocking(m)' \subseteq OpenBlocking(m)
    BY <1>1, <2>1 DEF OpenBlocking, InspectionsOf
  <2>3. FleetTyped'
    BY <1>0, <1>1 DEF FleetTyped
  <2>4. \A c \in Checks : check[c].at \in {"begun", "committed"} => check[c].time \in 1 .. now'
    BY <1>0, <1>1 DEF RecordsHold
  <2>5. \A m \in Fleet : machine'[m].status = "AWAITING_INSPECTION" /\ OpenBlocking(m)' # {} => m \in slipped'
    BY <1>1, <2>2 DEF RecordsHold
  <2>6. RecordsHold'
    BY <1>1, <2>4, <2>5 DEF RecordsHold
  <2>7. Onward
    BY <1>0, <1>1, <2>1 DEF Onward
  <2> QED
    BY <2>3, <2>6, <2>7
<1>2. CASE \E c \in Checks, o \in {"RESOLVED", "REJECTED"} : CloseDefect(c, o)
  <2> PICK c \in Checks, o \in {"RESOLVED", "REJECTED"} : CloseDefect(c, o)
    BY <1>2
  <2>1. /\ found[c] = "OPEN" /\ found' = [found EXCEPT ![c] = o]
        /\ UNCHANGED <<now, today, machine, check, slipped>>
    BY DEF CloseDefect
  <2>2. /\ found' \in [Checks -> {"none", "OPEN", "RESOLVED", "REJECTED"}]
        /\ \A d \in Checks : found'[d] \in {"none", "OPEN"} => found'[d] = found[d]
        /\ \A d \in Checks : found[d] = "none" => found'[d] = "none"
    BY <2>1 DEF FleetTyped
  <2>3. /\ \A m \in Fleet : Exists(m) => Exists(m)'
        /\ machine' \in [Fleet -> MachineRows] /\ slipped' \subseteq Fleet
    BY <2>1 DEF Exists, FleetTyped
  <2> QED
    BY <1>0, <1>1, <2>1, <2>2, <2>3
<1>3. ASSUME NEW m \in Fleet, NEW row \in MachineRows, row # Absent,
             machine' = [machine EXCEPT ![m] = row],
             row.baseline \in machine[m].baseline .. now',
             UNCHANGED <<check, found, today>>, slipped \subseteq slipped', slipped' \subseteq Fleet,
             now' \in Nat, now <= now',
             row.status = "AWAITING_INSPECTION" /\ OpenBlocking(m) # {} => m \in slipped'
      PROVE  FleetInvariant' /\ Onward
  <2>1. /\ machine' \in [Fleet -> MachineRows] /\ machine'[m] = row
        /\ \A e \in Fleet \ {m} : machine'[e] = machine[e]
    BY <1>3 DEF FleetTyped
  <2>2. \A e \in Fleet : machine[e].baseline <= machine'[e].baseline /\ machine'[e].baseline <= now'
    BY <1>0, <1>3, <2>1
  <2>3. \A e \in Fleet : Exists(e) => Exists(e)'
    BY <1>3, <2>1 DEF Exists
  <2>4. \A e \in Fleet : machine'[e].status = "AWAITING_INSPECTION" /\ OpenBlocking(e) # {}
                                => e \in slipped' \/ machine[e].status = "AWAITING_INSPECTION"
    BY <1>3, <2>1
  <2>5. /\ found' \in [Checks -> {"none", "OPEN", "RESOLVED", "REJECTED"}]
        /\ \A c \in Checks : found'[c] = found[c]
    BY <1>3 DEF FleetTyped
  <2>6. today' \in today .. now'
    BY <1>0, <1>3
  <2> QED
    BY <1>1, <1>3, <2>1, <2>2, <2>3, <2>4, <2>5, <2>6
<1>4. CASE \E m \in Fleet : ReturnToService(m)
  <2> PICK m \in Fleet : ReturnToService(m)
    BY <1>4
  <2> DEFINE row == [status |-> "AWAITING_INSPECTION", since |-> now + 1, baseline |-> now + 1]
  <2>1. /\ row \in MachineRows /\ row # Absent /\ row.baseline = now + 1
    BY <1>0 DEF MachineRows, StoredStatus, Absent
  <2>2. /\ now' = now + 1 /\ machine' = [machine EXCEPT ![m] = row]
        /\ slipped' = IF OpenBlocking(m) # {} THEN slipped \cup {m} ELSE slipped
        /\ UNCHANGED <<today, check, found>>
    BY DEF ReturnToService
  <2> HIDE DEF row
  <2>3. now' \in Nat /\ now <= now' /\ row.baseline \in machine[m].baseline .. now'
    BY <1>0, <2>1, <2>2
  <2>4. slipped \subseteq slipped' /\ slipped' \subseteq Fleet
        /\ (OpenBlocking(m) # {} => m \in slipped')
    BY <2>2 DEF FleetTyped
  <2> QED
    BY <1>3, <2>1, <2>2, <2>3, <2>4
<1>5. CASE \E m \in Fleet : CreateEquipment(m)
  <2> PICK m \in Fleet : CreateEquipment(m)
    BY <1>5
  <2> DEFINE row == [status |-> "AWAITING_INSPECTION", since |-> now, baseline |-> now]
  <2>1. /\ row \in MachineRows /\ row # Absent /\ row.baseline = now
    BY <1>0 DEF MachineRows, StoredStatus, Absent
  <2>2. /\ ~Exists(m) /\ machine' = [machine EXCEPT ![m] = row]
        /\ UNCHANGED <<now, today, check, found, slipped>>
    BY DEF CreateEquipment
  <2> HIDE DEF row
  <2>3. now' \in Nat /\ now <= now' /\ row.baseline \in machine[m].baseline .. now'
    BY <1>0, <2>1, <2>2
  <2>4. OpenBlocking(m) = {}
    BY <2>2 DEF OpenBlocking, InspectionsOf, RecordsHold
  <2>5. slipped \subseteq slipped' /\ slipped' \subseteq Fleet
    BY <2>2 DEF FleetTyped
  <2> QED
    BY <1>3, <2>1, <2>2, <2>3, <2>4, <2>5
<1>6. CASE \E m \in Fleet : Retire(m)
  <2> PICK m \in Fleet : Retire(m)
    BY <1>6
  <2>1. /\ machine[m] # Absent /\ machine[m] \in MachineRows
        /\ machine' = [machine EXCEPT ![m].status = "RETIRED"]
        /\ UNCHANGED <<now, today, check, found, slipped>>
    BY <1>0 DEF Retire, Exists
  <2>2. /\ machine' \in [Fleet -> MachineRows] /\ machine'[m] # Absent
        /\ machine'[m].status = "RETIRED"
        /\ \A e \in Fleet : machine'[e].baseline = machine[e].baseline
        /\ \A e \in Fleet \ {m} : machine'[e] = machine[e]
    BY <2>1 DEF FleetTyped, MachineRows, Absent, StoredStatus
  <2>3. \A e \in Fleet : Exists(e) => Exists(e)'
    BY <2>2 DEF Exists
  <2>4. \A e \in Fleet : machine[e].baseline <= machine'[e].baseline /\ machine'[e].baseline <= now'
    BY <1>0, <2>1, <2>2
  <2>5. \A e \in Fleet : machine'[e].status = "AWAITING_INSPECTION" /\ OpenBlocking(e) # {}
                                => e \in slipped' \/ machine[e].status = "AWAITING_INSPECTION"
    BY <2>2
  <2>6. found' \in [Checks -> {"none", "OPEN", "RESOLVED", "REJECTED"}] /\ slipped' \subseteq Fleet
    BY <2>1 DEF FleetTyped
  <2>7. now' \in Nat /\ now <= now' /\ today' \in today .. now'
    BY <1>0, <2>1
  <2> QED
    BY <1>1, <2>1, <2>2, <2>3, <2>4, <2>5, <2>6, <2>7
<1>7. CASE Midnight
  <2>1. now' = now + 1 /\ today' = now + 1 /\ UNCHANGED <<machine, check, found, slipped>>
    BY <1>7 DEF Midnight
  <2>2. now' \in Nat /\ now <= now' /\ today' \in today .. now'
    BY <1>0, <2>1
  <2>3. \A e \in Fleet : Exists(e) => Exists(e)'
    BY <2>1 DEF Exists
  <2>4. /\ found' \in [Checks -> {"none", "OPEN", "RESOLVED", "REJECTED"}] /\ slipped' \subseteq Fleet
        /\ machine' \in [Fleet -> MachineRows]
    BY <2>1 DEF FleetTyped
  <2>5. \A e \in Fleet : machine[e].baseline <= machine'[e].baseline /\ machine'[e].baseline <= now'
    BY <1>0, <2>1
  <2> QED
    BY <1>1, <2>1, <2>2, <2>3, <2>4, <2>5
<1> QED
  BY <1>2, <1>4, <1>5, <1>6, <1>7

LEMMA WritesHold ==
  ASSUME FleetInvariant, Writes
  PROVE  FleetInvariant' /\ Onward
BY SubmitSteps, CommitSteps, UpkeepSteps DEF Writes

-----------------------------------------------------------------------------
(* The requests *)

AsksTyped == ask \in [Asks -> AskRows]

(* The status of any moment is among those noted; what was read at first was so. *)
SeenHolds ==
  \A a \in Asks, m \in Fleet : ask[a].at # "idle" /\ ask[a].row[m] # "absent" =>
    /\ Exists(m)
    /\ ask[a].at \in Underway => StatusOf(m) \in ask[a].seen[m]
    /\ ask[a].row[m] # "AWAITING_INSPECTION" => ask[a].row[m] \in ask[a].seen[m]
    /\ ask[a].row[m] = "AWAITING_INSPECTION" =>
         "AWAITING_INSPECTION" \in ask[a].seen[m] \/ "READY" \in ask[a].seen[m]

(* A pass that counts was there when the machine was READY; where none counts, it   *)
(* was not.                                                                       *)
PassHolds ==
  \A a \in Asks, m \in Fleet : ask[a].row[m] = "AWAITING_INSPECTION" =>
    /\ ask[a].at = "rows" /\ m \notin slipped /\ PassesToday(m) # {} => "READY" \in ask[a].seen[m]
    /\ ask[a].at \in {"passes", "blocked", "answered"} =>
         IF ask[a].pass[m] = 0 THEN \E x \in ask[a].seen[m] : x # "READY"
         ELSE m \in slipped \/ "READY" \in ask[a].seen[m]
    /\ ask[a].at \in {"passes", "blocked"} /\ ask[a].pass[m] # 0 =>
         \E c \in InspectionsOf(m) : check[c].time = ask[a].pass[m]

AnswerHolds ==
  \A a \in Asks, m \in Fleet : ask[a].at \in {"blocked", "answered"} =>
    /\ ask[a].row[m] # "AWAITING_INSPECTION" => ask[a].answer[m] = ask[a].row[m]
    /\ ask[a].row[m] = "AWAITING_INSPECTION" =>
         \/ ask[a].answer[m] = "READY" /\ ask[a].pass[m] # 0
         \/ ask[a].answer[m] = "AWAITING_INSPECTION" /\ \E x \in ask[a].seen[m] : x # "READY"
    /\ ask[a].at = "answered" /\ ask[a].list /\ ask[a].answer[m] = "READY"
         => ask[a].last[m] >= ask[a].pass[m]

AskInvariant == AsksTyped /\ SeenHolds /\ PassHolds /\ AnswerHolds

LEMMA AsksStart == ReadinessInit => AskInvariant
<1> SUFFICES ASSUME ReadinessInit
             PROVE  AskInvariant
  OBVIOUS
<1>1. AsksTyped
  BY DEF ReadinessInit, AsksTyped, AskRows, Asked
<1>2. \A a \in Asks : ask[a].at = "idle" /\ \A m \in Fleet : ask[a].row[m] = "absent"
  BY DEF ReadinessInit
<1> QED
  BY <1>1, <1>2 DEF AskInvariant, SeenHolds, PassHolds, AnswerHolds

(* While others write, a request only notes. *)
LEMMA WitnessNotes ==
  ASSUME AsksTyped, StatusTells', Witness
  PROVE  /\ AsksTyped'
         /\ \A a \in Asks :
              /\ ask'[a].at = ask[a].at /\ ask'[a].list = ask[a].list /\ ask'[a].row = ask[a].row
              /\ ask'[a].pass = ask[a].pass /\ ask'[a].last = ask[a].last
              /\ ask'[a].answer = ask[a].answer
              /\ \A m \in Fleet : ask[a].seen[m] \subseteq ask'[a].seen[m]
              /\ ask[a].at \in Underway => \A m \in Fleet :
                   Exists(m)' => StatusOf(m)' \in ask'[a].seen[m]
<1> DEFINE noted(a) == [m \in Fleet |-> IF Exists(m)' THEN ask[a].seen[m] \cup {StatusOf(m)'}
                                        ELSE ask[a].seen[m]]
<1>1. \A a \in Asks : ask[a] \in AskRows
  BY DEF AsksTyped
<1>2. \A a \in Asks : ask'[a] = IF ask[a].at \in Underway
                                THEN [ask[a] EXCEPT !.seen = noted(a)] ELSE ask[a]
  BY DEF Witness, Underway
<1>3. \A m \in Fleet : Exists(m)' => StatusOf(m)' \in EquipmentStatus
  BY DEF StatusTells
<1>4. \A a \in Asks : /\ noted(a) \in [Fleet -> SUBSET EquipmentStatus]
                      /\ \A m \in Fleet : ask[a].seen[m] \subseteq noted(a)[m]
                      /\ \A m \in Fleet : Exists(m)' => StatusOf(m)' \in noted(a)[m]
  BY <1>1, <1>3 DEF AskRows
<1> HIDE DEF noted
<1>5. \A a \in Asks :
        /\ ask'[a] \in AskRows
        /\ ask'[a].at = ask[a].at /\ ask'[a].list = ask[a].list /\ ask'[a].row = ask[a].row
        /\ ask'[a].pass = ask[a].pass /\ ask'[a].last = ask[a].last
        /\ ask'[a].answer = ask[a].answer
        /\ ask'[a].seen = IF ask[a].at \in Underway THEN noted(a) ELSE ask[a].seen
  <2> TAKE a \in Asks
  <2>1. CASE ask[a].at \in Underway
    <3> DEFINE notes == noted(a)
    <3>1. ask'[a] = [ask[a] EXCEPT !.seen = notes] /\ notes \in [Fleet -> SUBSET EquipmentStatus]
      BY <1>2, <1>4, <2>1
    <3> HIDE DEF notes
    <3>2. ask[a] \in AskRows
      BY <1>1
    <3>3. ask'[a] \in AskRows
      BY <3>1, <3>2 DEF AskRows
    <3>4. /\ ask'[a].at = ask[a].at /\ ask'[a].list = ask[a].list /\ ask'[a].row = ask[a].row
          /\ ask'[a].pass = ask[a].pass /\ ask'[a].last = ask[a].last
          /\ ask'[a].answer = ask[a].answer /\ ask'[a].seen = notes
      BY <3>1, <3>2 DEF AskRows
    <3> QED
      BY <2>1, <3>3, <3>4 DEF notes
  <2>2. CASE ask[a].at \notin Underway
    BY <1>1, <1>2, <2>2
  <2> QED
    BY <2>1, <2>2
<1>6. ask' = [a \in Asks |-> ask'[a]]
  BY DEF Witness
<1>7. AsksTyped'
  BY <1>5, <1>6 DEF AsksTyped
<1> QED
  BY <1>4, <1>5, <1>7

LEMMA NotingSteps ==
  ASSUME FleetInvariant, AskInvariant, Writes, FleetInvariant', StatusTells'
  PROVE  AskInvariant'
<1>1. Onward
  BY WritesHold
<1>2. Witness
  BY DEF Writes, AdmitCheck, BeginCheck, CommitCheck, CloseDefect, ReturnToService, Retire,
         CreateEquipment, Midnight
<1>3. /\ AsksTyped'
      /\ \A a \in Asks :
           /\ ask'[a].at = ask[a].at /\ ask'[a].list = ask[a].list /\ ask'[a].row = ask[a].row
           /\ ask'[a].pass = ask[a].pass /\ ask'[a].last = ask[a].last
           /\ ask'[a].answer = ask[a].answer
           /\ \A m \in Fleet : ask[a].seen[m] \subseteq ask'[a].seen[m]
           /\ ask[a].at \in Underway => \A m \in Fleet :
                Exists(m)' => StatusOf(m)' \in ask'[a].seen[m]
  BY <1>2, WitnessNotes DEF AskInvariant
<1>4. SeenHolds'
  <2> SUFFICES ASSUME NEW a \in Asks, NEW m \in Fleet,
                      ask'[a].at # "idle", ask'[a].row[m] # "absent"
               PROVE  /\ Exists(m)'
                      /\ ask'[a].at \in Underway => StatusOf(m)' \in ask'[a].seen[m]
                      /\ ask'[a].row[m] # "AWAITING_INSPECTION" => ask'[a].row[m] \in ask'[a].seen[m]
                      /\ ask'[a].row[m] = "AWAITING_INSPECTION" =>
                           "AWAITING_INSPECTION" \in ask'[a].seen[m] \/ "READY" \in ask'[a].seen[m]
    BY DEF SeenHolds
  <2>1. Exists(m)'
    BY <1>1, <1>3 DEF AskInvariant, SeenHolds, Onward
  <2> QED
    BY <1>3, <2>1 DEF AskInvariant, SeenHolds
<1>5. PassHolds'
  <2> SUFFICES ASSUME NEW a \in Asks, NEW m \in Fleet, ask'[a].row[m] = "AWAITING_INSPECTION"
               PROVE  /\ ask'[a].at = "rows" /\ m \notin slipped' /\ PassesToday(m)' # {}
                           => "READY" \in ask'[a].seen[m]
                      /\ ask'[a].at \in {"passes", "blocked", "answered"} =>
                           IF ask'[a].pass[m] = 0 THEN \E x \in ask'[a].seen[m] : x # "READY"
                           ELSE m \in slipped' \/ "READY" \in ask'[a].seen[m]
                      /\ ask'[a].at \in {"passes", "blocked"} /\ ask'[a].pass[m] # 0 =>
                           \E c \in InspectionsOf(m)' : check'[c].time = ask'[a].pass[m]
    BY DEF PassHolds
  <2>1. ask[a].row[m] = "AWAITING_INSPECTION"
    BY <1>3
  <2>2. ASSUME ask'[a].at = "rows", m \notin slipped', PassesToday(m)' # {}
        PROVE  "READY" \in ask'[a].seen[m]
    <3>1. ask[a].at = "rows" /\ m \notin slipped
      BY <1>1, <1>3, <2>2 DEF Onward
    <3>2. Exists(m) /\ Exists(m)'
      BY <1>1, <2>1, <3>1 DEF AskInvariant, SeenHolds, Onward
    <3>3. PICK c \in PassesToday(m)' : TRUE
      BY <2>2
    <3>4. /\ c \in InspectionsOf(m)' /\ c \in Checks /\ check'[c].verdict = "PASS"
          /\ check'[c].time >= machine'[m].baseline /\ check'[c].time >= today'
      BY <3>3 DEF PassesToday, InspectionsOf
    <3>5. CASE c \in InspectionsOf(m)
      <4>1. check'[c] = check[c]
        BY <1>1, <3>5 DEF Onward, InspectionsOf
      <4>2. machine[m].baseline <= machine'[m].baseline /\ today <= today'
        BY <1>1, <3>2 DEF Onward
      <4>3. /\ check[c].time \in Nat /\ today \in Nat /\ today' \in Nat
            /\ machine[m].baseline \in Nat /\ machine'[m].baseline \in Nat
        BY <3>4, <4>1 DEF FleetInvariant, FleetTyped, CheckRows, MachineRows, Absent
      <4>4. check[c].time >= machine[m].baseline /\ check[c].time >= today
        BY <3>4, <4>1, <4>2, <4>3
      <4>5. c \in PassesToday(m)
        BY <3>4, <3>5, <4>1, <4>4 DEF PassesToday
      <4> QED
        BY <1>3, <2>1, <3>1, <4>5 DEF AskInvariant, PassHolds
    <3>6. CASE c \notin InspectionsOf(m)
      <4>1. machine'[m].status = "AWAITING_INSPECTION"
        BY <1>1, <2>2, <3>2, <3>4, <3>6 DEF Onward
      <4>2. StatusOf(m)' = "READY"
        BY <2>2, <3>2, <4>1 DEF StatusTells
      <4> QED
        BY <1>3, <3>1, <3>2, <4>2 DEF Underway
    <3> QED
      BY <3>5, <3>6
  <2>3. ASSUME ask'[a].at \in {"passes", "blocked", "answered"}
        PROVE  IF ask'[a].pass[m] = 0 THEN \E x \in ask'[a].seen[m] : x # "READY"
               ELSE m \in slipped' \/ "READY" \in ask'[a].seen[m]
    <3>1. IF ask[a].pass[m] = 0 THEN \E x \in ask[a].seen[m] : x # "READY"
          ELSE m \in slipped \/ "READY" \in ask[a].seen[m]
      BY <1>3, <2>1, <2>3 DEF AskInvariant, PassHolds
    <3>2. slipped \subseteq slipped'
      BY <1>1 DEF Onward
    <3> QED
      BY <1>3, <3>1, <3>2
  <2>4. ASSUME ask'[a].at \in {"passes", "blocked"}, ask'[a].pass[m] # 0
        PROVE  \E c \in InspectionsOf(m)' : check'[c].time = ask'[a].pass[m]
    <3>1. PICK c \in InspectionsOf(m) : check[c].time = ask[a].pass[m]
      BY <1>3, <2>1, <2>4 DEF AskInvariant, PassHolds
    <3>2. c \in InspectionsOf(m)' /\ check'[c] = check[c]
      BY <1>1, <3>1 DEF Onward, InspectionsOf
    <3> QED
      BY <1>3, <3>1, <3>2
  <2> QED
    BY <2>2, <2>3, <2>4
<1>6. AnswerHolds'
  <2> SUFFICES ASSUME NEW a \in Asks, NEW m \in Fleet, ask'[a].at \in {"blocked", "answered"}
               PROVE  /\ ask'[a].row[m] # "AWAITING_INSPECTION" => ask'[a].answer[m] = ask'[a].row[m]
                      /\ ask'[a].row[m] = "AWAITING_INSPECTION" =>
                           \/ ask'[a].answer[m] = "READY" /\ ask'[a].pass[m] # 0
                           \/ /\ ask'[a].answer[m] = "AWAITING_INSPECTION"
                              /\ \E x \in ask'[a].seen[m] : x # "READY"
                      /\ ask'[a].at = "answered" /\ ask'[a].list /\ ask'[a].answer[m] = "READY"
                           => ask'[a].last[m] >= ask'[a].pass[m]
    BY DEF AnswerHolds
  <2> QED
    BY <1>3 DEF AskInvariant, AnswerHolds
<1> QED
  BY <1>3, <1>4, <1>5, <1>6 DEF AskInvariant

(* What a request reads is of one moment: the records do not move under it. *)
LEMMA StandStill ==
  ASSUME UNCHANGED <<fleetVars, slipped>>
  PROVE  /\ \A m \in Fleet : /\ Exists(m)' = Exists(m) /\ StatusOf(m)' = StatusOf(m)
                             /\ InspectionsOf(m)' = InspectionsOf(m)
                             /\ PassesToday(m)' = PassesToday(m)
                             /\ OpenBlocking(m)' = OpenBlocking(m)
         /\ FleetInvariant => FleetInvariant'
BY DEF fleetVars, Exists, StatusOf, InspectionsOf, PassesToday, OpenBlocking, FleetInvariant,
       FleetTyped, RecordsHold

(* The times of the recorded inspections of a machine: 0 stands for none. *)
LEMMA TimesOfRecords ==
  ASSUME FleetInvariant, NEW m \in Fleet, NEW S \in SUBSET InspectionsOf(m)
  PROVE  /\ TimeOf(S) \in Nat
         /\ TimeOf(S) = 0 <=> S = {}
         /\ S # {} => \E c \in S : check[c].time = TimeOf(S)
         /\ \A c \in S : check[c].time <= TimeOf(S)
<1>1. S \subseteq Checks /\ now \in Nat /\ \A c \in S : check[c].time \in 1 .. now
  BY DEF InspectionsOf, FleetInvariant, FleetTyped, RecordsHold
<1>2. CASE S = {}
  BY <1>2 DEF TimeOf
<1>3. CASE S # {}
  <2>1. \A c \in S : check[c].time <= now
    BY <1>1
  <2>2. /\ \E c \in S : TimeOf(S) = check[c].time
        /\ \A c \in S : check[c].time <= TimeOf(S)
    BY <1>1, <1>3, <2>1, LatestTime DEF FleetInvariant
  <2> QED
    BY <1>1, <1>3, <2>2
<1> QED
  BY <1>2, <1>3

(* A request that takes a step holds good when what it now says of each machine does. *)
LEMMA OneRequestMoves ==
  ASSUME FleetInvariant, AskInvariant, UNCHANGED <<fleetVars, slipped>>,
         NEW a \in Asks, NEW r \in AskRows, ask' = [ask EXCEPT ![a] = r],
         \A m \in Fleet : r.row[m] # "absent" =>
           /\ Exists(m)
           /\ r.at \in Underway => StatusOf(m) \in r.seen[m]
           /\ r.row[m] # "AWAITING_INSPECTION" => r.row[m] \in r.seen[m]
           /\ r.row[m] = "AWAITING_INSPECTION" =>
                "AWAITING_INSPECTION" \in r.seen[m] \/ "READY" \in r.seen[m],
         \A m \in Fleet : r.row[m] = "AWAITING_INSPECTION" =>
           /\ r.at = "rows" /\ m \notin slipped /\ PassesToday(m) # {} => "READY" \in r.seen[m]
           /\ r.at \in {"passes", "blocked", "answered"} =>
                IF r.pass[m] = 0 THEN \E x \in r.seen[m] : x # "READY"
                ELSE m \in slipped \/ "READY" \in r.seen[m]
           /\ r.at \in {"passes", "blocked"} /\ r.pass[m] # 0 =>
                \E c \in InspectionsOf(m) : check[c].time = r.pass[m],
         \A m \in Fleet : r.at \in {"blocked", "answered"} =>
           /\ r.row[m] # "AWAITING_INSPECTION" => r.answer[m] = r.row[m]
           /\ r.row[m] = "AWAITING_INSPECTION" =>
                \/ r.answer[m] = "READY" /\ r.pass[m] # 0
                \/ r.answer[m] = "AWAITING_INSPECTION" /\ \E x \in r.seen[m] : x # "READY"
           /\ r.at = "answered" /\ r.list /\ r.answer[m] = "READY" => r.last[m] >= r.pass[m]
  PROVE  AskInvariant'
<1>1. /\ ask' \in [Asks -> AskRows] /\ ask'[a] = r
      /\ \A b \in Asks \ {a} : ask'[b] = ask[b]
  BY DEF AskInvariant, AsksTyped
<1>2. check' = check /\ slipped' = slipped
  BY DEF fleetVars
<1>3. \A m \in Fleet : /\ Exists(m)' = Exists(m) /\ StatusOf(m)' = StatusOf(m)
                       /\ InspectionsOf(m)' = InspectionsOf(m)
                       /\ PassesToday(m)' = PassesToday(m)
  BY StandStill
<1>4. AsksTyped'
  BY <1>1 DEF AsksTyped, AskRows
<1>5. SeenHolds'
  <2> SUFFICES ASSUME NEW b \in Asks, NEW m \in Fleet,
                      ask'[b].at # "idle", ask'[b].row[m] # "absent"
               PROVE  /\ Exists(m)'
                      /\ ask'[b].at \in Underway => StatusOf(m)' \in ask'[b].seen[m]
                      /\ ask'[b].row[m] # "AWAITING_INSPECTION" => ask'[b].row[m] \in ask'[b].seen[m]
                      /\ ask'[b].row[m] = "AWAITING_INSPECTION" =>
                           "AWAITING_INSPECTION" \in ask'[b].seen[m] \/ "READY" \in ask'[b].seen[m]
    BY DEF SeenHolds
  <2>1. CASE b = a
    BY <1>1, <1>3, <2>1
  <2>2. CASE b # a
    BY <1>1, <1>3, <2>2 DEF AskInvariant, SeenHolds
  <2> QED
    BY <2>1, <2>2
<1>6. PassHolds'
  <2> SUFFICES ASSUME NEW b \in Asks, NEW m \in Fleet, ask'[b].row[m] = "AWAITING_INSPECTION"
               PROVE  /\ ask'[b].at = "rows" /\ m \notin slipped' /\ PassesToday(m)' # {}
                           => "READY" \in ask'[b].seen[m]
                      /\ ask'[b].at \in {"passes", "blocked", "answered"} =>
                           IF ask'[b].pass[m] = 0 THEN \E x \in ask'[b].seen[m] : x # "READY"
                           ELSE m \in slipped' \/ "READY" \in ask'[b].seen[m]
                      /\ ask'[b].at \in {"passes", "blocked"} /\ ask'[b].pass[m] # 0 =>
                           \E c \in InspectionsOf(m)' : check'[c].time = ask'[b].pass[m]
    BY DEF PassHolds
  <2>1. CASE b = a
    BY <1>1, <1>2, <1>3, <2>1
  <2>2. CASE b # a
    BY <1>1, <1>2, <1>3, <2>2 DEF AskInvariant, PassHolds
  <2> QED
    BY <2>1, <2>2
<1>7. AnswerHolds'
  <2> SUFFICES ASSUME NEW b \in Asks, NEW m \in Fleet, ask'[b].at \in {"blocked", "answered"}
               PROVE  /\ ask'[b].row[m] # "AWAITING_INSPECTION" => ask'[b].answer[m] = ask'[b].row[m]
                      /\ ask'[b].row[m] = "AWAITING_INSPECTION" =>
                           \/ ask'[b].answer[m] = "READY" /\ ask'[b].pass[m] # 0
                           \/ /\ ask'[b].answer[m] = "AWAITING_INSPECTION"
                              /\ \E x \in ask'[b].seen[m] : x # "READY"
                      /\ ask'[b].at = "answered" /\ ask'[b].list /\ ask'[b].answer[m] = "READY"
                           => ask'[b].last[m] >= ask'[b].pass[m]
    BY DEF AnswerHolds
  <2>1. CASE b = a
    BY <1>1, <2>1
  <2>2. CASE b # a
    BY <1>1, <2>2 DEF AskInvariant, AnswerHolds
  <2> QED
    BY <2>1, <2>2
<1> QED
  BY <1>4, <1>5, <1>6, <1>7 DEF AskInvariant

(* SELECT ... FROM equipment: what a row says is noted with the status of that moment. *)
LEMMA RowSteps ==
  ASSUME FleetInvariant, AskInvariant, UNCHANGED <<fleetVars, slipped>>, NEW a \in Asks,
         NEW whole \in BOOLEAN, NEW S \in SUBSET {m \in Fleet : Exists(m)}, ReadRows(a, whole, S)
  PROVE  AskInvariant'
<1> DEFINE row == [m \in Fleet |-> IF m \in S THEN machine[m].status ELSE "absent"]
           notes == [m \in Fleet |-> IF Exists(m) THEN {StatusOf(m)} ELSE {}]
           r == [ask[a] EXCEPT !.at = "rows", !.list = whole, !.row = row, !.seen = notes]
<1>1. StatusTells
  BY StatusIsTelling
<1>2. row \in [Fleet -> StoredStatus \cup {"absent"}]
  <2>1. \A m \in S : machine[m].status \in StoredStatus
    BY DEF FleetInvariant, FleetTyped, MachineRows, Exists
  <2> QED
    BY <2>1
<1>3. notes \in [Fleet -> SUBSET EquipmentStatus]
  BY <1>1 DEF StatusTells
<1>4. ask[a] \in AskRows
  BY DEF AskInvariant, AsksTyped
<1>5. ask' = [ask EXCEPT ![a] = r]
  BY <1>4 DEF ReadRows
<1>6. \A m \in Fleet : row[m] # "absent" =>
        m \in S /\ Exists(m) /\ row[m] = machine[m].status /\ notes[m] = {StatusOf(m)}
  OBVIOUS
<1> HIDE DEF row, notes
<1>7. r \in AskRows /\ r.at = "rows" /\ r.row = row /\ r.seen = notes
  BY <1>2, <1>3, <1>4 DEF AskRows, Asked
<1> HIDE DEF r
<1>8. \A m \in Fleet : r.row[m] # "absent" =>
        /\ Exists(m)
        /\ r.at \in Underway => StatusOf(m) \in r.seen[m]
        /\ r.row[m] # "AWAITING_INSPECTION" => r.row[m] \in r.seen[m]
        /\ r.row[m] = "AWAITING_INSPECTION" =>
             "AWAITING_INSPECTION" \in r.seen[m] \/ "READY" \in r.seen[m]
  <2> TAKE m \in Fleet
  <2> HAVE r.row[m] # "absent"
  <2>1. Exists(m) /\ r.row[m] = machine[m].status /\ r.seen[m] = {StatusOf(m)}
    BY <1>6, <1>7
  <2>2. /\ machine[m].status # "AWAITING_INSPECTION" => StatusOf(m) = machine[m].status
        /\ machine[m].status = "AWAITING_INSPECTION" => StatusOf(m) \in {"AWAITING_INSPECTION", "READY"}
    BY <1>1, <2>1 DEF StatusTells
  <2> QED
    BY <2>1, <2>2
<1>9. \A m \in Fleet : r.row[m] = "AWAITING_INSPECTION" /\ m \notin slipped /\ PassesToday(m) # {}
                         => "READY" \in r.seen[m]
  BY <1>1, <1>6, <1>7 DEF StatusTells
<1> QED
  BY <1>5, <1>7, <1>8, <1>9, OneRequestMoves

(* passingTodayRows: a pass that counts was there when the machine was READY. *)
LEMMA PassSteps ==
  ASSUME FleetInvariant, AskInvariant, NEW a \in Asks, ReadPasses(a)
  PROVE  AskInvariant'
<1> DEFINE pass == [m \in Fleet |-> IF m \in Candidates(a) THEN TimeOf(PassesToday(m)) ELSE 0]
           r == [ask[a] EXCEPT !.at = "passes", !.pass = pass]
<1>1. /\ UNCHANGED <<fleetVars, slipped>> /\ ask[a].at = "rows" /\ ask[a] \in AskRows
      /\ ask' = [ask EXCEPT ![a] = r]
  BY DEF ReadPasses, AskInvariant, AsksTyped
<1>2. \A m \in Fleet : /\ TimeOf(PassesToday(m)) \in Nat
                       /\ TimeOf(PassesToday(m)) = 0 <=> PassesToday(m) = {}
                       /\ PassesToday(m) # {} =>
                            \E c \in InspectionsOf(m) : check[c].time = TimeOf(PassesToday(m))
  <2> TAKE m \in Fleet
  <2>1. PassesToday(m) \in SUBSET InspectionsOf(m)
    BY DEF PassesToday
  <2> QED
    BY <2>1, TimesOfRecords
<1>3. pass \in [Fleet -> Nat]
  BY <1>2
<1>4. \A m \in Fleet : ask[a].row[m] = "AWAITING_INSPECTION" => pass[m] = TimeOf(PassesToday(m))
  BY DEF Candidates
<1> HIDE DEF pass
<1>5. r \in AskRows
  BY <1>1, <1>3 DEF AskRows, Asked
<1>6. /\ r.at = "passes" /\ r.row = ask[a].row /\ r.seen = ask[a].seen /\ r.pass = pass
  BY <1>1 DEF AskRows
<1> HIDE DEF r
<1>7. \A m \in Fleet : r.row[m] # "absent" =>
        /\ Exists(m)
        /\ StatusOf(m) \in r.seen[m]
        /\ r.row[m] # "AWAITING_INSPECTION" => r.row[m] \in r.seen[m]
        /\ r.row[m] = "AWAITING_INSPECTION" =>
             "AWAITING_INSPECTION" \in r.seen[m] \/ "READY" \in r.seen[m]
  BY <1>1, <1>6 DEF AskInvariant, SeenHolds, Underway
<1>8. \A m \in Fleet : r.row[m] = "AWAITING_INSPECTION" =>
        /\ IF r.pass[m] = 0 THEN \E x \in r.seen[m] : x # "READY"
           ELSE m \in slipped \/ "READY" \in r.seen[m]
        /\ r.pass[m] # 0 => \E c \in InspectionsOf(m) : check[c].time = r.pass[m]
  <2> TAKE m \in Fleet
  <2> HAVE r.row[m] = "AWAITING_INSPECTION"
  <2>1. r.pass[m] = TimeOf(PassesToday(m))
    BY <1>4, <1>6
  <2>2. CASE PassesToday(m) = {}
    <3>1. StatusOf(m) # "READY" /\ StatusOf(m) \in r.seen[m]
      BY <1>7, <2>2, StatusIsTelling DEF StatusTells
    <3> QED
      BY <1>2, <2>1, <2>2, <3>1
  <2>3. CASE PassesToday(m) # {}
    <3>1. m \notin slipped => "READY" \in r.seen[m]
      BY <1>1, <1>6, <2>3 DEF AskInvariant, PassHolds
    <3> QED
      BY <1>2, <2>1, <2>3, <3>1
  <2> QED
    BY <2>2, <2>3
<1> QED
  BY <1>1, <1>5, <1>6, <1>7, <1>8, OneRequestMoves

(* blockedRows, and the answer: a machine with an open blocking defect is not READY. *)
LEMMA BlockedSteps ==
  ASSUME FleetInvariant, AskInvariant, NEW a \in Asks, ReadBlocked(a)
  PROVE  AskInvariant'
<1> DEFINE answer == [m \in Fleet |-> ReadyAnswer(a, m, OpenBlocking(m))]
           next == IF ask[a].list THEN "blocked" ELSE "answered"
           r == [ask[a] EXCEPT !.at = next, !.answer = answer]
<1>1. /\ UNCHANGED <<fleetVars, slipped>> /\ ask[a].at = "passes" /\ ask[a] \in AskRows
      /\ ask' = [ask EXCEPT ![a] = r]
  BY DEF ReadBlocked, AskInvariant, AsksTyped
<1>2. \A m \in Fleet : ask[a].row[m] \in StoredStatus \cup {"absent"}
  BY <1>1 DEF AskRows
<1>3. \A m \in Fleet :
        /\ answer[m] \in EquipmentStatus \cup {"absent"}
        /\ ask[a].row[m] # "AWAITING_INSPECTION" => answer[m] = ask[a].row[m]
        /\ ask[a].row[m] = "AWAITING_INSPECTION" =>
             answer[m] = IF ask[a].pass[m] # 0 /\ OpenBlocking(m) = {} THEN "READY"
                         ELSE "AWAITING_INSPECTION"
  BY <1>2 DEF ReadyAnswer, Computed, StoredStatus, EquipmentStatus
<1>4. answer \in [Fleet -> EquipmentStatus \cup {"absent"}]
  BY <1>3
<1>5. next \in {"blocked", "answered"} /\ (next = "answered" => ~ask[a].list)
  BY <1>1 DEF AskRows
<1> HIDE DEF answer, next
<1>6. r \in AskRows
  BY <1>1, <1>4, <1>5 DEF AskRows, Asked
<1>7. /\ r.at = next /\ r.list = ask[a].list /\ r.row = ask[a].row /\ r.seen = ask[a].seen
      /\ r.pass = ask[a].pass /\ r.answer = answer
  BY <1>1 DEF AskRows
<1> HIDE DEF r
<1>8. \A m \in Fleet : r.row[m] # "absent" =>
        /\ Exists(m)
        /\ StatusOf(m) \in r.seen[m]
        /\ r.row[m] # "AWAITING_INSPECTION" => r.row[m] \in r.seen[m]
        /\ r.row[m] = "AWAITING_INSPECTION" =>
             "AWAITING_INSPECTION" \in r.seen[m] \/ "READY" \in r.seen[m]
  BY <1>1, <1>7 DEF AskInvariant, SeenHolds, Underway
<1>9. \A m \in Fleet : r.row[m] = "AWAITING_INSPECTION" =>
        /\ IF r.pass[m] = 0 THEN \E x \in r.seen[m] : x # "READY"
           ELSE m \in slipped \/ "READY" \in r.seen[m]
        /\ r.pass[m] # 0 => \E c \in InspectionsOf(m) : check[c].time = r.pass[m]
  BY <1>1, <1>7 DEF AskInvariant, PassHolds
<1>10. \A m \in Fleet :
        /\ r.row[m] # "AWAITING_INSPECTION" => r.answer[m] = r.row[m]
        /\ r.row[m] = "AWAITING_INSPECTION" =>
             \/ r.answer[m] = "READY" /\ r.pass[m] # 0
             \/ r.answer[m] = "AWAITING_INSPECTION" /\ \E x \in r.seen[m] : x # "READY"
  <2> TAKE m \in Fleet
  <2>1. r.row[m] # "AWAITING_INSPECTION" => r.answer[m] = r.row[m]
    BY <1>3, <1>7
  <2>2. ASSUME r.row[m] = "AWAITING_INSPECTION", OpenBlocking(m) # {}
        PROVE  \E x \in r.seen[m] : x # "READY"
    <3>1. StatusOf(m) \in r.seen[m] /\ Exists(m)
      BY <1>8, <2>2
    <3>2. StatusOf(m) # "READY"
      BY <2>2, <3>1, StatusIsTelling DEF StatusTells
    <3> QED
      BY <3>1, <3>2
  <2> QED
    BY <1>3, <1>7, <1>9, <2>1, <2>2
<1>11. r.at # "rows" /\ ~(r.at = "answered" /\ r.list)
  BY <1>5, <1>7
<1> QED
  BY <1>1, <1>6, <1>8, <1>9, <1>10, <1>11, OneRequestMoves

(* The last inspection that the list shows is no older than the pass it counted. *)
LEMMA LastSteps ==
  ASSUME FleetInvariant, AskInvariant, NEW a \in Asks, LoadLastInspections(a)
  PROVE  AskInvariant'
<1> DEFINE last == [m \in Fleet |-> IF ask[a].row[m] = "absent" THEN 0
                                    ELSE TimeOf(InspectionsOf(m))]
           r == [ask[a] EXCEPT !.at = "answered", !.last = last]
<1>1. /\ UNCHANGED <<fleetVars, slipped>> /\ ask[a].at = "blocked" /\ ask[a] \in AskRows
      /\ ask' = [ask EXCEPT ![a] = r]
  BY DEF LoadLastInspections, AskInvariant, AsksTyped
<1>2. \A m \in Fleet : /\ TimeOf(InspectionsOf(m)) \in Nat
                       /\ \A c \in InspectionsOf(m) : check[c].time <= TimeOf(InspectionsOf(m))
  <2> TAKE m \in Fleet
  <2>1. InspectionsOf(m) \in SUBSET InspectionsOf(m)
    OBVIOUS
  <2> QED
    BY <2>1, TimesOfRecords
<1>3. last \in [Fleet -> Nat]
  BY <1>2
<1>4. \A m \in Fleet : ask[a].row[m] = "AWAITING_INSPECTION" => last[m] = TimeOf(InspectionsOf(m))
  OBVIOUS
<1> HIDE DEF last
<1>5. r \in AskRows
  BY <1>1, <1>3 DEF AskRows, Asked
<1>6. /\ r.at = "answered" /\ r.list = ask[a].list /\ r.row = ask[a].row /\ r.seen = ask[a].seen
      /\ r.pass = ask[a].pass /\ r.answer = ask[a].answer /\ r.last = last
  BY <1>1 DEF AskRows
<1> HIDE DEF r
<1>7. \A m \in Fleet : r.row[m] # "absent" =>
        /\ Exists(m)
        /\ StatusOf(m) \in r.seen[m]
        /\ r.row[m] # "AWAITING_INSPECTION" => r.row[m] \in r.seen[m]
        /\ r.row[m] = "AWAITING_INSPECTION" =>
             "AWAITING_INSPECTION" \in r.seen[m] \/ "READY" \in r.seen[m]
  BY <1>1, <1>6 DEF AskInvariant, SeenHolds, Underway
<1>8. \A m \in Fleet : r.row[m] = "AWAITING_INSPECTION" =>
        IF r.pass[m] = 0 THEN \E x \in r.seen[m] : x # "READY"
        ELSE m \in slipped \/ "READY" \in r.seen[m]
  BY <1>1, <1>6 DEF AskInvariant, PassHolds
<1>9. \A m \in Fleet :
        /\ r.row[m] # "AWAITING_INSPECTION" => r.answer[m] = r.row[m]
        /\ r.row[m] = "AWAITING_INSPECTION" =>
             \/ r.answer[m] = "READY" /\ r.pass[m] # 0
             \/ r.answer[m] = "AWAITING_INSPECTION" /\ \E x \in r.seen[m] : x # "READY"
  BY <1>1, <1>6 DEF AskInvariant, AnswerHolds
<1>10. \A m \in Fleet : r.answer[m] = "READY" => r.last[m] >= r.pass[m]
  <2> TAKE m \in Fleet
  <2> HAVE r.answer[m] = "READY"
  <2>1. r.row[m] = "AWAITING_INSPECTION" /\ r.pass[m] # 0
    <3>1. r.row[m] \in StoredStatus \cup {"absent"}
      BY <1>5 DEF AskRows
    <3> QED
      BY <1>9, <3>1 DEF StoredStatus
  <2>2. PICK c \in InspectionsOf(m) : check[c].time = r.pass[m]
    BY <1>1, <1>6, <2>1 DEF AskInvariant, PassHolds
  <2>3. check[c].time <= TimeOf(InspectionsOf(m)) /\ r.last[m] = TimeOf(InspectionsOf(m))
    BY <1>2, <1>4, <1>6, <2>1, <2>2
  <2>4. r.last[m] \in Nat /\ r.pass[m] \in Nat
    BY <1>5 DEF AskRows
  <2> QED
    BY <2>2, <2>3, <2>4
<1>11. r.at # "rows" /\ r.at \notin {"passes", "blocked"}
  BY <1>6
<1>12. \A m \in Fleet : r.row[m] = "AWAITING_INSPECTION" =>
        /\ r.at = "rows" /\ m \notin slipped /\ PassesToday(m) # {} => "READY" \in r.seen[m]
        /\ r.at \in {"passes", "blocked", "answered"} =>
             IF r.pass[m] = 0 THEN \E x \in r.seen[m] : x # "READY"
             ELSE m \in slipped \/ "READY" \in r.seen[m]
        /\ r.at \in {"passes", "blocked"} /\ r.pass[m] # 0 =>
             \E c \in InspectionsOf(m) : check[c].time = r.pass[m]
  BY <1>8, <1>11
<1>13. \A m \in Fleet : r.at \in {"blocked", "answered"} =>
        /\ r.row[m] # "AWAITING_INSPECTION" => r.answer[m] = r.row[m]
        /\ r.row[m] = "AWAITING_INSPECTION" =>
             \/ r.answer[m] = "READY" /\ r.pass[m] # 0
             \/ r.answer[m] = "AWAITING_INSPECTION" /\ \E x \in r.seen[m] : x # "READY"
        /\ r.at = "answered" /\ r.list /\ r.answer[m] = "READY" => r.last[m] >= r.pass[m]
  BY <1>9, <1>10
<1> QED
  BY <1>1, <1>5, <1>7, <1>12, <1>13, OneRequestMoves

LEMMA ReadinessSteps ==
  ASSUME FleetInvariant, AskInvariant, ReadinessNext, (FleetInvariant => StatusTells)'
  PROVE  FleetInvariant' /\ AskInvariant'
<1>1. CASE Writes
  <2>1. FleetInvariant'
    BY <1>1, WritesHold
  <2> QED
    BY <1>1, <2>1, NotingSteps
<1>2. CASE \E a \in Asks : ListEquipment(a)
  <2> PICK a \in Asks : ListEquipment(a)
    BY <1>2
  <2> DEFINE S == {m \in Fleet : Exists(m)}
  <2>1. UNCHANGED <<fleetVars, slipped>> /\ ReadRows(a, TRUE, S)
    BY DEF ListEquipment
  <2>2. S \in SUBSET {m \in Fleet : Exists(m)} /\ TRUE \in BOOLEAN
    OBVIOUS
  <2> HIDE DEF S
  <2> QED
    BY <2>1, <2>2, RowSteps, StandStill
<1>3. CASE \E a \in Asks, m \in Fleet : GetEquipment(a, m) \/ UpdateEquipment(a, m)
  <2> PICK a \in Asks, m \in Fleet : GetEquipment(a, m) \/ UpdateEquipment(a, m)
    BY <1>3
  <2>1. UNCHANGED <<fleetVars, slipped>> /\ ReadRows(a, FALSE, {m}) /\ Exists(m)
    BY DEF GetEquipment, UpdateEquipment
  <2>2. {m} \in SUBSET {x \in Fleet : Exists(x)} /\ FALSE \in BOOLEAN
    BY <2>1
  <2> QED
    BY <2>1, <2>2, RowSteps, StandStill
<1>4. CASE \E a \in Asks : ReadPasses(a)
  <2> PICK a \in Asks : ReadPasses(a)
    BY <1>4
  <2>1. UNCHANGED <<fleetVars, slipped>>
    BY DEF ReadPasses
  <2> QED
    BY <2>1, PassSteps, StandStill
<1>5. CASE \E a \in Asks : ReadBlocked(a)
  <2> PICK a \in Asks : ReadBlocked(a)
    BY <1>5
  <2>1. UNCHANGED <<fleetVars, slipped>>
    BY DEF ReadBlocked
  <2> QED
    BY <2>1, BlockedSteps, StandStill
<1>6. CASE \E a \in Asks : LoadLastInspections(a)
  <2> PICK a \in Asks : LoadLastInspections(a)
    BY <1>6
  <2>1. UNCHANGED <<fleetVars, slipped>>
    BY DEF LoadLastInspections
  <2> QED
    BY <2>1, LastSteps, StandStill
<1> QED
  BY <1>1, <1>2, <1>3, <1>4, <1>5, <1>6 DEF ReadinessNext, Writes

LEMMA ReadinessStutters ==
  ASSUME FleetInvariant, AskInvariant, UNCHANGED readinessVars
  PROVE  FleetInvariant' /\ AskInvariant'
<1>1. UNCHANGED <<fleetVars, slipped>> /\ ask' = ask /\ check' = check /\ slipped' = slipped
  BY DEF readinessVars, fleetVars
<1>2. AsksTyped'
  BY <1>1 DEF AskInvariant, AsksTyped, AskRows
<1>3. SeenHolds'
  BY <1>1, StandStill DEF AskInvariant, SeenHolds
<1>4. PassHolds'
  BY <1>1, StandStill DEF AskInvariant, PassHolds
<1>5. AnswerHolds'
  BY <1>1 DEF AskInvariant, AnswerHolds
<1> QED
  BY <1>1, <1>2, <1>3, <1>4, <1>5, StandStill DEF AskInvariant

(* Two statuses noted: more than one. *)
LEMMA TwoAreMore ==
  ASSUME NEW S \in SUBSET EquipmentStatus, NEW x \in S, NEW y \in S, x # y
  PROVE  Cardinality(S) > 1
<1>1. IsFiniteSet(S)
  <2>1. IsFiniteSet({"AWAITING_INSPECTION"})
    BY FS_Singleton
  <2>2. IsFiniteSet({"AWAITING_INSPECTION"} \cup {"OUT_OF_SERVICE"})
    BY <2>1, FS_AddElement
  <2>3. IsFiniteSet(({"AWAITING_INSPECTION"} \cup {"OUT_OF_SERVICE"}) \cup {"RETIRED"})
    BY <2>2, FS_AddElement
  <2>4. IsFiniteSet((({"AWAITING_INSPECTION"} \cup {"OUT_OF_SERVICE"}) \cup {"RETIRED"})
                      \cup {"READY"})
    BY <2>3, FS_AddElement
  <2>5. EquipmentStatus = (({"AWAITING_INSPECTION"} \cup {"OUT_OF_SERVICE"}) \cup {"RETIRED"})
                            \cup {"READY"}
    BY DEF EquipmentStatus, StoredStatus
  <2>6. IsFiniteSet(EquipmentStatus)
    BY <2>4, <2>5
  <2> QED
    BY <2>6, FS_Subset
<1>2. IsFiniteSet({x, y}) /\ Cardinality({x, y}) = 2
  <2>1. IsFiniteSet({x}) /\ Cardinality({x}) = 1 /\ y \notin {x}
    BY FS_Singleton
  <2>2. {x, y} = {x} \cup {y}
    OBVIOUS
  <2> QED
    BY <2>1, <2>2, FS_AddElement
<1>3. Cardinality({x, y}) <= Cardinality(S)
  BY <1>1, FS_Subset
<1>4. Cardinality(S) \in Nat
  BY <1>1, FS_CardinalityType
<1> QED
  BY <1>2, <1>3, <1>4

LEMMA AnswersFollow ==
  ASSUME AskInvariant
  PROVE  AnswersAreTrue
<1> SUFFICES ASSUME NEW a \in Asks, NEW m \in Fleet,
                    ask[a].at = "answered", ask[a].answer[m] # "absent"
             PROVE  (m \in slipped \/ AnswerWasTrue(a, m)) /\ ListShowsThePass(a, m)
  BY DEF AnswersAreTrue
<1>1. /\ ask[a].row[m] # "AWAITING_INSPECTION" => ask[a].answer[m] = ask[a].row[m]
      /\ ask[a].row[m] = "AWAITING_INSPECTION" =>
           \/ ask[a].answer[m] = "READY" /\ ask[a].pass[m] # 0
           \/ ask[a].answer[m] = "AWAITING_INSPECTION" /\ \E x \in ask[a].seen[m] : x # "READY"
      /\ ask[a].list /\ ask[a].answer[m] = "READY" => ask[a].last[m] >= ask[a].pass[m]
  BY DEF AskInvariant, AnswerHolds
<1>2. /\ ask[a].row[m] # "absent"
      /\ ask[a].row[m] # "AWAITING_INSPECTION" => ask[a].row[m] \in ask[a].seen[m]
      /\ ask[a].row[m] = "AWAITING_INSPECTION" =>
           "AWAITING_INSPECTION" \in ask[a].seen[m] \/ "READY" \in ask[a].seen[m]
  BY <1>1 DEF AskInvariant, SeenHolds
<1>3. ask[a].row[m] = "AWAITING_INSPECTION" /\ ask[a].pass[m] # 0
        => m \in slipped \/ "READY" \in ask[a].seen[m]
  BY DEF AskInvariant, PassHolds
<1>4. ASSUME ask[a].answer[m] = "AWAITING_INSPECTION", ask[a].answer[m] \notin ask[a].seen[m],
             NEW x \in ask[a].seen[m], x # "READY", "READY" \in ask[a].seen[m]
      PROVE  Cardinality(ask[a].seen[m]) > 1
  <2>1. ask[a].seen[m] \in SUBSET EquipmentStatus
    BY DEF AskInvariant, AsksTyped, AskRows
  <2> QED
    BY <1>4, <2>1, TwoAreMore
<1>5. m \in slipped \/ AnswerWasTrue(a, m)
  BY <1>1, <1>2, <1>3, <1>4 DEF AnswerWasTrue
<1>6. ListShowsThePass(a, m)
  BY <1>1 DEF ListShowsThePass
<1> QED
  BY <1>5, <1>6

LEMMA ReadinessKeeps == ReadinessSpec => [](FleetInvariant /\ AskInvariant)
<1>1. ReadinessInit => FleetInvariant /\ AskInvariant
  BY FleetStarts, AsksStart
<1>2. (FleetInvariant => StatusTells)'
  BY StatusIsTelling, PTL
<1>3. FleetInvariant /\ AskInvariant /\ [ReadinessNext]_readinessVars
        => (FleetInvariant /\ AskInvariant)'
  BY <1>2, ReadinessSteps, ReadinessStutters
<1> QED
  BY <1>1, <1>3, PTL DEF ReadinessSpec

(* A machine is answered READY, out of service, or waiting only if that is what one     *)
(* statement reading everything would have found at some moment of the request (or the *)
(* cautious way round), unless its records slipped; and the fleet list shows an         *)
(* inspection no older than the pass it counted: equipment-readiness.ts, for any fleet, *)
(* any number of submits and requests, and any interleaving of their statements.       *)
THEOREM AnswersStayTrue == ReadinessSpec => []AnswersAreTrue
<1>1. FleetInvariant /\ AskInvariant => AnswersAreTrue
  BY AnswersFollow
<1> QED
  BY <1>1, ReadinessKeeps, PTL

(* Types of the machines, the submits and the requests; upkeep keeps its bound. *)
THEOREM ReadinessIsTyped == ReadinessSpec => []ReadinessTypeOK
<1> DEFINE Inv == upkeep \in 0 .. MaxUpkeep
<1>1. ReadinessInit => Inv
  BY UpkeepAssumption DEF ReadinessInit
<1>2. Inv /\ [ReadinessNext]_readinessVars => Inv'
  <2>1. ASSUME Inv, upkeep' = upkeep \/ Upkeep
        PROVE  Inv'
    BY <2>1, UpkeepAssumption DEF Upkeep
  <2>2. ASSUME [ReadinessNext]_readinessVars
        PROVE  upkeep' = upkeep \/ Upkeep
    BY <2>2 DEF ReadinessNext, readinessVars, ListEquipment, GetEquipment, UpdateEquipment, ReadPasses,
       ReadBlocked, LoadLastInspections, AdmitCheck, BeginCheck, CommitCheck, CloseDefect,
       ReturnToService, Retire, CreateEquipment, Midnight
  <2> QED
    BY <2>1, <2>2
<1>3. FleetInvariant /\ AskInvariant /\ Inv => ReadinessTypeOK
  <2>1. Fleet \cup {CHOOSE m \in Fleet : TRUE} = Fleet
    BY MachineAssumption
  <2> QED
    BY <2>1 DEF FleetInvariant, FleetTyped, MachineRows, CheckRows, AskInvariant, AsksTyped, AskRows,
                ReadinessTypeOK
<1> HIDE DEF Inv
<1> QED
  BY <1>1, <1>2, <1>3, ReadinessKeeps, PTL DEF ReadinessSpec
=============================================================================
