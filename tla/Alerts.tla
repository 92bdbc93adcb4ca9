------------------------------- MODULE Alerts -------------------------------
(***************************************************************************)
(* The alerts of a blocking failure (ADR 0013): an email to the supervisors  *)
(* and a Teams card, both sent off the request path once the submit has      *)
(* committed, retried a few times, and given up without a trace but a log    *)
(* line: the dashboard's queue is what must not miss a failure.              *)
(*                                                                         *)
(* The relay of a channel takes a message or not, and its answer comes or     *)
(* is lost; a message taken with its answer lost is sent again.              *)
(***************************************************************************)
EXTENDS Naturals, Sequences

CONSTANTS
  Channels,        \* "email" and "teams"
  Delays,          \* RETRY_DELAYS_MS, in seconds: one for each retry
  LongestDelay,
  WebhookTimeout,  \* WEBHOOK_TIMEOUT_MS, in seconds
  AlertBudget,     \* the seconds an alert may take
  MaxReplays       \* bound on resubmissions

Retries == DOMAIN Delays

ASSUME ChannelAssumption == Channels = {"email", "teams"}
ASSUME DelayAssumption   == LongestDelay \in Nat /\ Delays \in Seq(0 .. LongestDelay)
ASSUME TimeAssumption    == WebhookTimeout \in Nat /\ AlertBudget \in Nat /\ MaxReplays \in Nat
\* the constants of the code leave room: 4 attempts of 5 + 4 seconds in 60
ASSUME RoomAssumption    == (Len(Delays) + 1) * (WebhookTimeout + LongestDelay) <= AlertBudget

VARIABLES
  result,     \* the result of the inspection, once the submit has committed
  configured, \* channels with a relay, and for the email with recipients
  alert,      \* what became of each channel's alert
  attempts,   \* times the relay was tried
  taken,      \* times the relay took the message
  unheard,    \* history: taken, but the answer was lost
  spent,      \* the seconds the card has taken, at most
  dispatches, \* history: times an alert was started
  replays

alertVars == <<result, configured, alert, attempts, taken, unheard, spent, dispatches, replays>>

Phases == {"none", "preparing", "addressed", "sending", "waiting", "sent", "dropped", "lost"}
InFlight == {c \in Channels : alert[c] \in {"preparing", "addressed", "sending", "waiting"}}

-----------------------------------------------------------------------------
(* POST /inspections has committed: both alerts start, and neither is awaited *)
CommitAndDispatch(r) ==
  /\ result = "none" /\ result' = r
  /\ IF r = "FAIL_BLOCKING"
     THEN /\ alert' = [c \in Channels |-> "preparing"]
          /\ dispatches' = [c \in Channels |-> dispatches[c] + 1]
     ELSE UNCHANGED <<alert, dispatches>>
  /\ UNCHANGED <<configured, attempts, taken, unheard, spent, replays>>

(* faulty: the replay passes the dispatch *)
ReplayDispatches ==
  /\ result # "none" /\ replays < MaxReplays
  /\ replays' = replays + 1
  /\ alert' = [c \in Channels |-> IF result = "FAIL_BLOCKING" THEN "preparing" ELSE alert[c]]
  /\ dispatches' = [c \in Channels |-> dispatches[c] + 1]
  /\ UNCHANGED <<result, configured, attempts, taken, unheard, spent>>

(* The PWA sends the same submission again: it is answered from the stored        *)
(* response, before the dispatch.                                               *)
ReplaySubmit ==
  /\ result # "none" /\ replays < MaxReplays
  /\ replays' = replays + 1
  /\ UNCHANGED <<result, configured, alert, attempts, taken, unheard, spent, dispatches>>

Becomes(c, from, to) == alert[c] = from /\ alert' = [alert EXCEPT ![c] = to]

(* The email first looks up the name of its operator; a lookup that throws is the  *)
(* end of it.                                                                  *)
LookUpOperator ==
  /\ \E found \in {"addressed", "dropped"} : Becomes("email", "preparing", found)
  /\ UNCHANGED <<result, configured, attempts, taken, unheard, spent, dispatches, replays>>

(* Without a mail server or recipients the email is skipped. *)
PrepareEmail ==
  /\ Becomes("email", "addressed", IF "email" \in configured THEN "sending" ELSE "dropped")
  /\ UNCHANGED <<result, configured, attempts, taken, unheard, spent, dispatches, replays>>

(* Without a webhook the card is skipped. *)
PrepareCard ==
  /\ Becomes("teams", "preparing", IF "teams" \in configured THEN "sending" ELSE "dropped")
  /\ UNCHANGED <<result, configured, attempts, taken, unheard, spent, dispatches, replays>>

(* sendWithRetry: a failed attempt waits for its delay, if one is left *)
Try(c) ==
  /\ attempts' = [attempts EXCEPT ![c] = @ + 1]
  /\ \E took, heard \in BOOLEAN :
       /\ heard => took
       /\ taken' = [taken EXCEPT ![c] = IF took THEN @ + 1 ELSE @]
       /\ unheard' = [unheard EXCEPT ![c] = IF took /\ ~heard THEN @ + 1 ELSE @]
       /\ Becomes(c, "sending",
            IF heard THEN "sent" ELSE IF attempts[c] + 1 \in Retries THEN "waiting" ELSE "dropped")
  /\ UNCHANGED <<result, configured, dispatches, replays>>

AttemptEmail == Try("email") /\ UNCHANGED spent

(* the card's own sendWithRetry, whose attempts have a time-out *)
AttemptCard == Try("teams") /\ spent' = spent + WebhookTimeout

Backoff(c) ==
  /\ Becomes(c, "waiting", "sending")
  /\ spent' = IF c = "teams" THEN spent + Delays[attempts[c]] ELSE spent
  /\ UNCHANGED <<result, configured, attempts, taken, unheard, dispatches, replays>>

(* nothing remembers an alert but the promise that sends it *)
CoreApiDies ==
  /\ InFlight # {}
  /\ alert' = [c \in Channels |-> IF c \in InFlight THEN "lost" ELSE alert[c]]
  /\ UNCHANGED <<result, configured, attempts, taken, unheard, spent, dispatches, replays>>

-----------------------------------------------------------------------------
AlertInit ==
  /\ result = "none" /\ configured \in SUBSET Channels
  /\ alert = [c \in Channels |-> "none"]
  /\ attempts = [c \in Channels |-> 0] /\ taken = [c \in Channels |-> 0]
  /\ unheard = [c \in Channels |-> 0] /\ dispatches = [c \in Channels |-> 0]
  /\ spent = 0 /\ replays = 0

AlertNext ==
  \/ \E r \in {"PASS", "FAIL_WARNING", "FAIL_BLOCKING"} : CommitAndDispatch(r)
  \/ ReplaySubmit
  \/ LookUpOperator \/ PrepareEmail \/ PrepareCard
  \/ AttemptEmail \/ AttemptCard \/ \E c \in Channels : Backoff(c)
  \/ CoreApiDies

AlertSpec == AlertInit /\ [][AlertNext]_alertVars

-----------------------------------------------------------------------------
AlertTypeOK ==
  /\ result \in {"none", "PASS", "FAIL_WARNING", "FAIL_BLOCKING"}
  /\ configured \subseteq Channels
  /\ alert \in [Channels -> Phases]
  /\ attempts \in [Channels -> Nat] /\ taken \in [Channels -> Nat]
  /\ unheard \in [Channels -> Nat] /\ dispatches \in [Channels -> Nat]
  /\ spent \in Nat /\ replays \in 0 .. MaxReplays

(* However often the operator resubmits and the relays fail, a blocking failure is *)
(* announced at most once on a channel for each lost answer and one, other results *)
(* not at all; no relay is tried oftener than once and its retries, over all the    *)
(* resubmissions (submit.ts:387-392, notify-failed-inspection.ts:39-41); and the    *)
(* card's attempts and waits keep to the alert budget, if the constants leave it    *)
(* room (teams-webhook.ts:21-24).  The email's attempts have no time-out.         *)
AlertsBounded ==
  /\ \A c \in Channels : taken[c] <= unheard[c] + (IF alert[c] = "sent" THEN 1 ELSE 0)
  /\ \A c \in Channels : taken[c] > 0 => result = "FAIL_BLOCKING"
  /\ \A c \in Channels : dispatches[c] <= 1 /\ attempts[c] <= Len(Delays) + 1
  /\ spent <= AlertBudget
=============================================================================
