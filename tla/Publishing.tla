----------------------------- MODULE Publishing -----------------------------
(* The checklist templates of one equipment type: admins who edit and       *)
(* publish them in the dashboard's wizard, the publish transaction at       *)
(* Postgres' READ COMMITTED, and phones that answer the active version and  *)
(* submit against it. Types are independent: every query filters by type.   *)
EXTENDS Naturals, Sequences, FiniteSets, FiniteSetsExt

CONSTANTS
    Admins,
    Phones,
    Shifts,           \* bound: the sets of people that are at work together
    Keys,             \* item keys
    Texts,            \* the rest of an item: prompt, type, severity, required
    OptionalTexts,    \* those of an item whose `required` is off
    Lists,            \* the item lists an admin may publish
    None,
    MaxPublishes,     \* bound: publishes posted
    MaxInspections    \* bound: inspections recorded

Item == [key : Keys, text : Texts]

ASSUME ShiftsOfPeople == Shifts \subseteq SUBSET (Admins \cup Phones)
ASSUME OptionalTextsAreTexts == OptionalTexts \subseteq Texts
ASSUME ListsOfItems == Lists \subseteq Seq(Item) \ {<<>>}
ASSUME BoundsAreNat == MaxPublishes \in Nat /\ MaxInspections \in Nat

VARIABLES
    templates,    \* committed rows in the order of their ids; blind: of a publish
                  \* that found no version to lock
    publish,      \* the POST /checklists of each admin
    listed,       \* the active template in each dashboard's list, 0 for none
    wizard,       \* the publish wizard of each dashboard
    shift,        \* who is at work
    posted,       \* how many publishes were posted
    phone,        \* the checklist and review screens, and the draft they share
    post,         \* the POST /inspections of each phone
    inspections   \* recorded inspections with the template they are pinned to

vars == <<templates, publish, listed, wizard, shift, posted, phone, post,
          inspections>>

Ids == DOMAIN templates

ActiveIds == {t \in Ids : templates[t].active}

\* The row of GET /checklists/active, 0 if there is none.
ActiveId == IF ActiveIds = {} THEN 0 ELSE CHOOSE t \in ActiveIds : TRUE

ItemsOf(t) == IF t = 0 THEN <<>> ELSE templates[t].items

ItemSet(t) == {ItemsOf(t)[n] : n \in DOMAIN ItemsOf(t)}

\* A key that items share is required as soon as one of them is.
RequiredKeys(t) == {i.key : i \in {j \in ItemSet(t) : j.text \notin OptionalTexts}}

----------------------------------------------------------------------------
\* The diff of two item lists. A later item with the same key replaces an
\* earlier one, as in a JavaScript Map.

KeysOf(items) == {items[n].key : n \in DOMAIN items}

AsMap(items) ==
    [k \in KeysOf(items) |-> items[Max({n \in DOMAIN items : items[n].key = k})]]

\* Items that only one list has, compared by position instead of by key.
diffByPosition(from, to) ==
    LET short == Min({Len(from), Len(to)}) IN
    [added |-> {to[n] : n \in (short + 1)..Len(to)},
     removed |-> {from[n] : n \in (short + 1)..Len(from)},
     changed |-> {[key |-> from[n].key, before |-> from[n], after |-> to[n]] :
                    n \in {m \in 1..short : from[m] # to[m]}}]

diffChecklistItems(from, to) ==
    LET old == AsMap(from)
        new == AsMap(to) IN
    [added |-> {new[k] : k \in DOMAIN new \ DOMAIN old},
     removed |-> {old[k] : k \in DOMAIN old \ DOMAIN new},
     changed |-> {[key |-> k, before |-> old[k], after |-> new[k]] :
                    k \in {j \in DOMAIN old \cap DOMAIN new : old[j] # new[j]}}]

----------------------------------------------------------------------------
Idle == [at |-> "idle"]

Init ==
    /\ \/ templates = <<>>
       \/ \E items \in Lists :
            templates = <<[version |-> 1, active |-> TRUE, items |-> items,
                           blind |-> FALSE]>>
    /\ shift \in Shifts
    /\ posted = 0
    /\ publish = [a \in Admins |-> Idle]
    /\ listed = [a \in Admins |-> 0]
    /\ wizard = [a \in Admins |-> [step |-> "closed"]]
    /\ phone = [p \in Phones |-> [page |-> "checklist", shown |-> 0,
                                  answers |-> [k \in Keys |-> None]]]
    /\ post = [p \in Phones |-> Idle]
    /\ inspections = {}

----------------------------------------------------------------------------
\* The dashboard. The list is refetched on focus, on mount and after a publish.

Refetch(a) ==
    /\ listed[a] # ActiveId
    /\ listed' = [listed EXCEPT ![a] = ActiveId]
    /\ UNCHANGED <<templates, publish, wizard, shift, posted, phone, post, inspections>>

\* A failed refetch replaces the whole overview with an error message: an open
\* wizard is unmounted with everything typed into it.
RefetchFails(a) ==
    /\ wizard[a].step # "closed"
    /\ wizard' = [wizard EXCEPT ![a] = [step |-> "closed"]]
    /\ UNCHANGED <<templates, publish, listed, shift, posted, phone, post, inspections>>

\* Bound: nobody opens a wizard while a publish of theirs is under way, or when
\* no more publishes are counted.
OpenWizard(a) ==
    /\ wizard[a].step = "closed"
    /\ publish[a] = Idle /\ posted < MaxPublishes
    /\ wizard' = [wizard EXCEPT ![a] =
                    [step |-> "editing", items |-> ItemsOf(listed[a])]]
    /\ UNCHANGED <<templates, publish, listed, shift, posted, phone, post, inspections>>

EditItems(a, items) ==
    /\ wizard[a].step = "editing" /\ wizard[a].items # items
    /\ wizard' = [wizard EXCEPT ![a].items = items]
    /\ UNCHANGED <<templates, publish, listed, shift, posted, phone, post, inspections>>

\* The diff of the preview is that of DiffExplains, from the active template as
\* this dashboard has it now.
handleReviewChanges(a) ==
    /\ wizard[a].step = "editing" /\ wizard[a].items # <<>>
    /\ wizard' = [wizard EXCEPT ![a] =
                    [step |-> "previewing", items |-> wizard[a].items]]
    /\ UNCHANGED <<templates, publish, listed, shift, posted, phone, post, inspections>>

handleBackToEdit(a) ==
    /\ wizard[a].step \in {"previewing", "error"}
    /\ wizard' = [wizard EXCEPT ![a] = [step |-> "editing", items |-> wizard[a].items]]
    /\ UNCHANGED <<templates, publish, listed, shift, posted, phone, post, inspections>>

\* Only a preview publishes. "Try again" on the error screen calls this too and
\* returns at once.
handleConfirmPublish(a) ==
    /\ wizard[a].step = "previewing"
    /\ publish[a] = Idle /\ posted < MaxPublishes
    /\ posted' = posted + 1
    /\ wizard' = [wizard EXCEPT ![a] =
                    [step |-> "submitting", items |-> wizard[a].items]]
    /\ publish' = [publish EXCEPT ![a] =
                    [at |-> "posted", items |-> wizard[a].items]]
    /\ UNCHANGED <<templates, listed, shift, phone, post, inspections>>

\* Cancel, Done, or the dialog's own close; a publish under way goes on.
CloseWizard(a) ==
    /\ wizard[a].step # "closed"
    /\ wizard' = [wizard EXCEPT ![a] = [step |-> "closed"]]
    /\ UNCHANGED <<templates, publish, listed, shift, posted, phone, post, inspections>>

----------------------------------------------------------------------------
\* POST /checklists. Each statement takes its snapshot when it starts and may
\* then wait for row locks; a transaction keeps its locks to its end.

Running(a) == publish[a].at \notin {"idle", "posted", "committed", "failed"}

\* The rows it has locked FOR UPDATE, and those it has deactivated.
ForUpdate(a) ==
    IF publish[a].at \in {"locked", "numbered", "updating", "updated", "inserted"}
    THEN publish[a].locks ELSE {}

Rewritten(a) ==
    IF publish[a].at \in {"updated", "inserted"} THEN publish[a].off ELSE {}

\* Some of the rows are locked while others are waited for, in no fixed order.
HoldsWhileWaiting(a) ==
    IF publish[a].at = "locking" THEN publish[a].locks
                                 ELSE ForUpdate(a) \cup Rewritten(a)

Holds(a) == ForUpdate(a) \cup Rewritten(a)

HeldByOthers(a) == UNION {Holds(b) : b \in Admins \ {a}}

LockNothing(a) == {}

\* SELECT ... FOR UPDATE sees the rows committed when it starts.
LockRows(a) == Ids

SelectForUpdate(a) ==
    /\ publish[a].at = "posted"
    /\ publish' = [publish EXCEPT ![a] =
                    [at |-> "locking", items |-> @.items,
                     locks |-> LockRows(a), blind |-> Ids = {}]]
    /\ UNCHANGED <<templates, listed, wizard, shift, posted, phone, post, inspections>>

\* The rows are locked in one order, so whoever has the first has them all.
Locked(a) ==
    /\ publish[a].at = "locking"
    /\ publish[a].locks \cap HeldByOthers(a) = {}
    /\ publish' = [publish EXCEPT ![a].at = "locked"]
    /\ UNCHANGED <<templates, listed, wizard, shift, posted, phone, post, inspections>>

Versions == {templates[t].version : t \in Ids}

ReadMaxVersion(a) ==
    /\ publish[a].at = "locked"
    /\ publish' = [publish EXCEPT ![a] =
                    [at |-> "numbered", items |-> @.items,
                     locks |-> @.locks, blind |-> @.blind,
                     version |-> Max(Versions \cup {0}) + 1]]
    /\ UNCHANGED <<templates, listed, wizard, shift, posted, phone, post, inspections>>

\* UPDATE ... SET is_active = false: the active rows of its snapshot, looked
\* at again once nobody else holds them.
UpdateActive(a) ==
    /\ publish[a].at = "numbered"
    /\ publish' = [publish EXCEPT ![a] =
                    [at |-> "updating", items |-> @.items,
                     locks |-> @.locks, blind |-> @.blind,
                     version |-> @.version, off |-> ActiveIds]]
    /\ UNCHANGED <<templates, listed, wizard, shift, posted, phone, post, inspections>>

Updated(a) ==
    /\ publish[a].at = "updating"
    /\ publish[a].off \cap HeldByOthers(a) = {}
    /\ publish' = [publish EXCEPT ![a].at = "updated",
                                  ![a].off = @ \cap ActiveIds]
    /\ UNCHANGED <<templates, listed, wizard, shift, posted, phone, post, inspections>>

\* Without the index on type and version.
ConflictsOnActive(a, t) == templates[t].active /\ t \notin publish[a].off

\* A row that breaks one of the two unique indexes with the row of a.
Conflicts(a, t) ==
    \/ templates[t].version = publish[a].version
    \/ templates[t].active /\ t \notin publish[a].off

\* The insert waits for a transaction whose end decides about a conflict: of
\* two new rows, or of one with a row that is being deactivated.
InsertWaits(a) ==
    \E b \in Admins \ {a} :
        \/ publish[b].at = "inserted"
        \/ \E t \in Rewritten(b) : Conflicts(a, t)

Insert(a) ==
    /\ publish[a].at = "updated"
    /\ ~InsertWaits(a)
    /\ \A t \in Ids : ~Conflicts(a, t)
    /\ publish' = [publish EXCEPT ![a].at = "inserted"]
    /\ UNCHANGED <<templates, listed, wizard, shift, posted, phone, post, inspections>>

\* The unhandled unique violation of the insert: a 500.
InsertFails(a) ==
    /\ publish[a].at = "updated"
    /\ ~InsertWaits(a)
    /\ \E t \in Ids : Conflicts(a, t)
    /\ publish' = [publish EXCEPT ![a] =
                    [at |-> "failed", blind |-> @.blind,
                     against |-> {t \in Ids : Conflicts(a, t)}]]
    /\ UNCHANGED <<templates, listed, wizard, shift, posted, phone, post, inspections>>

\* The connection or the process dies before the commit.
Crash(a) ==
    /\ publish[a].at = "posted" \/ Running(a)
    /\ publish' = [publish EXCEPT ![a] = [at |-> "failed", blind |-> FALSE,
                                          against |-> {}]]
    /\ UNCHANGED <<templates, listed, wizard, shift, posted, phone, post, inspections>>

Deactivated(off) ==
    [t \in Ids |-> [templates[t] EXCEPT !.active = @ /\ t \notin off]]

Commit(a) ==
    /\ publish[a].at = "inserted"
    /\ templates' = Append(Deactivated(publish[a].off),
                           [version |-> publish[a].version, active |-> TRUE,
                            items |-> publish[a].items,
                            blind |-> publish[a].blind])
    /\ publish' = [publish EXCEPT ![a] = [at |-> "committed"]]
    /\ UNCHANGED <<listed, wizard, shift, posted, phone, post, inspections>>

\* The answer reaches the wizard, or is lost on the way. A wizard that has
\* been closed in the meantime is not there to hear of it.
Hears(a, step) ==
    wizard' = IF wizard[a].step = "submitting"
              THEN [wizard EXCEPT ![a] =
                        IF step = "error"
                        THEN [step |-> "error", items |-> wizard[a].items]
                        ELSE [step |-> "submitted"]]
              ELSE wizard

PublishAnswered(a) ==
    /\ \/ publish[a].at = "committed" /\ Hears(a, "submitted")
       \/ publish[a].at \in {"committed", "failed"} /\ Hears(a, "error")
    /\ publish' = [publish EXCEPT ![a] = Idle]
    /\ UNCHANGED <<templates, listed, shift, posted, phone, post, inspections>>

----------------------------------------------------------------------------
\* The phone. Answers are kept by item key, each with the item as it was shown.

\* GET /checklists/active, on mount and on every refetch while the checklist
\* is open. Answers given to an earlier version stay.
LoadChecklist(p) ==
    /\ phone[p].page = "checklist"
    /\ ActiveId \notin {0, phone[p].shown}
    /\ phone' = [phone EXCEPT ![p].shown = ActiveId]
    /\ UNCHANGED <<templates, publish, listed, wizard, shift, posted, post,
                   inspections>>

AnswerItem(p, item) ==
    /\ phone[p].page = "checklist"
    /\ phone[p].answers[item.key] # item
    /\ phone' = [phone EXCEPT ![p].answers[item.key] = item]
    /\ UNCHANGED <<templates, publish, listed, wizard, shift, posted, post,
                   inspections>>

\* The screen is used before the template has been fetched.
canSubmitUnloaded(p) ==
    \A k \in RequiredKeys(phone[p].shown) : phone[p].answers[k] # None

\* An item that is not required may stay unanswered.
canSubmit(p) ==
    /\ phone[p].shown # 0
    /\ \A k \in RequiredKeys(phone[p].shown) : phone[p].answers[k] # None

GoToReview(p) ==
    /\ phone[p].page = "checklist"
    /\ canSubmit(p)
    /\ phone' = [phone EXCEPT ![p].page = "review"]
    /\ UNCHANGED <<templates, publish, listed, wizard, shift, posted, post,
                   inspections>>

BackToChecklist(p) ==
    /\ phone[p].page = "review" /\ post[p] = Idle
    /\ phone' = [phone EXCEPT ![p].page = "checklist"]
    /\ UNCHANGED <<templates, publish, listed, wizard, shift, posted, post,
                   inspections>>

Answered(p) == {k \in Keys : phone[p].answers[k] # None}

\* Every answer of the draft is sent.
buildSubmitPayloadOfDraft(p) == [k \in Answered(p) |-> phone[p].answers[k]]

\* The answers given to the items of the version the draft was saved with.
buildSubmitPayload(p) ==
    [k \in Answered(p) \cap KeysOf(ItemsOf(phone[p].shown)) |-> phone[p].answers[k]]

handleConfirm(p) ==
    /\ phone[p].page = "review" /\ post[p] = Idle
    /\ Cardinality(inspections) < MaxInspections
    /\ post' = [post EXCEPT ![p] =
                    [at |-> "sent", template |-> phone[p].shown,
                     responses |-> buildSubmitPayload(p), active |-> ActiveId]]
    /\ UNCHANGED <<templates, publish, listed, wizard, shift, posted, phone,
                   inspections>>

AcceptAnyVersion(p) == TRUE

\* The unlocked read of the template row in submit.ts.
IsActive(p) == templates[post[p].template].active

missing(p) == RequiredKeys(post[p].template) \ DOMAIN post[p].responses

\* Answers under keys that the template does not have pass unless they fail.
Gate(p) ==
    /\ post[p].at = "sent"
    /\ IsActive(p) /\ missing(p) = {}
    /\ post' = [post EXCEPT ![p].at = "admitted"]
    /\ UNCHANGED <<templates, publish, listed, wizard, shift, posted, phone,
                   inspections>>

\* 409 INSPECTION_TEMPLATE_INACTIVE or 400 INSPECTION_MISSING_REQUIRED_ITEM: the
\* draft is kept.
GateRefuses(p) ==
    /\ post[p].at = "sent"
    /\ ~(IsActive(p) /\ missing(p) = {})
    /\ post' = [post EXCEPT ![p] = Idle]
    /\ UNCHANGED <<templates, publish, listed, wizard, shift, posted, phone,
                   inspections>>

\* The transaction of submit.ts commits; the phone clears its draft. The foreign
\* key of the inspection waits for whoever has the template FOR UPDATE.
Record(p) ==
    /\ post[p].at = "admitted"
    /\ post[p].template \notin UNION {ForUpdate(a) : a \in Admins}
    /\ inspections' = inspections \cup
          {[template |-> post[p].template, responses |-> post[p].responses,
            active |-> post[p].active]}
    /\ post' = [post EXCEPT ![p] = Idle]
    /\ phone' = [phone EXCEPT ![p] = [page |-> "checklist", shown |-> 0,
                                      answers |-> [k \in Keys |-> None]]]
    /\ UNCHANGED <<templates, publish, listed, wizard, shift, posted>>

----------------------------------------------------------------------------
Dashboard(a) ==
    \/ Refetch(a)
    \/ RefetchFails(a)
    \/ OpenWizard(a)
    \/ \E items \in Lists : EditItems(a, items)
    \/ handleReviewChanges(a)
    \/ handleBackToEdit(a)
    \/ handleConfirmPublish(a)
    \/ CloseWizard(a)

Transaction(a) ==
    \/ SelectForUpdate(a)
    \/ Locked(a)
    \/ ReadMaxVersion(a)
    \/ UpdateActive(a)
    \/ Updated(a)
    \/ Insert(a)
    \/ InsertFails(a)
    \/ Commit(a)
    \/ PublishAnswered(a)

Phone(p) ==
    \/ LoadChecklist(p)
    \/ \E item \in ItemSet(phone[p].shown) : AnswerItem(p, item)
    \/ GoToReview(p)
    \/ BackToChecklist(p)
    \/ handleConfirm(p)

Server(p) == Gate(p) \/ GateRefuses(p) \/ Record(p)

Next ==
    \/ \E a \in Admins \cap shift : Dashboard(a) \/ Transaction(a) \/ Crash(a)
    \/ \E p \in Phones \cap shift : Phone(p) \/ Server(p)

Spec == Init /\ [][Next]_vars

\* A database session that is not waiting runs; people owe nothing.
FairSpec == Spec /\ \A a \in Admins : WF_vars(Transaction(a))

----------------------------------------------------------------------------
TemplateRow == [version : Nat, active : BOOLEAN, items : Lists, blind : BOOLEAN]

LockingRow == [at : {"locking", "locked"}, items : Lists, locks : SUBSET Nat,
               blind : BOOLEAN]
NumberedRow == [at : {"numbered"}, items : Lists, locks : SUBSET Nat,
                blind : BOOLEAN, version : Nat]
UpdatingRow == [at : {"updating", "updated", "inserted"}, items : Lists,
                locks : SUBSET Nat, blind : BOOLEAN, version : Nat,
                off : SUBSET Nat]
FailedRow == [at : {"failed"}, blind : BOOLEAN, against : SUBSET Nat]

PublishRow == [at : {"idle", "committed"}] \cup [at : {"posted"}, items : Lists]
    \cup LockingRow \cup NumberedRow \cup UpdatingRow \cup FailedRow

WizardRow == [step : {"closed", "submitted"}]
    \cup [step : {"editing"}, items : Lists \cup {<<>>}]
    \cup [step : {"previewing", "submitting", "error"}, items : Lists]

Answers == Item \cup {None}
PhoneRow == [page : {"checklist", "review"}, shown : Nat, answers : [Keys -> Answers]]
Responses == UNION {[K -> Answers] : K \in SUBSET Keys}
PostRow == {Idle} \cup [at : {"sent", "admitted"}, template : Nat,
                       responses : Responses, active : Nat]

\* Types; every template that is referred to exists, and so does that of every
\* review screen.
TypeOK ==
    /\ templates \in Seq(TemplateRow)
    /\ publish \in [Admins -> PublishRow]
    /\ \A a \in Admins : publish[a].at = "failed" => publish[a].against \subseteq Ids
    /\ listed \in [Admins -> 0..Len(templates)]
    /\ wizard \in [Admins -> WizardRow]
    /\ posted \in Nat
    /\ phone \in [Phones -> PhoneRow]
    /\ \A p \in Phones : /\ phone[p].shown \in 0..Len(templates)
                         /\ phone[p].page = "review" => phone[p].shown # 0
    /\ post \in [Phones -> PostRow]
    /\ \A p \in Phones : post[p] # Idle => post[p].template \in Ids
    /\ inspections \subseteq [template : Ids, responses : Responses, active : Nat]

\* Versions are numbered without a gap and the newest one, and only that, is
\* active: a type that ever had a checklist always has exactly one, whoever
\* publishes at the same time (publish.ts:32-34, checklist-templates.ts:42-47).
NewestIsActive ==
    \A t \in Ids : /\ templates[t].version = t
                   /\ templates[t].active <=> t = Len(templates)

\* Concurrent publishes queue up on the row locks: whenever one fails on a
\* unique index, it or the publish it collides with began before there was any
\* version to lock (publish.ts:36-39).
OnlyFirstPublishesCollide ==
    \A a \in Admins :
        publish[a].at = "failed" /\ ~publish[a].blind =>
            \A t \in publish[a].against : templates[t].blind

\* The diff shown to an admin turns the old list, read by key, into the new
\* one, and nothing in it is superfluous (diff-items.ts:9-28).
Apply(diff, old) ==
    LET gone == {i.key : i \in diff.removed}
        put == {c.after : c \in diff.changed} \cup diff.added IN
    [k \in (DOMAIN old \ gone) \cup {i.key : i \in put} |->
        IF \E i \in put : i.key = k THEN CHOOSE i \in put : i.key = k ELSE old[k]]

DiffExplains ==
    \A t, u \in Ids :
        LET diff == diffChecklistItems(templates[t].items, templates[u].items) IN
        /\ Apply(diff, AsMap(templates[t].items)) = AsMap(templates[u].items)
        /\ \A c \in diff.changed : c.before # c.after
        /\ t = u => diff = [added |-> {}, removed |-> {}, changed |-> {}]

\* An inspection is graded by no older version than the one that was active
\* when it was sent (submit.ts:163-171).
GradedByCurrent == \A i \in inspections : i.template >= i.active

\* A recorded inspection answers every required item of the version it is pinned
\* to, and nothing that is not an item of that version, although the checklist
\* can change under the operator and the draft keeps what older versions asked
\* (inspection-submit.ts:81-83, derive-result.ts:18-26).
CoversPinnedVersion ==
    \A i \in inspections :
        /\ RequiredKeys(i.template) \subseteq DOMAIN i.responses
        /\ DOMAIN i.responses \subseteq KeysOf(templates[i.template].items)

\* An inspection keeps to the version it was begun with: every answer on the
\* record was given to the item as the pinned version has it (FRS.md:183).
AnsweredAsPinned ==
    \A i \in inspections : \A k \in DOMAIN i.responses :
        i.responses[k] \in ItemSet(i.template)

\* Every publish that reaches the server gets an answer.
EveryPublishEnds == \A a \in Admins : publish[a].at = "posted" ~> publish[a].at = "idle"
============================================================================
