-------------------------- MODULE PublishingProofs --------------------------
(* Theorems about Publishing, for any number of admins, phones and lists.    *)
EXTENDS Publishing, SequenceTheorems, WellFoundedInduction, TLAPS

\* The kind of a publish row is told by its phase.
LEMMA RowKinds ==
    ASSUME NEW row \in PublishRow
    PROVE  /\ row.at = "posted" => row \in [at : {"posted"}, items : Lists]
           /\ row.at \in {"locking", "locked"} => row \in LockingRow
           /\ row.at = "numbered" => row \in NumberedRow
           /\ row.at \in {"updating", "updated", "inserted"} => row \in UpdatingRow
           /\ row.at = "failed" => row \in FailedRow
  BY DEF PublishRow, LockingRow, NumberedRow, UpdatingRow, FailedRow

\* The list of a template is one of Lists.
LEMMA ItemsOfType ==
    ASSUME TypeOK, NEW t \in 0..Len(templates)
    PROVE  /\ t # 0 => ItemsOf(t) \in Lists
           /\ ItemsOf(t) \in Lists \cup {<<>>}
           /\ KeysOf(ItemsOf(t)) \subseteq Keys
           /\ ItemSet(t) \subseteq Item
<1>1. templates \in Seq(TemplateRow) /\ Len(templates) \in Nat
  BY LenProperties DEF TypeOK
<1>2. t # 0 => t \in 1..Len(templates)
  BY <1>1
<1>3. t # 0 => templates[t] \in TemplateRow
  BY <1>1, <1>2, ElementOfSeq
<1>4. t # 0 => ItemsOf(t) \in Lists
  BY <1>3 DEF ItemsOf, TemplateRow
<1>5. ItemsOf(t) \in Lists \cup {<<>>}
  BY <1>4 DEF ItemsOf
<1>6. ItemsOf(t) \in Seq(Item)
  BY <1>5, ListsOfItems, EmptySeq
<1>7. \A n \in DOMAIN ItemsOf(t) : ItemsOf(t)[n] \in Item
  BY <1>6, ElementOfSeq
<1> QED
  BY <1>4, <1>5, <1>7 DEF KeysOf, ItemSet, Item

\* The active row exists, when there is one.
LEMMA ActiveIdType ==
    ASSUME TypeOK
    PROVE  /\ Ids = 1..Len(templates) /\ Len(templates) \in Nat
           /\ ActiveIds \subseteq Ids
           /\ ActiveId \in 0..Len(templates)
<1>1. Ids = 1..Len(templates) /\ Len(templates) \in Nat
  BY LenProperties DEF TypeOK, Ids
<1>2. ActiveIds \subseteq Ids
  BY DEF ActiveIds
<1>3. ActiveIds # {} => ActiveId \in ActiveIds
  BY DEF ActiveId
<1>4. ActiveIds = {} => ActiveId = 0
  BY DEF ActiveId
<1>5. CASE ActiveIds = {}
  BY <1>1, <1>2, <1>4, <1>5
<1>6. CASE ActiveIds # {}
  <2>1. ActiveId \in 1..Len(templates)
    BY <1>1, <1>2, <1>3, <1>6
  <2> QED
    BY <1>1, <1>2, <2>1
<1> QED
  BY <1>5, <1>6

\* A commit keeps every row but for its activity, and adds one.
LEMMA CommitRows ==
    ASSUME TypeOK, NEW a \in Admins, Commit(a)
    PROVE  /\ templates' \in Seq(TemplateRow)
           /\ Len(templates') = Len(templates) + 1
           /\ \A t \in Ids :
                /\ templates'[t].version = templates[t].version
                /\ templates'[t].items = templates[t].items
                /\ templates'[t].blind = templates[t].blind
                /\ templates'[t].active <=> templates[t].active /\ t \notin publish[a].off
           /\ LET new == templates'[Len(templates) + 1] IN
                /\ new.version = publish[a].version
                /\ new.active = TRUE
                /\ new.items = publish[a].items
                /\ new.blind = publish[a].blind
<1> DEFINE kept == Deactivated(publish[a].off)
           row == [version |-> publish[a].version, active |-> TRUE,
                   items |-> publish[a].items, blind |-> publish[a].blind]
<1>1. templates \in Seq(TemplateRow) /\ Len(templates) \in Nat /\ Ids = 1..Len(templates)
  BY ActiveIdType DEF TypeOK
<1>2. \A t \in Ids : templates[t] \in TemplateRow
  BY <1>1, ElementOfSeq
<1>3. \A t \in Ids :
        /\ kept[t] \in TemplateRow
        /\ kept[t].version = templates[t].version
        /\ kept[t].items = templates[t].items
        /\ kept[t].blind = templates[t].blind
        /\ kept[t].active <=> templates[t].active /\ t \notin publish[a].off
  BY <1>2 DEF Deactivated, TemplateRow
<1>4. kept \in [1..Len(templates) -> TemplateRow]
  BY <1>1, <1>3 DEF Deactivated
<1>5. kept \in Seq(TemplateRow) /\ Len(kept) = Len(templates)
  BY <1>1, <1>4, SeqDef, LenProperties
<1>6. publish[a] \in UpdatingRow
  BY RowKinds DEF TypeOK, Commit
<1>7. row \in TemplateRow
  BY <1>6 DEF UpdatingRow, TemplateRow
<1>8. templates' = Append(kept, row)
  BY DEF Commit
<1> HIDE DEF kept, row
<1>9. /\ templates' \in Seq(TemplateRow)
      /\ Len(templates') = Len(templates) + 1
      /\ \A t \in 1..Len(templates) : templates'[t] = kept[t]
      /\ templates'[Len(templates) + 1] = row
  BY <1>1, <1>5, <1>7, <1>8, AppendProperties
<1> QED
  BY <1>1, <1>3, <1>9 DEF row

-----------------------------------------------------------------------------
\* Types

LEMMA InitType == Init => TypeOK
<1> SUFFICES ASSUME Init PROVE TypeOK
  OBVIOUS
<1>1. /\ templates \in Seq(TemplateRow)
      /\ Len(templates) \in Nat
  <2>1. CASE templates = <<>>
    BY <2>1, EmptySeq
  <2>2. ASSUME NEW items \in Lists,
               templates = <<[version |-> 1, active |-> TRUE, items |-> items,
                              blind |-> FALSE]>>
        PROVE  templates \in Seq(TemplateRow)
    <3>1. [version |-> 1, active |-> TRUE, items |-> items, blind |-> FALSE]
            \in TemplateRow
      BY DEF TemplateRow
    <3> QED
      BY <2>2, <3>1
  <2> QED
    BY <2>1, <2>2, LenProperties DEF Init
<1>2. publish \in [Admins -> PublishRow] /\ \A a \in Admins : publish[a].at = "idle"
  BY DEF Init, Idle, PublishRow
<1>3. wizard \in [Admins -> WizardRow]
  BY DEF Init, WizardRow
<1>4. /\ phone \in [Phones -> PhoneRow]
      /\ \A p \in Phones : phone[p].shown = 0 /\ phone[p].page = "checklist"
  BY DEF Init, PhoneRow, Answers
<1>5. post \in [Phones -> PostRow] /\ \A p \in Phones : post[p] = Idle
  BY DEF Init, PostRow
<1>6. listed \in [Admins -> 0..Len(templates)] /\ posted \in Nat
  BY <1>1 DEF Init
<1>7. inspections = {}
  BY DEF Init
<1> QED
  BY <1>1, <1>2, <1>3, <1>4, <1>5, <1>6, <1>7 DEF TypeOK

\* What Publishing's screens do to a wizard.
LEMMA DashboardType ==
    ASSUME TypeOK, NEW a \in Admins, Dashboard(a)
    PROVE  TypeOK'
<1> USE DEF TypeOK
<1>1. CASE Refetch(a)
  BY <1>1, ActiveIdType DEF Refetch, Ids
<1>2. CASE RefetchFails(a) \/ CloseWizard(a)
  <2>1. wizard' \in [Admins -> WizardRow]
    BY <1>2 DEF RefetchFails, CloseWizard, WizardRow
  <2> QED
    BY <1>2, <2>1 DEF RefetchFails, CloseWizard, Ids
<1>3. CASE OpenWizard(a)
  <2>1. ItemsOf(listed[a]) \in Lists \cup {<<>>}
    BY ItemsOfType
  <2>2. wizard' \in [Admins -> WizardRow]
    BY <1>3, <2>1 DEF OpenWizard, WizardRow
  <2> QED
    BY <1>3, <2>2 DEF OpenWizard, Ids
<1>4. ASSUME NEW items \in Lists, EditItems(a, items)
      PROVE  TypeOK'
  <2>1. wizard[a] \in [step : {"editing"}, items : Lists \cup {<<>>}]
    BY <1>4 DEF EditItems, WizardRow
  <2>2. [wizard[a] EXCEPT !.items = items] \in WizardRow
    BY <2>1 DEF WizardRow
  <2>3. wizard' \in [Admins -> WizardRow]
    BY <1>4, <2>2 DEF EditItems
  <2> QED
    BY <1>4, <2>3 DEF EditItems, Ids
<1>5. CASE handleReviewChanges(a)
  <2>1. wizard[a] \in [step : {"editing"}, items : Lists \cup {<<>>}]
    BY <1>5 DEF handleReviewChanges, WizardRow
  <2>2. [step |-> "previewing", items |-> wizard[a].items] \in WizardRow
    BY <1>5, <2>1 DEF handleReviewChanges, WizardRow
  <2>3. wizard' \in [Admins -> WizardRow]
    BY <1>5, <2>2 DEF handleReviewChanges
  <2> QED
    BY <1>5, <2>3 DEF handleReviewChanges, Ids
<1>6. CASE handleBackToEdit(a)
  <2>1. wizard[a] \in [step : {"previewing", "submitting", "error"}, items : Lists]
    BY <1>6 DEF handleBackToEdit, WizardRow
  <2>2. [step |-> "editing", items |-> wizard[a].items] \in WizardRow
    BY <2>1 DEF WizardRow
  <2>3. wizard' \in [Admins -> WizardRow]
    BY <1>6, <2>2 DEF handleBackToEdit
  <2> QED
    BY <1>6, <2>3 DEF handleBackToEdit, Ids
<1>7. CASE handleConfirmPublish(a)
  <2>1. wizard[a] \in [step : {"previewing", "submitting", "error"}, items : Lists]
    BY <1>7 DEF handleConfirmPublish, WizardRow
  <2>2. [step |-> "submitting", items |-> wizard[a].items] \in WizardRow
    BY <2>1 DEF WizardRow
  <2>3. wizard' \in [Admins -> WizardRow]
    BY <1>7, <2>2 DEF handleConfirmPublish
  <2>4. [at |-> "posted", items |-> wizard[a].items] \in PublishRow
    BY <2>1 DEF PublishRow
  <2>5. /\ publish' \in [Admins -> PublishRow]
        /\ publish'[a].at = "posted"
        /\ \A b \in Admins \ {a} : publish'[b] = publish[b]
    BY <1>7, <2>4 DEF handleConfirmPublish
  <2> QED
    BY <1>7, <2>3, <2>5 DEF handleConfirmPublish, Ids
<1> QED
  BY <1>1, <1>2, <1>3, <1>4, <1>5, <1>6, <1>7 DEF Dashboard

\* A step of a's transaction that only moves its own row.
LEMMA OwnRowType ==
    ASSUME TypeOK, NEW a \in Admins, NEW row \in PublishRow,
           publish' = [publish EXCEPT ![a] = row],
           row.at = "failed" => row.against \subseteq Ids,
           UNCHANGED <<templates, listed, posted, phone, post, inspections>>,
           wizard' \in [Admins -> WizardRow]
    PROVE  TypeOK'
<1>1. /\ publish' \in [Admins -> PublishRow]
      /\ publish'[a] = row
      /\ \A b \in Admins \ {a} : publish'[b] = publish[b]
  BY DEF TypeOK
<1> QED
  BY <1>1 DEF TypeOK, Ids

LEMMA MaxVersion ==
    ASSUME TypeOK, NewestIsActive
    PROVE  Max(Versions \cup {0}) = Len(templates)
<1>1. Ids = 1..Len(templates) /\ Len(templates) \in Nat
  BY ActiveIdType
<1>2. Versions = 1..Len(templates)
  BY <1>1 DEF Versions, NewestIsActive
<1>3. Versions \cup {0} = 0..Len(templates)
  BY <1>1, <1>2
<1>4. \A x \in 0..Len(templates) :
        (\A y \in 0..Len(templates) : x >= y) <=> x = Len(templates)
  BY <1>1
<1> QED
  BY <1>3, <1>4 DEF Max

\* The statements of the transaction keep the types; the number they compute is
\* one because versions are numbered without a gap.
LEMMA TransactionType ==
    ASSUME TypeOK, NewestIsActive, NEW a \in Admins, Transaction(a) \/ Crash(a)
    PROVE  TypeOK'
<1> DEFINE row == publish[a]
<1>0. row \in PublishRow /\ Ids \in SUBSET Nat /\ ActiveIds \in SUBSET Nat
  BY ActiveIdType DEF TypeOK
<1>w. wizard \in [Admins -> WizardRow]
  BY DEF TypeOK
<1>1. CASE SelectForUpdate(a)
  <2> DEFINE new == [at |-> "locking", items |-> row.items, locks |-> LockRows(a),
                     blind |-> Ids = {}]
  <2>1. row \in [at : {"posted"}, items : Lists]
    BY <1>0, <1>1, RowKinds DEF SelectForUpdate
  <2>2. new \in PublishRow /\ new.at = "locking"
    BY <1>0, <2>1 DEF PublishRow, LockingRow, LockRows
  <2> HIDE DEF new
  <2>3. publish' = [publish EXCEPT ![a] = new]
    BY <1>1 DEF SelectForUpdate, new
  <2> QED
    BY <1>1, <1>w, <2>2, <2>3, OwnRowType DEF SelectForUpdate
<1>2. CASE Locked(a)
  <2> DEFINE new == [row EXCEPT !.at = "locked"]
  <2>1. row \in LockingRow
    BY <1>0, <1>2, RowKinds DEF Locked
  <2>2. new \in PublishRow /\ new.at = "locked"
    BY <2>1 DEF PublishRow, LockingRow
  <2> HIDE DEF new
  <2>3. publish' = [publish EXCEPT ![a] = new]
    BY <1>2 DEF Locked, new
  <2> QED
    BY <1>2, <1>w, <2>2, <2>3, OwnRowType DEF Locked
<1>3. CASE ReadMaxVersion(a)
  <2> DEFINE new == [at |-> "numbered", items |-> row.items, locks |-> row.locks,
                     blind |-> row.blind, version |-> Max(Versions \cup {0}) + 1]
  <2>1. row \in LockingRow
    BY <1>0, <1>3, RowKinds DEF ReadMaxVersion
  <2>2. Max(Versions \cup {0}) + 1 \in Nat
    BY MaxVersion, ActiveIdType
  <2>3. new \in PublishRow /\ new.at = "numbered"
    BY <2>1, <2>2 DEF PublishRow, LockingRow, NumberedRow
  <2> HIDE DEF new
  <2>4. publish' = [publish EXCEPT ![a] = new]
    BY <1>3 DEF ReadMaxVersion, new
  <2> QED
    BY <1>3, <1>w, <2>3, <2>4, OwnRowType DEF ReadMaxVersion
<1>4. CASE UpdateActive(a)
  <2> DEFINE new == [at |-> "updating", items |-> row.items, locks |-> row.locks,
                     blind |-> row.blind, version |-> row.version, off |-> ActiveIds]
  <2>1. row \in NumberedRow
    BY <1>0, <1>4, RowKinds DEF UpdateActive
  <2>2. new \in PublishRow /\ new.at = "updating"
    BY <1>0, <2>1 DEF PublishRow, NumberedRow, UpdatingRow
  <2> HIDE DEF new
  <2>3. publish' = [publish EXCEPT ![a] = new]
    BY <1>4 DEF UpdateActive, new
  <2> QED
    BY <1>4, <1>w, <2>2, <2>3, OwnRowType DEF UpdateActive
<1>5. CASE Updated(a)
  <2> DEFINE new == [row EXCEPT !.at = "updated", !.off = @ \cap ActiveIds]
  <2>1. row \in UpdatingRow
    BY <1>0, <1>5, RowKinds DEF Updated
  <2>2. new \in PublishRow /\ new.at = "updated"
    BY <2>1 DEF PublishRow, UpdatingRow
  <2> HIDE DEF new
  <2>3. publish' = [publish EXCEPT ![a] = new]
    BY <1>5 DEF Updated, new, TypeOK
  <2> QED
    BY <1>5, <1>w, <2>2, <2>3, OwnRowType DEF Updated
<1>6. CASE Insert(a)
  <2> DEFINE new == [row EXCEPT !.at = "inserted"]
  <2>1. row \in UpdatingRow
    BY <1>0, <1>6, RowKinds DEF Insert
  <2>2. new \in PublishRow /\ new.at = "inserted"
    BY <2>1 DEF PublishRow, UpdatingRow
  <2> HIDE DEF new
  <2>3. publish' = [publish EXCEPT ![a] = new]
    BY <1>6 DEF Insert, new
  <2> QED
    BY <1>6, <1>w, <2>2, <2>3, OwnRowType DEF Insert
<1>7. CASE InsertFails(a)
  <2> DEFINE new == [at |-> "failed", blind |-> row.blind,
                     against |-> {t \in Ids : Conflicts(a, t)}]
  <2>1. row \in UpdatingRow
    BY <1>0, <1>7, RowKinds DEF InsertFails
  <2>2. new \in PublishRow /\ new.against \subseteq Ids
    BY <1>0, <2>1 DEF PublishRow, UpdatingRow, FailedRow
  <2> HIDE DEF new
  <2>3. publish' = [publish EXCEPT ![a] = new]
    BY <1>7 DEF InsertFails, new
  <2> QED
    BY <1>7, <1>w, <2>2, <2>3, OwnRowType DEF InsertFails
<1>8. CASE Crash(a)
  <2> DEFINE new == [at |-> "failed", blind |-> FALSE, against |-> {}]
  <2>1. new \in PublishRow /\ new.against \subseteq Ids
    BY DEF PublishRow, FailedRow
  <2> HIDE DEF new
  <2>2. publish' = [publish EXCEPT ![a] = new]
    BY <1>8 DEF Crash, new
  <2> QED
    BY <1>8, <1>w, <2>1, <2>2, OwnRowType DEF Crash
<1>9. CASE PublishAnswered(a)
  <2>1. Idle \in PublishRow /\ Idle.at = "idle"
    BY DEF PublishRow, Idle
  <2>2. wizard' \in [Admins -> WizardRow]
    <3>1. ASSUME wizard[a].step = "submitting"
          PROVE  wizard[a] \in [step : {"previewing", "submitting", "error"},
                                items : Lists]
      BY <1>w, <3>1 DEF WizardRow
    <3>2. ASSUME wizard[a].step = "submitting"
          PROVE  [step |-> "error", items |-> wizard[a].items] \in WizardRow
      BY <3>1, <3>2 DEF WizardRow
    <3>3. [step |-> "submitted"] \in WizardRow
      BY DEF WizardRow
    <3> QED
      BY <1>9, <1>w, <3>2, <3>3 DEF PublishAnswered, Hears
  <2> QED
    BY <1>9, <2>1, <2>2, OwnRowType DEF PublishAnswered
<1>10. CASE Commit(a)
  <2>1. [at |-> "committed"] \in PublishRow
    BY DEF PublishRow
  <2>2. /\ publish' \in [Admins -> PublishRow]
        /\ publish'[a].at = "committed"
        /\ \A b \in Admins \ {a} : publish'[b] = publish[b]
    BY <1>10, <2>1 DEF Commit, TypeOK
  <2>3. /\ templates' \in Seq(TemplateRow)
        /\ Len(templates') = Len(templates) + 1
    BY <1>10, CommitRows
  <2>4. /\ Ids = 1..Len(templates) /\ Len(templates) \in Nat
        /\ Ids' = 1..(Len(templates) + 1)
    BY <2>3, ActiveIdType, LenProperties DEF Ids
  <2>5. Ids \subseteq Ids' /\ 0..Len(templates) \subseteq 0..Len(templates')
    BY <2>3, <2>4
  <2> QED
    BY <1>10, <2>2, <2>3, <2>5 DEF Commit, TypeOK
<1> QED
  BY <1>1, <1>2, <1>3, <1>4, <1>5, <1>6, <1>7, <1>8, <1>9, <1>10 DEF Transaction

\* A step of p's screens that only moves them.
LEMMA OwnPhoneType ==
    ASSUME TypeOK, NEW p \in Phones, NEW row \in PhoneRow,
           phone' = [phone EXCEPT ![p] = row],
           row.shown \in 0..Len(templates), row.page = "review" => row.shown # 0,
           UNCHANGED <<templates, publish, listed, wizard, posted>>,
           post' \in [Phones -> PostRow],
           \A q \in Phones : post'[q] # Idle => post'[q].template \in Ids,
           inspections' \subseteq [template : Ids, responses : Responses, active : Nat]
    PROVE  TypeOK'
<1>1. /\ phone' \in [Phones -> PhoneRow]
      /\ phone'[p] = row
      /\ \A q \in Phones \ {p} : phone'[q] = phone[q]
  BY DEF TypeOK
<1> QED
  BY <1>1 DEF TypeOK, Ids

LEMMA PhoneType ==
    ASSUME TypeOK, NEW p \in Phones, Phone(p)
    PROVE  TypeOK'
<1>0. /\ phone[p] \in PhoneRow /\ phone[p].shown \in 0..Len(templates)
      /\ phone[p].page = "review" => phone[p].shown # 0
  BY DEF TypeOK
<1>1. CASE LoadChecklist(p)
  <2> DEFINE new == [phone[p] EXCEPT !.shown = ActiveId]
  <2>1. ActiveId \in 0..Len(templates) /\ ActiveId \in Nat
    BY ActiveIdType
  <2>2. new \in PhoneRow /\ new.shown = ActiveId /\ new.page = "checklist"
    BY <1>0, <1>1, <2>1 DEF LoadChecklist, PhoneRow
  <2> HIDE DEF new
  <2>3. phone' = [phone EXCEPT ![p] = new]
    BY <1>1 DEF LoadChecklist, new
  <2> QED
    BY <1>1, <2>1, <2>2, <2>3, OwnPhoneType DEF LoadChecklist, TypeOK
<1>2. ASSUME NEW item \in ItemSet(phone[p].shown), AnswerItem(p, item)
      PROVE  TypeOK'
  <2> DEFINE new == [phone[p] EXCEPT !.answers[item.key] = item]
  <2>1. item \in Item /\ item.key \in Keys
    BY <1>0, ItemsOfType DEF Item
  <2>2. /\ new \in PhoneRow /\ new.shown = phone[p].shown
        /\ new.page = phone[p].page
    BY <1>0, <2>1 DEF PhoneRow, Answers
  <2> HIDE DEF new
  <2>3. phone' = [phone EXCEPT ![p] = new]
    BY <1>2 DEF AnswerItem, new
  <2> QED
    BY <1>0, <1>2, <2>2, <2>3, OwnPhoneType DEF AnswerItem, TypeOK
<1>3. CASE GoToReview(p) \/ BackToChecklist(p)
  <2>1. PICK page \in {"checklist", "review"} :
          /\ phone' = [phone EXCEPT ![p].page = page]
          /\ page = "review" => phone[p].shown # 0
    BY <1>3 DEF GoToReview, BackToChecklist, canSubmit
  <2> DEFINE new == [phone[p] EXCEPT !.page = page]
  <2>2. new \in PhoneRow /\ new.shown = phone[p].shown /\ new.page = page
    BY <1>0 DEF PhoneRow
  <2> HIDE DEF new
  <2>3. phone' = [phone EXCEPT ![p] = new]
    BY <2>1 DEF new
  <2>4. UNCHANGED <<templates, publish, listed, wizard, posted, post, inspections>>
    BY <1>3 DEF GoToReview, BackToChecklist
  <2> QED
    BY <1>0, <2>1, <2>2, <2>3, <2>4, OwnPhoneType DEF TypeOK
<1>4. CASE handleConfirm(p)
  <2> DEFINE new == [at |-> "sent", template |-> phone[p].shown,
                     responses |-> buildSubmitPayload(p), active |-> ActiveId]
  <2>1. ActiveId \in Nat /\ Ids = 1..Len(templates) /\ Len(templates) \in Nat
    BY ActiveIdType
  <2>2. phone[p].shown \in Ids
    BY <1>0, <1>4, <2>1 DEF handleConfirm
  <2>3. buildSubmitPayload(p) \in Responses
    <3> DEFINE K == Answered(p) \cap KeysOf(ItemsOf(phone[p].shown))
    <3>1. K \in SUBSET Keys
      BY DEF Answered
    <3>2. phone[p].answers \in [Keys -> Answers]
      BY <1>0 DEF PhoneRow
    <3>3. buildSubmitPayload(p) \in [K -> Answers]
      BY <3>1, <3>2 DEF buildSubmitPayload
    <3> QED
      BY <3>1, <3>3 DEF Responses
  <2>4. new \in PostRow /\ new.template \in Ids
    BY <2>1, <2>2, <2>3 DEF PostRow
  <2> HIDE DEF new
  <2>5. post' = [post EXCEPT ![p] = new]
    BY <1>4 DEF handleConfirm, new
  <2>6. /\ post' \in [Phones -> PostRow]
        /\ \A q \in Phones : post'[q] # Idle => post'[q].template \in Ids
    BY <2>4, <2>5 DEF TypeOK
  <2> QED
    BY <1>4, <2>6 DEF handleConfirm, TypeOK, Ids
<1> QED
  BY <1>1, <1>2, <1>3, <1>4 DEF Phone

LEMMA ServerType ==
    ASSUME TypeOK, NEW p \in Phones, Server(p)
    PROVE  TypeOK'
<1>0. Idle \in PostRow
  BY DEF PostRow
<1>1. CASE Gate(p)
  <2> DEFINE new == [post[p] EXCEPT !.at = "admitted"]
  <2>1. post[p] # Idle /\ post[p] \in PostRow /\ post[p].template \in Ids
    BY <1>1 DEF Gate, TypeOK, Idle
  <2>2. new \in PostRow /\ new.template = post[p].template
    BY <2>1 DEF PostRow
  <2> HIDE DEF new
  <2>3. post' = [post EXCEPT ![p] = new]
    BY <1>1 DEF Gate, new
  <2> QED
    BY <1>1, <2>1, <2>2, <2>3 DEF Gate, TypeOK, Ids
<1>2. CASE GateRefuses(p)
  BY <1>0, <1>2 DEF GateRefuses, TypeOK, Ids
<1>3. CASE Record(p)
  <2> DEFINE new == [page |-> "checklist", shown |-> 0,
                     answers |-> [k \in Keys |-> None]]
  <2>1. new \in PhoneRow /\ new.page = "checklist" /\ new.shown = 0
    BY DEF PhoneRow, Answers
  <2> HIDE DEF new
  <2>2. /\ post[p] \in [at : {"sent", "admitted"}, template : Nat,
                        responses : Responses, active : Nat]
        /\ post[p].template \in Ids
    BY <1>3 DEF Record, TypeOK, Idle, PostRow
  <2>3. inspections' \subseteq [template : Ids, responses : Responses, active : Nat]
    BY <1>3, <2>2 DEF Record, TypeOK
  <2>4. /\ post' \in [Phones -> PostRow]
        /\ \A q \in Phones : post'[q] # Idle => post'[q].template \in Ids
    BY <1>0, <1>3 DEF Record, TypeOK
  <2>5. phone' = [phone EXCEPT ![p] = new]
    BY <1>3 DEF Record, new
  <2>6. 0 \in 0..Len(templates)
    BY ActiveIdType
  <2> QED
    BY <1>3, <2>1, <2>3, <2>4, <2>5, <2>6, OwnPhoneType DEF Record
<1> QED
  BY <1>1, <1>2, <1>3 DEF Server

LEMMA NextType ==
    ASSUME TypeOK, NewestIsActive, [Next]_vars
    PROVE  TypeOK'
<1>1. CASE UNCHANGED vars
  BY <1>1 DEF vars, TypeOK, Ids
<1> QED
  BY <1>1, DashboardType, TransactionType, PhoneType, ServerType DEF Next

-----------------------------------------------------------------------------
\* Versions. The unique indexes let a row in only when it carries the next
\* number and its transaction has deactivated the active row; and they keep all
\* other rows out until its transaction has ended.

Numbered(a) == publish[a].at \in {"numbered", "updating", "updated", "inserted"}

InsertedFits ==
    /\ \A a \in Admins :
        Numbered(a) => publish[a].version \in 1..(Len(templates) + 1)
    /\ \A a, b \in Admins :
        publish[a].at = "inserted" /\ publish[b].at = "inserted" => a = b
    /\ \A a \in Admins :
        publish[a].at = "inserted" =>
            /\ publish[a].version = Len(templates) + 1
            /\ ActiveIds \subseteq publish[a].off

VersionInvariant == NewestIsActive /\ InsertedFits

LEMMA InitVersions == Init => VersionInvariant
<1> SUFFICES ASSUME Init PROVE VersionInvariant
  OBVIOUS
<1>1. \A a \in Admins : publish[a].at = "idle"
  BY DEF Init, Idle
<1>2. NewestIsActive
  <2>1. CASE templates = <<>>
    BY <2>1 DEF NewestIsActive, Ids
  <2>2. ASSUME NEW items \in Lists,
               templates = <<[version |-> 1, active |-> TRUE, items |-> items,
                              blind |-> FALSE]>>
        PROVE  NewestIsActive
    <3>1. Ids = {1} /\ Len(templates) = 1
      BY <2>2 DEF Ids
    <3>2. templates[1].version = 1 /\ templates[1].active
      BY <2>2
    <3> QED
      BY <3>1, <3>2 DEF NewestIsActive
  <2> QED
    BY <2>1, <2>2 DEF Init
<1> QED
  BY <1>1, <1>2 DEF VersionInvariant, InsertedFits, Numbered

\* Whatever does not touch publish and templates.
LEMMA VersionsKept ==
    ASSUME VersionInvariant, UNCHANGED <<templates, publish>>
    PROVE  VersionInvariant'
  BY DEF VersionInvariant, NewestIsActive, InsertedFits, Numbered, ActiveIds, Ids

\* A statement of a that neither commits nor inserts.
LEMMA VersionsKeptByStatement ==
    ASSUME TypeOK, TypeOK', VersionInvariant, NEW a \in Admins,
           UNCHANGED templates,
           \A b \in Admins \ {a} : publish'[b] = publish[b],
           publish'[a].at # "inserted",
           Numbered(a)' => publish'[a].version \in 1..(Len(templates) + 1)
    PROVE  VersionInvariant'
  BY DEF VersionInvariant, NewestIsActive, InsertedFits, Numbered, ActiveIds, Ids

LEMMA TransactionKeepsVersions ==
    ASSUME TypeOK, TypeOK', VersionInvariant, NEW a \in Admins,
           Transaction(a) \/ Crash(a)
    PROVE  VersionInvariant'
<1>0. /\ Ids = 1..Len(templates) /\ Len(templates) \in Nat
      /\ publish \in [Admins -> PublishRow] /\ publish[a] \in PublishRow
  BY ActiveIdType DEF TypeOK
<1>1. CASE \/ SelectForUpdate(a) \/ Locked(a) \/ InsertFails(a) \/ Crash(a)
           \/ PublishAnswered(a)
  <2>1. UNCHANGED templates
    BY <1>1 DEF SelectForUpdate, Locked, InsertFails, Crash, PublishAnswered
  <2>2. \A b \in Admins \ {a} : publish'[b] = publish[b]
    BY <1>0, <1>1 DEF SelectForUpdate, Locked, InsertFails, Crash, PublishAnswered
  <2>3. publish'[a].at \in {"locking", "locked", "failed", "idle"}
    <3>1. CASE Locked(a)
      <4>1. publish[a] \in LockingRow
        BY <1>0, <3>1, RowKinds DEF Locked
      <4> QED
        BY <1>0, <3>1, <4>1 DEF Locked, LockingRow
    <3>2. CASE SelectForUpdate(a) \/ InsertFails(a) \/ Crash(a) \/ PublishAnswered(a)
      BY <1>0, <3>2 DEF SelectForUpdate, InsertFails, Crash, PublishAnswered, Idle
    <3> QED
      BY <1>1, <3>1, <3>2
  <2> QED
    BY <2>1, <2>2, <2>3, VersionsKeptByStatement DEF Numbered
<1>2. CASE ReadMaxVersion(a)
  <2>1. publish'[a].version = Len(templates) + 1 /\ publish'[a].at = "numbered"
    BY <1>0, <1>2, MaxVersion DEF ReadMaxVersion, VersionInvariant
  <2>2. publish'[a].version \in 1..(Len(templates) + 1) /\ publish'[a].at # "inserted"
    BY <1>0, <2>1
  <2> QED
    BY <1>0, <1>2, <2>2, VersionsKeptByStatement DEF ReadMaxVersion
<1>3. CASE UpdateActive(a)
  <2>1. publish'[a].version = publish[a].version /\ publish'[a].at = "updating"
    BY <1>0, <1>3 DEF UpdateActive
  <2>2. publish[a].version \in 1..(Len(templates) + 1)
    BY <1>3 DEF UpdateActive, VersionInvariant, InsertedFits, Numbered
  <2> QED
    BY <1>0, <1>3, <2>1, <2>2, VersionsKeptByStatement DEF UpdateActive
<1>4. CASE Updated(a)
  <2>1. publish[a] \in UpdatingRow
    BY <1>0, <1>4, RowKinds DEF Updated
  <2>2. publish'[a].version = publish[a].version /\ publish'[a].at = "updated"
    BY <1>0, <1>4, <2>1 DEF Updated, UpdatingRow
  <2>3. publish[a].version \in 1..(Len(templates) + 1)
    BY <1>4 DEF Updated, VersionInvariant, InsertedFits, Numbered
  <2> QED
    BY <1>0, <1>4, <2>2, <2>3, VersionsKeptByStatement DEF Updated
<1>5. CASE Insert(a)
  <2>1. publish[a] \in UpdatingRow
    BY <1>0, <1>5, RowKinds DEF Insert
  <2>2. /\ publish'[a].version = publish[a].version /\ publish'[a].at = "inserted"
        /\ publish'[a].off = publish[a].off
        /\ \A b \in Admins \ {a} : publish'[b] = publish[b] /\ publish[b].at # "inserted"
        /\ UNCHANGED templates
    BY <1>0, <1>5, <2>1 DEF Insert, InsertWaits, UpdatingRow
  <2>3. publish[a].version \in 1..(Len(templates) + 1)
    BY <1>5 DEF Insert, VersionInvariant, InsertedFits, Numbered
  <2>4. \A t \in Ids : templates[t].version # publish[a].version
                       /\ (templates[t].active => t \in publish[a].off)
    BY <1>5 DEF Insert, Conflicts
  <2>5. publish[a].version \notin Ids
    BY <2>4 DEF VersionInvariant, NewestIsActive
  <2>6. publish[a].version = Len(templates) + 1
    BY <1>0, <2>3, <2>5
  <2>7. ActiveIds \subseteq publish[a].off
    BY <2>4 DEF ActiveIds
  <2> QED
    BY <2>2, <2>3, <2>6, <2>7
    DEF VersionInvariant, NewestIsActive, InsertedFits, Numbered, ActiveIds, Ids
<1>6. CASE Commit(a)
  <2> DEFINE n == Len(templates)
  <2>1. publish[a].version = n + 1 /\ ActiveIds \subseteq publish[a].off
    BY <1>6 DEF Commit, VersionInvariant, InsertedFits
  <2>2. /\ Ids' = 1..(n + 1) /\ Len(templates') = n + 1
    BY <1>0, <1>6, CommitRows, LenProperties DEF Ids
  <2>3. \A t \in 1..n : templates'[t].version = t /\ ~templates'[t].active
    <3>1. \A t \in Ids : templates[t].active => t \in publish[a].off
      BY <2>1 DEF ActiveIds
    <3>2. \A t \in Ids : templates'[t].version = templates[t].version
      BY <1>6, CommitRows
    <3>3. \A t \in Ids : templates'[t].active <=> templates[t].active /\ t \notin publish[a].off
      BY <1>6, CommitRows
    <3>4. \A t \in Ids : ~templates'[t].active
      BY <3>1, <3>3
    <3> QED
      BY <1>0, <3>2, <3>4 DEF VersionInvariant, NewestIsActive
  <2>4. templates'[n + 1].version = n + 1 /\ templates'[n + 1].active = TRUE
    BY <1>6, <2>1, CommitRows
  <2>5. NewestIsActive'
    BY <1>0, <2>2, <2>3, <2>4 DEF NewestIsActive
  <2>6. /\ publish'[a].at = "committed"
        /\ \A b \in Admins \ {a} : publish'[b] = publish[b] /\ publish[b].at # "inserted"
    BY <1>0, <1>6 DEF Commit, VersionInvariant, InsertedFits
  <2>7. InsertedFits'
    BY <1>0, <2>2, <2>6 DEF VersionInvariant, InsertedFits, Numbered
  <2> QED
    BY <2>5, <2>7 DEF VersionInvariant
<1> QED
  BY <1>1, <1>2, <1>3, <1>4, <1>5, <1>6 DEF Transaction

LEMMA PostingKeepsVersions ==
    ASSUME TypeOK, TypeOK', VersionInvariant, NEW a \in Admins, handleConfirmPublish(a)
    PROVE  VersionInvariant'
<1>1. /\ publish'[a].at = "posted" /\ UNCHANGED templates
      /\ \A b \in Admins \ {a} : publish'[b] = publish[b]
  BY DEF handleConfirmPublish, TypeOK
<1> QED
  BY <1>1, VersionsKeptByStatement DEF Numbered

LEMMA NextVersions ==
    ASSUME TypeOK, TypeOK', VersionInvariant, [Next]_vars
    PROVE  VersionInvariant'
<1>1. CASE UNCHANGED vars
  BY <1>1, VersionsKept DEF vars
<1>2. ASSUME NEW a \in Admins, Dashboard(a)
      PROVE  VersionInvariant'
  BY <1>2, VersionsKept, PostingKeepsVersions
  DEF Dashboard, Refetch, RefetchFails, OpenWizard, EditItems, handleReviewChanges,
      handleBackToEdit, CloseWizard
<1>3. ASSUME NEW p \in Phones, Phone(p) \/ Server(p)
      PROVE  VersionInvariant'
  <2>1. UNCHANGED <<templates, publish>>
    BY <1>3 DEF Phone, Server, LoadChecklist, AnswerItem, GoToReview, BackToChecklist,
                handleConfirm, Gate, GateRefuses, Record
  <2> QED
    BY <2>1, VersionsKept
<1> QED
  BY <1>1, <1>2, <1>3, TransactionKeepsVersions DEF Next

\* Types, of tables and screens alike.
THEOREM TypeCorrect == Spec => []TypeOK
<1>1. Init => TypeOK /\ VersionInvariant
  BY InitType, InitVersions
<1>2. TypeOK /\ VersionInvariant /\ [Next]_vars => (TypeOK /\ VersionInvariant)'
  BY NextType, NextVersions DEF VersionInvariant
<1> QED
  BY <1>1, <1>2, PTL DEF Spec

\* However many admins publish at once, and on a type without any version too,
\* versions have no gap and exactly the newest is active.
THEOREM NewestStaysActive == Spec => []NewestIsActive
<1>1. Init => TypeOK /\ VersionInvariant
  BY InitType, InitVersions
<1>2. TypeOK /\ VersionInvariant /\ [Next]_vars => (TypeOK /\ VersionInvariant)'
  BY NextType, NextVersions DEF VersionInvariant
<1>3. VersionInvariant => NewestIsActive
  BY DEF VersionInvariant
<1> QED
  BY <1>1, <1>2, <1>3, PTL DEF Spec

-----------------------------------------------------------------------------
\* Collisions. Publishes that found a version all want the lock of the first
\* one, so they hold locks one at a time; what is committed while one of them
\* does is blind.

Holding(a) == publish[a].at \in {"locked", "numbered", "updating", "updated", "inserted"}
Deactivating(a) == publish[a].at \in {"updating", "updated", "inserted"}

Sees(a) == ~publish[a].blind

QueueInvariant ==
    /\ \A a \in Admins :
        (publish[a].at = "locking" \/ Holding(a)) /\ Sees(a) => 1 \in publish[a].locks
    /\ \A a, b \in Admins :
        Holding(a) /\ Sees(a) /\ Holding(b) /\ Sees(b) => a = b
    /\ \A a \in Admins : Numbered(a) /\ Sees(a) =>
        \A t \in Ids : t >= publish[a].version => templates[t].blind
    /\ \A a \in Admins : Deactivating(a) /\ Sees(a) =>
        \A t \in ActiveIds : t \notin publish[a].off => templates[t].blind
    /\ OnlyFirstPublishesCollide

LEMMA InitQueue == Init => QueueInvariant
  BY DEF Init, Idle, QueueInvariant, OnlyFirstPublishesCollide, Holding, Numbered,
         Deactivating

LEMMA QueueKept ==
    ASSUME QueueInvariant, UNCHANGED <<templates, publish>>
    PROVE  QueueInvariant'
  BY DEF QueueInvariant, OnlyFirstPublishesCollide, Holding, Numbered, Deactivating,
         Sees, ActiveIds, Ids

\* A statement of a that commits nothing.
LEMMA QueueKeptByStatement ==
    ASSUME QueueInvariant, NEW a \in Admins, UNCHANGED templates,
           \A b \in Admins \ {a} : publish'[b] = publish[b],
           ((publish[a].at = "locking" \/ Holding(a)) /\ Sees(a))' => 1 \in publish'[a].locks,
           (Holding(a) /\ Sees(a))' =>
                \A b \in Admins \ {a} : ~(Holding(b) /\ Sees(b)),
           (Numbered(a) /\ Sees(a))' =>
                \A t \in Ids : t >= publish'[a].version => templates[t].blind,
           (Deactivating(a) /\ Sees(a))' =>
                \A t \in ActiveIds : t \notin publish'[a].off => templates[t].blind,
           publish'[a].at = "failed" /\ ~publish'[a].blind =>
                \A t \in publish'[a].against : templates[t].blind
    PROVE  QueueInvariant'
<1>1. /\ Ids' = Ids /\ ActiveIds' = ActiveIds
      /\ \A t : templates'[t].blind = templates[t].blind
  BY DEF Ids, ActiveIds
<1>2. \A b \in Admins \ {a} : /\ Holding(b)' <=> Holding(b)
                              /\ Numbered(b)' <=> Numbered(b)
                              /\ Deactivating(b)' <=> Deactivating(b)
                              /\ Sees(b)' <=> Sees(b)
  BY DEF Holding, Numbered, Deactivating, Sees
<1>3. \A b \in Admins :
        ((publish[b].at = "locking" \/ Holding(b)) /\ Sees(b))' => 1 \in publish'[b].locks
  BY <1>2 DEF QueueInvariant
<1>4. \A b, c \in Admins :
        (Holding(b) /\ Sees(b) /\ Holding(c) /\ Sees(c))' => b = c
  BY <1>2 DEF QueueInvariant
<1>5. \A b \in Admins : (Numbered(b) /\ Sees(b))' =>
        \A t \in Ids : t >= publish'[b].version => templates[t].blind
  BY <1>2 DEF QueueInvariant
<1>6. \A b \in Admins : (Deactivating(b) /\ Sees(b))' =>
        \A t \in ActiveIds : t \notin publish'[b].off => templates[t].blind
  BY <1>2 DEF QueueInvariant
<1>7. OnlyFirstPublishesCollide'
  BY DEF QueueInvariant, OnlyFirstPublishesCollide
<1> QED
  BY <1>1, <1>3, <1>4, <1>5, <1>6, <1>7 DEF QueueInvariant

LEMMA TransactionKeepsQueue ==
    ASSUME TypeOK, TypeOK', VersionInvariant, QueueInvariant, NEW a \in Admins,
           Transaction(a) \/ Crash(a)
    PROVE  QueueInvariant'
<1>0. /\ Ids = 1..Len(templates) /\ Len(templates) \in Nat
      /\ publish \in [Admins -> PublishRow] /\ publish[a] \in PublishRow
  BY ActiveIdType DEF TypeOK
<1> USE DEF Holding, Numbered, Deactivating, Sees
<1>1. CASE SelectForUpdate(a)
  <2>1. /\ UNCHANGED templates
        /\ \A b \in Admins \ {a} : publish'[b] = publish[b]
        /\ publish'[a].at = "locking" /\ publish'[a].locks = Ids
        /\ publish'[a].blind <=> (Ids = {})
    BY <1>0, <1>1 DEF SelectForUpdate, LockRows
  <2>2. Ids # {} => 1 \in Ids
    <3>1. Len(templates) = 0 => Ids = {}
      BY <1>0
    <3>2. Len(templates) # 0 => 1 \in Ids
      BY <1>0
    <3> QED
      BY <3>1, <3>2
  <2>3. ~publish'[a].blind => 1 \in Ids
    BY <2>1, <2>2
  <2> QED
    BY <2>1, <2>3, QueueKeptByStatement
<1>2. CASE Locked(a)
  <2>1. publish[a] \in LockingRow
    BY <1>0, <1>2, RowKinds DEF Locked
  <2>2. /\ UNCHANGED templates
        /\ \A b \in Admins \ {a} : publish'[b] = publish[b]
        /\ publish'[a].at = "locked" /\ publish'[a].locks = publish[a].locks
        /\ publish'[a].blind = publish[a].blind
    BY <1>0, <1>2, <2>1 DEF Locked, LockingRow
  <2>3. ~publish[a].blind => 1 \in publish[a].locks
    BY <1>2 DEF Locked, QueueInvariant
  <2>4. \A b \in Admins \ {a} : Holding(b) /\ Sees(b) => 1 \in HeldByOthers(a)
    BY DEF QueueInvariant, HeldByOthers, Holds, ForUpdate
  <2>5. ~publish[a].blind => \A b \in Admins \ {a} : ~(Holding(b) /\ Sees(b))
    BY <1>2, <2>3, <2>4 DEF Locked
  <2> QED
    BY <2>2, <2>3, <2>5, QueueKeptByStatement
<1>3. CASE ReadMaxVersion(a)
  <2>1. /\ UNCHANGED templates
        /\ \A b \in Admins \ {a} : publish'[b] = publish[b]
        /\ publish'[a].at = "numbered" /\ publish'[a].locks = publish[a].locks
        /\ publish'[a].blind = publish[a].blind
        /\ publish'[a].version = Len(templates) + 1
    BY <1>0, <1>3, MaxVersion DEF ReadMaxVersion, VersionInvariant
  <2>2. \A t \in Ids : ~(t >= publish'[a].version)
    BY <1>0, <2>1
  <2>3. ~publish[a].blind => /\ 1 \in publish[a].locks
                             /\ \A b \in Admins \ {a} : ~(Holding(b) /\ Sees(b))
    BY <1>3 DEF ReadMaxVersion, QueueInvariant
  <2> QED
    BY <2>1, <2>2, <2>3, QueueKeptByStatement
<1>4. CASE UpdateActive(a)
  <2>1. /\ UNCHANGED templates
        /\ \A b \in Admins \ {a} : publish'[b] = publish[b]
        /\ publish'[a].at = "updating" /\ publish'[a].locks = publish[a].locks
        /\ publish'[a].blind = publish[a].blind
        /\ publish'[a].version = publish[a].version
        /\ publish'[a].off = ActiveIds
    BY <1>0, <1>4 DEF UpdateActive
  <2>2. ~publish[a].blind =>
            /\ 1 \in publish[a].locks
            /\ \A b \in Admins \ {a} : ~(Holding(b) /\ Sees(b))
            /\ \A t \in Ids : t >= publish[a].version => templates[t].blind
    BY <1>4 DEF UpdateActive, QueueInvariant
  <2> QED
    BY <2>1, <2>2, QueueKeptByStatement
<1>5. CASE Updated(a) \/ Insert(a)
  <2>1. publish[a] \in UpdatingRow
    BY <1>0, <1>5, RowKinds DEF Updated, Insert
  <2>2. /\ UNCHANGED templates
        /\ \A b \in Admins \ {a} : publish'[b] = publish[b]
        /\ publish'[a].at \in {"updated", "inserted"}
        /\ publish'[a].locks = publish[a].locks
        /\ publish'[a].blind = publish[a].blind
        /\ publish'[a].version = publish[a].version
        /\ publish'[a].off \in {publish[a].off, publish[a].off \cap ActiveIds}
    BY <1>0, <1>5, <2>1 DEF Updated, Insert, UpdatingRow
  <2>3. ~publish[a].blind =>
            /\ 1 \in publish[a].locks
            /\ \A b \in Admins \ {a} : ~(Holding(b) /\ Sees(b))
            /\ \A t \in Ids : t >= publish[a].version => templates[t].blind
            /\ \A t \in ActiveIds : t \notin publish[a].off => templates[t].blind
    BY <1>5 DEF Updated, Insert, QueueInvariant
  <2> QED
    BY <2>2, <2>3, QueueKeptByStatement
<1>6. CASE InsertFails(a)
  <2>1. /\ UNCHANGED templates
        /\ \A b \in Admins \ {a} : publish'[b] = publish[b]
        /\ publish'[a].at = "failed"
        /\ publish'[a].blind = publish[a].blind
        /\ publish'[a].against = {t \in Ids : Conflicts(a, t)}
    BY <1>0, <1>6 DEF InsertFails
  <2>2. ASSUME ~publish[a].blind, NEW t \in Ids, Conflicts(a, t)
        PROVE  templates[t].blind
    <3>1. CASE templates[t].version = publish[a].version
      <4>1. t = publish[a].version
        BY <3>1 DEF VersionInvariant, NewestIsActive
      <4>2. t >= publish[a].version
        BY <1>0, <4>1
      <4> QED
        BY <1>6, <2>2, <4>2 DEF InsertFails, QueueInvariant
    <3>2. CASE templates[t].active /\ t \notin publish[a].off
      BY <1>6, <2>2, <3>2 DEF InsertFails, QueueInvariant, ActiveIds
    <3> QED
      BY <2>2, <3>1, <3>2 DEF Conflicts
  <2> QED
    BY <2>1, <2>2, QueueKeptByStatement
<1>7. CASE Crash(a) \/ PublishAnswered(a)
  <2>1. /\ UNCHANGED templates
        /\ \A b \in Admins \ {a} : publish'[b] = publish[b]
        /\ \/ publish'[a].at = "failed" /\ publish'[a].against = {}
           \/ publish'[a].at = "idle"
    BY <1>0, <1>7 DEF Crash, PublishAnswered, Idle
  <2> QED
    BY <2>1, QueueKeptByStatement
<1>8. CASE Commit(a)
  <2> DEFINE n == Len(templates)
  <2>1. /\ publish'[a].at = "committed" /\ Holding(a)
        /\ \A b \in Admins \ {a} : publish'[b] = publish[b]
    BY <1>0, <1>8 DEF Commit
  <2>2. /\ Ids' = 1..(n + 1)
        /\ \A t \in Ids : templates'[t].blind = templates[t].blind
        /\ templates'[n + 1].blind = publish[a].blind
        /\ \A t \in Ids : templates'[t].active => templates[t].active
    BY <1>0, <1>8, CommitRows, LenProperties DEF Ids
  <2>3. ASSUME NEW b \in Admins \ {a}, Holding(b), Sees(b)
        PROVE  templates'[n + 1].blind
    BY <2>1, <2>2, <2>3 DEF QueueInvariant
  <2>4. ASSUME NEW b \in Admins, (Numbered(b) /\ Sees(b))', NEW t \in Ids',
               t >= publish'[b].version
        PROVE  templates'[t].blind
    <3>1. b # a /\ Numbered(b) /\ Sees(b) /\ publish'[b] = publish[b]
      BY <2>1, <2>4
    <3>2. CASE t \in Ids
      BY <2>2, <2>4, <3>1, <3>2 DEF QueueInvariant
    <3>3. CASE t = n + 1
      BY <2>3, <3>1, <3>3
    <3> QED
      BY <1>0, <2>2, <3>2, <3>3
  <2>5. ASSUME NEW b \in Admins, (Deactivating(b) /\ Sees(b))', NEW t \in ActiveIds',
               t \notin publish'[b].off
        PROVE  templates'[t].blind
    <3>1. b # a /\ Deactivating(b) /\ Sees(b) /\ publish'[b] = publish[b]
      BY <2>1, <2>5
    <3>2. CASE t \in Ids
      <4>1. t \in ActiveIds
        BY <2>2, <2>5, <3>2 DEF ActiveIds
      <4> QED
        BY <2>2, <2>5, <3>1, <3>2, <4>1 DEF QueueInvariant
    <3>3. CASE t = n + 1
      BY <2>3, <3>1, <3>3
    <3>4. t \in Ids'
      BY DEF ActiveIds
    <3> QED
      BY <1>0, <2>2, <3>2, <3>3, <3>4
  <2>6. OnlyFirstPublishesCollide'
    <3>1. ASSUME NEW b \in Admins, publish'[b].at = "failed", ~publish'[b].blind,
                 NEW t \in publish'[b].against
          PROVE  templates'[t].blind
      <4>1. b # a /\ publish'[b] = publish[b]
        BY <2>1, <3>1
      <4>2. t \in Ids
        BY <3>1, <4>1 DEF TypeOK
      <4> QED
        BY <2>2, <3>1, <4>1, <4>2 DEF QueueInvariant, OnlyFirstPublishesCollide
    <3> QED
      BY <3>1 DEF OnlyFirstPublishesCollide
  <2>7. \A b \in Admins :
          ((publish[b].at = "locking" \/ Holding(b)) /\ Sees(b))' => 1 \in publish'[b].locks
    BY <2>1 DEF QueueInvariant
  <2>8. \A b, c \in Admins :
          (Holding(b) /\ Sees(b) /\ Holding(c) /\ Sees(c))' => b = c
    BY <2>1 DEF QueueInvariant
  <2> HIDE DEF Holding, Numbered, Deactivating, Sees
  <2> QED
    BY <2>4, <2>5, <2>6, <2>7, <2>8 DEF QueueInvariant
<1> QED
  BY <1>1, <1>2, <1>3, <1>4, <1>5, <1>6, <1>7, <1>8 DEF Transaction

LEMMA PostingKeepsQueue ==
    ASSUME TypeOK, QueueInvariant, NEW a \in Admins, handleConfirmPublish(a)
    PROVE  QueueInvariant'
<1>1. /\ publish'[a].at = "posted" /\ UNCHANGED templates
      /\ \A b \in Admins \ {a} : publish'[b] = publish[b]
  BY DEF handleConfirmPublish, TypeOK
<1> QED
  BY <1>1, QueueKeptByStatement DEF Holding, Numbered, Deactivating

LEMMA NextQueue ==
    ASSUME TypeOK, TypeOK', VersionInvariant, QueueInvariant, [Next]_vars
    PROVE  QueueInvariant'
<1>1. CASE UNCHANGED vars
  BY <1>1, QueueKept DEF vars
<1>2. ASSUME NEW a \in Admins, Dashboard(a)
      PROVE  QueueInvariant'
  BY <1>2, QueueKept, PostingKeepsQueue
  DEF Dashboard, Refetch, RefetchFails, OpenWizard, EditItems, handleReviewChanges,
      handleBackToEdit, CloseWizard
<1>3. ASSUME NEW p \in Phones, Phone(p) \/ Server(p)
      PROVE  QueueInvariant'
  <2>1. UNCHANGED <<templates, publish>>
    BY <1>3 DEF Phone, Server, LoadChecklist, AnswerItem, GoToReview, BackToChecklist,
                handleConfirm, Gate, GateRefuses, Record
  <2> QED
    BY <2>1, QueueKept
<1> QED
  BY <1>1, <1>2, <1>3, TransactionKeepsQueue DEF Next

\* A publish fails on a unique index only when it or the one it collides with
\* began before the type had a version.
THEOREM CollisionsAreFirst == Spec => []OnlyFirstPublishesCollide
<1>1. Init => TypeOK /\ VersionInvariant /\ QueueInvariant
  BY InitType, InitVersions, InitQueue
<1>2. TypeOK /\ VersionInvariant /\ QueueInvariant /\ [Next]_vars
        => (TypeOK /\ VersionInvariant /\ QueueInvariant)'
  BY NextType, NextVersions, NextQueue DEF VersionInvariant
<1>3. QueueInvariant => OnlyFirstPublishesCollide
  BY DEF QueueInvariant
<1> QED
  BY <1>1, <1>2, <1>3, PTL DEF Spec

-----------------------------------------------------------------------------
\* Inspections. What is on its way to the record answers items of its version
\* only, and what has passed the gate answers the required ones and was sent no
\* later than that version became the active one; rows are never rewritten, so
\* all of this lasts.

PostFits ==
    \A p \in Phones : post[p] # Idle =>
        /\ DOMAIN post[p].responses \subseteq KeysOf(templates[post[p].template].items)
        /\ post[p].active <= Len(templates)
        /\ post[p].at = "admitted" =>
            /\ post[p].template >= post[p].active
            /\ RequiredKeys(post[p].template) \subseteq DOMAIN post[p].responses

RecordInvariant == PostFits /\ GradedByCurrent /\ CoversPinnedVersion

LEMMA InitRecord == Init => RecordInvariant
  BY DEF Init, Idle, RecordInvariant, PostFits, GradedByCurrent, CoversPinnedVersion

\* Templates are only added to.
LEMMA RecordKept ==
    ASSUME TypeOK, RecordInvariant, UNCHANGED <<post, inspections>>,
           Len(templates) <= Len(templates'), Len(templates') \in Nat,
           \A t \in Ids : templates'[t].items = templates[t].items
    PROVE  RecordInvariant'
<1>1. Len(templates) \in Nat
  BY ActiveIdType
<1>2. \A p \in Phones : post[p] # Idle => post[p].active \in Nat /\ post[p].template \in Ids
  BY DEF TypeOK, PostRow
<1>0. \A t \in Ids : t # 0 /\ RequiredKeys(t)' = RequiredKeys(t)
  <2>1. \A t \in Ids : t # 0
    BY ActiveIdType
  <2> QED
    BY <2>1 DEF RequiredKeys, ItemSet, ItemsOf
<1>3. PostFits'
  BY <1>0, <1>1, <1>2 DEF RecordInvariant, PostFits
<1>4. GradedByCurrent' /\ CoversPinnedVersion'
  BY <1>0 DEF RecordInvariant, GradedByCurrent, CoversPinnedVersion, TypeOK
<1> QED
  BY <1>3, <1>4 DEF RecordInvariant

LEMMA ConfirmKeepsRecord ==
    ASSUME TypeOK, RecordInvariant, NEW p \in Phones, handleConfirm(p)
    PROVE  RecordInvariant'
<1>1. phone[p].shown # 0 /\ post \in [Phones -> PostRow]
  BY DEF TypeOK, handleConfirm
<1>2. /\ DOMAIN post'[p].responses \subseteq KeysOf(templates[post'[p].template].items)
      /\ post'[p].active = ActiveId
      /\ post'[p].at = "sent"
  BY <1>1 DEF handleConfirm, buildSubmitPayload, ItemsOf
<1>3. ActiveId <= Len(templates)
  BY ActiveIdType
<1>4. /\ \A q \in Phones \ {p} : post'[q] = post[q]
      /\ UNCHANGED <<templates, inspections>>
  BY <1>1 DEF handleConfirm
<1>5. \A t : RequiredKeys(t)' = RequiredKeys(t)
  BY <1>4 DEF RequiredKeys, ItemSet, ItemsOf
<1> QED
  BY <1>2, <1>3, <1>4, <1>5 DEF RecordInvariant, PostFits, GradedByCurrent, CoversPinnedVersion

LEMMA ServerKeepsRecord ==
    ASSUME TypeOK, NewestIsActive, RecordInvariant, NEW p \in Phones, Server(p)
    PROVE  RecordInvariant'
<1>0. /\ post[p] \in [at : {"sent", "admitted"}, template : Nat,
                      responses : Responses, active : Nat]
      /\ post[p].template \in Ids /\ post[p] # Idle
      /\ post \in [Phones -> PostRow]
      /\ Len(templates) \in Nat
      /\ UNCHANGED templates
      /\ \A q \in Phones \ {p} : post'[q] = post[q]
  BY ActiveIdType DEF Server, Gate, GateRefuses, Record, TypeOK, PostRow, Idle
<1>4. \A t : RequiredKeys(t)' = RequiredKeys(t)
  BY <1>0 DEF RequiredKeys, ItemSet, ItemsOf
<1>1. CASE Gate(p)
  <2>1. post[p].template = Len(templates)
    BY <1>0, <1>1 DEF Gate, IsActive, NewestIsActive
  <2>2. post[p].template >= post[p].active
    BY <1>0, <2>1 DEF RecordInvariant, PostFits
  <2>3. /\ post'[p].template = post[p].template
        /\ post'[p].responses = post[p].responses
        /\ post'[p].active = post[p].active
        /\ UNCHANGED inspections
    BY <1>0, <1>1 DEF Gate
  <2>4. RequiredKeys(post[p].template) \subseteq DOMAIN post[p].responses
    BY <1>1 DEF Gate, missing
  <2> QED
    BY <1>0, <1>4, <2>2, <2>3, <2>4 DEF RecordInvariant, PostFits, GradedByCurrent, CoversPinnedVersion
<1>2. CASE GateRefuses(p)
  BY <1>0, <1>2, <1>4 DEF GateRefuses, RecordInvariant, PostFits, GradedByCurrent, CoversPinnedVersion
<1>3. CASE Record(p)
  <2> DEFINE new == [template |-> post[p].template, responses |-> post[p].responses,
                     active |-> post[p].active]
  <2>1. /\ inspections' = inspections \cup {new}
        /\ post'[p] = Idle
        /\ post[p].at = "admitted"
    BY <1>0, <1>3 DEF Record
  <2>2. /\ new.template >= new.active
        /\ DOMAIN new.responses \subseteq KeysOf(templates[new.template].items)
        /\ RequiredKeys(new.template) \subseteq DOMAIN new.responses
    BY <1>0, <2>1 DEF RecordInvariant, PostFits
  <2> QED
    BY <1>0, <1>4, <2>1, <2>2 DEF RecordInvariant, PostFits, GradedByCurrent, CoversPinnedVersion
<1> QED
  BY <1>1, <1>2, <1>3 DEF Server

LEMMA NextRecord ==
    ASSUME TypeOK, NewestIsActive, RecordInvariant, [Next]_vars
    PROVE  RecordInvariant'
<1>0. Len(templates) \in Nat
  BY ActiveIdType
<1>1. CASE UNCHANGED <<templates, post, inspections>>
  BY <1>0, <1>1, RecordKept
<1>2. ASSUME NEW a \in Admins, Commit(a)
      PROVE  RecordInvariant'
  <2>1. /\ Len(templates') = Len(templates) + 1
        /\ \A t \in Ids : templates'[t].items = templates[t].items
    BY <1>2, CommitRows
  <2>2. UNCHANGED <<post, inspections>>
    BY <1>2 DEF Commit
  <2> QED
    BY <1>0, <2>1, <2>2, RecordKept
<1>3. ASSUME NEW a \in Admins, Dashboard(a) \/ Transaction(a) \/ Crash(a), ~Commit(a)
      PROVE  UNCHANGED <<templates, post, inspections>>
  <2>1. CASE Dashboard(a)
    BY <2>1 DEF Dashboard, Refetch, RefetchFails, OpenWizard, EditItems,
       handleReviewChanges, handleBackToEdit, handleConfirmPublish, CloseWizard
  <2>2. CASE Transaction(a) \/ Crash(a)
    BY <1>3, <2>2 DEF Transaction, SelectForUpdate, Locked, ReadMaxVersion, UpdateActive,
       Updated, Insert, InsertFails, Crash, PublishAnswered
  <2> QED
    BY <1>3, <2>1, <2>2
<1>4. ASSUME NEW p \in Phones, Phone(p), ~handleConfirm(p)
      PROVE  UNCHANGED <<templates, post, inspections>>
  BY <1>4 DEF Phone, LoadChecklist, AnswerItem, GoToReview, BackToChecklist
<1> QED
  BY <1>1, <1>2, <1>3, <1>4, ConfirmKeepsRecord, ServerKeepsRecord DEF Next, vars

LEMMA RecordInvariantHolds == Spec => []RecordInvariant
<1>1. Init => TypeOK /\ VersionInvariant /\ RecordInvariant
  BY InitType, InitVersions, InitRecord
<1>2. TypeOK /\ VersionInvariant /\ RecordInvariant /\ [Next]_vars
        => (TypeOK /\ VersionInvariant /\ RecordInvariant)'
  BY NextType, NextVersions, NextRecord DEF VersionInvariant
<1> QED
  BY <1>1, <1>2, PTL DEF Spec

\* No inspection is recorded under a version older than the one that was active
\* when it was sent.
THEOREM GradedByTheCurrentVersion == Spec => []GradedByCurrent
  BY RecordInvariantHolds, PTL DEF RecordInvariant

\* Every recorded inspection answers the required items of its version, and
\* nothing that is not an item of it.
THEOREM RecordsCoverTheirVersion == Spec => []CoversPinnedVersion
  BY RecordInvariantHolds, PTL DEF RecordInvariant

----------------------------------------------------------------------------
\* The diff of the preview

\* A later item replaces an earlier one: the places of a key have a last one.
LEMMA LastPlace ==
    ASSUME NEW S, S # {}, NEW n \in Nat, S \subseteq 1..n
    PROVE  Max(S) \in S
<1> DEFINE R == OpToRel(<, Nat)
           T == {n - m : m \in S}
<1>0. \A m \in S : m \in Nat /\ m <= n
  OBVIOUS
<1>1. T \subseteq Nat /\ T # {}
  <2>1. \A m \in S : n - m \in Nat
    BY <1>0
  <2> QED
    BY <2>1
<1>2. PICK x \in T : \A y \in T : ~(<<y, x>> \in R)
  <2> HIDE DEF R, T
  <2>1. IsWellFoundedOn(R, Nat)
    BY NatLessThanWellFounded DEF R
  <2> QED
    BY <1>1, <2>1, WFMin
<1>3. \A y \in T : ~(y < x)
  BY <1>1, <1>2 DEF OpToRel
<1>4. PICK d \in S : x = n - d
  BY DEF T
<1>5. ASSUME NEW m \in S
      PROVE  d >= m
  <2>1. ~(n - m < n - d)
    BY <1>3, <1>4
  <2>2. m \in Nat /\ d \in Nat
    BY <1>0
  <2> HIDE DEF T
  <2> QED
    BY <2>1, <2>2
<1> QED
  BY <1>5 DEF Max

\* Read by key, a list has under each key an item of that key.
LEMMA MapOfList ==
    ASSUME NEW items \in Seq(Item)
    PROVE  /\ DOMAIN AsMap(items) = KeysOf(items)
           /\ AsMap(items) = [k \in DOMAIN AsMap(items) |-> AsMap(items)[k]]
           /\ \A k \in DOMAIN AsMap(items) : AsMap(items)[k].key = k
<1>1. Len(items) \in Nat /\ DOMAIN items = 1..Len(items)
  BY LenProperties
<1>2. ASSUME NEW k \in KeysOf(items)
      PROVE  AsMap(items)[k].key = k
  <2> DEFINE S == {n \in DOMAIN items : items[n].key = k}
  <2>1. S # {} /\ S \subseteq 1..Len(items)
    BY <1>1, <1>2 DEF KeysOf
  <2>2. Max(S) \in S
    <3> HIDE DEF S
    <3> QED
      BY <1>1, <2>1, LastPlace
  <2>3. AsMap(items)[k] = items[Max(S)]
    BY <1>2 DEF AsMap
  <2> QED
    BY <2>2, <2>3
<1> QED
  BY <1>2 DEF AsMap

\* What the preview calls added, removed and changed, for two maps.
DiffOf(old, new) ==
    [added |-> {new[k] : k \in DOMAIN new \ DOMAIN old},
     removed |-> {old[k] : k \in DOMAIN old \ DOMAIN new},
     changed |-> {[key |-> k, before |-> old[k], after |-> new[k]] :
                    k \in {j \in DOMAIN old \cap DOMAIN new : old[j] # new[j]}}]

\* Taking the removed items out of the old map and putting the others in gives
\* the new one: no two of the items put in have one key.
LEMMA DiffApplies ==
    ASSUME NEW old, NEW new, new = [k \in DOMAIN new |-> new[k]],
           \A k \in DOMAIN old : old[k].key = k,
           \A k \in DOMAIN new : new[k].key = k
    PROVE  Apply(DiffOf(old, new), old) = new
<1> DEFINE diff == DiffOf(old, new)
           gone == {i.key : i \in diff.removed}
           put == {c.after : c \in diff.changed} \cup diff.added
           fresh == {k \in DOMAIN new : k \in DOMAIN old => old[k] # new[k]}
<1>1. gone = DOMAIN old \ DOMAIN new
  BY DEF DiffOf
<1>2. put = {new[k] : k \in fresh}
  <2>1. diff.added = {new[k] : k \in DOMAIN new \ DOMAIN old}
    BY DEF DiffOf
  <2>2. {c.after : c \in diff.changed} =
          {new[k] : k \in {j \in DOMAIN old \cap DOMAIN new : old[j] # new[j]}}
    <3> DEFINE moved == {j \in DOMAIN old \cap DOMAIN new : old[j] # new[j]}
               pair(k) == [key |-> k, before |-> old[k], after |-> new[k]]
    <3>1. diff.changed = {pair(k) : k \in moved}
      BY DEF DiffOf
    <3>2. \A k \in moved : pair(k).after = new[k]
      OBVIOUS
    <3> HIDE DEF moved, pair, diff
    <3>3. {c.after : c \in diff.changed} = {new[k] : k \in moved}
      BY <3>1, <3>2
    <3> QED
      BY <3>3 DEF moved
  <2> QED
    BY <2>1, <2>2
<1>3. Apply(diff, old) =
        [k \in (DOMAIN old \ gone) \cup {i.key : i \in put} |->
           IF \E i \in put : i.key = k THEN CHOOSE i \in put : i.key = k ELSE old[k]]
  BY DEF Apply
<1> HIDE DEF diff, gone, put
<1>4. {i.key : i \in put} = fresh
  BY <1>2
<1>5. (DOMAIN old \ gone) \cup {i.key : i \in put} = DOMAIN new
  BY <1>1, <1>4
<1>6. ASSUME NEW k \in DOMAIN new
      PROVE  (IF \E i \in put : i.key = k THEN CHOOSE i \in put : i.key = k ELSE old[k]) = new[k]
  <2>1. CASE k \in fresh
    <3>1. new[k] \in put /\ new[k].key = k
      BY <1>2, <2>1
    <3>2. \A i \in put : i.key = k => i = new[k]
      BY <1>2
    <3> QED
      BY <3>1, <3>2
  <2>2. CASE k \notin fresh
    <3>1. ~ \E i \in put : i.key = k
      BY <1>2, <2>2
    <3>2. old[k] = new[k]
      BY <2>2
    <3> QED
      BY <3>1, <3>2
  <2> QED
    BY <2>1, <2>2
<1>7. Apply(diff, old) = [k \in DOMAIN new |-> new[k]]
  <2> DEFINE item(k) == IF \E i \in put : i.key = k THEN CHOOSE i \in put : i.key = k ELSE old[k]
  <2>1. Apply(diff, old) = [k \in DOMAIN new |-> item(k)]
    BY <1>3, <1>5, Zenon
  <2>2. \A k \in DOMAIN new : item(k) = new[k]
    BY <1>6
  <2> HIDE DEF item
  <2> QED
    BY <2>1, <2>2
<1> QED
  BY <1>7 DEF diff

\* The diff an admin confirms is the whole difference between two versions, and
\* nothing else: applied to the one it gives the other, for lists of any length
\* and with repeated keys (diff-items.ts:9-28).
THEOREM PreviewsExplain == Spec => []DiffExplains
<1>1. TypeOK => DiffExplains
  <2> SUFFICES ASSUME TypeOK, NEW t \in Ids, NEW u \in Ids
               PROVE  LET diff == diffChecklistItems(templates[t].items, templates[u].items) IN
                      /\ Apply(diff, AsMap(templates[t].items)) = AsMap(templates[u].items)
                      /\ \A c \in diff.changed : c.before # c.after
                      /\ t = u => diff = [added |-> {}, removed |-> {}, changed |-> {}]
    BY DEF DiffExplains
  <2> DEFINE old == AsMap(templates[t].items)
             new == AsMap(templates[u].items)
             diff == diffChecklistItems(templates[t].items, templates[u].items)
  <2>1. templates[t].items \in Seq(Item) /\ templates[u].items \in Seq(Item)
    <3>1. templates[t] \in TemplateRow /\ templates[u] \in TemplateRow
      BY ElementOfSeq, LenProperties DEF TypeOK, Ids
    <3> QED
      BY <3>1, ListsOfItems DEF TemplateRow
  <2>2. /\ new = [k \in DOMAIN new |-> new[k]]
        /\ \A k \in DOMAIN old : old[k].key = k
        /\ \A k \in DOMAIN new : new[k].key = k
    BY <2>1, MapOfList
  <2>3. diff = DiffOf(old, new)
    BY DEF diffChecklistItems, DiffOf
  <2>4. t = u => old = new
    OBVIOUS
  <2> HIDE DEF old, new, diff
  <2>5. Apply(diff, old) = new
    BY <2>2, <2>3, DiffApplies
  <2>6. \A c \in diff.changed : c.before # c.after
    BY <2>3 DEF DiffOf
  <2>7. t = u => diff = [added |-> {}, removed |-> {}, changed |-> {}]
    BY <2>3, <2>4 DEF DiffOf
  <2> QED
    BY <2>5, <2>6, <2>7 DEF old, new, diff
<1> QED
  BY <1>1, TypeCorrect, PTL
=============================================================================
