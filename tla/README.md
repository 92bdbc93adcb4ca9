# MatInspect in TLA+

MatInspect records pre-use inspections of lab equipment: an operator walks a
checklist on a phone, a failed blocking item locks the machine out, a repair
and an approval return it to service, and every step is sealed into a
hash-chained audit log. This directory holds TLA+ specifications of the parts
where that can go wrong without a unit test noticing, TLC configurations that
check them on small instances, and TLAPS proofs of what should hold for every
instance.

Paths below are relative to the repository. The correspondence between
definitions and source lines is the `map` of `PROJECT.json`.

## 1. The system

| Part | State it keeps | Operations | Talks to | Modelled in |
| --- | --- | --- | --- | --- |
| `services/core-api` (Fastify, Postgres) | equipment, inspections, defects, checklist templates, idempotency keys, outbox, users, dismissals | submit an inspection, defect transitions, return to service, publish a checklist, equipment with readiness, activity feed, AI proxies, alerts, provisioning | audit (outbox poller), ai, mail and Teams | `Lockout`, `Publishing`, `OutboxAudit`, `Readiness`, `Activity`, `Inference`, `Alerts`, `Session`, `Boot` |
| `services/audit` | `audit_events` hash chain, `writesFrozen` in memory, report jobs | ingest, verification at boot and nightly, report export | core-api (report data), blob storage | `OutboxAudit`, `Reports`, `Boot` |
| `services/media` | photos and voice clips in blob storage | upload, download, voice retention | | `Media`, `Boot` |
| `services/ai` (Python) | a semaphore, a lock, a pool of threads | transcribe, classify a note | | `Inference` |
| `apps/pwa` | one draft in sessionStorage, React state of two screens | answer, note, record, photograph, confirm | core-api, media | `Capture`, `Publishing`, `Session` |
| `apps/dashboard` | query caches, the publish wizard, the defects page, the bell | publish templates, defects, approvals, reports, activity | core-api, audit | `Publishing`, `Desk`, `Activity`, `Reports`, `Session` |
| `packages/*` | the sign-in of a device | schemas, token checks, hashing | Entra, MSAL | `Session` |
| `infra`, `docs` runbooks | backups, the retention scheduler | audit restore, daily purge | | `OutboxAudit`, `Media` |

How they interact, and what is hard about it:

* **Lockout cycle** (core-api). Three kinds of request interleave over one
  equipment row at READ COMMITTED. The submit reads status and template without
  a lock, inserts under foreign keys, then asks for `FOR UPDATE`; retries race on
  a unique index; `now()` is the time a transaction *began*. Correct means: a key
  records one inspection, a blocking failure and its lockout appear together, a
  return happens only when the lockout's defects are closed, RETIRED is final,
  and the outbox tells exactly what the tables hold.
* **Outbox and audit chain.** At-least-once delivery with lost answers and
  crashes into a chain that must not fork or repeat an event, a freeze held in
  memory, and a restore from a dump.
* **Capture** (phone). Answers come back after the screen or the answer they
  belong to is gone: transcripts, uploads, suggestions, retried POSTs, a reload,
  browser history, midnight. Correct means: one honest inspection per
  walkaround, with every required item answered, and the one the operator was shown.
* **Publishing.** Admins publish concurrently while phones walk the version
  being replaced. Correct means: exactly one newest active version, and an
  inspection that answers every required item of the version it is pinned to, and no
  item of another.
* **Readiness.** READY is stored nowhere; an answer is put together from
  several statements, each with its own snapshot, while submits and approvals
  commit in between. Correct means: what is answered was true at some moment of
  the request.
* **Activity.** Polls, clicks and dismissals of several tabs overlap; answers
  arrive in any order and are lost. Correct means: a manager misses no
  inspection and dismisses none unseen.
* **Defects desk.** Several supervisors act on lists that are seconds old.
  Correct means: one of them is told that they did it, a page that has read the
  defects and the machines offers what the server grants, and everybody comes to see it.
* **Reports.** A background job reads the records, their events and the chain
  one after another, while a restart or an exception can hit any step. Correct
  means: it ends, and a signed file does not vouch for tampered data.
* **AI gates.** Threads that cannot be interrupted, a semaphore, a single-flight
  lock and two layers of time-outs. Correct means: never more than the cap, no
  slot lost, every caller answered, core-api's timer the last to fire.
* **Alerts, photos, voice retention.** Retries of messages that may have
  arrived; purges that overlap, abort and are killed.
* **Sign-in.** Tabs share MSAL's cache; first requests of one user race to make
  their row. Correct means: a request is sent as whoever signed in last.
* **Boot.** A service with a missing or ill-formed setting, or one half of a pair, must
  refuse to start, and name all that its schema lets through at once.

`PROJECT.json` lists every component, and every hazard at its line with the
properties that cover it or the reason why none does.

## 2. Modules

| Module | What it is |
| --- | --- |
| `Lockout` | submits, approvals, defect requests over the tables |
| `LockoutCycle` | the abstract cycle: each request one atomic step |
| `LockoutRefinement` | the mapping of `Lockout` to `LockoutCycle` |
| `OutboxAudit` | outbox, poller, ingest handlers, hash chain, freeze, restore |
| `AuditLog` | the abstract append-only log it implements |
| `Capture` | one phone: two screens, the stored draft, the retried submit |
| `Publishing` | wizards, the publish transaction, phones on an active version |
| `Inference` | the AI Service's slots, lock and threads behind core-api's timers |
| `Reports` | signed exports: the job, its reads, its check, its file |
| `Activity` | the feed, the polling provider, the bell, the views it wakes |
| `Alerts` | the mail and the Teams card of a blocking failure |
| `Media` | photos, and the purge of voice clips with its scheduler |
| `Session` | the active account of a device's tabs; a user's row |
| `Desk` | the defects page on several desks |
| `Readiness` | equipment answers read piece by piece |
| `Boot` | the configuration of a service at start |
| `MCLockout`, `MCOutboxAudit`, `MCAudit`, `MCCapture`, `MCPublishing`, `MCServices` | instances for TLC |
| `LockoutProofs` | theorems of `Lockout`, and that it implements `LockoutCycle` |
| `AuditProofs`, `CaptureProofs`, `PublishingProofs`, `InferenceProofs` | theorems of the module of that name (`AuditProofs`: of `OutboxAudit` and its log) |
| `DashboardProofs` | theorems of `Activity`, `Alerts`, `Desk`, `Readiness` |
| `ServiceProofs` | theorems of `Reports`, `Media`, `Boot`, `Session` |
| `MCServicesProofs` | that the instance `MCServices` is all its parts, and their types |

### Lockout

A request is a process with a program counter; a row written by a transaction
becomes visible in its commit step, and what the transaction read earlier stays
in the process until then. Row locks are state functions of the counters: an
insert with a foreign key holds `FOR KEY SHARE`, the lockout branch and the
approval hold `FOR UPDATE`. `Precheck`, `Admit`, `Begin`, `InsertInspection`,
`LockEquipment`, `InsertKey`, `CommitSubmit` and `ReplayWinner` follow
`routes/inspections/submit.ts` in order; `LockForApproval`, `StampResolved` and
`CommitApproval` follow `return-to-service.ts`; `Transition` with a loaded job is
a defect request, with the optimistic `WHERE status = ...`. Postgres' answer to
a lock cycle is `DeadlockVictim`. `clock` gives each transaction its `now()`. `straddling`
is a history variable: which submits were in transaction when a defect went IN_REPAIR.

The answers of a submit are abstracted to the derived result; all rows are of one
lab-local day; READY is computed from the rows, as in the code, and never
stored. Template gates are in `Publishing`.

### OutboxAudit

An event is a number, its place in `created_at` order, which need not be the
order rows commit in. A poller's tick reads a batch and delivers it row by row;
a handler passes the freeze check, waits for the advisory lock, reads the tail
and inserts. `CrashPoller`, `CrashAudit`, `FetchFails`, `ChangeRow` and `Restore`
are the faults, bounded together by `MaxFaults`. SHA-256 is an injective name.

### Capture

One JavaScript callback with the React effects it triggers is one step. `form` is
what the mounted screen holds, `draft` the stored record; `voice`, `uploads`,
`asked`, `submits` and `wire` are what is under way, and each may end after its
screen is gone. Text is a sequence of fragments that remember who wrote them
(the operator or the speech model) and after how many re-inspections of the
item, so that a property can ask whether evidence belongs to its answer. `Required` are
the items that must be answered: the phone's gate, its payload and the server's
derivation all let the others go without a response. That a required text is not blank
is asked by the checklist's button only.

Left out: a template that changes during the run (that is `Publishing`), RETIRED
redirects, two taps on the recorder while the permission is pending, two machines in
one tab, the value of a suggestion and its dismissal. The operator is idle between a push and
the new screen; answers still arrive.

### Publishing

One equipment type; an id is the row's place in `templates`. The publish transaction runs statement by statement: each takes
its snapshot, may wait for row locks, and an UPDATE looks at its rows again after
the wait. The insert waits for an undecided duplicate and then fails or proceeds,
as a unique index makes it. Rows are locked in one order, so a waiting statement
is modelled as holding none of them. The wizard has the steps of
`publish-template-wizard.tsx`; the list is refetched at any time and a failed
refetch unmounts the wizard. The wizard's "Try again" button calls
`handleConfirmPublish`, which returns at once unless the step is the preview: it
does nothing, and the model has no action for it. The submit's record and commit
are one step, guarded by the lock its foreign key needs; answers are abstracted to
the item they were given to. `OptionalTexts` are the texts the form builder made
optional, which a phone may leave out of its payload.

### Inference

A call is a clip or a note. `asked` and `elapsed` are core-api's side of it, the
proxy with its upstream timer; `handler` and `age` the coroutine in the AI Service;
`job` the work item in the pool of threads, `native` while it is in a model. `slots`,
`line` and `granted` are asyncio's semaphore: the free count, the waiters, and
those handed a slot that have not run yet. `LoopRuns` is one turn of the event
loop for a call; `TakeJob`, `TryLock` and `Infer` are steps of a worker thread, which
no timeout interrupts. A clip keeps its slot until its thread ends, a note the lock
`inFlight`. `Stall` (the loop hangs), `Crash`, `Disconnect` and `ExecutorRefuses` are
the faults. `Cap` is computed from the processors, as in `transcription.py`.

### Reports

`row` is `report_jobs`, `step` and `draft` the promise that works on a job, `blob` the
container, `record` the stored inspections and `trail` their events in the audit
chain. `Generates` is `generate-report.ts` call by call: the inspections are asked of
core-api, compared with what their events sealed, the chain segment is verified, the
file is built, stored and recorded. `Throws` may hit each call; `FailureUnrecorded` is
an update in the catch block that throws as well; `AuditServiceRestarts` kills every
promise. `AlterRecord` and `RewriteEvent` are the tampering a file must show: a record
altered behind the program, an event rewritten to match it. `listed` and `saved` are
the dashboard's side.

### Activity

`inspection` and `dismissed` are the tables; `seen`, `bell` and `shown` what a tab's
provider, bell and views hold. A request is a read in the server and an arrival in the
tab. The end of a dismissal (`DismissSettles`) cancels the poll under way, whose fetch
runs on: `StrayArrives` lets the provider react to it but leaves the bell alone.
`ViewReads`, `ViewArrives`, `ViewFails` and `SafetyPoll` are the failure queue and
fleet, woken by the feed and, slowly, by themselves. React Query's rules for a query
that is being fetched already are modelled from their use.

### Alerts

`alert` has a phase per channel, from dispatch over look-up, preparation, attempt
and back-off to sent, dropped or lost with the process. An attempt ends taken,
not taken, or taken with its answer lost (`unheard`). `spent` counts the
seconds of the card, the only channel with a time-out per attempt.

### Media

Photos: `Upload` refuses what is too large or no image, `StorePhoto` writes
under a fresh name, `AnswerUpload` hands it out, `GetPhoto` reads. Voice: a day is
before, at or after the scheduled minute, ages are counted in these phases;
`PurgeStep` visits one clip after another, `VisitFails`, `Abort` and
`SchedulerDies` interrupt it, `RunByHand` is a second run beside the scheduled one,
and `PollClock` is the shell loop of the scheduler container.

### Session

`cache`, `active` and `coming` are MSAL's state in localStorage, shared by the
tabs; `window`, `accounts`, `page` and `renewing` belong to a tab. Actions are the
callbacks of `active-account.ts`, `access-token.ts` and the guards. The other half,
`hit`, `users` and `provisionedIds`, is `user-provisioning.ts` with its two unique
indexes, its set of ids already provisioned, and a restart that empties it.

### Desk

`list`, `reading`, `again` and `broken` are a desk's query of the defects,
`equipmentList` its query of the machines, which holds the page back while it loads and
the approvals back when it failed; `filter`, `selected` and `editor` are the page, `calls` the requests, each a load-and-check and a
conditional write in the server. `Offers` is the page's own copy of the rules, in
`defect-queue.ts`; it is compared with what the server grants. `RejectElsewhere` is a
request from outside the page.

### Readiness

The writers of `Lockout`, with their locks left out, beside requests that read
the machine, today's passes, the blocking defects and the last inspections by
statements of their own. `ask.seen` collects what was true while a request ran.
`slipped` marks a machine whose records already hold what ADR 0006 does not
expect; section 4 says how.

### Boot

A setting is absent, a placeholder, of the wrong shape or good. `LoadConfigOrExit`
is `loadConfig` of the three services, with its required, optional and paired
settings; `CorrectReported` is whoever deploys, who corrects exactly what was named.
Settings that only have a form are represented by a few; `Unchecked` are those a
service reads with a default and never looks at.

## 3. Runs

Bounds are named in the modules and repeated here with the reason they are
enough.

| Run | Instance | Shows |
| --- | --- | --- |
| `lockout_core` | 1 machine, 2 submits over 2 keys with all 3 results, 1 approval, 2 defect requests, retirement | keys exactly-once, locks exclude, lockout and return atomic, outbox faithful, refinement of `LockoutCycle` |
| `lockout_prompt` | 2 submits, 2 approvals, 1 defect request | two lockouts in a row stay apart, but for a submit that straddles the repair between them; every request ends |
| `lockout_scope_gap` | 2 submits, 1 approval | **violated**: an approval can leave a blocking defect open |
| `lockout_deadlock` | 2 submits | **violated**: concurrent blocking submits do not serialize, one is aborted |
| `audit` | two worlds, chosen at the start. Delivery: 3 events, 2 pollers, 2 handlers, 1 refused row, batch of 2, 1 fault. Tampered: 2 events, changed rows, restores, 2 faults | no fork, no repeat, nothing marked too early, no write past a known break, refinement of `AuditLog`, everything acceptable arrives |
| `audit_restore_gap` | 3 events, 1 poller, dump and restore | **violated**: a late row can be lost by the restore |
| `capture_record` | 1 machine, a required photo item, an optional text item, 2 walkarounds, 2 confirms, 1 clip, 2 uploads, 2 flips | one honest record per walkaround, with every required item answered |
| `capture_voice` | the same | **violated**: a transcript recorded on a passed item |
| `capture_reopen` | the same | **violated**: a submitted draft comes back |
| `publish_versions` | 2 admins, or 1 and a phone; 2 publishes on a new or seeded type; 3 lists | one newest active version; records cover the required items of their version |
| `publish_carried_answers` | the same | **violated**: answers carried to a reworded item |
| `services` | the nine modules of section 2 from `Inference` to `Boot` as eleven parts (`Media` is photos and voice, `Session` a device and its users), one at a time | the promise of each, see below |

Machines are independent except through the outbox (every lock and query is per
machine), so one is enough in `Lockout`; two submits, two approvals or two
repairs make every pair that can conflict. Two events suffice for a fork and
three for a hole behind a refused row in a batch of two. In `Capture`, two flips
give an answer that was changed and changed back, two confirms a retry by hand beside
the automatic ones, two uploads a retake; `MaxEvents` bounds clips, uploads,
failures and midnights together, so that any two of them meet. In `Publishing` two
publishes make every collision the locks and indexes see; the lists add, reword
and repeat a key. `Shifts` says who is at work together.

In `services` the parts share no state; `part` says which one a behaviour is of, and
the others stay where they start. Their instances:

* *Inference*: crews of two clips and a note or of a clip and two notes, processors
  for a cap of one slot, three threads, one fault. Two clips compete for the slot
  while a third call competes for the pool; budgets are one tick each, in their real order.
* *Reports*: one export of two records, two upsets (a tampering, an exception, a
  restart) in any combination: an upset is shown or missed by a single job.
* *Activity*: two inspections and a tab, one inspection and two tabs of one
  manager, one inspection and a tab with a view; one request
  fails.
* *Alerts*: both channels with the real delays of 1, 2 and 4 seconds, the time-out
  of 5 and a budget of 60; one replayed submit.
* *Media*: one photo; two voice clips, a window of three phases, one break.
* *Session*: two accounts, two tabs, one or both of them permitted; two first requests.
* *Desk*: two defects of one machine in one lockout; two desks from IN_REPAIR, or
  one desk with a setback (a failed read of either query, a lost answer, a rejection
  elsewhere); one
  request of a desk at a time.
* *Boot*: the three services in each `NODE_ENV`, two settings wrong at first.
* *Readiness*: one machine, created during the run, two submits, two steps of upkeep,
  one request; it was also explored with three submits and with two machines.

| Property of `services` | Part |
| --- | --- |
| `ModelsGuarded`, `EveryCallIsAnswered` | Inference |
| `FilesTellTheTruth`, `EveryExportEnds` | Reports |
| `DismissedWasDisplayed`, `EveryInspectionIsShown` | Activity |
| `AlertsBounded` | Alerts |
| `MediaKept`, `ClipsExpire` | Media |
| `ActsAsChosen` | Session |
| `DesksAgree`, `EveryDeskCatchesUp` | Desk |
| `BootsSoundly` | Boot |
| `AnswersAreTrue` | Readiness |
| `ServicesTypeOK` | the types of the part that runs |

Symmetry is used only where no liveness is checked and no `CHOOSE` picks from the
set. Deadlock checking is off everywhere because requests are finite in number
and people may stop.

## 4. The disagreements

Six runs look for a violation and find it; `PROJECT.json` quotes the lines.

1. `ReturnLeavesNoOpenDefect`: `opened_at` and `current_status_since` are both the
   time a transaction began. A submit that began first but locked second leaves a
   defect before the lockout's start, which no approval looks at.
2. `SubmitsSerialize`: `FOR UPDATE` after an insert with a foreign key is a lock
   upgrade; two of them deadlock and one operator gets a 500.
3. `RestoreLosesNothing`: the runbook selects rows by `created_at`, the chain is
   in delivery order.
4. `NoNoteOnAPass`: the recorder lives in the item's card, which stays mounted when
   the item is re-marked as passing.
5. `NothingSubmittedReopens`: after `clear()`, the review screen's save effect can
   still store the draft again.
6. `AnsweredAsPinned`: FRS AC-3.1.5 says an inspection keeps the version it was
   begun with; the checklist refetches, switches under the operator and keeps
   answers by key.

Met while the other modules were written, and followed by them as the code has it,
but without a run of their own:

* *Reports.* A restart leaves a job PROCESSING for ever (`lost` in
  `EveryExportEnds`). An update to READY that commits while its answer is lost is
  overwritten by the FAILED of the catch block. `use-report-job.ts:10-13` says a
  tracked job is polled to its end, but the view that polls is unmounted and My
  Exports keeps showing PROCESSING until a refetch by hand. `dateTo` is midnight
  UTC, which excludes the last day asked for. A PDF without a chain section does not
  show a break that is elsewhere in the chain.
* *Readiness.* A PASS whose status check came before a lockout, a retirement or a
  return can commit after it; the readiness read piece by piece can then answer READY for a
  machine that never was (`slipped` in `AnswersAreTrue`), which
  `submit.ts:184-189` does not expect.
* *Desk.* `DefectDetailPanel` is not keyed by its defect: notes typed for one can be
  sent as the resolution of another. Under a filter, an acknowledged defect leaves the
  list and the panel shows the next one, against `defects-table.tsx:230-233`. A
  refused request is shown nowhere and asks for no new read.
* *Activity.* The history view has no timer. Queries on a 60-second timer use the
  token call that may open a dialog, against `access-token.ts:29-33` (ADR 0026).
* *Alerts.* The Teams card links to `/defects/:id`; the dashboard has
  `/defects?id=`, against `submit.ts:394-396`. The mail has no time-out per attempt; it
  is dropped when the operator's look-up throws, and a crash loses what is in flight.
* *Session.* A token renewal begun for one account and settling after another tab
  signed in as someone else makes the first active again (`crossed` in
  `ActsAsChosen`). A `clearCache` decided by one tab can wipe the sign-in of another. A
  collision on the unique e-mail is swallowed, and that user has no row.
* *Media and backups.* A scheduler that is down, or busy, in its minute misses the day.
  `pg-backup.sh` removes old dumps though the new ones failed.
* *Boot.* `config.ts:131-133` promises all issues at once; settings of the wrong form
  are reported alone, and what else is wrong after they are corrected. `BootsSoundly`
  therefore asks a complete refusal only of the second kind. The Audit Service does not
  check its core-api URL or its container names (`Unchecked`), and a mail relay with no
  `SUPERVISOR_ALERT_EMAILS` starts and mails nobody (`config.ts:287-303` checks the list
  only when it is set): the property counts that as a channel that is switched off, and
  promises nothing of the settings in `Unchecked`.
* *Phone.* The lockout page acts on cached data: right after a failing submit it can
  send the operator home, and it engages its back-trap for a machine that has been returned,
  against `lockout/page.tsx:77-82`. The QR screen upper-cases a tag that may have been
  registered in lower case. The confirmation of a failure names "Forklift #3" when it has no
  machine.

## 5. Fairness

Weak unless said otherwise.

* `Lockout`: the steps of an admitted request. Node runs them to the
  end, Postgres grants a free lock and breaks a lock cycle; nothing makes a client
  send one, so `Precheck`, repairs and retirement are not fair.
* `OutboxAudit`: the poller reschedules itself after every tick, a request runs to its
  end, Docker restarts the service; faults are not fair and bounded.
* `Capture`: a fetch settles and a timer fires, the router ends a navigation; the
  operator owes nothing.
* `Publishing`: a database session that need not wait proceeds, and a publish is
  answered.
* `Inference`: the event loop runs while the process is up, core-api's timers fire, and
  time passes. That a model ever returns, a stalled loop recovers or a crashed
  container comes back is not assumed; `EveryCallIsAnswered` holds all the same.
* `Reports`: the promise of a live process goes on. Restarts and exceptions are not
  fair.
* `Activity`: the timers of an open tab fire and its requests are answered. Strong for
  `PollArrives`: every dismissal cancels the poll under way, so that an answer is
  disabled time and again, and the manager is not assumed to click without end just
  in between.
* `Media`: calls to the store return or throw, Docker restarts the scheduler, its loop polls,
  and time passes. Deletes may fail, within `MaxBreaks`.
* `Desk`: an open page polls both its queries and their reads end; nobody has to click.

## 6. Proofs

A theorem here holds for all values of the constants that satisfy the named
assumptions of the module: it is of the form `Spec => []Inv` or `Spec => [][A]_vars`,
or says that a specification implements an abstract one. Every invariant a run
checks has one, and so have both refinements.

**Lockout** (`LockoutProofs`).
* `TypeCorrect`. Type correctness is inductive by itself once it
  says that a request past its first phase has a body and that loaded defects
  exist.
* `OneInspectionPerKey`, `KeysAlwaysMatch`. `KeysMatchInspections` (with the clause that two
  transactions past the unique index have different keys) together with
  `ExactlyOneInspection` is inductive.
* `DecisionsAlwaysHold` is the inductive core: the locks of
  Postgres exclude one another (`LocksExclude`), and therefore what a submit or an
  approval decided under its lock still holds when it commits. Neither half is
  inductive alone: that the status has not changed needs that nobody else can
  hold the lock, and that needs which phases a request can reach. From it follow,
  as action properties, `RetiredIsTerminal`, `BlockingFailureLocksOut`,
  `ReturnClosesLockout` and `DefectsMoveForward`: lemma `Writers` says which
  actions write the equipment row at all, and each is looked at in turn.

**Lockout as an atomic cycle** (`LockoutProofs`, on top of the above).
* `Recorded` and `Timeline` say that a committed row carries what its request sent
  and when, and that no two transactions have one `now()`. What a row says
  is therefore settled, and no event of it can be emitted twice.
* `OutboxAlwaysMatches` counts, commit by commit, the events of the rows that are written.
* `StatusEventsAlwaysBalance`. `StatusAccount` adds that the counted requests are
  finitely many, that they have ended, and that the balance is 1 exactly while the
  machine is OUT_OF_SERVICE; a commit changes status and count together because
  `DecisionsHold` says that the status it read is still there.
* `EachReturnHasItsRepair`. A transaction in flight began after the defects whose repair
  has started, unless it straddles the start of that repair (`RepairsPrecede`); hence an
  approved defect is older than the present lockout, unless the submit that wrote the
  lockout straddles its repair (`ApprovedIsPast`). The exception is real: on the instance of
  `lockout_prompt` without it, TLC finds a submit that began before a defect was reported and
  locks the machine out after its return, at a time no later than the defect's. Nothing in the
  code keeps a transaction from staying open that long, and `return-to-service.ts:53-57`
  says that such a defect must not authorise the approval.
* `RequestsAreAtomic` is the refinement: `CommitSubmit` maps to `Accept`, a replay to
  `Repeat`, `CommitApproval` to `Return`, a conditional UPDATE that hits to
  `Progress`, all else to no step. The mapping's choice of the defect that started a lockout is
  determined because no two defects have one time (`StarterIs`).

**Audit** (`AuditProofs`).
* `ChainSound /\ TailIsCurrent` is inductive: the advisory lock
  makes the tail that was read the tail that is extended, and hence the chain
  linear (`OneChain`, `TailStaysCurrent`).
* `AtLeastOnce` needs in addition that a poller that was told 200 or 201
  has its event in the chain (`Backed`), and assumes that no restore runs
  (`Recovery = FALSE`): a restore breaks it, as run `audit_restore_gap` shows.
* `BreaksAreNotForgotten`. A row that a nightly run condemned stays broken, and from then
  on the writes are frozen or the process is dead, with all its requests
  (`BreakKept`); the walk at startup finds the row again.
* `DeliveryIsALog`: the refinement of `AuditLog`, without restores, step by step. That an
  abstract `Append` is enabled is where `OneChain` comes in.

**Capture** (`CaptureProofs`). All theorems rest on one invariant, `CaptureInvariant`:
what the screen holds is what storage holds (`Screens`); every text, photo and category
is of the current answer of its item and notes tell their source (`Honest`), in the
form, in the draft, in every request on the wire and on the record; an upload that may
still change the form is about the answer on the screen (`UploadsHold`); all that
carries a walk carries its one key (`OneKeyPerWalk`). The last is what makes
`WalkIsRecordedOnce` inductive: drafts, requests that wait for a retry, requests lost
on the wire and records must agree on the key, not the records alone.
`NotesTellTheirSource`, `EvidenceStaysWithItsAnswer` and `RecordsAreComplete` read it off the
record. `ConfirmationsAreTrue` adds that a key once recorded keeps its inspection,
`ReloadLosesNothing` that the draft is gone only while a confirmation loads (`SavedHolds`).

**Publishing** (`PublishingProofs`). `TypeOK` is inductive. `VersionInvariant` adds to
`NewestIsActive` what the two unique indexes and their waits give: at most one
transaction has inserted and not committed, its number is the next one and it
has deactivated the active row. Row locks play no part in it.
`QueueInvariant` is what the row locks give: publishes that found a version
all hold the first row's lock, so there is one of them at a time, and whatever
was committed next to it found no version. `RecordInvariant` follows a
submit from the phone to the record; it needs `NewestIsActive`, because the
gate reads the template without a lock and only versions that grow keep its
verdict meaningful. The obvious form of `OnlyFirstPublishesCollide`, that only a
publish which found no version fails, is true for two admins and false for
three: a late first publish can push in before one that queued.
`PreviewsExplain` needs only types: the places of a key in a list have a last one
(`LastPlace`), so a list read by key has under each key an item of that key
(`MapOfList`), no two of the items a diff puts in have one key, and putting them in
gives the other list (`DiffApplies`).

**What the dashboard tells** (`DashboardProofs`).
* `NothingDismissedUnseen`. `ScreensHold` says that whatever a bell holds,
  and whatever a click took from it and has under way, was in a bell of that tab's
  manager; a dismissal sends these ids, so a poll that arrives in between cannot widen it.
* `AlertsStayBounded`. The invariant ties the phase of a channel to what it has
  counted: a message taken beyond the first is one whose answer was lost, no channel
  attempts oftener than once and its delays, and the seconds the card has spent are at most
  a time-out and the longest delay for each attempt. With `RoomAssumption`, that this
  schedule fits, its budget follows; the mail has none.
* `DesksAlwaysAgree`. `StepsTaken` says of a step somebody was told of, or is about to be,
  that it has been taken, so that the conditional UPDATE of any other desk misses.
  For the second half `MachinesHold`: a machine in service has no blocking defect that
  is not rejected or approved. It speaks of desks that have read the machines; the others
  offer no approval.
* `AnswersStayTrue`. Of the records (`FleetInvariant`): a machine that waits for its inspection
  has no open blocking defect, unless its history slipped. Of a request
  (`AskInvariant`): the machine's status of the moment is among those it has noted;
  if a pass of today counts, then READY is among them, because the commit that made it
  count left the machine READY; where none counted, the moment of that read was
  not READY. The pass it counted stays on record, hence the list shows an inspection
  no older. A lemma per read (`RowSteps`, `PassSteps`, `BlockedSteps`,
  `LastSteps`) and one for all writers (`NotingSteps`).

**The other services** (`ServiceProofs`, `InferenceProofs`).
* `ReportsTellTheTruth`. `DraftHolds` follows what a job knows of
  wrong data from step to step: it is among the rows it read, then it is marked or
  its event was rewritten, then the file shows it. An event that was rewritten no longer
  has the hash it was sealed with (`TrailHolds`), and rewriting is never undone, so
  verification finds it though it runs later. `RowHolds` says that READY is written
  only after the signed file is stored.
* `MediaStaysKept`. What a purge is about to delete is dated and past its window
  (`ClipsHold`), and stays so, since ages only grow; what is stored under a
  name is settled before a client is told of it (`PhotosHold`).
* `ServicesBootSoundly`. A refusal names either forms or everything else; once what it
  named of the second kind is corrected, nothing is left to name. The proof is over all
  environments, not only those with few wrong settings.
* `RequestsActAsChosen`. The designated account, or without one the last of the cache, is
  who last signed in, and without one no page acts (`ChoiceHolds`); only a renewal
  that ends after a switch breaks this (`crossed`). The second half needs that
  an id is remembered as provisioned only after its row is inserted.
* `TheModelsAreGuarded`. Free slots, slots granted to waiters and slots
  held by clips add up to the cap (`SlotsHold`). That needs to know that a waiter holds
  nothing yet, that it is in line once and that a grant went to somebody in line
  (`LineHolds`), and the same of the jobs no thread has taken (`QueueHolds`): without
  them a release could hand a slot to a call that already has one. `Release` and
  `Without` are written by positions in a sequence, since what a recursive filter
  computes is out of the provers' reach.

**The parts together** (`MCServicesProofs`).
* `PartsAreTyped`. `PartsRun` shows that a behaviour of the instance is one of each part's own
  specification (of `Boot`, if it is the one that runs), so that every theorem about a part
  holds of what TLC checks. The types come from the invariants above, with what these leave
  out: no account is cached twice (`PagesTyped` in `SessionIsTyped`), what a refusal names are
  settings of that service (`SettingsAreNamed` in `BootIsTyped`), what a panel or a list holds
  are defects (`DesksTyped` in `DesksAreTyped`), and upkeep keeps its bound (`ReadinessIsTyped`).

Assumptions made for the proofs, beyond natural numbers and non-emptiness: the
values `None` of `Lockout` and `Capture` are none of the values they stand beside
(a response, a status, a machine), the accounts of `Session` are finitely
many, which makes what the browser caches a sequence, and the filters that `Desk` tries are
filters of the page.

Only model-checked: liveness and everything with `ENABLED`, which the
prover does not support (`EveryRequestEnds`, `EventuallyChained`, `EveryConfirmEnds`,
`EveryPublishEnds` and the five of `services`). No module uses a RECURSIVE operator.

## 7. Not modelled

* Token verification, roles, request parsing: they decide whether a
  request exists, not what it does. Who a request is made as is `Session`.
* The wording and layout of mails, cards, screens, PDF and CSV; the arithmetic of zones and
  wall clocks in `audit/src/lib/schedule.ts`, a pure function of the zone database.
* Reads without state: the inspection history, the fleet grid, machine lists,
  load by tag. The values they show are covered where they decide something (`Readiness`,
  `Desk`, `Activity`).
* The phone's scanner, its machine list and its lockout page.
* Two machines in flight in one tab (sessionStorage is a tab's own, so a second tab shares
  nothing with the first).
* Row triggers that forbid updates of audit rows: `ChangeRow` stands for whatever
  gets past them.
* Database backups beyond the audit restore; images and proxies, which are configuration.
* The 24-hour window of ADR 0009: the code keeps keys for ever, and so does the
  model.

## 8. What is left

1. A module for the start and end of a walk: scan, machine list, cached status, lockout page
   with its back-trap; the promise is that nobody leaves a failed machine without its tag.
2. A two-machine instance of `Capture`, within one tab.
3. Proofs: the conditions under which the properties of the runs with a violation do hold,
   for instance that `ReturnLeavesNoOpenDefect` fails only for a submit that overlaps another; the safety half of the
   liveness properties (what a waiting call waits for is under way).
