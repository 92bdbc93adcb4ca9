----------------------------- MODULE OutboxAudit -----------------------------
(***************************************************************************)
(* Delivery of outbox rows to the audit chain (ADR 0008): the poller of the *)
(* Core API, the ingest handlers of the Audit Service that append to the    *)
(* hash chain, startup and nightly verification, and the recovery runbook.  *)
(* Pollers and handlers run concurrently, in processes that can die.        *)
(*                                                                         *)
(* An event is a number: its place in created_at order.  SHA-256 over a     *)
(* row's fields is an injective name for the row; intact says whether the   *)
(* stored fields still hash to it.                                          *)
(***************************************************************************)
EXTENDS Naturals, Sequences, FiniteSets

CONSTANTS
  N,          \* number of outbox rows
  BatchSize,
  Pollers,    \* core-api instances
  Handlers,   \* concurrent requests to POST /events
  Poison,     \* rows the ingest schema refuses, until a fix is deployed
  Fixable,    \* may that fix be deployed?
  Tamper,     \* may a stored audit row change?
  Recovery,   \* may the chain be restored from a dump?
  Margin,     \* how far before the restore point processed_at is reset
  MaxFaults,  \* bound on crashes, lost answers, changed rows and restores
  None

Events == 1 .. N

ASSUME SizeAssumption == N \in Nat /\ BatchSize \in Nat \ {0} /\ MaxFaults \in Nat /\ Margin \in Nat
ASSUME PoisonAssumption == Poison \subseteq Events

VARIABLES
  committed,  \* outbox rows visible to the poller
  processed,  \* outbox rows with processed_at set
  poison,     \* rows the ingest schema refuses now
  batch,      \* the rows a poller's tick has not come to yet
  current,    \* the row it is delivering, or was told 200 or 201 for
  waiting,    \* the request its fetch is waiting for
  handler,    \* ingest requests in progress
  chain,      \* audit_events in seq order
  up, frozen, \* the Audit Service: serving? writesFrozen
  verdict,    \* a nightly walk has found a break and not acted on it yet
  condemned,  \* history: rows broken when a nightly run froze the writes
  faults

pollerVars  == <<batch, current, waiting>>
outboxVars  == <<committed, processed, poison>>
serviceVars == <<up, frozen, verdict, condemned>>
vars == <<outboxVars, pollerVars, handler, chain, serviceVars, faults>>

Genesis == 0
ChainRow   == [event : Events, prevHash : Nat, thisHash : Nat, intact : BOOLEAN]
HandlerRow == [phase : {"received", "admitted", "locked", "extending"},
               event : Events, tail : Nat]

ASSUME NoneAssumption == None \notin Events \cup Handlers \cup HandlerRow

Chained == {chain[i].event : i \in 1 .. Len(chain)}

(* verifyChainSegment: every row links to its predecessor and hashes to its name *)
Verifies(c) ==
  \A i \in 1 .. Len(c) :
    /\ c[i].intact
    /\ c[i].prevHash = IF i = 1 THEN Genesis ELSE c[i-1].thisHash

Fault == faults < MaxFaults /\ faults' = faults + 1

-----------------------------------------------------------------------------
(* The outbox *)

(* A transaction of the Core API commits its row, possibly after one with a    *)
(* later created_at.                                                         *)
CommitRow(e) ==
  /\ e \notin committed
  /\ committed' = committed \cup {e}
  /\ UNCHANGED <<processed, poison, pollerVars, handler, chain, serviceVars, faults>>

FixDeployed ==
  /\ Fixable /\ poison # {}
  /\ poison' = {}
  /\ UNCHANGED <<committed, processed, pollerVars, handler, chain, serviceVars, faults>>

-----------------------------------------------------------------------------
(* The poller: runOutboxPollTick and deliver *)

Unprocessed == committed \ processed

(* ORDER BY created_at LIMIT BATCH_SIZE *)
Oldest == {e \in Unprocessed : Cardinality({f \in Unprocessed : f < e}) < BatchSize}

Tick(q) ==
  /\ batch[q] = {} /\ current[q] = None
  /\ Oldest # {}
  /\ batch' = [batch EXCEPT ![q] = Oldest]
  /\ UNCHANGED <<outboxVars, current, waiting, handler, chain, serviceVars, faults>>

(* the rows of a tick, one after the other in created_at order; a row that     *)
(* cannot be delivered stays unprocessed and the tick goes on                 *)
Deliver(q) ==
  /\ current[q] = None
  /\ \E e \in batch[q] :
       /\ \A f \in batch[q] : e <= f
       /\ batch' = [batch EXCEPT ![q] = @ \ {e}]
       /\ \/ ~up /\ UNCHANGED <<current, waiting, handler>>
          \/ /\ up
             /\ \E h \in Handlers :
                  /\ handler[h] = None
                  /\ handler' = [handler EXCEPT ![h] =
                       [phase |-> "received", event |-> e, tail |-> Genesis]]
                  /\ current' = [current EXCEPT ![q] = e]
                  /\ waiting' = [waiting EXCEPT ![q] = h]
  /\ UNCHANGED <<outboxVars, chain, serviceVars, faults>>

(* the answer is lost; the handler carries on *)
FetchFails(q) ==
  /\ waiting[q] # None
  /\ Fault
  /\ current' = [current EXCEPT ![q] = None]
  /\ waiting' = [waiting EXCEPT ![q] = None]
  /\ UNCHANGED <<outboxVars, batch, handler, chain, serviceVars>>

Accepted(q) == current[q] # None /\ waiting[q] = None

Mark(q) ==
  /\ Accepted(q)
  /\ processed' = processed \cup {current[q]}
  /\ current' = [current EXCEPT ![q] = None]
  /\ UNCHANGED <<committed, poison, batch, waiting, handler, chain, serviceVars, faults>>

CrashPoller(q) ==
  /\ batch[q] # {} \/ current[q] # None
  /\ Fault
  /\ batch' = [batch EXCEPT ![q] = {}]
  /\ current' = [current EXCEPT ![q] = None]
  /\ waiting' = [waiting EXCEPT ![q] = None]
  /\ UNCHANGED <<outboxVars, handler, chain, serviceVars>>

-----------------------------------------------------------------------------
(* The Audit Service: ingestEventRoute and appendAuditEvent *)

Goto(h, phase) == handler' = [handler EXCEPT ![h].phase = phase]

Freed(h) ==
  /\ handler' = [handler EXCEPT ![h] = None]
  /\ waiting' = [q \in Pollers |-> IF waiting[q] = h THEN None ELSE waiting[q]]

(* faulty: the poller takes any answer for a success *)
ReplyUnchecked(h, ok) == Freed(h) /\ UNCHANGED <<batch, current>>

(* faulty: the first row that is refused ends the tick *)
ReplyEndsTick(h, ok) ==
  /\ Freed(h)
  /\ current' = [q \in Pollers |-> IF ~ok /\ waiting[q] = h THEN None ELSE current[q]]
  /\ batch' = [q \in Pollers |-> IF ~ok /\ waiting[q] = h THEN {} ELSE batch[q]]

(* the answer reaches the poller if it still waits for this request *)
Reply(h, ok) ==
  /\ Freed(h)
  /\ current' = [q \in Pollers |-> IF ~ok /\ waiting[q] = h THEN None ELSE current[q]]
  /\ UNCHANGED batch

InPhase(h, phase) == handler[h] # None /\ handler[h].phase = phase

(* schema, then writesFrozen, both before the transaction *)
Admit(h) ==
  /\ InPhase(h, "received")
  /\ \/ /\ handler[h].event \in poison \/ frozen
        /\ Reply(h, FALSE)
     \/ /\ handler[h].event \notin poison /\ ~frozen
        /\ Goto(h, "admitted")
        /\ UNCHANGED pollerVars
  /\ UNCHANGED <<outboxVars, chain, serviceVars, faults>>

(* faulty: no advisory lock *)
LockFree(h) == handler[h] # None

(* pg_advisory_xact_lock: one chain extension at a time *)
LockChain(h) ==
  ~ \E g \in Handlers \ {h} : InPhase(g, "locked") \/ InPhase(g, "extending")

Acquire(h) ==
  /\ InPhase(h, "admitted")
  /\ LockChain(h)
  /\ Goto(h, "locked")
  /\ UNCHANGED <<outboxVars, pollerVars, chain, serviceVars, faults>>

TailHash(c) == IF c = <<>> THEN Genesis ELSE c[Len(c)].thisHash

(* dedup by source_event_id, then read the tail *)
ReadTail(h) ==
  /\ InPhase(h, "locked")
  /\ IF handler[h].event \in Chained
       THEN Reply(h, TRUE)
       ELSE /\ handler' = [handler EXCEPT ![h].phase = "extending", ![h].tail = TailHash(chain)]
            /\ UNCHANGED pollerVars
  /\ UNCHANGED <<outboxVars, chain, serviceVars, faults>>

(* INSERT and COMMIT; thisHash is new because the row's id is.  The unique     *)
(* constraint on source_event_id turns a second row into the dedup answer.   *)
Extend(h) ==
  /\ InPhase(h, "extending")
  /\ chain' = IF handler[h].event \in Chained THEN chain
              ELSE Append(chain, [event    |-> handler[h].event,
                                  prevHash |-> handler[h].tail,
                                  thisHash |-> Len(chain) + 1,
                                  intact   |-> TRUE])
  /\ Reply(h, TRUE)
  /\ UNCHANGED <<outboxVars, serviceVars, faults>>

(* faulty: a fetch without an error path waits for the dead service *)
DieUnnoticed ==
  /\ up' = FALSE /\ frozen' = FALSE /\ verdict' = FALSE
  /\ handler' = [h \in Handlers |-> None]
  /\ UNCHANGED <<batch, current, waiting>>

(* the process dies with its requests; their transactions are rolled back     *)
Die ==
  /\ up' = FALSE /\ frozen' = FALSE /\ verdict' = FALSE
  /\ handler' = [h \in Handlers |-> None]
  /\ waiting' = [q \in Pollers |-> None]
  /\ current' = [q \in Pollers |-> IF waiting[q] = None THEN current[q] ELSE None]
  /\ UNCHANGED batch

CrashAudit ==
  /\ up
  /\ Fault
  /\ Die
  /\ UNCHANGED <<outboxVars, chain, condemned>>

(* faulty: the service starts without walking the chain *)
BootUnverified ==
  /\ ~up
  /\ up' = TRUE
  /\ UNCHANGED <<outboxVars, pollerVars, handler, chain, frozen, verdict, condemned, faults>>

(* server.ts: exits, to be restarted, unless the chain verifies *)
Boot ==
  /\ ~up
  /\ Verifies(chain)
  /\ up' = TRUE
  /\ UNCHANGED <<outboxVars, pollerVars, handler, chain, frozen, verdict, condemned, faults>>

(* runNightlyVerification: the walk over a snapshot, then the freeze           *)
NightlyWalk ==
  /\ up /\ ~verdict
  /\ ~Verifies(chain)
  /\ verdict' = TRUE
  /\ UNCHANGED <<outboxVars, pollerVars, handler, chain, up, frozen, condemned, faults>>

FreezeWrites ==
  /\ verdict
  /\ verdict' = FALSE
  /\ frozen' = TRUE
  /\ condemned' = {i \in 1 .. Len(chain) : ~chain[i].intact}
  /\ UNCHANGED <<outboxVars, pollerVars, handler, chain, up, faults>>

-----------------------------------------------------------------------------
(* Outside the services *)

ChangeRow ==
  /\ Tamper
  /\ Fault
  /\ \E i \in 1 .. Len(chain) :
       /\ chain[i].intact
       /\ chain' = [chain EXCEPT ![i].intact = FALSE]
  /\ UNCHANGED <<outboxVars, pollerVars, handler, serviceVars>>

(* The recovery runbook: with the service stopped, audit_db is restored from a  *)
(* dump, which is a prefix of the chain, and processed_at is reset for the     *)
(* rows created after the newest event of the dump, less a margin.            *)
Newest(c) == CHOOSE e \in {c[i].event : i \in DOMAIN c} : \A i \in DOMAIN c : c[i].event <= e

Restore ==
  /\ Recovery /\ ~Verifies(chain)
  /\ \A q \in Pollers : ~Accepted(q)   \* a restore takes longer than an UPDATE
  /\ Fault
  /\ Die
  /\ \E n \in 1 .. Len(chain) :
       LET dump == SubSeq(chain, 1, n) IN
       /\ Verifies(dump)
       /\ chain' = dump
       /\ processed' = {e \in processed : e + Margin <= Newest(dump)}
  /\ condemned' = {}
  /\ UNCHANGED <<committed, poison>>

-----------------------------------------------------------------------------
Init ==
  /\ committed = {} /\ processed = {} /\ poison = Poison
  /\ batch = [q \in Pollers |-> {}]
  /\ current = [q \in Pollers |-> None]
  /\ waiting = [q \in Pollers |-> None]
  /\ handler = [h \in Handlers |-> None]
  /\ chain = <<>>
  /\ up = TRUE /\ frozen = FALSE /\ verdict = FALSE /\ condemned = {}
  /\ faults = 0

PollerStep(q)  == Tick(q) \/ Deliver(q) \/ Mark(q)
HandlerStep(h) == Admit(h) \/ Acquire(h) \/ ReadTail(h) \/ Extend(h)

Next ==
  \/ \E e \in Events : CommitRow(e)
  \/ FixDeployed
  \/ \E q \in Pollers : PollerStep(q) \/ FetchFails(q) \/ CrashPoller(q)
  \/ \E h \in Handlers : HandlerStep(h)
  \/ CrashAudit \/ Boot \/ NightlyWalk \/ FreezeWrites \/ ChangeRow \/ Restore

Spec == Init /\ [][Next]_vars

(* The poller reschedules itself after every tick, a request runs to its end,  *)
(* and Docker restarts the Audit Service (restart: unless-stopped).           *)
Fairness ==
  /\ \A q \in Pollers : WF_vars(PollerStep(q))
  /\ \A h \in Handlers : WF_vars(HandlerStep(h))
  /\ WF_vars(Boot)
FairSpec == Spec /\ Fairness

-----------------------------------------------------------------------------
(* What delivery guarantees *)

(* Types; and a fetch waits for a live request about the row being delivered.    *)
TypeOK ==
  /\ committed \subseteq Events /\ processed \subseteq Events /\ poison \subseteq Poison
  /\ batch \in [Pollers -> SUBSET Events]
  /\ current \in [Pollers -> Events \cup {None}]
  /\ waiting \in [Pollers -> Handlers \cup {None}]
  /\ handler \in [Handlers -> HandlerRow \cup {None}]
  /\ chain \in Seq(ChainRow)
  /\ up \in BOOLEAN /\ frozen \in BOOLEAN /\ verdict \in BOOLEAN
  /\ condemned \subseteq Nat
  /\ faults \in 0 .. MaxFaults
  /\ \A q \in Pollers :
       waiting[q] # None =>
         /\ current[q] # None
         /\ handler[waiting[q]] # None /\ handler[waiting[q]].event = current[q]

(* The chain never forks and never records an event twice, however many          *)
(* deliveries and redeliveries of it race (chain.ts:94-98, 160-166).            *)
ChainSound ==
  \A i, j \in 1 .. Len(chain) :
    /\ i # j => chain[i].event # chain[j].event /\ chain[i].thisHash # chain[j].thisHash
    /\ chain[j].prevHash = (IF j = 1 THEN Genesis ELSE chain[j-1].thisHash)

(* The advisory lock serialises read-tail-then-insert: the tail a request has     *)
(* read is still the tail when it inserts (chain.ts:112-158).                    *)
TailIsCurrent ==
  /\ \A g, h \in Handlers :
       /\ InPhase(g, "locked") \/ InPhase(g, "extending")
       /\ InPhase(h, "locked") \/ InPhase(h, "extending")
       => g = h
  /\ \A h \in Handlers : InPhase(h, "extending") => handler[h].tail = TailHash(chain)
  /\ \A i \in 1 .. Len(chain) : chain[i].thisHash = i

(* A row is marked processed only when the chain has it (at-least-once: nothing   *)
(* is dropped when a tick, an answer or a process is lost, poller.ts:109-114).    *)
MarkedIsChained == processed \subseteq Chained

(* A break a nightly run has acted upon is never written past by a new request:   *)
(* the freeze is only in memory, and a restart, which clears it, must not reopen  *)
(* a chain that is still broken (chain.ts:18-24, server.ts:13-28).               *)
BreakIsNotForgotten ==
  [][\A h \in Handlers :
       (InPhase(h, "received") /\ InPhase(h, "admitted")')
         => \A i \in condemned \cap (1 .. Len(chain)) : chain[i].intact]_vars

-----------------------------------------------------------------------------
(* What the comments say and the code does not keep *)

(* ARCHITECTURE.md 8.4 rule 7: the recovery runbook restores audit_db and resets    *)
(* the outbox delivery state so no queued event is silently lost.                 *)
RestoreLosesNothing == processed \subseteq Chained
=============================================================================
