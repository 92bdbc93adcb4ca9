------------------------------ MODULE Inference ------------------------------
(***************************************************************************)
(* The AI Service and the Core API routes in front of it (ADR 0017, 0019,   *)
(* 0028): voice clips transcribed under a concurrency cap, notes classified *)
(* one at a time, both on one pool of worker threads that cannot be         *)
(* interrupted.  Every wait has a budget; when one runs out the caller is   *)
(* answered and the thread runs on.                                         *)
(*                                                                         *)
(* Time is a count of ticks; the budgets keep the order of the real ones.   *)
(* A call carries at most one request a tick, which bounds their rate.       *)
(* asyncio's semaphore and the executor's FIFO queue are modelled from      *)
(* their use.  A call is a slot for requests: it is used again once its     *)
(* handler and its thread are done.                                         *)
(***************************************************************************)
EXTENDS Naturals, Sequences, FiniteSets

CONSTANTS
  Clips, Notes,   \* calls of /ai/transcribe and of /ai/categorize
  Crews,          \* which of them one behaviour makes
  HalfCpus,       \* AI_CPUS, in halves of a core: Docker takes fractions
  Workers,        \* threads of the loop's default executor
  AcquireBudget, InferenceBudget, AdvisoryBudget,
  Overhead,       \* what the proxies allow beyond the service's own budgets
  MaxFaults,      \* bound on crashes, stalls and refusals
  NoCall

Calls == Clips \cup Notes

(* _parse_concurrency: floored to whole cores, and to at least one *)
Cap == LET cores == HalfCpus \div 2 IN IF cores < 1 THEN 1 ELSE cores

ASSUME CallAssumption   == Clips \cap Notes = {} /\ NoCall \notin Calls /\ IsFiniteSet(Calls)
ASSUME CrewAssumption   == Crews \subseteq SUBSET Calls
ASSUME CpuAssumption    == HalfCpus \in Nat
\* min(32, cpus + 4) threads, and no more cores in the cap than the host has
ASSUME WorkerAssumption == Workers \in Nat /\ Workers >= Cap + 2
ASSUME BudgetAssumption ==
  /\ AcquireBudget \in Nat /\ InferenceBudget \in Nat /\ AdvisoryBudget \in Nat
  /\ Overhead \in Nat \ {0}
ASSUME FaultAssumption  == MaxFaults \in Nat

VARIABLES
  crew,      \* the calls of this behaviour
  asked,     \* core-api's fetch: "idle", "open", or "settled" in this very tick
  elapsed,   \* ticks since it was sent
  handler,   \* the coroutine in the AI Service
  age,       \* ticks since its present await began
  slots,     \* the transcription semaphore
  line,      \* its waiters, first come first served
  granted,   \* waiters handed a slot that have not run yet
  queue,     \* jobs no thread has taken
  job,       \* the thread of each call
  inFlight,  \* the call whose thread holds SerializedDefectModel's lock
  process,   \* "up", "stalled" (the loop runs nothing) or "down"
  loaded,    \* models in memory
  mishaps

proxyVars   == <<asked, elapsed, crew>>
handlerVars == <<handler, age>>
slotVars    == <<slots, line, granted>>
threadVars  == <<queue, job, inFlight>>
hostVars    == <<process, loaded, mishaps>>
inferenceVars == <<proxyVars, handlerVars, slotVars, threadVars, hostVars>>

Busy(c) == job[c] \in {"running", "native"}
HoldsSlot == {c \in Clips : job[c] # "none"}

Mishap == mishaps < MaxFaults /\ mishaps' = mishaps + 1

-----------------------------------------------------------------------------
(* The semaphore *)

(* release(): the first waiter that has none is handed the slot *)
Release(l, g) ==
  LET still == {i \in DOMAIN l : l[i] \notin g}
  IN \/ still = {} /\ slots' = slots + 1 /\ granted' = g
     \/ /\ slots' = slots
        /\ \E i \in still : granted' = g \cup {l[i]} /\ \A k \in still : i <= k

(* nobody is twice in a line *)
Without(s, c) ==
  IF \A i \in DOMAIN s : s[i] # c THEN s
  ELSE LET place == CHOOSE i \in DOMAIN s : s[i] = c
       IN [k \in 1 .. Len(s) - 1 |-> s[IF k < place THEN k ELSE k + 1]]

(* A waiter that stops waiting leaves the line; a slot handed to it meanwhile    *)
(* is handed on.                                                              *)
LeaveLine(c) ==
  /\ line' = Without(line, c)
  /\ IF c \in granted THEN Release(Without(line, c), granted \ {c})
                      ELSE UNCHANGED <<slots, granted>>

-----------------------------------------------------------------------------
(* The proxies of the Core API *)

(* faulty: only the inference itself is allowed for *)
TimeoutOfInference(c) == IF c \in Clips THEN InferenceBudget + Overhead ELSE AdvisoryBudget

(* longer than the AI Service can take: UPSTREAM_TIMEOUT_MS *)
UpstreamTimeout(c) ==
  IF c \in Clips THEN AcquireBudget + InferenceBudget + Overhead
                 ELSE AdvisoryBudget + Overhead

(* A clip refused on its declared length, or sent to a dead service, ends here. *)
Send(c) ==
  /\ c \in crew /\ asked[c] = "idle" /\ handler[c] = "none" /\ job[c] = "none"
  /\ process # "down"
  /\ asked' = [asked EXCEPT ![c] = "open"]
  /\ elapsed' = [elapsed EXCEPT ![c] = 0]
  /\ handler' = [handler EXCEPT ![c] = "arrived"]
  /\ UNCHANGED <<crew, age, slotVars, threadVars, hostVars>>

(* faulty: fetch without a signal *)
GiveUpNever(c) == FALSE /\ UNCHANGED <<asked, elapsed>>

(* The signal of AbortSignal.timeout: the PWA is told to go on without. *)
GiveUp(c) ==
  /\ asked[c] = "open" /\ elapsed[c] >= UpstreamTimeout(c)
  /\ asked' = [asked EXCEPT ![c] = "settled"]
  /\ elapsed' = [elapsed EXCEPT ![c] = 0]
  /\ UNCHANGED <<crew, handlerVars, slotVars, threadVars, hostVars>>

(* The AI Service answers; core-api passes a transcript, or the reason for none, *)
(* on to a caller that still waits.                                             *)
PassOn(c) ==
  /\ asked' = [asked EXCEPT ![c] = IF @ = "open" THEN "settled" ELSE @]
  /\ elapsed' = [elapsed EXCEPT ![c] = 0]
  /\ UNCHANGED crew

Answer(c) ==
  /\ handler' = [handler EXCEPT ![c] = "none"]
  /\ age' = [age EXCEPT ![c] = 0]
  /\ PassOn(c)

-----------------------------------------------------------------------------
(* The handlers of the AI Service: transcribe_clip and assess_note *)

(* run_in_executor and to_thread: the call waits for a thread and for its result *)
StartWaiting(c) ==
  /\ queue' = Append(queue, c)
  /\ job' = [job EXCEPT ![c] = "queued"]
  /\ handler' = [handler EXCEPT ![c] = "awaiting"]
  /\ age' = [age EXCEPT ![c] = 0]
  /\ UNCHANGED <<inFlight, proxyVars>>

ModelOf(c) == IF c \in Clips THEN "whisper" ELSE "llama"

(* An empty or oversized clip and a blank note are answered at once, and so is    *)
(* every call when its model is not loaded.  A clip that finds a slot goes on     *)
(* in the same step.                                                           *)
Receive(c) ==
  /\ process = "up" /\ handler[c] = "arrived"
  /\ \/ /\ Answer(c)
        /\ UNCHANGED <<slotVars, threadVars>>
     \/ /\ c \in Notes /\ ModelOf(c) \in loaded
        /\ StartWaiting(c)
        /\ UNCHANGED slotVars
     \/ /\ c \in Clips /\ ModelOf(c) \in loaded /\ slots > 0 /\ line = <<>>
        /\ slots' = slots - 1
        /\ StartWaiting(c)
        /\ UNCHANGED <<line, granted>>
     \/ /\ c \in Clips /\ ModelOf(c) \in loaded /\ (slots = 0 \/ line # <<>>)
        /\ line' = Append(line, c)
        /\ handler' = [handler EXCEPT ![c] = "waiting"]
        /\ age' = [age EXCEPT ![c] = 0]
        /\ UNCHANGED <<slots, granted, proxyVars, threadVars>>
  /\ UNCHANGED hostVars

Proceed(c) ==
  /\ process = "up" /\ c \in granted
  /\ line' = Without(line, c)
  /\ granted' = granted \ {c}
  /\ StartWaiting(c)
  /\ UNCHANGED <<slots, hostVars>>

(* The executor takes no more jobs; the slot goes back. *)
ExecutorRefuses(c) ==
  /\ process = "up" /\ c \in granted
  /\ Mishap
  /\ LeaveLine(c)
  /\ Answer(c)
  /\ UNCHANGED <<threadVars, process, loaded>>

AcquireTimesOut(c) ==
  /\ process = "up" /\ handler[c] = "waiting" /\ age[c] >= AcquireBudget
  /\ LeaveLine(c)
  /\ Answer(c)
  /\ UNCHANGED <<threadVars, hostVars>>

(* Nobody waits for the thread any more.  A job no thread has taken is cancelled *)
(* with its waiter, unless shield kept the cancellation from it.               *)
Abandon(c) ==
  /\ IF c \in Notes /\ job[c] = "queued"
     THEN queue' = Without(queue, c) /\ job' = [job EXCEPT ![c] = "none"]
     ELSE UNCHANGED <<queue, job>>
  /\ UNCHANGED inFlight

Patience(c) == IF c \in Clips THEN InferenceBudget ELSE AdvisoryBudget

(* faulty: the time-out frees the slot of a thread that runs on *)
TimeoutFreesSlot(c) ==
  /\ process = "up" /\ handler[c] = "awaiting" /\ age[c] >= Patience(c)
  /\ Abandon(c)
  /\ Answer(c)
  /\ IF c \in Clips THEN Release(line, granted) ELSE UNCHANGED <<slots, granted>>
  /\ UNCHANGED <<line, hostVars>>

InferenceTimesOut(c) ==
  /\ process = "up" /\ handler[c] = "awaiting" /\ age[c] >= Patience(c)
  /\ Abandon(c)
  /\ Answer(c)
  /\ UNCHANGED <<slotVars, hostVars>>

(* core-api restarts with a fetch open.  The server may leave the handler to run   *)
(* on, or cancel it wherever it waits.                                           *)
Disconnect(c) ==
  /\ process = "up" /\ asked[c] = "open" /\ handler[c] # "none"
  /\ Mishap
  /\ asked' = [asked EXCEPT ![c] = "settled"]
  /\ elapsed' = [elapsed EXCEPT ![c] = 0]
  /\ \/ UNCHANGED <<handlerVars, slotVars, threadVars>>
     \/ /\ handler' = [handler EXCEPT ![c] = "none"]
        /\ age' = [age EXCEPT ![c] = 0]
        /\ IF handler[c] = "waiting" THEN LeaveLine(c) ELSE UNCHANGED slotVars
        /\ IF handler[c] = "awaiting" THEN Abandon(c) ELSE UNCHANGED threadVars
  /\ UNCHANGED <<crew, process, loaded>>

-----------------------------------------------------------------------------
(* The threads *)

TakeJob ==
  /\ process # "down" /\ queue # <<>>
  /\ Cardinality({c \in Calls : Busy(c)}) < Workers
  /\ queue' = Tail(queue)
  /\ job' = [job EXCEPT ![Head(queue)] = "running"]
  /\ UNCHANGED <<inFlight, proxyVars, handlerVars, slotVars, hostVars>>

(* SerializedDefectModel.categorize_note: a note that finds the model busy is shed *)
TryLock(c) ==
  /\ c \in Notes /\ job[c] = "running"
  /\ IF inFlight = NoCall
     THEN /\ inFlight' = c
          /\ job' = [job EXCEPT ![c] = "native"]
     ELSE /\ job' = [job EXCEPT ![c] = "over"]
          /\ UNCHANGED inFlight
  /\ UNCHANGED <<queue, proxyVars, handlerVars, slotVars, hostVars>>

(* The model returns or raises; a thread may also never come to this. *)
Infer(c) ==
  /\ \/ c \in Clips /\ job[c] = "running"
     \/ c \in Notes /\ job[c] = "native"
  /\ job' = [job EXCEPT ![c] = "over"]
  /\ inFlight' = IF inFlight = c THEN NoCall ELSE inFlight
  /\ UNCHANGED <<queue, proxyVars, handlerVars, slotVars, hostVars>>

(* Back on the loop: the done callback frees the slot, and a handler that still  *)
(* waits answers.                                                             *)
JobDone(c) ==
  /\ process = "up" /\ job[c] = "over"
  /\ job' = [job EXCEPT ![c] = "none"]
  /\ IF c \in Clips THEN Release(line, granted) ELSE UNCHANGED <<slots, granted>>
  /\ IF handler[c] = "awaiting" THEN Answer(c)
                                ELSE UNCHANGED <<proxyVars, handlerVars>>
  /\ UNCHANGED <<line, queue, inFlight, hostVars>>

-----------------------------------------------------------------------------
(* Time, and the process *)

(* what a responsive loop runs before it waits again *)
Pending(c) ==
  \/ handler[c] = "arrived"
  \/ c \in granted
  \/ job[c] = "over"
  \/ handler[c] = "waiting" /\ age[c] >= AcquireBudget
  \/ handler[c] = "awaiting" /\ age[c] >= Patience(c)

Tick ==
  /\ \E c \in Calls : asked[c] # "idle" \/ handler[c] # "none"
  /\ process = "up" => \A c \in Calls : ~Pending(c)
  /\ \A c \in Calls : asked[c] = "open" => elapsed[c] < UpstreamTimeout(c)
  /\ elapsed' = [c \in Calls |-> IF asked[c] = "open" THEN elapsed[c] + 1 ELSE 0]
  /\ age' = [c \in Calls |->
       CASE handler[c] = "waiting" /\ age[c] < AcquireBudget -> age[c] + 1
         [] handler[c] = "awaiting" /\ age[c] < Patience(c) -> age[c] + 1
         [] OTHER -> age[c]]
  /\ asked' = [c \in Calls |-> IF asked[c] = "settled" THEN "idle" ELSE asked[c]]
  /\ UNCHANGED <<crew, handler, slotVars, threadVars, hostVars>>

(* the loop runs nothing any more; nothing but a restart ends that *)
Stall ==
  /\ process = "up" /\ Mishap
  /\ process' = "stalled"
  /\ UNCHANGED <<proxyVars, handlerVars, slotVars, threadVars, loaded>>

(* The process dies with its threads: an open fetch fails, or is cut off in its  *)
(* body.                                                                      *)
Crash ==
  /\ process # "down" /\ Mishap
  /\ process' = "down"
  /\ asked' = [c \in Calls |-> "idle"]
  /\ elapsed' = [c \in Calls |-> 0]
  /\ age' = [c \in Calls |-> 0]
  /\ handler' = [c \in Calls |-> "none"]
  /\ slots' = Cap /\ line' = <<>> /\ granted' = {}
  /\ queue' = <<>> /\ inFlight' = NoCall
  /\ job' = [c \in Calls |-> "none"]
  /\ UNCHANGED <<crew, loaded>>

(* lifespan: a model that cannot be loaded leaves its route answering 503, or    *)
(* UNAVAILABLE, and the service boots.                                         *)
Boot ==
  /\ process = "down"
  /\ process' = "up"
  /\ loaded' \in SUBSET {"whisper", "llama"}
  /\ UNCHANGED <<proxyVars, handlerVars, slotVars, threadVars, mishaps>>

-----------------------------------------------------------------------------
InferenceInit ==
  /\ crew \in Crews
  /\ asked = [c \in Calls |-> "idle"] /\ elapsed = [c \in Calls |-> 0]
  /\ handler = [c \in Calls |-> "none"] /\ age = [c \in Calls |-> 0]
  /\ slots = Cap /\ line = <<>> /\ granted = {}
  /\ queue = <<>> /\ job = [c \in Calls |-> "none"] /\ inFlight = NoCall
  /\ process = "up" /\ loaded \in SUBSET {"whisper", "llama"} /\ mishaps = 0

LoopRuns(c) ==
  \/ Receive(c) \/ Proceed(c) \/ AcquireTimesOut(c) \/ InferenceTimesOut(c) \/ JobDone(c)

InferenceNext ==
  \/ \E c \in Calls : Send(c) \/ GiveUp(c)
  \/ \E c \in Calls : LoopRuns(c) \/ ExecutorRefuses(c) \/ Disconnect(c)
  \/ \E c \in Calls : TryLock(c) \/ Infer(c)
  \/ TakeJob \/ Tick \/ Stall \/ Crash \/ Boot

(* The loop and core-api's timers run and time passes.  That a thread ever runs, a  *)
(* model returns, a stall ends or a dead container comes back is not assumed.      *)
InferenceFairness ==
  /\ WF_inferenceVars(\E c \in Calls : LoopRuns(c) \/ GiveUp(c))
  /\ WF_inferenceVars(Tick)

InferenceSpec == InferenceInit /\ [][InferenceNext]_inferenceVars
FairInferenceSpec == InferenceSpec /\ InferenceFairness

-----------------------------------------------------------------------------
InferenceTypeOK ==
  /\ crew \in Crews
  /\ asked \in [Calls -> {"idle", "open", "settled"}]
  /\ elapsed \in [Calls -> Nat] /\ age \in [Calls -> Nat]
  /\ handler \in [Calls -> {"none", "arrived", "waiting", "awaiting"}]
  /\ slots \in Nat /\ line \in Seq(Clips) /\ granted \subseteq Clips
  /\ queue \in Seq(Calls)
  /\ job \in [Calls -> {"none", "queued", "running", "native", "over"}]
  /\ inFlight \in Notes \cup {NoCall}
  /\ process \in {"up", "stalled", "down"}
  /\ loaded \subseteq {"whisper", "llama"}
  /\ mishaps \in 0 .. MaxFaults

(* However clips time out, disconnect, are refused or crash with the process, a   *)
(* slot is free, on its way to a waiter or held by a clip whose thread has not    *)
(* truly ended: none leaks and no thread runs beyond the cap.  At most one native *)
(* call of the language model runs, timed-out ones included, and calls that never *)
(* return leave the pool a thread for the others.                               *)
ModelsGuarded ==
  /\ slots + Cardinality(granted) + Cardinality(HoldsSlot) = Cap
  /\ \A c \in Notes : job[c] = "native" <=> inFlight = c
  /\ Cardinality({c \in Clips : Busy(c)} \cup {c \in Notes : job[c] = "native"}) < Workers

(* "A timeout here means the AI Service is wedged, not merely slow": while the    *)
(* loop runs, core-api's own timer never beats the budgets behind it.            *)
TimeoutMeansWedged ==
  \A c \in Calls : asked[c] = "open" /\ elapsed[c] >= UpstreamTimeout(c) => process # "up"

(* Every caller is answered, whether or not a model ever returns: the budgets end *)
(* every wait of a loop that runs, and core-api's timer the waits of one that     *)
(* does not, and no other wait.                                                *)
EveryCallIsAnswered ==
  /\ []TimeoutMeansWedged
  /\ \A c \in Calls : []<>(asked[c] # "open")
==============================================================================
