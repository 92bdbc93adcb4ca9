---------------------------- MODULE InferenceProofs ----------------------------
(***************************************************************************)
(* The guards of the AI Service hold for any number of clips, notes, cores   *)
(* and threads: no transcription slot leaks or is handed out twice, one note  *)
(* at a time is in the language model, and the pool keeps a thread free.    *)
(***************************************************************************)
EXTENDS Inference, FiniteSetTheorems, SequenceTheorems, TLAPS

Members(s) == {s[i] : i \in DOMAIN s}
NoRepeat(s) == \A i, k \in DOMAIN s : s[i] = s[k] => i = k

SlotsHold == slots + Cardinality(granted) + Cardinality(HoldsSlot) = Cap

(* Who waits holds nothing yet, who is in line waits, and a grant goes to them.     *)
LineHolds ==
  /\ NoRepeat(line)
  /\ \A c \in Members(line) : handler[c] = "waiting"
  /\ granted \subseteq Members(line)
  /\ \A c \in Calls : handler[c] \in {"arrived", "waiting"} => job[c] = "none"

QueueHolds ==
  /\ NoRepeat(queue)
  /\ \A c \in Members(queue) : job[c] = "queued"

LockHolds == \A c \in Notes : job[c] = "native" <=> inFlight = c

InferenceInvariant == InferenceTypeOK /\ SlotsHold /\ LineHolds /\ QueueHolds /\ LockHolds

-----------------------------------------------------------------------------
(* Lines *)

LEMMA CapType == Cap \in Nat /\ Cap >= 1
  BY CpuAssumption DEF Cap

LEMMA AppendMembers ==
  ASSUME NEW S, NEW s \in Seq(S), NEW c \in S
  PROVE  /\ Append(s, c) \in Seq(S)
         /\ Members(Append(s, c)) = Members(s) \cup {c}
         /\ NoRepeat(s) /\ c \notin Members(s) => NoRepeat(Append(s, c))
<1> DEFINE t == Append(s, c)
<1>1. /\ t \in Seq(S) /\ Len(t) = Len(s) + 1 /\ t[Len(s) + 1] = c
      /\ \A i \in 1 .. Len(s) : t[i] = s[i]
  BY AppendProperties
<1>2. Len(s) \in Nat /\ DOMAIN s = 1 .. Len(s) /\ DOMAIN t = 1 .. Len(t)
  BY <1>1, LenProperties
<1> HIDE DEF t
<1>3. \A i \in DOMAIN t : i = Len(s) + 1 \/ (i \in DOMAIN s /\ t[i] = s[i])
  BY <1>1, <1>2
<1>4. DOMAIN s \subseteq DOMAIN t /\ Len(s) + 1 \in DOMAIN t
  BY <1>1, <1>2
<1>5. Members(t) = Members(s) \cup {c}
  BY <1>1, <1>2, <1>3, <1>4 DEF Members
<1>6. NoRepeat(s) /\ c \notin Members(s) => NoRepeat(t)
  BY <1>1, <1>3 DEF NoRepeat, Members
<1> QED
  BY <1>1, <1>5, <1>6 DEF t

LEMMA WithoutMembers ==
  ASSUME NEW S, NEW s \in Seq(S), NEW c, NoRepeat(s)
  PROVE  /\ Without(s, c) \in Seq(S)
         /\ Members(Without(s, c)) = Members(s) \ {c}
         /\ NoRepeat(Without(s, c))
<1>1. Len(s) \in Nat /\ DOMAIN s = 1 .. Len(s) /\ s \in [1 .. Len(s) -> S]
  BY LenProperties
<1>2. CASE \A i \in DOMAIN s : s[i] # c
  BY <1>2 DEF Without, Members
<1>3. CASE ~ \A i \in DOMAIN s : s[i] # c
  <2> DEFINE place == CHOOSE i \in DOMAIN s : s[i] = c
             at(k) == IF k < place THEN k ELSE k + 1
             t == [k \in 1 .. Len(s) - 1 |-> s[at(k)]]
  <2>1. place \in 1 .. Len(s) /\ s[place] = c
    BY <1>1, <1>3
  <2>2. Without(s, c) = t
    BY <1>3 DEF Without
  <2> HIDE DEF place
  <2>3. \A k \in 1 .. Len(s) - 1 : at(k) \in 1 .. Len(s) /\ at(k) # place
    BY <1>1, <2>1
  <2>4. \A k, m \in 1 .. Len(s) - 1 : at(k) = at(m) => k = m
    BY <1>1, <2>1
  <2>5. \A i \in 1 .. Len(s) : i # place => \E k \in 1 .. Len(s) - 1 : at(k) = i
    <3> SUFFICES ASSUME NEW i \in 1 .. Len(s), i # place
                 PROVE  \E k \in 1 .. Len(s) - 1 : at(k) = i
      OBVIOUS
    <3>1. CASE i < place
      <4>1. i \in 1 .. Len(s) - 1 /\ at(i) = i
        BY <1>1, <2>1, <3>1
      <4> QED
        BY <4>1
    <3>2. CASE i > place
      <4>1. i - 1 \in 1 .. Len(s) - 1 /\ at(i - 1) = i
        BY <1>1, <2>1, <3>2
      <4> QED
        BY <4>1
    <3> QED
      BY <2>1, <3>1, <3>2
  <2> HIDE DEF at
  <2>6. t \in Seq(S)
    <3>1. Len(s) - 1 \in Nat
      BY <1>1, <2>1
    <3>2. t \in [1 .. Len(s) - 1 -> S]
      BY <1>1, <2>3
    <3> QED
      BY <3>1, <3>2, SeqDef
  <2>7. DOMAIN t = 1 .. Len(s) - 1 /\ \A k \in DOMAIN t : t[k] = s[at(k)]
    OBVIOUS
  <2> HIDE DEF t
  <2>8. NoRepeat(t)
    BY <1>1, <2>3, <2>4, <2>7 DEF NoRepeat
  <2>9. Members(t) \subseteq Members(s) \ {c}
    BY <1>1, <2>1, <2>3, <2>7 DEF NoRepeat, Members
  <2>10. Members(s) \ {c} \subseteq Members(t)
    BY <1>1, <2>1, <2>5, <2>7 DEF Members
  <2> QED
    BY <2>2, <2>6, <2>8, <2>9, <2>10
<1> QED
  BY <1>2, <1>3

LEMMA TailMembers ==
  ASSUME NEW S, NEW s \in Seq(S), s # <<>>, NoRepeat(s)
  PROVE  /\ Tail(s) \in Seq(S) /\ Head(s) \in Members(s)
         /\ Members(Tail(s)) = Members(s) \ {Head(s)}
         /\ NoRepeat(Tail(s))
<1>1. /\ Len(s) \in Nat /\ Len(s) # 0 /\ DOMAIN s = 1 .. Len(s)
      /\ Head(s) = s[1]
  BY LenProperties, EmptySeq, HeadTailProperties
<1>2. /\ Tail(s) \in Seq(S) /\ Len(Tail(s)) = Len(s) - 1
      /\ \A i \in 1 .. Len(Tail(s)) : Tail(s)[i] = s[i + 1]
  BY HeadTailProperties
<1>3. DOMAIN Tail(s) = 1 .. Len(Tail(s))
  BY <1>2, LenProperties
<1> DEFINE t == Tail(s)
<1> HIDE DEF t
<1>4. DOMAIN t = 1 .. Len(s) - 1 /\ \A i \in DOMAIN t : t[i] = s[i + 1] /\ i + 1 \in DOMAIN s
  BY <1>1, <1>2, <1>3 DEF t
<1>5. NoRepeat(t)
  BY <1>1, <1>4 DEF NoRepeat
<1>6. Members(t) \subseteq Members(s) \ {s[1]}
  BY <1>1, <1>4 DEF NoRepeat, Members
<1>7. ASSUME NEW i \in DOMAIN s, s[i] # s[1] PROVE s[i] \in Members(t)
  <2>1. i - 1 \in DOMAIN t /\ t[i - 1] = s[i]
    BY <1>1, <1>4, <1>7
  <2> QED
    BY <2>1 DEF Members
<1>8. Members(s) \ {s[1]} \subseteq Members(t)
  BY <1>7 DEF Members
<1>9. Head(s) \in Members(s) /\ Members(t) = Members(s) \ {Head(s)}
  <2>1. 1 \in DOMAIN s
    BY <1>1
  <2>2. Head(s) \in Members(s)
    BY <1>1, <2>1 DEF Members
  <2> QED
    BY <1>1, <1>6, <1>8, <2>2
<1> QED
  BY <1>2, <1>5, <1>9 DEF t

-----------------------------------------------------------------------------
(* Slots *)

LEMMA FiniteHolders ==
  ASSUME InferenceTypeOK
  PROVE  /\ IsFiniteSet(Clips) /\ IsFiniteSet(granted) /\ IsFiniteSet(HoldsSlot)
         /\ Cardinality(granted) \in Nat /\ Cardinality(HoldsSlot) \in Nat
<1>1. Clips \subseteq Calls /\ granted \subseteq Clips /\ HoldsSlot \subseteq Clips
  BY DEF InferenceTypeOK, HoldsSlot, Calls
<1> QED
  BY <1>1, CallAssumption, FS_Subset, FS_CardinalityType

(* A slot that is released is free again, or granted to one more member of the line. *)
LEMMA ReleaseCounts ==
  ASSUME NEW l \in Seq(Clips), NEW g \in SUBSET Clips, slots \in Nat, Release(l, g),
         IsFiniteSet(Clips)
  PROVE  /\ slots' \in Nat /\ granted' \in SUBSET Clips
         /\ slots' + Cardinality(granted') = slots + Cardinality(g) + 1
         /\ granted' \subseteq g \cup Members(l)
<1>1. IsFiniteSet(g) /\ Cardinality(g) \in Nat
  BY FS_Subset, FS_CardinalityType
<1>2. CASE slots' = slots + 1 /\ granted' = g
  BY <1>1, <1>2
<1>3. ASSUME NEW i \in DOMAIN l, l[i] \notin g, slots' = slots, granted' = g \cup {l[i]}
      PROVE  /\ slots' \in Nat /\ granted' \in SUBSET Clips
             /\ slots' + Cardinality(granted') = slots + Cardinality(g) + 1
             /\ granted' \subseteq g \cup Members(l)
  <2>1. l[i] \in Clips /\ l[i] \in Members(l)
    BY LenProperties, ElementOfSeq DEF Members
  <2>2. Cardinality(granted') = Cardinality(g) + 1
    BY <1>1, <1>3, FS_AddElement
  <2> QED
    BY <1>1, <1>3, <2>1, <2>2
<1> QED
  BY <1>2, <1>3 DEF Release

(* A clip comes to hold a slot, or ceases to. *)
LEMMA HoldsOneMore ==
  ASSUME InferenceTypeOK, NEW c \in Clips, job[c] = "none", job'[c] # "none",
         \A d \in Clips : d # c => job'[d] = job[d]
  PROVE  Cardinality(HoldsSlot)' = Cardinality(HoldsSlot) + 1
<1>1. HoldsSlot' = HoldsSlot \cup {c} /\ c \notin HoldsSlot
  BY DEF HoldsSlot
<1> QED
  BY <1>1, FiniteHolders, FS_AddElement

LEMMA HoldsOneLess ==
  ASSUME InferenceTypeOK, NEW c \in Clips, job[c] # "none", job'[c] = "none",
         \A d \in Clips : d # c => job'[d] = job[d]
  PROVE  Cardinality(HoldsSlot)' + 1 = Cardinality(HoldsSlot)
<1>1. HoldsSlot' = HoldsSlot \ {c} /\ c \in HoldsSlot
  BY DEF HoldsSlot
<1>2. Cardinality(HoldsSlot \ {c}) = Cardinality(HoldsSlot) - 1
  BY <1>1, FiniteHolders, FS_RemoveElement
<1> QED
  BY <1>1, <1>2, FiniteHolders

LEMMA HoldsAsMany ==
  ASSUME \A d \in Clips : job'[d] = "none" <=> job[d] = "none"
  PROVE  HoldsSlot' = HoldsSlot
  BY DEF HoldsSlot

(* Who leaves the line takes neither their place nor a grant along. *)
LEMMA LeaveCounts ==
  ASSUME InferenceInvariant, NEW c \in Clips, LeaveLine(c)
  PROVE  /\ slots' \in Nat /\ line' \in Seq(Clips) /\ granted' \in SUBSET Clips
         /\ slots' + Cardinality(granted') = slots + Cardinality(granted)
         /\ NoRepeat(line') /\ Members(line') = Members(line) \ {c}
         /\ granted' \subseteq Members(line')
<1> USE DEF InferenceInvariant
<1>1. slots \in Nat /\ line \in Seq(Clips) /\ granted \in SUBSET Clips
  BY DEF InferenceTypeOK
<1>2. line' = Without(line, c)
  BY DEF LeaveLine
<1>3. /\ line' \in Seq(Clips) /\ NoRepeat(line')
      /\ Members(line') = Members(line) \ {c}
  BY <1>1, <1>2, WithoutMembers DEF LineHolds
<1>4. CASE c \in granted
  <2>1. Release(line', granted \ {c})
    BY <1>2, <1>4 DEF LeaveLine
  <2>2. Cardinality(granted \ {c}) = Cardinality(granted) - 1 /\ Cardinality(granted) \in Nat
    BY <1>4, FiniteHolders, FS_RemoveElement
  <2> DEFINE l == line'  g == granted \ {c}
  <2>3. l \in Seq(Clips) /\ g \in SUBSET Clips /\ Release(l, g)
    BY <1>1, <1>3, <2>1
  <2> HIDE DEF l, g
  <2>4. /\ slots' \in Nat /\ granted' \in SUBSET Clips
        /\ slots' + Cardinality(granted') = slots + Cardinality(g) + 1
        /\ granted' \subseteq g \cup Members(l)
    BY <1>1, <2>3, FiniteHolders, ReleaseCounts
  <2>5. Cardinality(g) = Cardinality(granted) - 1
    BY <2>2 DEF g
  <2>6. slots' + Cardinality(granted') = slots + Cardinality(granted)
    BY <1>1, <2>2, <2>4, <2>5
  <2>7. g \subseteq Members(l)
    BY <1>3 DEF l, g, LineHolds
  <2>8. granted' \subseteq Members(line')
    BY <2>4, <2>7 DEF l
  <2> QED
    BY <1>3, <2>4, <2>6, <2>8
<1>5. CASE c \notin granted
  <2>1. UNCHANGED <<slots, granted>>
    BY <1>5 DEF LeaveLine
  <2> QED
    BY <1>1, <1>3, <1>5, <2>1 DEF LineHolds
<1> QED
  BY <1>4, <1>5

-----------------------------------------------------------------------------
(* What the steps share *)

HandlerTypes ==
  /\ crew \in Crews
  /\ asked \in [Calls -> {"idle", "open", "settled"}]
  /\ elapsed \in [Calls -> Nat] /\ age \in [Calls -> Nat]
  /\ handler \in [Calls -> {"none", "arrived", "waiting", "awaiting"}]

SlotTypes == slots \in Nat /\ line \in Seq(Clips) /\ granted \subseteq Clips

ThreadTypes ==
  /\ queue \in Seq(Calls)
  /\ job \in [Calls -> {"none", "queued", "running", "native", "over"}]
  /\ inFlight \in Notes \cup {NoCall}

HostTypes ==
  /\ process \in {"up", "stalled", "down"}
  /\ loaded \subseteq {"whisper", "llama"}
  /\ mishaps \in 0 .. MaxFaults

LEMMA Types ==
  /\ InferenceTypeOK <=> HandlerTypes /\ SlotTypes /\ ThreadTypes /\ HostTypes
  /\ InferenceTypeOK' <=> HandlerTypes' /\ SlotTypes' /\ ThreadTypes' /\ HostTypes'
  BY DEF InferenceTypeOK, HandlerTypes, SlotTypes, ThreadTypes, HostTypes

LEMMA HostStays ==
  ASSUME HostTypes, UNCHANGED <<process, loaded>>, mishaps' = mishaps \/ Mishap
  PROVE  HostTypes'
<1>1. mishaps' \in 0 .. MaxFaults
  BY FaultAssumption DEF HostTypes, Mishap
<1> QED
  BY <1>1 DEF HostTypes

LEMMA AnswerTypes ==
  ASSUME HandlerTypes, NEW c \in Calls, Answer(c)
  PROVE  /\ HandlerTypes'
         /\ handler'[c] = "none" /\ \A d \in Calls : d # c => handler'[d] = handler[d]
<1>1. asked' \in [Calls -> {"idle", "open", "settled"}]
  BY DEF HandlerTypes, Answer, PassOn
<1>2. elapsed' \in [Calls -> Nat] /\ age' \in [Calls -> Nat] /\ crew' = crew
  BY DEF HandlerTypes, Answer, PassOn
<1>3. /\ handler' \in [Calls -> {"none", "arrived", "waiting", "awaiting"}]
      /\ handler'[c] = "none" /\ \A d \in Calls : d # c => handler'[d] = handler[d]
  BY DEF HandlerTypes, Answer
<1> QED
  BY <1>1, <1>2, <1>3 DEF HandlerTypes

LEMMA QueueStays ==
  ASSUME QueueHolds, queue' = queue, \A c \in Members(queue) : job'[c] = job[c]
  PROVE  QueueHolds'
  BY DEF QueueHolds, Members, NoRepeat

LEMMA LockStays ==
  ASSUME LockHolds, inFlight' = inFlight,
         \A c \in Notes : job'[c] = "native" <=> job[c] = "native"
  PROVE  LockHolds'
  BY DEF LockHolds

LEMMA SlotsStay ==
  ASSUME SlotsHold, UNCHANGED slotVars, \A d \in Clips : job'[d] = "none" <=> job[d] = "none"
  PROVE  SlotsHold'
  BY HoldsAsMany DEF SlotsHold, slotVars

(* The line is the same, and no one in it stops waiting. *)
LEMMA LineStays ==
  ASSUME LineHolds, UNCHANGED <<line, granted>>,
         \A d \in Members(line) : handler'[d] = handler[d],
         \A d \in Calls : handler'[d] \in {"arrived", "waiting"} => job'[d] = "none"
  PROVE  LineHolds'
  BY DEF LineHolds, Members, NoRepeat

(* A call that starts to wait for a thread joins the queue, once. *)
LEMMA StartWaitingHolds ==
  ASSUME InferenceInvariant, NEW c \in Calls, job[c] = "none", StartWaiting(c)
  PROVE  /\ HandlerTypes' /\ ThreadTypes' /\ QueueHolds' /\ LockHolds'
         /\ handler'[c] = "awaiting" /\ job'[c] = "queued"
         /\ \A d \in Calls : d # c => handler'[d] = handler[d] /\ job'[d] = job[d]
<1> USE Types DEF InferenceInvariant
<1>1. /\ handler' \in [Calls -> {"none", "arrived", "waiting", "awaiting"}]
      /\ handler'[c] = "awaiting" /\ \A d \in Calls : d # c => handler'[d] = handler[d]
  BY DEF HandlerTypes, StartWaiting
<1>2. HandlerTypes'
  BY <1>1 DEF HandlerTypes, StartWaiting, proxyVars
<1>3. /\ job' \in [Calls -> {"none", "queued", "running", "native", "over"}]
      /\ job'[c] = "queued" /\ \A d \in Calls : d # c => job'[d] = job[d]
  BY DEF ThreadTypes, StartWaiting
<1>4. c \notin Members(queue)
  BY DEF QueueHolds
<1>5. queue \in Seq(Calls) /\ queue' = Append(queue, c) /\ inFlight' = inFlight
  BY DEF ThreadTypes, StartWaiting
<1>6. /\ queue' \in Seq(Calls) /\ NoRepeat(queue')
      /\ Members(queue') = Members(queue) \cup {c}
  BY <1>4, <1>5, AppendMembers DEF QueueHolds
<1>7. ThreadTypes'
  BY <1>3, <1>5, <1>6 DEF ThreadTypes
<1>8. Members(queue) \subseteq Calls
  BY <1>5, LenProperties DEF Members
<1>9. QueueHolds'
  BY <1>3, <1>6, <1>8 DEF QueueHolds
<1>10. LockHolds'
  <2>1. \A d \in Notes : d \in Calls
    BY DEF Calls
  <2>2. \A d \in Notes : job'[d] = "native" <=> job[d] = "native"
    BY <1>3, <2>1
  <2> QED
    BY <1>5, <2>2, LockStays
<1> QED
  BY <1>1, <1>2, <1>3, <1>7, <1>9, <1>10

(* A handler stops waiting for its thread: the job of a clip runs on. *)
LEMMA AbandonHolds ==
  ASSUME InferenceInvariant, NEW c \in Calls, Abandon(c)
  PROVE  /\ ThreadTypes' /\ QueueHolds' /\ LockHolds'
         /\ \A d \in Calls : job'[d] = job[d] \/ (job'[d] = "none" /\ d \in Notes)
<1> USE Types DEF InferenceInvariant
<1>1. CASE UNCHANGED <<queue, job>>
  BY <1>1 DEF Abandon, ThreadTypes, QueueHolds, LockHolds, Members, NoRepeat
<1>2. CASE c \in Notes /\ job[c] = "queued" /\ queue' = Without(queue, c)
           /\ job' = [job EXCEPT ![c] = "none"]
  <2>1. queue \in Seq(Calls) /\ inFlight' = inFlight
    BY DEF ThreadTypes, Abandon
  <2>2. /\ queue' \in Seq(Calls) /\ NoRepeat(queue')
        /\ Members(queue') = Members(queue) \ {c}
    BY <1>2, <2>1, WithoutMembers DEF QueueHolds
  <2>3. /\ job' \in [Calls -> {"none", "queued", "running", "native", "over"}]
        /\ job'[c] = "none" /\ \A d \in Calls : d # c => job'[d] = job[d]
    BY <1>2 DEF ThreadTypes
  <2>4. Members(queue) \subseteq Calls
    BY <2>1, LenProperties DEF Members
  <2>5. ThreadTypes'
    BY <2>1, <2>2, <2>3 DEF ThreadTypes
  <2>6. QueueHolds'
    BY <2>2, <2>3, <2>4 DEF QueueHolds
  <2>7. \A d \in Notes : d \in Calls
    BY DEF Calls
  <2>8. \A d \in Notes : job'[d] = "native" <=> job[d] = "native"
    BY <1>2, <2>3, <2>7
  <2>9. LockHolds'
    BY <2>1, <2>8, LockStays
  <2> QED
    BY <1>2, <2>3, <2>5, <2>6, <2>9
<1> QED
  BY <1>1, <1>2 DEF Abandon

(* A handler that has left the line answers, and everything still holds. *)
LEMMA LeftLine ==
  ASSUME InferenceInvariant, NEW c \in Clips, handler[c] = "waiting", LeaveLine(c),
         HandlerTypes', handler'[c] = "none", \A d \in Calls : d # c => handler'[d] = handler[d],
         UNCHANGED threadVars, HostTypes'
  PROVE  InferenceInvariant'
<1> USE DEF InferenceInvariant
<1>1. /\ slots' \in Nat /\ line' \in Seq(Clips) /\ granted' \in SUBSET Clips
      /\ slots' + Cardinality(granted') = slots + Cardinality(granted)
      /\ NoRepeat(line') /\ Members(line') = Members(line) \ {c}
      /\ granted' \subseteq Members(line')
  BY LeaveCounts
<1>2. UNCHANGED <<queue, job, inFlight>> /\ HoldsSlot' = HoldsSlot
  BY HoldsAsMany DEF threadVars
<1>3. InferenceTypeOK'
  BY <1>1, <1>2, Types DEF SlotTypes, ThreadTypes
<1>4. SlotsHold'
  <2>1. Cardinality(HoldsSlot) \in Nat /\ slots \in Nat /\ Cardinality(granted) \in Nat
    BY FiniteHolders DEF InferenceTypeOK
  <2>2. Cardinality(granted') \in Nat
    BY <1>1, FiniteHolders, FS_Subset, FS_CardinalityType
  <2> QED
    BY <1>1, <1>2, <2>1, <2>2 DEF SlotsHold
<1>5. Members(line) \subseteq Calls
  BY Types, LenProperties DEF Members, SlotTypes, Calls
<1>6. LineHolds'
  <2>1. \A d \in Members(line') : handler'[d] = "waiting"
    BY <1>1, <1>5 DEF LineHolds
  <2>2. ASSUME NEW d \in Calls, handler'[d] \in {"arrived", "waiting"} PROVE job'[d] = "none"
    <3>1. d # c
      BY <2>2
    <3> QED
      BY <1>2, <2>2, <3>1 DEF LineHolds
  <2> QED
    BY <1>1, <2>1, <2>2 DEF LineHolds
<1>7. QueueHolds' /\ LockHolds'
  BY <1>2, QueueStays, LockStays
<1> QED
  BY <1>3, <1>4, <1>6, <1>7

-----------------------------------------------------------------------------
(* The steps *)

LEMMA InferenceInitially == InferenceInit => InferenceInvariant
<1> SUFFICES ASSUME InferenceInit PROVE InferenceInvariant
  OBVIOUS
<1> USE DEF InferenceInit
<1>1. <<>> \in Seq(Clips) /\ <<>> \in Seq(Calls) /\ DOMAIN <<>> = {}
  BY EmptySeq
<1>2. InferenceTypeOK
  BY <1>1, CapType, FaultAssumption DEF InferenceTypeOK
<1>3. HoldsSlot = {}
  BY DEF HoldsSlot, Calls
<1>4. SlotsHold
  BY <1>3, CapType, FS_EmptySet DEF SlotsHold
<1>5. Members(line) = {} /\ NoRepeat(line) /\ Members(queue) = {} /\ NoRepeat(queue)
  BY <1>1 DEF Members, NoRepeat
<1>6. LineHolds /\ QueueHolds
  BY <1>5 DEF LineHolds, QueueHolds
<1>7. LockHolds
  BY CallAssumption DEF LockHolds, Calls
<1> QED
  BY <1>2, <1>4, <1>6, <1>7 DEF InferenceInvariant

(* The proxies, time and a stall move no slot and no thread. *)
LEMMA ProxyStep ==
  ASSUME InferenceInvariant,
         (\E c \in Calls : Send(c) \/ GiveUp(c)) \/ Tick \/ Stall
  PROVE  InferenceInvariant'
<1> USE Types DEF InferenceInvariant
<1>1. UNCHANGED <<crew, slots, line, granted, queue, job, inFlight, loaded>>
  BY DEF Send, GiveUp, Tick, Stall, slotVars, threadVars, hostVars, proxyVars
<1>2. UNCHANGED <<process, loaded, mishaps>> \/ (Mishap /\ process' = "stalled")
  BY DEF Send, GiveUp, Tick, Stall, hostVars
<1>3. HostTypes'
  BY <1>1, <1>2, FaultAssumption DEF HostTypes, Mishap
<1>4. asked' \in [Calls -> {"idle", "open", "settled"}]
  BY DEF HandlerTypes, Send, GiveUp, Tick, Stall, proxyVars
<1>5. elapsed' \in [Calls -> Nat]
  BY DEF HandlerTypes, Send, GiveUp, Tick, Stall, proxyVars
<1>6. age' \in [Calls -> Nat]
  <2>1. CASE Tick
    BY <2>1 DEF HandlerTypes, Tick
  <2>2. CASE age' = age
    BY <2>2 DEF HandlerTypes
  <2> QED
    BY <2>1, <2>2 DEF Send, GiveUp, Stall, handlerVars
<1>7. /\ handler' \in [Calls -> {"none", "arrived", "waiting", "awaiting"}]
      /\ \A d \in Calls : handler'[d] = handler[d]
                          \/ (handler[d] = "none" /\ handler'[d] = "arrived" /\ job[d] = "none")
  BY DEF HandlerTypes, Send, GiveUp, Tick, Stall, handlerVars
<1>8. InferenceTypeOK'
  BY <1>1, <1>3, <1>4, <1>5, <1>6, <1>7 DEF HandlerTypes, SlotTypes, ThreadTypes
<1>9. SlotsHold' /\ QueueHolds' /\ LockHolds'
  BY <1>1, SlotsStay, QueueStays, LockStays DEF slotVars
<1>10. Members(line) \subseteq Calls
  BY LenProperties DEF Members, SlotTypes, Calls
<1>11. LineHolds'
  BY <1>1, <1>7, <1>10, LineStays DEF LineHolds
<1> QED
  BY <1>8, <1>9, <1>11

LEMMA ReceiveStep ==
  ASSUME InferenceInvariant, NEW c \in Calls, Receive(c)
  PROVE  InferenceInvariant'
<1> USE Types DEF InferenceInvariant
<1>1. handler[c] = "arrived" /\ job[c] = "none" /\ c \notin Members(line)
  BY DEF Receive, LineHolds
<1>2. HostTypes'
  BY HostStays DEF Receive, hostVars
<1>3. Members(line) \subseteq Clips /\ Clips \subseteq Calls /\ Notes \cap Clips = {}
  BY LenProperties, CallAssumption DEF Members, SlotTypes, Calls
<1>4. CASE Answer(c) /\ UNCHANGED <<slotVars, threadVars>>
  <2>1. /\ HandlerTypes' /\ handler'[c] = "none"
        /\ \A d \in Calls : d # c => handler'[d] = handler[d]
    BY <1>4, AnswerTypes
  <2>2. UNCHANGED <<slots, line, granted, queue, job, inFlight>>
    BY <1>4 DEF slotVars, threadVars
  <2>3. InferenceTypeOK'
    BY <1>2, <2>1, <2>2 DEF SlotTypes, ThreadTypes
  <2>4. SlotsHold' /\ QueueHolds' /\ LockHolds'
    BY <1>4, <2>2, SlotsStay, QueueStays, LockStays
  <2>5. LineHolds'
    BY <1>1, <1>3, <2>1, <2>2, LineStays DEF LineHolds
  <2> QED
    BY <2>3, <2>4, <2>5
<1>5. CASE StartWaiting(c) /\ (\/ c \in Notes /\ UNCHANGED slotVars
                               \/ c \in Clips /\ slots > 0 /\ slots' = slots - 1
                                  /\ UNCHANGED <<line, granted>>)
  <2>1. /\ HandlerTypes' /\ ThreadTypes' /\ QueueHolds' /\ LockHolds'
        /\ handler'[c] = "awaiting" /\ job'[c] = "queued"
        /\ \A d \in Calls : d # c => handler'[d] = handler[d] /\ job'[d] = job[d]
    BY <1>1, <1>5, StartWaitingHolds
  <2>2. UNCHANGED <<line, granted>> /\ slots' \in Nat
    BY <1>5 DEF slotVars, SlotTypes
  <2>3. InferenceTypeOK'
    BY <1>2, <2>1, <2>2 DEF SlotTypes
  <2>4. LineHolds'
    BY <1>1, <1>3, <2>1, <2>2, LineStays DEF LineHolds
  <2>5. SlotsHold'
    <3>1. CASE c \in Notes
      BY <1>3, <1>5, <2>1, <3>1, SlotsStay
    <3>2. CASE c \in Clips
      <4>1. Cardinality(HoldsSlot)' = Cardinality(HoldsSlot) + 1
        BY <1>1, <1>3, <2>1, <3>2, HoldsOneMore
      <4>2. slots' = slots - 1 /\ granted' = granted
        BY <1>3, <1>5, <3>2
      <4>3. slots \in Nat /\ Cardinality(granted) \in Nat /\ Cardinality(HoldsSlot) \in Nat
        BY FiniteHolders DEF SlotTypes
      <4> QED
        BY <4>1, <4>2, <4>3 DEF SlotsHold
    <3> QED
      BY <3>1, <3>2 DEF Calls
  <2> QED
    BY <2>1, <2>3, <2>4, <2>5
<1>6. CASE /\ c \in Clips /\ line' = Append(line, c)
           /\ handler' = [handler EXCEPT ![c] = "waiting"] /\ age' = [age EXCEPT ![c] = 0]
           /\ UNCHANGED <<slots, granted, proxyVars, threadVars>>
  <2>1. /\ handler' \in [Calls -> {"none", "arrived", "waiting", "awaiting"}]
        /\ handler'[c] = "waiting" /\ \A d \in Calls : d # c => handler'[d] = handler[d]
    BY <1>6 DEF HandlerTypes
  <2>2. HandlerTypes'
    BY <1>6, <2>1 DEF HandlerTypes, proxyVars
  <2>3. UNCHANGED <<slots, granted, queue, job, inFlight>>
    BY <1>6 DEF threadVars
  <2>4. line \in Seq(Clips)
    BY DEF SlotTypes
  <2>5. /\ line' \in Seq(Clips) /\ NoRepeat(line')
        /\ Members(line') = Members(line) \cup {c}
    BY <1>1, <1>6, <2>4, AppendMembers DEF LineHolds
  <2>6. InferenceTypeOK'
    BY <1>2, <2>2, <2>3, <2>5 DEF SlotTypes, ThreadTypes
  <2>7. QueueHolds' /\ LockHolds'
    BY <2>3, QueueStays, LockStays
  <2>8. SlotsHold'
    BY <2>3, HoldsAsMany DEF SlotsHold
  <2>9. LineHolds'
    BY <1>1, <1>3, <2>1, <2>3, <2>5 DEF LineHolds
  <2> QED
    BY <2>6, <2>7, <2>8, <2>9
<1>7. \/ Answer(c) /\ UNCHANGED <<slotVars, threadVars>>
      \/ StartWaiting(c) /\ (\/ c \in Notes /\ UNCHANGED slotVars
                             \/ c \in Clips /\ slots > 0 /\ slots' = slots - 1
                                /\ UNCHANGED <<line, granted>>)
      \/ /\ c \in Clips /\ line' = Append(line, c)
         /\ handler' = [handler EXCEPT ![c] = "waiting"] /\ age' = [age EXCEPT ![c] = 0]
         /\ UNCHANGED <<slots, granted, proxyVars, threadVars>>
  BY DEF Receive
<1> QED
  BY <1>4, <1>5, <1>6, <1>7

(* A grant becomes a held slot. *)
LEMMA ProceedStep ==
  ASSUME InferenceInvariant, NEW c \in Calls, Proceed(c)
  PROVE  InferenceInvariant'
<1> USE Types DEF InferenceInvariant
<1>1. /\ c \in granted /\ line' = Without(line, c) /\ granted' = granted \ {c}
      /\ StartWaiting(c) /\ slots' = slots /\ UNCHANGED hostVars
  BY DEF Proceed
<1>2. c \in Clips /\ c \in Members(line) /\ handler[c] = "waiting" /\ job[c] = "none"
  BY <1>1 DEF SlotTypes, LineHolds
<1>3. /\ HandlerTypes' /\ ThreadTypes' /\ QueueHolds' /\ LockHolds'
      /\ handler'[c] = "awaiting" /\ job'[c] = "queued"
      /\ \A d \in Calls : d # c => handler'[d] = handler[d] /\ job'[d] = job[d]
  BY <1>1, <1>2, StartWaitingHolds
<1>4. line \in Seq(Clips) /\ slots \in Nat /\ granted \subseteq Clips
  BY DEF SlotTypes
<1>5. /\ line' \in Seq(Clips) /\ NoRepeat(line')
      /\ Members(line') = Members(line) \ {c}
  BY <1>1, <1>4, WithoutMembers DEF LineHolds
<1>6. HostTypes'
  BY <1>1, HostStays DEF hostVars
<1>7. InferenceTypeOK'
  BY <1>1, <1>3, <1>4, <1>5, <1>6 DEF SlotTypes
<1>8. SlotsHold'
  <2>1. Cardinality(HoldsSlot)' = Cardinality(HoldsSlot) + 1
    BY <1>2, <1>3, HoldsOneMore DEF Calls
  <2>2. Cardinality(granted \ {c}) = Cardinality(granted) - 1
    BY <1>1, FiniteHolders, FS_RemoveElement
  <2> QED
    BY <1>1, <1>4, <2>1, <2>2, FiniteHolders DEF SlotsHold
<1>9. Members(line) \subseteq Calls
  BY <1>4, LenProperties DEF Members, Calls
<1>10. LineHolds'
  <2>1. \A d \in Members(line') : handler'[d] = "waiting"
    BY <1>3, <1>5, <1>9 DEF LineHolds
  <2>2. ASSUME NEW d \in Calls, handler'[d] \in {"arrived", "waiting"} PROVE job'[d] = "none"
    <3>1. d # c
      BY <1>3, <2>2
    <3> QED
      BY <1>3, <2>2, <3>1 DEF LineHolds
  <2>3. granted' \subseteq Members(line')
    BY <1>1, <1>5 DEF LineHolds
  <2> QED
    BY <1>5, <2>1, <2>2, <2>3 DEF LineHolds
<1> QED
  BY <1>3, <1>7, <1>8, <1>10

LEMMA LeaveStep ==
  ASSUME InferenceInvariant, NEW c \in Calls, ExecutorRefuses(c) \/ AcquireTimesOut(c)
  PROVE  InferenceInvariant'
<1> USE Types DEF InferenceInvariant
<1>1. LeaveLine(c) /\ Answer(c) /\ UNCHANGED <<threadVars, process, loaded>>
  BY DEF ExecutorRefuses, AcquireTimesOut, hostVars
<1>2. handler[c] = "waiting"
  BY DEF ExecutorRefuses, AcquireTimesOut, LineHolds
<1>3. HostTypes'
  BY HostStays DEF ExecutorRefuses, AcquireTimesOut, hostVars
<1>4. /\ HandlerTypes' /\ handler'[c] = "none"
      /\ \A d \in Calls : d # c => handler'[d] = handler[d]
  BY <1>1, AnswerTypes
<1>5. CASE c \in Clips
  BY <1>1, <1>2, <1>3, <1>4, <1>5, LeftLine
<1>6. CASE c \notin Clips
  <2>1. c \notin Members(line) /\ c \notin granted
    BY <1>6, LenProperties DEF SlotTypes, Members
  <2>2. UNCHANGED <<slots, granted>> /\ line' = line
    <3>1. \A i \in DOMAIN line : line[i] # c
      BY <2>1 DEF Members
    <3> QED
      BY <1>1, <2>1, <3>1 DEF LeaveLine, Without
  <2>3. UNCHANGED <<queue, job, inFlight>>
    BY <1>1 DEF threadVars
  <2>4. InferenceTypeOK'
    BY <1>3, <1>4, <2>2, <2>3 DEF SlotTypes, ThreadTypes
  <2>5. SlotsHold' /\ QueueHolds' /\ LockHolds'
    BY <2>2, <2>3, SlotsStay, QueueStays, LockStays DEF slotVars
  <2>6. Members(line) \subseteq Calls
    BY LenProperties DEF Members, SlotTypes, Calls
  <2>7. LineHolds'
    BY <1>4, <2>1, <2>2, <2>3, <2>6, LineStays DEF LineHolds
  <2> QED
    BY <2>4, <2>5, <2>7
<1> QED
  BY <1>5, <1>6

(* A handler that gives up on its thread leaves the slot to it. *)
LEMMA GivenUpOn ==
  ASSUME InferenceInvariant, NEW c \in Calls, handler[c] \notin {"arrived", "waiting"}, Abandon(c),
         UNCHANGED slotVars, HandlerTypes', HostTypes', handler'[c] = "none",
         \A d \in Calls : d # c => handler'[d] = handler[d]
  PROVE  InferenceInvariant'
<1> USE Types DEF InferenceInvariant
<1>1. /\ ThreadTypes' /\ QueueHolds' /\ LockHolds'
      /\ \A d \in Calls : job'[d] = job[d] \/ (job'[d] = "none" /\ d \in Notes)
  BY AbandonHolds
<1>2. InferenceTypeOK'
  BY <1>1 DEF SlotTypes, slotVars
<1>3. Members(line) \subseteq Clips /\ Clips \subseteq Calls /\ Notes \cap Clips = {}
  BY LenProperties, CallAssumption DEF Members, SlotTypes, Calls
<1>4. SlotsHold'
  BY <1>1, <1>3, SlotsStay
<1>5. c \notin Members(line)
  BY DEF LineHolds
<1>6. LineHolds'
  BY <1>1, <1>3, <1>5, LineStays DEF LineHolds, slotVars
<1> QED
  BY <1>1, <1>2, <1>4, <1>6

LEMMA TimeOutStep ==
  ASSUME InferenceInvariant, NEW c \in Calls, InferenceTimesOut(c)
  PROVE  InferenceInvariant'
<1>1. /\ handler[c] = "awaiting" /\ Abandon(c) /\ Answer(c) /\ UNCHANGED <<slotVars, hostVars>>
  BY DEF InferenceTimesOut
<1>2. HostTypes'
  BY <1>1, HostStays, Types DEF InferenceInvariant, hostVars
<1>3. /\ HandlerTypes' /\ handler'[c] = "none"
      /\ \A d \in Calls : d # c => handler'[d] = handler[d]
  BY <1>1, AnswerTypes, Types DEF InferenceInvariant
<1> QED
  BY <1>1, <1>2, <1>3, GivenUpOn

(* A handler cancelled wherever it waits. *)
LEMMA DisconnectStep ==
  ASSUME InferenceInvariant, NEW c \in Calls, Disconnect(c)
  PROVE  InferenceInvariant'
<1> USE Types DEF InferenceInvariant
<1>1. /\ asked' = [asked EXCEPT ![c] = "settled"] /\ elapsed' = [elapsed EXCEPT ![c] = 0]
      /\ crew' = crew
  BY DEF Disconnect
<1>2. HostTypes'
  BY HostStays DEF Disconnect
<1>3. CASE UNCHANGED <<handlerVars, slotVars, threadVars>>
  <2>1. UNCHANGED <<handler, age, slots, line, granted, queue, job, inFlight>>
    BY <1>3 DEF handlerVars, slotVars, threadVars
  <2>2. HandlerTypes'
    BY <1>1, <2>1 DEF HandlerTypes
  <2>3. InferenceTypeOK'
    BY <1>2, <2>1, <2>2 DEF SlotTypes, ThreadTypes
  <2>4. SlotsHold' /\ QueueHolds' /\ LockHolds'
    BY <2>1, SlotsStay, QueueStays, LockStays DEF slotVars
  <2>5. LineHolds'
    BY <2>1 DEF LineHolds, Members, NoRepeat
  <2> QED
    BY <2>3, <2>4, <2>5
<1>4. CASE /\ handler' = [handler EXCEPT ![c] = "none"] /\ age' = [age EXCEPT ![c] = 0]
           /\ IF handler[c] = "waiting" THEN LeaveLine(c) ELSE UNCHANGED slotVars
           /\ IF handler[c] = "awaiting" THEN Abandon(c) ELSE UNCHANGED threadVars
  <2>1. /\ handler' \in [Calls -> {"none", "arrived", "waiting", "awaiting"}]
        /\ handler'[c] = "none" /\ \A d \in Calls : d # c => handler'[d] = handler[d]
    BY <1>4 DEF HandlerTypes
  <2>2. HandlerTypes'
    BY <1>1, <1>4, <2>1 DEF HandlerTypes
  <2>3. CASE handler[c] = "awaiting"
    BY <1>2, <1>4, <2>1, <2>2, <2>3, GivenUpOn
  <2>4. CASE handler[c] # "awaiting" /\ handler[c] # "waiting"
    <3>1. UNCHANGED <<slots, line, granted, queue, job, inFlight>>
      BY <1>4, <2>4 DEF slotVars, threadVars
    <3>2. InferenceTypeOK'
      BY <1>2, <2>2, <3>1 DEF SlotTypes, ThreadTypes
    <3>3. SlotsHold' /\ QueueHolds' /\ LockHolds'
      BY <3>1, SlotsStay, QueueStays, LockStays DEF slotVars
    <3>4. c \notin Members(line) /\ Members(line) \subseteq Calls
      BY <2>4, LenProperties DEF LineHolds, Members, SlotTypes, Calls
    <3>5. LineHolds'
      BY <2>1, <3>1, <3>4, LineStays DEF LineHolds
    <3> QED
      BY <3>2, <3>3, <3>5
  <2>5. CASE handler[c] = "waiting" /\ c \in Clips
    BY <1>2, <1>4, <2>1, <2>2, <2>5, LeftLine
  <2>6. CASE handler[c] = "waiting" /\ c \notin Clips
    <3>1. c \notin Members(line) /\ c \notin granted /\ Members(line) \subseteq Calls
      BY <2>6, LenProperties DEF SlotTypes, Members, Calls
    <3>2. \A i \in DOMAIN line : line[i] # c
      BY <3>1 DEF Members
    <3>3. UNCHANGED <<slots, granted, line, queue, job, inFlight>>
      BY <1>4, <2>6, <3>1, <3>2 DEF LeaveLine, Without, threadVars
    <3>4. InferenceTypeOK'
      BY <1>2, <2>2, <3>3 DEF SlotTypes, ThreadTypes
    <3>5. SlotsHold' /\ QueueHolds' /\ LockHolds'
      BY <3>3, SlotsStay, QueueStays, LockStays DEF slotVars
    <3>6. LineHolds'
      BY <2>1, <3>1, <3>3, LineStays DEF LineHolds
    <3> QED
      BY <3>4, <3>5, <3>6
  <2> QED
    BY <2>3, <2>4, <2>5, <2>6
<1> QED
  BY <1>3, <1>4 DEF Disconnect

-----------------------------------------------------------------------------
(* The threads and the process *)

(* A job that changes its phase but not whether it holds a slot. *)
LEMMA JobMoves ==
  ASSUME InferenceInvariant, NEW c \in Calls, job[c] # "none",
         NEW phase \in {"running", "native", "over"}, job' = [job EXCEPT ![c] = phase],
         UNCHANGED <<proxyVars, handlerVars, slotVars, hostVars>>
  PROVE  /\ HandlerTypes' /\ SlotTypes' /\ HostTypes' /\ SlotsHold' /\ LineHolds'
         /\ job' \in [Calls -> {"none", "queued", "running", "native", "over"}]
         /\ job'[c] = phase /\ \A d \in Calls : d # c => job'[d] = job[d]
<1> USE Types DEF InferenceInvariant
<1>1. UNCHANGED <<crew, asked, elapsed, handler, age, slots, line, granted, process, loaded, mishaps>>
  BY DEF proxyVars, handlerVars, slotVars, hostVars
<1>2. /\ job' \in [Calls -> {"none", "queued", "running", "native", "over"}]
      /\ job'[c] = phase /\ \A d \in Calls : d # c => job'[d] = job[d]
  BY DEF ThreadTypes
<1>3. HandlerTypes' /\ SlotTypes' /\ HostTypes'
  BY <1>1 DEF HandlerTypes, SlotTypes, HostTypes
<1>4. \A d \in Calls : job'[d] = "none" <=> job[d] = "none"
  BY <1>2
<1>5. SlotsHold'
  BY <1>4, SlotsStay DEF Calls
<1>6. LineHolds'
  BY <1>1, <1>4, LineStays DEF LineHolds
<1> QED
  BY <1>2, <1>3, <1>5, <1>6

LEMMA TakeJobStep ==
  ASSUME InferenceInvariant, TakeJob
  PROVE  InferenceInvariant'
<1> USE Types DEF InferenceInvariant
<1> DEFINE c == Head(queue)
<1>1. queue \in Seq(Calls) /\ queue # <<>> /\ queue' = Tail(queue) /\ inFlight' = inFlight
  BY DEF TakeJob, ThreadTypes
<1>2. /\ queue' \in Seq(Calls) /\ c \in Members(queue) /\ NoRepeat(queue')
      /\ Members(queue') = Members(queue) \ {c}
  BY <1>1, TailMembers DEF QueueHolds
<1>3. Members(queue) \subseteq Calls
  BY <1>1, LenProperties DEF Members
<1>4. /\ job' = [job EXCEPT ![c] = "running"]
      /\ UNCHANGED <<proxyVars, handlerVars, slotVars, hostVars>>
  BY DEF TakeJob
<1> HIDE DEF c
<1>5. c \in Calls /\ job[c] = "queued"
  BY <1>2, <1>3 DEF QueueHolds
<1>6. /\ HandlerTypes' /\ SlotTypes' /\ HostTypes' /\ SlotsHold' /\ LineHolds'
      /\ job' \in [Calls -> {"none", "queued", "running", "native", "over"}]
      /\ job'[c] = "running" /\ \A d \in Calls : d # c => job'[d] = job[d]
  BY <1>4, <1>5, JobMoves
<1>7. InferenceTypeOK'
  BY <1>1, <1>2, <1>6 DEF ThreadTypes
<1>8. QueueHolds'
  BY <1>2, <1>3, <1>6 DEF QueueHolds
<1>9. \A d \in Notes : job'[d] = "native" <=> job[d] = "native"
  BY <1>5, <1>6 DEF Calls
<1>10. LockHolds'
  BY <1>1, <1>9, LockStays
<1> QED
  BY <1>6, <1>7, <1>8, <1>10

(* The lock of the language model is held by the call inside it. *)
LEMMA ThreadStep ==
  ASSUME InferenceInvariant, NEW c \in Calls, TryLock(c) \/ Infer(c)
  PROVE  InferenceInvariant'
<1> USE Types DEF InferenceInvariant
<1>1. /\ job[c] \in {"running", "native"} /\ queue' = queue
      /\ UNCHANGED <<proxyVars, handlerVars, slotVars, hostVars>>
      /\ \E phase \in {"native", "over"} : job' = [job EXCEPT ![c] = phase]
  BY DEF TryLock, Infer
<1>2. PICK phase \in {"native", "over"} : job' = [job EXCEPT ![c] = phase]
  BY <1>1
<1>3. /\ HandlerTypes' /\ SlotTypes' /\ HostTypes' /\ SlotsHold' /\ LineHolds'
      /\ job' \in [Calls -> {"none", "queued", "running", "native", "over"}]
      /\ job'[c] = phase /\ \A d \in Calls : d # c => job'[d] = job[d]
  BY <1>1, <1>2, JobMoves
<1>4. queue \in Seq(Calls) /\ inFlight \in Notes \cup {NoCall}
  BY DEF ThreadTypes
<1>5. inFlight' \in Notes \cup {NoCall}
  BY <1>4 DEF TryLock, Infer
<1>6. InferenceTypeOK'
  BY <1>1, <1>3, <1>4, <1>5 DEF ThreadTypes
<1>7. \A d \in Members(queue) : d # c /\ d \in Calls
  BY <1>1, <1>4, LenProperties DEF QueueHolds, Members
<1>8. QueueHolds'
  BY <1>1, <1>3, <1>7, QueueStays
<1>9. LockHolds'
  <2> SUFFICES ASSUME NEW d \in Notes
               PROVE  job'[d] = "native" <=> inFlight' = d
    BY DEF LockHolds
  <2>1. d \in Calls /\ d # NoCall /\ (job[d] = "native" <=> inFlight = d)
    BY CallAssumption DEF LockHolds, Calls
  <2>2. CASE TryLock(c) /\ inFlight = NoCall
    <3>1. inFlight' = c /\ job'[c] = "native"
      BY <1>3, <2>2 DEF TryLock, ThreadTypes
    <3> QED
      BY <1>3, <2>1, <2>2, <3>1
  <2>3. CASE TryLock(c) /\ inFlight # NoCall
    <3>1. inFlight' = inFlight /\ job'[c] = "over" /\ job[c] = "running"
      BY <1>3, <2>3 DEF TryLock, ThreadTypes
    <3> QED
      BY <1>3, <2>1, <3>1
  <2>4. CASE Infer(c)
    <3>1. /\ inFlight' = (IF inFlight = c THEN NoCall ELSE inFlight)
          /\ job'[c] = "over"
      BY <1>3, <2>4 DEF Infer, ThreadTypes
    <3> QED
      BY <1>3, <2>1, <3>1
  <2> QED
    BY <2>2, <2>3, <2>4
<1> QED
  BY <1>3, <1>6, <1>8, <1>9

(* The slot comes back when the thread has truly ended. *)
LEMMA JobDoneStep ==
  ASSUME InferenceInvariant, NEW c \in Calls, JobDone(c)
  PROVE  InferenceInvariant'
<1> USE Types DEF InferenceInvariant
<1>1. /\ job[c] = "over" /\ job' = [job EXCEPT ![c] = "none"]
      /\ UNCHANGED <<line, queue, inFlight, hostVars>>
  BY DEF JobDone
<1>2. /\ job' \in [Calls -> {"none", "queued", "running", "native", "over"}]
      /\ job'[c] = "none" /\ \A d \in Calls : d # c => job'[d] = job[d]
  BY <1>1 DEF ThreadTypes
<1>3. /\ HandlerTypes'
      /\ \A d \in Calls : handler'[d] = handler[d] \/ handler'[d] = "none"
      /\ \A d \in Calls : handler[d] = "waiting" => handler'[d] = "waiting"
  <2>1. CASE handler[c] = "awaiting"
    <3>1. Answer(c)
      BY <2>1 DEF JobDone
    <3> QED
      BY <2>1, <3>1, AnswerTypes
  <2>2. CASE handler[c] # "awaiting"
    <3>1. UNCHANGED <<crew, asked, elapsed, handler, age>>
      BY <2>2 DEF JobDone, proxyVars, handlerVars
    <3> QED
      BY <3>1 DEF HandlerTypes
  <2> QED
    BY <2>1, <2>2
<1>4. HostTypes' /\ ThreadTypes'
  BY <1>1, <1>2, HostStays DEF hostVars, ThreadTypes
<1>5. line \in Seq(Clips) /\ granted \in SUBSET Clips /\ slots \in Nat
  BY DEF SlotTypes
<1>6. /\ slots' \in Nat /\ granted' \in SUBSET Clips /\ granted' \subseteq Members(line)
      /\ SlotsHold'
  <2>1. CASE c \in Clips
    <3>1. Release(line, granted)
      BY <2>1 DEF JobDone
    <3>2. /\ slots' \in Nat /\ granted' \in SUBSET Clips
          /\ slots' + Cardinality(granted') = slots + Cardinality(granted) + 1
          /\ granted' \subseteq granted \cup Members(line)
      BY <1>5, <3>1, FiniteHolders, ReleaseCounts
    <3>3. Cardinality(HoldsSlot)' + 1 = Cardinality(HoldsSlot)
      BY <1>1, <1>2, <2>1, HoldsOneLess DEF Calls
    <3>4. /\ Cardinality(granted) \in Nat /\ Cardinality(HoldsSlot) \in Nat
          /\ Cardinality(granted') \in Nat /\ IsFiniteSet(HoldsSlot')
      BY <3>2, FiniteHolders, FS_Subset, FS_CardinalityType DEF HoldsSlot
    <3>5. Cardinality(HoldsSlot') \in Nat
      BY <3>4, FS_CardinalityType
    <3>6. SlotsHold'
      BY <1>5, <3>2, <3>3, <3>4, <3>5 DEF SlotsHold
    <3> QED
      BY <3>2, <3>6 DEF LineHolds
  <2>2. CASE c \notin Clips
    <3>1. UNCHANGED <<slots, granted, line>> /\ \A d \in Clips : job'[d] = job[d]
      BY <1>1, <1>2, <2>2 DEF JobDone, Calls
    <3> QED
      BY <1>5, <3>1, SlotsStay DEF slotVars, LineHolds
  <2> QED
    BY <2>1, <2>2
<1>7. InferenceTypeOK'
  BY <1>1, <1>3, <1>4, <1>5, <1>6 DEF SlotTypes
<1>8. Members(line) \subseteq Calls
  BY <1>5, LenProperties DEF Members, Calls
<1>9. LineHolds'
  <2>1. \A d \in Members(line') : handler'[d] = "waiting"
    BY <1>1, <1>3, <1>8 DEF LineHolds
  <2>2. ASSUME NEW d \in Calls, handler'[d] \in {"arrived", "waiting"} PROVE job'[d] = "none"
    <3>1. job[d] = "none"
      BY <1>3, <2>2 DEF LineHolds
    <3> QED
      BY <1>2, <3>1
  <2> QED
    BY <1>1, <1>6, <2>1, <2>2 DEF LineHolds
<1>10. QueueHolds'
  <2>1. \A d \in Members(queue) : d # c /\ d \in Calls
    BY <1>1, LenProperties DEF QueueHolds, Members, ThreadTypes
  <2> QED
    BY <1>1, <1>2, <2>1, QueueStays
<1>11. LockHolds'
  <2>1. \A d \in Notes : job'[d] = "native" <=> job[d] = "native"
    BY <1>1, <1>2 DEF Calls
  <2> QED
    BY <1>1, <2>1, LockStays
<1> QED
  BY <1>6, <1>7, <1>9, <1>10, <1>11

(* A dead process has no threads, and a new semaphore has all its slots. *)
LEMMA ProcessStep ==
  ASSUME InferenceInvariant, Crash \/ Boot
  PROVE  InferenceInvariant'
<1> USE Types DEF InferenceInvariant
<1>1. CASE Crash
  <2>1. /\ asked' = [c \in Calls |-> "idle"] /\ elapsed' = [c \in Calls |-> 0]
        /\ age' = [c \in Calls |-> 0] /\ handler' = [c \in Calls |-> "none"]
        /\ slots' = Cap /\ line' = <<>> /\ granted' = {} /\ queue' = <<>> /\ inFlight' = NoCall
        /\ job' = [c \in Calls |-> "none"] /\ crew' = crew
    BY <1>1 DEF Crash
  <2>2. <<>> \in Seq(Clips) /\ <<>> \in Seq(Calls) /\ DOMAIN <<>> = {}
    BY EmptySeq
  <2>3. HandlerTypes' /\ SlotTypes' /\ ThreadTypes'
    BY <2>1, <2>2, CapType DEF HandlerTypes, SlotTypes, ThreadTypes
  <2>4. HostTypes'
    BY <1>1, FaultAssumption DEF Crash, Mishap, HostTypes
  <2>5. HoldsSlot' = {}
    BY <2>1 DEF HoldsSlot, Calls
  <2>6. SlotsHold'
    BY <2>1, <2>5, CapType, FS_EmptySet DEF SlotsHold
  <2>7. Members(line') = {} /\ NoRepeat(line') /\ Members(queue') = {} /\ NoRepeat(queue')
    BY <2>1, <2>2 DEF Members, NoRepeat
  <2>8. LineHolds' /\ QueueHolds'
    BY <2>1, <2>7 DEF LineHolds, QueueHolds
  <2>9. LockHolds'
    BY <2>1, CallAssumption DEF LockHolds, Calls
  <2> QED
    BY <2>3, <2>4, <2>6, <2>8, <2>9
<1>2. CASE Boot
  <2>1. UNCHANGED <<crew, asked, elapsed, handler, age, slots, line, granted, queue, job, inFlight>>
    BY <1>2 DEF Boot, proxyVars, handlerVars, slotVars, threadVars
  <2>2. HostTypes'
    BY <1>2 DEF Boot, HostTypes
  <2>3. InferenceTypeOK'
    BY <2>1, <2>2 DEF HandlerTypes, SlotTypes, ThreadTypes
  <2>4. SlotsHold' /\ QueueHolds' /\ LockHolds'
    BY <2>1, SlotsStay, QueueStays, LockStays DEF slotVars
  <2>5. LineHolds'
    BY <2>1 DEF LineHolds, Members, NoRepeat
  <2> QED
    BY <2>3, <2>4, <2>5
<1> QED
  BY <1>1, <1>2

-----------------------------------------------------------------------------
LEMMA InferenceInductive ==
  InferenceInvariant /\ [InferenceNext]_inferenceVars => InferenceInvariant'
<1> SUFFICES ASSUME InferenceInvariant, [InferenceNext]_inferenceVars PROVE InferenceInvariant'
  OBVIOUS
<1>1. CASE UNCHANGED inferenceVars
  <2>1. UNCHANGED <<crew, asked, elapsed, handler, age, slots, line, granted, queue, job, inFlight,
                    process, loaded, mishaps>>
    BY <1>1 DEF inferenceVars, proxyVars, handlerVars, slotVars, threadVars, hostVars
  <2>2. InferenceTypeOK'
    BY <2>1 DEF InferenceInvariant, InferenceTypeOK
  <2>3. SlotsHold' /\ QueueHolds' /\ LockHolds'
    BY <2>1, SlotsStay, QueueStays, LockStays DEF InferenceInvariant, slotVars
  <2>4. LineHolds'
    BY <2>1 DEF InferenceInvariant, LineHolds, Members, NoRepeat
  <2> QED
    BY <2>2, <2>3, <2>4 DEF InferenceInvariant
<1>2. CASE InferenceNext
  BY <1>2, ProxyStep, ReceiveStep, ProceedStep, LeaveStep, TimeOutStep, DisconnectStep,
     TakeJobStep, ThreadStep, JobDoneStep, ProcessStep DEF InferenceNext, LoopRuns
<1> QED
  BY <1>1, <1>2

(* However many clips and notes time out, disconnect, are refused or crash: no slot  *)
(* leaks or is handed out twice, one note at a time is in the model, and threads that *)
(* never return leave the pool one for the others (ADR 0017, 0019, 0028).            *)
THEOREM TheModelsAreGuarded == InferenceSpec => []ModelsGuarded
<1>1. InferenceInvariant => ModelsGuarded
  <2> SUFFICES ASSUME InferenceInvariant PROVE ModelsGuarded
    OBVIOUS
  <2>1. SlotsHold /\ LockHolds /\ InferenceTypeOK
    BY DEF InferenceInvariant
  <2> DEFINE clips == {c \in Clips : Busy(c)}
             notes == {c \in Notes : job[c] = "native"}
  <2>2. Cardinality(HoldsSlot) <= Cap /\ Cardinality(HoldsSlot) \in Nat /\ IsFiniteSet(HoldsSlot)
    BY <2>1, FiniteHolders, CapType DEF SlotsHold, InferenceTypeOK
  <2>3. clips \subseteq HoldsSlot
    BY DEF Busy, HoldsSlot
  <2>4. notes \subseteq {inFlight}
    BY <2>1 DEF LockHolds
  <2> HIDE DEF clips, notes
  <2>5. clips \cup notes \subseteq HoldsSlot \cup {inFlight}
    BY <2>3, <2>4
  <2>6. /\ IsFiniteSet(HoldsSlot \cup {inFlight})
        /\ Cardinality(HoldsSlot \cup {inFlight}) \in Nat
        /\ Cardinality(HoldsSlot \cup {inFlight}) <= Cap + 1
    BY <2>2, CapType, FS_AddElement, FS_CardinalityType
  <2>7. /\ Cardinality(clips \cup notes) <= Cardinality(HoldsSlot \cup {inFlight})
        /\ Cardinality(clips \cup notes) \in Nat
    BY <2>5, <2>6, FS_Subset, FS_CardinalityType
  <2>8. Cardinality(clips \cup notes) < Workers
    BY <2>6, <2>7, CapType, WorkerAssumption
  <2> QED
    BY <2>1, <2>8 DEF ModelsGuarded, SlotsHold, LockHolds, clips, notes
<1> QED
  BY <1>1, InferenceInitially, InferenceInductive, PTL DEF InferenceSpec
===============================================================================
