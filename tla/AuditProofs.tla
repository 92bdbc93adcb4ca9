----------------------------- MODULE AuditProofs -----------------------------
(***************************************************************************)
(* The hash chain stays one chain without duplicates, and processed_at is   *)
(* backed by it, for any number of rows, pollers, requests and faults.      *)
(***************************************************************************)
EXTENDS MCAudit, SequenceTheorems, TLAPS

ChainInvariant == ChainSound /\ TailIsCurrent

-----------------------------------------------------------------------------
(* Types *)

(* The initial state is typed. *)
LEMMA InitType == Init => TypeOK
<1>1. <<>> \in Seq(ChainRow)
  OBVIOUS
<1>2. 0 \in 0 .. MaxFaults
  BY SizeAssumption
<1> QED
  BY <1>1, <1>2, PoisonAssumption DEF Init, TypeOK

(* The rows of requests in the two phases a poller and a request create. *)
LEMMA HandlerRowType ==
  ASSUME NEW e \in Events, NEW phase \in {"received", "admitted", "locked", "extending"},
         NEW tail \in Nat
  PROVE  [phase |-> phase, event |-> e, tail |-> tail] \in HandlerRow
  BY DEF HandlerRow

(* An answer frees the request and the poller that waits for it. *)
LEMMA ReplyType ==
  ASSUME TypeOK, NEW h \in Handlers, NEW ok \in BOOLEAN, handler[h] # None, Reply(h, ok)
  PROVE  /\ batch' \in [Pollers -> SUBSET Events]
         /\ current' \in [Pollers -> Events \cup {None}]
         /\ waiting' \in [Pollers -> Handlers \cup {None}]
         /\ handler' \in [Handlers -> HandlerRow \cup {None}]
         /\ \A q \in Pollers :
              waiting'[q] # None =>
                /\ current'[q] # None
                /\ handler'[waiting'[q]] # None /\ handler'[waiting'[q]].event = current'[q]
  BY DEF TypeOK, Reply, Freed

(* The tail hash of a typed chain is a number. *)
LEMMA TailHashType ==
  ASSUME TypeOK
  PROVE  TailHash(chain) \in Nat
<1>1. chain \in Seq(ChainRow) /\ Len(chain) \in Nat
  BY LenProperties DEF TypeOK
<1>2. CASE chain = <<>>
  BY <1>2 DEF TailHash, Genesis
<1>3. CASE chain # <<>>
  <2>1. Len(chain) \in 1 .. Len(chain)
    BY <1>1, <1>3, EmptySeq
  <2>2. chain[Len(chain)] \in ChainRow
    BY <1>1, <2>1, ElementOfSeq
  <2> QED
    BY <1>3, <2>2 DEF TailHash, ChainRow
<1> QED
  BY <1>2, <1>3

(* The steps of a poller keep the types. *)
LEMMA PollerType ==
  ASSUME TypeOK, NEW q \in Pollers, PollerStep(q) \/ FetchFails(q) \/ CrashPoller(q)
  PROVE  TypeOK'
<1> USE DEF outboxVars, serviceVars
<1>1. CASE Tick(q)
  BY <1>1 DEF Tick, Oldest, Unprocessed, TypeOK
<1>2. CASE Deliver(q)
  <2>1. PICK e \in batch[q] :
          /\ batch' = [batch EXCEPT ![q] = @ \ {e}]
          /\ \/ UNCHANGED <<current, waiting, handler>>
             \/ \E h \in Handlers :
                  /\ handler[h] = None
                  /\ handler' = [handler EXCEPT ![h] =
                       [phase |-> "received", event |-> e, tail |-> Genesis]]
                  /\ current' = [current EXCEPT ![q] = e]
                  /\ waiting' = [waiting EXCEPT ![q] = h]
    BY <1>2 DEF Deliver
  <2>2. e \in Events /\ e # None
    BY NoneAssumption DEF TypeOK
  <2>3. CASE UNCHANGED <<current, waiting, handler>>
    BY <1>2, <2>1, <2>3 DEF Deliver, TypeOK
  <2>4. ASSUME NEW h \in Handlers, handler[h] = None,
               handler' = [handler EXCEPT ![h] =
                             [phase |-> "received", event |-> e, tail |-> Genesis]],
               current' = [current EXCEPT ![q] = e],
               waiting' = [waiting EXCEPT ![q] = h]
        PROVE  TypeOK'
    <3> DEFINE row == [phase |-> "received", event |-> e, tail |-> Genesis]
    <3>1. row \in HandlerRow /\ row # None /\ row.event = e
      BY <2>2, HandlerRowType, NoneAssumption DEF Genesis
    <3> HIDE DEF row
    <3>2. /\ handler' = [handler EXCEPT ![h] = row]
          /\ current' = [current EXCEPT ![q] = e]
          /\ waiting' = [waiting EXCEPT ![q] = h]
      BY <2>4 DEF row
    <3>3. \A r \in Pollers :
            waiting'[r] # None =>
              /\ current'[r] # None
              /\ handler'[waiting'[r]] # None /\ handler'[waiting'[r]].event = current'[r]
      BY <2>2, <2>4, <3>1, <3>2 DEF TypeOK
    <3> QED
      BY <1>2, <2>1, <2>2, <3>1, <3>2, <3>3 DEF Deliver, TypeOK
  <2> QED
    BY <2>1, <2>3, <2>4
<1>3. CASE Mark(q)
  BY <1>3 DEF Mark, Accepted, TypeOK
<1>4. CASE FetchFails(q)
  BY <1>4, SizeAssumption DEF FetchFails, Fault, TypeOK
<1>5. CASE CrashPoller(q)
  BY <1>5, SizeAssumption DEF CrashPoller, Fault, TypeOK
<1> QED
  BY <1>1, <1>2, <1>3, <1>4, <1>5 DEF PollerStep

(* Moving a request to its next phase keeps the types. *)
LEMMA GotoType ==
  ASSUME TypeOK, NEW h \in Handlers, handler[h] # None,
         NEW row \in HandlerRow, row.event = handler[h].event,
         handler' = [handler EXCEPT ![h] = row], UNCHANGED pollerVars
  PROVE  /\ handler' \in [Handlers -> HandlerRow \cup {None}]
         /\ \A q \in Pollers :
              waiting'[q] # None =>
                /\ current'[q] # None
                /\ handler'[waiting'[q]] # None /\ handler'[waiting'[q]].event = current'[q]
  BY NoneAssumption DEF TypeOK, pollerVars

(* The steps of an ingest request keep the types. *)
LEMMA HandlerType ==
  ASSUME TypeOK, NEW h \in Handlers, HandlerStep(h)
  PROVE  TypeOK'
<1> USE DEF outboxVars, serviceVars
<1>0. handler[h] # None /\ handler[h] \in HandlerRow
  BY DEF HandlerStep, Admit, Acquire, ReadTail, Extend, InPhase, TypeOK
<1>1. ASSUME NEW phase \in {"received", "admitted", "locked", "extending"}
      PROVE  [handler[h] EXCEPT !.phase = phase] \in HandlerRow
               /\ [handler[h] EXCEPT !.phase = phase].event = handler[h].event
  BY <1>0 DEF HandlerRow
<1>2. CASE Admit(h)
  <2>1. CASE Reply(h, FALSE)
    BY <1>0, <1>2, <2>1, ReplyType DEF Admit, TypeOK
  <2>2. CASE Goto(h, "admitted") /\ UNCHANGED pollerVars
    <3>1. handler' = [handler EXCEPT ![h] = [handler[h] EXCEPT !.phase = "admitted"]]
      BY <2>2 DEF Goto
    <3> QED
      BY <1>0, <1>1, <1>2, <2>2, <3>1, GotoType DEF Admit, TypeOK, pollerVars
  <2> QED
    BY <1>2, <2>1, <2>2 DEF Admit
<1>3. CASE Acquire(h)
  <2>1. handler' = [handler EXCEPT ![h] = [handler[h] EXCEPT !.phase = "locked"]]
    BY <1>3 DEF Acquire, Goto
  <2> QED
    BY <1>0, <1>1, <1>3, <2>1, GotoType DEF Acquire, TypeOK, pollerVars
<1>4. CASE ReadTail(h)
  <2>1. CASE Reply(h, TRUE)
    BY <1>0, <1>4, <2>1, ReplyType DEF ReadTail, TypeOK
  <2>2. CASE ~Reply(h, TRUE)
    <3> DEFINE row == [handler[h] EXCEPT !.phase = "extending", !.tail = TailHash(chain)]
    <3>1. row \in HandlerRow /\ row.event = handler[h].event
      BY <1>0, TailHashType DEF HandlerRow
    <3>2. handler' = [handler EXCEPT ![h] = row] /\ UNCHANGED pollerVars
      BY <1>4, <2>2 DEF ReadTail
    <3> HIDE DEF row
    <3> QED
      BY <1>0, <1>4, <3>1, <3>2, GotoType DEF ReadTail, TypeOK, pollerVars
  <2> QED
    BY <2>1, <2>2
<1>5. CASE Extend(h)
  <2> DEFINE new == [event |-> handler[h].event, prevHash |-> handler[h].tail,
                     thisHash |-> Len(chain) + 1, intact |-> TRUE]
  <2>1. new \in ChainRow
    BY <1>0, LenProperties DEF HandlerRow, ChainRow, TypeOK
  <2>2. chain' = chain \/ chain' = Append(chain, new)
    BY <1>5 DEF Extend
  <2> HIDE DEF new
  <2>3. chain \in Seq(ChainRow)
    BY DEF TypeOK
  <2>4. Append(chain, new) \in Seq(ChainRow)
    BY <2>1, <2>3, AppendProperties
  <2>5. chain' \in Seq(ChainRow)
    BY <2>2, <2>3, <2>4, ZenonT(20)
  <2> QED
    BY <1>0, <1>5, <2>5, ReplyType DEF Extend, TypeOK
<1> QED
  BY <1>2, <1>3, <1>4, <1>5 DEF HandlerStep

(* A dump of the chain is a prefix of it. *)
LEMMA DumpType ==
  ASSUME TypeOK, NEW n \in 1 .. Len(chain)
  PROVE  LET dump == SubSeq(chain, 1, n) IN
         /\ dump \in Seq(ChainRow)
         /\ Len(dump) = n
         /\ \A i \in 1 .. n : dump[i] = chain[i]
<1>1. chain \in Seq(ChainRow) /\ Len(chain) \in Nat /\ n \in Nat
  BY LenProperties DEF TypeOK
<1>2. \A i \in 1 .. n : chain[i] \in ChainRow
  BY <1>1, ElementOfSeq
<1> QED
  BY <1>1, <1>2, SubSeqProperties

(* Changing a stored row keeps the others and its links. *)
LEMMA ChangedRowType ==
  ASSUME TypeOK, ChangeRow
  PROVE  /\ chain' \in Seq(ChainRow)
         /\ Len(chain') = Len(chain)
         /\ \A i \in 1 .. Len(chain) : /\ chain'[i].event = chain[i].event
                                       /\ chain'[i].prevHash = chain[i].prevHash
                                       /\ chain'[i].thisHash = chain[i].thisHash
<1>1. chain \in Seq(ChainRow)
  BY DEF TypeOK
<1>2. PICK i \in 1 .. Len(chain) : chain' = [chain EXCEPT ![i] = [chain[i] EXCEPT !.intact = FALSE]]
  BY DEF ChangeRow
<1>3. chain[i] \in ChainRow
  BY <1>1, ElementOfSeq
<1> DEFINE row == [chain[i] EXCEPT !.intact = FALSE]
<1>4. /\ row \in ChainRow
      /\ row.event = chain[i].event /\ row.prevHash = chain[i].prevHash
      /\ row.thisHash = chain[i].thisHash
  BY <1>3 DEF ChainRow
<1>5. chain' = [chain EXCEPT ![i] = row]
  BY <1>2
<1> HIDE DEF row
<1> QED
  BY <1>1, <1>4, <1>5, ExceptSeq

(* Faults, verification and recovery keep the types. *)
LEMMA OutsideType ==
  ASSUME TypeOK, [Next]_vars,
         \/ \E e \in Events : CommitRow(e)
         \/ FixDeployed \/ CrashAudit \/ Boot \/ NightlyWalk \/ FreezeWrites \/ ChangeRow \/ Restore
         \/ UNCHANGED vars
  PROVE  TypeOK'
<1> USE DEF outboxVars, pollerVars, serviceVars
<1>0. Fault => faults' \in 0 .. MaxFaults
  BY SizeAssumption DEF Fault, TypeOK
<1>1. CASE \E e \in Events : CommitRow(e)
  BY <1>1 DEF CommitRow, TypeOK
<1>2. CASE FixDeployed \/ Boot \/ NightlyWalk
  BY <1>2 DEF FixDeployed, Boot, NightlyWalk, TypeOK
<1>3. CASE CrashAudit
  <2>1. /\ waiting' = [q \in Pollers |-> None]
        /\ handler' = [h \in Handlers |-> None]
        /\ current' \in [Pollers -> Events \cup {None}]
    BY <1>3 DEF CrashAudit, Die, TypeOK
  <2> QED
    BY <1>0, <1>3, <2>1 DEF CrashAudit, Die, TypeOK
<1>4. CASE FreezeWrites
  <2>1. condemned' \subseteq Nat
    BY <1>4, LenProperties DEF FreezeWrites, TypeOK
  <2> QED
    BY <1>4, <2>1 DEF FreezeWrites, TypeOK
<1>5. CASE ChangeRow
  <2>1. chain' \in Seq(ChainRow)
    BY <1>5, ChangedRowType
  <2> QED
    BY <1>0, <1>5, <2>1 DEF ChangeRow, TypeOK
<1>6. CASE Restore
  <2>1. PICK n \in 1 .. Len(chain) : /\ chain' = SubSeq(chain, 1, n)
                                     /\ processed' \subseteq processed
    BY <1>6 DEF Restore
  <2>2. chain' \in Seq(ChainRow)
    BY <2>1, DumpType
  <2>3. /\ waiting' = [q \in Pollers |-> None]
        /\ handler' = [h \in Handlers |-> None]
        /\ current' \in [Pollers -> Events \cup {None}]
    BY <1>6 DEF Restore, Die, TypeOK
  <2> QED
    BY <1>0, <1>6, <2>1, <2>2, <2>3 DEF Restore, Die, TypeOK
<1>7. CASE UNCHANGED vars
  BY <1>7 DEF vars, TypeOK
<1> QED
  BY <1>1, <1>2, <1>3, <1>4, <1>5, <1>6, <1>7

(* Every step keeps the types. *)
LEMMA NextType ==
  ASSUME TypeOK, [Next]_vars
  PROVE  TypeOK'
  BY PollerType, HandlerType, OutsideType DEF Next

(* Outbox, pollers, requests and chain keep their types, and every fetch in       *)
(* flight is about the row its poller is delivering (poller.ts, chain.ts).       *)
THEOREM TypeCorrect == Spec => []TypeOK
  BY InitType, NextType, PTL DEF Spec

-----------------------------------------------------------------------------
(* One chain *)

Working(h) == InPhase(h, "locked") \/ InPhase(h, "extending")

(* A step that leaves the chain alone and gives nobody the lock or a tail. *)
LEMMA ChainKept ==
  ASSUME ChainInvariant, UNCHANGED chain,
         \A h \in Handlers : Working(h)' => handler'[h] = handler[h]
  PROVE  ChainInvariant'
<1>1. ChainSound'
  BY DEF ChainInvariant, ChainSound
<1>2. TailIsCurrent'
  BY DEF ChainInvariant, TailIsCurrent, Working, InPhase, TailHash
<1> QED
  BY <1>1, <1>2 DEF ChainInvariant

(* A chain with the same links, or a prefix of them, while no request works. *)
LEMMA ChainReplaced ==
  ASSUME TypeOK, ChainInvariant, NEW c \in Seq(ChainRow), chain' = c, Len(c) <= Len(chain),
         \A i \in 1 .. Len(c) : /\ c[i].event = chain[i].event
                                /\ c[i].prevHash = chain[i].prevHash
                                /\ c[i].thisHash = chain[i].thisHash,
         Len(c) = Len(chain) \/ \A h \in Handlers : ~InPhase(h, "extending")',
         \A h \in Handlers : Working(h)' => handler'[h] = handler[h]
  PROVE  ChainInvariant'
<1>1. Len(c) \in Nat /\ Len(chain) \in Nat
  BY LenProperties DEF TypeOK
<1>2. ChainSound'
  <2> SUFFICES ASSUME NEW i \in 1 .. Len(c), NEW j \in 1 .. Len(c)
               PROVE  /\ i # j => c[i].event # c[j].event /\ c[i].thisHash # c[j].thisHash
                      /\ c[j].prevHash = (IF j = 1 THEN Genesis ELSE c[j-1].thisHash)
    BY DEF ChainSound
  <2>1. i \in 1 .. Len(chain) /\ j \in 1 .. Len(chain) /\ (j # 1 => j - 1 \in 1 .. Len(c))
    BY <1>1
  <2>2. /\ i # j => chain[i].event # chain[j].event /\ chain[i].thisHash # chain[j].thisHash
        /\ chain[j].prevHash = (IF j = 1 THEN Genesis ELSE chain[j-1].thisHash)
    BY <2>1 DEF ChainInvariant, ChainSound
  <2> QED
    BY <2>1, <2>2
<1>3. Len(c) = Len(chain) => TailHash(c) = TailHash(chain)
  BY <1>1, EmptySeq DEF TailHash, TypeOK
<1>4. TailIsCurrent'
  BY <1>1, <1>3 DEF ChainInvariant, TailIsCurrent, Working, InPhase
<1> QED
  BY <1>2, <1>4 DEF ChainInvariant

(* The request that holds the lock appends after the tail it has read. *)
LEMMA ExtendKeepsChain ==
  ASSUME TypeOK, ChainInvariant, NEW h \in Handlers, Extend(h)
  PROVE  ChainInvariant'
<1>1. /\ handler[h] # None /\ handler[h] \in HandlerRow /\ InPhase(h, "extending")
      /\ handler' = [handler EXCEPT ![h] = None]
  BY DEF Extend, InPhase, TypeOK, Reply, Freed
<1>2. \A g \in Handlers : ~Working(g)'
  BY <1>1 DEF Working, InPhase, ChainInvariant, TailIsCurrent, TypeOK
<1>3. CASE handler[h].event \in Chained
  BY <1>2, <1>3, ChainKept DEF Extend
<1>4. CASE handler[h].event \notin Chained
  <2> DEFINE n == Len(chain)
             new == [event |-> handler[h].event, prevHash |-> handler[h].tail,
                     thisHash |-> n + 1, intact |-> TRUE]
  <2>1. n \in Nat /\ chain \in Seq(ChainRow)
    BY LenProperties DEF TypeOK
  <2>2. /\ new \in ChainRow /\ new.event = handler[h].event
        /\ new.prevHash = TailHash(chain) /\ new.thisHash = n + 1
    BY <1>1, <2>1 DEF HandlerRow, ChainRow, ChainInvariant, TailIsCurrent
  <2>3. chain' = Append(chain, new)
    BY <1>4 DEF Extend
  <2>4. \A i \in 1 .. n : chain[i].event # new.event
    BY <1>4, <2>2 DEF Chained
  <2> HIDE DEF new
  <2>5. /\ Len(chain') = n + 1 /\ chain'[n + 1] = new
        /\ \A i \in 1 .. n : chain'[i] = chain[i]
    BY <2>1, <2>2, <2>3, AppendProperties
  <2>6. TailHash(chain) = IF n = 0 THEN Genesis ELSE chain[n].thisHash
    BY <2>1, EmptySeq DEF TailHash
  <2>7. \A i \in 1 .. n : chain[i].thisHash = i
    BY DEF ChainInvariant, TailIsCurrent
  <2> HIDE DEF n
  <2>8. \A i, j \in 1 .. n + 1 :
          i # j => chain'[i].event # chain'[j].event /\ chain'[i].thisHash # chain'[j].thisHash
    <3> SUFFICES ASSUME NEW i \in 1 .. n + 1, NEW j \in 1 .. n + 1, i # j
                 PROVE  chain'[i].event # chain'[j].event /\ chain'[i].thisHash # chain'[j].thisHash
      OBVIOUS
    <3>1. CASE i \in 1 .. n /\ j \in 1 .. n
      BY <2>5, <3>1 DEF ChainInvariant, ChainSound, n
    <3>2. CASE i = n + 1 \/ j = n + 1
      BY <2>1, <2>2, <2>4, <2>5, <2>7, <3>2
    <3> QED
      BY <2>1, <3>1, <3>2
  <2>9. \A j \in 1 .. n + 1 : chain'[j].prevHash = (IF j = 1 THEN Genesis ELSE chain'[j-1].thisHash)
    <3> SUFFICES ASSUME NEW j \in 1 .. n + 1
                 PROVE  chain'[j].prevHash = (IF j = 1 THEN Genesis ELSE chain'[j-1].thisHash)
      OBVIOUS
    <3>1. CASE j \in 1 .. n
      <4>1. chain[j].prevHash = (IF j = 1 THEN Genesis ELSE chain[j-1].thisHash)
        BY <3>1 DEF ChainInvariant, ChainSound, n
      <4> QED
        BY <2>1, <2>5, <3>1, <4>1
    <3>2. CASE j = n + 1
      BY <2>1, <2>2, <2>5, <2>6, <3>2
    <3> QED
      BY <2>1, <3>1, <3>2
  <2>10. \A i \in 1 .. n + 1 : chain'[i].thisHash = i
    BY <2>1, <2>2, <2>5, <2>7
  <2>11. ChainSound'
    BY <2>5, <2>8, <2>9 DEF ChainSound
  <2>12. TailIsCurrent'
    BY <1>2, <2>5, <2>10 DEF TailIsCurrent, Working
  <2> QED
    BY <2>11, <2>12 DEF ChainInvariant
<1> QED
  BY <1>3, <1>4
(* A poller writes no chain row and holds no chain lock. *)
LEMMA PollerKeepsChain ==
  ASSUME TypeOK, ChainInvariant, NEW q \in Pollers,
         PollerStep(q) \/ FetchFails(q) \/ CrashPoller(q)
  PROVE  ChainInvariant'
<1>1. CASE UNCHANGED <<chain, handler>>
  BY <1>1, ChainKept DEF Working, InPhase
<1>2. CASE Deliver(q)
  <2>1. \A h \in Handlers : Working(h)' => handler'[h] = handler[h]
    BY <1>2 DEF Deliver, Working, InPhase, TypeOK
  <2> QED
    BY <1>2, <2>1, ChainKept DEF Deliver
<1> QED
  BY <1>1, <1>2 DEF PollerStep, Tick, Mark, FetchFails, CrashPoller

(* An ingest request keeps the chain invariant. *)
LEMMA HandlerKeepsChain ==
  ASSUME TypeOK, ChainInvariant, NEW h \in Handlers, HandlerStep(h)
  PROVE  ChainInvariant'
<1>1. handler[h] # None /\ handler[h] \in HandlerRow
  BY DEF HandlerStep, Admit, Acquire, ReadTail, Extend, InPhase, TypeOK
<1>2. ASSUME NEW ok \in BOOLEAN, Reply(h, ok), UNCHANGED chain
      PROVE  ChainInvariant'
  <2>1. \A g \in Handlers : Working(g)' => handler'[g] = handler[g]
    BY <1>2 DEF Reply, Freed, Working, InPhase, TypeOK
  <2> QED
    BY <1>2, <2>1, ChainKept
<1>3. CASE Admit(h)
  <2>1. CASE Goto(h, "admitted")
    <3>1. \A g \in Handlers : Working(g)' => handler'[g] = handler[g]
      BY <1>1, <2>1 DEF Goto, Working, InPhase, TypeOK, HandlerRow
    <3> QED
      BY <1>3, <3>1, ChainKept DEF Admit
  <2> QED
    BY <1>2, <1>3, <2>1 DEF Admit
<1>4. CASE Acquire(h)
  <2>1. /\ UNCHANGED chain
        /\ handler' = [handler EXCEPT ![h].phase = "locked"]
        /\ \A g \in Handlers : g # h => ~Working(g)
    BY <1>4 DEF Acquire, Goto, LockChain, Working
  <2>2. /\ \A g \in Handlers : g # h => handler'[g] = handler[g]
        /\ InPhase(h, "locked")'
        /\ ~InPhase(h, "extending")'
    <3>1. /\ handler'[h] = [handler[h] EXCEPT !.phase = "locked"]
          /\ \A g \in Handlers : g # h => handler'[g] = handler[g]
      BY <2>1 DEF TypeOK
    <3>2. handler'[h] \in HandlerRow /\ handler'[h].phase = "locked"
      BY <1>1, <3>1 DEF HandlerRow
    <3>3. handler'[h] # None
      BY <3>2, NoneAssumption
    <3> QED
      BY <3>1, <3>2, <3>3 DEF InPhase
  <2>3. TailIsCurrent'
    BY <2>1, <2>2 DEF ChainInvariant, TailIsCurrent, Working, InPhase
  <2>4. ChainSound'
    BY <2>1 DEF ChainInvariant, ChainSound
  <2> QED
    BY <2>3, <2>4 DEF ChainInvariant
<1>5. CASE ReadTail(h)
  <2>1. CASE handler[h].event \in Chained
    BY <1>2, <1>5, <2>1 DEF ReadTail
  <2>2. CASE handler[h].event \notin Chained
    <3>1. /\ UNCHANGED chain /\ Working(h)
          /\ handler' = [handler EXCEPT ![h] = [handler[h] EXCEPT !.phase = "extending",
                                                               !.tail = TailHash(chain)]]
      BY <1>5, <2>2 DEF ReadTail, Working
    <3>2. /\ \A g \in Handlers : g # h => handler'[g] = handler[g]
          /\ handler'[h].tail = TailHash(chain)
      BY <1>1, <3>1 DEF TypeOK, HandlerRow
    <3>3. \A g \in Handlers : Working(g) => g = h
      BY <3>1 DEF ChainInvariant, TailIsCurrent, Working
    <3>4. \A g \in Handlers : Working(g)' => g = h
      BY <3>2, <3>3 DEF Working, InPhase
    <3>5. TailIsCurrent'
      BY <3>1, <3>2, <3>4 DEF ChainInvariant, TailIsCurrent, Working
    <3>6. ChainSound'
      BY <3>1 DEF ChainInvariant, ChainSound
    <3> QED
      BY <3>5, <3>6 DEF ChainInvariant
  <2> QED
    BY <2>1, <2>2
<1>6. CASE Extend(h)
  BY <1>6, ExtendKeepsChain
<1> QED
  BY <1>3, <1>4, <1>5, <1>6 DEF HandlerStep

(* Faults, verification and recovery keep the chain invariant. *)
LEMMA OutsideKeepsChain ==
  ASSUME TypeOK, ChainInvariant,
         \/ \E e \in Events : CommitRow(e)
         \/ FixDeployed \/ CrashAudit \/ Boot \/ NightlyWalk \/ FreezeWrites \/ ChangeRow \/ Restore
         \/ UNCHANGED vars
  PROVE  ChainInvariant'
<1>1. CASE UNCHANGED <<chain, handler>>
  BY <1>1, ChainKept DEF Working, InPhase
<1>2. CASE CrashAudit
  BY <1>2, ChainKept DEF CrashAudit, Die, Working, InPhase
<1>3. CASE ChangeRow
  <2>1. \A h \in Handlers : Working(h)' => handler'[h] = handler[h]
    BY <1>3 DEF ChangeRow
  <2> QED
    BY <1>3, <2>1, ChangedRowType, ChainReplaced, LenProperties DEF TypeOK
<1>4. CASE Restore
  <2>1. PICK n \in 1 .. Len(chain) : chain' = SubSeq(chain, 1, n)
    BY <1>4 DEF Restore
  <2>2. /\ chain' \in Seq(ChainRow) /\ Len(chain') = n /\ n <= Len(chain)
        /\ \A i \in 1 .. n : chain'[i] = chain[i]
    BY <2>1, DumpType
  <2>3. \A h \in Handlers : ~InPhase(h, "extending")' /\ ~Working(h)'
    BY <1>4 DEF Restore, Die, InPhase, Working
  <2> QED
    BY <2>2, <2>3, ChainReplaced
<1> QED
  BY <1>1, <1>2, <1>3, <1>4 DEF CommitRow, FixDeployed, Boot, NightlyWalk, FreezeWrites, vars

(* The empty chain has the chain invariant. *)
LEMMA InitChain == Init => ChainInvariant
  BY DEF Init, ChainInvariant, ChainSound, TailIsCurrent, InPhase

(* Every step keeps the chain invariant. *)
LEMMA NextChain ==
  ASSUME TypeOK, ChainInvariant, [Next]_vars
  PROVE  ChainInvariant'
  BY PollerKeepsChain, HandlerKeepsChain, OutsideKeepsChain DEF Next

(* The chain never forks and holds no event twice, whatever deliveries race,       *)
(* rows change or dumps are restored (chain.ts:94-166).                           *)
THEOREM OneChain == Spec => []ChainSound
<1>1. TypeOK /\ ChainInvariant /\ [Next]_vars => (TypeOK /\ ChainInvariant)'
  BY NextType, NextChain
<1>2. ChainInvariant => ChainSound
  BY DEF ChainInvariant
<1> QED
  BY <1>1, <1>2, InitType, InitChain, PTL DEF Spec

(* The tail a request read under the advisory lock is the tail it appends to. *)
THEOREM TailStaysCurrent == Spec => []TailIsCurrent
<1>1. TypeOK /\ ChainInvariant /\ [Next]_vars => (TypeOK /\ ChainInvariant)'
  BY NextType, NextChain
<1>2. ChainInvariant => TailIsCurrent
  BY DEF ChainInvariant
<1> QED
  BY <1>1, <1>2, InitType, InitChain, PTL DEF Spec
-----------------------------------------------------------------------------
(* At least once *)

(* What a poller was told is in the chain, is. *)
Backed == MarkedIsChained /\ \A q \in Pollers : Accepted(q) => current[q] \in Chained

(* An answer of success is about an event the chain holds. *)
LEMMA ReplyIsBacked ==
  ASSUME TypeOK, TypeOK', Backed, NEW h \in Handlers, NEW ok \in BOOLEAN,
         handler[h] # None, Reply(h, ok), Chained \subseteq Chained', UNCHANGED processed,
         ok => handler[h].event \in Chained'
  PROVE  Backed'
<1>1. ASSUME NEW q \in Pollers, Accepted(q)'
      PROVE  current'[q] \in Chained'
  <2>1. CASE waiting[q] = h
    <3>1. ok
      BY <1>1, <2>1 DEF Accepted, Reply, Freed, TypeOK
    <3>2. current'[q] = handler[h].event
      BY <2>1, <3>1, NoneAssumption DEF Reply, TypeOK
    <3> QED
      BY <3>1, <3>2
  <2>2. CASE waiting[q] # h
    <3>1. Accepted(q) /\ current'[q] = current[q]
      BY <1>1, <2>2 DEF Accepted, Reply, Freed, TypeOK
    <3> QED
      BY <3>1 DEF Backed
  <2> QED
    BY <2>1, <2>2
<1> QED
  BY <1>1 DEF Backed, MarkedIsChained

(* Chains only grow while nobody restores a dump. *)
LEMMA ExtendGrows ==
  ASSUME TypeOK, NEW h \in Handlers, Extend(h)
  PROVE  Chained \subseteq Chained' /\ handler[h].event \in Chained'
<1>1. handler[h] \in HandlerRow
  BY DEF Extend, InPhase, TypeOK
<1>2. CASE handler[h].event \in Chained
  <2>1. Chained' = Chained
    BY <1>2 DEF Extend, Chained
  <2> QED
    BY <1>2, <2>1
<1>3. CASE handler[h].event \notin Chained
  <2> DEFINE n == Len(chain)
             new == [event |-> handler[h].event, prevHash |-> handler[h].tail,
                     thisHash |-> n + 1, intact |-> TRUE]
  <2>1. n \in Nat /\ chain \in Seq(ChainRow)
    BY LenProperties DEF TypeOK
  <2>2. new \in ChainRow /\ new.event = handler[h].event
    BY <1>1, <2>1 DEF HandlerRow, ChainRow
  <2>3. chain' = Append(chain, new)
    BY <1>3 DEF Extend
  <2> HIDE DEF new
  <2>4. /\ Len(chain') = n + 1 /\ chain'[n + 1] = new
        /\ \A i \in 1 .. n : chain'[i] = chain[i]
    BY <2>1, <2>2, <2>3, AppendProperties
  <2>5. \A i \in 1 .. n : i \in 1 .. n + 1
    BY <2>1
  <2>6. n + 1 \in 1 .. Len(chain')
    BY <2>1, <2>4
  <2> QED
    BY <2>2, <2>4, <2>5, <2>6 DEF Chained
<1> QED
  BY <1>2, <1>3

(* Every step keeps what is marked, or about to be, backed by the chain. *)
LEMMA NextBacked ==
  ASSUME ~Recovery, TypeOK, TypeOK', Backed, [Next]_vars
  PROVE  Backed'
<1> USE DEF outboxVars, serviceVars
<1>1. ASSUME UNCHANGED <<chain, processed>>,
             \A q \in Pollers : Accepted(q)' => Accepted(q) /\ current'[q] = current[q]
      PROVE  Backed'
  BY <1>1 DEF Backed, MarkedIsChained, Chained
<1>2. ASSUME NEW q \in Pollers, PollerStep(q) \/ FetchFails(q) \/ CrashPoller(q)
      PROVE  Backed'
  <2>1. CASE Tick(q)
    BY <1>1, <2>1 DEF Tick, Accepted
  <2>2. CASE Deliver(q)
    <3>1. \A r \in Pollers : Accepted(r)' => Accepted(r) /\ current'[r] = current[r]
      BY <2>2, NoneAssumption DEF Deliver, Accepted, TypeOK
    <3> QED
      BY <1>1, <2>2, <3>1 DEF Deliver
  <2>3. CASE Mark(q)
    <3>1. Chained' = Chained
      BY <2>3 DEF Mark, Chained
    <3>2. current[q] \in Chained
      BY <2>3 DEF Mark, Backed
    <3>3. MarkedIsChained'
      BY <2>3, <3>1, <3>2 DEF Mark, Backed, MarkedIsChained
    <3>4. \A r \in Pollers : Accepted(r)' => Accepted(r) /\ current'[r] = current[r]
      BY <2>3 DEF Mark, Accepted, TypeOK
    <3> QED
      BY <3>1, <3>3, <3>4 DEF Backed
  <2>4. CASE FetchFails(q)
    <3>1. \A r \in Pollers : Accepted(r)' => Accepted(r) /\ current'[r] = current[r]
      BY <2>4 DEF FetchFails, Accepted, TypeOK
    <3> QED
      BY <1>1, <2>4, <3>1 DEF FetchFails
  <2>5. CASE CrashPoller(q)
    <3>1. \A r \in Pollers : Accepted(r)' => Accepted(r) /\ current'[r] = current[r]
      BY <2>5 DEF CrashPoller, Accepted, TypeOK
    <3> QED
      BY <1>1, <2>5, <3>1 DEF CrashPoller
  <2> QED
    BY <1>2, <2>1, <2>2, <2>3, <2>4, <2>5 DEF PollerStep
<1>3. ASSUME NEW h \in Handlers, HandlerStep(h)
      PROVE  Backed'
  <2>0. handler[h] # None
    BY <1>3 DEF HandlerStep, Admit, Acquire, ReadTail, Extend, InPhase
  <2>1. ASSUME UNCHANGED <<chain, processed, pollerVars>>
        PROVE  Backed'
    BY <1>1, <2>1 DEF Accepted, pollerVars
  <2>2. CASE Admit(h)
    <3>1. CASE Reply(h, FALSE)
      <4>1. Chained' = Chained
        BY <2>2 DEF Admit, Chained
      <4> QED
        BY <2>0, <2>2, <3>1, <4>1, ReplyIsBacked DEF Admit
    <3>2. CASE UNCHANGED pollerVars
      BY <2>1, <2>2, <3>2 DEF Admit
    <3> QED
      BY <2>2, <3>1, <3>2 DEF Admit
  <2>3. CASE Acquire(h)
    BY <2>1, <2>3 DEF Acquire
  <2>4. CASE ReadTail(h)
    <3>1. Chained' = Chained
      BY <2>4 DEF ReadTail, Chained
    <3>2. CASE handler[h].event \in Chained
      BY <2>0, <2>4, <3>1, <3>2, ReplyIsBacked DEF ReadTail
    <3>3. CASE handler[h].event \notin Chained
      BY <2>1, <2>4, <3>3 DEF ReadTail
    <3> QED
      BY <3>2, <3>3
  <2>5. CASE Extend(h)
    BY <2>0, <2>5, ExtendGrows, ReplyIsBacked DEF Extend
  <2> QED
    BY <1>3, <2>2, <2>3, <2>4, <2>5 DEF HandlerStep
<1>4. CASE CrashAudit
  <2>1. \A r \in Pollers : Accepted(r)' => Accepted(r) /\ current'[r] = current[r]
    BY <1>4 DEF CrashAudit, Die, Accepted
  <2> QED
    BY <1>1, <1>4, <2>1 DEF CrashAudit
<1>5. CASE ChangeRow
  <2>1. Chained' = Chained
    BY <1>5, ChangedRowType DEF Chained
  <2> QED
    BY <1>5, <2>1 DEF ChangeRow, Backed, MarkedIsChained, Accepted, pollerVars
<1>6. CASE \/ \E e \in Events : CommitRow(e)
           \/ FixDeployed \/ Boot \/ NightlyWalk \/ FreezeWrites \/ UNCHANGED vars
  BY <1>1, <1>6 DEF CommitRow, FixDeployed, Boot, NightlyWalk, FreezeWrites, vars, pollerVars, Accepted
<1>7. ~Restore
  BY DEF Restore
<1> QED
  BY <1>2, <1>3, <1>4, <1>5, <1>6, <1>7 DEF Next

(* While audit_db is not restored from a dump, processed_at is set only for rows   *)
(* the chain holds, whatever answers and processes are lost (poller.ts:109-114).  *)
THEOREM AtLeastOnce ==
  ASSUME ~Recovery
  PROVE  Spec => []MarkedIsChained
<1>1. Init => Backed
  BY DEF Init, Backed, MarkedIsChained, Accepted
<1>2. TypeOK /\ Backed /\ [Next]_vars => (TypeOK /\ Backed)'
  BY NextType, NextBacked
<1>3. Backed => MarkedIsChained
  BY DEF Backed
<1> QED
  BY <1>1, <1>2, <1>3, InitType, PTL DEF Spec

-----------------------------------------------------------------------------
(* A break that was acted upon *)

(* What a nightly run condemned stays broken, and the writes stay frozen until the *)
(* process dies, with every request it has.                                       *)
BreakKept ==
  /\ \A i \in condemned : i \in 1 .. Len(chain) /\ ~chain[i].intact
  /\ condemned # {} => frozen \/ ~up
  /\ ~up => \A h \in Handlers : handler[h] = None

(* A step that keeps the broken rows and what the service knows of them. *)
LEMMA BreakStays ==
  ASSUME BreakKept, UNCHANGED <<frozen, up, condemned>>,
         \A i \in condemned : i \in 1 .. Len(chain') /\ ~chain'[i].intact,
         up \/ UNCHANGED handler
  PROVE  BreakKept'
  BY DEF BreakKept

(* Rows are appended, broken or cut off with the whole verdict, never mended. *)
LEMMA NextBreakKept ==
  ASSUME TypeOK, BreakKept, [Next]_vars
  PROVE  BreakKept'
<1> USE DEF outboxVars, serviceVars
<1>1. ASSUME UNCHANGED <<chain, serviceVars>>, up \/ UNCHANGED handler
      PROVE  BreakKept'
  BY <1>1, BreakStays DEF BreakKept
<1>2. ASSUME NEW q \in Pollers, PollerStep(q) \/ FetchFails(q) \/ CrashPoller(q)
      PROVE  BreakKept'
  BY <1>1, <1>2 DEF PollerStep, Tick, Deliver, Mark, FetchFails, CrashPoller
<1>3. ASSUME NEW h \in Handlers, HandlerStep(h)
      PROVE  BreakKept'
  <2>1. up
    BY <1>3 DEF HandlerStep, Admit, Acquire, ReadTail, Extend, InPhase, BreakKept
  <2>2. CASE Extend(h) /\ handler[h].event \notin Chained
    <3> DEFINE new == [event |-> handler[h].event, prevHash |-> handler[h].tail,
                       thisHash |-> Len(chain) + 1, intact |-> TRUE]
    <3>1. /\ chain \in Seq(ChainRow) /\ Len(chain) \in Nat /\ handler[h] \in HandlerRow
      BY <2>2, LenProperties DEF Extend, InPhase, TypeOK
    <3>2. new \in ChainRow
      BY <3>1 DEF HandlerRow, ChainRow
    <3>3. chain' = Append(chain, new) /\ UNCHANGED serviceVars
      BY <2>2 DEF Extend
    <3> HIDE DEF new
    <3>4. Len(chain') = Len(chain) + 1 /\ \A i \in 1 .. Len(chain) : chain'[i] = chain[i]
      BY <3>1, <3>2, <3>3, AppendProperties
    <3>5. \A i \in condemned : i \in 1 .. Len(chain') /\ ~chain'[i].intact
      BY <3>1, <3>4 DEF BreakKept
    <3> QED
      BY <2>1, <3>3, <3>5, BreakStays
  <2>3. CASE ~(Extend(h) /\ handler[h].event \notin Chained)
    <3>1. UNCHANGED <<chain, serviceVars>>
      BY <1>3, <2>3 DEF HandlerStep, Admit, Acquire, ReadTail, Extend
    <3> QED
      BY <1>1, <2>1, <3>1
  <2> QED
    BY <2>2, <2>3
<1>4. CASE CrashAudit
  BY <1>4 DEF CrashAudit, Die, BreakKept
<1>5. CASE Boot
  <2>1. condemned = {}
    BY <1>5 DEF Boot, Verifies, BreakKept
  <2> QED
    BY <1>5, <2>1 DEF Boot, BreakKept
<1>6. CASE FreezeWrites
  BY <1>6 DEF FreezeWrites, BreakKept
<1>7. CASE ChangeRow
  <2>1. PICK i \in 1 .. Len(chain) :
          chain' = [chain EXCEPT ![i] = [chain[i] EXCEPT !.intact = FALSE]]
    BY <1>7 DEF ChangeRow
  <2> DEFINE row == [chain[i] EXCEPT !.intact = FALSE]
  <2>2. chain \in Seq(ChainRow) /\ chain[i] \in ChainRow
    BY ElementOfSeq DEF TypeOK
  <2>3. row \in ChainRow /\ ~row.intact
    BY <2>2 DEF ChainRow
  <2>4. chain' = [chain EXCEPT ![i] = row]
    BY <2>1
  <2> HIDE DEF row
  <2>5. /\ Len(chain') = Len(chain) /\ ~chain'[i].intact
        /\ \A j \in 1 .. Len(chain) : j # i => chain'[j] = chain[j]
    BY <2>2, <2>3, <2>4, ExceptSeq
  <2>6. \A j \in condemned : j \in 1 .. Len(chain') /\ ~chain'[j].intact
    BY <2>5 DEF BreakKept
  <2> QED
    BY <1>7, <2>6, BreakStays DEF ChangeRow
<1>8. CASE Restore
  BY <1>8 DEF Restore, Die, BreakKept
<1>9. CASE \/ \E e \in Events : CommitRow(e)
           \/ FixDeployed \/ UNCHANGED vars
  BY <1>1, <1>9 DEF CommitRow, FixDeployed, vars
<1>10. CASE NightlyWalk
  BY <1>10 DEF NightlyWalk, BreakKept
<1> QED
  BY <1>2, <1>3, <1>4, <1>5, <1>6, <1>7, <1>8, <1>9, <1>10 DEF Next

(* No request is let in while a row that a nightly run acted upon is still broken:  *)
(* the freeze does not survive a restart, and the walk at startup does not let      *)
(* such a chain serve (chain.ts:18-24, server.ts:13-28).                            *)
THEOREM BreaksAreNotForgotten == Spec => BreakIsNotForgotten
<1>1. Init => BreakKept
  BY DEF Init, BreakKept
<1>2. TypeOK /\ BreakKept /\ [Next]_vars => (TypeOK /\ BreakKept)'
  BY NextType, NextBreakKept
<1>3. TypeOK /\ BreakKept /\ [Next]_vars =>
        \A h \in Handlers :
          (InPhase(h, "received") /\ InPhase(h, "admitted")')
            => \A i \in condemned \cap (1 .. Len(chain)) : chain[i].intact
  <2> SUFFICES ASSUME TypeOK, BreakKept, [Next]_vars, NEW h \in Handlers,
                      InPhase(h, "received"), InPhase(h, "admitted")'
               PROVE  condemned = {}
    OBVIOUS
  <2>1. handler'[h] # handler[h] /\ handler'[h] # None /\ handler'[h].phase = "admitted"
    BY DEF InPhase
  <2>2. up
    BY DEF BreakKept, InPhase
  <2>3. ASSUME NEW g \in Handlers, HandlerStep(g)  PROVE ~frozen
    <3>1. CASE g = h
      <4>1. Admit(h)
        BY <2>3, <3>1 DEF HandlerStep, Acquire, ReadTail, Extend, InPhase
      <4>2. Reply(h, FALSE) => handler'[h] = None
        BY DEF Reply, Freed, TypeOK
      <4> QED
        BY <2>1, <4>1, <4>2 DEF Admit
    <3>2. CASE g # h
      BY <2>1, <2>3, <3>2 DEF HandlerStep, Admit, Acquire, ReadTail, Extend, Goto, Reply,
                              Freed, TypeOK
    <3> QED
      BY <3>1, <3>2
  <2>4. ASSUME NEW q \in Pollers, PollerStep(q) \/ FetchFails(q) \/ CrashPoller(q)
        PROVE  FALSE
    <3>1. UNCHANGED handler => FALSE
      BY <2>1
    <3>2. CASE Deliver(q)
      <4>1. PICK e \in batch[q], g \in Handlers :
              handler[g] = None /\ handler' = [handler EXCEPT ![g] =
                                     [phase |-> "received", event |-> e, tail |-> Genesis]]
        BY <2>1, <3>2 DEF Deliver
      <4>2. g # h
        BY <4>1 DEF InPhase
      <4> QED
        BY <2>1, <4>1, <4>2 DEF TypeOK
    <3> QED
      BY <2>4, <3>1, <3>2 DEF PollerStep, Tick, Mark, FetchFails, CrashPoller, outboxVars
  <2>5. ~CrashAudit /\ ~Restore
    BY <2>1 DEF CrashAudit, Restore, Die
  <2>6. UNCHANGED handler => FALSE
    BY <2>1
  <2>7. ~frozen
    BY <2>3, <2>4, <2>5, <2>6 DEF Next, CommitRow, FixDeployed, Boot, NightlyWalk, FreezeWrites,
                                  ChangeRow, vars
  <2> QED
    BY <2>2, <2>7 DEF BreakKept
<1> QED
  BY <1>1, <1>2, <1>3, InitType, PTL DEF Spec, BreakIsNotForgotten

-----------------------------------------------------------------------------
(* Delivery is an append-only log *)

Sealed == [i \in 1 .. Len(chain) |-> chain[i].event]

EventsIn(c) == [i \in 1 .. Len(c) |-> c[i].event]

(* The log of a chain is a sequence of its events. *)
LEMMA EventsType ==
  ASSUME NEW c \in Seq(ChainRow)
  PROVE  /\ EventsIn(c) \in Seq(Events) /\ Len(EventsIn(c)) = Len(c) /\ Len(c) \in Nat
         /\ \A i \in 1 .. Len(c) : EventsIn(c)[i] = c[i].event
<1>1. Len(c) \in Nat
  BY LenProperties
<1>2. \A i \in 1 .. Len(c) : c[i].event \in Events
  <2> TAKE i \in 1 .. Len(c)
  <2>1. c[i] \in ChainRow
    BY <1>1, ElementOfSeq
  <2> QED
    BY <2>1 DEF ChainRow
<1>3. EventsIn(c) \in [1 .. Len(c) -> Events]
  BY <1>2 DEF EventsIn
<1>4. EventsIn(c) \in Seq(Events) /\ Len(EventsIn(c)) = Len(c)
  BY <1>1, <1>3, LenProperties, SeqDef
<1> QED
  BY <1>1, <1>4 DEF EventsIn

(* The log of the stored chain, and what it holds. *)
LEMMA SealedType ==
  ASSUME TypeOK
  PROVE  /\ Sealed \in Seq(Events) /\ Len(Sealed) = Len(chain) /\ Len(chain) \in Nat
         /\ Chained = {Sealed[i] : i \in 1 .. Len(Sealed)}
<1>1. Sealed = EventsIn(chain) /\ chain \in Seq(ChainRow)
  BY DEF Sealed, EventsIn, TypeOK
<1> HIDE DEF Sealed
<1> QED
  BY <1>1, EventsType DEF Chained

(* Appending to the chain appends its event to the log. *)
LEMMA ExtendSeals ==
  ASSUME TypeOK, TypeOK', NEW h \in Handlers, Extend(h), handler[h].event \notin Chained
  PROVE  Sealed' = Append(Sealed, handler[h].event)
<1> DEFINE n == Len(chain)
           e == handler[h].event
           new == [event |-> e, prevHash |-> handler[h].tail,
                   thisHash |-> n + 1, intact |-> TRUE]
<1>1. n \in Nat /\ chain \in Seq(ChainRow) /\ handler[h] \in HandlerRow
  BY LenProperties DEF TypeOK, Extend, InPhase
<1>2. new \in ChainRow /\ new.event = e /\ e \in Events
  BY <1>1 DEF HandlerRow, ChainRow
<1>3. chain' = Append(chain, new)
  BY DEF Extend
<1> HIDE DEF new
<1>4. /\ Len(chain') = n + 1 /\ chain'[n + 1] = new
      /\ \A i \in 1 .. n : chain'[i] = chain[i]
  BY <1>1, <1>2, <1>3, AppendProperties
<1>5. /\ Sealed' \in Seq(Events) /\ Len(Sealed') = n + 1
      /\ \A i \in 1 .. n + 1 : Sealed'[i] = chain'[i].event
  <2>1. Sealed' = EventsIn(chain') /\ chain' \in Seq(ChainRow)
    BY DEF Sealed, EventsIn, TypeOK
  <2> QED
    BY <1>4, <2>1, EventsType
<1>6. /\ Sealed \in Seq(Events) /\ Len(Sealed) = n
      /\ \A i \in 1 .. n : Sealed[i] = chain[i].event
  <2>1. Sealed = EventsIn(chain)
    BY DEF Sealed, EventsIn
  <2> QED
    BY <1>1, <2>1, EventsType
<1> HIDE DEF e
<1>7. /\ Append(Sealed, e) \in Seq(Events) /\ Len(Append(Sealed, e)) = n + 1
      /\ \A i \in 1 .. n : Append(Sealed, e)[i] = Sealed[i]
      /\ Append(Sealed, e)[n + 1] = e
  BY <1>2, <1>6, AppendProperties
<1> HIDE DEF n
<1>8. \A i \in 1 .. n + 1 : Sealed'[i] = Append(Sealed, e)[i]
  <2> TAKE i \in 1 .. n + 1
  <2>1. i \in 1 .. n \/ i = n + 1
    BY <1>1
  <2> QED
    BY <1>2, <1>4, <1>5, <1>6, <1>7, <2>1
<1>9. Sealed' = Append(Sealed, e)
  BY <1>5, <1>7, <1>8, SeqEqual
<1> QED
  BY <1>9 DEF e

(* A step of the log, as the runs' refinement maps it. *)
LogStep ==
  \/ \E e \in Events : \/ e \notin Chained /\ Sealed' = Append(Sealed, e) /\ UNCHANGED processed
                       \/ e \in Chained /\ processed' = processed \cup {e} /\ UNCHANGED Sealed
  \/ UNCHANGED <<Sealed, processed>>

(* Every step of delivery seals one new event, acknowledges a sealed one, or does  *)
(* neither.                                                                     *)
LEMMA NextLogs ==
  ASSUME ~Recovery, TypeOK, TypeOK', Backed, [Next]_vars
  PROVE  LogStep
<1> USE DEF outboxVars, serviceVars
<1>1. ASSUME UNCHANGED <<chain, processed>>  PROVE LogStep
  <2>1. Sealed' = Sealed
    BY <1>1 DEF Sealed
  <2> QED
    BY <1>1, <2>1 DEF LogStep
<1>2. ASSUME NEW q \in Pollers, PollerStep(q) \/ FetchFails(q) \/ CrashPoller(q)
      PROVE  LogStep
  <2>1. CASE Mark(q)
    <3>1. current[q] \in Events /\ current[q] \in Chained
      BY <2>1 DEF Mark, Accepted, Backed, TypeOK
    <3>2. processed' = processed \cup {current[q]} /\ Sealed' = Sealed
      BY <2>1 DEF Mark, Sealed
    <3> QED
      BY <3>1, <3>2 DEF LogStep
  <2>2. CASE ~Mark(q)
    BY <1>1, <1>2, <2>2 DEF PollerStep, Tick, Deliver, FetchFails, CrashPoller
  <2> QED
    BY <2>1, <2>2
<1>3. ASSUME NEW h \in Handlers, HandlerStep(h)
      PROVE  LogStep
  <2>1. CASE Extend(h) /\ handler[h].event \notin Chained
    <3>1. handler[h].event \in Events
      BY <2>1 DEF Extend, InPhase, TypeOK, HandlerRow
    <3>2. Sealed' = Append(Sealed, handler[h].event)
      BY <2>1, ExtendSeals
    <3>3. UNCHANGED processed
      BY <2>1 DEF Extend
    <3> QED
      BY <2>1, <3>1, <3>2, <3>3 DEF LogStep
  <2>2. CASE ~(Extend(h) /\ handler[h].event \notin Chained)
    <3>1. UNCHANGED <<chain, processed>>
      BY <1>3, <2>2 DEF HandlerStep, Admit, Acquire, ReadTail, Extend
    <3> QED
      BY <1>1, <3>1
  <2> QED
    BY <2>1, <2>2
<1>4. CASE ChangeRow
  <2>1. Sealed' = Sealed
    BY <1>4, ChangedRowType DEF Sealed
  <2> QED
    BY <1>4, <2>1 DEF ChangeRow, LogStep
<1>5. CASE \/ \E e \in Events : CommitRow(e)
           \/ FixDeployed \/ CrashAudit \/ Boot \/ NightlyWalk \/ FreezeWrites \/ UNCHANGED vars
  BY <1>1, <1>5 DEF CommitRow, FixDeployed, CrashAudit, Die, Boot, NightlyWalk, FreezeWrites, vars
<1>6. ~Restore
  BY DEF Restore
<1> QED
  BY <1>2, <1>3, <1>4, <1>5, <1>6 DEF Next

(* Through races, crashes and redelivery the chain is an append-only log that      *)
(* seals every event at most once and backs every processed_at, while audit_db is  *)
(* not restored from a dump (chain.ts:94-166, poller.ts:81-119).                   *)
THEOREM DeliveryIsALog ==
  ASSUME ~Recovery
  PROVE  WorldSpec => ImplementsAuditLog
<1> DEFINE Delivers == world = "delivery" => TypeOK /\ Backed
<1>1. WorldInit => Delivers /\ Log!Init
  <2> SUFFICES ASSUME WorldInit  PROVE Delivers /\ Log!Init
    OBVIOUS
  <2>1. CASE world = "delivery" /\ Init
    <3>1. TypeOK /\ Backed
      BY <2>1, InitType DEF Init, Backed, MarkedIsChained, Accepted
    <3>2. chain = <<>> /\ processed = {}
      BY <2>1 DEF Init
    <3>3. Sealed = <<>>
      BY <3>1, <3>2, SealedType, EmptySeq
    <3> QED
      BY <2>1, <3>1, <3>2, <3>3 DEF Log!Init, Sealed
  <2>2. CASE world = "tampered"
    BY <2>2 DEF Log!Init
  <2> QED
    BY <2>1, <2>2 DEF WorldInit
<1> DEFINE LogVars == <<IF world = "delivery" THEN Sealed ELSE <<>>,
                       IF world = "delivery" THEN processed ELSE {}>>
<1>2. Delivers /\ [WorldNext]_<<vars, world>> => Delivers' /\ [Log!Next]_LogVars
  <2> SUFFICES ASSUME Delivers, [WorldNext]_<<vars, world>>
               PROVE  Delivers' /\ [Log!Next]_LogVars
    OBVIOUS
  <2>1. world' = world
    BY DEF WorldNext
  <2>2. CASE world = "delivery"
    <3>1. [Next]_vars
      BY <2>2 DEF WorldNext
    <3>2. TypeOK /\ Backed /\ TypeOK' /\ Backed'
      BY <2>2, <3>1, NextType, NextBacked
    <3>3. LogStep
      BY <3>1, <3>2, NextLogs
    <3>4. Chained = {Sealed[i] : i \in 1 .. Len(Sealed)}
      BY <3>2, SealedType
    <3>5. Log!Logged = Chained
      BY <2>2, <3>4 DEF Log!Logged, Sealed
    <3> QED
      BY <2>1, <2>2, <3>2, <3>3, <3>5 DEF LogStep, Log!Next, Log!Seal, Log!Acknowledge, Sealed
  <2>3. CASE world # "delivery"
    BY <2>1, <2>3
  <2> QED
    BY <2>2, <2>3
<1> QED
  BY <1>1, <1>2, PTL DEF WorldSpec, ImplementsAuditLog, Log!Spec, Sealed
=============================================================================
