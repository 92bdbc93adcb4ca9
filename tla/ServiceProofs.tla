------------------------------ MODULE ServiceProofs ------------------------------
(***************************************************************************)
(* The parts that stand beside the inspection itself, for any number of     *)
(* jobs, blobs, settings, accounts and pages: the exports, the media that   *)
(* is kept, the services that start, and the account a request acts for.    *)
(***************************************************************************)
EXTENDS Reports, Media, Boot, Session, SequenceTheorems, FiniteSetTheorems, TLAPS

(***************************************************************************)
(* The exports of Reports tell the truth, for any number of jobs, of         *)
(* inspections and of alterations: what a user downloads is what was signed, *)
(* and what was signed does not vouch for what was tampered with.           *)
(***************************************************************************)
Event == [of : Records, seals : {"as submitted", "altered"}, intact : BOOLEAN]

(* An event that was rewritten no longer has the hash it was sealed with. *)
TrailHolds == \A n \in DOMAIN trail : trail[n].seals = "altered" => ~trail[n].intact

Rewritten(i) == \E n \in DOMAIN trail : trail[n].of = i /\ ~trail[n].intact

Vouched(f) ==
  f.chain # "NOT_SHOWN" => \A i \in f.wrong : f.rows[i] # "VERIFIED" \/ f.chain = "BROKEN"

(* What a job knows of wrong data at each of its steps: that it is among the rows,  *)
(* then that it is marked or its event rewritten, then that the file shows it.     *)
DraftHolds(j) ==
  /\ step[j] = "asking" => request[j] \in Requests
  /\ step[j] = "comparing" => draft[j].wrong \subseteq DOMAIN draft[j].rows
  /\ step[j] = "verifying" =>
       \A i \in draft[j].wrong :
         i \in DOMAIN draft[j].rows /\ (draft[j].rows[i] = "VERIFIED" => Rewritten(i))
  /\ step[j] \in {"building", "storing", "recording"} => Vouched(draft[j])
  /\ step[j] = "recording" => blob[j] = draft[j]

RowHolds(j) ==
  /\ row[j].signed # NoFile => Vouched(row[j].signed)
  /\ step[j] \in Working => row[j].status = "PROCESSING"
  /\ row[j].status = "READY" => row[j].signed # NoFile /\ blob[j] = row[j].signed
  /\ saved[j] # NoFile => saved[j] = row[j].signed /\ row[j].status \in {"READY", "FAILED"}

JobHolds(j) == DraftHolds(j) /\ RowHolds(j)

ReportInvariant ==
  /\ ReportTypeOK
  /\ TrailHolds
  /\ \A j \in Exports : JobHolds(j)

-----------------------------------------------------------------------------
LEMMA FileFields ==
  \A f : f \in File <=> /\ f = [rows |-> f.rows, wrong |-> f.wrong, chain |-> f.chain]
                        /\ \E R \in SUBSET Records : f.rows \in [R -> Marks]
                        /\ f.wrong \in SUBSET Records
                        /\ f.chain \in {"VERIFIED", "BROKEN", "NOT_SHOWN"}
  BY DEF File

(* A job that a step leaves alone keeps what holds of it. *)
LEMMA JobKept ==
  ASSUME NEW k \in Exports, JobHolds(k), trail' = trail, request'[k] = request[k],
         step'[k] = step[k], draft'[k] = draft[k], row'[k] = row[k], blob'[k] = blob[k],
         saved'[k] = saved[k]
  PROVE  JobHolds(k)'
  BY DEF JobHolds, DraftHolds, RowHolds, Rewritten, Vouched

(* and one whose process is gone owes nothing more of its draft *)
LEMMA JobStopped ==
  ASSUME NEW k \in Exports, RowHolds(k), step'[k] \in {"none", "failing"}, row'[k] = row[k],
         blob'[k] = blob[k], saved'[k] = saved[k]
  PROVE  JobHolds(k)'
  BY DEF JobHolds, DraftHolds, RowHolds, Vouched, Working

LEMMA UpsetType ==
  ASSUME ReportTypeOK, upsets' = upsets \/ Upset
  PROVE  upsets' \in 0 .. MaxUpsets
<1>1. upsets \in 0 .. MaxUpsets
  BY DEF ReportTypeOK
<1> QED
  BY <1>1, UpsetAssumption DEF Upset

LEMMA ReportsInitially == ReportInit => ReportInvariant
<1> SUFFICES ASSUME ReportInit PROVE ReportInvariant
  OBVIOUS
<1> USE DEF ReportInit
<1>1. Blank \in File
  <2>1. <<>> \in [1 .. 0 -> Marks]
    BY EmptySeq, LenProperties
  <2>2. 1 .. 0 = {}
    OBVIOUS
  <2> QED
    BY <2>1, <2>2, FileFields DEF Blank
<1>2. trail \in Seq(Event) /\ DOMAIN trail = {}
  OBVIOUS
<1>3. ReportTypeOK
  BY <1>1, <1>2, UpsetAssumption DEF ReportTypeOK, Unwritten, Statuses, Event
<1>4. \A j \in Exports : JobHolds(j)
  BY DEF JobHolds, DraftHolds, RowHolds, Unwritten, Working
<1> QED
  BY <1>2, <1>3, <1>4 DEF ReportInvariant, TrailHolds

(* Rows of the stores change only the events, and a rewritten one stays rewritten. *)
LEMMA StoreStep ==
  ASSUME ReportInvariant,
         \/ \E i \in Records : Submitted(i) \/ Sealed(i) \/ AlterRecord(i)
         \/ \E n \in DOMAIN trail : RewriteEvent(n)
  PROVE  ReportInvariant'
<1> USE DEF ReportInvariant
<1>1. UNCHANGED <<request, step, draft, row, blob, lost, listed, saved>>
  BY DEF Submitted, Sealed, AlterRecord, RewriteEvent, exportVars, screenVars
<1>2. upsets' \in 0 .. MaxUpsets
  BY UpsetType DEF Submitted, Sealed, AlterRecord, RewriteEvent
<1>3. record' \in [Records -> {"absent", "as submitted", "altered"}]
  BY DEF Submitted, Sealed, AlterRecord, RewriteEvent, ReportTypeOK
<1>4. trail \in Seq(Event)
  BY DEF ReportTypeOK, Event
<1> DEFINE Kept == /\ trail' \in Seq(Event) /\ TrailHolds'
                   /\ \A k : Rewritten(k) => Rewritten(k)'
<1>5. Kept
  <2>1. CASE UNCHANGED trail
    BY <1>4, <2>1 DEF TrailHolds, Rewritten
  <2>2. ASSUME NEW i \in Records, Sealed(i)
        PROVE  Kept
    <3> DEFINE e == [of |-> i, seals |-> "as submitted", intact |-> TRUE]
    <3>1. e \in Event /\ trail' = Append(trail, e)
      BY <2>2 DEF Sealed, Event
    <3> HIDE DEF e
    <3>2. /\ trail' \in Seq(Event) /\ Len(trail') = Len(trail) + 1
          /\ trail'[Len(trail) + 1] = e
          /\ \A n \in 1 .. Len(trail) : trail'[n] = trail[n]
      BY <1>4, <3>1, AppendProperties
    <3>3. /\ DOMAIN trail = 1 .. Len(trail) /\ DOMAIN trail' = 1 .. Len(trail')
          /\ Len(trail) \in Nat
      BY <1>4, <3>2, LenProperties
    <3>4. e.seals = "as submitted"
      BY DEF e
    <3>7. \A n \in DOMAIN trail' : n = Len(trail) + 1 \/ (n \in DOMAIN trail /\ trail'[n] = trail[n])
      BY <3>2, <3>3
    <3>5. TrailHolds'
      BY <3>2, <3>4, <3>7 DEF TrailHolds
    <3>6. \A k : Rewritten(k) => Rewritten(k)'
      BY <3>2, <3>3 DEF Rewritten
    <3> QED
      BY <3>2, <3>5, <3>6
  <2>3. ASSUME NEW n \in DOMAIN trail, RewriteEvent(n)
        PROVE  Kept
    <3>1. trail' = [trail EXCEPT ![n] = [trail[n] EXCEPT !.seals = "altered", !.intact = FALSE]]
      BY <2>3 DEF RewriteEvent
    <3>2. trail[n] \in Event
      BY <1>4, ElementOfSeq, LenProperties
    <3> DEFINE e == [trail[n] EXCEPT !.seals = "altered", !.intact = FALSE]
    <3>3. e \in Event /\ e.of = trail[n].of /\ e.seals = "altered" /\ e.intact = FALSE
      BY <3>2 DEF Event
    <3> HIDE DEF e
    <3>4. trail' \in Seq(Event)
      BY <1>4, <3>1, <3>3, ExceptSeq DEF e
    <3>5. /\ DOMAIN trail' = DOMAIN trail
          /\ \A m \in DOMAIN trail : trail'[m] = IF m = n THEN e ELSE trail[m]
      BY <1>4, <3>1, LenProperties DEF e
    <3>6. TrailHolds'
      BY <3>3, <3>5 DEF TrailHolds
    <3>7. \A k : Rewritten(k) => Rewritten(k)'
      BY <3>3, <3>5 DEF Rewritten
    <3> QED
      BY <3>4, <3>6, <3>7
  <2> QED
    BY <2>1, <2>2, <2>3 DEF Submitted, AlterRecord
<1>6. ReportTypeOK'
  BY <1>1, <1>2, <1>3, <1>5 DEF ReportTypeOK, Event
<1>7. \A j \in Exports : JobHolds(j)'
  BY <1>1, <1>5 DEF JobHolds, DraftHolds, RowHolds, Vouched
<1> QED
  BY <1>5, <1>6, <1>7

-----------------------------------------------------------------------------
(* generateReport.  A step of one job leaves the stores and the other jobs alone.   *)
LEMMA OneJob ==
  ASSUME ReportInvariant, NEW j \in Exports, ReportTypeOK', JobHolds(j)', trail' = trail,
         \A k \in Exports : k # j => /\ request'[k] = request[k]
                                     /\ step'[k] = step[k] /\ draft'[k] = draft[k]
                                     /\ row'[k] = row[k] /\ blob'[k] = blob[k]
                                     /\ saved'[k] = saved[k]
  PROVE  ReportInvariant'
<1>1. \A k \in Exports : JobHolds(k)'
  BY JobKept DEF ReportInvariant
<1> QED
  BY <1>1 DEF ReportInvariant, TrailHolds

LEMMA RequestStep ==
  ASSUME ReportInvariant, NEW j \in Exports, NEW q \in Requests, RequestExport(j, q)
  PROVE  ReportInvariant'
<1> USE DEF ReportInvariant
<1>1. /\ row' = [row EXCEPT ![j] = [row[j] EXCEPT !.status = "PROCESSING"]]
      /\ step' = [step EXCEPT ![j] = "asking"] /\ row[j].status = "ABSENT"
      /\ request' = [request EXCEPT ![j] = q]
      /\ UNCHANGED <<record, trail, draft, blob, lost, listed, saved, upsets>>
  BY DEF RequestExport, storeVars, screenVars
<1>2. step' \in [Exports -> Working \cup {"none", "failing"}] /\ step'[j] = "asking" /\ request'[j] = q
  BY <1>1 DEF ReportTypeOK, Working
<1>3. /\ row' \in [Exports -> [status : Statuses, signed : File \cup {NoFile}]]
      /\ row'[j].status = "PROCESSING" /\ row'[j].signed = row[j].signed
  BY <1>1 DEF ReportTypeOK, Statuses
<1>4. ReportTypeOK'
  BY <1>1, <1>2, <1>3 DEF ReportTypeOK
<1>5. JobHolds(j)'
  BY <1>1, <1>2, <1>3 DEF JobHolds, DraftHolds, RowHolds, Vouched, Working
<1> QED
  BY <1>1, <1>4, <1>5, OneJob DEF ReportTypeOK

(* A step of a job that works on its draft only. *)
LEMMA DraftStep ==
  ASSUME ReportInvariant, NEW j \in Exports, NEW from \in Working, NEW to \in Working,
         NEW d \in File, Goes(j, from, to), draft' = [draft EXCEPT ![j] = d],
         UNCHANGED <<storeVars, request, row, blob, lost, screenVars, upsets>>,
         DraftHolds(j)'
  PROVE  ReportInvariant'
<1> USE DEF ReportInvariant
<1>1. /\ step' = [step EXCEPT ![j] = to] /\ step[j] = from
      /\ UNCHANGED <<record, trail, request, row, blob, lost, listed, saved, upsets>>
  BY DEF Goes, storeVars, screenVars
<1>2. step' \in [Exports -> Working \cup {"none", "failing"}] /\ step'[j] = to
  BY <1>1 DEF ReportTypeOK
<1>3. draft' \in [Exports -> File]
  BY DEF ReportTypeOK
<1>4. ReportTypeOK'
  BY <1>1, <1>2, <1>3 DEF ReportTypeOK
<1>5. JobHolds(j)'
  BY <1>1, <1>2 DEF JobHolds, RowHolds, Vouched
<1> QED
  BY <1>1, <1>4, <1>5, OneJob DEF ReportTypeOK

LEMMA AskStep ==
  ASSUME ReportInvariant, NEW j \in Exports, AskCoreApi(j)
  PROVE  ReportInvariant'
<1> DEFINE d == [rows  |-> [i \in ReportData(j) |-> "NO_AUDIT_EVENT"],
                 wrong |-> {i \in ReportData(j) : record[i] = "altered"},
                 chain |-> "VERIFIED"]
<1>1. /\ Goes(j, "asking", "comparing") /\ draft' = [draft EXCEPT ![j] = d]
      /\ UNCHANGED <<storeVars, request, row, blob, lost, screenVars, upsets>>
  BY DEF AskCoreApi
<1>2. d \in File
  <2>1. request[j] \in Requests
    BY <1>1 DEF Goes, ReportInvariant, JobHolds, DraftHolds
  <2>2. ReportData(j) \in SUBSET Records
    BY <2>1, UpsetAssumption DEF ReportData, Requests
  <2> QED
    BY <2>2, FileFields DEF Marks
<1>3. d.wrong \subseteq DOMAIN d.rows
  OBVIOUS
<1> HIDE DEF d
<1>4. step'[j] = "comparing" /\ draft'[j] = d
  BY <1>1 DEF Goes, ReportInvariant, ReportTypeOK
<1>5. DraftHolds(j)'
  BY <1>3, <1>4 DEF DraftHolds
<1> QED
  BY <1>1, <1>2, <1>5, DraftStep DEF Working

(* Wrong data gets VERIFIED only from a sealed event that was rewritten to fit it.   *)
LEMMA CompareStep ==
  ASSUME ReportInvariant, NEW j \in Exports, CompareDigests(j)
  PROVE  ReportInvariant'
<1> DEFINE old == draft[j]
           d == [old EXCEPT !.rows = [i \in DOMAIN old.rows |-> MarkOf(j, i)]]
<1>1. /\ Goes(j, "comparing", "verifying") /\ draft' = [draft EXCEPT ![j] = d]
      /\ UNCHANGED <<storeVars, request, row, blob, lost, screenVars, upsets>>
  BY DEF CompareDigests
<1>2. old \in File /\ old.wrong \subseteq DOMAIN old.rows
  BY <1>1 DEF Goes, ReportInvariant, ReportTypeOK, JobHolds, DraftHolds
<1>3. PICK R \in SUBSET Records : DOMAIN old.rows = R
  BY <1>2, FileFields
<1>4. \A i : MarkOf(j, i) \in Marks
  BY DEF MarkOf, Marks
<1>5. d.wrong = old.wrong /\ d.rows = [i \in DOMAIN old.rows |-> MarkOf(j, i)] /\ d \in File
  <2>1. old = [rows |-> old.rows, wrong |-> old.wrong, chain |-> old.chain]
    BY <1>2, FileFields
  <2>2. d = [rows |-> [i \in DOMAIN old.rows |-> MarkOf(j, i)], wrong |-> old.wrong,
             chain |-> old.chain]
    BY <2>1
  <2>3. [i \in DOMAIN old.rows |-> MarkOf(j, i)] \in [R -> Marks]
    BY <1>3, <1>4
  <2> HIDE DEF d
  <2> QED
    BY <1>2, <2>2, <2>3, FileFields
<1>6. ASSUME NEW i \in old.wrong
      PROVE  i \in DOMAIN d.rows /\ (d.rows[i] = "VERIFIED" => Rewritten(i))
  <2>1. i \in DOMAIN d.rows /\ d.rows[i] = MarkOf(j, i)
    BY <1>2, <1>5, <1>6
  <2>2. ASSUME MarkOf(j, i) = "VERIFIED" PROVE Rewritten(i)
    <3>1. EventsOf(i) # {} /\ \A n \in EventsOf(i) : trail[n].seals = "altered"
      BY <1>6, <2>2 DEF MarkOf
    <3>2. PICK n \in DOMAIN trail : trail[n].of = i /\ trail[n].seals = "altered"
      BY <3>1 DEF EventsOf
    <3> QED
      BY <3>2 DEF Rewritten, ReportInvariant, TrailHolds
  <2> QED
    BY <2>1, <2>2
<1>7. step'[j] = "verifying" /\ draft'[j] = d /\ trail' = trail
  BY <1>1 DEF Goes, ReportInvariant, ReportTypeOK, storeVars
<1> HIDE DEF d, old
<1>8. DraftHolds(j)'
  BY <1>5, <1>6, <1>7 DEF DraftHolds, Rewritten
<1> QED
  BY <1>1, <1>5, <1>8, DraftStep DEF Working

(* and then the segment of the chain that ends with that event is broken. *)
LEMMA VerifyStep ==
  ASSUME ReportInvariant, NEW j \in Exports, VerifySegment(j)
  PROVE  ReportInvariant'
<1> DEFINE old == draft[j]
           matched == {i \in DOMAIN old.rows : old.rows[i] # "NO_AUDIT_EVENT"}
           newest == {n \in DOMAIN trail : trail[n].of \in matched}
           broken == \E n \in newest : \E m \in 1 .. n : ~trail[m].intact
           d == [old EXCEPT !.chain = IF broken THEN "BROKEN" ELSE "VERIFIED"]
<1>1. /\ Goes(j, "verifying", "building") /\ draft' = [draft EXCEPT ![j] = d]
      /\ UNCHANGED <<storeVars, request, row, blob, lost, screenVars, upsets>>
  BY DEF VerifySegment
<1>2. /\ old \in File
      /\ \A i \in old.wrong :
           i \in DOMAIN old.rows /\ (old.rows[i] = "VERIFIED" => Rewritten(i))
  BY <1>1 DEF Goes, ReportInvariant, ReportTypeOK, JobHolds, DraftHolds
<1>3. /\ d.wrong = old.wrong /\ d.rows = old.rows /\ d \in File
      /\ d.chain = IF broken THEN "BROKEN" ELSE "VERIFIED"
  <2>1. old = [rows |-> old.rows, wrong |-> old.wrong, chain |-> old.chain]
    BY <1>2, FileFields
  <2>2. d = [rows |-> old.rows, wrong |-> old.wrong,
             chain |-> IF broken THEN "BROKEN" ELSE "VERIFIED"]
    BY <2>1
  <2> HIDE DEF d, broken
  <2> QED
    BY <1>2, <2>2, FileFields
<1>4. ASSUME NEW i \in old.wrong, old.rows[i] = "VERIFIED"
      PROVE  broken
  <2>1. PICK n \in DOMAIN trail : trail[n].of = i /\ ~trail[n].intact
    BY <1>2, <1>4 DEF Rewritten
  <2>2. i \in matched
    BY <1>2, <1>4
  <2>3. n \in 1 .. n
    <3>1. trail \in Seq(Event)
      BY DEF ReportInvariant, ReportTypeOK, Event
    <3>2. n \in 1 .. Len(trail) /\ Len(trail) \in Nat
      BY <3>1, LenProperties
    <3> QED
      BY <3>2
  <2> QED
    BY <2>1, <2>2, <2>3
<1>5. step'[j] = "building" /\ draft'[j] = d
  BY <1>1 DEF Goes, ReportInvariant, ReportTypeOK
<1> HIDE DEF d, old, broken
<1>6. DraftHolds(j)'
  BY <1>3, <1>4, <1>5 DEF DraftHolds, Vouched
<1> QED
  BY <1>1, <1>3, <1>6, DraftStep DEF Working

LEMMA BuildStep ==
  ASSUME ReportInvariant, NEW j \in Exports, Build(j)
  PROVE  ReportInvariant'
<1> DEFINE old == draft[j]
           c == IF request[j].format = "CSV" THEN CsvChain(j) ELSE PdfChain(j)
           d == [old EXCEPT !.chain = c]
<1>1. /\ Goes(j, "building", "storing") /\ draft' = [draft EXCEPT ![j] = d]
      /\ UNCHANGED <<storeVars, request, row, blob, lost, screenVars, upsets>>
  BY DEF Build
<1>2. old \in File /\ Vouched(old)
  BY <1>1 DEF Goes, ReportInvariant, ReportTypeOK, JobHolds, DraftHolds
<1>3. c \in {old.chain, "NOT_SHOWN"}
  BY DEF CsvChain, PdfChain
<1>4. d.wrong = old.wrong /\ d.rows = old.rows /\ d.chain = c /\ d \in File
  <2>1. old = [rows |-> old.rows, wrong |-> old.wrong, chain |-> old.chain]
    BY <1>2, FileFields
  <2>2. d = [rows |-> old.rows, wrong |-> old.wrong, chain |-> c]
    BY <2>1
  <2> HIDE DEF d, c
  <2> QED
    BY <1>2, <1>3, <2>2, FileFields
<1>5. step'[j] = "storing" /\ draft'[j] = d
  BY <1>1 DEF Goes, ReportInvariant, ReportTypeOK
<1> HIDE DEF d, old, c
<1>6. DraftHolds(j)'
  BY <1>2, <1>3, <1>4, <1>5 DEF DraftHolds, Vouched
<1> QED
  BY <1>1, <1>4, <1>6, DraftStep DEF Working
LEMMA StoreBlobStep ==
  ASSUME ReportInvariant, NEW j \in Exports, Store(j)
  PROVE  ReportInvariant'
<1> USE DEF ReportInvariant
<1>1. /\ step[j] = "storing" /\ step' = [step EXCEPT ![j] = "recording"]
      /\ blob' = [blob EXCEPT ![j] = draft[j]]
      /\ UNCHANGED <<record, trail, request, draft, row, lost, listed, saved, upsets>>
  BY DEF Store, Goes, storeVars, screenVars
<1>2. step' \in [Exports -> Working \cup {"none", "failing"}] /\ step'[j] = "recording"
  BY <1>1 DEF ReportTypeOK, Working
<1>3. blob' \in [Exports -> File \cup {NoFile}] /\ blob'[j] = draft[j]
  BY <1>1 DEF ReportTypeOK
<1>4. ReportTypeOK'
  BY <1>1, <1>2, <1>3 DEF ReportTypeOK
<1>5. row[j].status = "PROCESSING"
  BY <1>1 DEF JobHolds, RowHolds, Working
<1>6. DraftHolds(j)'
  BY <1>1, <1>2, <1>3 DEF JobHolds, DraftHolds, Vouched
<1>7. RowHolds(j)'
  BY <1>1, <1>5 DEF JobHolds, RowHolds, Vouched
<1>8. JobHolds(j)'
  BY <1>6, <1>7 DEF JobHolds
<1> QED
  BY <1>1, <1>4, <1>8, OneJob DEF ReportTypeOK

(* The row says READY of the very file that was stored. *)
LEMMA ReadyRow ==
  ASSUME ReportInvariant, NEW j \in Exports, NEW to \in {"none", "failing"},
         step[j] = "recording", step' = [step EXCEPT ![j] = to],
         row' = [row EXCEPT ![j] = [status |-> "READY", signed |-> draft[j]]],
         upsets' \in 0 .. MaxUpsets,
         UNCHANGED <<storeVars, request, draft, blob, lost, screenVars>>
  PROVE  ReportInvariant'
<1> USE DEF ReportInvariant
<1>1. UNCHANGED <<record, trail, request, draft, blob, lost, listed, saved>>
  BY DEF storeVars, screenVars
<1>2. step' \in [Exports -> Working \cup {"none", "failing"}] /\ step'[j] = to
  BY DEF ReportTypeOK
<1>3. draft[j] \in File /\ draft[j] # NoFile
  <2>1. draft[j] \in File
    BY DEF ReportTypeOK
  <2> QED
    BY <2>1, NoFileAssumption
<1>4. /\ row' \in [Exports -> [status : Statuses, signed : File \cup {NoFile}]]
      /\ row'[j].status = "READY" /\ row'[j].signed = draft[j]
  <2>1. [status |-> "READY", signed |-> draft[j]] \in [status : Statuses, signed : File \cup {NoFile}]
    BY <1>3 DEF Statuses
  <2> QED
    BY <2>1 DEF ReportTypeOK
<1>5. ReportTypeOK'
  BY <1>1, <1>2, <1>4 DEF ReportTypeOK
<1>6. Vouched(draft[j]) /\ blob[j] = draft[j] /\ saved[j] = NoFile
  BY DEF JobHolds, DraftHolds, RowHolds, Working
<1>7. DraftHolds(j)'
  BY <1>2 DEF DraftHolds
<1>8. RowHolds(j)'
  BY <1>1, <1>2, <1>3, <1>4, <1>6 DEF RowHolds, Vouched, Working
<1>9. JobHolds(j)'
  BY <1>7, <1>8 DEF JobHolds
<1> QED
  BY <1>1, <1>5, <1>9, OneJob DEF ReportTypeOK

LEMMA RecordStep ==
  ASSUME ReportInvariant, NEW j \in Exports, Record(j)
  PROVE  ReportInvariant'
<1>1. upsets' \in 0 .. MaxUpsets
  BY UpsetType DEF Record, ReportInvariant
<1> QED
  BY <1>1, ReadyRow DEF Record, Goes

(* Whatever was done by the call that throws, the job goes on to its catch block.    *)
LEMMA ThrowStep ==
  ASSUME ReportInvariant, NEW j \in Exports, Throws(j)
  PROVE  ReportInvariant'
<1> USE DEF ReportInvariant
<1>1. /\ step[j] \in Working /\ step' = [step EXCEPT ![j] = "failing"]
      /\ UNCHANGED <<record, trail, request, draft, lost, listed, saved>>
      /\ UNCHANGED <<storeVars, screenVars>>
  BY DEF Throws, storeVars, screenVars
<1>2. upsets' \in 0 .. MaxUpsets
  BY UpsetType DEF Throws
<1>3. CASE /\ step[j] = "recording"
           /\ row' = [row EXCEPT ![j] = [status |-> "READY", signed |-> draft[j]]]
           /\ UNCHANGED blob
  BY <1>1, <1>2, <1>3, ReadyRow
<1>4. CASE blob' \in {blob, [blob EXCEPT ![j] = draft[j]]} /\ UNCHANGED row
  <2>1. step' \in [Exports -> Working \cup {"none", "failing"}] /\ step'[j] = "failing"
    BY <1>1 DEF ReportTypeOK
  <2>2. blob' \in [Exports -> File \cup {NoFile}]
    BY <1>4 DEF ReportTypeOK
  <2>3. ReportTypeOK'
    BY <1>1, <1>2, <1>4, <2>1, <2>2 DEF ReportTypeOK
  <2>4. row[j].status = "PROCESSING"
    BY <1>1 DEF JobHolds, RowHolds
  <2>5. JobHolds(j)'
    BY <1>1, <1>4, <2>1, <2>4 DEF JobHolds, DraftHolds, RowHolds, Vouched, Working
  <2> QED
    BY <1>1, <1>4, <2>3, <2>5, OneJob DEF ReportTypeOK
<1> QED
  BY <1>3, <1>4 DEF Throws

LEMMA CatchStep ==
  ASSUME ReportInvariant, NEW j \in Exports, RecordFailure(j) \/ FailureUnrecorded(j)
  PROVE  ReportInvariant'
<1> USE DEF ReportInvariant
<1>1. /\ step[j] = "failing" /\ step' = [step EXCEPT ![j] = "none"]
      /\ UNCHANGED <<record, trail, request, draft, blob, listed, saved>>
      /\ row' \in {row, [row EXCEPT ![j] = [row[j] EXCEPT !.status = "FAILED"]]}
      /\ lost' \subseteq lost \cup {j}
  BY DEF RecordFailure, FailureUnrecorded, Goes, storeVars, screenVars
<1>2. upsets' \in 0 .. MaxUpsets
  BY UpsetType DEF RecordFailure, FailureUnrecorded
<1>3. step' \in [Exports -> Working \cup {"none", "failing"}] /\ step'[j] = "none"
  BY <1>1 DEF ReportTypeOK
<1>4. /\ row' \in [Exports -> [status : Statuses, signed : File \cup {NoFile}]]
      /\ row'[j].signed = row[j].signed /\ row'[j].status \in {row[j].status, "FAILED"}
  <2> DEFINE failed == [row[j] EXCEPT !.status = "FAILED"]
  <2>1. row[j] \in [status : Statuses, signed : File \cup {NoFile}]
    BY DEF ReportTypeOK
  <2>2. /\ failed \in [status : Statuses, signed : File \cup {NoFile}]
        /\ failed.signed = row[j].signed /\ failed.status = "FAILED"
    BY <2>1 DEF Statuses
  <2>3. row' \in {row, [row EXCEPT ![j] = failed]}
    BY <1>1
  <2> HIDE DEF failed
  <2>4. row \in [Exports -> [status : Statuses, signed : File \cup {NoFile}]]
    BY DEF ReportTypeOK
  <2>5. CASE row' = row
    BY <2>4, <2>5
  <2>6. CASE row' = [row EXCEPT ![j] = failed]
    BY <2>2, <2>4, <2>6
  <2> QED
    BY <2>3, <2>5, <2>6
<1>5. ReportTypeOK'
  BY <1>1, <1>2, <1>3, <1>4 DEF ReportTypeOK
<1>6. JobHolds(j)'
  BY <1>1, <1>3, <1>4 DEF JobHolds, DraftHolds, RowHolds, Vouched, Working
<1> QED
  BY <1>1, <1>5, <1>6, OneJob DEF ReportTypeOK

LEMMA RestartStep ==
  ASSUME ReportInvariant, AuditServiceRestarts
  PROVE  ReportInvariant'
<1> USE DEF ReportInvariant
<1>1. /\ step' = [j \in Exports |-> "none"] /\ lost' \subseteq Exports
      /\ UNCHANGED <<record, trail, request, draft, row, blob, listed, saved>>
  BY DEF AuditServiceRestarts, storeVars, screenVars, ReportTypeOK
<1>2. upsets' \in 0 .. MaxUpsets
  BY UpsetType DEF AuditServiceRestarts
<1>3. ReportTypeOK'
  BY <1>1, <1>2 DEF ReportTypeOK
<1>4. \A j \in Exports : JobHolds(j)'
  BY <1>1, JobStopped DEF JobHolds
<1> QED
  BY <1>1, <1>3, <1>4 DEF TrailHolds

(* What is saved is what the row says was signed. *)
LEMMA ScreenStep ==
  ASSUME ReportInvariant, ListExports \/ \E j \in Exports : Download(j)
  PROVE  ReportInvariant'
<1> USE DEF ReportInvariant
<1>1. UNCHANGED <<record, trail, request, step, draft, row, blob, lost, upsets>>
  BY DEF ListExports, Download, storeVars, exportVars
<1>2. CASE ListExports
  <2>1. listed' \in [Exports -> Statuses] /\ saved' = saved
    BY <1>2 DEF ListExports, MyExports, ReportTypeOK
  <2>2. ReportTypeOK'
    BY <1>1, <2>1 DEF ReportTypeOK
  <2> QED
    BY <1>1, <2>1, <2>2, JobKept DEF TrailHolds
<1>3. ASSUME NEW j \in Exports, Download(j) PROVE ReportInvariant'
  <2>1. row[j].status = "READY" /\ saved' = [saved EXCEPT ![j] = blob[j]] /\ listed' = listed
    BY <1>3 DEF Download, JobStatus, JobFile
  <2>2. saved' \in [Exports -> File \cup {NoFile}] /\ saved'[j] = blob[j]
    BY <2>1 DEF ReportTypeOK
  <2>3. ReportTypeOK'
    BY <1>1, <2>1, <2>2 DEF ReportTypeOK
  <2>4. JobHolds(j)'
    BY <1>1, <2>1, <2>2 DEF JobHolds, DraftHolds, RowHolds, Rewritten, Vouched
  <2> QED
    BY <1>1, <2>1, <2>3, <2>4, OneJob DEF ReportTypeOK
<1> QED
  BY <1>2, <1>3

-----------------------------------------------------------------------------
LEMMA ReportsInductive == ReportInvariant /\ [ReportNext]_reportVars => ReportInvariant'
<1> SUFFICES ASSUME ReportInvariant, [ReportNext]_reportVars PROVE ReportInvariant'
  OBVIOUS
<1>1. CASE UNCHANGED reportVars
  <2>1. UNCHANGED <<record, trail, request, step, draft, row, blob, lost, listed, saved, upsets>>
    BY <1>1 DEF reportVars, storeVars, exportVars, screenVars
  <2>2. ReportTypeOK'
    BY <2>1 DEF ReportInvariant, ReportTypeOK
  <2> QED
    BY <2>1, <2>2, JobKept DEF ReportInvariant, TrailHolds
<1>2. CASE ReportNext
  BY <1>2, StoreStep, RequestStep, AskStep, CompareStep, VerifyStep, BuildStep, StoreBlobStep,
     RecordStep, ThrowStep, CatchStep, RestartStep, ScreenStep DEF ReportNext, Generates
<1> QED
  BY <1>1, <1>2

(* Whatever is altered, rewritten, thrown or restarted, and whenever: a file that was *)
(* signed does not vouch for data that was tampered with, READY means that the signed *)
(* file is stored, and a user saves no other (chain-segment.ts:7-18,                  *)
(* report-csv.ts:22-26, get-job.ts:51-63, download.ts:44-50).                        *)
THEOREM ReportsTellTheTruth == ReportSpec => []FilesTellTheTruth
<1>1. ReportInvariant => FilesTellTheTruth
  <2> SUFFICES ASSUME ReportInvariant PROVE FilesTellTheTruth
    OBVIOUS
  <2>1. \A j \in Exports : RowHolds(j)
    BY DEF ReportInvariant, JobHolds
  <2>2. TamperingShows
    BY <2>1 DEF RowHolds, Vouched, TamperingShows
  <2>3. ReadyIsSignedFile
    BY <2>1 DEF RowHolds, ReadyIsSignedFile
  <2> QED
    BY <2>2, <2>3 DEF FilesTellTheTruth
<1> QED
  BY <1>1, ReportsInitially, ReportsInductive, PTL DEF ReportSpec

-----------------------------------------------------------------------------
(***************************************************************************)
(* Media.  A clip that a purge is about to delete has a date and is past     *)
(* its window, and stays so: ages only grow, dates are never taken back.     *)
(***************************************************************************)

ClipsHold ==
  /\ \A r \in Purges : \A c \in todo[r] : c \in dated /\ clipAge[c] > Window
  /\ \A d \in deletions : d[2] > Window /\ d[1] \in dated /\ d[1] \notin voice

(* What is stored under a name is what its handler decided, which changes no more   *)
(* once the client has been told.                                                  *)
PhotosHold ==
  \A p \in Photos :
    /\ upload[p] = "none" => photo[p] = "none"
    /\ upload[p] \in ImageTypes => photo[p] \in {"none", upload[p]}
    /\ held[p] # "none" => photo[p] = held[p] /\ upload[p] = "done"
    /\ viewed[p] # "404"

MediaInvariant == MediaTypeOK /\ ClipsHold /\ PhotosHold

LEMMA MediaStarts == MediaInit => MediaInvariant
<1> SUFFICES ASSUME MediaInit
             PROVE  MediaInvariant
  OBVIOUS
<1>1. /\ upload \in [Photos -> {"none"}] /\ photo \in [Photos -> {"none"}]
      /\ held \in [Photos -> {"none"}] /\ viewed \in [Photos -> {"none"}]
  BY DEF MediaInit
<1>2. clipAge \in [VoiceClips -> 0 .. Window + 1] /\ breaks \in 0 .. MaxBreaks
  BY WindowAssumption DEF MediaInit
<1>3. MediaTypeOK
  BY <1>1, <1>2 DEF MediaInit, MediaTypeOK
<1>4. ClipsHold
  BY DEF MediaInit, ClipsHold
<1>5. PhotosHold
  BY <1>1 DEF PhotosHold, ImageTypes
<1> QED
  BY <1>3, <1>4, <1>5 DEF MediaInvariant

(* The handlers of a photo touch no other (upload.ts, media.ts). *)
LEMMA PhotoSteps ==
  ASSUME MediaInvariant, PhotoNext
  PROVE  MediaInvariant'
<1> USE DEF ImageTypes
<1>1. UNCHANGED <<voiceVars, purgeVars, loopVars>>
  BY DEF PhotoNext, Upload, StorePhoto, AnswerUpload, UploadFails, GetPhoto
<1>2. ClipsHold'
  BY <1>1 DEF MediaInvariant, ClipsHold, voiceVars, purgeVars
<1>3. breaks' \in 0 .. MaxBreaks
  BY WindowAssumption
     DEF PhotoNext, Upload, StorePhoto, AnswerUpload, UploadFails, GetPhoto, Break, MediaInvariant,
         MediaTypeOK
<1>4. PICK p \in Photos :
        \/ \E body \in Bodies : Upload(p, body)
        \/ StorePhoto(p) \/ AnswerUpload(p) \/ UploadFails(p) \/ GetPhoto(p)
  BY DEF PhotoNext
<1>5. /\ upload' \in [Photos -> ImageTypes \cup {"none", "refused", "done"}]
      /\ photo' \in [Photos -> ImageTypes \cup {"none"}]
      /\ held' \in [Photos -> ImageTypes \cup {"none"}]
      /\ viewed' \in [Photos -> ImageTypes \cup {"none", "404"}]
      /\ PhotosHold'
  <2>1. CASE \E body \in Bodies : Upload(p, body)
    <3>1. PICK body \in Bodies : Upload(p, body)
      BY <2>1
    <3> DEFINE verdict == SniffImageType(body)
    <3>2. verdict \in ImageTypes \cup {"refused"}
      BY DEF SniffImageType
    <3> HIDE DEF verdict
    <3>3. /\ upload[p] = "none" /\ upload' = [upload EXCEPT ![p] = verdict]
          /\ UNCHANGED <<photo, held, viewed>>
      BY <3>1 DEF Upload, verdict
    <3>4. upload' \in [Photos -> ImageTypes \cup {"none", "refused", "done"}]
      BY <3>2, <3>3 DEF MediaInvariant, MediaTypeOK
    <3>5. PhotosHold'
      BY <3>2, <3>3 DEF MediaInvariant, MediaTypeOK, PhotosHold
    <3> QED
      BY <3>3, <3>4, <3>5 DEF MediaInvariant, MediaTypeOK
  <2>2. CASE StorePhoto(p)
    BY <2>2 DEF StorePhoto, MediaInvariant, MediaTypeOK, PhotosHold
  <2>3. CASE AnswerUpload(p)
    BY <2>3 DEF AnswerUpload, MediaInvariant, MediaTypeOK, PhotosHold
  <2>4. CASE UploadFails(p)
    BY <2>4 DEF UploadFails, MediaInvariant, MediaTypeOK, PhotosHold
  <2>5. CASE GetPhoto(p)
    BY <2>5 DEF GetPhoto, MediaInvariant, MediaTypeOK, PhotosHold
  <2> QED
    BY <1>4, <2>1, <2>2, <2>3, <2>4, <2>5
<1>6. MediaTypeOK'
  BY <1>1, <1>3, <1>5 DEF MediaInvariant, MediaTypeOK, voiceVars, purgeVars, loopVars
<1> QED
  BY <1>2, <1>5, <1>6 DEF MediaInvariant

(* A run takes for deletion only what is expired when it begins                    *)
(* (voice-retention.ts:43-46), and visits each blob once.                          *)
LEMMA PurgeSteps ==
  ASSUME MediaInvariant, NEW r \in Purges,
         \/ \E c \in VoiceClips : Visit(r, c) \/ VisitFails(r, c)
         \/ Finish(r) \/ Abort(r)
  PROVE  MediaInvariant'
<1> USE WindowAssumption
<1>1. CASE \E c \in VoiceClips : Visit(r, c)
  <2> PICK c \in VoiceClips : Visit(r, c)
    BY <1>1
  <2>1. MediaTypeOK'
    BY DEF Visit, MediaInvariant, MediaTypeOK, photoVars, loopVars
  <2>2. ClipsHold'
    BY DEF Visit, MediaInvariant, MediaTypeOK, ClipsHold
  <2>3. PhotosHold'
    BY DEF Visit, MediaInvariant, PhotosHold, photoVars
  <2> QED
    BY <2>1, <2>2, <2>3 DEF MediaInvariant
<1>2. CASE \E c \in VoiceClips : VisitFails(r, c)
  <2> PICK c \in VoiceClips : VisitFails(r, c)
    BY <1>2
  <2>1. MediaTypeOK'
    BY DEF VisitFails, Break, MediaInvariant, MediaTypeOK, photoVars, voiceVars, loopVars
  <2>2. ClipsHold'
    BY DEF VisitFails, MediaInvariant, MediaTypeOK, ClipsHold, voiceVars
  <2>3. PhotosHold'
    BY DEF VisitFails, MediaInvariant, PhotosHold, photoVars
  <2> QED
    BY <2>1, <2>2, <2>3 DEF MediaInvariant
<1>3. CASE Finish(r) \/ Abort(r)
  <2>1. /\ End(r) /\ loop' \in {loop, "polling"} /\ UNCHANGED <<photoVars, voiceVars, phase>>
        /\ breaks' \in 0 .. MaxBreaks
    <3>1. CASE Finish(r)
      BY <3>1 DEF Finish, MediaInvariant, MediaTypeOK
    <3>2. CASE Abort(r)
      BY <3>2 DEF Abort, Break, MediaInvariant, MediaTypeOK
    <3> QED
      BY <1>3, <3>1, <3>2
  <2>6. ranToday' \in BOOLEAN
    BY <1>3 DEF Finish, Abort
  <2>4. /\ purge' \in [Purges -> {"off", "purging", "preview"}]
        /\ todo' \in [Purges -> SUBSET VoiceClips]
    BY <2>1 DEF End, MediaInvariant, MediaTypeOK
  <2>5. MediaTypeOK'
    BY <2>1, <2>4, <2>6 DEF MediaInvariant, MediaTypeOK, photoVars, voiceVars
  <2>2. ClipsHold'
    BY <2>1 DEF End, MediaInvariant, MediaTypeOK, ClipsHold, voiceVars
  <2>3. PhotosHold'
    BY <2>1 DEF MediaInvariant, PhotosHold, photoVars
  <2> QED
    BY <2>2, <2>3, <2>5 DEF MediaInvariant
<1> QED
  BY <1>1, <1>2, <1>3

(* The scheduler, the clock and the writer of the clips                            *)
(* (voice-retention-scheduler.sh).                                                 *)
LEMMA SchedulerSteps ==
  ASSUME MediaInvariant,
         \/ \E c \in VoiceClips : CreateClip(c)
         \/ \E mode \in {"purging", "preview"} : RunByHand(mode)
         \/ Deploy \/ RestartScheduler \/ SchedulerDies \/ PollClock \/ TimePasses
  PROVE  MediaInvariant'
<1> USE WindowAssumption
<1>1. PhotosHold' /\ UNCHANGED photoVars
  BY DEF CreateClip, RunByHand, Deploy, RestartScheduler, StartScheduler, SchedulerDies, PollClock,
         TimePasses, MediaInvariant, PhotosHold, photoVars
<1>2. CASE \E c \in VoiceClips : CreateClip(c)
  <2>1. MediaTypeOK'
    BY <1>2 DEF CreateClip, MediaInvariant, MediaTypeOK, photoVars, purgeVars, loopVars
  <2>2. ClipsHold'
    BY <1>2 DEF CreateClip, MediaInvariant, MediaTypeOK, ClipsHold, purgeVars
  <2> QED
    BY <1>1, <2>1, <2>2 DEF MediaInvariant
<1>3. ASSUME NEW r \in Purges, NEW mode \in {"purging", "preview"}, Begin(r, mode),
             UNCHANGED voiceVars
      PROVE  /\ purge' \in [Purges -> {"off", "purging", "preview"}]
             /\ todo' \in [Purges -> SUBSET VoiceClips]
             /\ ClipsHold'
  <2>1. /\ purge' \in [Purges -> {"off", "purging", "preview"}]
        /\ todo' \in [Purges -> SUBSET VoiceClips]
    BY <1>3 DEF Begin, MediaInvariant, MediaTypeOK
  <2>2. ClipsHold'
    BY <1>3 DEF Begin, IsExpired, MediaInvariant, MediaTypeOK, ClipsHold, voiceVars
  <2> QED
    BY <2>1, <2>2
<1>4. CASE \E mode \in {"purging", "preview"} : RunByHand(mode)
  <2> PICK mode \in {"purging", "preview"} : RunByHand(mode)
    BY <1>4
  <2>1. Begin("manual", mode) /\ UNCHANGED <<photoVars, voiceVars, loopVars, breaks>>
    BY DEF RunByHand
  <2>2. /\ purge' \in [Purges -> {"off", "purging", "preview"}]
        /\ todo' \in [Purges -> SUBSET VoiceClips]
        /\ ClipsHold'
    BY <1>3, <2>1 DEF Purges
  <2>3. MediaTypeOK'
    BY <2>1, <2>2 DEF MediaInvariant, MediaTypeOK, photoVars, voiceVars, loopVars
  <2> QED
    BY <1>1, <2>2, <2>3 DEF MediaInvariant
<1>5. CASE Deploy \/ RestartScheduler \/ PollClock
  <2>1. /\ Begin("scheduled", "purging") /\ loop' \in {"startup", "daily"}
        /\ ranToday' \in BOOLEAN
        /\ UNCHANGED <<photoVars, voiceVars, phase, breaks>>
    BY <1>5 DEF Deploy, RestartScheduler, StartScheduler, PollClock, MediaInvariant, MediaTypeOK
  <2>2. /\ purge' \in [Purges -> {"off", "purging", "preview"}]
        /\ todo' \in [Purges -> SUBSET VoiceClips]
        /\ ClipsHold'
    BY <1>3, <2>1 DEF Purges
  <2>3. MediaTypeOK'
    BY <2>1, <2>2 DEF MediaInvariant, MediaTypeOK, photoVars, voiceVars
  <2> QED
    BY <1>1, <2>2, <2>3 DEF MediaInvariant
<1>6. CASE SchedulerDies
  <2>1. /\ End("scheduled") /\ loop' = "dead" /\ UNCHANGED <<photoVars, voiceVars, phase, ranToday>>
        /\ breaks' \in 0 .. MaxBreaks
    BY <1>6 DEF SchedulerDies, Break, MediaInvariant, MediaTypeOK
  <2>4. /\ purge' \in [Purges -> {"off", "purging", "preview"}]
        /\ todo' \in [Purges -> SUBSET VoiceClips]
    BY <2>1 DEF End, MediaInvariant, MediaTypeOK
  <2>5. MediaTypeOK'
    BY <2>1, <2>4 DEF MediaInvariant, MediaTypeOK, photoVars, voiceVars
  <2>2. ClipsHold'
    BY <2>1 DEF End, MediaInvariant, MediaTypeOK, ClipsHold, voiceVars
  <2> QED
    BY <1>1, <2>2, <2>5 DEF MediaInvariant
<1>7. CASE TimePasses
  <2>1. clipAge' \in [VoiceClips -> 0 .. Window + 1]
    BY <1>7 DEF TimePasses, MediaInvariant, MediaTypeOK
  <2>2. phase' \in {"before", "minute", "after"} /\ loop' \in {loop, "overdue"} /\ ranToday' \in BOOLEAN
    BY <1>7 DEF TimePasses, MediaInvariant, MediaTypeOK
  <2>3. MediaTypeOK'
    BY <1>1, <1>7, <2>1, <2>2 DEF TimePasses, MediaInvariant, MediaTypeOK, photoVars, purgeVars
  <2>4. \A c \in VoiceClips : clipAge[c] > Window => clipAge'[c] > Window
    BY <1>7 DEF TimePasses, MediaInvariant, MediaTypeOK
  <2>5. ClipsHold'
    BY <1>7, <2>4 DEF TimePasses, MediaInvariant, MediaTypeOK, ClipsHold, purgeVars
  <2> QED
    BY <1>1, <2>3, <2>5 DEF MediaInvariant
<1> QED
  BY <1>2, <1>4, <1>5, <1>6, <1>7

LEMMA MediaKeeps == MediaSpec => []MediaInvariant
<1>1. MediaInvariant /\ [MediaNext]_mediaVars => MediaInvariant'
  <2> SUFFICES ASSUME MediaInvariant, [MediaNext]_mediaVars
               PROVE  MediaInvariant'
    OBVIOUS
  <2>1. CASE PhotoNext
    BY <2>1, PhotoSteps
  <2>2. CASE VoiceNext
    <3>1. \/ \E r \in Purges : \/ \E c \in VoiceClips : Visit(r, c) \/ VisitFails(r, c)
                               \/ Finish(r) \/ Abort(r)
          \/ \E c \in VoiceClips : CreateClip(c)
          \/ \E mode \in {"purging", "preview"} : RunByHand(mode)
          \/ Deploy \/ RestartScheduler \/ SchedulerDies \/ PollClock \/ TimePasses
      BY <2>2 DEF VoiceNext, PurgeStep
    <3> QED
      BY <3>1, PurgeSteps, SchedulerSteps
  <2>3. CASE UNCHANGED mediaVars
    BY <2>3 DEF mediaVars, photoVars, voiceVars, purgeVars, loopVars, MediaInvariant, MediaTypeOK,
                ClipsHold, PhotosHold
  <2> QED
    BY <2>1, <2>2, <2>3 DEF MediaNext
<1> QED
  BY <1>1, MediaStarts, PTL DEF MediaSpec

(* Whatever runs overlap, are killed half-way or tried again: a clip goes only once, *)
(* past its window and with a date to prove it, and a photo whose id a client holds  *)
(* is there, with the type it was told (voice-retention.ts:43-46, upload.ts:9-14).   *)
THEOREM MediaStaysKept == MediaSpec => []MediaKept
<1>1. MediaInvariant => MediaKept
  BY DEF MediaInvariant, ClipsHold, PhotosHold, MediaKept
<1> QED
  BY <1>1, MediaKeeps, PTL

-----------------------------------------------------------------------------
(***************************************************************************)
(* Boot.  A refusal names either forms or everything else, and what was named *)
(* is then right for good.                                                  *)
(***************************************************************************)

(* Environments that the two operators below are about *)
IsEnvironment(s, e) ==
  /\ e \in [Settings[s] -> Values]
  /\ \A n \in Settings[s] \cap Opaque : e[n] # "malformed"

NothingNamed(s, e, mode) == FormProblems(s, e) = {} /\ Problems(s, e, mode # "test") = {}

LEMMA CorrectionIsEnvironment ==
  ASSUME NEW s \in DOMAIN Settings, NEW e, IsEnvironment(s, e), NEW named
  PROVE  IsEnvironment(s, Corrected(e, named))
<1>1. DOMAIN e = Settings[s]
  BY DEF IsEnvironment
<1>2. \A n \in Settings[s] : Corrected(e, named)[n] = IF n \in named THEN "good" ELSE e[n]
  BY <1>1 DEF Corrected
<1>3. Corrected(e, named) \in [Settings[s] -> Values]
  BY <1>1 DEF Corrected, IsEnvironment, Values
<1> QED
  BY <1>2, <1>3 DEF IsEnvironment

LEMMA Services == DOMAIN Settings = {"core_api", "audit", "media"}
BY DEF Settings

LEMMA CoreSettings ==
  Settings["core_api"] = CoreSecrets \cup AlertSettings \cup {"OUTBOX_POLL_INTERVAL_MS", "SMTP_PORT"}
                \cup {"DATABASE_URL", "AUDIT_SERVICE_URL", "AI_SERVICE_URL", "SUPERVISOR_ALERT_EMAILS"}
BY DEF Settings, Formed

LEMMA AuditSettings ==
  Settings["audit"] = AuditSecrets \cup {"CHAIN_VERIFY_TIME", "LAB_TIMEZONE"} \cup {"DATABASE_URL"}
                      \cup {"CORE_API_INTERNAL_URL", "REPORTS_BLOB_CONTAINER", "MEDIA_BLOB_CONTAINER"}
BY DEF Settings, Formed, Unchecked

LEMMA MediaSettings ==
  Settings["media"] = MediaSecrets \cup {"MEDIA_VOICE_RETENTION_DAYS"}
                      \cup {"MEDIA_BLOB_CONTAINER", "MEDIA_VOICE_BLOB_CONTAINER"}
BY DEF Settings, Formed, Unchecked

(* Correcting never makes a form wrong (config.ts:131-135). *)
LEMMA FormsStayRight ==
  ASSUME NEW s \in DOMAIN Settings, NEW e, IsEnvironment(s, e), NEW named
  PROVE  /\ FormProblems(s, e) = {} => FormProblems(s, Corrected(e, named)) = {}
         /\ FormProblems(s, e) \subseteq named => FormProblems(s, Corrected(e, named)) = {}
<1>1. DOMAIN e = Settings[s]
  BY DEF IsEnvironment
<1>2. Formed[s] \subseteq Settings[s]
  BY Services, CoreSettings, AuditSettings, MediaSettings DEF Formed
<1>3. \A n \in Settings[s] : Corrected(e, named)[n] = IF n \in named THEN "good" ELSE e[n]
  BY <1>1 DEF Corrected
<1> QED
  BY <1>2, <1>3 DEF FormProblems

(* A setting is named for itself, but for the pair of the relay's name and password *)
(* (core-api config.ts:237-262).                                                   *)
LEMMA CoreCorrected ==
  ASSUME NEW e, IsEnvironment("core_api", e), NEW required \in BOOLEAN
  PROVE  CoreProblems(Corrected(e, CoreProblems(e, required)), required) = {}
<1> DEFINE named == CoreProblems(e, required)
           f == Corrected(e, named)
<1>1. DOMAIN e = Settings["core_api"]
  BY DEF IsEnvironment
<1>2. \A n \in Settings["core_api"] : f[n] = IF n \in named THEN "good" ELSE e[n]
  BY <1>1 DEF Corrected
<1>3. /\ CoreSecrets \cup AlertSettings \subseteq Settings["core_api"]
      /\ {"DATABASE_URL", "AUDIT_SERVICE_URL", "AI_SERVICE_URL", "SUPERVISOR_ALERT_EMAILS"}
           \subseteq Settings["core_api"]
  BY CoreSettings
<1>4. {"SMTP_HOST", "SMTP_USER", "SMTP_PASS", "TEAMS_WEBHOOK_URL", "DASHBOARD_BASE_URL"} = AlertSettings
  BY DEF AlertSettings
<1>5. "APPLICATIONINSIGHTS_CONNECTION_STRING" \in CoreSecrets
  BY DEF CoreSecrets
<1>6. {s \in CoreSecrets \cup AlertSettings : f[s] = "placeholder"} = {}
  <2>1. \A s \in CoreSecrets \cup AlertSettings : e[s] = "placeholder" => s \in named
    BY DEF CoreProblems
  <2> QED
    BY <1>2, <1>3, <2>1
<1>7. {s \in {"DATABASE_URL"} : f[s] # "good"} = {}
  <2>1. e["DATABASE_URL"] # "good" => "DATABASE_URL" \in named
    BY DEF CoreProblems
  <2> QED
    BY <1>2, <1>3, <2>1
<1>8. {s \in {"APPLICATIONINSIGHTS_CONNECTION_STRING", "TEAMS_WEBHOOK_URL", "DASHBOARD_BASE_URL"} :
         f[s] = "malformed"} = {}
  <2>1. \A s \in {"APPLICATIONINSIGHTS_CONNECTION_STRING", "TEAMS_WEBHOOK_URL", "DASHBOARD_BASE_URL"} :
          e[s] = "malformed" => s \in named
    BY DEF CoreProblems
  <2> QED
    BY <1>2, <1>3, <1>4, <1>5, <2>1
<1>9. {s \in {"AUDIT_SERVICE_URL", "AI_SERVICE_URL", "SUPERVISOR_ALERT_EMAILS"} :
         f[s] \in {"malformed", "placeholder"}} = {}
  <2>1. \A s \in {"AUDIT_SERVICE_URL", "AI_SERVICE_URL", "SUPERVISOR_ALERT_EMAILS"} :
          e[s] \in {"malformed", "placeholder"} => s \in named
    BY DEF CoreProblems
  <2> QED
    BY <1>2, <1>3, <2>1
<1>10. {s \in CoreSecrets \cup {"AUDIT_SERVICE_URL", "AI_SERVICE_URL"} :
         required /\ f[s] = "absent"} = {}
  <2>1. \A s \in CoreSecrets \cup {"AUDIT_SERVICE_URL", "AI_SERVICE_URL"} :
          required /\ e[s] = "absent" => s \in named
    BY DEF CoreProblems
  <2> QED
    BY <1>2, <1>3, <2>1
<1>11. AuthProblems(f) = {}
  <2>1. AuthProblems(e) \subseteq named
    BY DEF CoreProblems
  <2>2. /\ f["SMTP_HOST"] = IF "SMTP_HOST" \in named THEN "good" ELSE e["SMTP_HOST"]
        /\ f["SMTP_USER"] = IF "SMTP_USER" \in named THEN "good" ELSE e["SMTP_USER"]
        /\ f["SMTP_PASS"] = IF "SMTP_PASS" \in named THEN "good" ELSE e["SMTP_PASS"]
    BY <1>2, <1>3, <1>4
  <2>3. "SMTP_HOST" \in named => e["SMTP_HOST"] = "placeholder"
    <3>1. /\ "SMTP_HOST" \notin CoreSecrets
          /\ "SMTP_HOST" \notin AuthProblems(e)
      BY DEF CoreSecrets, Entra, AuthProblems
    <3> QED
      BY <3>1 DEF CoreProblems
  <2>4. AuthProblems(e) = {} =>
          \A n \in {"SMTP_USER", "SMTP_PASS"} : n \in named => e[n] = "placeholder"
    <3>1. {"SMTP_USER", "SMTP_PASS"} \cap CoreSecrets = {}
      BY DEF CoreSecrets, Entra
    <3> QED
      BY <3>1 DEF CoreProblems
  <2> HIDE DEF named, f
  <2> QED
    BY <2>1, <2>2, <2>3, <2>4 DEF AuthProblems
<1> HIDE DEF named, f
<1>12. CoreProblems(f, required) = {}
  BY <1>6, <1>7, <1>8, <1>9, <1>10, <1>11 DEF CoreProblems
<1> QED
  BY <1>12 DEF f, named

LEMMA AuditCorrected ==
  ASSUME NEW e, IsEnvironment("audit", e), NEW required \in BOOLEAN
  PROVE  AuditProblems(Corrected(e, AuditProblems(e, required)), required) = {}
<1> DEFINE named == AuditProblems(e, required)
           f == Corrected(e, named)
<1>1. DOMAIN e = Settings["audit"]
  BY DEF IsEnvironment
<1>2. \A n \in Settings["audit"] : f[n] = IF n \in named THEN "good" ELSE e[n]
  BY <1>1 DEF Corrected
<1>3. /\ AuditSecrets \subseteq Settings["audit"] /\ "DATABASE_URL" \in Settings["audit"]
      /\ {"AZURE_STORAGE_CONNECTION_STRING", "REPORT_SIGNING_PRIVATE_KEY",
          "APPLICATIONINSIGHTS_CONNECTION_STRING"} \subseteq AuditSecrets
  BY AuditSettings DEF AuditSecrets
<1>4. /\ \A s \in AuditSecrets : e[s] = "placeholder" \/ (required /\ e[s] = "absent") => s \in named
      /\ \A s \in {"AZURE_STORAGE_CONNECTION_STRING", "REPORT_SIGNING_PRIVATE_KEY",
                   "APPLICATIONINSIGHTS_CONNECTION_STRING"} : e[s] = "malformed" => s \in named
      /\ e["DATABASE_URL"] # "good" => "DATABASE_URL" \in named
  BY DEF AuditProblems
<1> HIDE DEF named, f
<1>5. AuditProblems(f, required) = {}
  BY <1>2, <1>3, <1>4 DEF AuditProblems
<1> QED
  BY <1>5 DEF f, named

LEMMA MediaCorrected ==
  ASSUME NEW e, IsEnvironment("media", e), NEW required \in BOOLEAN
  PROVE  MediaProblems(Corrected(e, MediaProblems(e, required)), required) = {}
<1> DEFINE named == MediaProblems(e, required)
           f == Corrected(e, named)
<1>1. DOMAIN e = Settings["media"]
  BY DEF IsEnvironment
<1>2. \A n \in Settings["media"] : f[n] = IF n \in named THEN "good" ELSE e[n]
  BY <1>1 DEF Corrected
<1>3. /\ MediaSecrets \subseteq Settings["media"]
      /\ {"APPLICATIONINSIGHTS_CONNECTION_STRING", "AZURE_STORAGE_CONNECTION_STRING"} \subseteq MediaSecrets
  BY MediaSettings DEF MediaSecrets
<1>4. /\ \A s \in MediaSecrets : e[s] = "placeholder" \/ (required /\ e[s] = "absent") => s \in named
      /\ \A s \in {"APPLICATIONINSIGHTS_CONNECTION_STRING", "AZURE_STORAGE_CONNECTION_STRING"} :
           e[s] = "malformed" => s \in named
  BY DEF MediaProblems
<1> HIDE DEF named, f
<1>5. MediaProblems(f, required) = {}
  BY <1>2, <1>3, <1>4 DEF MediaProblems
<1> QED
  BY <1>5 DEF f, named

(* Correcting what a refusal named leaves nothing of that stage to name. *)
LEMMA CorrectionSettles ==
  ASSUME NEW s \in DOMAIN Settings, NEW e, IsEnvironment(s, e), NEW mode
  PROVE  LET f == Corrected(e, LoadConfig(s, e, mode)) IN
           /\ FormProblems(s, f) = {}
           /\ FormProblems(s, e) = {} => Problems(s, f, mode # "test") = {}
<1> DEFINE f == Corrected(e, LoadConfig(s, e, mode))
<1>1. FormProblems(s, f) = {}
  BY FormsStayRight DEF LoadConfig
<1>2. ASSUME FormProblems(s, e) = {}
      PROVE  Problems(s, f, mode # "test") = {}
  <2>1. LoadConfig(s, e, mode) = Problems(s, e, mode # "test")
    BY <1>2 DEF LoadConfig
  <2> DEFINE required == mode # "test"
  <2>2. required \in BOOLEAN
    OBVIOUS
  <2>3. f = Corrected(e, Problems(s, e, required))
    BY <2>1
  <2> SUFFICES Problems(s, f, required) = {}
    OBVIOUS
  <2> HIDE DEF required, f
  <2>4. CASE s = "core_api"
    BY <2>2, <2>3, <2>4, CoreCorrected DEF Problems
  <2>5. CASE s = "audit"
    BY <2>2, <2>3, <2>5, AuditCorrected DEF Problems
  <2>6. CASE s = "media"
    BY <2>2, <2>3, <2>6, MediaCorrected DEF Problems
  <2> QED
    BY <2>4, <2>5, <2>6, Services
<1> QED
  BY <1>1, <1>2

(* What was reported is what is wrong, and a service that serves has nothing wrong. *)
BootHolds ==
  /\ booting \in DOMAIN Settings /\ nodeEnv \in NodeEnvs
  /\ IsEnvironment(booting, env)
  /\ boot \in {"down", "refused", "serving"}
  /\ boot = "refused" => reported = LoadConfig(booting, env, nodeEnv)
  /\ boot = "serving" => NothingNamed(booting, env, nodeEnv)

LEMMA BootStarts == BootInit => BootHolds
<1> SUFFICES ASSUME BootInit
             PROVE  BootHolds
  OBVIOUS
<1>1. PICK wrong \in SUBSET Settings[booting] : \E v \in [wrong -> Values \ {"good"}] :
        /\ \A n \in wrong \cap Opaque : v[n] # "malformed"
        /\ env = [n \in Settings[booting] |-> IF n \in wrong THEN v[n] ELSE "good"]
  BY DEF BootInit, Environments
<1> PICK v \in [wrong -> Values \ {"good"}] :
        /\ \A n \in wrong \cap Opaque : v[n] # "malformed"
        /\ env = [n \in Settings[booting] |-> IF n \in wrong THEN v[n] ELSE "good"]
  BY <1>1
<1>2. IsEnvironment(booting, env)
  BY DEF IsEnvironment, Values
<1> QED
  BY <1>2 DEF BootInit, BootHolds

(* What is asked of a service that serves: its loader named nothing. *)
LEMMA ServingIsSound ==
  ASSUME NEW s \in DOMAIN Settings, NEW e, IsEnvironment(s, e), NEW mode, NothingNamed(s, e, mode)
  PROVE  /\ mode # "test" => \A n \in Needs[s] : e[n] = "good"
         /\ \A n \in Formed[s] : e[n] \in {"absent", "good"}
         /\ s = "core_api" =>
              /\ {e["SMTP_HOST"], e["SUPERVISOR_ALERT_EMAILS"]} \subseteq {"absent", "good"}
              /\ e["SMTP_HOST"] = "good" =>
                   e["SMTP_USER"] = e["SMTP_PASS"] /\ e["SMTP_USER"] \in {"absent", "good"}
              /\ e["TEAMS_WEBHOOK_URL"] \in {"absent", "good"}
<1>0. \A n \in Formed[s] : e[n] \in {"absent", "good"}
  <2>1. Formed[s] \subseteq Settings[s]
    BY Services, CoreSettings, AuditSettings, MediaSettings DEF Formed
  <2> QED
    BY <2>1 DEF NothingNamed, FormProblems, IsEnvironment, Values
<1>1. CASE s = "core_api"
  <2>1. CoreProblems(e, mode # "test") = {}
    BY <1>1 DEF NothingNamed, Problems
  <2>2. \A n \in Settings["core_api"] : e[n] \in Values
    BY <1>1 DEF IsEnvironment
  <2>3. \A n \in Settings["core_api"] \cap Opaque : e[n] # "malformed"
    BY <1>1 DEF IsEnvironment
  <2>4. /\ \A n \in CoreSecrets \cup AlertSettings : e[n] # "placeholder"
        /\ e["DATABASE_URL"] = "good"
        /\ e["APPLICATIONINSIGHTS_CONNECTION_STRING"] # "malformed"
        /\ e["TEAMS_WEBHOOK_URL"] # "malformed"
        /\ \A n \in {"AUDIT_SERVICE_URL", "AI_SERVICE_URL", "SUPERVISOR_ALERT_EMAILS"} :
             e[n] \notin {"malformed", "placeholder"}
        /\ mode # "test" => \A n \in CoreSecrets \cup {"AUDIT_SERVICE_URL", "AI_SERVICE_URL"} : e[n] # "absent"
        /\ AuthProblems(e) = {}
    BY <2>1 DEF CoreProblems
  <2>5. \A n \in CoreSecrets : n = "APPLICATIONINSIGHTS_CONNECTION_STRING" \/ n \in Opaque
    BY DEF CoreSecrets, Opaque
  <2>6. \A n \in CoreSecrets : e[n] # "malformed"
    BY <2>3, <2>4, <2>5, CoreSettings
  <2>7. mode # "test" => \A n \in Needs[s] : e[n] = "good"
    BY <1>1, <2>2, <2>4, <2>6, CoreSettings DEF Needs, Values
  <2>8. e["TEAMS_WEBHOOK_URL"] \in {"absent", "good"}
    BY <2>2, <2>4, CoreSettings DEF AlertSettings, Values
  <2>9. /\ e["SMTP_HOST"] \in {"absent", "good"}
        /\ e["SMTP_HOST"] = "good" =>
             e["SMTP_USER"] = e["SMTP_PASS"] /\ e["SMTP_USER"] \in {"absent", "good"}
    <3>1. \A n \in {"SMTP_HOST", "SMTP_USER", "SMTP_PASS"} : e[n] \in {"absent", "good"}
      BY <2>2, <2>3, <2>4, CoreSettings DEF AlertSettings, Opaque, Values
    <3> QED
      BY <2>4, <3>1 DEF AuthProblems
  <2>10. e["SUPERVISOR_ALERT_EMAILS"] \in {"absent", "good"}
    BY <2>2, <2>4, CoreSettings DEF Values
  <2> QED
    BY <1>0, <2>7, <2>8, <2>9, <2>10
<1>2. CASE s = "audit"
  <2>1. AuditProblems(e, mode # "test") = {}
    BY <1>2 DEF NothingNamed, Problems
  <2>2. \A n \in Settings["audit"] : e[n] \in Values
    BY <1>2 DEF IsEnvironment
  <2>3. \A n \in Settings["audit"] \cap Opaque : e[n] # "malformed"
    BY <1>2 DEF IsEnvironment
  <2>4. /\ \A n \in AuditSecrets : e[n] # "placeholder" /\ (mode # "test" => e[n] # "absent")
        /\ \A n \in {"AZURE_STORAGE_CONNECTION_STRING", "REPORT_SIGNING_PRIVATE_KEY",
                     "APPLICATIONINSIGHTS_CONNECTION_STRING"} : e[n] # "malformed"
        /\ e["DATABASE_URL"] = "good"
    BY <2>1 DEF AuditProblems
  <2>5. \A n \in AuditSecrets :
          n \in {"AZURE_STORAGE_CONNECTION_STRING", "REPORT_SIGNING_PRIVATE_KEY",
                 "APPLICATIONINSIGHTS_CONNECTION_STRING"} \/ n \in Opaque
    BY DEF AuditSecrets, Opaque
  <2>6. \A n \in AuditSecrets : e[n] # "malformed"
    BY <2>3, <2>4, <2>5, AuditSettings
  <2> QED
    BY <1>0, <1>2, <2>2, <2>4, <2>6, AuditSettings DEF Needs, Values
<1>3. CASE s = "media"
  <2>1. MediaProblems(e, mode # "test") = {}
    BY <1>3 DEF NothingNamed, Problems
  <2>2. \A n \in Settings["media"] : e[n] \in Values
    BY <1>3 DEF IsEnvironment
  <2>3. \A n \in Settings["media"] \cap Opaque : e[n] # "malformed"
    BY <1>3 DEF IsEnvironment
  <2>4. /\ \A n \in MediaSecrets : e[n] # "placeholder" /\ (mode # "test" => e[n] # "absent")
        /\ \A n \in {"APPLICATIONINSIGHTS_CONNECTION_STRING", "AZURE_STORAGE_CONNECTION_STRING"} :
             e[n] # "malformed"
    BY <2>1 DEF MediaProblems
  <2>5. \A n \in MediaSecrets :
          n \in {"APPLICATIONINSIGHTS_CONNECTION_STRING", "AZURE_STORAGE_CONNECTION_STRING"} \/ n \in Opaque
    BY DEF MediaSecrets, Opaque
  <2>6. \A n \in MediaSecrets : e[n] # "malformed"
    BY <2>3, <2>4, <2>5, MediaSettings
  <2> QED
    BY <1>0, <1>3, <2>2, <2>4, <2>6, MediaSettings DEF Needs, Values
<1> QED
  BY <1>1, <1>2, <1>3, Services

LEMMA BootKeeps == BootSpec => []BootHolds
<1>1. BootHolds /\ [BootNext]_bootVars => BootHolds'
  <2> SUFFICES ASSUME BootHolds, [BootNext]_bootVars
               PROVE  BootHolds'
    OBVIOUS
  <2>1. CASE LoadConfigOrExit
    <3> DEFINE named == LoadConfig(booting, env, nodeEnv)
    <3>1. /\ boot = "down" /\ reported' = named /\ UNCHANGED <<booting, nodeEnv, env>>
          /\ boot' = IF named = {} THEN "serving" ELSE "refused"
      BY <2>1 DEF LoadConfigOrExit
    <3>2. named = {} <=> NothingNamed(booting, env, nodeEnv)
      BY DEF LoadConfig, NothingNamed
    <3>3. NothingNamed(booting, env, nodeEnv)' <=> NothingNamed(booting, env, nodeEnv)
      BY <3>1 DEF NothingNamed
    <3> HIDE DEF named
    <3>4. CASE named = {}
      BY <3>1, <3>2, <3>4 DEF BootHolds
    <3>5. CASE named # {}
      <4>1. reported' = LoadConfig(booting, env, nodeEnv)
        BY <3>1 DEF named
      <4> QED
        BY <3>1, <3>5, <4>1 DEF BootHolds
    <3> QED
      BY <3>4, <3>5
  <2>2. CASE CorrectReported
    <3> DEFINE f == Corrected(env, LoadConfig(booting, env, nodeEnv))
    <3>1. /\ boot = "refused" /\ boot' = "down" /\ env' = f
          /\ UNCHANGED <<booting, nodeEnv, reported>>
      BY <2>2 DEF CorrectReported, BootHolds
    <3>2. IsEnvironment(booting, f)
      BY CorrectionIsEnvironment DEF BootHolds
    <3> HIDE DEF f
    <3> QED
      BY <3>1, <3>2 DEF BootHolds
  <2>3. CASE UNCHANGED bootVars
    BY <2>3 DEF bootVars, BootHolds
  <2> QED
    BY <2>1, <2>2, <2>3 DEF BootNext
<1> QED
  BY <1>1, BootStarts, PTL DEF BootSpec

(* A service that serves has every setting that has no default, none of the wrong     *)
(* form and no alert channel half filled in (config.ts:276-285); and past the schema, *)
(* however many settings are wrong, one refusal names all of them (config.ts:131-133). *)
THEOREM ServicesBootSoundly == BootSpec => []BootsSoundly
<1>1. BootHolds => BootsSoundly
  <2> SUFFICES ASSUME BootHolds
               PROVE  BootsSoundly
    OBVIOUS
  <2>1. ASSUME boot = "refused", reported \cap Formed[booting] = {}
        PROVE  LoadConfig(booting, Corrected(env, reported), nodeEnv) = {}
    <3>1. FormProblems(booting, env) \subseteq Formed[booting]
      BY DEF FormProblems
    <3>2. reported = LoadConfig(booting, env, nodeEnv)
      BY <2>1 DEF BootHolds
    <3>3. FormProblems(booting, env) = {}
      BY <2>1, <3>1, <3>2 DEF LoadConfig
    <3> QED
      BY <3>2, <3>3, CorrectionSettles DEF BootHolds, LoadConfig
  <2>2. boot = "serving" => NothingNamed(booting, env, nodeEnv)
    BY DEF BootHolds
  <2>3. booting \in DOMAIN Settings /\ IsEnvironment(booting, env)
    BY DEF BootHolds
  <2> QED
    BY <2>1, <2>2, <2>3, ServingIsSound DEF BootsSoundly, EmailWhole, TeamsWhole
<1> QED
  BY <1>1, BootKeeps, PTL

(* What a refusal names are settings of the service. *)
LEMMA SettingsAreNamed ==
  ASSUME NEW s \in DOMAIN Settings, NEW e, NEW mode
  PROVE  LoadConfig(s, e, mode) \subseteq Settings[s]
<1>1. FormProblems(s, e) \subseteq Settings[s]
  BY Services, CoreSettings, AuditSettings, MediaSettings DEF FormProblems, Formed
<1>2. CoreProblems(e, mode # "test") \subseteq Settings["core_api"]
  <2>1. AuthProblems(e) \subseteq AlertSettings
    BY DEF AuthProblems, AlertSettings
  <2>2. {"TEAMS_WEBHOOK_URL", "DASHBOARD_BASE_URL"} \subseteq AlertSettings
    BY DEF AlertSettings
  <2>3. "APPLICATIONINSIGHTS_CONNECTION_STRING" \in CoreSecrets
    BY DEF CoreSecrets
  <2> QED
    BY <2>1, <2>2, <2>3, CoreSettings DEF CoreProblems
<1>3. AuditProblems(e, mode # "test") \subseteq Settings["audit"]
  BY AuditSettings DEF AuditProblems, AuditSecrets
<1>4. MediaProblems(e, mode # "test") \subseteq Settings["media"]
  BY MediaSettings DEF MediaProblems, MediaSecrets
<1>5. Problems(s, e, mode # "test") \subseteq Settings[s]
  BY <1>2, <1>3, <1>4, Services DEF Problems
<1> QED
  BY <1>1, <1>5 DEF LoadConfig

(* Types of a service that starts; what is reported are settings of its own. *)
THEOREM BootIsTyped == BootSpec => []BootTypeOK
<1> DEFINE Inv == reported \subseteq Settings[booting]
<1>1. BootInit => Inv
  BY DEF BootInit
<1>2. BootHolds /\ Inv /\ [BootNext]_bootVars => Inv'
  <2> SUFFICES ASSUME BootHolds, Inv, [BootNext]_bootVars
               PROVE  Inv'
    OBVIOUS
  <2>1. CASE LoadConfigOrExit
    BY <2>1, SettingsAreNamed DEF LoadConfigOrExit, BootHolds
  <2>2. CASE CorrectReported
    BY <2>2 DEF CorrectReported
  <2>3. CASE UNCHANGED bootVars
    BY <2>3 DEF bootVars
  <2> QED
    BY <2>1, <2>2, <2>3 DEF BootNext
<1>3. BootHolds /\ Inv => BootTypeOK
  BY DEF BootHolds, BootTypeOK, IsEnvironment
<1> HIDE DEF Inv
<1> QED
  BY <1>1, <1>2, <1>3, BootKeeps, PTL DEF BootSpec

-----------------------------------------------------------------------------
(***************************************************************************)
(* Session.  The designation, or without one the last account of the cache,   *)
(* is who last signed in; and without one no page acts while an account is    *)
(* cached.                                                                   *)
(***************************************************************************)

AccountsTyped ==
  /\ cache \in Seq(Accounts)
  /\ active \in Accounts \cup {NoAccount} /\ chosen \in Accounts \cup {NoAccount}
  /\ window \in [Windows -> {"closed", "wiring", "clearing", "open", "away"}]
  /\ coming \in [Windows -> Accounts \cup {NoAccount}]
  /\ renewing \in [Windows -> Accounts \cup {NoAccount}]

ChoiceHolds ==
  /\ ~crossed /\ active # NoAccount => chosen = active
  /\ ~crossed /\ active = NoAccount /\ cache # <<>> => chosen = cache[Len(cache)]
  /\ active = NoAccount /\ cache # <<>> => \A t \in Windows : window[t] # "open"
  /\ \A t \in Windows : renewing[t] # NoAccount => window[t] = "open"
  /\ misattributed => crossed

DeviceInvariant == AccountsTyped /\ ChoiceHolds

ProvisionInvariant ==
  /\ hit \in [Hits -> HitStates] /\ \A h \in Hits : hit[h].at # "none" => hit[h].by \in Accounts
  /\ users \in [ids : SUBSET Accounts, emails : SUBSET Accounts]
  /\ provisionedIds \subseteq users.ids
  /\ \A h \in Hits : hit[h].at = "handling" => hit[h].by \in users.ids \/ hit[h].failed

(* A finite set can be listed: what the cache holds to begin with is a sequence.    *)
LEMMA ListedSet ==
  ASSUME NEW S, IsFiniteSet(S)
  PROVE  SetToSeq(S) \in Seq(S) /\ IsInjective(SetToSeq(S))
<1>1. Cardinality(S) \in Nat /\ ExistsBijection(1 .. Cardinality(S), S)
  BY FS_CardinalityType
<1>2. PICK g : g \in Bijection(1 .. Cardinality(S), S)
  BY <1>1 DEF ExistsBijection
<1>3. g \in [1 .. Cardinality(S) -> S] /\ IsInjective(g)
  BY <1>2 DEF Bijection, Injection
<1>4. SetToSeq(S) \in [1 .. Cardinality(S) -> S] /\ IsInjective(SetToSeq(S))
  BY <1>3 DEF SetToSeq
<1> QED
  BY <1>1, <1>4

LEMMA DeviceStarts == SessionInit => DeviceInvariant
<1> SUFFICES ASSUME SessionInit
             PROVE  DeviceInvariant
  OBVIOUS
<1>1. PICK last \in Accounts \cup {NoAccount}, others \in SUBSET Accounts :
       /\ last = NoAccount => others = {}
       /\ cache = SetToSeq(others \ {last}) \o (IF last = NoAccount THEN <<>> ELSE <<last>>)
       /\ chosen = last
       /\ active \in {NoAccount, last}
  BY DEF SessionInit
<1> DEFINE early == SetToSeq(others \ {last})
<1>2. IsFiniteSet(others \ {last})
  BY AccountAssumption, FS_Subset
<1>3. early \in Seq(others \ {last})
  BY <1>2, ListedSet
<1>4. early \in Seq(Accounts)
  BY <1>3, SeqMonotonic
<1>5. cache \in Seq(Accounts) /\ (cache # <<>> => chosen = cache[Len(cache)])
  <2>1. CASE last = NoAccount
    <3>1. early = <<>>
      <4>1. others \ {last} = {}
        BY <1>1, <2>1
      <4>2. early \in Seq({})
        BY <1>3, <4>1
      <4> HIDE DEF early
      <4> QED
        BY <4>2, EmptySeq, ElementOfSeq
    <3> QED
      BY <1>1, <2>1, <3>1
  <2>2. CASE last # NoAccount
    <3>1. cache = early \o <<last>> /\ <<last>> \in Seq(Accounts) /\ Len(<<last>>) = 1
      BY <1>1, <2>2
    <3> HIDE DEF early
    <3>2. /\ cache \in Seq(Accounts) /\ Len(cache) = Len(early) + 1 /\ Len(early) \in Nat
          /\ cache[Len(early) + 1] = <<last>>[1]
      BY <1>4, <3>1, ConcatProperties, LenProperties
    <3> QED
      BY <1>1, <3>2
  <2> QED
    BY <2>1, <2>2
<1>6. AccountsTyped
  BY <1>1, <1>5 DEF SessionInit, AccountsTyped
<1>7. ChoiceHolds
  BY <1>1, <1>5 DEF SessionInit, ChoiceHolds
<1> QED
  BY <1>6, <1>7 DEF DeviceInvariant

LEMMA CacheGrows ==
  ASSUME NEW s \in Seq(Accounts), NEW a \in Accounts
  PROVE  (IF a \in ToSet(s) THEN s ELSE Append(s, a)) \in Seq(Accounts)
OBVIOUS

LEMMA CachedAccounts ==
  ASSUME NEW s \in Seq(Accounts), NEW a \in ToSet(s)
  PROVE  a \in Accounts /\ s # <<>>
<1>1. PICK i \in DOMAIN s : a = s[i]
  BY DEF ToSet
<1>2. i \in 1 .. Len(s)
  BY <1>1, LenProperties
<1> QED
  BY <1>1, <1>2, ElementOfSeq, EmptySeq

(* A page that wires itself designates an account only where it is the only one     *)
(* (active-account.ts:45-51), and waits in the other case.                          *)
LEMMA PageSteps ==
  ASSUME DeviceInvariant, NEW t \in Windows,
         \/ LoadPage(t) \/ WireActiveAccount(t) \/ CacheCleared(t) \/ Render(t)
         \/ SignIn(t) \/ SignOut(t)
         \/ \E a \in Accounts \cup {NoAccount} : ReturnFromEntra(t, a)
  PROVE  DeviceInvariant'
<1>1. CASE LoadPage(t)
  <2>1. AccountsTyped'
    BY <1>1 DEF LoadPage, Leave, DeviceInvariant, AccountsTyped, storageVars, choiceVars
  <2>2. ChoiceHolds'
    BY <1>1 DEF LoadPage, Leave, DeviceInvariant, AccountsTyped, ChoiceHolds, storageVars, choiceVars
  <2> QED
    BY <2>1, <2>2 DEF DeviceInvariant
<1>2. CASE WireActiveAccount(t)
  <2>0. window[t] = "wiring" /\ UNCHANGED <<cache, coming, renewing, chosen, misattributed, crossed>>
    BY <1>2 DEF WireActiveAccount, choiceVars
  <2>1. CASE active = NoAccount /\ Len(cache) > 1
    <3>1. window' = [window EXCEPT ![t] = "clearing"] /\ UNCHANGED active
      BY <1>2, <2>1 DEF WireActiveAccount
    <3>2. AccountsTyped'
      BY <2>0, <3>1 DEF DeviceInvariant, AccountsTyped
    <3>3. ChoiceHolds'
      BY <2>0, <3>1 DEF DeviceInvariant, AccountsTyped, ChoiceHolds
    <3> QED
      BY <3>2, <3>3 DEF DeviceInvariant
  <2>2. CASE ~(active = NoAccount /\ Len(cache) > 1)
    <3>1. /\ active' = IF active = NoAccount /\ Len(cache) = 1 THEN Head(cache) ELSE active
          /\ window' = [window EXCEPT ![t] = "open"]
      BY <1>2, <2>2 DEF WireActiveAccount, Mount
    <3>2. /\ cache \in Seq(Accounts) /\ Len(cache) \in Nat
          /\ cache = <<>> <=> Len(cache) = 0
          /\ Len(cache) = 1 => Head(cache) = cache[1] /\ cache[1] \in Accounts
      <4>1. cache \in Seq(Accounts)
        BY DEF DeviceInvariant, AccountsTyped
      <4>2. Len(cache) \in Nat
        BY <4>1, LenProperties
      <4>3. cache = <<>> <=> Len(cache) = 0
        BY <4>1, EmptySeq
      <4>4. ASSUME Len(cache) = 1
            PROVE  Head(cache) = cache[1] /\ cache[1] \in Accounts
        <5>1. 1 \in 1 .. Len(cache)
          BY <4>4
        <5>2. cache[1] \in Accounts
          BY <4>1, <5>1, ElementOfSeq
        <5>3. Head(cache) = cache[1]
          BY <4>1, <4>4
        <5> QED
          BY <5>2, <5>3
      <4> QED
        BY <4>1, <4>2, <4>3, <4>4
    <3>3. CASE active = NoAccount /\ Len(cache) = 1
      <4>1. active' = cache[1] /\ cache # <<>> /\ cache[1] \in Accounts
        BY <3>1, <3>2, <3>3
      <4>2. AccountsTyped'
        BY <2>0, <3>1, <4>1 DEF DeviceInvariant, AccountsTyped
      <4>3. ChoiceHolds'
        BY <2>0, <3>1, <3>3, <4>1, AccountAssumption DEF DeviceInvariant, AccountsTyped, ChoiceHolds
      <4> QED
        BY <4>2, <4>3 DEF DeviceInvariant
    <3>4. CASE active # NoAccount \/ Len(cache) # 1
      <4>1. active' = active /\ (active = NoAccount => cache = <<>>)
        BY <2>2, <3>1, <3>2, <3>4
      <4>2. AccountsTyped'
        BY <2>0, <3>1, <4>1 DEF DeviceInvariant, AccountsTyped
      <4>3. ChoiceHolds'
        BY <2>0, <3>1, <4>1 DEF DeviceInvariant, AccountsTyped, ChoiceHolds
      <4> QED
        BY <4>2, <4>3 DEF DeviceInvariant
    <3> QED
      BY <3>3, <3>4
  <2> QED
    BY <2>1, <2>2
<1>3. CASE CacheCleared(t)
  <2>1. AccountsTyped'
    BY <1>3 DEF CacheCleared, Mount, DeviceInvariant, AccountsTyped
  <2>2. ChoiceHolds'
    BY <1>3 DEF CacheCleared, Mount, DeviceInvariant, AccountsTyped, ChoiceHolds
  <2> QED
    BY <2>1, <2>2 DEF DeviceInvariant
<1>4. CASE Render(t)
  BY <1>4 DEF Render, DeviceInvariant, AccountsTyped, ChoiceHolds, storageVars, choiceVars
<1>5. CASE SignIn(t)
  <2>1. AccountsTyped'
    BY <1>5 DEF SignIn, Leave, DeviceInvariant, AccountsTyped, storageVars, choiceVars
  <2>2. ChoiceHolds'
    BY <1>5 DEF SignIn, Leave, DeviceInvariant, AccountsTyped, ChoiceHolds, storageVars, choiceVars
  <2> QED
    BY <2>1, <2>2 DEF DeviceInvariant
<1>6. CASE SignOut(t)
  <2>1. AccountsTyped'
    BY <1>6 DEF SignOut, Leave, DeviceInvariant, AccountsTyped
  <2>2. ChoiceHolds'
    BY <1>6 DEF SignOut, Leave, DeviceInvariant, AccountsTyped, ChoiceHolds
  <2> QED
    BY <2>1, <2>2 DEF DeviceInvariant
<1>7. CASE \E a \in Accounts \cup {NoAccount} : ReturnFromEntra(t, a)
  <2>1. AccountsTyped'
    BY <1>7 DEF ReturnFromEntra, DeviceInvariant, AccountsTyped, storageVars, choiceVars
  <2>2. ChoiceHolds'
    BY <1>7 DEF ReturnFromEntra, DeviceInvariant, AccountsTyped, ChoiceHolds, storageVars, choiceVars
  <2> QED
    BY <2>1, <2>2 DEF DeviceInvariant
<1> QED
  BY <1>1, <1>2, <1>3, <1>4, <1>5, <1>6, <1>7

(* A sign-in chooses; a token for the designated account confirms the choice; one    *)
(* that was renewed for another crosses it (api-token.ts, active-account.ts:45-51).   *)
LEMMA TokenSteps ==
  ASSUME DeviceInvariant, NEW t \in Windows,
         HandleRedirect(t) \/ AcquireToken(t) \/ TokenRenewed(t) \/ TokenRefused(t)
  PROVE  DeviceInvariant'
<1>0. cache \in Seq(Accounts)
  BY DEF DeviceInvariant, AccountsTyped
<1>1. CASE HandleRedirect(t)
  <2>1. coming[t] \in Accounts
    BY <1>1 DEF HandleRedirect, DeviceInvariant, AccountsTyped
  <2>2. cache' \in Seq(Accounts)
    BY <1>0, <1>1, <2>1, CacheGrows DEF HandleRedirect
  <2>3. AccountsTyped'
    BY <1>1, <2>1, <2>2 DEF HandleRedirect, DeviceInvariant, AccountsTyped
  <2>4. ChoiceHolds'
    BY <1>1, <2>1, AccountAssumption DEF HandleRedirect, DeviceInvariant, AccountsTyped, ChoiceHolds
  <2> QED
    BY <2>3, <2>4 DEF DeviceInvariant
<1>2. CASE AcquireToken(t)
  <2> DEFINE a == ActiveAccount(t)
  <2>1. /\ window[t] = "open" /\ a \in ToSet(cache)
        /\ UNCHANGED <<cache, window, coming, chosen, crossed>>
    BY <1>2 DEF AcquireToken
  <2>2. a \in Accounts /\ cache # <<>>
    BY <1>0, <2>1, CachedAccounts
  <2>3. active # NoAccount
    BY <2>1, <2>2 DEF DeviceInvariant, ChoiceHolds
  <2>4. a = active
    BY <2>3 DEF ActiveAccount
  <2>5. \/ /\ active' = a /\ UNCHANGED renewing
           /\ misattributed' = (misattributed \/ a # chosen)
        \/ /\ renewing' = [renewing EXCEPT ![t] = a] /\ UNCHANGED <<active, misattributed>>
    BY <1>2 DEF AcquireToken, SendAs
  <2> HIDE DEF a
  <2>6. AccountsTyped'
    BY <2>1, <2>2, <2>5 DEF DeviceInvariant, AccountsTyped
  <2>7. misattributed' => crossed
    BY <2>3, <2>4, <2>5 DEF DeviceInvariant, ChoiceHolds
  <2>8. active' = active
    BY <2>4, <2>5
  <2>9. \A u \in Windows : renewing'[u] # NoAccount => window[u] = "open"
    BY <2>1, <2>5 DEF DeviceInvariant, AccountsTyped, ChoiceHolds
  <2>10. ChoiceHolds'
    BY <2>1, <2>3, <2>7, <2>8, <2>9 DEF DeviceInvariant, ChoiceHolds
  <2> QED
    BY <2>6, <2>10 DEF DeviceInvariant
<1>3. CASE TokenRenewed(t)
  <2> DEFINE a == renewing[t]
  <2>1. a \in Accounts /\ a # NoAccount
    BY <1>3 DEF TokenRenewed, DeviceInvariant, AccountsTyped
  <2>2. /\ cache' = (IF a \in ToSet(cache) THEN cache ELSE Append(cache, a))
        /\ active' = a
        /\ renewing' = [renewing EXCEPT ![t] = NoAccount]
        /\ UNCHANGED <<window, coming, chosen>>
    BY <1>3 DEF TokenRenewed
  <2>3. /\ crossed' = (crossed \/ a # chosen)
        /\ misattributed' = (misattributed \/ a # chosen)
    BY <1>3 DEF TokenRenewed, SendAs
  <2> HIDE DEF a
  <2>4. cache' \in Seq(Accounts)
    BY <1>0, <2>1, <2>2, CacheGrows
  <2>5. AccountsTyped'
    BY <2>1, <2>2, <2>4 DEF DeviceInvariant, AccountsTyped
  <2>6. /\ ~crossed' => chosen = a
        /\ misattributed' => crossed'
    BY <2>3 DEF DeviceInvariant, ChoiceHolds
  <2>7. \A u \in Windows : renewing'[u] # NoAccount => window[u] = "open"
    BY <2>2 DEF DeviceInvariant, AccountsTyped, ChoiceHolds
  <2>8. ChoiceHolds'
    BY <2>1, <2>2, <2>6, <2>7 DEF ChoiceHolds
  <2> QED
    BY <2>5, <2>8 DEF DeviceInvariant
<1>4. CASE TokenRefused(t)
  <2>1. /\ UNCHANGED <<cache, active, coming, chosen, misattributed, crossed>>
        /\ \/ /\ window' = [window EXCEPT ![t] = "away"]
              /\ renewing' = [renewing EXCEPT ![t] = NoAccount]
           \/ /\ renewing' = [renewing EXCEPT ![t] = NoAccount]
              /\ UNCHANGED window
    BY <1>4 DEF TokenRefused, Leave, storageVars, choiceVars
  <2>2. AccountsTyped'
    BY <2>1 DEF DeviceInvariant, AccountsTyped
  <2>3. /\ \A u \in Windows : renewing'[u] # NoAccount => window'[u] = "open"
        /\ \A u \in Windows : window[u] # "open" => window'[u] # "open"
    BY <2>1 DEF DeviceInvariant, AccountsTyped, ChoiceHolds
  <2>4. ChoiceHolds'
    BY <2>1, <2>3 DEF DeviceInvariant, ChoiceHolds
  <2> QED
    BY <2>2, <2>4 DEF DeviceInvariant
<1> QED
  BY <1>1, <1>2, <1>3, <1>4

(* An id is cached only once its row is there, which nothing removes               *)
(* (user-provisioning.ts:52).                                                      *)
LEMMA ProvisionSteps ==
  ASSUME ProvisionInvariant, ProvisionNext
  PROVE  ProvisionInvariant'
<1> USE DEF ProvisionInvariant, HitStates
<1>1. CASE \E h \in Hits, a \in Accounts : VerifyToken(h, a)
  BY <1>1 DEF VerifyToken
<1>2. CASE \E h \in Hits : EnsureUserProvisioned(h)
  BY <1>2 DEF EnsureUserProvisioned
<1>3. CASE \E h \in Hits : ProvisionUser(h)
  <2> PICK h \in Hits : ProvisionUser(h)
    BY <1>3
  <2>1. CASE /\ users' = [ids |-> users.ids \cup {hit[h].by}, emails |-> users.emails \cup {hit[h].by}]
             /\ provisionedIds' = provisionedIds \cup {hit[h].by}
             /\ hit' = [hit EXCEPT ![h].at = "handling"]
    <3> DEFINE by == hit[h].by
    <3>1. by \in Accounts
      BY DEF ProvisionUser
    <3>2. /\ users'.ids = users.ids \cup {by} /\ users'.emails = users.emails \cup {by}
          /\ users' \in [ids : SUBSET Accounts, emails : SUBSET Accounts]
      BY <2>1, <3>1
    <3>3. hit' \in [Hits -> HitStates] /\ \A g \in Hits : hit'[g].by = hit[g].by
      BY <2>1
    <3>6. \A g \in Hits : hit'[g].at # "none" => hit'[g].by \in Accounts
      BY <2>1, <3>1, <3>3
    <3>4. provisionedIds' \subseteq users'.ids
      BY <2>1, <3>2
    <3>5. \A g \in Hits : hit'[g].at = "handling" => hit'[g].by \in users'.ids \/ hit'[g].failed
      <4> SUFFICES ASSUME NEW g \in Hits, hit'[g].at = "handling"
                   PROVE  hit'[g].by \in users'.ids \/ hit'[g].failed
        OBVIOUS
      <4>1. CASE g = h
        BY <2>1, <3>2, <4>1
      <4>2. CASE g # h
        <5>1. hit'[g] = hit[g]
          BY <2>1, <4>2
        <5> QED
          BY <3>2, <5>1
      <4> QED
        BY <4>1, <4>2
    <3> QED
      BY <3>2, <3>3, <3>4, <3>5, <3>6
  <2>2. CASE /\ hit' = [hit EXCEPT ![h].at = "handling", ![h].failed = TRUE]
             /\ UNCHANGED <<users, provisionedIds>>
    <3>1. hit' \in [Hits -> HitStates] /\ \A g \in Hits : hit'[g].by = hit[g].by
      BY <2>2
    <3>2. \A g \in Hits : hit'[g].at # "none" => hit'[g].by \in Accounts
      <4>1. hit[h].by \in Accounts
        BY DEF ProvisionUser
      <4> QED
        BY <2>2, <3>1, <4>1
    <3>3. \A g \in Hits : hit'[g].at = "handling" => hit'[g].by \in users.ids \/ hit'[g].failed
      <4> SUFFICES ASSUME NEW g \in Hits, hit'[g].at = "handling"
                   PROVE  hit'[g].by \in users.ids \/ hit'[g].failed
        OBVIOUS
      <4>1. CASE g = h
        BY <2>2, <4>1
      <4>2. CASE g # h
        <5>1. hit'[g] = hit[g]
          BY <2>2, <4>2
        <5> QED
          BY <5>1
      <4> QED
        BY <4>1, <4>2
    <3> QED
      BY <2>2, <3>1, <3>2, <3>3
  <2> QED
    BY <2>1, <2>2 DEF ProvisionUser
<1>4. CASE \E h \in Hits : Respond(h)
  BY <1>4 DEF Respond, Idle
<1>5. CASE CoreApiRestarts
  BY <1>5 DEF CoreApiRestarts, Idle
<1> QED
  BY <1>1, <1>2, <1>3, <1>4, <1>5 DEF ProvisionNext

(* Both kinds of steps leave each other's part alone. *)
LEMMA SessionKeeps == SessionSpec => [](DeviceInvariant /\ ProvisionInvariant)
<1> DEFINE Inv == DeviceInvariant /\ ProvisionInvariant
<1>1. SessionInit => ProvisionInvariant
  BY AccountAssumption DEF SessionInit, ProvisionInvariant, HitStates, Idle
<1>2. Inv /\ [SessionNext]_sessionVars => Inv'
  <2> SUFFICES ASSUME Inv, [SessionNext]_sessionVars
               PROVE  Inv'
    OBVIOUS
  <2>1. CASE DeviceNext
    <3>1. UNCHANGED serverVars
      BY <2>1 DEF DeviceNext, LoadPage, WireActiveAccount, CacheCleared, HandleRedirect, Render, SignIn,
             SignOut, AcquireToken, TokenRenewed, TokenRefused, ReturnFromEntra
    <3>2. ProvisionInvariant'
      BY <3>1 DEF ProvisionInvariant, serverVars
    <3>3. DeviceInvariant'
      BY <2>1, PageSteps, TokenSteps DEF DeviceNext
    <3> QED
      BY <3>2, <3>3
  <2>2. CASE ProvisionNext
    <3>1. UNCHANGED deviceVars
      BY <2>2 DEF ProvisionNext, VerifyToken, EnsureUserProvisioned, ProvisionUser, Respond,
             CoreApiRestarts
    <3>2. DeviceInvariant'
      BY <3>1 DEF DeviceInvariant, AccountsTyped, ChoiceHolds, deviceVars, storageVars, windowVars,
             choiceVars
    <3> QED
      BY <2>2, <3>2, ProvisionSteps
  <2>3. CASE UNCHANGED sessionVars
    BY <2>3 DEF sessionVars, deviceVars, serverVars, storageVars, windowVars, choiceVars,
           DeviceInvariant, AccountsTyped, ChoiceHolds, ProvisionInvariant
  <2> QED
    BY <2>1, <2>2, <2>3 DEF SessionNext
<1> QED
  BY <1>1, <1>2, DeviceStarts, PTL DEF SessionSpec

(* Every request is sent as the account that last signed in on the device, unless a *)
(* renewal begun for another account came in between (active-account.ts:45-51); and  *)
(* an id that the service no longer inserts has its row (user-provisioning.ts:52).   *)
THEOREM RequestsActAsChosen == SessionSpec => []ActsAsChosen
<1>1. DeviceInvariant /\ ProvisionInvariant => ActsAsChosen
  BY DEF DeviceInvariant, ChoiceHolds, ProvisionInvariant, ActsAsChosen
<1> QED
  BY <1>1, SessionKeeps, PTL

(* What the types of Session add to the invariants above. *)
PagesTyped ==
  /\ IsInjective(cache)
  /\ accounts \in [Windows -> Seq(Accounts)]
  /\ page \in [Windows -> {"none", "login", "unauthorized", "app"}]
  /\ misattributed \in BOOLEAN /\ crossed \in BOOLEAN
  /\ provisionedIds \subseteq Accounts /\ allowed \in AllowedSets

LEMMA OnceMore ==
  ASSUME NEW s \in Seq(Accounts), IsInjective(s), NEW a \in Accounts, a \notin ToSet(s)
  PROVE  IsInjective(Append(s, a))
<1>1. /\ Len(s) \in Nat /\ DOMAIN s = 1 .. Len(s)
      /\ DOMAIN Append(s, a) = 1 .. Len(s) + 1
      /\ \A i \in 1 .. Len(s) : Append(s, a)[i] = s[i]
      /\ Append(s, a)[Len(s) + 1] = a
  <2>1. Append(s, a) \in Seq(Accounts)
    OBVIOUS
  <2> QED
    BY <2>1, AppendProperties, LenProperties
<1>2. \A i \in 1 .. Len(s) : s[i] # a
  BY <1>1 DEF ToSet
<1> QED
  BY <1>1, <1>2 DEF IsInjective

LEMMA PagesStart == SessionInit => PagesTyped
<1> SUFFICES ASSUME SessionInit
             PROVE  PagesTyped
  OBVIOUS
<1>1. PICK last \in Accounts \cup {NoAccount}, others \in SUBSET Accounts :
        cache = SetToSeq(others \ {last}) \o (IF last = NoAccount THEN <<>> ELSE <<last>>)
  BY DEF SessionInit
<1> DEFINE early == SetToSeq(others \ {last})
<1>2. early \in Seq(others \ {last}) /\ IsInjective(early)
  <2>1. IsFiniteSet(others \ {last})
    BY AccountAssumption, FS_Subset
  <2> QED
    BY <2>1, ListedSet
<1>3. early \in Seq(Accounts) /\ last \notin ToSet(early)
  <2> HIDE DEF early
  <2>1. early \in Seq(Accounts)
    BY <1>2, SeqMonotonic
  <2>2. \A i \in 1 .. Len(early) : early[i] # last
    BY <1>2, ElementOfSeq
  <2> QED
    BY <2>1, <2>2, LenProperties DEF ToSet
<1>4. IsInjective(cache)
  <2> HIDE DEF early
  <2>1. CASE last = NoAccount
    <3>1. cache = early \o <<>>
      BY <1>1, <2>1 DEF early
    <3> QED
      BY <1>2, <1>3, <3>1, ConcatEmptySeq
  <2>2. CASE last # NoAccount
    <3>1. cache = Append(early, last)
      BY <1>1, <1>3, <2>2 DEF early
    <3> QED
      BY <1>2, <1>3, <2>2, <3>1, OnceMore
  <2> QED
    BY <2>1, <2>2
<1>5. accounts \in [Windows -> Seq(Accounts)]
  <2>1. accounts = [t \in Windows |-> <<>>]
    BY DEF SessionInit
  <2>2. <<>> \in Seq(Accounts)
    OBVIOUS
  <2> QED
    BY <2>1, <2>2
<1>6. /\ page \in [Windows -> {"none", "login", "unauthorized", "app"}]
      /\ misattributed \in BOOLEAN /\ crossed \in BOOLEAN
      /\ provisionedIds \subseteq Accounts /\ allowed \in AllowedSets
  BY DEF SessionInit
<1> QED
  BY <1>4, <1>5, <1>6 DEF PagesTyped

LEMMA CacheGrowsOnce ==
  ASSUME NEW s \in Seq(Accounts), IsInjective(s), NEW a \in Accounts
  PROVE  IsInjective(IF a \in ToSet(s) THEN s ELSE Append(s, a))
BY OnceMore

LEMMA DevicePages ==
  ASSUME DeviceInvariant, PagesTyped, NEW t \in Windows,
         \/ LoadPage(t) \/ WireActiveAccount(t) \/ CacheCleared(t) \/ HandleRedirect(t) \/ Render(t)
         \/ SignIn(t) \/ SignOut(t) \/ AcquireToken(t) \/ TokenRenewed(t) \/ TokenRefused(t)
         \/ \E a \in Accounts \cup {NoAccount} : ReturnFromEntra(t, a)
  PROVE  PagesTyped'
<1>0. /\ cache \in Seq(Accounts) /\ <<>> \in Seq(Accounts) /\ IsInjective(<<>>)
      /\ coming \in [Windows -> Accounts \cup {NoAccount}]
      /\ renewing \in [Windows -> Accounts \cup {NoAccount}]
  BY DEF DeviceInvariant, AccountsTyped, IsInjective
<1>1. CASE LoadPage(t) \/ SignIn(t)
  BY <1>0, <1>1 DEF LoadPage, SignIn, Leave, PagesTyped, storageVars, choiceVars, serverVars
<1>2. CASE WireActiveAccount(t)
  BY <1>0, <1>2 DEF WireActiveAccount, Mount, PagesTyped, choiceVars, serverVars
<1>3. CASE CacheCleared(t)
  BY <1>0, <1>3 DEF CacheCleared, Mount, PagesTyped, serverVars
<1>4. CASE HandleRedirect(t)
  <2>1. coming[t] \in Accounts
    BY <1>0, <1>4 DEF HandleRedirect
  <2>2. cache' \in Seq(Accounts) /\ IsInjective(cache')
    BY <1>0, <1>4, <2>1, CacheGrows, CacheGrowsOnce DEF HandleRedirect, PagesTyped
  <2> QED
    BY <1>4, <2>2 DEF HandleRedirect, PagesTyped, serverVars
<1>5. CASE Render(t)
  <2>1. PICK list \in {accounts[t], cache} :
          /\ accounts' = [accounts EXCEPT ![t] = list]
          /\ page' = [page EXCEPT ![t] = PageFor(list)]
    BY <1>5 DEF Render
  <2>2. list \in Seq(Accounts)
    BY <1>0 DEF PagesTyped
  <2>3. PageFor(list) \in {"login", "app", "unauthorized"}
    BY DEF PageFor
  <2> QED
    BY <1>5, <2>1, <2>2, <2>3 DEF Render, PagesTyped, storageVars, choiceVars, serverVars
<1>6. CASE SignOut(t)
  BY <1>0, <1>6 DEF SignOut, Leave, PagesTyped, serverVars
<1>7. CASE AcquireToken(t)
  BY <1>7 DEF AcquireToken, SendAs, PagesTyped, serverVars
<1>8. CASE TokenRenewed(t)
  <2>1. renewing[t] \in Accounts
    BY <1>0, <1>8 DEF TokenRenewed
  <2>2. IsInjective(cache')
    BY <1>0, <1>8, <2>1, CacheGrowsOnce DEF TokenRenewed, PagesTyped
  <2> QED
    BY <1>8, <2>2 DEF TokenRenewed, SendAs, PagesTyped, serverVars
<1>9. CASE TokenRefused(t)
  BY <1>0, <1>9 DEF TokenRefused, Leave, PagesTyped, storageVars, choiceVars, serverVars
<1>10. CASE \E a \in Accounts \cup {NoAccount} : ReturnFromEntra(t, a)
  BY <1>10 DEF ReturnFromEntra, PagesTyped, storageVars, choiceVars, serverVars
<1> QED
  BY <1>1, <1>2, <1>3, <1>4, <1>5, <1>6, <1>7, <1>8, <1>9, <1>10

LEMMA ServerPages ==
  ASSUME ProvisionInvariant, PagesTyped, ProvisionNext
  PROVE  PagesTyped'
<1>1. UNCHANGED <<cache, accounts, page, misattributed, crossed, allowed>>
  BY DEF ProvisionNext, VerifyToken, EnsureUserProvisioned, ProvisionUser, Respond, CoreApiRestarts,
         deviceVars, storageVars, windowVars, choiceVars
<1>2. \/ provisionedIds' = provisionedIds \/ provisionedIds' = {}
      \/ \E h \in Hits : hit[h].at # "none" /\ provisionedIds' = provisionedIds \cup {hit[h].by}
  BY DEF ProvisionNext, VerifyToken, EnsureUserProvisioned, ProvisionUser, Respond, CoreApiRestarts
<1>3. provisionedIds' \subseteq Accounts
  BY <1>2 DEF PagesTyped, ProvisionInvariant
<1> QED
  BY <1>1, <1>3 DEF PagesTyped

(* Types of the device and of the users; no account is cached twice. *)
THEOREM SessionIsTyped == SessionSpec => []SessionTypeOK
<1>1. DeviceInvariant /\ ProvisionInvariant /\ PagesTyped /\ [SessionNext]_sessionVars => PagesTyped'
  <2> SUFFICES ASSUME DeviceInvariant, ProvisionInvariant, PagesTyped, [SessionNext]_sessionVars
               PROVE  PagesTyped'
    OBVIOUS
  <2>1. CASE DeviceNext
    BY <2>1, DevicePages DEF DeviceNext
  <2>2. CASE ProvisionNext
    BY <2>2, ServerPages
  <2>3. CASE UNCHANGED sessionVars
    BY <2>3 DEF sessionVars, deviceVars, serverVars, storageVars, windowVars, choiceVars, PagesTyped
  <2> QED
    BY <2>1, <2>2, <2>3 DEF SessionNext
<1>2. DeviceInvariant /\ ProvisionInvariant /\ PagesTyped => SessionTypeOK
  BY DEF DeviceInvariant, AccountsTyped, ProvisionInvariant, PagesTyped, SessionTypeOK
<1> QED
  BY <1>1, <1>2, PagesStart, SessionKeeps, PTL DEF SessionSpec
=============================================================================
