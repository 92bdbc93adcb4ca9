------------------------------- MODULE Reports -------------------------------
(***************************************************************************)
(* Signed exports of inspections (ADR 0022): the job the Audit Service runs  *)
(* off the request path, the data it asks of the Core API, its check of that *)
(* data against the audit chain, and the dashboard that shows the job.       *)
(*                                                                         *)
(* A stored inspection is as submitted or altered behind the program's back; *)
(* its event in the chain is as sealed or rewritten to match.  A file is the *)
(* record of what a reader finds in it, and its digest and signature are     *)
(* injective names for it.                                                  *)
(***************************************************************************)
EXTENDS Naturals, Sequences, FiniteSets

CONSTANTS
  Exports,     \* export jobs
  Records,     \* inspections
  Selections,  \* which of them a job may be asked to report
  NoFile,
  MaxUpsets    \* bound on failing calls, restarts and altered rows

ASSUME UpsetAssumption == Selections \subseteq SUBSET Records /\ MaxUpsets \in Nat

VARIABLES
  record,   \* core_db: the stored inspections
  trail,    \* audit_db: their INSPECTION_SUBMITTED events, in seq order
  request,  \* the body a job was asked for with
  step,     \* where generateReport is
  draft,    \* what it has put together
  row,      \* report_jobs
  blob,     \* the file in the reports container
  listed,   \* the status My Exports shows
  saved,    \* the file the user downloaded
  lost,     \* history: jobs whose process died, or whose last update failed
  upsets

storeVars  == <<record, trail>>
exportVars == <<request, step, draft, row, blob, lost>>
screenVars == <<listed, saved>>
reportVars == <<storeVars, exportVars, screenVars, upsets>>

Marks == {"VERIFIED", "MISMATCH", "NO_AUDIT_EVENT"}
(* rows: how each inspection in the file is marked; wrong: those whose data is not *)
(* what was submitted; chain: what the file says of the chain                     *)
File == [rows : UNION {[R -> Marks] : R \in SUBSET Records}, wrong : SUBSET Records,
         chain : {"VERIFIED", "BROKEN", "NOT_SHOWN"}]
ASSUME NoFileAssumption == NoFile \notin File

(* what the form asks for, and the PDF without its chain section that the API allows *)
Requests == [records : Selections, format : {"CSV", "PDF", "PDF without chain"}]
Statuses == {"ABSENT", "PROCESSING", "READY", "FAILED"}
Unwritten == [status |-> "ABSENT", signed |-> NoFile]
Blank == [rows |-> <<>>, wrong |-> {}, chain |-> "NOT_SHOWN"]

EventsOf(i) == {n \in DOMAIN trail : trail[n].of = i}
Upset == upsets < MaxUpsets /\ upsets' = upsets + 1

-----------------------------------------------------------------------------
(* The two databases *)

Submitted(i) ==
  /\ record[i] = "absent"
  /\ record' = [record EXCEPT ![i] = "as submitted"]
  /\ UNCHANGED <<trail, exportVars, screenVars, upsets>>

(* the outbox has delivered its event *)
Sealed(i) ==
  /\ record[i] # "absent" /\ EventsOf(i) = {}
  /\ trail' = Append(trail, [of |-> i, seals |-> "as submitted", intact |-> TRUE])
  /\ UNCHANGED <<record, exportVars, screenVars, upsets>>

(* Someone with a database login changes an inspection, or a stored event: its    *)
(* sealed content hash then fits the change, and its own hash no longer does.     *)
AlterRecord(i) ==
  /\ record[i] = "as submitted"
  /\ Upset
  /\ record' = [record EXCEPT ![i] = "altered"]
  /\ UNCHANGED <<trail, exportVars, screenVars>>

RewriteEvent(n) ==
  /\ trail[n].intact
  /\ Upset
  /\ trail' = [trail EXCEPT ![n].seals = "altered", ![n].intact = FALSE]
  /\ UNCHANGED <<record, exportVars, screenVars>>

-----------------------------------------------------------------------------
(* POST /reports/export and generateReport *)

(* The row is there before the 202; the dashboard reads its list again when the    *)
(* answer comes.                                                               *)
RequestExport(j, q) ==
  /\ step[j] = "none" /\ row[j].status = "ABSENT"
  /\ request' = [request EXCEPT ![j] = q]
  /\ row' = [row EXCEPT ![j].status = "PROCESSING"]
  /\ step' = [step EXCEPT ![j] = "asking"]
  /\ UNCHANGED <<storeVars, draft, blob, lost, screenVars, upsets>>

Goes(j, from, to) == step[j] = from /\ step' = [step EXCEPT ![j] = to]

(* POST /internal/reports-data: the stored inspections asked for *)
ReportData(j) == {i \in request[j].records : record[i] # "absent"}

(* fetchReportData *)
AskCoreApi(j) ==
  /\ Goes(j, "asking", "comparing")
  /\ draft' = [draft EXCEPT ![j] =
       [rows  |-> [i \in ReportData(j) |-> "NO_AUDIT_EVENT"],
        wrong |-> {i \in ReportData(j) : record[i] = "altered"},
        chain |-> "VERIFIED"]]
  /\ UNCHANGED <<storeVars, request, row, blob, lost, screenVars, upsets>>

(* each inspection against the content hash its event sealed *)
MarkOf(j, i) ==
  IF EventsOf(i) = {} THEN "NO_AUDIT_EVENT"
  ELSE LET data == IF i \in draft[j].wrong THEN "altered" ELSE "as submitted"
       IN IF \A n \in EventsOf(i) : trail[n].seals = data THEN "VERIFIED" ELSE "MISMATCH"

CompareDigests(j) ==
  /\ Goes(j, "comparing", "verifying")
  /\ draft' = [draft EXCEPT ![j].rows = [i \in DOMAIN @ |-> MarkOf(j, i)]]
  /\ UNCHANGED <<storeVars, request, row, blob, lost, screenVars, upsets>>

(* faulty: the segment ends with the oldest event that was found *)
VerifyOldest(j) ==
  /\ Goes(j, "verifying", "building")
  /\ LET matched == {i \in DOMAIN draft[j].rows : draft[j].rows[i] # "NO_AUDIT_EVENT"}
         found == {n \in DOMAIN trail : trail[n].of \in matched}
         broken == found # {} /\ \E m \in DOMAIN trail : ~trail[m].intact /\ \A n \in found : m <= n
     IN draft' = [draft EXCEPT ![j].chain = IF broken THEN "BROKEN" ELSE "VERIFIED"]
  /\ UNCHANGED <<storeVars, request, row, blob, lost, screenVars, upsets>>

(* verifyChainSegment: from genesis through the newest event that was found *)
VerifySegment(j) ==
  /\ Goes(j, "verifying", "building")
  /\ LET matched == {i \in DOMAIN draft[j].rows : draft[j].rows[i] # "NO_AUDIT_EVENT"}
         newest == {n \in DOMAIN trail : trail[n].of \in matched}
         broken == \E n \in newest : \E m \in 1 .. n : ~trail[m].intact
     IN draft' = [draft EXCEPT ![j].chain = IF broken THEN "BROKEN" ELSE "VERIFIED"]
  /\ UNCHANGED <<storeVars, request, row, blob, lost, screenVars, upsets>>

(* repeated on every row *)
CsvChain(j) == draft[j].chain

(* A section of its own, which the request can leave out.  A photo that is missing  *)
(* is noted in its place.                                                       *)
PdfChain(j) == IF request[j].format = "PDF" THEN draft[j].chain ELSE "NOT_SHOWN"

Build(j) ==
  /\ Goes(j, "building", "storing")
  /\ draft' = [draft EXCEPT ![j].chain =
       IF request[j].format = "CSV" THEN CsvChain(j) ELSE PdfChain(j)]
  /\ UNCHANGED <<storeVars, request, row, blob, lost, screenVars, upsets>>

(* the signed bytes, under a name of their own *)
Store(j) ==
  /\ Goes(j, "storing", "recording")
  /\ blob' = [blob EXCEPT ![j] = draft[j]]
  /\ UNCHANGED <<storeVars, request, draft, row, lost, screenVars, upsets>>

Record(j) ==
  /\ Goes(j, "recording", "none")
  /\ row' = [row EXCEPT ![j] = [status |-> "READY", signed |-> draft[j]]]
  /\ UNCHANGED <<storeVars, request, draft, blob, lost, screenVars, upsets>>

Working == {"asking", "comparing", "verifying", "building", "storing", "recording"}

(* Any call of the try block throws: before it took effect, or with its answer    *)
(* lost after it did.                                                          *)
Throws(j) ==
  /\ step[j] \in Working
  /\ Upset
  /\ step' = [step EXCEPT ![j] = "failing"]
  /\ \/ UNCHANGED <<blob, row>>
     \/ step[j] = "storing" /\ blob' = [blob EXCEPT ![j] = draft[j]] /\ UNCHANGED row
     \/ /\ step[j] = "recording"
        /\ row' = [row EXCEPT ![j] = [status |-> "READY", signed |-> draft[j]]]
        /\ UNCHANGED blob
  /\ UNCHANGED <<storeVars, request, draft, lost, screenVars>>

(* faulty: the error is logged and the row left alone *)
LogFailure(j) ==
  /\ Goes(j, "failing", "none")
  /\ UNCHANGED <<storeVars, request, draft, row, blob, lost, screenVars, upsets>>

(* the catch block *)
RecordFailure(j) ==
  /\ Goes(j, "failing", "none")
  /\ row' = [row EXCEPT ![j].status = "FAILED"]
  /\ UNCHANGED <<storeVars, request, draft, blob, lost, screenVars, upsets>>

FailureUnrecorded(j) ==
  /\ Goes(j, "failing", "none")
  /\ Upset
  /\ lost' = lost \cup {j}
  /\ UNCHANGED <<storeVars, request, draft, row, blob, screenVars>>

(* the jobs are promises of the process and nothing takes them up again *)
AuditServiceRestarts ==
  /\ \E j \in Exports : step[j] # "none"
  /\ Upset
  /\ lost' = lost \cup {j \in Exports : step[j] # "none"}
  /\ step' = [j \in Exports |-> "none"]
  /\ UNCHANGED <<storeVars, request, draft, row, blob, screenVars>>

-----------------------------------------------------------------------------
(* The dashboard *)

(* GET /reports/me/exports, GET /reports/:jobId and GET /reports/:jobId/download *)
MyExports == [j \in Exports |-> row[j].status]
JobStatus(j) == row[j].status
JobFile(j) == IF row[j].status = "READY" THEN blob[j] ELSE NoFile

(* The list is read when an export was accepted, and when the user comes back to   *)
(* it after half a minute.  The page turns to it at once, which unmounts the form  *)
(* and the poll of the job with it.                                             *)
ListExports ==
  /\ listed # MyExports /\ listed' = MyExports
  /\ UNCHANGED <<storeVars, exportVars, saved, upsets>>

(* A row shown READY can be downloaded: the job is read again, then its file.      *)
Download(j) ==
  /\ listed[j] = "READY" /\ JobStatus(j) = "READY" /\ saved[j] = NoFile
  /\ JobFile(j) # NoFile /\ saved' = [saved EXCEPT ![j] = JobFile(j)]
  /\ UNCHANGED <<storeVars, exportVars, listed, upsets>>

-----------------------------------------------------------------------------
ReportInit ==
  /\ record = [i \in Records |-> "absent"] /\ trail = <<>>
  /\ request = [j \in Exports |-> NoFile]
  /\ step = [j \in Exports |-> "none"] /\ draft = [j \in Exports |-> Blank]
  /\ row = [j \in Exports |-> Unwritten] /\ blob = [j \in Exports |-> NoFile]
  /\ listed = [j \in Exports |-> "ABSENT"] /\ saved = [j \in Exports |-> NoFile]
  /\ lost = {} /\ upsets = 0

Generates(j) ==
  \/ AskCoreApi(j) \/ CompareDigests(j) \/ VerifySegment(j) \/ Build(j) \/ Store(j)
  \/ Record(j) \/ RecordFailure(j)

ReportNext ==
  \/ \E i \in Records : Submitted(i) \/ Sealed(i) \/ AlterRecord(i)
  \/ \E n \in DOMAIN trail : RewriteEvent(n)
  \/ \E j \in Exports : \/ \E q \in Requests : RequestExport(j, q)
                        \/ Generates(j) \/ Throws(j) \/ FailureUnrecorded(j) \/ Download(j)
  \/ AuditServiceRestarts \/ ListExports

(* A promise of a live process is run, and every call in it returns or throws.     *)
ReportFairness == \A j \in Exports : WF_reportVars(Generates(j))

ReportSpec == ReportInit /\ [][ReportNext]_reportVars
FairReportSpec == ReportSpec /\ ReportFairness

-----------------------------------------------------------------------------
ReportTypeOK ==
  /\ record \in [Records -> {"absent", "as submitted", "altered"}]
  /\ trail \in Seq([of : Records, seals : {"as submitted", "altered"}, intact : BOOLEAN])
  /\ request \in [Exports -> Requests \cup {NoFile}]
  /\ step \in [Exports -> Working \cup {"none", "failing"}]
  /\ draft \in [Exports -> File]
  /\ row \in [Exports -> [status : Statuses, signed : File \cup {NoFile}]]
  /\ blob \in [Exports -> File \cup {NoFile}]
  /\ listed \in [Exports -> Statuses] /\ saved \in [Exports -> File \cup {NoFile}]
  /\ lost \subseteq Exports /\ upsets \in 0 .. MaxUpsets

(* An inspection that was altered, its sealed event rewritten to fit or not, never *)
(* leaves in a file that vouches for it, whenever between the reads of the job the *)
(* two changes fall: it is marked, or the file says that the chain is broken.  A    *)
(* PDF asked for without the chain section makes no such claim                     *)
(* (chain-segment.ts:7-18, report-csv.ts:22-26).                                 *)
TamperingShows ==
  \A j \in Exports :
    LET f == row[j].signed IN
    (f # NoFile /\ f.chain # "NOT_SHOWN") =>
      \A i \in f.wrong : f.rows[i] # "VERIFIED" \/ f.chain = "BROKEN"

(* READY promises a file: it is stored, and it is byte for byte the one that was   *)
(* signed, as is every file a user has saved (get-job.ts:51-63,               *)
(* download.ts:44-50).                                                        *)
ReadyIsSignedFile ==
  \A j \in Exports :
    /\ row[j].status = "READY" => row[j].signed # NoFile /\ blob[j] = row[j].signed
    /\ saved[j] # NoFile => saved[j] = row[j].signed

(* What a user downloads is what was signed, and what was signed does not vouch for *)
(* what was tampered with.                                                     *)
FilesTellTheTruth == TamperingShows /\ ReadyIsSignedFile

(* A job ends READY or FAILED whatever throws; only a restart, or a catch block    *)
(* whose own update fails, leaves it PROCESSING (generate-report.ts:12-16,         *)
(* export.ts:39-44).                                                          *)
EveryExportEnds ==
  \A j \in Exports :
    row[j].status = "PROCESSING" ~> (row[j].status \in {"READY", "FAILED"} \/ j \in lost)
==============================================================================
