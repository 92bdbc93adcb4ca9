------------------------------ MODULE Capture ------------------------------
(* One operator's phone: the checklist screen, the review screen, the draft *)
(* in sessionStorage, voice notes, evidence photos, category suggestions    *)
(* and the retried POST /inspections (src/apps/pwa/src).                    *)
(*                                                                          *)
(* JavaScript runs to completion, so one callback with the React effects it *)
(* triggers is one step; what interleaves is the operator, the network and  *)
(* the answers that come back after the screen they were asked from is gone. *)
(* The active template does not change during a run (module Publishing).     *)
EXTENDS Naturals, FiniteSets, Sequences

CONSTANTS
    Machines,          \* pieces of equipment the operator may open
    Items,             \* keys of the checklist items
    Required,          \* those that must be answered
    PhotoItems,        \* those of type BOOLEAN_PHOTO_ON_FAIL
    TextItems,         \* those of type TEXT; the rest are BOOLEAN
    None,
    MaxFlips,          \* bound: re-inspections of one item in a walkaround
    MaxWalks,          \* bound: walkarounds begun
    MaxConfirms,       \* bound: taps on Confirm and Submit
    MaxClips,          \* bound: voice recordings
    MaxUploads,        \* bound: photos taken
    MaxFailures,       \* bound: network failures of a POST
    MaxEvents,         \* bound: texts, categories, recordings, photos, failures and
                       \* midnights together
    MaxFragments,      \* bound: pieces of text in one note
    MaxDay             \* bound: midnights

ASSUME RequiredAreItems == Required \subseteq Items
ASSUME PhotoItemsAreItems == PhotoItems \subseteq Items
ASSUME TextItemsAreItems == TextItems \subseteq Items \ PhotoItems
ASSUME BoundsAreNat ==
    {MaxFlips, MaxWalks, MaxConfirms, MaxClips, MaxUploads, MaxFailures,
     MaxEvents, MaxFragments, MaxDay} \subseteq Nat

VARIABLES
    page,        \* the mounted screen and its equipment
    leaving,     \* the machine whose confirmation screen router.push loads, or None
    form,        \* what the mounted screen holds in React state
    draft,       \* the record under STORAGE_KEY, or None
    day,         \* the lab-local day
    voice,       \* useVoiceNoteRecorder of each item's card
    uploads,     \* photo uploads in flight; current: still of this generation
    asked,       \* items whose category suggestion is awaited by this screen
    submits,     \* running submitInspection mutations
    wire,        \* POSTs whose sender gave up on them, still able to arrive
    recorded,    \* the server's inspections, by Idempotency-Key
    shown,       \* the submits the operator was shown a confirmation of, in order
    count        \* how often each bounded thing has happened

vars == <<page, leaving, form, draft, day, voice, uploads, asked, submits,
          wire, recorded, shown, count>>

----------------------------------------------------------------------------
\* A note is a sequence of fragments: what the operator typed and what the
\* speech model heard, each with the re-inspection it was captured under.

Fragment == [by: {"typed", "voice"}, flip: 0..MaxFlips]
Text == UNION {[1..n -> Fragment] : n \in 0..MaxFragments}
Source == {"TYPED", "VOICE_TRANSCRIBED", "VOICE_EDITED"}

emptyItemNote == [text |-> <<>>, source |-> "TYPED", raw |-> None]

\* Appending to machine output keeps its original: the bug applyTranscript's
\* last branch guards against.
applyTranscriptKeepingSource(note, clip) ==
    IF note.text = <<>>
    THEN [text |-> <<clip>>, source |-> "VOICE_TRANSCRIBED", raw |-> <<clip>>]
    ELSE [note EXCEPT !.text = Append(@, clip)]

applyTranscript(note, clip) ==
    IF note.text = <<>>
    THEN [text |-> <<clip>>, source |-> "VOICE_TRANSCRIBED", raw |-> <<clip>>]
    ELSE [text |-> Append(note.text, clip), source |-> "VOICE_EDITED",
          raw |-> None]

applyTextEdit(note, text) ==
    [note EXCEPT !.text = text,
                 !.source = IF @ = "TYPED" THEN "TYPED"
                            ELSE IF text = note.raw THEN "VOICE_TRANSCRIBED"
                            ELSE "VOICE_EDITED"]

NoCategory == [requested |-> FALSE, confirmed |-> None]

\* What a screen holds and the draft stores. walk and flip are history: the
\* walkaround the answers belong to, and how often each item was re-inspected.
BlankForm(w) ==
    [walk |-> w, key |-> 0,
     answers |-> [i \in Items |-> "none"],
     notes |-> [i \in Items |-> emptyItemNote],
     photos |-> [i \in Items |-> {}],
     cats |-> [i \in Items |-> NoCategory],
     flip |-> [i \in Items |-> 0]]

\* A text is blank or not; it has no pass or fail.
Values == {"pass", "fail", "blank", "text"}
ValuesOf(i) == IF i \in TextItems THEN {"blank", "text"} ELSE {"pass", "fail"}

Note == [text : Text, source : Source, raw : {None} \cup Text]

FormType ==
    [walk : 0..MaxWalks, key : 0..MaxConfirms,
     answers : [Items -> {"none"} \cup Values],
     notes : [Items -> Note],
     photos : [Items -> SUBSET (0..MaxFlips)],
     cats : [Items -> [requested : BOOLEAN,
                       confirmed : {None} \cup (0..MaxFlips)]],
     flip : [Items -> 0..MaxFlips]]

Failed(f) == {i \in Items : f.answers[i] = "fail"}

failuresDocumented(f) == \A i \in Failed(f) \cap PhotoItems : f.photos[i] # {}

requiredItemsAnswered(f) ==
    \A i \in Required : f.answers[i] \notin {"none", "blank"}

\* What is attested for one item, and a POST as the server may read it.
Response ==
    [value : Values, text : Text, source : Source,
     photos : SUBSET (0..MaxFlips), category : {None} \cup (0..MaxFlips)]

Payload == [machine : Machines, responses : UNION {[S -> Response] : S \in SUBSET Items}]

Posts == [key : 1..MaxConfirms, walk : 1..MaxWalks, flip : [Items -> 0..MaxFlips],
          body : Payload]

Drafts == [machine : Machines, form : FormType, day : Nat]

ASSUME NoneIsApart ==
    None \notin Text /\ None \notin Posts /\ None \notin Machines /\ None \notin Drafts

\* The POST body: a response for each item with an answer, a blank text included,
\* with its note, photos and confirmed category as they stand, whatever the
\* answer is. A TEXT item never has any of these.
buildSubmitPayload(m, f) ==
    [machine |-> m,
     responses |-> [i \in {j \in Items : f.answers[j] # "none"} |->
        [value |-> f.answers[i],
         text |-> f.notes[i].text,
         source |-> f.notes[i].source,
         photos |-> f.photos[i],
         category |-> f.cats[i].confirmed]]]

----------------------------------------------------------------------------
\* sessionStorage: one record for all equipment, good for one lab-local day.

StoredWithoutKey(m, f) ==
    [machine |-> m, form |-> [f EXCEPT !.key = 0], day |-> day]

StoredWithoutCategories(m, f) ==
    [machine |-> m, form |-> [f EXCEPT !.cats = [i \in Items |-> NoCategory]],
     day |-> day]

Stored(m, f) == [machine |-> m, form |-> f, day |-> day]

saveDraft(m, f) == draft' = Stored(m, f)

loadDraft(m) == draft # None /\ draft.machine = m /\ draft.day = day

\* Every change of a mounted screen's state is followed by its save effect.
SetForm(f) == form' = f /\ saveDraft(page.machine, f)

\* Room for another text, category, recording, photo, failure or midnight.
Room ==
    count.texts + count.picks + count.clips + count.uploads + count.failures + day
        < MaxEvents

Bump(what) == count' = [count EXCEPT ![what] = @ + 1]

\* What unmounting does: recordings are dropped, uploads belong to an old
\* generation, suggestions find nobody, running submits have no button left.
Unmount ==
    /\ leaving' = None
    /\ voice' = [i \in Items |-> None]
    /\ uploads' = {[u EXCEPT !.current = FALSE] : u \in uploads}
    /\ submits' = {[s EXCEPT !.mounted = FALSE] : s \in submits}

\* The checklist screen mounts: on the stored draft, or as a new walkaround.
ShowChecklist(m) ==
    /\ page' = [at |-> "inspect", machine |-> m]
    /\ asked' = {}
    /\ IF loadDraft(m)
       THEN form' = draft.form /\ UNCHANGED count
       ELSE /\ count.walks < MaxWalks
            /\ form' = BlankForm(count.walks + 1)
            /\ Bump("walks")
    /\ draft' = Stored(m, form')

\* Failed items with a note whose category nobody has asked for or decided.
Unsuggested(f) ==
    {i \in Failed(f) : /\ f.notes[i].text # <<>>
                       /\ ~f.cats[i].requested
                       /\ f.cats[i].confirmed = None}

\* The review screen mounts on the stored draft and asks for suggestions, or
\* sends the operator back to the checklist.
ShowReview(m) ==
    IF loadDraft(m) /\ failuresDocumented(draft.form)
    THEN /\ page' = [at |-> "review", machine |-> m]
         /\ form' = draft.form
         /\ saveDraft(m, form')
         /\ asked' = Unsuggested(form')
         /\ UNCHANGED count
    ELSE ShowChecklist(m)

Init ==
    /\ page = [at |-> "home", machine |-> None]
    /\ leaving = None
    /\ form = BlankForm(0)
    /\ draft = None
    /\ day = 0
    /\ voice = [i \in Items |-> None]
    /\ uploads = {} /\ asked = {} /\ submits = {} /\ wire = {}
    /\ recorded = [k \in 1..MaxConfirms |-> None]
    /\ shown = <<>>
    /\ count = [walks |-> 0, confirms |-> 0, keys |-> 0, clips |-> 0,
                uploads |-> 0, failures |-> 0, texts |-> 0, picks |-> 0]

----------------------------------------------------------------------------
\* The checklist screen.

OpenChecklist(m) ==
    /\ page # [at |-> "inspect", machine |-> m]
    /\ Unmount
    /\ ShowChecklist(m)
    /\ UNCHANGED <<day, wire, recorded, shown>>

\* A flip of a boolean answer resets the note, the photo and the category. A pass
\* also collapses the card, which unmounts its photo capture.
handleAnswerChange(f, i, answer) ==
    IF f.answers[i] \in {"none", answer} \/ i \in TextItems
    THEN [f EXCEPT !.answers[i] = answer]
    ELSE [f EXCEPT !.answers[i] = answer,
                   !.notes[i] = emptyItemNote,
                   !.photos[i] = {},
                   !.cats[i] = NoCategory,
                   !.flip[i] = @ + 1]

NextGeneration(i) ==
    uploads' = {[u EXCEPT !.current = @ /\ u.item # i] : u \in uploads}

Answer(i, answer) ==
    /\ page.at = "inspect"
    /\ answer \in ValuesOf(i) \ {form.answers[i]}
    /\ form.answers[i] # "none" => form.flip[i] < MaxFlips
    /\ SetForm(handleAnswerChange(form, i, answer))
    /\ IF answer = "pass" THEN NextGeneration(i) ELSE UNCHANGED uploads
    /\ IF i \in TextItems THEN Room /\ Bump("texts") ELSE UNCHANGED count
    /\ UNCHANGED <<page, leaving, day, voice, asked, submits, wire, recorded,
                   shown>>

\* The card of a failed item offers the notes field, the dictate button and,
\* if a photo is required, the camera.
CardOpen(i) == page.at = "inspect" /\ form.answers[i] = "fail"

\* The operator types on, clears the note, or restores the machine's words.
\* A stretch of typing is one fragment.
Edits(i) ==
    LET text == form.notes[i].text
        typed == [by |-> "typed", flip |-> form.flip[i]] IN
    {<<>>} \cup ({form.notes[i].raw} \ {None})
        \cup (IF text # <<>> /\ text[Len(text)].by = "typed" THEN {}
              ELSE {Append(text, typed)})

TypeNote(i) ==
    /\ CardOpen(i)
    /\ \E text \in Edits(i) :
        /\ text # form.notes[i].text /\ Len(text) <= MaxFragments
        /\ SetForm([form EXCEPT !.notes[i] = applyTextEdit(@, text)])
    /\ UNCHANGED <<page, leaving, day, voice, uploads, asked, submits, wire,
                   recorded, shown, count>>

\* start, to the point where the recorder runs. One tap at a time: a second
\* tap before the microphone is granted is not modelled.
StartRecording(i) ==
    /\ CardOpen(i)
    /\ voice[i] = None
    /\ count.clips < MaxClips /\ Room
    /\ voice' = [voice EXCEPT ![i] = [at |-> "recording", flip |-> form.flip[i]]]
    /\ Bump("clips")
    /\ UNCHANGED <<page, leaving, form, draft, day, uploads, asked, submits,
                   wire, recorded, shown>>

\* The stop button, or the cap timer, which needs no open card.
StopRecording(i) ==
    /\ voice[i] # None /\ voice[i].at = "recording"
    /\ voice' = [voice EXCEPT ![i].at = "transcribing"]
    /\ UNCHANGED <<page, leaving, form, draft, day, uploads, asked, submits,
                   wire, recorded, shown, count>>

\* The transcript is written into the note of the item, whatever the item's
\* answer is by now: the card that holds the recorder stays mounted.
Transcript(i) ==
    /\ voice[i] # None /\ voice[i].at = "transcribing"
    /\ page.at = "inspect"
    /\ Len(form.notes[i].text) < MaxFragments
    /\ SetForm([form EXCEPT !.notes[i] =
                    applyTranscript(@, [by |-> "voice", flip |-> voice[i].flip])])
    /\ voice' = [voice EXCEPT ![i] = None]
    /\ UNCHANGED <<page, leaving, day, uploads, asked, submits, wire, recorded,
                   shown, count>>

\* No speech, a busy or absent AI Service, a lost answer: an error message.
TranscriptFails(i) ==
    /\ voice[i] # None /\ voice[i].at = "transcribing"
    /\ voice' = [voice EXCEPT ![i] = None]
    /\ UNCHANGED <<page, leaving, form, draft, day, uploads, asked, submits,
                   wire, recorded, shown, count>>

\* A first photo or a retake: the upload in flight becomes an old generation.
TakePhoto(i) ==
    /\ CardOpen(i) /\ i \in PhotoItems
    /\ count.uploads < MaxUploads /\ Room
    /\ uploads' = {[u EXCEPT !.current = @ /\ u.item # i] : u \in uploads}
                    \cup {[item |-> i, flip |-> form.flip[i], current |-> TRUE]}
    /\ Bump("uploads")
    /\ UNCHANGED <<page, leaving, form, draft, day, voice, asked, submits, wire,
                   recorded, shown>>

\* Collapsing a card by its header unmounts the photo capture.
CollapseCard(i) ==
    /\ CardOpen(i)
    /\ \E u \in uploads : u.item = i /\ u.current
    /\ NextGeneration(i)
    /\ UNCHANGED <<page, leaving, form, draft, day, voice, asked, submits, wire,
                   recorded, shown, count>>

RemovePhoto(i) ==
    /\ CardOpen(i) /\ i \in PhotoItems
    /\ form.photos[i] # {} \/ \E u \in uploads : u.item = i /\ u.current
    /\ NextGeneration(i)
    /\ SetForm([form EXCEPT !.photos[i] = {}])
    /\ UNCHANGED <<page, leaving, day, voice, asked, submits, wire, recorded,
                   shown, count>>

\* Only a screen that is gone drops the answer.
ReportsAnyGeneration(u) == page.at = "inspect"

\* An answer of an older generation is dropped.
Reports(u) == u.current

Uploaded(u) ==
    /\ uploads' = uploads \ {u}
    /\ IF Reports(u)
       THEN SetForm([form EXCEPT !.photos[u.item] = {u.flip}])
       ELSE UNCHANGED <<form, draft>>
    /\ UNCHANGED <<page, leaving, day, voice, asked, submits, wire, recorded,
                   shown, count>>

UploadFails(u) ==
    /\ uploads' = uploads \ {u}
    /\ UNCHANGED <<page, leaving, form, draft, day, voice, asked, submits, wire,
                   recorded, shown, count>>

handleSubmit ==
    /\ page.at = "inspect"
    /\ requiredItemsAnswered(form) /\ failuresDocumented(form)
    /\ Unmount
    /\ ShowReview(page.machine)
    /\ UNCHANGED <<day, wire, recorded, shown>>

\* The browser's history or address bar lands on a review screen without the
\* checklist's gate.
BackToReview(m) ==
    /\ page.at # "review"
    /\ draft # None
    /\ Unmount
    /\ ShowReview(m)
    /\ UNCHANGED <<day, wire, recorded, shown>>

----------------------------------------------------------------------------
\* The review screen.

\* A suggestion arrives, or the model abstains or fails: asked for either way.
Suggestion(i) ==
    /\ i \in asked
    /\ asked' = asked \ {i}
    /\ SetForm([form EXCEPT !.cats[i].requested = TRUE])
    /\ UNCHANGED <<page, leaving, day, voice, uploads, submits, wire, recorded,
                   shown, count>>

\* The operator confirms a category for the note on screen. The picker stays
\* live while a submit is running. Dismissing is left out: it is submitted like
\* no category, and only keeps a suggestion from being asked for again.
PickCategory(i) ==
    /\ page.at = "review" /\ i \in Failed(form) /\ form.notes[i].text # <<>>
    /\ form.cats[i].confirmed # form.flip[i]
    /\ Room /\ Bump("picks")
    /\ SetForm([form EXCEPT !.cats[i].confirmed = form.flip[i]])
    /\ UNCHANGED <<page, leaving, day, voice, uploads, asked, submits, wire,
                   recorded, shown>>

isSubmitting == \E s \in submits : s.mounted

\* The POST would go out without a key.
submitKeyUnminted(f) == f.key

\* One key per walkaround: minted at the first confirm, kept in the draft.
submitKey(f) == IF f.key = 0 THEN count.keys + 1 ELSE f.key

handleConfirm ==
    /\ page.at = "review"
    /\ ~isSubmitting
    /\ count.confirms < MaxConfirms
    /\ IF form.key = 0 THEN SetForm([form EXCEPT !.key = submitKey(form)])
                       ELSE UNCHANGED <<form, draft>>
    /\ submits' = submits \cup
          {[n |-> count.confirms + 1, key |-> submitKey(form),
            walk |-> form.walk, flip |-> form.flip,
            body |-> buildSubmitPayload(page.machine, form),
            phase |-> "waiting", mounted |-> TRUE]}
    /\ count' = [count EXCEPT !.confirms = @ + 1,
                              !.keys = IF form.key = 0 THEN @ + 1 ELSE @]
    /\ UNCHANGED <<page, leaving, day, voice, uploads, asked, wire, recorded,
                   shown>>

----------------------------------------------------------------------------
\* POST /inspections: the server's side of one Idempotency-Key, and the
\* retries of runWithRetry.

Request(s) ==
    [key |-> s.key, walk |-> s.walk, flip |-> s.flip, body |-> s.body]

\* The server answers a repeated key without comparing the bodies.
MatchesAny(r) == TRUE

\* Accepted: a first use of the key, or a repeat with the same body.
Matches(r) == recorded[r.key] # None => recorded[r.key].body = r.body

CompleteUnchecked(r) == TRUE

\* deriveInspectionResult: every required item has a response, if a blank one.
Complete(r) == Required \subseteq DOMAIN r.body.responses

Serve(r) ==
    recorded' = [recorded EXCEPT ![r.key] = IF @ = None THEN r ELSE @]

Ended(s) == submits \ {s}

\* The draft is cleared, whichever machine's it is by now.
clear == draft' = None

\* 201, and handleConfirm runs on: the result is handed over, the draft is
\* cleared and the confirmation screen is pushed, even if the operator has
\* left the review screen in the meantime.
Succeed(s) ==
    /\ s.phase = "waiting"
    /\ Matches(Request(s)) /\ Complete(Request(s))
    /\ Serve(Request(s))
    /\ shown' = Append(shown, Request(s))
    /\ clear
    /\ leaving' = s.body.machine
    /\ submits' = Ended(s)
    /\ UNCHANGED <<page, form, day, voice, uploads, asked, wire, count>>

\* The confirmation screen has loaded. Until then the old screen is mounted
\* and its callbacks run.

Navigate ==
    /\ leaving # None
    /\ Unmount
    /\ page' = [at |-> "done", machine |-> leaving]
    /\ asked' = {}
    /\ form' = BlankForm(0)
    /\ UNCHANGED <<draft, day, wire, recorded, shown, count>>

\* Every error is retried.
NotRetryableRetried(s) ==
    submits' = Ended(s) \cup {[s EXCEPT !.phase = "backoff"]}

\* A rejection no repeat can clear ends the mutation; the draft and its key
\* are kept.
NotRetryable(s) == submits' = Ended(s)

\* 409 IDEMPOTENCY_MISMATCH, or another 4xx: a locked-out machine, an inactive
\* template, a missing role.
Reject(s) ==
    /\ s.phase = "waiting"
    /\ NotRetryable(s)
    /\ UNCHANGED <<page, leaving, form, draft, day, voice, uploads, asked, wire,
                   recorded, shown, count>>

\* The connection breaks, or a 5xx or 408 comes back. The POST may still be
\* under way. Within 15 minutes the phone backs off; after that it gives up.
NetworkFails(s) ==
    /\ s.phase = "waiting"
    /\ count.failures < MaxFailures /\ Room
    /\ Bump("failures")
    /\ wire' = wire \cup {Request(s)}
    /\ \/ submits' = Ended(s) \cup {[s EXCEPT !.phase = "backoff"]}
       \/ submits' = Ended(s)
    /\ UNCHANGED <<page, leaving, form, draft, day, voice, uploads, asked,
                   recorded, shown>>

Retry(s) ==
    /\ s.phase = "backoff"
    /\ submits' = Ended(s) \cup {[s EXCEPT !.phase = "waiting"]}
    /\ UNCHANGED <<page, leaving, form, draft, day, voice, uploads, asked, wire,
                   recorded, shown, count>>

LateArrival(r) ==
    /\ wire' = wire \ {r}
    /\ \/ Matches(r) /\ Complete(r) /\ Serve(r)
       \/ UNCHANGED recorded
    /\ UNCHANGED <<page, leaving, form, draft, day, voice, uploads, asked,
                   submits, shown, count>>

\* A page load: everything but sessionStorage is lost.
Reload ==
    /\ page.at \in {"inspect", "review"}
    /\ voice' = [i \in Items |-> None]
    /\ uploads' = {} /\ submits' = {}
    /\ wire' = wire \cup {Request(s) : s \in {t \in submits : t.phase = "waiting"}}
    /\ leaving' = None
    /\ IF page.at = "inspect" THEN ShowChecklist(page.machine)
                              ELSE ShowReview(page.machine)
    /\ UNCHANGED <<day, recorded, shown>>

Midnight ==
    /\ day < MaxDay /\ Room
    /\ day' = day + 1
    /\ UNCHANGED <<page, leaving, form, draft, voice, uploads, asked, submits,
                   wire, recorded, shown, count>>

\* Bound: the operator does nothing in the instant between a push and the new
\* screen; answers still arrive in it.
Operator ==
  /\ leaving = None
  /\ \/ \E m \in Machines : OpenChecklist(m)
     \/ \E i \in Items, a \in Values : Answer(i, a)
     \/ \E i \in Items : TypeNote(i)
     \/ \E i \in Items : StartRecording(i)
     \/ \E i \in Items : TakePhoto(i)
     \/ \E i \in Items : CollapseCard(i)
     \/ \E i \in Items : RemovePhoto(i)
     \/ \E i \in Items : PickCategory(i)
     \/ handleSubmit
     \/ \E m \in Machines : BackToReview(m)
     \/ handleConfirm
     \/ Reload

Arrivals ==
    \/ \E i \in Items : StopRecording(i)
    \/ \E i \in Items : Transcript(i)
    \/ \E i \in Items : TranscriptFails(i)
    \/ \E u \in uploads : Uploaded(u)
    \/ \E u \in uploads : UploadFails(u)
    \/ \E i \in Items : Suggestion(i)
    \/ \E r \in wire : LateArrival(r)

Mutation(s) == Succeed(s) \/ Reject(s) \/ NetworkFails(s) \/ Retry(s)

Next ==
    \/ Operator
    \/ Arrivals
    \/ \E s \in submits : Mutation(s)
    \/ Navigate
    \/ Midnight

Spec == Init /\ [][Next]_vars

\* A fetch settles and a timer fires; the operator owes nothing.
Fairness == WF_vars(\E s \in submits : Mutation(s)) /\ WF_vars(Navigate)

FairSpec == Spec /\ Fairness

----------------------------------------------------------------------------
\* Types of the screens' state, the stored draft and the requests under way:
\* every field a screen reads back from storage is there.
TypeOK ==
    /\ page \in [at : {"home", "inspect", "review", "done"},
                 machine : Machines \cup {None}]
    /\ leaving \in Machines \cup {None}
    /\ form \in FormType
    /\ draft = None \/ (/\ draft.machine \in Machines
                        /\ draft.form \in FormType
                        /\ draft.day \in 0..day)
    /\ asked \subseteq Items
    /\ \A u \in uploads : u.item \in PhotoItems /\ u.flip \in 0..MaxFlips
    /\ \A s \in submits : s.key \in 1..count.keys /\ s.phase \in {"waiting", "backoff"}

\* However often a submit is retried, backed out of, reloaded or confirmed
\* again, one walkaround puts at most one inspection on the server (the key of
\* review/page.tsx:37-41, carried by every save).
OnePerWalk ==
    \A j, k \in DOMAIN recorded :
        /\ recorded[j] # None /\ recorded[k] # None
        /\ recorded[j].walk = recorded[k].walk
        => j = k

\* What the operator is shown as submitted is what the server recorded, item
\* by item, although answers can be edited while the POST is retried.
ShownIsRecorded ==
    \A n \in DOMAIN shown :
        LET s == shown[n] IN recorded[s.key] # None /\ recorded[s.key].body = s.body

\* What the server recorded, response by response, with the number of times
\* the item had been re-inspected when the operator attested to it.
Records ==
    UNION {{[flip |-> recorded[k].flip[i], response |-> recorded[k].body.responses[i]] :
                i \in DOMAIN recorded[k].body.responses} :
             k \in {j \in DOMAIN recorded : recorded[j] # None}}

\* The notesSource on the record tells the truth (lib/voice-notes.ts): TYPED
\* holds no machine words, VOICE_TRANSCRIBED is one untouched transcript.
NoteSourceHonest ==
    \A r \in Records :
        LET text == r.response.text
            heard == {n \in DOMAIN text : text[n].by = "voice"} IN
        /\ r.response.source = "TYPED" => heard = {}
        /\ r.response.source = "VOICE_TRANSCRIBED" => heard = {1} /\ Len(text) = 1

\* A recorded photo, category or typed note was given for the answer it is
\* recorded with, not for one since re-inspected, however late an upload came
\* back (page.tsx:99-132, use-photo-upload.ts:45-63).
EvidenceMatchesAnswer ==
    \A r \in Records :
        LET text == r.response.text IN
        /\ r.response.photos \subseteq {r.flip}
        /\ r.response.category \in {None, r.flip}
        /\ \A n \in DOMAIN text : text[n].by = "typed" => text[n].flip = r.flip

\* Whatever screen the browser's history lands on, no inspection is recorded
\* without a response to a required item, or with an item that failed without
\* the photo it then needs; the first is the server's doing, the second the
\* phone's (derive-result.ts:15-26, review/page.tsx:110-117). That a required
\* text is not blank is asked by the checklist alone, which history bypasses.
RecordIsComplete ==
    \A k \in DOMAIN recorded : recorded[k] # None =>
        LET responses == recorded[k].body.responses IN
        /\ Required \subseteq DOMAIN responses
        /\ \A i \in PhotoItems \cap DOMAIN responses :
            responses[i].value = "fail" => responses[i].photos # {}

\* A page load at any moment loses nothing the operator entered: storage holds
\* exactly what the screen holds, its key and categories included.
StorageHoldsForm ==
    page.at \in {"inspect", "review"} /\ leaving = None =>
        draft # None /\ draft.machine = page.machine /\ draft.form = form

\* Answers that were submitted and confirmed to the operator are not reopened
\* by a later visit (review/page.tsx:178-180).
NothingSubmittedReopens ==
    page.at \in {"inspect", "review"} =>
        \A n \in DOMAIN shown : shown[n].key = form.key => leaving # None

\* No note rides along on an item recorded as passed: a document captured
\* under a since-changed answer never reaches the payload
\* (lib/inspection-submit.ts:66-70, use-voice-note-recorder.ts:33-36).
NoNoteOnAPass ==
    \A r \in Records : r.response.value = "pass" => r.response.text = <<>>

\* Every confirmed submit ends in a confirmation or an error message.
EveryConfirmEnds == submits # {} ~> submits = {}
============================================================================
