---------------------------- MODULE CaptureProofs ----------------------------
(***************************************************************************)
(* What one phone puts on the record, for any number of machines, items,    *)
(* walkarounds, retries, uploads and recordings.                            *)
(***************************************************************************)
EXTENDS Capture, SequenceTheorems, TLAPS

(* An item's note tells who wrote it, and its documents belong to its answer. *)
HonestNote(note, flip) ==
  /\ \A n \in DOMAIN note.text : note.text[n].by = "typed" => note.text[n].flip = flip
  /\ note.source = "TYPED" =>
       note.raw = None /\ \A n \in DOMAIN note.text : note.text[n].by = "typed"
  /\ note.raw # None => \E clip \in Fragment : clip.by = "voice" /\ note.raw = <<clip>>
  /\ note.source = "VOICE_TRANSCRIBED" => note.raw # None /\ note.text = note.raw

Honest(f) ==
  \A i \in Items : /\ HonestNote(f.notes[i], f.flip[i])
                   /\ f.photos[i] \subseteq {f.flip[i]}
                   /\ f.cats[i].confirmed \in {None, f.flip[i]}

HonestResponse(r, flip) ==
  /\ \A n \in DOMAIN r.text : r.text[n].by = "typed" => r.text[n].flip = flip
  /\ r.source = "TYPED" => \A n \in DOMAIN r.text : r.text[n].by = "typed"
  /\ r.source = "VOICE_TRANSCRIBED" => Len(r.text) = 1 /\ r.text[1].by = "voice"
  /\ r.photos \subseteq {flip}
  /\ r.category \in {None, flip}

(* What a request may put on the record. *)
HonestPost(r) ==
  \A i \in DOMAIN r.body.responses :
    /\ HonestResponse(r.body.responses[i], r.flip[i])
    /\ i \in PhotoItems /\ r.body.responses[i].value = "fail" => r.body.responses[i].photos # {}

Screens ==
  /\ page \in [at : {"home", "inspect", "review", "done"}, machine : Machines \cup {None}]
  /\ IF page.at \in {"inspect", "review"}
     THEN /\ page.machine \in Machines /\ form.walk # 0
          /\ draft # None => draft.form = form
     ELSE form = BlankForm(0)
  /\ page.at = "review" => failuresDocumented(form)
  /\ asked \subseteq Items /\ (asked # {} => page.at = "review")
  /\ leaving \in Machines \cup {None}

Forms == {form} \cup (IF draft = None THEN {} ELSE {draft.form})

FormHolds(f) == f \in FormType /\ Honest(f) /\ f.walk <= count.walks /\ f.key <= count.keys

FormsHold ==
  /\ \A f \in Forms : FormHolds(f)
  /\ draft # None => draft.machine \in Machines /\ draft.form.walk # 0 /\ draft.day \in 0 .. day

CountsHold ==
  /\ count \in [walks : 0 .. MaxWalks, confirms : 0 .. MaxConfirms, keys : 0 .. MaxConfirms,
                clips : Nat, uploads : Nat, failures : Nat, texts : Nat, picks : Nat]
  /\ count.keys <= count.confirms
  /\ day \in Nat

(* An upload of the current generation is about the answer on screen. *)
UploadsHold ==
  \A u \in uploads :
    /\ u \in [item : PhotoItems, flip : 0 .. MaxFlips, current : BOOLEAN]
    /\ u.current => /\ page.at = "inspect" /\ form.answers[u.item] = "fail"
                    /\ u.flip = form.flip[u.item]

VoiceHolds ==
  voice \in [Items -> {None} \cup [at : {"recording", "transcribing"}, flip : 0 .. MaxFlips]]

Submit ==
  [n : Nat, key : 1 .. MaxConfirms, walk : 1 .. MaxWalks, flip : [Items -> 0 .. MaxFlips],
   body : Payload, phase : {"waiting", "backoff"}, mounted : BOOLEAN]

Sent == {Request(s) : s \in submits} \cup wire

PostHolds(r) == r \in Posts /\ HonestPost(r) /\ r.walk <= count.walks /\ r.key <= count.keys

PostsHold ==
  /\ submits \subseteq Submit
  /\ \A r \in Sent : PostHolds(r)
  /\ recorded \in [1 .. MaxConfirms -> {None} \cup Posts]
  /\ \A k \in 1 .. MaxConfirms : recorded[k] # None =>
       PostHolds(recorded[k]) /\ recorded[k].key = k /\ Complete(recorded[k])

Carriers == Forms \cup Sent \cup ({recorded[k] : k \in 1 .. MaxConfirms} \ {None})

(* Everything that carries a walkaround carries its one key. *)
OneKeyPerWalk == \A a, b \in Carriers : a.walk = b.walk => a.key = b.key

CaptureInvariant ==
  Screens /\ FormsHold /\ CountsHold /\ UploadsHold /\ VoiceHolds /\ PostsHold /\ OneKeyPerWalk

-----------------------------------------------------------------------------
(* Notes *)

(* The bounds, one by one. *)
LEMMA Bounds ==
  /\ MaxFlips \in Nat /\ MaxWalks \in Nat /\ MaxConfirms \in Nat /\ MaxFragments \in Nat
  /\ MaxDay \in Nat
  BY BoundsAreNat

(* A text is a sequence of fragments no longer than the bound. *)
LEMMA TextIsSeq ==
  \A t : t \in Text <=> t \in Seq(Fragment) /\ Len(t) <= MaxFragments
<1>1. MaxFragments \in Nat
  BY Bounds
<1>2. Seq(Fragment) = UNION {[1 .. n -> Fragment] : n \in Nat}
  BY SeqDef
<1>3. ASSUME NEW t, t \in Text  PROVE t \in Seq(Fragment) /\ Len(t) <= MaxFragments
  <2>1. PICK n \in 0 .. MaxFragments : t \in [1 .. n -> Fragment]
    BY <1>3 DEF Text
  <2>2. n \in Nat /\ t \in Seq(Fragment)
    BY <1>1, <1>2, <2>1
  <2>3. Len(t) = n
    BY <2>1, <2>2, LenProperties
  <2> QED
    BY <1>1, <2>1, <2>2, <2>3
<1>4. ASSUME NEW t \in Seq(Fragment), Len(t) <= MaxFragments  PROVE t \in Text
  <2>1. Len(t) \in 0 .. MaxFragments /\ t \in [1 .. Len(t) -> Fragment]
    BY <1>1, <1>4, LenProperties
  <2> QED
    BY <2>1 DEF Text
<1> QED
  BY <1>3, <1>4

(* One fragment is a text, where there is room for it. *)
LEMMA OneFragment ==
  ASSUME NEW clip \in Fragment, 0 < MaxFragments
  PROVE  <<clip>> \in Text /\ Len(<<clip>>) = 1 /\ DOMAIN <<clip>> = {1} /\ <<clip>>[1] = clip
<1>1. <<clip>> \in Seq(Fragment) /\ Len(<<clip>>) = 1 /\ DOMAIN <<clip>> = {1} /\ <<clip>>[1] = clip
  OBVIOUS
<1>2. Len(<<clip>>) <= MaxFragments
  BY <1>1, Bounds
<1> QED
  BY <1>1, <1>2, TextIsSeq

(* Appending a fragment keeps the ones before it. *)
LEMMA AppendFragment ==
  ASSUME NEW text \in Text, NEW clip \in Fragment, Len(text) < MaxFragments
  PROVE  /\ Append(text, clip) \in Text
         /\ \A n \in DOMAIN Append(text, clip) :
              \/ n \in DOMAIN text /\ Append(text, clip)[n] = text[n]
              \/ Append(text, clip)[n] = clip
<1>1. text \in Seq(Fragment) /\ Len(text) \in Nat /\ DOMAIN text = 1 .. Len(text)
  BY TextIsSeq, LenProperties
<1>2. /\ Append(text, clip) \in Seq(Fragment) /\ Len(Append(text, clip)) = Len(text) + 1
      /\ DOMAIN Append(text, clip) = 1 .. Len(text) + 1
      /\ \A n \in 1 .. Len(text) : Append(text, clip)[n] = text[n]
      /\ Append(text, clip)[Len(text) + 1] = clip
  BY <1>1, AppendProperties, LenProperties
<1>3. Append(text, clip) \in Text
  <2>1. Len(Append(text, clip)) <= MaxFragments
    BY <1>1, <1>2, Bounds
  <2> QED
    BY <1>2, <2>1, TextIsSeq
<1> QED
  BY <1>1, <1>2, <1>3

(* The note an item starts with. *)
LEMMA EmptyNote ==
  /\ emptyItemNote \in Note
  /\ \A flip : HonestNote(emptyItemNote, flip)
<1>1. <<>> \in Text
  <2>1. <<>> \in Seq(Fragment) /\ Len(<<>>) <= MaxFragments
    BY EmptySeq, Bounds
  <2> QED
    BY <2>1, TextIsSeq
<1>2. DOMAIN <<>> = {}
  OBVIOUS
<1> QED
  BY <1>1, <1>2 DEF emptyItemNote, Note, Source, HonestNote

(* Typing, clearing and restoring leave a note that tells who wrote it. *)
LEMMA EditedNote ==
  ASSUME NEW note \in Note, NEW flip \in 0 .. MaxFlips, HonestNote(note, flip),
         NEW text \in Text,
         \/ text = <<>> \/ text = note.raw
         \/ text = Append(note.text, [by |-> "typed", flip |-> flip])
  PROVE  applyTextEdit(note, text) \in Note /\ HonestNote(applyTextEdit(note, text), flip)
<1> DEFINE edited == applyTextEdit(note, text)
           typed == [by |-> "typed", flip |-> flip]
<1>1. /\ edited \in Note /\ edited.text = text /\ edited.raw = note.raw
      /\ edited.source = IF note.source = "TYPED" THEN "TYPED"
                         ELSE IF text = note.raw THEN "VOICE_TRANSCRIBED" ELSE "VOICE_EDITED"
  BY DEF Note, Source, applyTextEdit
<1>2. typed \in Fragment /\ note.text \in Text
  BY DEF Fragment, Note
<1>3. text # None
  BY NoneIsApart
<1>4. CASE text = <<>>
  <2>1. DOMAIN text = {}
    BY <1>4
  <2> QED
    BY <1>1, <1>3, <2>1 DEF HonestNote
<1>5. CASE text = note.raw
  <2>1. PICK clip \in Fragment : clip.by = "voice" /\ text = <<clip>>
    BY <1>3, <1>5 DEF HonestNote
  <2>2. DOMAIN text = {1} /\ text[1] = clip
    BY <2>1
  <2>3. note.source # "TYPED"
    BY <1>3, <1>5 DEF HonestNote
  <2> QED
    BY <1>1, <1>3, <1>5, <2>1, <2>2, <2>3 DEF HonestNote
<1>6. CASE text = Append(note.text, typed) /\ text # note.raw
  <2>1. Len(note.text) < MaxFragments
    <3>1. note.text \in Seq(Fragment) /\ Len(note.text) \in Nat
      BY <1>2, TextIsSeq, LenProperties
    <3>2. Len(text) = Len(note.text) + 1
      BY <1>2, <1>6, <3>1, AppendProperties
    <3> QED
      BY <3>1, <3>2, TextIsSeq, Bounds
  <2>2. \A n \in DOMAIN text : \/ n \in DOMAIN note.text /\ text[n] = note.text[n]
                               \/ text[n] = typed
    BY <1>2, <1>6, <2>1, AppendFragment
  <2>3. typed.by = "typed" /\ typed.flip = flip
    OBVIOUS
  <2> HIDE DEF edited, typed
  <2>4. \A n \in DOMAIN text : text[n].by = "typed" => text[n].flip = flip
    BY <2>2, <2>3 DEF HonestNote
  <2>5. note.source = "TYPED" => note.raw = None /\ \A n \in DOMAIN text : text[n].by = "typed"
    BY <2>2, <2>3 DEF HonestNote
  <2>6. edited.source # "VOICE_TRANSCRIBED"
    BY <1>1, <1>6
  <2>7. edited.source = "TYPED" => note.source = "TYPED"
    BY <1>1
  <2> QED
    BY <1>1, <2>4, <2>5, <2>6, <2>7 DEF HonestNote, edited
<1> QED
  BY <1>4, <1>5, <1>6

(* A transcript in an empty note is the machine's, after other words it is edited. *)
LEMMA HeardNote ==
  ASSUME NEW note \in Note, NEW flip \in 0 .. MaxFlips, HonestNote(note, flip),
         NEW clip \in Fragment, clip.by = "voice", Len(note.text) < MaxFragments
  PROVE  applyTranscript(note, clip) \in Note /\ HonestNote(applyTranscript(note, clip), flip)
<1>1. note.text \in Text /\ note.text \in Seq(Fragment) /\ Len(note.text) \in Nat
  BY TextIsSeq, LenProperties DEF Note
<1>2. CASE note.text = <<>>
  <2> DEFINE heard == [text |-> <<clip>>, source |-> "VOICE_TRANSCRIBED", raw |-> <<clip>>]
  <2>1. applyTranscript(note, clip) = heard
    BY <1>2 DEF applyTranscript
  <2>2. <<clip>> \in Text /\ DOMAIN <<clip>> = {1} /\ <<clip>>[1] = clip
    BY <1>1, OneFragment, Bounds
  <2>3. heard \in Note
    BY <2>2 DEF Note, Source
  <2>4. <<clip>> # None
    BY <2>2, NoneIsApart
  <2>5. HonestNote(heard, flip)
    BY <2>2, <2>4 DEF HonestNote
  <2> QED
    BY <2>1, <2>3, <2>5
<1>3. CASE note.text # <<>>
  <2> DEFINE longer == Append(note.text, clip)
             heard == [text |-> longer, source |-> "VOICE_EDITED", raw |-> None]
  <2>1. applyTranscript(note, clip) = heard
    BY <1>3 DEF applyTranscript
  <2>2. /\ longer \in Text
        /\ \A n \in DOMAIN longer : \/ n \in DOMAIN note.text /\ longer[n] = note.text[n]
                                    \/ longer[n] = clip
    BY <1>1, AppendFragment
  <2> HIDE DEF longer
  <2>3. heard \in Note
    BY <2>2 DEF Note, Source
  <2>4. HonestNote(heard, flip)
    BY <2>2 DEF HonestNote
  <2> QED
    BY <2>1, <2>3, <2>4
<1> QED
  BY <1>2, <1>3

-----------------------------------------------------------------------------
(* Forms *)

SameWalk(g, f) == g.walk = f.walk /\ g.key = f.key

(* A screen starts with no answers. *)
LEMMA BlankIsForm ==
  ASSUME NEW w \in 0 .. MaxWalks
  PROVE  /\ BlankForm(w) \in FormType /\ Honest(BlankForm(w))
         /\ BlankForm(w).walk = w /\ BlankForm(w).key = 0
<1>1. 0 \in 0 .. MaxConfirms /\ 0 \in 0 .. MaxFlips
  BY Bounds
<1>2. BlankForm(w) \in FormType
  BY <1>1, EmptyNote DEF BlankForm, FormType, NoCategory
<1>3. Honest(BlankForm(w))
  BY EmptyNote DEF Honest, BlankForm, NoCategory
<1> QED
  BY <1>2, <1>3 DEF BlankForm

(* A note is replaced by another of the same item and answer. *)
LEMMA NoteReplaced ==
  ASSUME NEW f \in FormType, Honest(f), NEW i \in Items, NEW n \in Note,
         HonestNote(n, f.flip[i])
  PROVE  LET g == [f EXCEPT !.notes[i] = n] IN
         /\ g \in FormType /\ Honest(g) /\ SameWalk(g, f)
         /\ g.answers = f.answers /\ g.flip = f.flip /\ g.photos = f.photos
<1> DEFINE g == [f EXCEPT !.notes[i] = n]
<1>1. /\ g \in FormType /\ SameWalk(g, f) /\ g.notes = [f.notes EXCEPT ![i] = n]
      /\ g.answers = f.answers /\ g.flip = f.flip /\ g.photos = f.photos /\ g.cats = f.cats
  BY DEF FormType, SameWalk
<1> HIDE DEF g
<1>2. f.notes \in [Items -> Note]
  BY DEF FormType
<1>3. Honest(g)
  BY <1>1, <1>2 DEF Honest
<1> QED
  BY <1>1, <1>3 DEF g

(* A photo of the answer on screen replaces the photos of an item, or none does. *)
LEMMA PhotosReplaced ==
  ASSUME NEW f \in FormType, Honest(f), NEW i \in Items, NEW p, p \in {{}, {f.flip[i]}}
  PROVE  LET g == [f EXCEPT !.photos[i] = p] IN
         /\ g \in FormType /\ Honest(g) /\ SameWalk(g, f)
         /\ g.answers = f.answers /\ g.flip = f.flip
<1> DEFINE g == [f EXCEPT !.photos[i] = p]
<1>0. p \in SUBSET (0 .. MaxFlips)
  BY DEF FormType
<1>1. /\ g \in FormType /\ SameWalk(g, f) /\ g.photos = [f.photos EXCEPT ![i] = p]
      /\ g.answers = f.answers /\ g.flip = f.flip /\ g.notes = f.notes /\ g.cats = f.cats
  BY <1>0 DEF FormType, SameWalk
<1> HIDE DEF g
<1>2. f.photos \in [Items -> SUBSET (0 .. MaxFlips)]
  BY DEF FormType
<1>3. Honest(g)
  BY <1>1, <1>2 DEF Honest
<1> QED
  BY <1>1, <1>3 DEF g

(* A category is asked for, or confirmed for the answer on screen. *)
LEMMA CategoryReplaced ==
  ASSUME NEW f \in FormType, Honest(f), NEW i \in Items, NEW c,
         c \in {[f.cats[i] EXCEPT !.requested = TRUE], [f.cats[i] EXCEPT !.confirmed = f.flip[i]]}
  PROVE  LET g == [f EXCEPT !.cats[i] = c] IN
         /\ g \in FormType /\ Honest(g) /\ SameWalk(g, f)
         /\ g.answers = f.answers /\ g.flip = f.flip /\ g.photos = f.photos
<1> DEFINE g == [f EXCEPT !.cats[i] = c]
           Category == [requested : BOOLEAN, confirmed : {None} \cup (0 .. MaxFlips)]
<1>0. f.cats \in [Items -> Category] /\ f.flip[i] \in 0 .. MaxFlips
  BY DEF FormType
<1>1. c \in Category /\ c.confirmed \in {f.cats[i].confirmed, f.flip[i]}
  BY <1>0
<1>2. /\ g \in FormType /\ SameWalk(g, f) /\ g.cats = [f.cats EXCEPT ![i] = c]
      /\ g.answers = f.answers /\ g.flip = f.flip /\ g.notes = f.notes /\ g.photos = f.photos
  BY <1>1 DEF FormType, SameWalk
<1> HIDE DEF g
<1>3. Honest(g)
  BY <1>0, <1>1, <1>2 DEF Honest
<1> QED
  BY <1>2, <1>3 DEF g

(* An item is answered, or answered anew and its documents dropped. *)
LEMMA AnswerChanged ==
  ASSUME NEW f \in FormType, Honest(f), NEW i \in Items, NEW answer \in Values,
         f.answers[i] # "none" => f.flip[i] < MaxFlips
  PROVE  LET g == handleAnswerChange(f, i, answer) IN
         /\ g \in FormType /\ Honest(g) /\ SameWalk(g, f)
         /\ g.answers = [f.answers EXCEPT ![i] = answer]
         /\ \A j \in Items : g.flip[j] = f.flip[j] \/ (j = i /\ f.answers[i] \notin {"none", answer})
<1> DEFINE g == handleAnswerChange(f, i, answer)
<1>1. CASE f.answers[i] \in {"none", answer} \/ i \in TextItems
  <2>1. g = [f EXCEPT !.answers[i] = answer]
    BY <1>1 DEF handleAnswerChange
  <2> HIDE DEF g
  <2>2. /\ g \in FormType /\ SameWalk(g, f) /\ g.answers = [f.answers EXCEPT ![i] = answer]
        /\ g.flip = f.flip /\ g.notes = f.notes /\ g.photos = f.photos /\ g.cats = f.cats
    BY <2>1 DEF FormType, SameWalk
  <2>3. Honest(g)
    BY <2>2 DEF Honest
  <2> QED
    BY <2>2, <2>3 DEF g
<1>2. CASE ~(f.answers[i] \in {"none", answer} \/ i \in TextItems)
  <2>0. f.flip[i] + 1 \in 0 .. MaxFlips
    BY <1>2, Bounds DEF FormType
  <2>1. g = [f EXCEPT !.answers[i] = answer, !.notes[i] = emptyItemNote, !.photos[i] = {},
                      !.cats[i] = NoCategory, !.flip[i] = @ + 1]
    BY <1>2 DEF handleAnswerChange
  <2> HIDE DEF g
  <2>2. /\ g \in FormType /\ SameWalk(g, f) /\ g.answers = [f.answers EXCEPT ![i] = answer]
        /\ g.flip = [f.flip EXCEPT ![i] = @ + 1]
        /\ g.notes = [f.notes EXCEPT ![i] = emptyItemNote]
        /\ g.photos = [f.photos EXCEPT ![i] = {}]
        /\ g.cats = [f.cats EXCEPT ![i] = NoCategory]
    BY <2>0, <2>1, EmptyNote DEF FormType, SameWalk, NoCategory
  <2>3. /\ f.notes \in [Items -> Note] /\ f.photos \in [Items -> SUBSET (0 .. MaxFlips)]
        /\ f.cats \in [Items -> [requested : BOOLEAN, confirmed : {None} \cup (0 .. MaxFlips)]]
        /\ f.flip \in [Items -> 0 .. MaxFlips]
    BY DEF FormType
  <2>4. Honest(g)
    BY <2>2, <2>3, EmptyNote DEF Honest, NoCategory
  <2> QED
    BY <1>2, <2>2, <2>3, <2>4 DEF g
<1> QED
  BY <1>1, <1>2

(* The first confirm mints the key. *)
LEMMA KeyMinted ==
  ASSUME NEW f \in FormType, Honest(f), NEW k \in 1 .. MaxConfirms
  PROVE  LET g == [f EXCEPT !.key = k] IN
         /\ g \in FormType /\ Honest(g) /\ g.key = k /\ g.walk = f.walk
         /\ g.answers = f.answers /\ g.flip = f.flip /\ g.photos = f.photos
         /\ g.notes = f.notes /\ g.cats = f.cats
<1> DEFINE g == [f EXCEPT !.key = k]
<1>1. /\ g \in FormType /\ g.key = k /\ g.walk = f.walk
      /\ g.answers = f.answers /\ g.flip = f.flip /\ g.photos = f.photos
      /\ g.notes = f.notes /\ g.cats = f.cats
  BY DEF FormType
<1> HIDE DEF g
<1>2. Honest(g)
  BY <1>1 DEF Honest
<1> QED
  BY <1>1, <1>2 DEF g

-----------------------------------------------------------------------------
(* Frames *)

(* Nothing new carries a walkaround. *)
LEMMA CarriersKept ==
  ASSUME OneKeyPerWalk, \A a \in Carriers' : \E b \in Carriers : SameWalk(a, b)
  PROVE  OneKeyPerWalk'
  BY DEF OneKeyPerWalk, SameWalk

(* Requests that end or change hands, while the counters only grow. *)
LEMMA PostsKept ==
  ASSUME PostsHold, submits' \subseteq Submit, Sent' \subseteq Sent, UNCHANGED recorded,
         CountsHold, CountsHold', count.walks <= count'.walks, count.keys <= count'.keys
  PROVE  PostsHold'
<1>1. \A r \in Posts : PostHolds(r) => PostHolds(r)'
  BY Bounds DEF PostHolds, CountsHold, Posts
<1>2. \A r : PostHolds(r) => r \in Posts
  BY DEF PostHolds
<1>3. \A r \in Sent' : PostHolds(r)'
  BY <1>1, <1>2 DEF PostsHold
<1>4. \A k \in 1 .. MaxConfirms :
        (recorded[k] # None => PostHolds(recorded[k]) /\ recorded[k].key = k /\ Complete(recorded[k]))'
  <2> SUFFICES ASSUME NEW k \in 1 .. MaxConfirms, recorded[k] # None
               PROVE  (PostHolds(recorded[k]) /\ recorded[k].key = k /\ Complete(recorded[k]))'
    OBVIOUS
  <2>1. PostHolds(recorded[k]) /\ recorded[k].key = k /\ Complete(recorded[k])
    BY DEF PostsHold
  <2>2. PostHolds(recorded[k])'
    <3>1. recorded[k] \in Posts
      BY <1>2, <2>1
    <3>2. HonestPost(recorded[k]) /\ recorded[k].walk <= count'.walks /\ recorded[k].key <= count'.keys
      BY <2>1, <3>1, Bounds DEF PostHolds, CountsHold, Posts
    <3> QED
      BY <3>1, <3>2 DEF PostHolds, HonestPost
  <2> QED
    BY <2>1, <2>2 DEF Complete
<1>5. recorded' \in [1 .. MaxConfirms -> {None} \cup Posts]
  BY DEF PostsHold
<1> QED
  BY <1>3, <1>4, <1>5 DEF PostsHold

(* A step that leaves screens, storage and requests alone. *)
LEMMA Quiet ==
  ASSUME CaptureInvariant,
         UNCHANGED <<page, leaving, form, draft, asked, submits, wire, recorded>>,
         CountsHold', day <= day', count'.walks = count.walks, count'.keys = count.keys
  PROVE  Screens' /\ FormsHold' /\ PostsHold' /\ OneKeyPerWalk'
<1>1. Forms' = Forms /\ Sent' = Sent /\ Carriers' = Carriers
  BY DEF Forms, Sent, Carriers
<1>2. Screens'
  BY DEF CaptureInvariant, Screens
<1>3. FormsHold'
  <2>1. \A f \in Forms' : FormHolds(f)'
    BY <1>1 DEF CaptureInvariant, FormsHold, FormHolds
  <2>2. draft # None => draft'.day \in 0 .. day'
    BY DEF CaptureInvariant, FormsHold, CountsHold
  <2> QED
    BY <2>1, <2>2 DEF CaptureInvariant, FormsHold
<1>4. PostsHold'
  <2>1. submits' \subseteq Submit
    BY DEF CaptureInvariant, PostsHold
  <2>2. count.walks <= count'.walks /\ count.keys <= count'.keys
    BY DEF CaptureInvariant, CountsHold
  <2> QED
    BY <1>1, <2>1, <2>2, PostsKept DEF CaptureInvariant
<1>5. OneKeyPerWalk'
  BY <1>1 DEF CaptureInvariant, OneKeyPerWalk
<1> QED
  BY <1>2, <1>3, <1>4, <1>5

(* A screen changes its form and saves it. *)
LEMMA FormChange ==
  ASSUME CaptureInvariant, page.at \in {"inspect", "review"},
         NEW g, SetForm(g), g \in FormType, Honest(g), SameWalk(g, form),
         page.at = "review" => failuresDocumented(g), asked' \subseteq asked,
         UNCHANGED <<page, leaving, day, submits, wire, recorded>>,
         UNCHANGED count \/ Bump("texts") \/ Bump("picks")
  PROVE  Screens' /\ FormsHold' /\ CountsHold' /\ PostsHold' /\ OneKeyPerWalk'
<1>1. form' = g /\ draft' = [machine |-> page.machine, form |-> g, day |-> day]
  BY DEF SetForm, saveDraft, Stored
<1>2. Forms' \subseteq {g} /\ Sent' = Sent /\ form \in Forms
  BY <1>1 DEF Forms, Sent
<1>3. page.machine \in Machines /\ form.walk # 0
  BY DEF CaptureInvariant, Screens
<1>4. Screens'
  BY <1>1, <1>3 DEF CaptureInvariant, Screens, SameWalk
<1>5. CountsHold' /\ count'.walks = count.walks /\ count'.keys = count.keys
  <2>0. CountsHold
    BY DEF CaptureInvariant
  <2>1. CASE UNCHANGED count
    BY <2>0, <2>1 DEF CountsHold
  <2>2. CASE Bump("texts")
    BY <2>0, <2>2 DEF CountsHold, Bump
  <2>3. CASE Bump("picks")
    BY <2>0, <2>3 DEF CountsHold, Bump
  <2> QED
    BY <2>1, <2>2, <2>3
<1>6. FormsHold'
  <2>1. FormHolds(g)'
    BY <1>2, <1>5 DEF CaptureInvariant, FormsHold, FormHolds, SameWalk
  <2>2. draft'.machine \in Machines /\ draft'.form.walk # 0 /\ draft'.day \in 0 .. day'
    BY <1>1, <1>3 DEF CaptureInvariant, CountsHold, SameWalk
  <2> QED
    BY <1>2, <2>1, <2>2 DEF FormsHold
<1>7. PostsHold'
  <2>1. count.walks <= count'.walks /\ count.keys <= count'.keys
    BY <1>5 DEF CaptureInvariant, CountsHold
  <2>2. submits' \subseteq Submit
    BY DEF CaptureInvariant, PostsHold
  <2> QED
    BY <1>2, <1>5, <2>1, <2>2, PostsKept DEF CaptureInvariant
<1>8. \A a \in Carriers' : \E b \in Carriers : SameWalk(a, b)
  BY <1>2 DEF Carriers, SameWalk
<1> QED
  BY <1>4, <1>5, <1>6, <1>7, <1>8, CarriersKept DEF CaptureInvariant

(* Uploads and recordings of a screen whose form keeps the answers. *)
LEMMA UploadsKept ==
  ASSUME UploadsHold, UNCHANGED page,
         \A u \in uploads' :
           /\ u \in [item : PhotoItems, flip : 0 .. MaxFlips, current : BOOLEAN]
           /\ u.current => /\ u \in uploads
                           /\ form'.answers[u.item] = form.answers[u.item]
                           /\ form'.flip[u.item] = form.flip[u.item]
  PROVE  UploadsHold'
  BY DEF UploadsHold

(* The uploads of one item become an old generation. *)
LEMMA OldGeneration ==
  ASSUME UploadsHold, NEW i \in Items, NextGeneration(i)
  PROVE  \A u \in uploads' :
           /\ u \in [item : PhotoItems, flip : 0 .. MaxFlips, current : BOOLEAN]
           /\ u.current => u \in uploads /\ u.item # i
<1> SUFFICES ASSUME NEW u \in uploads'
             PROVE  /\ u \in [item : PhotoItems, flip : 0 .. MaxFlips, current : BOOLEAN]
                    /\ u.current => u \in uploads /\ u.item # i
  OBVIOUS
<1>1. PICK v \in uploads : u = [v EXCEPT !.current = @ /\ v.item # i]
  BY DEF NextGeneration
<1>2. v \in [item : PhotoItems, flip : 0 .. MaxFlips, current : BOOLEAN]
  BY DEF UploadsHold
<1>3. u.item = v.item /\ u.flip = v.flip /\ u.current = (v.current /\ v.item # i)
  BY <1>1, <1>2
<1>4. u \in [item : PhotoItems, flip : 0 .. MaxFlips, current : BOOLEAN]
  BY <1>1, <1>2
<1>5. u.current => u = v
  BY <1>1, <1>2, <1>3, <1>4
<1> QED
  BY <1>3, <1>4, <1>5

-----------------------------------------------------------------------------
(* The checklist screen *)

(* The form of a mounted screen. *)
LEMMA FormOnScreen ==
  ASSUME CaptureInvariant
  PROVE  form \in FormType /\ Honest(form) /\ form \in Forms
         /\ form.walk <= count.walks /\ form.key <= count.keys
  BY DEF CaptureInvariant, FormsHold, FormHolds, Forms

(* Answering keeps the invariant: documents and uploads of a changed answer go. *)
LEMMA AnswerStep ==
  ASSUME CaptureInvariant, NEW i \in Items, NEW answer \in Values, Answer(i, answer)
  PROVE  CaptureInvariant'
<1> DEFINE g == handleAnswerChange(form, i, answer)
<1>1. /\ g \in FormType /\ Honest(g) /\ SameWalk(g, form)
      /\ g.answers = [form.answers EXCEPT ![i] = answer]
      /\ \A j \in Items : g.flip[j] = form.flip[j] \/ (j = i /\ form.answers[i] \notin {"none", answer})
  BY FormOnScreen, AnswerChanged DEF Answer
<1>2. SetForm(g) /\ page.at = "inspect" /\ form.answers[i] # answer
  BY DEF Answer
<1> HIDE DEF g
<1>3. Screens' /\ FormsHold' /\ CountsHold' /\ PostsHold' /\ OneKeyPerWalk'
  BY <1>1, <1>2, FormChange DEF Answer
<1>4. form' = g
  BY <1>2 DEF SetForm
<1>5. form.answers \in [Items -> {"none"} \cup Values]
  BY FormOnScreen DEF FormType
<1>6. UploadsHold'
  <2>0. UploadsHold /\ UNCHANGED page
    BY DEF CaptureInvariant, Answer
  <2>1. CASE answer = "pass"
    <3>1. \A u \in uploads' :
            /\ u \in [item : PhotoItems, flip : 0 .. MaxFlips, current : BOOLEAN]
            /\ u.current => u \in uploads /\ u.item # i
      BY <2>0, <2>1, OldGeneration DEF Answer
    <3>2. \A u \in uploads' : u.item \in Items
      BY <3>1, PhotoItemsAreItems
    <3> QED
      BY <1>1, <1>4, <1>5, <2>0, <3>1, <3>2, UploadsKept
  <2>2. CASE answer # "pass"
    <3>1. \A u \in uploads : u \in [item : PhotoItems, flip : 0 .. MaxFlips, current : BOOLEAN]
                             /\ (u.current => form.answers[u.item] = "fail")
      BY <2>0 DEF UploadsHold
    <3>2. \A u \in uploads : u.current => u.item \in Items /\ u.item # i
      <4>1. answer \in ValuesOf(i) \ {form.answers[i]}
        BY DEF Answer
      <4> QED
        BY <2>2, <3>1, <4>1, PhotoItemsAreItems, TextItemsAreItems DEF ValuesOf
    <3>3. uploads' = uploads
      BY <2>2 DEF Answer
    <3> QED
      BY <1>1, <1>4, <1>5, <2>0, <3>1, <3>2, <3>3, UploadsKept
  <2> QED
    BY <2>1, <2>2
<1>7. VoiceHolds'
  BY DEF CaptureInvariant, VoiceHolds, Answer
<1> QED
  BY <1>3, <1>6, <1>7 DEF CaptureInvariant

(* Typing into a note. *)
LEMMA TypeStep ==
  ASSUME CaptureInvariant, NEW i \in Items, TypeNote(i)
  PROVE  CaptureInvariant'
<1>1. PICK text \in Edits(i) : /\ Len(text) <= MaxFragments
                               /\ SetForm([form EXCEPT !.notes[i] = applyTextEdit(@, text)])
  BY DEF TypeNote
<1> DEFINE n == applyTextEdit(form.notes[i], text)
           g == [form EXCEPT !.notes[i] = n]
           typed == [by |-> "typed", flip |-> form.flip[i]]
<1>2. form \in FormType /\ Honest(form)
  BY FormOnScreen
<1>3. form.notes[i] \in Note /\ form.flip[i] \in 0 .. MaxFlips /\ HonestNote(form.notes[i], form.flip[i])
  BY <1>2 DEF FormType, Honest
<1>4. text \in Text /\ \/ text = <<>> \/ text = form.notes[i].raw
                       \/ text = Append(form.notes[i].text, typed)
  <2>1. CASE text = <<>>
    BY <2>1, EmptyNote DEF Note, emptyItemNote
  <2>2. CASE text \in {form.notes[i].raw} \ {None}
    BY <1>3, <2>2 DEF Note
  <2>3. CASE text = Append(form.notes[i].text, typed)
    <3>1. /\ form.notes[i].text \in Seq(Fragment) /\ typed \in Fragment
      BY <1>3, TextIsSeq DEF Note, Fragment
    <3>2. text \in Seq(Fragment)
      BY <2>3, <3>1, AppendProperties
    <3>3. text \in Text
      BY <1>1, <3>2, TextIsSeq
    <3> QED
      BY <2>3, <3>3
  <2> QED
    BY <1>1, <2>1, <2>2, <2>3 DEF Edits
<1>5. n \in Note /\ HonestNote(n, form.flip[i])
  BY <1>3, <1>4, EditedNote
<1>6. SetForm(g)
  BY <1>1
<1> HIDE DEF n
<1>7. /\ g \in FormType /\ Honest(g) /\ SameWalk(g, form)
      /\ g.answers = form.answers /\ g.flip = form.flip
  BY <1>2, <1>5, NoteReplaced
<1> HIDE DEF g
<1>8. page.at = "inspect"
  BY DEF TypeNote, CardOpen
<1>9. Screens' /\ FormsHold' /\ CountsHold' /\ PostsHold' /\ OneKeyPerWalk'
  BY <1>6, <1>7, <1>8, FormChange DEF TypeNote
<1>10. UploadsHold'
  BY <1>6, <1>7 DEF CaptureInvariant, UploadsHold, SetForm, TypeNote
<1>11. VoiceHolds'
  BY DEF CaptureInvariant, VoiceHolds, TypeNote
<1> QED
  BY <1>9, <1>10, <1>11 DEF CaptureInvariant

(* A transcript comes back to the card that asked for it. *)
LEMMA TranscriptStep ==
  ASSUME CaptureInvariant, NEW i \in Items, Transcript(i)
  PROVE  CaptureInvariant'
<1> DEFINE clip == [by |-> "voice", flip |-> voice[i].flip]
           n == applyTranscript(form.notes[i], clip)
           g == [form EXCEPT !.notes[i] = n]
<1>1. form \in FormType /\ Honest(form)
  BY FormOnScreen
<1>2. form.notes[i] \in Note /\ form.flip[i] \in 0 .. MaxFlips /\ HonestNote(form.notes[i], form.flip[i])
  BY <1>1 DEF FormType, Honest
<1>3. clip \in Fragment /\ clip.by = "voice"
  BY DEF CaptureInvariant, VoiceHolds, Transcript, Fragment
<1>4. SetForm(g) /\ page.at = "inspect" /\ Len(form.notes[i].text) < MaxFragments
      /\ voice' = [voice EXCEPT ![i] = None]
  BY DEF Transcript
<1> HIDE DEF clip
<1>5. n \in Note /\ HonestNote(n, form.flip[i])
  BY <1>2, <1>3, <1>4, HeardNote
<1> HIDE DEF n
<1>6. /\ g \in FormType /\ Honest(g) /\ SameWalk(g, form)
      /\ g.answers = form.answers /\ g.flip = form.flip
  BY <1>1, <1>5, NoteReplaced
<1> HIDE DEF g
<1>7. Screens' /\ FormsHold' /\ CountsHold' /\ PostsHold' /\ OneKeyPerWalk'
  BY <1>4, <1>6, FormChange DEF Transcript
<1>8. UploadsHold'
  BY <1>4, <1>6 DEF CaptureInvariant, UploadsHold, SetForm, Transcript
<1>9. VoiceHolds'
  BY <1>4 DEF CaptureInvariant, VoiceHolds
<1> QED
  BY <1>7, <1>8, <1>9 DEF CaptureInvariant

(* Removing a photo, and the upload of one. *)
LEMMA RemoveStep ==
  ASSUME CaptureInvariant, NEW i \in Items, RemovePhoto(i)
  PROVE  CaptureInvariant'
<1> DEFINE g == [form EXCEPT !.photos[i] = {}]
<1>1. form \in FormType /\ Honest(form)
  BY FormOnScreen
<1>2. SetForm(g) /\ page.at = "inspect" /\ NextGeneration(i)
  BY DEF RemovePhoto, CardOpen
<1>3. /\ g \in FormType /\ Honest(g) /\ SameWalk(g, form)
      /\ g.answers = form.answers /\ g.flip = form.flip
  BY <1>1, PhotosReplaced
<1> HIDE DEF g
<1>4. Screens' /\ FormsHold' /\ CountsHold' /\ PostsHold' /\ OneKeyPerWalk'
  BY <1>2, <1>3, FormChange DEF RemovePhoto
<1>5. UploadsHold'
  <2>1. form' = g /\ UNCHANGED page
    BY <1>2 DEF SetForm, RemovePhoto
  <2> QED
    BY <1>2, <1>3, <2>1, OldGeneration, UploadsKept DEF CaptureInvariant
<1>6. VoiceHolds'
  BY DEF CaptureInvariant, VoiceHolds, RemovePhoto
<1> QED
  BY <1>4, <1>5, <1>6 DEF CaptureInvariant

(* An upload of the current generation is the photo of the answer on screen. *)
LEMMA UploadedStep ==
  ASSUME CaptureInvariant, NEW u \in uploads, Uploaded(u)
  PROVE  CaptureInvariant'
<1>1. form \in FormType /\ Honest(form)
  BY FormOnScreen
<1>2. VoiceHolds'
  BY DEF CaptureInvariant, VoiceHolds, Uploaded
<1>3. CASE u.current
  <2> DEFINE i == u.item
             g == [form EXCEPT !.photos[i] = {u.flip}]
  <2>1. i \in Items /\ page.at = "inspect" /\ u.flip = form.flip[i]
    BY <1>3, PhotoItemsAreItems DEF CaptureInvariant, UploadsHold
  <2>2. SetForm(g)
    BY <1>3 DEF Uploaded, Reports
  <2> HIDE DEF i
  <2>3. /\ g \in FormType /\ Honest(g) /\ SameWalk(g, form)
        /\ g.answers = form.answers /\ g.flip = form.flip
    BY <1>1, <2>1, PhotosReplaced
  <2> HIDE DEF g
  <2>4. Screens' /\ FormsHold' /\ CountsHold' /\ PostsHold' /\ OneKeyPerWalk'
    BY <2>1, <2>2, <2>3, FormChange DEF Uploaded
  <2>5. UploadsHold'
    BY <2>2, <2>3 DEF CaptureInvariant, UploadsHold, SetForm, Uploaded
  <2> QED
    BY <1>2, <2>4, <2>5 DEF CaptureInvariant
<1>4. CASE ~u.current
  <2>1. UNCHANGED <<page, leaving, form, draft, asked, submits, wire, recorded, day, count>>
    BY <1>4 DEF Uploaded, Reports
  <2>2. CountsHold' /\ day <= day'
    BY <2>1 DEF CaptureInvariant, CountsHold
  <2>3. UploadsHold'
    BY <2>1 DEF CaptureInvariant, UploadsHold, Uploaded
  <2> QED
    BY <1>2, <2>1, <2>2, <2>3, Quiet DEF CaptureInvariant
<1> QED
  BY <1>3, <1>4

(* Recording, photographing, collapsing a card, and what comes back empty. *)
LEMMA QuietStep ==
  ASSUME CaptureInvariant,
         \/ \E i \in Items : \/ StartRecording(i) \/ StopRecording(i) \/ TranscriptFails(i)
                             \/ TakePhoto(i) \/ CollapseCard(i)
         \/ \E u \in uploads : UploadFails(u)
         \/ Midnight
  PROVE  CaptureInvariant'
<1>1. UNCHANGED <<page, leaving, form, draft, asked, submits, wire, recorded>>
  BY DEF StartRecording, StopRecording, TranscriptFails, TakePhoto, CollapseCard, UploadFails, Midnight
<1>2. CountsHold' /\ day <= day' /\ count'.walks = count.walks /\ count'.keys = count.keys
  <2>1. CASE UNCHANGED <<day, count>>
    BY <2>1 DEF CaptureInvariant, CountsHold
  <2>2. CASE Bump("clips") /\ UNCHANGED day
    BY <2>2 DEF CaptureInvariant, CountsHold, Bump
  <2>3. CASE Bump("uploads") /\ UNCHANGED day
    BY <2>3 DEF CaptureInvariant, CountsHold, Bump
  <2>4. CASE day' = day + 1 /\ UNCHANGED count
    BY <2>4 DEF CaptureInvariant, CountsHold
  <2> QED
    BY <2>1, <2>2, <2>3, <2>4 DEF StartRecording, StopRecording, TranscriptFails, TakePhoto,
                                  CollapseCard, UploadFails, Midnight
<1>3. UploadsHold'
  <2>1. CASE uploads' \subseteq uploads
    BY <1>1, <2>1 DEF CaptureInvariant, UploadsHold
  <2>2. CASE \E i \in Items : CollapseCard(i)
    BY <1>1, <2>2, OldGeneration, UploadsKept DEF CaptureInvariant, CollapseCard
  <2>3. ASSUME NEW i \in Items, TakePhoto(i)  PROVE UploadsHold'
    <3> DEFINE new == [item |-> i, flip |-> form.flip[i], current |-> TRUE]
               old == {[u EXCEPT !.current = @ /\ u.item # i] : u \in uploads}
    <3>1. uploads' = old \cup {new}
      BY <2>3 DEF TakePhoto
    <3>2. form.flip[i] \in 0 .. MaxFlips /\ i \in PhotoItems /\ page.at = "inspect"
          /\ form.answers[i] = "fail"
      BY <2>3, FormOnScreen DEF TakePhoto, CardOpen, FormType
    <3>3. new \in [item : PhotoItems, flip : 0 .. MaxFlips, current : BOOLEAN]
          /\ new.item = i /\ new.flip = form.flip[i]
      BY <3>2
    <3>4. \A u \in old :
            /\ u \in [item : PhotoItems, flip : 0 .. MaxFlips, current : BOOLEAN]
            /\ u.current => u \in uploads
      <4> SUFFICES ASSUME NEW v \in uploads
                   PROVE  LET u == [v EXCEPT !.current = @ /\ v.item # i] IN
                          /\ u \in [item : PhotoItems, flip : 0 .. MaxFlips, current : BOOLEAN]
                          /\ u.current => u \in uploads
        OBVIOUS
      <4> DEFINE u == [v EXCEPT !.current = @ /\ v.item # i]
      <4>1. v \in [item : PhotoItems, flip : 0 .. MaxFlips, current : BOOLEAN]
        BY DEF CaptureInvariant, UploadsHold
      <4>2. u.item = v.item /\ u.flip = v.flip /\ u.current = (v.current /\ v.item # i)
            /\ u \in [item : PhotoItems, flip : 0 .. MaxFlips, current : BOOLEAN]
        BY <4>1
      <4>3. u.current => u = v
        BY <4>1, <4>2
      <4> QED
        BY <4>2, <4>3
    <3> HIDE DEF new, old
    <3>5. \A u \in old : u.current => /\ page.at = "inspect" /\ form.answers[u.item] = "fail"
                                      /\ u.flip = form.flip[u.item]
      BY <3>4 DEF CaptureInvariant, UploadsHold
    <3> QED
      BY <1>1, <3>1, <3>2, <3>3, <3>4, <3>5 DEF UploadsHold
  <2> QED
    BY <2>1, <2>2, <2>3 DEF StartRecording, StopRecording, TranscriptFails, UploadFails, Midnight
<1>4. VoiceHolds'
  <2>0. voice \in [Items -> {None} \cup [at : {"recording", "transcribing"}, flip : 0 .. MaxFlips]]
    BY DEF CaptureInvariant, VoiceHolds
  <2>1. ASSUME NEW i \in Items, StartRecording(i)  PROVE VoiceHolds'
    <3>1. form.flip[i] \in 0 .. MaxFlips
      BY FormOnScreen DEF FormType
    <3> QED
      BY <2>0, <2>1, <3>1 DEF StartRecording, VoiceHolds
  <2>2. ASSUME NEW i \in Items, StopRecording(i)  PROVE VoiceHolds'
    <3>1. voice[i] \in [at : {"recording", "transcribing"}, flip : 0 .. MaxFlips]
      BY <2>0, <2>2 DEF StopRecording
    <3>2. [voice[i] EXCEPT !.at = "transcribing"]
             \in [at : {"recording", "transcribing"}, flip : 0 .. MaxFlips]
      BY <3>1
    <3>3. voice' = [voice EXCEPT ![i] = [voice[i] EXCEPT !.at = "transcribing"]]
      BY <2>2 DEF StopRecording
    <3> QED
      BY <2>0, <3>2, <3>3 DEF VoiceHolds
  <2>3. ASSUME NEW i \in Items, TranscriptFails(i)  PROVE VoiceHolds'
    BY <2>0, <2>3 DEF TranscriptFails, VoiceHolds
  <2>4. CASE UNCHANGED voice
    BY <2>0, <2>4 DEF VoiceHolds
  <2> QED
    BY <2>1, <2>2, <2>3, <2>4 DEF TakePhoto, CollapseCard, UploadFails, Midnight
<1> QED
  BY <1>1, <1>2, <1>3, <1>4, Quiet DEF CaptureInvariant

-----------------------------------------------------------------------------
(* Screens come and go *)

(* What a screen that is left, or a page that is loaded, leaves behind. *)
Leaves ==
  /\ leaving' = None
  /\ VoiceHolds'
  /\ \A u \in uploads' :
       u \in [item : PhotoItems, flip : 0 .. MaxFlips, current : BOOLEAN] /\ ~u.current
  /\ submits' \subseteq Submit /\ Sent' \subseteq Sent
  /\ UNCHANGED <<day, recorded>>

(* A submit or an upload nobody waits for is the same request. *)
LEMMA UnmountLeaves ==
  ASSUME CaptureInvariant, Unmount, UNCHANGED <<day, wire, recorded>>
  PROVE  Leaves
<1>1. VoiceHolds'
  BY DEF Unmount, VoiceHolds
<1>2. ASSUME NEW v \in uploads
      PROVE  LET u == [v EXCEPT !.current = FALSE] IN
             u \in [item : PhotoItems, flip : 0 .. MaxFlips, current : BOOLEAN] /\ ~u.current
  <2>1. v \in [item : PhotoItems, flip : 0 .. MaxFlips, current : BOOLEAN]
    BY DEF CaptureInvariant, UploadsHold
  <2> QED
    BY <2>1
<1>3. ASSUME NEW t \in submits
      PROVE  LET s == [t EXCEPT !.mounted = FALSE] IN s \in Submit /\ Request(s) = Request(t)
  <2>1. t \in Submit
    BY DEF CaptureInvariant, PostsHold
  <2> QED
    BY <2>1 DEF Submit, Request
<1>4. \A u \in uploads' :
        u \in [item : PhotoItems, flip : 0 .. MaxFlips, current : BOOLEAN] /\ ~u.current
  BY <1>2 DEF Unmount
<1>5. \A s \in submits' : s \in Submit /\ \E t \in submits : Request(s) = Request(t)
  BY <1>3 DEF Unmount
<1>6. Sent' \subseteq Sent
  BY <1>5 DEF Sent
<1> QED
  BY <1>1, <1>4, <1>5, <1>6 DEF Leaves, Unmount

(* A page load gives up the running submits, which may still arrive. *)
LEMMA ReloadLeaves ==
  ASSUME CaptureInvariant, Reload
  PROVE  Leaves
<1>1. VoiceHolds'
  BY DEF Reload, VoiceHolds
<1>2. Sent' \subseteq Sent
  BY DEF Reload, Sent
<1> QED
  BY <1>1, <1>2 DEF Reload, Leaves

(* A screen mounts with a form: the stored one, or a new walkaround's. *)
LEMMA Mounts ==
  ASSUME CaptureInvariant, Leaves, NEW m \in Machines, NEW at \in {"inspect", "review"}, NEW f,
         page' = [at |-> at, machine |-> m], form' = f, draft' = Stored(m, f),
         \/ draft # None /\ f = draft.form /\ UNCHANGED count
         \/ count.walks < MaxWalks /\ f = BlankForm(count.walks + 1) /\ Bump("walks"),
         asked' \subseteq Items, asked' # {} => at = "review",
         at = "review" => failuresDocumented(f)
  PROVE  CaptureInvariant'
<1>0. /\ count \in [walks : 0 .. MaxWalks, confirms : 0 .. MaxConfirms, keys : 0 .. MaxConfirms,
                    clips : Nat, uploads : Nat, failures : Nat, texts : Nat, picks : Nat]
      /\ MaxWalks \in Nat /\ MaxConfirms \in Nat /\ day \in Nat /\ day' = day
  BY Bounds DEF CaptureInvariant, CountsHold, Leaves
<1>1. CountsHold' /\ count.walks <= count'.walks /\ count'.keys = count.keys
  BY <1>0 DEF CaptureInvariant, CountsHold, Bump
<1>2. f \in FormType /\ Honest(f) /\ f.walk <= count'.walks /\ f.key <= count'.keys /\ f.walk # 0
  <2>1. CASE draft # None /\ f = draft.form /\ UNCHANGED count
    BY <2>1 DEF CaptureInvariant, FormsHold, Forms, FormHolds
  <2>2. CASE count.walks < MaxWalks /\ f = BlankForm(count.walks + 1) /\ Bump("walks")
    <3>1. count.walks + 1 \in 0 .. MaxWalks /\ count'.walks = count.walks + 1
      BY <1>0, <2>2 DEF Bump
    <3>2. f \in FormType /\ Honest(f) /\ f.walk = count.walks + 1 /\ f.key = 0
      BY <2>2, <3>1, BlankIsForm
    <3> QED
      BY <1>0, <1>1, <3>1, <3>2
  <2> QED
    BY <2>1, <2>2
<1>3. draft' = [machine |-> m, form |-> f, day |-> day]
  BY DEF Stored
<1>4. Forms' \subseteq {f}
  BY <1>3 DEF Forms
<1>5. Screens'
  BY <1>2, <1>3 DEF Screens, Leaves
<1>6. FormsHold'
  <2>1. FormHolds(f)'
    BY <1>2, <1>4 DEF FormHolds
  <2>2. draft'.machine \in Machines /\ draft'.form.walk # 0 /\ draft'.day \in 0 .. day'
    BY <1>0, <1>2, <1>3
  <2> QED
    BY <1>4, <2>1, <2>2 DEF FormsHold
<1>7. UploadsHold' /\ VoiceHolds'
  BY DEF Leaves, UploadsHold
<1>8. PostsHold'
  <2>1. count.walks <= count'.walks /\ count.keys <= count'.keys
    BY <1>0, <1>1
  <2> QED
    BY <1>1, <2>1, PostsKept DEF CaptureInvariant, Leaves
<1>9. OneKeyPerWalk'
  <2>1. Carriers' \subseteq {f} \cup Sent \cup ({recorded[k] : k \in 1 .. MaxConfirms} \ {None})
    BY <1>4 DEF Carriers, Leaves
  <2>2. CASE draft # None /\ f = draft.form
    <3>1. f \in Carriers
      BY <2>2 DEF Carriers, Forms
    <3>2. Carriers' \subseteq Carriers
      BY <2>1, <3>1 DEF Carriers
    <3> QED
      BY <3>2 DEF CaptureInvariant, OneKeyPerWalk
  <2>3. CASE count.walks < MaxWalks /\ f = BlankForm(count.walks + 1)
    <3>1. f.walk = count.walks + 1
      BY <2>3 DEF BlankForm
    <3>2. \A r \in Sent \cup ({recorded[k] : k \in 1 .. MaxConfirms} \ {None}) :
            r \in Carriers /\ PostHolds(r)
      BY DEF CaptureInvariant, PostsHold, Carriers
    <3>3. \A r \in Sent \cup ({recorded[k] : k \in 1 .. MaxConfirms} \ {None}) : r.walk # f.walk
      BY <1>0, <3>1, <3>2 DEF PostHolds, Posts
    <3> QED
      BY <2>1, <3>2, <3>3 DEF CaptureInvariant, OneKeyPerWalk
  <2> QED
    BY <2>2, <2>3
<1> QED
  BY <1>1, <1>5, <1>6, <1>7, <1>8, <1>9 DEF CaptureInvariant

(* The checklist screen, on the stored draft or a new walkaround. *)
LEMMA ChecklistMounts ==
  ASSUME CaptureInvariant, Leaves, NEW m \in Machines, ShowChecklist(m)
  PROVE  CaptureInvariant'
<1> DEFINE f == form'
<1>1. page' = [at |-> "inspect", machine |-> m] /\ draft' = Stored(m, f) /\ asked' = {}
  BY DEF ShowChecklist
<1>2. \/ draft # None /\ f = draft.form /\ UNCHANGED count
      \/ count.walks < MaxWalks /\ f = BlankForm(count.walks + 1) /\ Bump("walks")
  BY DEF ShowChecklist, loadDraft
<1>3. form' = f /\ asked' \subseteq Items /\ (asked' # {} => "inspect" = "review")
  BY <1>1
<1> HIDE DEF f
<1> QED
  BY <1>1, <1>2, <1>3, Mounts

(* The review screen, or the checklist if the draft does not bear it. *)
LEMMA ReviewMounts ==
  ASSUME CaptureInvariant, Leaves, NEW m \in Machines, ShowReview(m)
  PROVE  CaptureInvariant'
<1>1. CASE loadDraft(m) /\ failuresDocumented(draft.form)
  <2> DEFINE f == form'
  <2>1. /\ page' = [at |-> "review", machine |-> m] /\ draft' = Stored(m, f)
        /\ f = draft.form /\ draft # None /\ UNCHANGED count
        /\ asked' = Unsuggested(f)
    BY <1>1 DEF ShowReview, saveDraft, loadDraft
  <2>2. form' = f /\ failuresDocumented(f)
    BY <1>1, <2>1
  <2> HIDE DEF f
  <2>3. asked' \subseteq Items
    BY <2>1 DEF Unsuggested, Failed
  <2> QED
    BY <2>1, <2>2, <2>3, Mounts
<1>2. CASE ~(loadDraft(m) /\ failuresDocumented(draft.form))
  BY <1>2, ChecklistMounts DEF ShowReview
<1> QED
  BY <1>1, <1>2

(* Opening a machine, submitting the checklist, the history and the reload. *)
LEMMA MountStep ==
  ASSUME CaptureInvariant,
         \/ \E m \in Machines : OpenChecklist(m) \/ BackToReview(m)
         \/ handleSubmit \/ Reload
  PROVE  CaptureInvariant'
<1>1. ASSUME NEW m \in Machines, OpenChecklist(m)  PROVE CaptureInvariant'
  BY <1>1, UnmountLeaves, ChecklistMounts DEF OpenChecklist
<1>2. ASSUME NEW m \in Machines, BackToReview(m)  PROVE CaptureInvariant'
  BY <1>2, UnmountLeaves, ReviewMounts DEF BackToReview
<1>3. page.at \in {"inspect", "review"} => page.machine \in Machines
  BY DEF CaptureInvariant, Screens
<1>4. CASE handleSubmit
  BY <1>3, <1>4, UnmountLeaves, ReviewMounts DEF handleSubmit
<1>5. CASE Reload
  BY <1>3, <1>5, ReloadLeaves, ReviewMounts, ChecklistMounts DEF Reload
<1> QED
  BY <1>1, <1>2, <1>4, <1>5

(* The confirmation screen replaces whatever was on screen. *)
LEMMA NavigateStep ==
  ASSUME CaptureInvariant, Navigate
  PROVE  CaptureInvariant'
<1>1. Leaves /\ leaving \in Machines \cup {None}
  BY UnmountLeaves DEF Navigate, CaptureInvariant, Screens
<1>2. /\ page' = [at |-> "done", machine |-> leaving] /\ form' = BlankForm(0) /\ asked' = {}
      /\ UNCHANGED <<draft, day, recorded, count>>
  BY DEF Navigate
<1>3. Screens'
  BY <1>1, <1>2 DEF Screens, Leaves
<1>4. CountsHold'
  BY <1>2 DEF CaptureInvariant, CountsHold
<1>5. /\ BlankForm(0) \in FormType /\ Honest(BlankForm(0))
      /\ BlankForm(0).walk = 0 /\ BlankForm(0).key = 0
  BY BlankIsForm, Bounds
<1>6. Forms' \subseteq Forms \cup {BlankForm(0)}
  BY <1>2 DEF Forms
<1>7. FormsHold'
  <2>1. \A f \in Forms : FormHolds(f)'
    BY <1>2 DEF CaptureInvariant, FormsHold, FormHolds
  <2>2. FormHolds(BlankForm(0))'
    BY <1>2, <1>5 DEF FormHolds, CaptureInvariant, CountsHold
  <2> QED
    BY <1>2, <1>6, <2>1, <2>2 DEF CaptureInvariant, FormsHold
<1>8. UploadsHold' /\ VoiceHolds'
  BY <1>1 DEF Leaves, UploadsHold
<1>9. PostsHold'
  BY <1>1, <1>2, <1>4, PostsKept DEF CaptureInvariant, Leaves, CountsHold
<1>10. OneKeyPerWalk'
  <2>1. Forms' \subseteq {BlankForm(0)} \cup (IF draft = None THEN {} ELSE {draft.form})
    BY <1>2 DEF Forms
  <2> DEFINE Others == (IF draft = None THEN {} ELSE {draft.form}) \cup Sent
                         \cup ({recorded[k] : k \in 1 .. MaxConfirms} \ {None})
  <2>2. Carriers' \subseteq {BlankForm(0)} \cup Others
    BY <1>1, <2>1 DEF Carriers, Leaves
  <2>3. Others \subseteq Carriers
    BY DEF Carriers, Forms
  <2>4. \A c \in Others : c.walk # 0
    BY DEF CaptureInvariant, FormsHold, PostsHold, PostHolds, Posts
  <2> HIDE DEF Others
  <2> QED
    BY <1>5, <2>2, <2>3, <2>4 DEF CaptureInvariant, OneKeyPerWalk
<1> QED
  BY <1>3, <1>4, <1>7, <1>8, <1>9, <1>10 DEF CaptureInvariant

-----------------------------------------------------------------------------
(* The review screen *)

(* A category is suggested, or confirmed. *)
LEMMA CategoryStep ==
  ASSUME CaptureInvariant, NEW i \in Items, Suggestion(i) \/ PickCategory(i)
  PROVE  CaptureInvariant'
<1>1. form \in FormType /\ Honest(form)
  BY FormOnScreen
<1>2. page.at = "review" /\ failuresDocumented(form)
  BY DEF CaptureInvariant, Screens, Suggestion, PickCategory
<1>3. PICK c \in {[form.cats[i] EXCEPT !.requested = TRUE],
                  [form.cats[i] EXCEPT !.confirmed = form.flip[i]]} :
        SetForm([form EXCEPT !.cats[i] = c])
  BY DEF Suggestion, PickCategory
<1> DEFINE g == [form EXCEPT !.cats[i] = c]
<1>4. /\ g \in FormType /\ Honest(g) /\ SameWalk(g, form)
      /\ g.answers = form.answers /\ g.flip = form.flip /\ g.photos = form.photos
  BY <1>1, CategoryReplaced
<1>5. SetForm(g)
  BY <1>3
<1> HIDE DEF g
<1>6. failuresDocumented(g)
  BY <1>2, <1>4 DEF failuresDocumented, Failed
<1>7. Screens' /\ FormsHold' /\ CountsHold' /\ PostsHold' /\ OneKeyPerWalk'
  BY <1>2, <1>4, <1>5, <1>6, FormChange DEF Suggestion, PickCategory
<1>8. UploadsHold' /\ VoiceHolds'
  BY <1>2 DEF CaptureInvariant, UploadsHold, VoiceHolds, Suggestion, PickCategory
<1> QED
  BY <1>7, <1>8 DEF CaptureInvariant

(* The body of a documented form is an honest attestation of it. *)
LEMMA BodyIsHonest ==
  ASSUME NEW f \in FormType, Honest(f), failuresDocumented(f), NEW m \in Machines,
         NEW k \in 1 .. MaxConfirms, f.walk # 0
  PROVE  LET r == [key |-> k, walk |-> f.walk, flip |-> f.flip, body |-> buildSubmitPayload(m, f)]
         IN  r \in Posts /\ HonestPost(r)
<1> DEFINE Asked == {j \in Items : f.answers[j] # "none"}
           Given(i) == [value |-> f.answers[i], text |-> f.notes[i].text,
                        source |-> f.notes[i].source, photos |-> f.photos[i],
                        category |-> f.cats[i].confirmed]
           responses == [i \in Asked |-> Given(i)]
           body == [machine |-> m, responses |-> responses]
           r == [key |-> k, walk |-> f.walk, flip |-> f.flip, body |-> body]
<1>1. buildSubmitPayload(m, f) = body
  BY DEF buildSubmitPayload
<1>2. ASSUME NEW i \in Asked
      PROVE  Given(i) \in Response /\ HonestResponse(Given(i), f.flip[i])
  <2>1. /\ f.answers[i] \in Values /\ f.notes[i] \in Note /\ f.photos[i] \in SUBSET (0 .. MaxFlips)
        /\ f.cats[i].confirmed \in {None} \cup (0 .. MaxFlips)
        /\ HonestNote(f.notes[i], f.flip[i]) /\ f.photos[i] \subseteq {f.flip[i]}
        /\ f.cats[i].confirmed \in {None, f.flip[i]}
    BY DEF FormType, Honest
  <2>2. Given(i) \in Response
    BY <2>1 DEF Response, Note
  <2>3. f.notes[i].source = "VOICE_TRANSCRIBED" =>
          Len(f.notes[i].text) = 1 /\ f.notes[i].text[1].by = "voice"
    <3> SUFFICES ASSUME f.notes[i].source = "VOICE_TRANSCRIBED"
                 PROVE  Len(f.notes[i].text) = 1 /\ f.notes[i].text[1].by = "voice"
      OBVIOUS
    <3>1. PICK clip \in Fragment : clip.by = "voice" /\ f.notes[i].text = <<clip>>
      BY <2>1 DEF HonestNote
    <3> QED
      BY <3>1
  <2> QED
    BY <2>1, <2>2, <2>3 DEF HonestResponse, HonestNote
<1>3. \A i \in Asked : i \in PhotoItems /\ Given(i).value = "fail" => Given(i).photos # {}
  BY DEF failuresDocumented, Failed, FormType
<1> HIDE DEF Given
<1>4. responses \in [Asked -> Response] /\ Asked \in SUBSET Items
  BY <1>2
<1>5. responses \in UNION {[S -> Response] : S \in SUBSET Items}
  BY <1>4
<1>6. body \in Payload /\ body.responses = responses
  BY <1>5 DEF Payload
<1>7. \A i \in Asked : responses[i] = Given(i)
  OBVIOUS
<1>8. DOMAIN responses = Asked
  OBVIOUS
<1> HIDE DEF responses, body
<1>9. r \in Posts
  BY <1>6, Bounds DEF Posts, FormType
<1>10. HonestPost(r)
  <2>1. r.body.responses = responses /\ r.flip = f.flip
    BY <1>6
  <2> HIDE DEF r, Asked
  <2> SUFFICES ASSUME NEW i \in Asked
               PROVE  /\ HonestResponse(Given(i), f.flip[i])
                      /\ i \in PhotoItems /\ Given(i).value = "fail" => Given(i).photos # {}
    BY <1>7, <1>8, <2>1 DEF HonestPost
  <2> QED
    BY <1>2, <1>3, <1>4
<1> QED
  BY <1>1, <1>9, <1>10

(* Confirming mints the key of the walkaround at most once. *)
LEMMA ConfirmStep ==
  ASSUME CaptureInvariant, handleConfirm
  PROVE  CaptureInvariant'
<1> DEFINE k == submitKey(form)
           body == buildSubmitPayload(page.machine, form)
           post == [key |-> k, walk |-> form.walk, flip |-> form.flip, body |-> body]
           new == [n |-> count.confirms + 1, key |-> k, walk |-> form.walk, flip |-> form.flip,
                   body |-> body, phase |-> "waiting", mounted |-> TRUE]
<1>1. /\ form \in FormType /\ Honest(form) /\ form \in Forms
      /\ form.walk <= count.walks /\ form.key <= count.keys
  BY FormOnScreen
<1>2. /\ page.at = "review" /\ page.machine \in Machines /\ form.walk # 0
      /\ failuresDocumented(form) /\ (draft # None => draft.form = form)
  BY DEF handleConfirm, CaptureInvariant, Screens
<1>3. /\ count \in [walks : 0 .. MaxWalks, confirms : 0 .. MaxConfirms, keys : 0 .. MaxConfirms,
                    clips : Nat, uploads : Nat, failures : Nat, texts : Nat, picks : Nat]
      /\ count.keys <= count.confirms /\ count.confirms < MaxConfirms
      /\ day \in Nat /\ MaxConfirms \in Nat /\ MaxWalks \in Nat
  BY Bounds DEF CaptureInvariant, CountsHold, handleConfirm
<1>4. form.key \in 0 .. MaxConfirms /\ form.walk \in 0 .. MaxWalks
  BY <1>1 DEF FormType
<1>5. k \in 1 .. MaxConfirms /\ (form.key # 0 => k = form.key) /\ (form.key = 0 => k = count.keys + 1)
  BY <1>3, <1>4 DEF submitKey
<1>6. /\ count' = [count EXCEPT !.confirms = @ + 1, !.keys = IF form.key = 0 THEN @ + 1 ELSE @]
      /\ submits' = submits \cup {new}
      /\ UNCHANGED <<page, leaving, day, voice, uploads, asked, wire, recorded>>
      /\ IF form.key = 0 THEN SetForm([form EXCEPT !.key = k]) ELSE UNCHANGED <<form, draft>>
  BY DEF handleConfirm
<1> HIDE DEF k
<1>7. post \in Posts /\ HonestPost(post)
  BY <1>1, <1>2, <1>5, BodyIsHonest
<1>8. /\ count'.walks = count.walks /\ count'.confirms = count.confirms + 1
      /\ count'.keys = IF form.key = 0 THEN count.keys + 1 ELSE count.keys
      /\ count' \in [walks : 0 .. MaxWalks, confirms : 0 .. MaxConfirms, keys : 0 .. MaxConfirms,
                    clips : Nat, uploads : Nat, failures : Nat, texts : Nat, picks : Nat]
  <2>1. count.confirms + 1 \in 0 .. MaxConfirms /\ count.keys + 1 \in 0 .. MaxConfirms
    BY <1>3
  <2>2. CASE form.key = 0
    <3>1. count' = [count EXCEPT !.confirms = @ + 1, !.keys = @ + 1]
      BY <1>6, <2>2
    <3> QED
      BY <1>3, <2>1, <2>2, <3>1
  <2>3. CASE form.key # 0
    <3>1. count' = [count EXCEPT !.confirms = @ + 1]
      BY <1>3, <1>6, <2>3
    <3> QED
      BY <1>3, <2>1, <2>3, <3>1
  <2> QED
    BY <2>2, <2>3
<1>9. CountsHold' /\ k <= count'.keys /\ count.keys <= count'.keys
  BY <1>1, <1>3, <1>4, <1>5, <1>6, <1>8 DEF CountsHold
<1> HIDE DEF body
<1>10. new \in Submit /\ Request(new) = post
  <2>1. count.confirms + 1 \in Nat
    BY <1>3
  <2> QED
    BY <1>7, <2>1 DEF Posts, Submit, Request
<1>11. form' \in FormType /\ Honest(form') /\ form'.key = k /\ form'.walk = form.walk
       /\ failuresDocumented(form')
  <2>1. CASE form.key = 0
    <3>1. form' = [form EXCEPT !.key = k]
      BY <1>6, <2>1 DEF SetForm
    <3>2. form' \in FormType /\ Honest(form') /\ form'.key = k /\ form'.walk = form.walk
          /\ form'.answers = form.answers /\ form'.photos = form.photos
      BY <1>1, <1>5, <3>1, KeyMinted
    <3> QED
      BY <1>2, <3>2 DEF failuresDocumented, Failed
  <2>2. CASE form.key # 0
    BY <1>1, <1>2, <1>5, <1>6, <2>2
  <2> QED
    BY <2>1, <2>2
<1>12. /\ draft' # None => draft'.form = form' /\ draft'.machine \in Machines /\ draft'.day \in 0 .. day'
  <2>1. CASE form.key = 0
    <3>1. draft' = [machine |-> page.machine, form |-> form', day |-> day]
      BY <1>6, <2>1 DEF SetForm, saveDraft, Stored
    <3> QED
      BY <1>2, <1>3, <1>6, <3>1
  <2>2. CASE form.key # 0
    BY <1>2, <1>6, <2>2 DEF CaptureInvariant, FormsHold
  <2> QED
    BY <2>1, <2>2
<1>13. Forms' \subseteq {form'}
  BY <1>12 DEF Forms
<1> HIDE DEF new, post
<1>14. Sent' = Sent \cup {post}
  BY <1>6, <1>10 DEF Sent
<1>15. Screens'
  BY <1>2, <1>6, <1>11, <1>12 DEF CaptureInvariant, Screens
<1>16. FormsHold'
  <2>1. form'.walk <= count'.walks /\ form'.key <= count'.keys
    BY <1>1, <1>8, <1>9, <1>11
  <2>2. FormHolds(form)'
    BY <1>11, <2>1 DEF FormHolds, Honest
  <2> QED
    BY <1>2, <1>11, <1>12, <1>13, <2>2 DEF FormsHold
<1>17. UploadsHold' /\ VoiceHolds'
  BY <1>2, <1>6 DEF CaptureInvariant, UploadsHold, VoiceHolds
<1>18. PostsHold'
  <2>1. \A r : PostHolds(r) => PostHolds(r)'
    BY <1>3, <1>8, <1>9, Bounds DEF PostHolds, Posts
  <2>2. ASSUME NEW r, r = post  PROVE PostHolds(r)'
    <3>1. r.walk = form.walk /\ r.key = k /\ r \in Posts /\ HonestPost(r)
      BY <1>7, <2>2 DEF post
    <3> QED
      BY <1>1, <1>8, <1>9, <3>1 DEF PostHolds, HonestPost
  <2>3. \A r \in Sent' : PostHolds(r)'
    BY <1>14, <2>1, <2>2 DEF CaptureInvariant, PostsHold
  <2>4. submits' \subseteq Submit
    BY <1>6, <1>10 DEF CaptureInvariant, PostsHold
  <2>5. \A j \in 1 .. MaxConfirms :
          (recorded[j] # None => PostHolds(recorded[j]) /\ recorded[j].key = j /\ Complete(recorded[j]))'
    <3> SUFFICES ASSUME NEW j \in 1 .. MaxConfirms, recorded[j] # None
                 PROVE  PostHolds(recorded[j])' /\ recorded[j].key = j /\ Complete(recorded[j])
      BY <1>6 DEF Complete
    <3>1. PostHolds(recorded[j]) /\ recorded[j].key = j /\ Complete(recorded[j])
      BY DEF CaptureInvariant, PostsHold
    <3> QED
      BY <1>3, <1>6, <1>8, <1>9, <3>1 DEF PostHolds, Posts, HonestPost
  <2>6. recorded' \in [1 .. MaxConfirms -> {None} \cup Posts]
    BY <1>6 DEF CaptureInvariant, PostsHold
  <2> QED
    BY <2>3, <2>4, <2>5, <2>6 DEF PostsHold
<1>19. OneKeyPerWalk'
  <2> DEFINE Others == Sent \cup ({recorded[j] : j \in 1 .. MaxConfirms} \ {None})
  <2>1. Carriers' \subseteq {form', post} \cup Others
    BY <1>6, <1>13, <1>14 DEF Carriers
  <2>2. Others \subseteq Carriers /\ form \in Carriers /\ \A c \in Others : PostHolds(c)
    BY <1>1 DEF Carriers, CaptureInvariant, PostsHold
  <2>3. \A c \in Others : c.walk = form.walk => c.key = k
    <3> SUFFICES ASSUME NEW c \in Others, c.walk = form.walk  PROVE c.key = k
      OBVIOUS
    <3>1. c.key = form.key
      BY <2>2 DEF CaptureInvariant, OneKeyPerWalk
    <3>2. c.key # 0
      BY <2>2 DEF PostHolds, Posts
    <3> QED
      BY <1>5, <3>1, <3>2
  <2>4. form'.walk = form.walk /\ form'.key = k /\ post.walk = form.walk /\ post.key = k
    BY <1>11 DEF post
  <2> HIDE DEF Others
  <2>5. \A a, b \in Others : a.walk = b.walk => a.key = b.key
    BY <2>2 DEF CaptureInvariant, OneKeyPerWalk
  <2> QED
    BY <2>1, <2>3, <2>4, <2>5 DEF OneKeyPerWalk
<1> QED
  BY <1>9, <1>15, <1>16, <1>17, <1>18, <1>19 DEF CaptureInvariant

-----------------------------------------------------------------------------
(* Requests and answers *)

(* Serving a request records it, or finds its key recorded. *)
LEMMA Served ==
  ASSUME PostsHold, NEW r \in Sent, Complete(r), Serve(r)
  PROVE  /\ recorded' \in [1 .. MaxConfirms -> {None} \cup Posts]
         /\ \A k \in 1 .. MaxConfirms :
              /\ recorded[k] # None => recorded'[k] = recorded[k]
              /\ recorded'[k] \in {recorded[k], r}
              /\ recorded'[k] # recorded[k] => k = r.key
         /\ recorded'[r.key] # None
         /\ recorded[r.key] = None => recorded'[r.key] = r
<1>1. r \in Posts /\ r.key \in 1 .. MaxConfirms
  BY DEF PostsHold, PostHolds, Posts
<1>2. recorded' = [recorded EXCEPT ![r.key] = IF recorded[r.key] = None THEN r ELSE recorded[r.key]]
  BY DEF Serve
<1>3. recorded \in [1 .. MaxConfirms -> {None} \cup Posts]
  BY DEF PostsHold
<1>4. r # None
  BY <1>1, NoneIsApart
<1> QED
  BY <1>1, <1>2, <1>3, <1>4

(* What answers, losses and retries do to the requests and the record. *)
LEMMA PostStep ==
  ASSUME CaptureInvariant, submits' \subseteq Submit, Sent' \subseteq Sent,
         UNCHANGED recorded \/ \E r \in Sent : Complete(r) /\ Serve(r),
         UNCHANGED <<page, form, day, voice, uploads, asked>>,
         draft' \in {draft, None}, leaving' \in Machines \cup {None},
         CountsHold', count'.walks = count.walks, count'.keys = count.keys
  PROVE  CaptureInvariant'
<1>1. Forms' \subseteq Forms
  BY DEF Forms
<1>2. Screens'
  BY DEF CaptureInvariant, Screens
<1>3. FormsHold'
  <2>1. \A f : FormHolds(f) => FormHolds(f)'
    BY DEF FormHolds
  <2> QED
    BY <1>1, <2>1 DEF CaptureInvariant, FormsHold
<1>4. UploadsHold' /\ VoiceHolds'
  BY DEF CaptureInvariant, UploadsHold, VoiceHolds
<1>5. /\ recorded' \in [1 .. MaxConfirms -> {None} \cup Posts]
      /\ \A k \in 1 .. MaxConfirms : recorded'[k] # None =>
           /\ recorded'[k] \in Sent \cup ({recorded[j] : j \in 1 .. MaxConfirms} \ {None})
           /\ recorded'[k].key = k /\ Complete(recorded'[k])
  <2>1. CASE UNCHANGED recorded
    BY <2>1 DEF CaptureInvariant, PostsHold
  <2>2. CASE \E r \in Sent : Complete(r) /\ Serve(r)
    <3>1. PICK r \in Sent : Complete(r) /\ Serve(r)
      BY <2>2
    <3>2. /\ recorded' \in [1 .. MaxConfirms -> {None} \cup Posts]
          /\ \A k \in 1 .. MaxConfirms : /\ recorded'[k] \in {recorded[k], r}
                                         /\ recorded'[k] # recorded[k] => k = r.key
      BY <3>1, Served DEF CaptureInvariant
    <3> SUFFICES ASSUME NEW k \in 1 .. MaxConfirms, recorded'[k] # None
                 PROVE  /\ recorded'[k] \in Sent \cup ({recorded[j] : j \in 1 .. MaxConfirms} \ {None})
                        /\ recorded'[k].key = k /\ Complete(recorded'[k])
      BY <3>2
    <3>3. CASE recorded'[k] = recorded[k]
      <4>1. recorded[k].key = k /\ Complete(recorded[k])
        BY <3>3 DEF CaptureInvariant, PostsHold
      <4> QED
        BY <3>3, <4>1
    <3>4. CASE recorded'[k] # recorded[k]
      BY <3>1, <3>2, <3>4
    <3> QED
      BY <3>3, <3>4
  <2> QED
    BY <2>1, <2>2
<1>6. Carriers' \subseteq Carriers
  BY <1>1, <1>5 DEF Carriers
<1>7. OneKeyPerWalk'
  BY <1>6 DEF CaptureInvariant, OneKeyPerWalk
<1>8. PostsHold'
  <2>1. \A r : PostHolds(r) => PostHolds(r)'
    BY DEF PostHolds
  <2>2. \A r \in Sent \cup ({recorded[j] : j \in 1 .. MaxConfirms} \ {None}) : PostHolds(r)'
    BY <2>1 DEF CaptureInvariant, PostsHold
  <2>3. \A k \in 1 .. MaxConfirms : (recorded[k] # None => PostHolds(recorded[k]))'
    <3> SUFFICES ASSUME NEW k \in 1 .. MaxConfirms, NEW r, r = recorded'[k], r # None
                 PROVE  PostHolds(r)'
      BY DEF PostHolds, HonestPost
    <3> QED
      BY <1>5, <2>2
  <2>4. \A k \in 1 .. MaxConfirms :
          (recorded[k] # None => recorded[k].key = k /\ Complete(recorded[k]))'
    BY <1>5 DEF Complete
  <2>5. \A r \in Sent' : PostHolds(r)'
    BY <2>2
  <2> QED
    BY <1>5, <2>3, <2>4, <2>5 DEF PostsHold
<1> QED
  BY <1>2, <1>3, <1>4, <1>7, <1>8 DEF CaptureInvariant

(* A submit succeeds, is rejected, fails and is retried. *)
LEMMA MutationStep ==
  ASSUME CaptureInvariant, NEW s \in submits, Mutation(s)
  PROVE  CaptureInvariant'
<1>1. s \in Submit /\ Request(s) \in Sent /\ s.body.machine \in Machines
  BY DEF CaptureInvariant, PostsHold, Sent, Submit, Payload
<1>2. submits \subseteq Submit /\ leaving \in Machines \cup {None}
  BY DEF CaptureInvariant, PostsHold, Screens
<1>3. CASE Succeed(s)
  <2>1. /\ Complete(Request(s)) /\ Serve(Request(s)) /\ draft' = None
        /\ leaving' = s.body.machine /\ submits' = submits \ {s}
        /\ UNCHANGED <<page, form, day, voice, uploads, asked, wire, count>>
    BY <1>3 DEF Succeed, clear, Ended
  <2>2. Sent' \subseteq Sent
    BY <2>1 DEF Sent
  <2>3. CountsHold'
    BY <2>1 DEF CaptureInvariant, CountsHold
  <2> QED
    BY <1>1, <1>2, <2>1, <2>2, <2>3, PostStep
<1>4. CASE Reject(s)
  <2>1. /\ submits' = submits \ {s}
        /\ UNCHANGED <<page, leaving, form, draft, day, voice, uploads, asked, wire, recorded, count>>
    BY <1>4 DEF Reject, NotRetryable, Ended
  <2>2. Sent' \subseteq Sent
    BY <2>1 DEF Sent
  <2>3. CountsHold'
    BY <2>1 DEF CaptureInvariant, CountsHold
  <2> QED
    BY <1>2, <2>1, <2>2, <2>3, PostStep
<1>5. ASSUME NEW phase \in {"waiting", "backoff"}
      PROVE  [s EXCEPT !.phase = phase] \in Submit
               /\ Request([s EXCEPT !.phase = phase]) = Request(s)
  BY <1>1 DEF Submit, Request
<1>6. CASE NetworkFails(s)
  <2>1. /\ wire' = wire \cup {Request(s)} /\ Bump("failures")
        /\ submits' \subseteq submits \cup {[s EXCEPT !.phase = "backoff"]}
        /\ UNCHANGED <<page, leaving, form, draft, day, voice, uploads, asked, recorded>>
    BY <1>6 DEF NetworkFails, Ended
  <2>2. Sent' \subseteq Sent
    BY <1>1, <1>5, <2>1 DEF Sent
  <2>3. CountsHold' /\ count'.walks = count.walks /\ count'.keys = count.keys
    BY <2>1 DEF CaptureInvariant, CountsHold, Bump
  <2> QED
    BY <1>2, <1>5, <2>1, <2>2, <2>3, PostStep
<1>7. CASE Retry(s)
  <2>1. /\ submits' \subseteq submits \cup {[s EXCEPT !.phase = "waiting"]}
        /\ UNCHANGED <<page, leaving, form, draft, day, voice, uploads, asked, wire, recorded, count>>
    BY <1>7 DEF Retry, Ended
  <2>2. Sent' \subseteq Sent
    BY <1>1, <1>5, <2>1 DEF Sent
  <2>3. CountsHold'
    BY <2>1 DEF CaptureInvariant, CountsHold
  <2> QED
    BY <1>2, <1>5, <2>1, <2>2, <2>3, PostStep
<1> QED
  BY <1>3, <1>4, <1>6, <1>7 DEF Mutation

(* A request its sender has given up on arrives, or never does. *)
LEMMA LateStep ==
  ASSUME CaptureInvariant, NEW r \in wire, LateArrival(r)
  PROVE  CaptureInvariant'
<1>1. /\ wire' = wire \ {r} /\ r \in Sent
      /\ UNCHANGED recorded \/ (Complete(r) /\ Serve(r))
      /\ UNCHANGED <<page, leaving, form, draft, day, voice, uploads, asked, submits, count>>
  BY DEF LateArrival, Sent
<1>2. Sent' \subseteq Sent
  BY <1>1 DEF Sent
<1>3. CountsHold' /\ submits' \subseteq Submit /\ leaving' \in Machines \cup {None}
  BY <1>1 DEF CaptureInvariant, CountsHold, PostsHold, Screens
<1> QED
  BY <1>1, <1>2, <1>3, PostStep

-----------------------------------------------------------------------------
(* The invariant, and what follows from it *)

(* Nothing is open, stored or sent at the start. *)
LEMMA CaptureInitially == Init => CaptureInvariant
<1> SUFFICES ASSUME Init  PROVE CaptureInvariant
  OBVIOUS
<1>1. /\ BlankForm(0) \in FormType /\ Honest(BlankForm(0))
      /\ BlankForm(0).walk = 0 /\ BlankForm(0).key = 0
  BY BlankIsForm, Bounds
<1>2. Forms = {BlankForm(0)} /\ Sent = {}
  BY DEF Init, Forms, Sent
<1>3. Screens
  BY DEF Init, Screens
<1>4. CountsHold
  BY Bounds DEF Init, CountsHold
<1>5. FormsHold
  BY <1>1, <1>2 DEF Init, FormsHold, FormHolds
<1>6. UploadsHold /\ VoiceHolds
  BY DEF Init, UploadsHold, VoiceHolds
<1>7. PostsHold
  BY <1>2 DEF Init, PostsHold
<1>8. OneKeyPerWalk
  BY <1>2 DEF Init, OneKeyPerWalk, Carriers
<1> QED
  BY <1>3, <1>4, <1>5, <1>6, <1>7, <1>8 DEF CaptureInvariant

(* Every step keeps the invariant. *)
LEMMA CaptureInductive ==
  ASSUME CaptureInvariant, [Next]_vars
  PROVE  CaptureInvariant'
<1>1. CASE Operator
  BY <1>1, MountStep, AnswerStep, TypeStep, QuietStep, RemoveStep, CategoryStep, ConfirmStep
     DEF Operator
<1>2. CASE Arrivals
  BY <1>2, QuietStep, TranscriptStep, UploadedStep, CategoryStep, LateStep DEF Arrivals
<1>3. CASE \E s \in submits : Mutation(s)
  BY <1>3, MutationStep
<1>4. CASE Navigate
  BY <1>4, NavigateStep
<1>5. CASE Midnight
  BY <1>5, QuietStep
<1>6. CASE UNCHANGED vars
  <2>1. /\ UNCHANGED <<page, leaving, form, draft, asked, submits, wire, recorded>>
        /\ UNCHANGED <<day, count, uploads, voice>>
    BY <1>6 DEF vars
  <2>2. CountsHold' /\ day <= day' /\ UploadsHold' /\ VoiceHolds'
    BY <2>1 DEF CaptureInvariant, CountsHold, UploadsHold, VoiceHolds
  <2> QED
    BY <2>1, <2>2, Quiet DEF CaptureInvariant
<1> QED
  BY <1>1, <1>2, <1>3, <1>4, <1>5, <1>6 DEF Next

(* The invariant holds throughout. *)
LEMMA CaptureHolds == Spec => []CaptureInvariant
  BY CaptureInitially, CaptureInductive, PTL DEF Spec

(* The screens, the stored draft and the requests under way keep their types: a     *)
(* screen that mounts on the draft finds every field (inspection-draft-storage.ts). *)
THEOREM ScreensAreTyped == Spec => []TypeOK
<1>1. CaptureInvariant => TypeOK
  <2> SUFFICES ASSUME CaptureInvariant  PROVE TypeOK
    OBVIOUS
  <2>1. \A u \in uploads : u.item \in PhotoItems /\ u.flip \in 0 .. MaxFlips
    BY DEF CaptureInvariant, UploadsHold
  <2>2. \A s \in submits : s.key \in 1 .. count.keys /\ s.phase \in {"waiting", "backoff"}
    <3> TAKE s \in submits
    <3>1. s \in Submit /\ Request(s) \in Sent
      BY DEF CaptureInvariant, PostsHold, Sent
    <3>2. PostHolds(Request(s)) /\ Request(s).key = s.key
      BY <3>1 DEF CaptureInvariant, PostsHold, Request
    <3> QED
      BY <3>1, <3>2 DEF PostHolds, Submit, CaptureInvariant, CountsHold
  <2>3. draft # None => draft.form \in FormType /\ draft.machine \in Machines /\ draft.day \in 0 .. day
    BY DEF CaptureInvariant, FormsHold, FormHolds, Forms
  <2> QED
    BY <2>1, <2>2, <2>3, FormOnScreen DEF TypeOK, CaptureInvariant, Screens
<1> QED
  BY <1>1, CaptureHolds, PTL

(* However often a submit is retried, backed out of, reloaded or confirmed again,   *)
(* a walkaround puts at most one inspection on the server (review/page.tsx:37-41,   *)
(* idempotency-key.ts, inspection-draft-storage.ts).                               *)
THEOREM WalkIsRecordedOnce == Spec => []OnePerWalk
<1>1. CaptureInvariant => OnePerWalk
  BY DEF CaptureInvariant, PostsHold, OneKeyPerWalk, Carriers, OnePerWalk
<1> QED
  BY <1>1, CaptureHolds, PTL

(* No inspection is recorded without a response to each required item, or with a    *)
(* failed item that lacks the photo it needs, whatever screen the history lands on *)
(* (derive-result.ts:15-26, review/page.tsx:110-117).                              *)
THEOREM RecordsAreComplete == Spec => []RecordIsComplete
<1>1. CaptureInvariant => RecordIsComplete
  <2> SUFFICES ASSUME CaptureInvariant, NEW k \in DOMAIN recorded, recorded[k] # None
               PROVE  /\ Required \subseteq DOMAIN recorded[k].body.responses
                      /\ \A i \in PhotoItems \cap DOMAIN recorded[k].body.responses :
                           recorded[k].body.responses[i].value = "fail"
                             => recorded[k].body.responses[i].photos # {}
    BY DEF RecordIsComplete
  <2>1. Complete(recorded[k]) /\ HonestPost(recorded[k])
    BY DEF CaptureInvariant, PostsHold, PostHolds
  <2> QED
    BY <2>1 DEF Complete, HonestPost
<1> QED
  BY <1>1, CaptureHolds, PTL

(* A recorded response is an honest one of its item. *)
LEMMA RecordsAreHonest ==
  ASSUME CaptureInvariant, NEW r \in Records
  PROVE  r.response \in Response /\ HonestResponse(r.response, r.flip)
<1>1. PICK k \in DOMAIN recorded : recorded[k] # None /\ \E i \in DOMAIN recorded[k].body.responses :
        r = [flip |-> recorded[k].flip[i], response |-> recorded[k].body.responses[i]]
  BY DEF Records
<1>2. PICK i \in DOMAIN recorded[k].body.responses :
        r = [flip |-> recorded[k].flip[i], response |-> recorded[k].body.responses[i]]
  BY <1>1
<1>3. recorded[k] \in Posts /\ HonestPost(recorded[k])
  BY <1>1 DEF CaptureInvariant, PostsHold, PostHolds
<1>4. HonestResponse(recorded[k].body.responses[i], recorded[k].flip[i])
  BY <1>3 DEF HonestPost
<1>5. recorded[k].body.responses[i] \in Response
  <2>1. PICK S \in SUBSET Items : recorded[k].body.responses \in [S -> Response]
    BY <1>3 DEF Posts, Payload
  <2> QED
    BY <2>1
<1> QED
  BY <1>2, <1>4, <1>5

(* The notesSource on the record tells the truth about who worded the note         *)
(* (lib/voice-notes.ts).                                                           *)
THEOREM NotesTellTheirSource == Spec => []NoteSourceHonest
<1>1. CaptureInvariant => NoteSourceHonest
  <2> SUFFICES ASSUME CaptureInvariant, NEW r \in Records
               PROVE  LET text == r.response.text
                          heard == {n \in DOMAIN text : text[n].by = "voice"} IN
                      /\ r.response.source = "TYPED" => heard = {}
                      /\ r.response.source = "VOICE_TRANSCRIBED" => heard = {1} /\ Len(text) = 1
    BY DEF NoteSourceHonest
  <2> DEFINE text == r.response.text
  <2>1. r.response \in Response /\ HonestResponse(r.response, r.flip)
    BY RecordsAreHonest
  <2>2. text \in Seq(Fragment) /\ DOMAIN text = 1 .. Len(text)
    BY <2>1, TextIsSeq, LenProperties DEF Response
  <2>3. r.response.source = "TYPED" => \A n \in DOMAIN text : text[n].by # "voice"
    BY <2>1 DEF HonestResponse
  <2>4. r.response.source = "VOICE_TRANSCRIBED" => Len(text) = 1 /\ text[1].by = "voice"
    BY <2>1 DEF HonestResponse
  <2> HIDE DEF text
  <2>5. r.response.source = "VOICE_TRANSCRIBED" =>
          {n \in DOMAIN text : text[n].by = "voice"} = {1}
    <3> SUFFICES ASSUME DOMAIN text = 1 .. 1, text[1].by = "voice"
                 PROVE  {n \in DOMAIN text : text[n].by = "voice"} = {1}
      BY <2>2, <2>4
    <3>1. DOMAIN text = {1}
      OBVIOUS
    <3> QED
      BY <3>1
  <2>6. r.response.source = "TYPED" => {n \in DOMAIN text : text[n].by = "voice"} = {}
    BY <2>3
  <2> QED
    BY <2>4, <2>5, <2>6 DEF text
<1> QED
  BY <1>1, CaptureHolds, PTL

(* A recorded photo, category or typed note was given for the answer it is         *)
(* recorded with, however late an upload came back (page.tsx:99-132,               *)
(* use-photo-upload.ts:45-63).                                                     *)
THEOREM EvidenceStaysWithItsAnswer == Spec => []EvidenceMatchesAnswer
<1>1. CaptureInvariant => EvidenceMatchesAnswer
  BY RecordsAreHonest DEF EvidenceMatchesAnswer, HonestResponse
<1> QED
  BY <1>1, CaptureHolds, PTL

-----------------------------------------------------------------------------
(* What the operator was shown *)

ShownHolds == shown \in Seq(Posts) /\ ShownIsRecorded

(* A key once recorded keeps its inspection, and a confirmation is shown only for   *)
(* one that is recorded.                                                          *)
LEMMA ShownStep ==
  ASSUME CaptureInvariant, ShownHolds, [Next]_vars
  PROVE  ShownHolds'
<1>1. CASE UNCHANGED shown /\ UNCHANGED recorded
  BY <1>1 DEF ShownHolds, ShownIsRecorded
<1>0. /\ recorded \in [1 .. MaxConfirms -> {None} \cup Posts] /\ PostsHold
      /\ shown \in Seq(Posts) /\ \A n \in DOMAIN shown : shown[n] \in Posts /\ shown[n].key \in 1 .. MaxConfirms
  <2>1. \A n \in 1 .. Len(shown) : shown[n] \in Posts
    BY ElementOfSeq DEF ShownHolds
  <2>2. DOMAIN shown = 1 .. Len(shown)
    BY LenProperties DEF ShownHolds
  <2> QED
    BY <2>1, <2>2 DEF CaptureInvariant, PostsHold, ShownHolds, Posts
<1>2. ASSUME NEW r \in wire, LateArrival(r)  PROVE ShownHolds'
  <2>1. UNCHANGED shown /\ r \in Sent /\ (UNCHANGED recorded \/ (Complete(r) /\ Serve(r)))
    BY <1>2 DEF LateArrival, Sent
  <2>2. \A k \in 1 .. MaxConfirms : recorded[k] # None => recorded'[k] = recorded[k]
    BY <1>0, <2>1, Served
  <2> QED
    BY <1>0, <2>1, <2>2 DEF ShownHolds, ShownIsRecorded
<1>3. ASSUME NEW s \in submits, Succeed(s)  PROVE ShownHolds'
  <2> DEFINE r == Request(s)
  <2>1. /\ r \in Sent /\ Matches(r) /\ Complete(r) /\ Serve(r) /\ shown' = Append(shown, r)
    BY <1>3 DEF Succeed, Sent
  <2>2. r \in Posts /\ r.key \in 1 .. MaxConfirms
    BY <1>0, <2>1 DEF PostsHold, PostHolds, Posts
  <2> HIDE DEF r
  <2>3. /\ \A k \in 1 .. MaxConfirms : recorded[k] # None => recorded'[k] = recorded[k]
        /\ recorded'[r.key] # None
        /\ recorded[r.key] = None => recorded'[r.key] = r
    BY <1>0, <2>1, Served
  <2>4. recorded'[r.key].body = r.body
    BY <2>1, <2>2, <2>3 DEF Matches
  <2>5. /\ shown' \in Seq(Posts) /\ DOMAIN shown' = 1 .. Len(shown) + 1
        /\ \A n \in 1 .. Len(shown) : shown'[n] = shown[n]
        /\ shown'[Len(shown) + 1] = r /\ Len(shown) \in Nat /\ DOMAIN shown = 1 .. Len(shown)
    BY <1>0, <2>1, <2>2, AppendProperties, LenProperties
  <2>6. ASSUME NEW n \in DOMAIN shown'
        PROVE  recorded'[shown'[n].key] # None /\ recorded'[shown'[n].key].body = shown'[n].body
    <3>1. CASE n \in DOMAIN shown
      BY <1>0, <2>3, <2>5, <3>1 DEF ShownHolds, ShownIsRecorded
    <3>2. CASE n = Len(shown) + 1
      BY <2>3, <2>4, <2>5, <3>2
    <3> QED
      BY <2>5, <2>6, <3>1, <3>2
  <2> QED
    BY <2>5, <2>6 DEF ShownHolds, ShownIsRecorded
<1>4. CASE Operator \/ Navigate \/ Midnight \/ UNCHANGED vars
  BY <1>1, <1>4 DEF Operator, OpenChecklist, Answer, TypeNote, StartRecording, TakePhoto,
       CollapseCard, RemovePhoto, PickCategory, handleSubmit, BackToReview, handleConfirm, Reload,
       Navigate, Midnight, vars
<1>5. CASE Arrivals
  BY <1>1, <1>2, <1>5 DEF Arrivals, StopRecording, Transcript, TranscriptFails, Uploaded,
       UploadFails, Suggestion
<1>6. CASE \E s \in submits : Mutation(s)
  BY <1>1, <1>3, <1>6 DEF Mutation, Reject, NetworkFails, Retry
<1> QED
  BY <1>4, <1>5, <1>6 DEF Next

(* What the operator is shown as submitted is what the server recorded, although    *)
(* answers can be edited while the POST is retried (review/page.tsx:119-188,        *)
(* submit.ts:139-148).                                                             *)
THEOREM ConfirmationsAreTrue == Spec => []ShownIsRecorded
<1>1. Init => ShownHolds
  BY EmptySeq DEF Init, ShownHolds, ShownIsRecorded
<1>2. ShownHolds => ShownIsRecorded
  BY DEF ShownHolds
<1>3. CaptureInvariant /\ ShownHolds /\ [Next]_vars => (CaptureInvariant /\ ShownHolds)'
  BY CaptureInductive, ShownStep
<1> QED
  BY <1>1, <1>2, <1>3, CaptureInitially, PTL DEF Spec

-----------------------------------------------------------------------------
(* What a page load finds *)

(* The draft is gone only while the confirmation of its submit is loading. *)
SavedHolds ==
  page.at \in {"inspect", "review"} =>
    /\ leaving = None => draft # None
    /\ draft # None => draft.machine = page.machine

(* A step leaves the screen and its draft alone, saves the form that is on screen   *)
(* after it, clears the draft while it pushes the confirmation, or shows that.      *)
LEMMA SavesOrLeaves ==
  ASSUME CaptureInvariant, [Next]_vars
  PROVE  \/ UNCHANGED <<page, leaving, draft>>
         \/ draft' = Stored(page'.machine, form')
         \/ draft' = None /\ leaving' \in Machines
         \/ page'.at = "done"
<1>1. \A g : SetForm(g) /\ UNCHANGED page => draft' = Stored(page'.machine, form')
  BY DEF SetForm, saveDraft, Stored
<1>2. \A m : ShowChecklist(m) => draft' = Stored(page'.machine, form')
  BY DEF ShowChecklist, Stored
<1>3. \A m : ShowReview(m) => draft' = Stored(page'.machine, form')
  BY <1>2 DEF ShowReview, saveDraft, Stored
<1>4. CASE Operator
  <2>1. CASE \/ \E m \in Machines : OpenChecklist(m) \/ BackToReview(m)
             \/ handleSubmit \/ Reload
    BY <1>2, <1>3, <2>1 DEF OpenChecklist, BackToReview, handleSubmit, Reload
  <2>2. CASE \E i \in Items : \/ \E a \in Values : Answer(i, a)
                              \/ TypeNote(i) \/ RemovePhoto(i) \/ PickCategory(i)
    BY <1>1, <2>2 DEF Answer, TypeNote, RemovePhoto, PickCategory
  <2>3. CASE handleConfirm
    BY <1>1, <2>3 DEF handleConfirm
  <2>4. CASE \E i \in Items : StartRecording(i) \/ TakePhoto(i) \/ CollapseCard(i)
    BY <2>4 DEF StartRecording, TakePhoto, CollapseCard
  <2> QED
    BY <1>4, <2>1, <2>2, <2>3, <2>4 DEF Operator
<1>5. CASE Arrivals
  <2>1. ASSUME NEW u \in uploads, Uploaded(u)
        PROVE  UNCHANGED <<page, leaving, draft>> \/ draft' = Stored(page'.machine, form')
    BY <1>1, <2>1 DEF Uploaded
  <2>2. CASE \E i \in Items : Transcript(i) \/ Suggestion(i)
    BY <1>1, <2>2 DEF Transcript, Suggestion
  <2> QED
    BY <1>5, <2>1, <2>2 DEF Arrivals, StopRecording, TranscriptFails, UploadFails, LateArrival
<1>6. ASSUME NEW s \in submits, Mutation(s)
      PROVE  UNCHANGED <<page, leaving, draft>> \/ (draft' = None /\ leaving' \in Machines)
  <2>1. s.body.machine \in Machines
    BY DEF CaptureInvariant, PostsHold, Submit, Payload
  <2> QED
    BY <1>6, <2>1 DEF Mutation, Succeed, clear, Reject, NetworkFails, Retry
<1>7. CASE Navigate
  BY <1>7 DEF Navigate
<1>8. CASE Midnight \/ UNCHANGED vars
  BY <1>8 DEF Midnight, vars
<1> QED
  BY <1>4, <1>5, <1>6, <1>7, <1>8 DEF Next

(* A page load at any moment loses nothing the operator entered: storage holds      *)
(* exactly what the screen holds, its key and categories included                   *)
(* (inspect/[equipmentId]/page.tsx:75-97, review/page.tsx:86-117). *)
THEOREM ReloadLosesNothing == Spec => []StorageHoldsForm
<1>1. Init => SavedHolds
  BY DEF Init, SavedHolds
<1>2. CaptureInvariant /\ SavedHolds /\ [Next]_vars => (CaptureInvariant /\ SavedHolds)'
  <2> SUFFICES ASSUME CaptureInvariant, SavedHolds, [Next]_vars, CaptureInvariant',
                      page'.at \in {"inspect", "review"}
               PROVE  /\ leaving' = None => draft' # None
                      /\ draft' # None => draft'.machine = page'.machine
    BY CaptureInductive DEF SavedHolds
  <2>1. CASE UNCHANGED <<page, leaving, draft>>
    BY <2>1 DEF SavedHolds
  <2>2. CASE draft' = Stored(page'.machine, form')
    <3>1. page'.machine \in Machines /\ form' \in FormType /\ day \in Nat
      BY DEF CaptureInvariant, Screens, FormsHold, FormHolds, Forms, CountsHold
    <3>2. draft' = [machine |-> page'.machine, form |-> form', day |-> day]
      BY <2>2 DEF Stored
    <3>3. draft' \in Drafts /\ draft'.machine = page'.machine
      BY <3>1, <3>2 DEF Drafts
    <3> QED
      BY <3>3, NoneIsApart
  <2>3. CASE draft' = None /\ leaving' \in Machines
    BY <2>3, NoneIsApart
  <2> QED
    BY <2>1, <2>2, <2>3, SavesOrLeaves
<1>3. CaptureInvariant /\ SavedHolds => StorageHoldsForm
  BY DEF CaptureInvariant, Screens, SavedHolds, StorageHoldsForm
<1> QED
  BY <1>1, <1>2, <1>3, CaptureInitially, PTL DEF Spec
=============================================================================
