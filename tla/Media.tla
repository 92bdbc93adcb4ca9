-------------------------------- MODULE Media --------------------------------
(***************************************************************************)
(* The Media Service (ADR 0004, 0023): evidence photos, stored under a name  *)
(* of their own and served to whoever holds it, and the daily purge of raw   *)
(* voice clips past their retention, with the shell loop that schedules it.  *)
(*                                                                         *)
(* A day has three phases: before the scheduled minute, that minute, and     *)
(* after it.  Ages are counted in phases.  The blob store and the writer of  *)
(* the clips are outside.                                                   *)
(***************************************************************************)
EXTENDS Naturals

CONSTANTS
  Photos,       \* names randomUUID gives, one for each upload
  VoiceClips,   \* blobs of the voice container
  Window,       \* retentionDays, in phases
  MaxBreaks     \* bound on failing calls and dead processes

ASSUME WindowAssumption == Window \in Nat /\ MaxBreaks \in Nat

ImageTypes == {"image/jpeg", "image/png", "image/webp"}
Bodies == ImageTypes \cup {"too large", "no image"}
Purges == {"scheduled", "manual"}

VARIABLES
  upload,    \* the handler of POST /media/upload for each name
  photo,     \* the photo container: the content type of each blob
  held,      \* the type the PWA was told with the photoId it now holds
  viewed,    \* what a reader of that id was served
  clipAge,   \* phases since a clip was created, saturated past the window
  voice,     \* clips in the voice container
  dated,     \* clips the store lists with a creation time
  phase,
  loop,      \* the scheduler: "off" or "dead", in its "startup" run or one begun
             \* "daily" or on an earlier day ("overdue"), or "polling" the clock
  ranToday,  \* LAST_RUN_DATE is the date of today
  purge,     \* "off", "purging" or "preview" (RETENTION_DRY_RUN)
  todo,      \* expired clips a purge has still to visit
  deletions, \* history: clip and age
  breaks

photoVars == <<upload, photo, held, viewed>>
voiceVars == <<clipAge, voice, dated, deletions>>
purgeVars == <<purge, todo>>
loopVars  == <<phase, loop, ranToday>>
mediaVars == <<photoVars, voiceVars, purgeVars, loopVars, breaks>>

Break == breaks < MaxBreaks /\ breaks' = breaks + 1

-----------------------------------------------------------------------------
(* Photos *)

(* sniffImageType on the bytes, whatever type the client declares *)
SniffImageType(body) == IF body \in ImageTypes THEN body ELSE "refused"

(* The size limit and the type are decided before anything is stored. *)
Upload(p, body) ==
  /\ upload[p] = "none"
  /\ upload' = [upload EXCEPT ![p] = SniffImageType(body)]
  /\ UNCHANGED <<photo, held, viewed, voiceVars, purgeVars, loopVars, breaks>>

(* storePhoto *)
StorePhoto(p) ==
  /\ upload[p] \in ImageTypes /\ photo[p] = "none"
  /\ photo' = [photo EXCEPT ![p] = upload[p]]
  /\ UNCHANGED <<upload, held, viewed, voiceVars, purgeVars, loopVars, breaks>>

(* the 201 with the name and the type *)
AnswerUpload(p) ==
  /\ upload[p] \in ImageTypes /\ photo[p] # "none"
  /\ held' = [held EXCEPT ![p] = upload[p]]
  /\ upload' = [upload EXCEPT ![p] = "done"]
  /\ UNCHANGED <<photo, viewed, voiceVars, purgeVars, loopVars, breaks>>

(* The store refuses, the service dies or the answer is lost: the PWA has no id,   *)
(* stored or not, and uploads the photo again under another name.                *)
UploadFails(p) ==
  /\ upload[p] \in ImageTypes
  /\ Break
  /\ upload' = [upload EXCEPT ![p] = "done"]
  /\ UNCHANGED <<photo, held, viewed, voiceVars, purgeVars, loopVars>>

(* one download, so that a blob that goes in between is a 404 and no error *)
GetPhoto(p) ==
  /\ held[p] # "none"
  /\ viewed' = [viewed EXCEPT ![p] = IF photo[p] = "none" THEN "404" ELSE photo[p]]
  /\ viewed' # viewed
  /\ UNCHANGED <<upload, photo, held, voiceVars, purgeVars, loopVars, breaks>>

-----------------------------------------------------------------------------
(* Clips, and the job that purges them *)

CreateClip(c) ==
  /\ loop # "off"
  /\ c \notin voice /\ clipAge[c] = 0 /\ \A d \in deletions : d[1] # c
  /\ voice' = voice \cup {c}
  /\ dated' \in {dated, dated \cup {c}}
  /\ UNCHANGED <<clipAge, deletions, photoVars, purgeVars, loopVars, breaks>>

(* faulty: the clip of exactly the cutoff goes too *)
IsExpiredAtCutoff(c) == c \in dated /\ clipAge[c] >= Window

(* created strictly before now - retentionDays; a clip without a date is kept *)
IsExpired(c) == c \in dated /\ clipAge[c] > Window

(* The cutoff is taken once, when the job starts. *)
Begin(r, mode) ==
  /\ purge' = [purge EXCEPT ![r] = mode]
  /\ todo' = [todo EXCEPT ![r] = {c \in voice : IsExpired(c)}]

End(r) ==
  /\ purge' = [purge EXCEPT ![r] = "off"]
  /\ todo' = [todo EXCEPT ![r] = {}]

(* A clip another run has deleted is passed over. *)
Visit(r, c) ==
  /\ purge[r] # "off" /\ c \in todo[r]
  /\ todo' = [todo EXCEPT ![r] = @ \ {c}]
  /\ IF purge[r] = "preview" \/ c \notin voice
     THEN UNCHANGED <<voice, deletions>>
     ELSE /\ voice' = voice \ {c}
          /\ deletions' = deletions \cup {<<c, clipAge[c]>>}
  /\ UNCHANGED <<clipAge, dated, purge, photoVars, loopVars, breaks>>

(* One failing delete does not end the run. *)
VisitFails(r, c) ==
  /\ purge[r] = "purging" /\ c \in todo[r]
  /\ Break
  /\ todo' = [todo EXCEPT ![r] = @ \ {c}]
  /\ UNCHANGED <<purge, photoVars, voiceVars, loopVars>>

(* the listing throws: the job aborts *)
Abort(r) ==
  /\ purge[r] # "off"
  /\ Break
  /\ End(r)
  /\ loop' = IF r = "scheduled" THEN "polling" ELSE loop
  /\ ranToday' = (ranToday \/ (r = "scheduled" /\ loop = "daily"))
  /\ UNCHANGED <<photoVars, voiceVars, phase>>

(* Done or failed, the loop goes on, and the date a daily run began on is noted. *)
Finish(r) ==
  /\ purge[r] # "off" /\ todo[r] = {}
  /\ End(r)
  /\ loop' = IF r = "scheduled" THEN "polling" ELSE loop
  /\ ranToday' = (ranToday \/ (r = "scheduled" /\ loop = "daily"))
  /\ UNCHANGED <<photoVars, voiceVars, phase, breaks>>

RunByHand(mode) ==
  /\ loop # "off" /\ purge["manual"] = "off"
  /\ Begin("manual", mode)
  /\ UNCHANGED <<photoVars, voiceVars, loopVars, breaks>>

-----------------------------------------------------------------------------
(* voice-retention-scheduler.sh *)

(* The container starts, or starts again: one run at once, and no date of a last   *)
(* run.                                                                        *)
StartScheduler ==
  /\ Begin("scheduled", "purging")
  /\ loop' = "startup" /\ ranToday' = FALSE
  /\ UNCHANGED <<photoVars, voiceVars, phase, breaks>>

Deploy == loop = "off" /\ StartScheduler
RestartScheduler == loop = "dead" /\ StartScheduler

SchedulerDies ==
  /\ loop \notin {"off", "dead"}
  /\ Break
  /\ End("scheduled")
  /\ loop' = "dead"
  /\ UNCHANGED <<photoVars, voiceVars, phase, ranToday>>

PollClock ==
  /\ loop = "polling" /\ phase = "minute" /\ ~ranToday
  /\ Begin("scheduled", "purging")
  /\ loop' = "daily"
  /\ UNCHANGED <<photoVars, voiceVars, phase, ranToday, breaks>>

(* faulty: that it ran is never forgotten *)
TimePassesRanOnce ==
  /\ loop # "off"
  /\ ~(loop = "polling" /\ phase = "minute" /\ ~ranToday)
  /\ phase' = CASE phase = "before" -> "minute" [] phase = "minute" -> "after"
                [] phase = "after" -> "before"
  /\ clipAge' = [c \in VoiceClips |->
       IF c \in voice /\ clipAge[c] <= Window THEN clipAge[c] + 1 ELSE clipAge[c]]
  /\ UNCHANGED <<photoVars, voice, dated, deletions, purgeVars, loop, ranToday, breaks>>

(* The loop wakes every 30 seconds, so that it sees the minute unless a run or a    *)
(* restart keeps it from looking.                                               *)
TimePasses ==
  /\ loop # "off"
  /\ ~(loop = "polling" /\ phase = "minute" /\ ~ranToday)
  /\ phase' = CASE phase = "before" -> "minute" [] phase = "minute" -> "after"
                [] phase = "after" -> "before"
  /\ ranToday' = (ranToday /\ phase # "after")
  /\ loop' = IF phase = "after" /\ loop = "daily" THEN "overdue" ELSE loop
  /\ clipAge' = [c \in VoiceClips |->
       IF c \in voice /\ clipAge[c] <= Window THEN clipAge[c] + 1 ELSE clipAge[c]]
  /\ UNCHANGED <<photoVars, voice, dated, deletions, purgeVars, breaks>>

-----------------------------------------------------------------------------
MediaInit ==
  /\ upload = [p \in Photos |-> "none"] /\ photo = [p \in Photos |-> "none"]
  /\ held = [p \in Photos |-> "none"] /\ viewed = [p \in Photos |-> "none"]
  /\ clipAge = [c \in VoiceClips |-> 0] /\ voice = {} /\ dated = {} /\ deletions = {}
  /\ purge = [r \in Purges |-> "off"] /\ todo = [r \in Purges |-> {}]
  /\ phase \in {"before", "minute", "after"} /\ loop = "off" /\ ranToday = FALSE
  /\ breaks = 0

PurgeStep(r) == (\E c \in VoiceClips : Visit(r, c)) \/ Finish(r)

PhotoNext ==
  \E p \in Photos : \/ \E body \in Bodies : Upload(p, body)
                    \/ StorePhoto(p) \/ AnswerUpload(p) \/ UploadFails(p) \/ GetPhoto(p)

VoiceNext ==
  \/ \E c \in VoiceClips : CreateClip(c) \/ \E r \in Purges : VisitFails(r, c)
  \/ \E r \in Purges : PurgeStep(r) \/ Abort(r)
  \/ \E mode \in {"purging", "preview"} : RunByHand(mode)
  \/ Deploy \/ RestartScheduler \/ SchedulerDies \/ PollClock \/ TimePasses

MediaNext == PhotoNext \/ VoiceNext

(* Calls to the store return or throw, Docker restarts the container, the loop     *)
(* polls, and time passes.                                                     *)
SchedulerRuns == PurgeStep("scheduled") \/ RestartScheduler \/ PollClock

MediaFairness == WF_mediaVars(SchedulerRuns) /\ WF_mediaVars(TimePasses)

MediaSpec == MediaInit /\ [][MediaNext]_mediaVars
FairMediaSpec == MediaSpec /\ MediaFairness

-----------------------------------------------------------------------------
MediaTypeOK ==
  /\ upload \in [Photos -> ImageTypes \cup {"none", "refused", "done"}]
  /\ photo \in [Photos -> ImageTypes \cup {"none"}]
  /\ held \in [Photos -> ImageTypes \cup {"none"}]
  /\ viewed \in [Photos -> ImageTypes \cup {"none", "404"}]
  /\ clipAge \in [VoiceClips -> 0 .. Window + 1]
  /\ voice \subseteq VoiceClips /\ dated \subseteq VoiceClips
  /\ deletions \subseteq VoiceClips \X (0 .. Window + 1)
  /\ phase \in {"before", "minute", "after"}
  /\ loop \in {"off", "dead", "startup", "polling", "daily", "overdue"} /\ ranToday \in BOOLEAN
  /\ purge \in [Purges -> {"off", "purging", "preview"}]
  /\ todo \in [Purges -> SUBSET VoiceClips]
  /\ breaks \in 0 .. MaxBreaks

(* Runs may overlap, be killed half-way and be tried again: a clip goes only once,  *)
(* past its window, with a date to prove it, and a photo that a client holds is     *)
(* there with the type it was told (voice-retention.ts:43-46, upload.ts:9-14).     *)
MediaKept ==
  /\ \A d \in deletions : d[2] > Window /\ d[1] \in dated /\ d[1] \notin voice
  /\ \A p \in Photos : held[p] # "none" => photo[p] = held[p] /\ viewed[p] # "404"

(* "the next scheduled run retries this one": a dated clip past its window goes,    *)
(* though deletes fail, runs abort, the minute of a day is missed or the scheduler  *)
(* restarts (voice-retention.ts:117-118).                                       *)
ClipsExpire == []<>(\A c \in voice : ~IsExpired(c))
==============================================================================
