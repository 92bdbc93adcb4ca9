------------------------------ MODULE MCServices ------------------------------
(***************************************************************************)
(* The services and views around the lockout core, each on a small instance. *)
(* They share no state, so a behaviour is one of one part, and the others    *)
(* stay where they start, where nothing fair is enabled.                     *)
(***************************************************************************)
EXTENDS Inference, Reports, Activity, Alerts, Media, Session, Desk, Boot,
        Readiness

CONSTANTS c1, c2, n1, n2, i1, i2, x1, t1, t2, m1, m2, p1, v1, v2, a1, a2, w1, w2, h1, h2,
          k1, k2, d1, d2, e1, s1, s2, q1
VARIABLE part

TwoCrews == {{c1, c2, n1}, {c1, n1, n2}}
RetryDelays == <<1, 2, 4>>

ManagerOfTabs == [t \in {t1, t2} |-> m1]
ThreeScenes ==
  {[inspections |-> {i1, i2}, tabs |-> {t1},     views |-> {}],
   [inspections |-> {i1},     tabs |-> {t1, t2}, views |-> {}],
   [inspections |-> {i1},     tabs |-> {t1},     views |-> {t1}]}
OneMachine == [d \in {d1, d2} |-> e1]
NewestFirst == [d \in {d1, d2} |-> IF d = d1 THEN 1 ELSE 2]
BothAre(x) == [d \in {d1, d2} |-> x]
FirstIs(x, y) == [d \in {d1, d2} |-> IF d = d1 THEN x ELSE y]
ThreeFloors ==
  {[desks |-> {k1, k2}, browsing |-> {}, setbacks |-> 0,
    severity |-> FirstIs("BLOCKING", "none"), start |-> BothAre("IN_REPAIR")],
   [desks |-> {k1}, browsing |-> {k1}, setbacks |-> 1,
    severity |-> BothAre("BLOCKING"), start |-> FirstIs("OPEN", "IN_REPAIR")],
   [desks |-> {k1}, browsing |-> {k1}, setbacks |-> 1,
    severity |-> FirstIs("BLOCKING", "WARNING"), start |-> BothAre("IN_REPAIR")]}
RoleSets == {{a1}, {a1, a2}}

serviceVars ==
  <<part, inferenceVars, reportVars, activityVars, alertVars, mediaVars, sessionVars,
    deskVars, bootVars, readinessVars>>

ServicesInit ==
  /\ part \in {"inference", "reports", "activity", "alerts", "photos", "voice", "device",
              "users", "desks", "boot", "readiness"}
  /\ InferenceInit /\ (part # "inference" => crew = {c1, c2, n1} /\ loaded = {})
  /\ ReportInit
  /\ ActivityInit  /\ (part # "activity" => scene.tabs = {t1, t2})
  /\ AlertInit     /\ (part # "alerts" => configured = {})
  /\ MediaInit     /\ (part # "voice" => phase = "before")
  /\ SessionInit   /\ (part # "device" => cache = <<>>)
                  /\ (part # "users" => users.emails = {})
                  /\ (part \notin {"device", "users"} => allowed = {a1})
  /\ DeskInit      /\ (part # "desks" => floor.desks = {k1, k2})
  /\ ReadinessInit
  /\ IF part = "boot" THEN BootInit
     ELSE /\ booting = "media" /\ nodeEnv = "test" /\ env = [n \in Settings.media |-> "good"]
          /\ boot = "serving" /\ reported = {}

ServicesNext ==
  /\ UNCHANGED part
  /\ \/ /\ part = "inference" /\ InferenceNext
        /\ UNCHANGED <<reportVars, activityVars, alertVars, mediaVars, sessionVars,
                       deskVars, bootVars, readinessVars>>
     \/ /\ part = "reports" /\ ReportNext
        /\ UNCHANGED <<inferenceVars, activityVars, alertVars, mediaVars, sessionVars,
                       deskVars, bootVars, readinessVars>>
     \/ /\ part = "activity" /\ ActivityNext
        /\ UNCHANGED <<inferenceVars, reportVars, alertVars, mediaVars, sessionVars,
                       deskVars, bootVars, readinessVars>>
     \/ /\ part = "alerts" /\ AlertNext
        /\ UNCHANGED <<inferenceVars, reportVars, activityVars, mediaVars, sessionVars,
                       deskVars, bootVars, readinessVars>>
     \/ /\ \/ part = "photos" /\ PhotoNext
           \/ part = "voice" /\ VoiceNext
        /\ UNCHANGED <<inferenceVars, reportVars, activityVars, alertVars, sessionVars,
                       deskVars, bootVars, readinessVars>>
     \/ /\ \/ part = "device" /\ DeviceNext
           \/ part = "users" /\ ProvisionNext
        /\ UNCHANGED <<inferenceVars, reportVars, activityVars, alertVars, mediaVars,
                       deskVars, bootVars, readinessVars>>
     \/ /\ part = "desks" /\ DeskNext
        /\ UNCHANGED <<inferenceVars, reportVars, activityVars, alertVars, mediaVars,
                       sessionVars, bootVars, readinessVars>>
     \/ /\ part = "boot" /\ BootNext
        /\ UNCHANGED <<inferenceVars, reportVars, activityVars, alertVars, mediaVars,
                       sessionVars, deskVars, readinessVars>>
     \/ /\ part = "readiness" /\ ReadinessNext
        /\ UNCHANGED <<inferenceVars, reportVars, activityVars, alertVars, mediaVars,
                       sessionVars, deskVars, bootVars>>

ServicesSpec ==
  /\ ServicesInit /\ [][ServicesNext]_serviceVars
  /\ InferenceFairness /\ ReportFairness /\ ActivityFairness /\ MediaFairness /\ DeskFairness

(* The part that runs keeps to its types; the others do not move. *)
ServicesTypeOK ==
  /\ part = "inference" => InferenceTypeOK
  /\ part = "reports" => ReportTypeOK
  /\ part = "activity" => ActivityTypeOK
  /\ part = "alerts" => AlertTypeOK
  /\ part \in {"photos", "voice"} => MediaTypeOK
  /\ part \in {"device", "users"} => SessionTypeOK
  /\ part = "desks" => DeskTypeOK
  /\ part = "boot" => BootTypeOK
  /\ part = "readiness" => ReadinessTypeOK
============================================================================
