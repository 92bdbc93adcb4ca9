--------------------------- MODULE MCServicesProofs ---------------------------
(***************************************************************************)
(* The instance of MCServices is every part of it, each at rest or running   *)
(* by its own specification: what is proved of a part holds of the instance. *)
(***************************************************************************)
EXTENDS MCServices, InferenceProofs, DashboardProofs, ServiceProofs

LEMMA OnePartMoves ==
  ASSUME [ServicesNext]_serviceVars
  PROVE  /\ [InferenceNext]_inferenceVars /\ [ReportNext]_reportVars
         /\ [ActivityNext]_activityVars /\ [AlertNext]_alertVars
         /\ [MediaNext]_mediaVars /\ [SessionNext]_sessionVars
         /\ [DeskNext]_deskVars /\ [BootNext]_bootVars /\ [ReadinessNext]_readinessVars
         /\ UNCHANGED part
BY DEF ServicesNext, serviceVars, MediaNext, SessionNext

LEMMA PartsStart ==
  ASSUME ServicesInit
  PROVE  /\ InferenceInit /\ ReportInit /\ ActivityInit /\ AlertInit /\ MediaInit
         /\ SessionInit /\ DeskInit /\ ReadinessInit
         /\ part = "boot" => BootInit
BY DEF ServicesInit

(* All parts run by their specifications, Boot where it is the one that runs. *)
LEMMA PartsRun ==
  ServicesSpec => /\ InferenceSpec /\ ReportSpec /\ ActivitySpec /\ AlertSpec /\ MediaSpec
                  /\ SessionSpec /\ DeskSpec /\ ReadinessSpec
                  /\ BootSpec \/ [](part # "boot")
<1>1. [ServicesNext]_serviceVars => /\ [InferenceNext]_inferenceVars /\ [ReportNext]_reportVars
                                    /\ [ActivityNext]_activityVars /\ [AlertNext]_alertVars
                                    /\ [MediaNext]_mediaVars /\ [SessionNext]_sessionVars
                                    /\ [DeskNext]_deskVars /\ [BootNext]_bootVars
                                    /\ [ReadinessNext]_readinessVars
  BY OnePartMoves
<1>2. part # "boot" /\ [ServicesNext]_serviceVars => (part # "boot")'
  BY OnePartMoves
<1>3. ServicesInit => /\ InferenceInit /\ ReportInit /\ ActivityInit /\ AlertInit /\ MediaInit
                      /\ SessionInit /\ DeskInit /\ ReadinessInit
                      /\ BootInit \/ part # "boot"
  BY PartsStart
<1> QED
  BY <1>1, <1>2, <1>3, PTL
  DEF ServicesSpec, InferenceSpec, ReportSpec, ActivitySpec, AlertSpec, MediaSpec, SessionSpec,
      DeskSpec, ReadinessSpec, BootSpec

(* Types of whichever part runs. *)
THEOREM PartsAreTyped == ServicesSpec => []ServicesTypeOK
<1>1. InferenceSpec => []InferenceTypeOK
  BY InferenceInitially, InferenceInductive, PTL DEF InferenceSpec, InferenceInvariant
<1>2. ReportSpec => []ReportTypeOK
  BY ReportsInitially, ReportsInductive, PTL DEF ReportSpec, ReportInvariant
<1>3. ActivitySpec => []ActivityTypeOK
  BY ActivityInitially, ActivityInductive, PTL DEF ActivitySpec, ActivityInvariant
<1>4. AlertSpec => []AlertTypeOK
  BY AlertsInitially, AlertsInductive, PTL DEF AlertSpec, AlertInvariant
<1>5. MediaSpec => []MediaTypeOK
  BY MediaKeeps, PTL DEF MediaInvariant
<1>6. /\ InferenceTypeOK /\ ReportTypeOK /\ ActivityTypeOK /\ AlertTypeOK /\ MediaTypeOK
      /\ SessionTypeOK /\ DeskTypeOK /\ ReadinessTypeOK
      /\ part # "boot" \/ BootTypeOK
      => ServicesTypeOK
  BY DEF ServicesTypeOK
<1> QED
  BY <1>1, <1>2, <1>3, <1>4, <1>5, <1>6, PartsRun, SessionIsTyped, DesksAreTyped, BootIsTyped,
     ReadinessIsTyped, PTL
=============================================================================
