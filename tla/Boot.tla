-------------------------------- MODULE Boot --------------------------------
(***************************************************************************)
(* How a service reads its environment (ADR 0015): loadConfig is run once,   *)
(* before anything else, and a service with a missing or half-filled setting *)
(* refuses to start and names what is wrong.  Whoever deploys it corrects    *)
(* what was named and starts it again.                                      *)
(*                                                                         *)
(* Of a value only this is kept: absent (unset, or blank where that is taken *)
(* for unset), the placeholder of .env.example, of the wrong shape (blank,    *)
(* for a setting with a form), or good.                                     *)
(***************************************************************************)
EXTENDS FiniteSets, Naturals

CONSTANT MaxWrong  \* bound on the settings that are not good to begin with

ASSUME WrongAssumption == MaxWrong \in Nat

VARIABLES
  booting,   \* the service
  nodeEnv,
  env,       \* its settings
  boot,      \* "down", "refused" or "serving"
  reported   \* the settings that the last refusal named

bootVars == <<booting, nodeEnv, env, boot, reported>>

Values == {"absent", "placeholder", "malformed", "good"}
NodeEnvs == {"development", "test", "production"}
Entra == {"ENTRA_TENANT_ID", "ENTRA_CLIENT_ID"}

(* What only has a type or a form, and a default: a few of the many that do.        *)
Formed == [core_api |-> {"OUTBOX_POLL_INTERVAL_MS", "SMTP_PORT"},
           audit    |-> {"CHAIN_VERIFY_TIME", "LAB_TIMEZONE"},
           media    |-> {"MEDIA_VOICE_RETENTION_DAYS"}]

(* What has a default, and is taken as it comes *)
Unchecked == [core_api |-> {},
              audit    |-> {"CORE_API_INTERNAL_URL", "REPORTS_BLOB_CONTAINER", "MEDIA_BLOB_CONTAINER"},
              media    |-> {"MEDIA_BLOB_CONTAINER", "MEDIA_VOICE_BLOB_CONTAINER"}]

-----------------------------------------------------------------------------
(* core-api: lib/config.ts *)

AlertSettings == {"TEAMS_WEBHOOK_URL", "DASHBOARD_BASE_URL", "SMTP_HOST", "SMTP_USER", "SMTP_PASS"}

CoreSecrets ==
  Entra \cup {"APPLICATIONINSIGHTS_CONNECTION_STRING", "AUDIT_INGEST_TOKEN", "CORE_API_INTERNAL_TOKEN"}

(* faulty: the name and the password are looked at one by one *)
AuthUnpaired(e) == {}

(* The relay's name and password come together; without a relay neither matters.    *)
AuthProblems(e) ==
  IF e["SMTP_HOST"] # "absent" /\ ((e["SMTP_USER"] = "absent") # (e["SMTP_PASS"] = "absent"))
  THEN {"SMTP_USER", "SMTP_PASS"} ELSE {}

CoreProblems(e, requireAzure) ==
     {s \in CoreSecrets \cup AlertSettings : e[s] = "placeholder"}
  \cup {s \in {"DATABASE_URL"} : e[s] # "good"}
  \cup {s \in {"APPLICATIONINSIGHTS_CONNECTION_STRING", "TEAMS_WEBHOOK_URL", "DASHBOARD_BASE_URL"} :
         e[s] = "malformed"}
  \cup {s \in {"AUDIT_SERVICE_URL", "AI_SERVICE_URL", "SUPERVISOR_ALERT_EMAILS"} :
         e[s] \in {"malformed", "placeholder"}}
  \cup {s \in CoreSecrets \cup {"AUDIT_SERVICE_URL", "AI_SERVICE_URL"} :
         requireAzure /\ e[s] = "absent"}
  \cup AuthProblems(e)

(* audit: lib/config.ts *)
AuditSecrets ==
  Entra \cup {"APPLICATIONINSIGHTS_CONNECTION_STRING", "AUDIT_INGEST_TOKEN", "CORE_API_INTERNAL_TOKEN",
              "AZURE_STORAGE_CONNECTION_STRING", "REPORT_SIGNING_PRIVATE_KEY"}

AuditProblems(e, requireExternal) ==
     {s \in AuditSecrets : e[s] = "placeholder" \/ (requireExternal /\ e[s] = "absent")}
  \cup {s \in {"AZURE_STORAGE_CONNECTION_STRING", "REPORT_SIGNING_PRIVATE_KEY",
               "APPLICATIONINSIGHTS_CONNECTION_STRING"} : e[s] = "malformed"}
  \cup {s \in {"DATABASE_URL"} : e[s] # "good"}

(* media: lib/config.ts *)
MediaSecrets ==
  Entra \cup {"APPLICATIONINSIGHTS_CONNECTION_STRING", "AZURE_STORAGE_CONNECTION_STRING"}

MediaProblems(e, requireExternal) ==
     {s \in MediaSecrets : e[s] = "placeholder" \/ (requireExternal /\ e[s] = "absent")}
  \cup {s \in {"APPLICATIONINSIGHTS_CONNECTION_STRING", "AZURE_STORAGE_CONNECTION_STRING"} :
         e[s] = "malformed"}

-----------------------------------------------------------------------------
Settings ==
  [core_api |-> CoreSecrets \cup AlertSettings \cup Formed.core_api
                \cup {"DATABASE_URL", "AUDIT_SERVICE_URL", "AI_SERVICE_URL", "SUPERVISOR_ALERT_EMAILS"},
   audit    |-> AuditSecrets \cup Formed.audit \cup Unchecked.audit \cup {"DATABASE_URL"},
   media    |-> MediaSecrets \cup Formed.media \cup Unchecked.media]

(* a secret or a name has no shape *)
Opaque ==
  Entra \cup {"AUDIT_INGEST_TOKEN", "CORE_API_INTERNAL_TOKEN", "SMTP_HOST", "SMTP_USER", "SMTP_PASS",
              "REPORTS_BLOB_CONTAINER", "MEDIA_BLOB_CONTAINER", "MEDIA_VOICE_BLOB_CONTAINER"}

FormProblems(s, e) == {n \in Formed[s] : e[n] \in {"malformed", "placeholder"}}

Problems(s, e, required) ==
  CASE s = "core_api" -> CoreProblems(e, required)
    [] s = "audit"    -> AuditProblems(e, required)
    [] s = "media"    -> MediaProblems(e, required)

(* What the schema refuses is reported alone; then everything else at once.         *)
LoadConfig(s, e, mode) ==
  IF FormProblems(s, e) # {} THEN FormProblems(s, e) ELSE Problems(s, e, mode # "test")

LoadConfigOrExit ==
  /\ boot = "down"
  /\ reported' = LoadConfig(booting, env, nodeEnv)
  /\ boot' = IF reported' = {} THEN "serving" ELSE "refused"
  /\ UNCHANGED <<booting, nodeEnv, env>>

(* what was named is filled in *)
Corrected(e, named) == [n \in DOMAIN e |-> IF n \in named THEN "good" ELSE e[n]]

CorrectReported ==
  /\ boot = "refused" /\ boot' = "down"
  /\ env' = Corrected(env, reported)
  /\ UNCHANGED <<booting, nodeEnv, reported>>

-----------------------------------------------------------------------------
(* the environments with a few settings that are not good *)
Environments(s) ==
  UNION {{[n \in Settings[s] |-> IF n \in wrong THEN v[n] ELSE "good"] :
            v \in {f \in [wrong -> Values \ {"good"}] :
                     \A n \in wrong \cap Opaque : f[n] # "malformed"}} :
         wrong \in {w \in SUBSET Settings[s] : Cardinality(w) <= MaxWrong}}

BootInit ==
  /\ booting \in DOMAIN Settings /\ nodeEnv \in NodeEnvs
  /\ env \in Environments(booting)
  /\ boot = "down" /\ reported = {}

BootNext == LoadConfigOrExit \/ CorrectReported

BootSpec == BootInit /\ [][BootNext]_bootVars

-----------------------------------------------------------------------------
BootTypeOK ==
  /\ booting \in DOMAIN Settings /\ nodeEnv \in NodeEnvs
  /\ env \in [Settings[booting] -> Values]
  /\ boot \in {"down", "refused", "serving"}
  /\ reported \subseteq Settings[booting]

(* What has no default, and is read without asking whether it is there *)
Needs ==
  [core_api |-> CoreSecrets \cup {"DATABASE_URL", "AUDIT_SERVICE_URL", "AI_SERVICE_URL"},
   audit    |-> AuditSecrets \cup {"DATABASE_URL"},
   media    |-> MediaSecrets]

(* No part of a channel that is filled in is wrong, and no relay has half of its     *)
(* credentials.  A relay without recipients, and recipients without a relay, are a  *)
(* channel that is off, which config.ts:287-292 and 249-254 let start.              *)
EmailWhole ==
  /\ {env["SMTP_HOST"], env["SUPERVISOR_ALERT_EMAILS"]} \subseteq {"absent", "good"}
  /\ env["SMTP_HOST"] = "good" =>
       env["SMTP_USER"] = env["SMTP_PASS"] /\ env["SMTP_USER"] \in {"absent", "good"}
TeamsWhole == env["TEAMS_WEBHOOK_URL"] \in {"absent", "good"}

(* A service that serves has every setting that has no default, none of the wrong    *)
(* form, and no alert channel that would take each message and then fail to send it *)
(* (core-api config.ts:276-285); of the settings in Unchecked nothing is promised.   *)
(* Past the schema, which reports its own issues alone, a refusal names all that is  *)
(* wrong: who corrects what it names is not refused again (config.ts:131-133).      *)
BootsSoundly ==
  /\ boot = "serving" =>
       /\ nodeEnv # "test" => \A n \in Needs[booting] : env[n] = "good"
       /\ \A n \in Formed[booting] : env[n] \in {"absent", "good"}
       /\ booting = "core_api" => EmailWhole /\ TeamsWhole
  /\ boot = "refused" /\ reported \cap Formed[booting] = {} =>
       LoadConfig(booting, Corrected(env, reported), nodeEnv) = {}
=============================================================================
