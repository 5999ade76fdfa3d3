------------------------------ MODULE ToolTable ------------------------------
(***************************************************************************)
(* The tools of the gateway: what their descriptors promise (who may call  *)
(* them, whether they read, write or destroy) and what callTool does for   *)
(* each, as gates and as the requests it makes of the Vibecodr API.  The   *)
(* two are written down apart, as in the code.  Shapes and texts of        *)
(* arguments and results are left out; a result its schema rejects is an   *)
(* error whatever the tool has done.                                       *)
(***************************************************************************)
EXTENDS VibecodrApi, FiniteSets

(* Descriptors *)

SetupTools ==
    {"get_vibecodr_platform_overview", "get_guided_publish_requirements",
     "get_upload_capabilities", "prepare_publish_package", "validate_creation_payload",
     "get_launch_best_practices", "get_pulse_setup_guidance"}
OperationTools ==
    {"get_account_capabilities", "list_import_operations", "get_import_operation",
     "watch_operation", "get_publish_readiness", "get_runtime_readiness",
     "resume_latest_publish_flow", "explain_operation_failure"}
DraftAndVibeTools ==
    {"list_vibecodr_drafts", "get_vibecodr_draft", "list_my_live_vibes", "get_live_vibe",
     "get_vibe_engagement_summary", "get_vibe_share_link"}
SocialTools ==
    {"discover_vibes", "get_public_post", "get_public_profile", "search_vibecodr",
     "get_remix_lineage"}
LaunchTools ==
    {"build_share_copy", "get_launch_checklist", "inspect_social_preview",
     "suggest_post_publish_next_steps", "get_engagement_followup_context"}
RecoveryWrites == {"start_creation_import", "compile_draft_capsule"}
PublishTools ==
    {"update_live_vibe_metadata", "quick_publish_creation", "publish_standalone_pulse",
     "publish_draft_capsule", "cancel_import_operation"}

NoAuthTools == SetupTools \cup SocialTools
ReadTools   == NoAuthTools \cup OperationTools \cup DraftAndVibeTools \cup LaunchTools
Tools       == ReadTools \cup RecoveryWrites \cup PublishTools

toolRequiresAuth(t) == t \in Tools \ NoAuthTools
ReadOnlyHint(t)     == t \in ReadTools
DestructiveHint(t)  == t \in PublishTools

-----------------------------------------------------------------------------
(* What callTool does *)

Flags   == {"codex", "chatgpt", "publish"}
Sources == {"codex", "chatgpt"}

FlagOf(t) ==
    CASE t \in {"quick_publish_creation", "publish_draft_capsule"} -> {"publish"}
      [] OTHER                                                    -> {}
requireConfirmedWrite(t) ==
    t \in {"publish_standalone_pulse", "update_live_vibe_metadata", "quick_publish_creation",
           "publish_draft_capsule", "cancel_import_operation"}
SourceFlag(t, source) ==
    IF t \in {"quick_publish_creation", "start_creation_import"} THEN {source} ELSE {}

(* The gates in their order; "open" lets the call through.                 *)
Refusal(t, known, confirmed, source, flags) ==
    IF t \notin Tools THEN "error"
    ELSE IF toolRequiresAuth(t) /\ ~known THEN "challenge"
    ELSE IF ~(FlagOf(t) \subseteq flags) THEN "disabled"
    ELSE IF requireConfirmedWrite(t) /\ ~confirmed THEN "confirm"
    ELSE IF ~(SourceFlag(t, source) \subseteq flags) THEN "disabled"
    ELSE "open"

(* A result is checked against the schema of its tool, and these have no   *)
(* place for an error: the refusal of a cancellation that was not          *)
(* confirmed is replaced by an error of the check.                         *)
NoErrorSchema ==
    {"list_import_operations", "get_import_operation", "list_vibecodr_drafts",
     "compile_draft_capsule", "cancel_import_operation"}

withValidatedStructuredContent(t, answer) ==
    IF answer = "confirm" /\ t \in NoErrorSchema THEN "error" ELSE answer

SocialChains(t) ==
    CASE t = "discover_vibes"     -> {discoverVibes}
      [] t = "get_public_post"    -> {getPublicPost}
      [] t = "get_public_profile" -> {getPublicProfile}
      [] t = "search_vibecodr"    -> {searchVibecodr}
      [] t = "get_remix_lineage"  -> getRemixLineage

(* The operation store may reject as well.                                 *)
store == <<req("store")>>

(* An operation, a draft or a live vibe, whichever is asked about. *)
ReadinessChains == {getLiveVibe, getDraft, store \o getImportJob}

(* The latest operation and the vibe it went to, or the latest vibe. *)
ResumeChains ==
    {store} \odot {<<>>, getImportJob} \odot {<<>>, <<Caught(getLiveVibe[1])>>}
    \cup {store \o AllCaught(v) : v \in listMyLiveVibes}

(* Operations are refreshed by polling their import jobs.  Only list and   *)
(* get have no catch around what the store rejects.                        *)
OperationChains(t) ==
    CASE t = "get_account_capabilities" -> {getAccountCapabilities}
      [] t = "list_import_operations"   ->
            {Uncaught(store), Uncaught(store) \o getImportJob \o getImportJob}
      [] t = "get_import_operation"     -> {<<>>, Uncaught(store), Uncaught(store) \o getImportJob}
      [] t = "get_runtime_readiness"    -> ReadinessChains
      [] t = "resume_latest_publish_flow" -> ResumeChains
      [] OTHER                          -> {store, store \o getImportJob}

(* Nothing catches what drafts reject; live vibes have a catch. *)
DraftAndVibeChains(t) ==
    CASE t = "list_vibecodr_drafts" -> {Uncaught(listDrafts)}
      [] t = "get_vibecodr_draft"   -> {Uncaught(getDraft)}
      [] t = "list_my_live_vibes"   -> listMyLiveVibes
      [] t = "get_live_vibe"        -> {getLiveVibe}
      [] t = "get_vibe_engagement_summary" -> {getVibeEngagementSummary}
      [] t = "get_vibe_share_link"  -> {getVibeShareSummary}

LaunchChains(t) ==
    IF t = "get_engagement_followup_context" THEN {getVibeEngagementSummary} ELSE {getLiveVibe}

(* The quota is read first, and must leave a slot. *)
PulseChain == <<Allows(getAccountCapabilities[1])>> \o publishStandalonePulse

(* A thumbnail is uploaded first, for the visibility the vibe has or gets. *)
MetadataChains ==
    {<<>>, uploadCover, getLiveVibe \o uploadCover} \odot updateLiveVibeMetadata

(* Import, compile and publish, as far as the arguments and the import go, *)
(* then the live vibe and its share link, if the post is known.            *)
QuickPublishChains ==
    LET compiled == {<<>>, compileDraft}
        live     == {<<>>, getLiveVibe \o getVibeShareSummary}
        ready    == {store} \odot startImport \odot {<<>>, getImportJob}
    IN  ready \cup (ready \odot compiled \odot publish \odot live)

(* The vibe is read outside of the try. *)
DraftPublishChains ==
    {store} \odot publish \odot {store} \odot {<<>>, Uncaught(getLiveVibe)}

WriteChains(t) ==
    CASE t = "publish_standalone_pulse"  -> {PulseChain}
      [] t = "update_live_vibe_metadata" -> MetadataChains
      [] t = "start_creation_import"     -> {store} \odot startImport
      [] t = "compile_draft_capsule"     -> {Uncaught(store) \o compileDraft \o Uncaught(store)}
      [] t = "quick_publish_creation"    -> QuickPublishChains
      [] t = "publish_draft_capsule"     -> DraftPublishChains
      [] t = "cancel_import_operation"   ->
            {Uncaught(store)} \odot {<<>>, cancelImportJob} \odot {Uncaught(store)}

Chains(t) ==
    CASE t \in SetupTools                      -> {<<>>}
      [] t \in SocialTools                     -> SocialChains(t)
      [] t \in OperationTools                  -> OperationChains(t)
      [] t \in DraftAndVibeTools               -> DraftAndVibeChains(t)
      [] t \in LaunchTools                     -> LaunchChains(t)
      [] OTHER                                 -> WriteChains(t)

=============================================================================
