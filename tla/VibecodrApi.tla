----------------------------- MODULE VibecodrApi -----------------------------
(***************************************************************************)
(* VibecodrClient, the gateway's way to the Vibecodr API.  A method is the *)
(* sequence of HTTP requests it makes, a step for each; a method that asks *)
(* in different ways is the set of its sequences.  What the answers hold   *)
(* is left out: a step may be answered, refused, or take effect without    *)
(* its answer being usable.                                                *)
(***************************************************************************)
EXTENDS Sequences

(* What is asked for; "store" is the operation store, not the API.         *)
ApiReads  == {"store", "quota", "drafts", "files", "post", "mine", "discover", "profile",
              "user", "search", "remixes", "job"}
ApiWrites == {"pulse", "cover", "visibility", "metadata", "capsule", "file", "zip", "github",
              "compile", "publish", "cancel"}

(* What a failing step does: reject the method, or be caught in it; what   *)
(* an answered one does: go on, end the method, or go on only if the       *)
(* answer allows it.                                                       *)
ApiSteps ==
    {s \in [call: ApiReads \cup ApiWrites, private: BOOLEAN, writes: BOOLEAN,
            fails: {"caught", "skipped", "thrown", "reported"}, then: {"on", "ends", "asks"}] :
        s.writes <=> s.call \in ApiWrites}

Step(c, private, writes) ==
    [call |-> c, private |-> private, writes |-> writes, fails |-> "caught", then |-> "on"]

req(c)       == Step(c, TRUE, FALSE)
reqWrite(c)  == Step(c, TRUE, TRUE)
publicReq(c) == Step(c, FALSE, FALSE)

Caught(step)   == [step EXCEPT !.fails = "skipped"]
Suffices(step) == [step EXCEPT !.fails = "skipped", !.then = "ends"]
Allows(step)   == [step EXCEPT !.then = "asks"]

(* One of the sequences A, then one of B. *)
A \odot B == {a \o b : a \in A, b \in B}

(* The caller goes on whatever fails. *)
AllCaught(chain) == [i \in DOMAIN chain |-> Caught(chain[i])]

(* The caller of the method has no catch. *)
Uncaught(chain) ==
    [i \in DOMAIN chain |->
       IF chain[i].fails = "caught" THEN [chain[i] EXCEPT !.fails = "thrown"] ELSE chain[i]]

-----------------------------------------------------------------------------
(* Reads *)

getUserQuota           == <<req("quota")>>
getAccountCapabilities == getUserQuota
listDrafts             == <<req("drafts")>>
getDraft               == <<req("files")>>
getLiveVibe            == <<req("post")>>
getVibeEngagementSummary == getLiveVibe
getVibeShareSummary      == getLiveVibe

(* For a capsule without a post, and for one whose post fails, a fallback. *)
listMyLiveVibes ==
    LET mine == <<req("mine")>>
        one  == <<req("files")>>
    IN  {mine, mine \o one, mine \o one \o <<Caught(req("post"))>>}

discoverVibes    == <<publicReq("discover")>>
getPublicPost    == <<publicReq("post")>>
getPublicProfile == <<Suffices(publicReq("profile")), publicReq("user")>>
searchVibecodr   == <<publicReq("search")>>
getRemixLineage  == {<<publicReq("remixes")>>, getPublicPost \o <<publicReq("remixes")>>}

-----------------------------------------------------------------------------
(* Writes *)

publishStandalonePulse == <<reqWrite("pulse")>>
uploadCover            == <<reqWrite("cover")>>

(* Visibility, cover and SEO are separate requests, in this order. *)
updateLiveVibeMetadata ==
    {<<>>, <<reqWrite("visibility")>>} \odot {<<>>, <<reqWrite("metadata")>>} \odot {getLiveVibe}

(* The import service catches what fails and reports it in the operation;  *)
(* its methods are those of ImportOperations, here only with the requests  *)
(* they make.  Cover and metadata follow a publish, and fail as warnings.  *)
MutantReported(step) == [step EXCEPT !.fails = "skipped"]
Reported(step) == [step EXCEPT !.fails = "reported"]
Asked(c)       == <<Reported(reqWrite(c))>>

createEmptyCapsule == Asked("capsule")
putCapsuleFile     == Asked("file")
importZip          == Asked("zip")
importGithub       == Asked("github")
compileDraft       == Asked("compile")
publishDraft       == Asked("publish")
updatePostMetadata == <<Caught(reqWrite("metadata"))>>
getImportJob       == <<Caught(req("job"))>>
cancelImportJob    == <<Caught(reqWrite("cancel"))>>

(* An import that was already started under its key is not started again.  *)
startImport == {<<>>, createEmptyCapsule \o putCapsuleFile, importZip, importGithub}

(* Whether the cover is that of an app is asked of the post, unless the    *)
(* caller names the visibility.  One catch is around all three: the code   *)
(* leaves out what follows a failure, the chains allow either.             *)
resolveCoverUsage == {<<>>, <<Caught(getLiveVibe[1])>>}
coverOf           == {<<>>} \cup (resolveCoverUsage \odot {<<Caught(uploadCover[1])>>})
publish           == {publishDraft} \odot coverOf \odot {<<>>, updatePostMetadata}

=============================================================================
