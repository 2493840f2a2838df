---------------------------- MODULE MediaGeneration ----------------------------
(***************************************************************************)
(* The media graph of one run: an approved demo script becomes a click path, *)
(* the path a recording, the script a narration, and both a video, stored in *)
(* S3 and named by a row of media_assets.  A step that fails for good leaves *)
(* a row that says where it broke.                                           *)
(*                                                                          *)
(* All jobs of a run share one thread, and LangGraph keeps what a field of    *)
(* the thread held when a later job does not give it a value.                *)
(***************************************************************************)
EXTENDS Naturals, Sequences

CONSTANTS
    None,
    Features,        \* features of the run, approved at Gate #1
    InitialScripts,  \* its demo_script artifacts, by id
    InitialObjects,  \* what the run already has in S3
    Bodies,          \* texts an edit may give one
    Paths(_),        \* click paths the model may answer for a body
    MaxSteps,        \* of a click path
    MaxAttempts,     \* of with_retries
    MaxJobs, MaxReviews, MaxFaults  \* bounds

\* Keys of a job's objects, under the run's prefix.
RawKey(media) == << "media", media, "raw" >>
FinalKey(media) == << "media", media, "final" >>

ASSUME MediaAssumption ==
    /\ MaxSteps \in Nat /\ MaxAttempts \in Nat
    /\ MaxJobs \in Nat /\ MaxReviews \in Nat /\ MaxFaults \in Nat
    /\ \A s \in DOMAIN InitialScripts :
          DOMAIN InitialScripts[s] = {"feature", "body", "status", "updated"}
    /\ \A n \in 1..MaxJobs : None # FinalKey(n)

VARIABLES
    run,       \* whether the row of release_runs exists
    scripts,   \* artifacts of type demo_script, by id
    triggers,  \* features whose media_trigger marker is in approvals
    request,   \* the POST generate-demo in progress, or None
    queue,     \* the pending job: the feature it is for in a record, or None
    job,       \* the process of the worker, or None
    thread,    \* what the checkpoint of the thread holds between jobs
    cache,     \* llm_response_cache: click paths by key
    assets,    \* media_assets
    objects,   \* S3 objects by key: what each was made of
    approved,  \* history: << script, body >> that were ever approved
    minted, reviews, faults

requests == << triggers, request, queue >>
stores   == << run, scripts, cache, assets >>
mediaVars == << stores, requests, job, thread, objects, approved, minted, reviews, faults >>

Fault == faults < MaxFaults /\ faults' = faults + 1

\* The function f with f[x] = y.
With(f, x, y) == [z \in DOMAIN f \cup {x} |-> IF z = x THEN y ELSE f[z]]

-----------------------------------------------------------------------------
(* Click paths *)

SelectorActions == {"click", "fill", "wait_for_selector", "expect_text"}
ClickActions == {"navigate"} \cup SelectorActions

\* validate_click_path.  A selector or target is "safe", "unsafe" or None.
StepAllowed(step) ==
    /\ step.action \in ClickActions
    /\ step.action \in SelectorActions => step.selector = "safe"
    /\ step.action = "navigate" => step.target = "safe"

PathAllowed(path) ==
    Len(path) \in 1 .. MaxSteps /\ \A i \in DOMAIN path : StepAllowed(path[i])

ClickPathKey(script, body) == << script, body >>

\* Bug: the audio is kept by voice and model alone.
HashOfVoice(text) == "voice"

\* narration_content_hash: the voice, model and format are those of the job.
NarrationHash(text) == << text, "voice" >>

-----------------------------------------------------------------------------
(* State *)

Steps == << "load_approved_demo_script", "generate_click_path_json", "validate_click_path",
            "run_playwright_capture", "store_raw_recording", "generate_narration",
            "assemble_video_ffmpeg", "store_media_s3", "persist_media_asset" >>

Fresh(media, disk, attempt) ==
    [at |-> Steps[1], media |-> media, attempt |-> attempt, disk |-> disk,
     script |-> None, body |-> None, answer |-> None, path |-> None,
     recording |-> None, narration |-> None, video |-> None]

In(step) == job # None /\ job.at = step

Init ==
    /\ run = TRUE /\ scripts = InitialScripts
    /\ triggers = {} /\ request = None /\ queue = None /\ job = None
    /\ thread = [requested |-> None, failed |-> None, raw |-> None]
    /\ cache = << >> /\ assets = {} /\ objects = InitialObjects
    /\ approved = {<< s, scripts[s].body >> : s \in {t \in DOMAIN scripts : scripts[t].status = "approved"}}
    /\ minted = 0 /\ reviews = 0 /\ faults = 0

-----------------------------------------------------------------------------
(* The route and the queue *)

\* POST generate-demo: the feature is found, and approved.
TriggerDemo(f) ==
    /\ request = None /\ run /\ minted < MaxJobs
    /\ request' = [feature |-> f, at |-> "checked"]
    /\ UNCHANGED << stores, triggers, queue, job, thread, objects, approved, minted, reviews, faults >>

\* The marker is recorded once; a second request is answered without a job.
RecordTrigger ==
    /\ request # None /\ request.at = "checked"
    /\ triggers' = triggers \cup {request.feature}
    /\ request' = IF request.feature \in triggers THEN None ELSE [request EXCEPT !.at = "marked"]
    /\ UNCHANGED << stores, queue, job, thread, objects, approved, minted, reviews, faults >>

\* The group of the workflow keeps one pending job: a newer one supersedes it.
Enqueue(f) == queue' = [feature |-> f]

DispatchMedia ==
    /\ request # None /\ request.at = "marked"
    /\ Enqueue(request.feature) /\ request' = None
    /\ UNCHANGED << stores, triggers, job, thread, objects, approved, minted, reviews, faults >>

\* An error, or no answer in ten seconds: the marker goes, the job may have come.
DispatchMediaFails ==
    /\ request # None /\ request.at = "marked" /\ Fault
    /\ Enqueue(request.feature) \/ UNCHANGED queue
    /\ triggers' = triggers \ {request.feature} /\ request' = None
    /\ UNCHANGED << stores, job, thread, objects, approved, minted, reviews >>

\* The workflow run by hand, without a feature.
RunByHand ==
    /\ queue = None /\ minted < MaxJobs
    /\ Enqueue(None)
    /\ UNCHANGED << stores, triggers, request, job, thread, objects, approved, minted, reviews, faults >>

\* A job of an erased run fails when it advances the status.
StartJob ==
    /\ job = None /\ queue # None /\ minted < MaxJobs
    /\ queue' = None /\ minted' = minted + 1
    /\ IF run THEN /\ job' = Fresh(minted', {}, 1)
                   /\ thread' = [thread EXCEPT !.requested = IF queue.feature = None THEN @ ELSE queue.feature]
              ELSE UNCHANGED << job, thread >>
    /\ UNCHANGED << stores, triggers, request, objects, approved, reviews, faults >>

-----------------------------------------------------------------------------
(* Reviews, at Gate #2 *)

Review(s, row) ==
    /\ run /\ reviews < MaxReviews /\ reviews' = reviews + 1
    /\ scripts' = [scripts EXCEPT ![s] = row]
    /\ approved' = approved \cup {<< s, r.body >> : r \in {x \in {row} : x.status = "approved"}}
    /\ UNCHANGED << run, cache, assets, requests, job, thread, objects, minted, faults >>

Newest == CHOOSE n \in {scripts[s].updated : s \in DOMAIN scripts} :
              \A s \in DOMAIN scripts : scripts[s].updated <= n

ApproveScript(s) == Review(s, [scripts[s] EXCEPT !.status = "approved", !.updated = Newest + 1])
EditScript(s, body) ==
    Review(s, [scripts[s] EXCEPT !.body = body, !.status = "edited", !.updated = Newest + 1])

-----------------------------------------------------------------------------
(* The guard around each step *)

\* A field of the thread that was set stays set: after a step that succeeds,
\* too, the graph goes to the handler if an earlier job had broken.
Follow(step) ==
    IF thread.failed # None THEN "handle_broken_step"
    ELSE LET i == CHOOSE n \in DOMAIN Steps : Steps[n] = step
         IN  IF i = Len(Steps) THEN "end" ELSE Steps[i + 1]

Do(step, result) ==
    job' = IF Follow(step) = "end" THEN None ELSE [result EXCEPT !.at = Follow(step)]

\* An error that a retry would not mend.
Break ==
    /\ thread' = [thread EXCEPT !.failed = job.at]
    /\ job' = [job EXCEPT !.at = "handle_broken_step"]

\* with_retries: the graph starts again, in the same process with the same id.
Reenter ==
    job' = IF job.attempt < MaxAttempts THEN Fresh(job.media, job.disk, job.attempt + 1) ELSE None

\* Steps that call a service fail; only the model and S3 in a transient way.
StepBreaks ==
    /\ job # None /\ Fault
    /\ job.at \in {"generate_click_path_json", "run_playwright_capture", "store_raw_recording",
                   "generate_narration", "assemble_video_ffmpeg", "store_media_s3"}
    /\ Break
    /\ UNCHANGED << stores, requests, objects, approved, minted, reviews >>

ModelFails ==
    /\ In("generate_click_path_json") /\ Fault
    /\ Reenter
    /\ UNCHANGED << stores, requests, thread, objects, approved, minted, reviews >>

\* expect_text raises AssertionError, which passes for an error of the program;
\* a kill ends the job the same way.
JobDies ==
    /\ job # None /\ Fault
    /\ job' = None
    /\ UNCHANGED << stores, requests, thread, objects, approved, minted, reviews >>

-----------------------------------------------------------------------------
(* The steps *)

\* The newest approved script, of the feature the thread names if it names one.
Eligible == {s \in DOMAIN scripts :
                /\ scripts[s].status = "approved"
                /\ thread.requested \in {None, scripts[s].feature}}

LoadApprovedDemoScript ==
    /\ In("load_approved_demo_script")
    /\ IF Eligible = {} THEN Break
       ELSE \E s \in Eligible :
               /\ \A u \in Eligible : scripts[u].updated <= scripts[s].updated
               /\ Do("load_approved_demo_script", [job EXCEPT !.script = s, !.body = scripts[s].body])
               /\ UNCHANGED thread
    /\ UNCHANGED << stores, requests, objects, approved, minted, reviews, faults >>

\* A kept answer, or one of the model (None for a wrong shape), which is kept before its shape is looked
\* at.  The cache refers to the run.
GenerateClickPath(answer) ==
    LET key == ClickPathKey(job.script, job.body)
        hit == key \in DOMAIN cache
        path == IF hit THEN cache[key] ELSE answer
    IN  /\ In("generate_click_path_json")
        /\ cache' = IF run THEN With(cache, key, path) ELSE cache
        /\ IF ~run \/ path = None THEN Break
           ELSE Do("generate_click_path_json", [job EXCEPT !.answer = path]) /\ UNCHANGED thread
        /\ UNCHANGED << run, scripts, assets, requests, objects, approved, minted, reviews, faults >>

ValidateClickPath ==
    /\ In("validate_click_path")
    /\ IF PathAllowed(job.answer)
       THEN Do("validate_click_path", [job EXCEPT !.path = job.answer]) /\ UNCHANGED thread
       ELSE Break
    /\ UNCHANGED << stores, requests, objects, approved, minted, reviews, faults >>

RunPlaywrightCapture ==
    /\ In("run_playwright_capture")
    /\ Do("run_playwright_capture", [job EXCEPT !.recording = job.path])
    /\ UNCHANGED << stores, requests, thread, objects, approved, minted, reviews, faults >>

Put(key, content) == objects' = With(objects, key, content)

StoreRawRecording ==
    /\ In("store_raw_recording")
    /\ Put(RawKey(job.media), [path |-> job.recording])
    /\ thread' = [thread EXCEPT !.raw = RawKey(job.media)]
    /\ Do("store_raw_recording", job)
    /\ UNCHANGED << stores, requests, approved, minted, reviews, faults >>

\* Audio the runner has under the hash is used again.
GenerateNarration ==
    LET hash == NarrationHash(job.body)
        audio == IF \E a \in job.disk : a.hash = hash
                 THEN CHOOSE a \in job.disk : a.hash = hash
                 ELSE [hash |-> hash, text |-> job.body]
    IN  /\ In("generate_narration")
        /\ Do("generate_narration", [job EXCEPT !.narration = audio, !.disk = @ \cup {audio}])
        /\ UNCHANGED << stores, requests, thread, objects, approved, minted, reviews, faults >>

AssembleVideo ==
    /\ In("assemble_video_ffmpeg")
    /\ Do("assemble_video_ffmpeg",
          [job EXCEPT !.video = [path |-> job.recording, text |-> job.narration.text]])
    /\ UNCHANGED << stores, requests, thread, objects, approved, minted, reviews, faults >>

StoreMedia ==
    /\ In("store_media_s3")
    /\ Put(FinalKey(job.media), job.video)
    /\ Do("store_media_s3", job)
    /\ UNCHANGED << stores, requests, thread, approved, minted, reviews, faults >>

\* An upload that is not answered may have been done.
UploadFails ==
    /\ In("store_raw_recording") \/ In("store_media_s3")
    /\ Fault
    /\ Reenter
    /\ \/ UNCHANGED objects
       \/ In("store_raw_recording") /\ Put(RawKey(job.media), [path |-> job.recording])
       \/ In("store_media_s3") /\ Put(FinalKey(job.media), job.video)
    /\ UNCHANGED << stores, requests, thread, approved, minted, reviews >>

\* Bug: the status is left to the default of the model class.
AssetByDefault(status, uri, transcript) ==
    [media |-> job.media, script |-> job.script, status |-> "ready", uri |-> uri,
     raw |-> thread.raw, path |-> job.path, transcript |-> transcript, broken |-> thread.failed]

Asset(status, uri, transcript) ==
    [media |-> job.media, script |-> job.script, status |-> status, uri |-> uri,
     raw |-> thread.raw, path |-> job.path, transcript |-> transcript, broken |-> thread.failed]

\* The row refers to the run: without it the INSERT fails for good.
PersistMediaAsset ==
    /\ In("persist_media_asset")
    /\ IF run THEN /\ assets' = assets \cup {Asset("ready", FinalKey(job.media), job.body)}
                   /\ Do("persist_media_asset", job)
                   /\ UNCHANGED thread
              ELSE Break /\ UNCHANGED assets
    /\ UNCHANGED << run, scripts, cache, requests, objects, approved, minted, reviews, faults >>

HandleBrokenStep ==
    /\ In("handle_broken_step")
    /\ assets' = IF run THEN assets \cup {Asset("broken", thread.raw, IF job.narration = None THEN None ELSE job.body)}
                 ELSE assets
    /\ job' = None
    /\ UNCHANGED << run, scripts, cache, requests, thread, objects, approved, minted, reviews, faults >>

MediaNext ==
    \/ \E f \in Features : TriggerDemo(f)
    \/ RecordTrigger \/ DispatchMedia \/ DispatchMediaFails \/ RunByHand \/ StartJob
    \/ \E s \in DOMAIN scripts : ApproveScript(s) \/ \E b \in Bodies : EditScript(s, b)
    \/ StepBreaks \/ ModelFails \/ JobDies \/ UploadFails
    \/ LoadApprovedDemoScript
    \/ In("generate_click_path_json") /\ \E p \in Paths(job.body) : GenerateClickPath(p)
    \/ ValidateClickPath \/ RunPlaywrightCapture \/ StoreRawRecording \/ GenerateNarration
    \/ AssembleVideo \/ StoreMedia \/ PersistMediaAsset \/ HandleBrokenStep

-----------------------------------------------------------------------------
(* Properties *)

\* A video in the dashboard shows and says what a reviewer approved: its script
\* was approved with the text that is its transcript, the recording and the
\* audio in S3 were made from that text, and the path that was driven keeps to
\* the actions, selectors and targets that are allowed, over retries, edits
\* between them, kept answers and failed uploads (the media graph; the row's
\* audit trail of media_nodes.persist_media_asset).
ReadyIsWhole ==
    \A a \in assets : a.status = "ready" =>
        /\ << a.script, a.transcript >> \in approved
        /\ a.path \in Paths(a.transcript) /\ a.path # << >>
        /\ \A i \in DOMAIN a.path :
              /\ a.path[i].action = "navigate" => a.path[i].target = "safe"
              /\ a.path[i].action # "navigate" => a.path[i].selector = "safe"
        /\ a.uri \in DOMAIN objects => objects[a.uri] = [path |-> a.path, text |-> a.transcript]
        /\ a.raw \in DOMAIN objects => objects[a.raw] = [path |-> a.path]
=============================================================================
