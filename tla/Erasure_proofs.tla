---------------------------- MODULE Erasure_proofs ----------------------------
(***************************************************************************)
(* Proofs about Erasure and the media jobs that run beside it, for any      *)
(* scripts, click paths, evidence and numbers of jobs, reviews, erasures    *)
(* and faults.                                                              *)
(*                                                                          *)
(* The video of a row was put together by nine steps.  JobInv says what the  *)
(* job and its uploads have in common after each of them, AssetsInv that a   *)
(* row keeps it when other jobs, reviewers and deletions go on.  SweptInv    *)
(* says of an erasure in progress that whatever is under a prefix it has     *)
(* verified was found by it or written since.                               *)
(***************************************************************************)
EXTENDS Erasure, TLAPS

-----------------------------------------------------------------------------
(* The inductive invariant *)

\* The steps a job may be at once it has loaded a script, answered, and so on.
Stored    == {"persist_media_asset"}
Assembled == {"store_media_s3"} \cup Stored
Narrated  == {"assemble_video_ffmpeg"} \cup Assembled
RawStored == {"generate_narration"} \cup Narrated
Captured  == {"store_raw_recording"} \cup RawStored
Validated == {"run_playwright_capture"} \cup Captured
Answered  == {"validate_click_path"} \cup Validated
Loaded    == {"generate_click_path_json"} \cup Answered

JobFields == {"at", "media", "attempt", "disk", "script", "body", "answer", "path",
              "recording", "narration", "video"}
ScriptFields == {"feature", "body", "status", "updated"}

MediaShape ==
    /\ run \in BOOLEAN
    /\ minted \in 0..MaxJobs
    /\ DOMAIN thread = {"requested", "failed", "raw"}
    /\ \A s \in DOMAIN scripts : DOMAIN scripts[s] = ScriptFields
    /\ \A s \in DOMAIN scripts : scripts[s].status = "approved" => << s, scripts[s].body >> \in approved
    /\ \A k \in DOMAIN cache : cache[k] \in Paths(k[2])

\* An object that is still there was made of content.
Made(key, content) == key \in DOMAIN objects => objects[key] = content

JobInv ==
    job # None =>
        /\ DOMAIN job = JobFields
        /\ job.at \in {"load_approved_demo_script", "handle_broken_step"} \cup Loaded
        /\ job.media \in 1..minted /\ \A a \in assets : a.media # job.media
        /\ \A a \in job.disk : a.hash = NarrationHash(a.text)
        /\ job.at \in Loaded => thread.failed = None /\ << job.script, job.body >> \in approved
        /\ job.at \in Answered => job.answer \in Paths(job.body)
        /\ job.at \in Validated => job.path \in Paths(job.body) /\ PathAllowed(job.path)
        /\ job.at \in Captured => job.recording = job.path
        /\ job.at \in RawStored =>
              thread.raw = RawKey(job.media) /\ Made(RawKey(job.media), [path |-> job.path])
        /\ job.at \in Narrated => job.narration.text = job.body
        /\ job.at \in Assembled => job.video = [path |-> job.path, text |-> job.body]
        /\ job.at \in Stored => Made(FinalKey(job.media), [path |-> job.path, text |-> job.body])

\* What a row of a video says, and its objects.
Whole(a) ==
    /\ << a.script, a.transcript >> \in approved
    /\ a.path \in Paths(a.transcript) /\ PathAllowed(a.path)
    /\ a.uri = FinalKey(a.media) /\ a.raw = RawKey(a.media)
    /\ Made(a.uri, [path |-> a.path, text |-> a.transcript])
    /\ Made(a.raw, [path |-> a.path])

AssetsInv ==
    /\ \A a \in assets : a.media \in 1..minted /\ a.status \in {"ready", "broken"}
    /\ \A a, b \in assets : a.media = b.media => a = b
    /\ \A a \in assets : a.status = "ready" => Whole(a)

ErasureFields == {"at", "n", "keys", "found", "since"}

Markers == {TriggerKey(f) : f \in triggers}

\* An erasure past its deletion of the rows has seen, or was told of, the
\* markers and whatever is under a prefix it has verified.
Known(k) == k \in erasure.since \cup erasure.found

SweptInv ==
    /\ \A k \in DOMAIN objects : k[1] \in {"evidence", "media"}
    /\ ~run => assets = {} /\ evidence = {} /\ DOMAIN scripts = {} /\ DOMAIN cache = {}
    /\ erasure # None =>
          /\ DOMAIN erasure = ErasureFields
          /\ erasure.at \in {"list", "delete", "rows", "count", "verify", "audit"}
          /\ erasure.n \in {1, 2}
          /\ erasure.at \in {"count", "verify", "audit"} => ~run /\ Markers \subseteq erasure.since
          /\ (erasure.at = "verify" /\ erasure.n = 2) \/ erasure.at = "audit" =>
                \A k \in DOMAIN objects : k[1] = "evidence" => Known(k)
          /\ erasure.at = "audit" => \A k \in DOMAIN objects : k[1] = "media" => Known(k)

AuditInv == audited => ~run /\ DOMAIN objects \cup Markers \subseteq late

IInv == MediaShape /\ JobInv /\ AssetsInv /\ SweptInv /\ AuditInv

-----------------------------------------------------------------------------
(* Keys, functions and the order of the steps *)

\* Two jobs never share a key, nor do a job's recording and its video.
LEMMA KeysDiffer ==
    ASSUME NEW m, NEW n
    PROVE  /\ RawKey(m) # FinalKey(n)
           /\ RawKey(m) = RawKey(n) => m = n
           /\ FinalKey(m) = FinalKey(n) => m = n
           /\ RawKey(m)[1] = "media" /\ FinalKey(m)[1] = "media"
BY DEF RawKey, FinalKey

\* The steps of the graph, in order.
LEMMA StepsAre ==
    /\ Len(Steps) = 9 /\ DOMAIN Steps = 1..9
    /\ Steps[1] = "load_approved_demo_script" /\ Steps[2] = "generate_click_path_json"
    /\ Steps[3] = "validate_click_path" /\ Steps[4] = "run_playwright_capture"
    /\ Steps[5] = "store_raw_recording" /\ Steps[6] = "generate_narration"
    /\ Steps[7] = "assemble_video_ffmpeg" /\ Steps[8] = "store_media_s3"
    /\ Steps[9] = "persist_media_asset"
BY DEF Steps

\* Each step is named once in Steps.
LEMMA StepOnce ==
    ASSUME NEW i \in 1..9, NEW j \in 1..9, Steps[i] = Steps[j]
    PROVE  i = j
BY StepsAre

\* What follows a step of a thread that no job has broken.
LEMMA FollowIs ==
    ASSUME NEW i \in 1..9, thread.failed = None
    PROVE  Follow(Steps[i]) = IF i = 9 THEN "end" ELSE Steps[i + 1]
<1>1. (CHOOSE n \in DOMAIN Steps : Steps[n] = Steps[i]) = i
  <2>1. i \in DOMAIN Steps
    BY StepsAre
  <2>2. \A n \in DOMAIN Steps : Steps[n] = Steps[i] => n = i
    BY StepsAre, StepOnce
  <2>. QED
    BY <2>1, <2>2
<1>. QED
  BY <1>1, StepsAre DEF Follow

\* A step that succeeds for a thread no job has broken goes to the next one.
LEMMA DoIs ==
    ASSUME NEW result, thread.failed = None
    PROVE
    /\ Do("load_approved_demo_script", result) => job' = [result EXCEPT !.at = "generate_click_path_json"]
    /\ Do("generate_click_path_json", result) => job' = [result EXCEPT !.at = "validate_click_path"]
    /\ Do("validate_click_path", result) => job' = [result EXCEPT !.at = "run_playwright_capture"]
    /\ Do("run_playwright_capture", result) => job' = [result EXCEPT !.at = "store_raw_recording"]
    /\ Do("store_raw_recording", result) => job' = [result EXCEPT !.at = "generate_narration"]
    /\ Do("generate_narration", result) => job' = [result EXCEPT !.at = "assemble_video_ffmpeg"]
    /\ Do("assemble_video_ffmpeg", result) => job' = [result EXCEPT !.at = "store_media_s3"]
    /\ Do("store_media_s3", result) => job' = [result EXCEPT !.at = "persist_media_asset"]
    /\ Do("persist_media_asset", result) => job' = None
<1>1. ASSUME NEW i \in 1..8
      PROVE  Do(Steps[i], result) => job' = [result EXCEPT !.at = Steps[i + 1]]
  <2>1. Follow(Steps[i]) = Steps[i + 1]
    BY FollowIs
  <2>2. Steps[i + 1] # "end"
    BY StepsAre
  <2>. QED
    BY <2>1, <2>2 DEF Do
<1>2. Do(Steps[9], result) => job' = None
  <2>1. Follow(Steps[9]) = "end"
    BY FollowIs
  <2>. QED
    BY <2>1 DEF Do
<1>3. Do(Steps[1], result) => job' = [result EXCEPT !.at = Steps[2]]
  BY <1>1, 1 \in 1..8, 1 + 1 = 2
<1>4. Do(Steps[2], result) => job' = [result EXCEPT !.at = Steps[3]]
  BY <1>1, 2 \in 1..8, 2 + 1 = 3
<1>5. Do(Steps[3], result) => job' = [result EXCEPT !.at = Steps[4]]
  BY <1>1, 3 \in 1..8, 3 + 1 = 4
<1>6. Do(Steps[4], result) => job' = [result EXCEPT !.at = Steps[5]]
  BY <1>1, 4 \in 1..8, 4 + 1 = 5
<1>7. Do(Steps[5], result) => job' = [result EXCEPT !.at = Steps[6]]
  BY <1>1, 5 \in 1..8, 5 + 1 = 6
<1>8. Do(Steps[6], result) => job' = [result EXCEPT !.at = Steps[7]]
  BY <1>1, 6 \in 1..8, 6 + 1 = 7
<1>9. Do(Steps[7], result) => job' = [result EXCEPT !.at = Steps[8]]
  BY <1>1, 7 \in 1..8, 7 + 1 = 8
<1>10. Do(Steps[8], result) => job' = [result EXCEPT !.at = Steps[9]]
  BY <1>1, 8 \in 1..8, 8 + 1 = 9
<1>. QED
  BY <1>2, <1>3, <1>4, <1>5, <1>6, <1>7, <1>8, <1>9, <1>10, StepsAre

-----------------------------------------------------------------------------
(* The initial states *)

LEMMA InitIInv ==
    ErasureInit => IInv
<1>. SUFFICES ASSUME ErasureInit PROVE IInv
  OBVIOUS
<1>. USE DEF ErasureInit, Init
<1>1. MediaShape
  BY MediaAssumption DEF MediaShape, ScriptFields
<1>2. JobInv
  BY DEF JobInv
<1>3. AssetsInv
  BY DEF AssetsInv
<1>4. SweptInv
  BY ErasureAssumption DEF SweptInv
<1>5. AuditInv
  BY DEF AuditInv
<1>. QED
  BY <1>1, <1>2, <1>3, <1>4, <1>5 DEF IInv

-----------------------------------------------------------------------------
(* The media jobs: rows of earlier jobs *)

\* A later job writes under its own keys: what an earlier row says stays true.
LEMMA RowsKeep ==
    ASSUME AssetsInv, NEW m, \A a \in assets : a.media # m,
           assets' = assets, approved \subseteq approved', minted' = minted \/ minted' = minted + 1,
           minted \in Nat,
           \/ objects' = objects
           \/ \E c : objects' = With(objects, RawKey(m), c)
           \/ \E c : objects' = With(objects, FinalKey(m), c)
    PROVE  AssetsInv'
<1>1. ASSUME NEW a \in assets, a.status = "ready"
      PROVE  Whole(a)'
  <2>1. Whole(a) /\ a.media # m
    BY <1>1 DEF AssetsInv
  <2>2. a.uri # RawKey(m) /\ a.uri # FinalKey(m) /\ a.raw # RawKey(m) /\ a.raw # FinalKey(m)
    BY <2>1, KeysDiffer DEF Whole
  <2>3. ASSUME NEW k, k # RawKey(m), k # FinalKey(m), k \in DOMAIN objects'
        PROVE  k \in DOMAIN objects /\ objects'[k] = objects[k]
    <3>1. ASSUME NEW key, NEW c, objects' = With(objects, key, c), k # key
          PROVE  k \in DOMAIN objects /\ objects'[k] = objects[k]
      BY <2>3, <3>1 DEF With
    <3>. QED
      BY <2>3, <3>1
  <2>. QED
    BY <2>1, <2>2, <2>3 DEF Whole, Made
<1>2. \A a \in assets' : a.media \in 1..minted' /\ a.status \in {"ready", "broken"}
  BY DEF AssetsInv
<1>. QED
  BY <1>1, <1>2 DEF AssetsInv

\* A job begins, or begins again, with nothing of its own.
LEMMA FreshJob ==
    ASSUME NEW m, NEW disk, NEW attempt, job' = Fresh(m, disk, attempt),
           m \in 1..minted', \A a \in assets' : a.media # m,
           \A a \in disk : a.hash = NarrationHash(a.text)
    PROVE  JobInv'
<1>1. /\ DOMAIN job' = JobFields /\ job'.at = "load_approved_demo_script"
      /\ job'.media = m /\ job'.disk = disk
  BY StepsAre DEF Fresh, JobFields
<1>. QED
  BY <1>1 DEF JobInv, Loaded, Answered, Validated, Captured, RawStored, Narrated, Assembled, Stored,
                NarrationHash

-----------------------------------------------------------------------------
(* The media jobs: one lemma per kind of step *)

MediaInv == MediaShape /\ JobInv /\ AssetsInv

\* The route, the queue and the reviewers leave the job alone; what was ever
\* approved stays approved.
LEMMA OutsideTheJob ==
    ASSUME MediaInv, MediaShape',
           UNCHANGED << job, cache, assets, objects, minted >>,
           job # None => thread' = thread, approved \subseteq approved'
    PROVE  MediaInv'
<1>1. JobInv'
  <2>. SUFFICES ASSUME job # None PROVE JobInv'
    BY DEF JobInv
  <2>. QED
    BY DEF MediaInv, JobInv, Made
<1>2. AssetsInv'
  BY DEF MediaInv, AssetsInv, Whole, Made
<1>. QED
  BY <1>1, <1>2 DEF MediaInv

\* The job stops: what it has written stays.
LEMMA JobStops ==
    ASSUME MediaInv, job' = None,
           UNCHANGED << stores, thread, objects, approved, minted >>
    PROVE  MediaInv'
<1>1. MediaShape' /\ AssetsInv'
  BY DEF MediaInv, MediaShape, AssetsInv, Whole, Made, stores
<1>2. JobInv'
  BY <1>1 DEF JobInv
<1>. QED
  BY <1>1, <1>2 DEF MediaInv

\* An error that a retry would not mend: the job and the thread go to the handler.
LEMMA BreakStep ==
    ASSUME MediaInv, job # None, Break,
           UNCHANGED << run, scripts, assets, objects, approved, minted >>,
           \A k \in DOMAIN cache' : cache'[k] \in Paths(k[2])
    PROVE  MediaInv'
<1>1. MediaShape'
  BY DEF MediaInv, MediaShape, Break
<1>2. /\ DOMAIN job' = JobFields /\ job'.at = "handle_broken_step"
      /\ job'.media = job.media /\ job'.disk = job.disk
  BY DEF MediaInv, JobInv, JobFields, Break
<1>3. JobInv'
  BY <1>2 DEF MediaInv, JobInv, Loaded, Answered, Validated, Captured, RawStored, Narrated,
                Assembled, Stored
<1>4. AssetsInv'
  BY DEF MediaInv, AssetsInv, Whole, Made
<1>. QED
  BY <1>1, <1>3, <1>4 DEF MediaInv

\* A retry of the graph, after a call or an upload that failed.
LEMMA ReenterStep ==
    ASSUME MediaInv, job # None, Reenter,
           UNCHANGED << stores, thread, approved, minted >>,
           \/ objects' = objects
           \/ \E c : objects' = With(objects, RawKey(job.media), c)
           \/ \E c : objects' = With(objects, FinalKey(job.media), c)
    PROVE  MediaInv'
<1>1. MediaShape'
  BY DEF MediaInv, MediaShape, stores
<1>2. AssetsInv'
  <2>1. minted \in Nat /\ \A a \in assets : a.media # job.media
    BY DEF MediaInv, JobInv, MediaShape
  <2>. QED
    BY <2>1, RowsKeep DEF MediaInv, stores
<1>3. JobInv'
  <2>1. CASE job' = None
    BY <2>1 DEF JobInv
  <2>2. CASE job' # None
    <3>1. job' = Fresh(job.media, job.disk, job.attempt + 1)
      BY <2>2 DEF Reenter
    <3>2. /\ job.media \in 1..minted' /\ \A a \in assets' : a.media # job.media
          /\ \A a \in job.disk : a.hash = NarrationHash(a.text)
      BY DEF MediaInv, JobInv, stores
    <3>. QED
      BY <3>1, <3>2, FreshJob
  <2>. QED
    BY <2>1, <2>2
<1>. QED
  BY <1>1, <1>2, <1>3 DEF MediaInv

\* A job starts with a number of its own: no row has it.
LEMMA StartJobStep ==
    ASSUME MediaInv, StartJob
    PROVE  MediaInv'
<1>. USE DEF StartJob, stores
<1>1. MediaShape'
  BY MediaAssumption DEF MediaInv, MediaShape
<1>2. AssetsInv'
  BY DEF MediaInv, MediaShape, AssetsInv, Whole, Made
<1>3. JobInv'
  <2>1. CASE ~run
    BY <2>1 DEF JobInv
  <2>2. CASE run
    <3>1. job' = Fresh(minted + 1, {}, 1) /\ minted \in Nat /\ minted' = minted + 1 /\ assets' = assets
      BY <2>2 DEF MediaInv, MediaShape
    <3>2. minted + 1 \in 1..minted' /\ \A a \in assets' : a.media # minted + 1
      BY <3>1 DEF MediaInv, AssetsInv
    <3>. QED
      BY <3>1, <3>2, FreshJob
  <2>. QED
    BY <2>1, <2>2
<1>. QED
  BY <1>1, <1>2, <1>3 DEF MediaInv

LEMMA ReviewStep ==
    ASSUME MediaInv, NEW s \in DOMAIN scripts, NEW row, DOMAIN row = ScriptFields, Review(s, row)
    PROVE  MediaInv'
<1>1. approved \subseteq approved' /\ (row.status = "approved" => << s, row.body >> \in approved')
  BY DEF Review
<1>2. scripts' = [scripts EXCEPT ![s] = row]
  BY DEF Review
<1>3. /\ \A t \in DOMAIN scripts' : DOMAIN scripts'[t] = ScriptFields
      /\ \A t \in DOMAIN scripts' :
            scripts'[t].status = "approved" => << t, scripts'[t].body >> \in approved'
  BY <1>1, <1>2 DEF MediaInv, MediaShape
<1>4. MediaShape'
  BY <1>3 DEF MediaInv, MediaShape, Review
<1>. QED
  BY <1>1, <1>4, OutsideTheJob DEF Review

LEMMA LoadStep ==
    ASSUME MediaInv, LoadApprovedDemoScript
    PROVE  MediaInv'
<1>. USE DEF LoadApprovedDemoScript, stores
<1>0. job # None /\ job.at = "load_approved_demo_script"
  BY DEF In
<1>1. CASE Eligible = {}
  BY <1>0, <1>1, BreakStep DEF MediaInv, MediaShape
<1>2. CASE Eligible # {}
  <2>1. PICK s \in Eligible : Do("load_approved_demo_script",
                                 [job EXCEPT !.script = s, !.body = scripts[s].body])
    BY <1>2
  <2>2. << s, scripts[s].body >> \in approved
    BY DEF Eligible, MediaInv, MediaShape
  <2>. UNCHANGED << stores, thread, objects, approved, minted >>
    BY <1>2
  <2>3. MediaShape' /\ AssetsInv'
    BY DEF MediaInv, MediaShape, AssetsInv, Whole, Made
  <2>4. CASE thread.failed # None
    <3>1. Follow("load_approved_demo_script") = "handle_broken_step"
      BY <2>4 DEF Follow
    <3>2. job' = [[job EXCEPT !.script = s, !.body = scripts[s].body] EXCEPT !.at = "handle_broken_step"]
      BY <2>1, <3>1 DEF Do
    <3>3. /\ DOMAIN job' = JobFields /\ job'.at = "handle_broken_step"
          /\ job'.media = job.media /\ job'.disk = job.disk
      BY <1>0, <3>2 DEF MediaInv, JobInv, JobFields
    <3>4. JobInv'
      BY <1>0, <3>3 DEF MediaInv, JobInv, Loaded, Answered, Validated, Captured, RawStored,
                        Narrated, Assembled, Stored
    <3>. QED
      BY <2>3, <3>4 DEF MediaInv
  <2>5. CASE thread.failed = None
    <3>1. job' = [[job EXCEPT !.script = s, !.body = scripts[s].body]
                     EXCEPT !.at = "generate_click_path_json"]
      BY <2>1, <2>5, DoIs
    <3>2. /\ DOMAIN job' = JobFields /\ job'.at = "generate_click_path_json"
          /\ job'.media = job.media /\ job'.disk = job.disk
          /\ job'.script = s /\ job'.body = scripts[s].body
      BY <1>0, <3>1 DEF MediaInv, JobInv, JobFields
    <3>3. JobInv'
      BY <1>0, <2>2, <2>5, <3>2 DEF MediaInv, JobInv, Loaded, Answered, Validated, Captured,
                        RawStored, Narrated, Assembled, Stored
    <3>. QED
      BY <2>3, <3>3 DEF MediaInv
  <2>. QED
    BY <2>4, <2>5
<1>. QED
  BY <1>1, <1>2

LEMMA AnswerStep ==
    ASSUME MediaInv, NEW answer, answer \in Paths(job.body), GenerateClickPath(answer)
    PROVE  MediaInv'
<1>. DEFINE key == ClickPathKey(job.script, job.body)
            path == IF key \in DOMAIN cache THEN cache[key] ELSE answer
<1>0. /\ job # None /\ job.at = "generate_click_path_json"
      /\ cache' = IF run THEN With(cache, key, path) ELSE cache
      /\ IF ~run \/ path = None THEN Break
         ELSE Do("generate_click_path_json", [job EXCEPT !.answer = path]) /\ UNCHANGED thread
      /\ UNCHANGED << run, scripts, assets, requests, objects, approved, minted, reviews, faults >>
  BY DEF GenerateClickPath, In
<1>1. path \in Paths(job.body)
  <2>1. key[2] = job.body
    BY DEF ClickPathKey
  <2>. QED
    BY <2>1 DEF MediaInv, MediaShape
<1>. HIDE DEF path
<1>2. \A k \in DOMAIN cache' : cache'[k] \in Paths(k[2])
  <2>1. key[2] = job.body
    BY DEF ClickPathKey
  <2>. HIDE DEF key
  <2>. QED
    BY <1>0, <1>1, <2>1 DEF MediaInv, MediaShape, With
<1>3. CASE ~run \/ path = None
  BY <1>0, <1>2, <1>3, BreakStep
<1>4. CASE ~(~run \/ path = None)
  <2>1. thread.failed = None
    BY <1>0 DEF MediaInv, JobInv, Loaded
  <2>2. job' = [[job EXCEPT !.answer = path] EXCEPT !.at = "validate_click_path"]
    BY <1>0, <1>4, <2>1, DoIs
  <2>3. /\ DOMAIN job' = JobFields /\ job'.at = "validate_click_path"
        /\ job'.media = job.media /\ job'.disk = job.disk
        /\ job'.script = job.script /\ job'.body = job.body /\ job'.answer = path
    BY <1>0, <2>2 DEF MediaInv, JobInv, JobFields
  <2>4. JobInv'
    BY <1>0, <1>1, <1>4, <2>1, <2>3 DEF MediaInv, JobInv, Loaded, Answered, Validated, Captured,
                      RawStored, Narrated, Assembled, Stored
  <2>5. MediaShape' /\ AssetsInv'
    BY <1>0, <1>2, <1>4 DEF MediaInv, MediaShape, AssetsInv, Whole, Made
  <2>. QED
    BY <2>4, <2>5 DEF MediaInv
<1>. QED
  BY <1>3, <1>4

\* A step that only moves the job on.
LEMMA RowsStay ==
    ASSUME MediaInv, UNCHANGED << stores, thread, objects, approved, minted >>
    PROVE  MediaShape' /\ AssetsInv'
BY DEF MediaInv, MediaShape, AssetsInv, Whole, Made, stores

LEMMA ValidateStep ==
    ASSUME MediaInv, ValidateClickPath
    PROVE  MediaInv'
<1>. USE DEF ValidateClickPath
<1>0. job # None /\ job.at = "validate_click_path" /\ thread.failed = None
  BY DEF In, MediaInv, JobInv, Loaded, Answered
<1>1. CASE ~PathAllowed(job.answer)
  BY <1>0, <1>1, BreakStep DEF MediaInv, MediaShape, stores
<1>2. CASE PathAllowed(job.answer)
  <2>1. job' = [[job EXCEPT !.path = job.answer] EXCEPT !.at = "run_playwright_capture"]
    BY <1>0, <1>2, DoIs
  <2>2. /\ DOMAIN job' = JobFields /\ job'.at = "run_playwright_capture"
        /\ job'.media = job.media /\ job'.disk = job.disk
        /\ job'.script = job.script /\ job'.body = job.body
        /\ job'.answer = job.answer /\ job'.path = job.answer
    BY <1>0, <2>1 DEF MediaInv, JobInv, JobFields
  <2>3. JobInv'
    BY <1>0, <1>2, <2>2 DEF MediaInv, JobInv, Loaded, Answered, Validated, Captured,
                      RawStored, Narrated, Assembled, Stored, stores
  <2>. QED
    BY <1>2, <2>3, RowsStay DEF MediaInv
<1>. QED
  BY <1>1, <1>2

LEMMA CaptureStep ==
    ASSUME MediaInv, RunPlaywrightCapture
    PROVE  MediaInv'
<1>. USE DEF RunPlaywrightCapture
<1>0. job # None /\ job.at = "run_playwright_capture" /\ thread.failed = None
  BY DEF In, MediaInv, JobInv, Loaded, Answered, Validated
<1>1. job' = [[job EXCEPT !.recording = job.path] EXCEPT !.at = "store_raw_recording"]
  BY <1>0, DoIs
<1>2. /\ DOMAIN job' = JobFields /\ job'.at = "store_raw_recording"
      /\ job'.media = job.media /\ job'.disk = job.disk
      /\ job'.script = job.script /\ job'.body = job.body /\ job'.answer = job.answer
      /\ job'.path = job.path /\ job'.recording = job.path
  BY <1>0, <1>1 DEF MediaInv, JobInv, JobFields
<1>3. JobInv'
  BY <1>0, <1>2 DEF MediaInv, JobInv, Loaded, Answered, Validated, Captured,
                    RawStored, Narrated, Assembled, Stored, stores
<1>. QED
  BY <1>3, RowsStay DEF MediaInv

\* An upload under a key of the job itself.
LEMMA UploadStays ==
    ASSUME MediaInv, job # None, UNCHANGED << stores, approved, minted >>,
           DOMAIN thread' = DOMAIN thread,
           NEW content,
           \/ objects' = With(objects, RawKey(job.media), content)
           \/ objects' = With(objects, FinalKey(job.media), content)
    PROVE  MediaShape' /\ AssetsInv'
<1>1. minted \in Nat /\ \A a \in assets : a.media # job.media
  BY DEF MediaInv, JobInv, MediaShape
<1>2. \/ objects' = objects
      \/ \E c : objects' = With(objects, RawKey(job.media), c)
      \/ \E c : objects' = With(objects, FinalKey(job.media), c)
  OBVIOUS
<1>3. AssetsInv'
  <2>1. assets' = assets /\ approved \subseteq approved' /\ minted' = minted /\ AssetsInv
    BY DEF MediaInv, stores
  <2>. QED
    BY <1>1, <1>2, <2>1, RowsKeep
<1>. QED
  BY <1>3 DEF MediaInv, MediaShape, stores

LEMMA StoreRawStep ==
    ASSUME MediaInv, StoreRawRecording
    PROVE  MediaInv'
<1>. USE DEF StoreRawRecording
<1>0. job # None /\ job.at = "store_raw_recording" /\ thread.failed = None
  BY DEF In, MediaInv, JobInv, Loaded, Answered, Validated, Captured
<1>1. job' = [job EXCEPT !.at = "generate_narration"]
  BY <1>0, DoIs
<1>2. /\ DOMAIN job' = JobFields /\ job'.at = "generate_narration"
      /\ job'.media = job.media /\ job'.disk = job.disk
      /\ job'.script = job.script /\ job'.body = job.body /\ job'.answer = job.answer
      /\ job'.path = job.path /\ job'.recording = job.recording
  BY <1>0, <1>1 DEF MediaInv, JobInv, JobFields
<1>3. thread'.raw = RawKey(job.media) /\ thread'.failed = None /\ DOMAIN thread' = DOMAIN thread
  BY <1>0 DEF MediaInv, MediaShape
<1>4. objects'[RawKey(job.media)] = [path |-> job.path]
  <2>1. job.recording = job.path
    BY <1>0 DEF MediaInv, JobInv, Captured
  <2>. QED
    BY <2>1 DEF Put, With
<1>5. MediaShape' /\ AssetsInv'
  BY <1>0, <1>3, UploadStays DEF Put
<1>6. JobInv'
  BY <1>0, <1>2, <1>3, <1>4 DEF MediaInv, JobInv, Made, Loaded, Answered, Validated, Captured,
                    RawStored, Narrated, Assembled, Stored, stores
<1>. QED
  BY <1>5, <1>6 DEF MediaInv

LEMMA NarrationStep ==
    ASSUME MediaInv, GenerateNarration
    PROVE  MediaInv'
<1>. DEFINE hash == NarrationHash(job.body)
            audio == IF \E a \in job.disk : a.hash = hash
                     THEN CHOOSE a \in job.disk : a.hash = hash
                     ELSE [hash |-> hash, text |-> job.body]
<1>0. /\ job # None /\ job.at = "generate_narration" /\ thread.failed = None
      /\ Do("generate_narration", [job EXCEPT !.narration = audio, !.disk = @ \cup {audio}])
      /\ UNCHANGED << stores, thread, objects, approved, minted >>
  BY DEF GenerateNarration, In, MediaInv, JobInv, Loaded, Answered, Validated, Captured, RawStored
<1>1. audio.hash = NarrationHash(audio.text) /\ audio.text = job.body
  <2>1. CASE \E a \in job.disk : a.hash = hash
    <3>1. audio \in job.disk /\ audio.hash = hash
      BY <2>1
    <3>2. audio.hash = NarrationHash(audio.text)
      BY <1>0, <3>1 DEF MediaInv, JobInv
    <3>. QED
      BY <3>1, <3>2 DEF NarrationHash
  <2>2. CASE ~\E a \in job.disk : a.hash = hash
    BY <2>2
  <2>. QED
    BY <2>1, <2>2
<1>. HIDE DEF audio
<1>2. job' = [[job EXCEPT !.narration = audio, !.disk = @ \cup {audio}] EXCEPT !.at = "assemble_video_ffmpeg"]
  BY <1>0, DoIs
<1>3. /\ DOMAIN job' = JobFields /\ job'.at = "assemble_video_ffmpeg"
      /\ job'.media = job.media /\ job'.disk = job.disk \cup {audio}
      /\ job'.script = job.script /\ job'.body = job.body /\ job'.answer = job.answer
      /\ job'.path = job.path /\ job'.recording = job.recording /\ job'.narration = audio
  BY <1>0, <1>2 DEF MediaInv, JobInv, JobFields
<1>4. JobInv'
  BY <1>0, <1>1, <1>3 DEF MediaInv, JobInv, Made, Loaded, Answered, Validated, Captured,
                    RawStored, Narrated, Assembled, Stored, stores
<1>. QED
  BY <1>0, <1>4, RowsStay DEF MediaInv

LEMMA AssembleStep ==
    ASSUME MediaInv, AssembleVideo
    PROVE  MediaInv'
<1>. USE DEF AssembleVideo
<1>0. job # None /\ job.at = "assemble_video_ffmpeg" /\ thread.failed = None
  BY DEF In, MediaInv, JobInv, Loaded, Answered, Validated, Captured, RawStored, Narrated
<1>1. job' = [[job EXCEPT !.video = [path |-> job.recording, text |-> job.narration.text]]
                 EXCEPT !.at = "store_media_s3"]
  BY <1>0, DoIs
<1>2. job.recording = job.path /\ job.narration.text = job.body
  BY <1>0 DEF MediaInv, JobInv, Captured, RawStored, Narrated
<1>3. /\ DOMAIN job' = JobFields /\ job'.at = "store_media_s3"
      /\ job'.media = job.media /\ job'.disk = job.disk
      /\ job'.script = job.script /\ job'.body = job.body /\ job'.answer = job.answer
      /\ job'.path = job.path /\ job'.recording = job.recording /\ job'.narration = job.narration
      /\ job'.video = [path |-> job.path, text |-> job.body]
  BY <1>0, <1>1, <1>2 DEF MediaInv, JobInv, JobFields
<1>4. JobInv'
  BY <1>0, <1>3 DEF MediaInv, JobInv, Made, Loaded, Answered, Validated, Captured,
                    RawStored, Narrated, Assembled, Stored, stores
<1>. QED
  BY <1>4, RowsStay DEF MediaInv

LEMMA StoreMediaStep ==
    ASSUME MediaInv, StoreMedia
    PROVE  MediaInv'
<1>. USE DEF StoreMedia
<1>0. job # None /\ job.at = "store_media_s3" /\ thread.failed = None
  BY DEF In, MediaInv, JobInv, Loaded, Answered, Validated, Captured, RawStored, Narrated, Assembled
<1>1. job' = [job EXCEPT !.at = "persist_media_asset"]
  BY <1>0, DoIs
<1>2. /\ DOMAIN job' = JobFields /\ job'.at = "persist_media_asset"
      /\ job'.media = job.media /\ job'.disk = job.disk
      /\ job'.script = job.script /\ job'.body = job.body /\ job'.answer = job.answer
      /\ job'.path = job.path /\ job'.recording = job.recording /\ job'.narration = job.narration
      /\ job'.video = job.video
  BY <1>0, <1>1 DEF MediaInv, JobInv, JobFields
<1>3. /\ objects'[FinalKey(job.media)] = [path |-> job.path, text |-> job.body]
      /\ Made(RawKey(job.media), [path |-> job.path])'
  <2>1. job.video = [path |-> job.path, text |-> job.body] /\ Made(RawKey(job.media), [path |-> job.path])
    BY <1>0 DEF MediaInv, JobInv, RawStored, Narrated, Assembled
  <2>2. RawKey(job.media) # FinalKey(job.media)
    BY KeysDiffer
  <2>3. objects' = With(objects, FinalKey(job.media), job.video)
    BY DEF Put
  <2>4. objects'[FinalKey(job.media)] = job.video
    BY <2>3 DEF With
  <2>5. RawKey(job.media) \in DOMAIN objects' => objects'[RawKey(job.media)] = [path |-> job.path]
    BY <2>1, <2>2, <2>3 DEF Made, With
  <2>. QED
    BY <1>2, <2>1, <2>4, <2>5 DEF Made
<1>4. MediaShape' /\ AssetsInv'
  BY <1>0, UploadStays DEF Put
<1>5. JobInv'
  BY <1>0, <1>2, <1>3 DEF MediaInv, JobInv, Made, Loaded, Answered, Validated, Captured,
                    RawStored, Narrated, Assembled, Stored, stores
<1>. QED
  BY <1>4, <1>5 DEF MediaInv

\* A row of the job: it is the first, and if it is of a video it is whole.
LEMMA RowAdded ==
    ASSUME MediaInv, job # None, NEW row,
           row.media = job.media, row.status \in {"ready", "broken"},
           row.status = "ready" => Whole(row),
           assets' = assets \cup {row}, job' = None,
           UNCHANGED << run, scripts, cache, thread, objects, approved, minted >>
    PROVE  MediaInv'
<1>1. job.media \in 1..minted /\ \A a \in assets : a.media # job.media
  BY DEF MediaInv, JobInv
<1>2. \A a \in assets' : a \in assets \/ a = row
  OBVIOUS
<1>3. AssetsInv'
  <2>1. \A a \in assets' : a.media \in 1..minted' /\ a.status \in {"ready", "broken"}
    BY <1>1, <1>2 DEF MediaInv, AssetsInv
  <2>2. \A a, b \in assets' : a.media = b.media => a = b
    BY <1>1, <1>2 DEF MediaInv, AssetsInv
  <2>3. \A a \in assets' : a.status = "ready" => Whole(a)
    BY <1>2 DEF MediaInv, AssetsInv
  <2>4. \A a \in assets' : Whole(a) => Whole(a)'
    BY DEF Whole, Made
  <2>. QED
    BY <2>1, <2>2, <2>3, <2>4 DEF AssetsInv
<1>4. MediaShape'
  BY DEF MediaInv, MediaShape
<1>. QED
  BY <1>3, <1>4 DEF MediaInv, JobInv

LEMMA PersistStep ==
    ASSUME MediaInv, PersistMediaAsset
    PROVE  MediaInv'
<1>. USE DEF PersistMediaAsset
<1>. DEFINE row == Asset("ready", FinalKey(job.media), job.body)
<1>0. job # None /\ job.at = "persist_media_asset" /\ thread.failed = None
  BY DEF In, MediaInv, JobInv, Loaded, Answered, Validated, Captured, RawStored, Narrated,
         Assembled, Stored
<1>1. CASE ~run
  BY <1>0, <1>1, BreakStep DEF MediaInv, MediaShape
<1>2. CASE run
  <2>1. job' = None /\ assets' = assets \cup {row}
    BY <1>0, <1>2, DoIs
  <2>2. /\ row.media = job.media /\ row.status = "ready" /\ row.script = job.script
        /\ row.uri = FinalKey(job.media) /\ row.raw = thread.raw /\ row.path = job.path
        /\ row.transcript = job.body
    BY DEF Asset
  <2>. HIDE DEF row
  <2>3. Whole(row)
    BY <1>0, <2>2 DEF MediaInv, JobInv, Whole, Loaded, Answered, Validated, Captured, RawStored,
                      Narrated, Assembled, Stored
  <2>. QED
    BY <1>0, <1>2, <2>1, <2>2, <2>3, RowAdded
<1>. QED
  BY <1>1, <1>2

LEMMA BrokenStep ==
    ASSUME MediaInv, HandleBrokenStep
    PROVE  MediaInv'
<1>. USE DEF HandleBrokenStep
<1>. DEFINE row == Asset("broken", thread.raw, IF job.narration = None THEN None ELSE job.body)
<1>0. job # None
  BY DEF In
<1>1. CASE ~run
  BY <1>1, JobStops DEF stores
<1>2. CASE run
  <2>1. row.media = job.media /\ row.status = "broken" /\ assets' = assets \cup {row}
    BY <1>2 DEF Asset
  <2>. HIDE DEF row
  <2>. QED
    BY <1>0, <1>2, <2>1, RowAdded
<1>. QED
  BY <1>1, <1>2

LEMMA MediaNextInv ==
    ASSUME MediaInv, MediaNext
    PROVE  MediaInv'
<1>1. CASE \/ \E f \in Features : TriggerDemo(f)
           \/ RecordTrigger \/ DispatchMedia \/ DispatchMediaFails \/ RunByHand
  <2>1. UNCHANGED << stores, job, thread, objects, approved, minted >>
    BY <1>1 DEF TriggerDemo, RecordTrigger, DispatchMedia, DispatchMediaFails, RunByHand, Fault
  <2>2. MediaShape'
    BY <2>1, RowsStay
  <2>. QED
    BY <2>1, <2>2, OutsideTheJob DEF stores
<1>2. CASE StartJob
  BY <1>2, StartJobStep
<1>3. CASE \E s \in DOMAIN scripts : ApproveScript(s) \/ \E b \in Bodies : EditScript(s, b)
  <2>1. PICK s \in DOMAIN scripts : ApproveScript(s) \/ \E b \in Bodies : EditScript(s, b)
    BY <1>3
  <2>2. DOMAIN scripts[s] = ScriptFields
    BY DEF MediaInv, MediaShape
  <2>3. CASE ApproveScript(s)
    <3>. DEFINE row == [scripts[s] EXCEPT !.status = "approved", !.updated = Newest + 1]
    <3>1. DOMAIN row = ScriptFields /\ Review(s, row)
      BY <2>2, <2>3 DEF ApproveScript
    <3>. HIDE DEF row
    <3>. QED
      BY <3>1, ReviewStep
  <2>4. ASSUME NEW b \in Bodies, EditScript(s, b)
        PROVE  MediaInv'
    <3>. DEFINE row == [scripts[s] EXCEPT !.body = b, !.status = "edited", !.updated = Newest + 1]
    <3>1. DOMAIN row = ScriptFields /\ Review(s, row)
      BY <2>2, <2>4 DEF EditScript
    <3>. HIDE DEF row
    <3>. QED
      BY <3>1, ReviewStep
  <2>. QED
    BY <2>1, <2>3, <2>4
<1>4. CASE StepBreaks
  BY <1>4, BreakStep DEF StepBreaks, MediaInv, MediaShape, stores
<1>5. CASE ModelFails
  BY <1>5, ReenterStep DEF ModelFails, In
<1>6. CASE JobDies
  BY <1>6, JobStops DEF JobDies
<1>7. CASE UploadFails
  <2>1. /\ job # None /\ Reenter
        /\ UNCHANGED << stores, thread, approved, minted >>
        /\ \/ objects' = objects
           \/ \E c : objects' = With(objects, RawKey(job.media), c)
           \/ \E c : objects' = With(objects, FinalKey(job.media), c)
    BY <1>7 DEF UploadFails, In, Put
  <2>. QED
    BY <2>1, ReenterStep
<1>8. CASE LoadApprovedDemoScript
  BY <1>8, LoadStep
<1>9. CASE In("generate_click_path_json") /\ \E p \in Paths(job.body) : GenerateClickPath(p)
  BY <1>9, AnswerStep
<1>10. CASE ValidateClickPath
  BY <1>10, ValidateStep
<1>11. CASE RunPlaywrightCapture
  BY <1>11, CaptureStep
<1>12. CASE StoreRawRecording
  BY <1>12, StoreRawStep
<1>13. CASE GenerateNarration
  BY <1>13, NarrationStep
<1>14. CASE AssembleVideo
  BY <1>14, AssembleStep
<1>15. CASE StoreMedia
  BY <1>15, StoreMediaStep
<1>16. CASE PersistMediaAsset
  BY <1>16, PersistStep
<1>17. CASE HandleBrokenStep
  BY <1>17, BrokenStep
<1>. QED
  BY <1>1, <1>2, <1>3, <1>4, <1>5, <1>6, <1>7, <1>8, <1>9, <1>10, <1>11, <1>12, <1>13, <1>14,
     <1>15, <1>16, <1>17 DEF MediaNext

\* The jobs leave the row of the run alone, find nothing to write to without
\* it but the markers, and put what they upload under "media".
LEMMA MediaWrites ==
    ASSUME MediaInv, MediaNext
    PROVE  /\ run' = run
           /\ ~run => assets' = assets /\ DOMAIN scripts' = DOMAIN scripts /\ cache' = cache
           /\ \A k \in DOMAIN objects' : k \in DOMAIN objects \/ k[1] = "media"
<1>1. CASE \/ \E f \in Features : TriggerDemo(f)
           \/ RecordTrigger \/ DispatchMedia \/ DispatchMediaFails \/ RunByHand \/ StartJob
           \/ StepBreaks \/ ModelFails \/ JobDies \/ LoadApprovedDemoScript
           \/ ValidateClickPath \/ RunPlaywrightCapture \/ GenerateNarration \/ AssembleVideo
  BY <1>1 DEF TriggerDemo, RecordTrigger, DispatchMedia, DispatchMediaFails, RunByHand, StartJob,
              StepBreaks, ModelFails, JobDies, LoadApprovedDemoScript, ValidateClickPath,
              RunPlaywrightCapture, GenerateNarration, AssembleVideo, stores
<1>2. CASE \E s \in DOMAIN scripts : ApproveScript(s) \/ \E b \in Bodies : EditScript(s, b)
  BY <1>2 DEF ApproveScript, EditScript, Review
<1>3. CASE In("generate_click_path_json") /\ \E p \in Paths(job.body) : GenerateClickPath(p)
  BY <1>3 DEF GenerateClickPath
<1>4. CASE PersistMediaAsset \/ HandleBrokenStep
  BY <1>4 DEF PersistMediaAsset, HandleBrokenStep
<1>5. CASE StoreRawRecording \/ StoreMedia \/ UploadFails
  <2>1. run' = run /\ assets' = assets /\ scripts' = scripts /\ cache' = cache
    BY <1>5 DEF StoreRawRecording, StoreMedia, UploadFails, stores
  <2>2. \/ objects' = objects
        \/ \E c : objects' = With(objects, RawKey(job.media), c)
        \/ \E c : objects' = With(objects, FinalKey(job.media), c)
    BY <1>5 DEF StoreRawRecording, StoreMedia, UploadFails, Put
  <2>3. ASSUME NEW key, NEW c, objects' = With(objects, key, c), key[1] = "media"
        PROVE  \A k \in DOMAIN objects' : k \in DOMAIN objects \/ k[1] = "media"
    BY <2>3 DEF With
  <2>. QED
    BY <2>1, <2>2, <2>3, KeysDiffer
<1>. QED
  BY <1>1, <1>2, <1>3, <1>4, <1>5 DEF MediaNext

-----------------------------------------------------------------------------
(* The steps of an erasure and of a sweep *)

\* A deletion takes rows and objects away under a job, and changes none.
LEMMA Deletion ==
    ASSUME MediaInv,
           UNCHANGED << job, thread, approved, minted >>,
           run' \in BOOLEAN, scripts' = scripts \/ DOMAIN scripts' = {},
           cache' = cache \/ DOMAIN cache' = {}, assets' \subseteq assets,
           \A k \in DOMAIN objects' : k \in DOMAIN objects /\ objects'[k] = objects[k]
    PROVE  MediaInv'
<1>1. MediaShape'
  BY DEF MediaInv, MediaShape
<1>2. JobInv'
  <2>. SUFFICES ASSUME job # None PROVE JobInv'
    BY DEF JobInv
  <2>. QED
    BY DEF MediaInv, JobInv, Made
<1>3. AssetsInv'
  BY DEF MediaInv, AssetsInv, Whole, Made
<1>. QED
  BY <1>1, <1>2, <1>3 DEF MediaInv

\* An erasure that is not past the rows has nothing to answer for.
LEMMA BeforeTheRows ==
    ASSUME SweptInv, UNCHANGED << run, assets, evidence, scripts, cache >>,
           \A k \in DOMAIN objects' : k \in DOMAIN objects,
           erasure' # None => /\ DOMAIN erasure' = ErasureFields
                              /\ erasure'.at \in {"list", "delete", "rows"} /\ erasure'.n \in {1, 2}
    PROVE  SweptInv'
BY DEF SweptInv, ErasureFields

\* The books of an erasure are as good when objects go.
LEMMA ObjectsGo ==
    ASSUME SweptInv, UNCHANGED << run, assets, scripts, cache, triggers, erasure >>,
           evidence' \subseteq evidence,
           \A k \in DOMAIN objects' : k \in DOMAIN objects
    PROVE  SweptInv'
BY DEF SweptInv, Known, Markers

LEMMA AuditStays ==
    ASSUME AuditInv, UNCHANGED << run, triggers, audited, late >>,
           \A k \in DOMAIN objects' : k \in DOMAIN objects
    PROVE  AuditInv'
BY DEF AuditInv, Markers

\* Which step comes after some keys of a prefix.
LEMMA DeletingIs ==
    ASSUME NEW keys, erasure # None, DOMAIN erasure = ErasureFields, erasure.n \in {1, 2}
    PROVE  /\ DOMAIN Deleting(keys) = ErasureFields
           /\ Deleting(keys).at \in {"list", "delete", "rows"}
           /\ Deleting(keys).n \in {1, 2}
<1>1. Len(RunPrefixes) = 2
  BY DEF RunPrefixes
<1>. QED
  BY <1>1 DEF Deleting, ErasureFields

LEMMA DeleteRowsStep ==
    ASSUME SweptInv, AuditInv, DeleteRunRows
    PROVE  SweptInv' /\ AuditInv'
<1>. USE DEF DeleteRunRows, Erasing
<1>1. /\ DOMAIN erasure' = ErasureFields /\ erasure'.at = "count" /\ erasure'.n \in {1, 2}
      /\ erasure'.since = IF run THEN {} ELSE Markers
  BY DEF SweptInv, ErasureFields, Markers
<1>2. Markers' = IF run THEN {} ELSE Markers
  BY DEF Markers, ApprovalsLeft
<1>3. SweptInv'
  BY <1>1, <1>2 DEF SweptInv
<1>4. AuditInv'
  BY <1>2 DEF AuditInv
<1>. QED
  BY <1>3, <1>4

LEMMA CountStep ==
    ASSUME SweptInv, AuditInv, CountRunRows
    PROVE  SweptInv' /\ AuditInv'
<1>. USE DEF CountRunRows, Erasing, mediaVars, stores, requests
<1>1. AuditInv'
  BY DEF AuditInv, Markers
<1>2. CASE erasure' = None
  <2>1. UNCHANGED << run, assets, evidence, scripts, cache, objects >>
    OBVIOUS
  <2>. QED
    BY <1>1, <1>2, <2>1 DEF SweptInv
<1>3. CASE erasure' # None
  <2>1. /\ DOMAIN erasure' = ErasureFields /\ erasure'.at = "verify" /\ erasure'.n = 1
        /\ erasure'.since = erasure.since
    BY <1>3 DEF SweptInv, ErasureFields
  <2>. QED
    BY <1>1, <2>1 DEF SweptInv, Markers
<1>. QED
  BY <1>1, <1>2, <1>3

\* What was under the prefix is found; what is known of the other one stays so.
LEMMA VerifyStep ==
    ASSUME SweptInv, AuditInv, VerifyPrefix
    PROVE  SweptInv' /\ AuditInv'
<1>. USE DEF VerifyPrefix, Erasing, mediaVars, stores, requests
<1>0. erasure # None /\ erasure.at = "verify"
  OBVIOUS
<1>1. AuditInv'
  BY DEF AuditInv, Markers
<1>2. \A f : TriggerKey(f)[1] = "approval"
  BY DEF TriggerKey
<1>3. CASE erasure.n = 1
  <2>1. /\ DOMAIN erasure' = ErasureFields /\ erasure'.at = "verify" /\ erasure'.n = 2
        /\ erasure'.found = erasure.found \cup KeysUnder("evidence")
        /\ erasure'.since = {k \in erasure.since : k[1] # "evidence"}
    BY <1>3 DEF SweptInv, ErasureFields, RunPrefixes
  <2>2. Markers' \subseteq erasure'.since
    BY <1>2, <2>1 DEF SweptInv, Markers
  <2>3. \A k \in DOMAIN objects' : k[1] = "evidence" => Known(k)'
    BY <2>1 DEF Known, KeysUnder
  <2>. QED
    BY <1>0, <1>1, <2>1, <2>2, <2>3 DEF SweptInv
<1>4. CASE erasure.n = 2
  <2>1. /\ DOMAIN erasure' = ErasureFields /\ erasure'.at = "audit" /\ erasure'.n = 2
        /\ erasure'.found = erasure.found \cup KeysUnder("media")
        /\ erasure'.since = {k \in erasure.since : k[1] # "media"}
    BY <1>4 DEF SweptInv, ErasureFields, RunPrefixes
  <2>2. Markers' \subseteq erasure'.since
    BY <1>2, <2>1 DEF SweptInv, Markers
  <2>3. \A k \in DOMAIN objects' : k[1] \in {"evidence", "media"} => Known(k)'
    BY <1>0, <1>4, <2>1 DEF SweptInv, Known, KeysUnder
  <2>. QED
    BY <1>0, <1>1, <2>1, <2>2, <2>3 DEF SweptInv
<1>. QED
  BY <1>0, <1>3, <1>4 DEF SweptInv

\* Nothing was found, so whatever is left was written since.
LEMMA RecordStep ==
    ASSUME SweptInv, AuditInv, RecordAudit
    PROVE  SweptInv' /\ AuditInv'
<1>. USE DEF RecordAudit, Erasing, mediaVars, stores, requests
<1>1. SweptInv'
  BY BeforeTheRows
<1>2. CASE erasure.found # {}
  BY <1>1, <1>2 DEF AuditInv, Markers
<1>3. CASE erasure.found = {}
  <2>1. erasure # None /\ erasure.at = "audit" /\ audited' = TRUE /\ late' = erasure.since
    BY <1>3
  <2>2. ~run /\ Markers \subseteq erasure.since
    BY <2>1 DEF SweptInv
  <2>3. \A k \in DOMAIN objects : k \in erasure.since
    BY <1>3, <2>1 DEF SweptInv, Known
  <2>4. run' = run /\ objects' = objects /\ Markers' = Markers
    BY DEF Markers
  <2>. QED
    BY <1>1, <2>1, <2>2, <2>3, <2>4 DEF AuditInv
<1>. QED
  BY <1>2, <1>3, <1>1

LEMMA MediaStepKeeps ==
    ASSUME MediaInv, SweptInv, AuditInv, MediaStep
    PROVE  SweptInv' /\ AuditInv'
<1>0. /\ run' = run
      /\ ~run => assets' = assets /\ DOMAIN scripts' = DOMAIN scripts /\ cache' = cache
      /\ \A k \in DOMAIN objects' : k \in DOMAIN objects \/ k[1] = "media"
  BY MediaWrites DEF MediaStep
<1>1. DOMAIN objects' \subseteq DOMAIN objects \cup Written /\ Markers' \subseteq Markers \cup Written
  BY DEF Written, Markers
<1>2. AuditInv'
  BY <1>0, <1>1 DEF AuditInv, MediaStep
<1>3. CASE erasure # None /\ erasure.at \in {"count", "verify", "audit"}
  <2>1. /\ DOMAIN erasure' = ErasureFields /\ erasure'.at = erasure.at /\ erasure'.n = erasure.n
        /\ erasure'.found = erasure.found /\ erasure'.since = erasure.since \cup Written
    BY <1>3 DEF MediaStep, SweptInv, ErasureFields
  <2>2. \A k : Known(k) \/ k \in Written => Known(k)'
    BY <2>1 DEF Known
  <2>3. Markers' \subseteq erasure'.since
    BY <1>1, <1>3, <2>1 DEF SweptInv
  <2>. HIDE DEF Known
  <2>. QED
    BY <1>0, <1>1, <1>2, <1>3, <2>1, <2>2, <2>3 DEF SweptInv, MediaStep
<1>4. CASE ~(erasure # None /\ erasure.at \in {"count", "verify", "audit"})
  BY <1>0, <1>2, <1>4 DEF SweptInv, MediaStep
<1>. QED
  BY <1>3, <1>4

-----------------------------------------------------------------------------
(* The invariant is inductive *)

\* Deletions, seen from the media jobs.
LEMMA ErasureLeavesJobs ==
    ASSUME MediaInv, SweptInv,
           \/ StartErasure \/ ListObjects \/ DeleteRunRows \/ CountRunRows
           \/ VerifyPrefix \/ RecordAudit \/ KillErasure
           \/ \E k : DeleteObject(k)
           \/ \E expired : StartSweep(expired)
           \/ \E e : SweepBlob(e)
           \/ SweepRow \/ KillSweep
    PROVE  MediaInv'
<1>. USE DEF mediaVars, stores, requests
<1>1. CASE DeleteRunRows
  <2>1. run' = FALSE /\ scripts' = << >> /\ cache' = << >> /\ assets' = {}
    BY <1>1 DEF DeleteRunRows
  <2>2. DOMAIN scripts' = {} /\ DOMAIN cache' = {} /\ assets' \subseteq assets
    BY <2>1
  <2>3. UNCHANGED << job, thread, approved, minted, objects >>
    BY <1>1 DEF DeleteRunRows
  <2>. QED
    BY <2>1, <2>2, <2>3, Deletion
<1>2. CASE (\E k : DeleteObject(k)) \/ (\E e : SweepBlob(e))
  <2>1. PICK keys : objects' = Without(keys)
    BY <1>2 DEF DeleteObject, SweepBlob
  <2>2. \A k \in DOMAIN objects' : k \in DOMAIN objects /\ objects'[k] = objects[k]
    BY <2>1 DEF Without
  <2>3. UNCHANGED << run, scripts, cache, assets, job, thread, approved, minted >>
    BY <1>2 DEF DeleteObject, SweepBlob
  <2>. QED
    BY <2>2, <2>3, Deletion DEF MediaInv, MediaShape
<1>3. CASE \/ StartErasure \/ ListObjects \/ CountRunRows \/ VerifyPrefix \/ RecordAudit
           \/ KillErasure \/ (\E expired : StartSweep(expired)) \/ SweepRow \/ KillSweep
  <2>1. UNCHANGED << stores, job, thread, objects, approved, minted >>
    BY <1>3 DEF StartErasure, ListObjects, CountRunRows, VerifyPrefix, RecordAudit, KillErasure,
                StartSweep, SweepRow, KillSweep, Fault
  <2>. QED
    BY <2>1, Deletion DEF MediaInv, MediaShape
<1>. QED
  BY <1>1, <1>2, <1>3

LEMMA Inductive ==
    ASSUME IInv, [Next]_vars
    PROVE  IInv'
<1>. MediaInv /\ SweptInv /\ AuditInv
  BY DEF IInv, MediaInv
<1>. SUFFICES MediaInv' /\ SweptInv' /\ AuditInv'
  BY DEF IInv, MediaInv
<1>1. CASE UNCHANGED vars
  BY <1>1 DEF vars, mediaVars, erasureVars, stores, requests, MediaInv, MediaShape, JobInv, AssetsInv,
              Whole, Made, SweptInv, Known, Markers, AuditInv
<1>2. CASE MediaStep
  BY <1>2, MediaNextInv, MediaStepKeeps DEF MediaStep
<1>3. CASE StartErasure
  <2>1. /\ DOMAIN erasure' = ErasureFields /\ erasure'.at = "list" /\ erasure'.n = 1
        /\ UNCHANGED << mediaVars, evidence, audited, late >>
    BY <1>3 DEF StartErasure, ErasureFields
  <2>. QED
    BY <1>3, <2>1, ErasureLeavesJobs, BeforeTheRows, AuditStays DEF mediaVars, stores, requests
<1>4. CASE ListObjects
  <2>1. /\ DOMAIN erasure' = ErasureFields /\ erasure'.at \in {"list", "delete", "rows"}
        /\ erasure'.n \in {1, 2}
    BY <1>4, DeletingIs DEF ListObjects, Erasing, SweptInv
  <2>2. UNCHANGED << mediaVars, evidence, audited, late >>
    BY <1>4 DEF ListObjects
  <2>. QED
    BY <1>4, <2>1, <2>2, ErasureLeavesJobs, BeforeTheRows, AuditStays DEF mediaVars, stores, requests
<1>5. ASSUME NEW k, DeleteObject(k)
      PROVE  MediaInv' /\ SweptInv' /\ AuditInv'
  <2>1. /\ DOMAIN erasure' = ErasureFields /\ erasure'.at \in {"list", "delete", "rows"}
        /\ erasure'.n \in {1, 2}
    BY <1>5, DeletingIs DEF DeleteObject, Erasing, SweptInv
  <2>2. \A o \in DOMAIN objects' : o \in DOMAIN objects
    BY <1>5 DEF DeleteObject, Without
  <2>3. UNCHANGED << run, assets, evidence, scripts, cache, triggers, audited, late >>
    BY <1>5 DEF DeleteObject, stores, requests
  <2>. QED
    BY <1>5, <2>1, <2>2, <2>3, ErasureLeavesJobs, BeforeTheRows, AuditStays
<1>6. CASE DeleteRunRows
  BY <1>6, ErasureLeavesJobs, DeleteRowsStep
<1>7. CASE CountRunRows
  BY <1>7, ErasureLeavesJobs, CountStep
<1>8. CASE VerifyPrefix
  BY <1>8, ErasureLeavesJobs, VerifyStep
<1>9. CASE RecordAudit
  BY <1>9, ErasureLeavesJobs, RecordStep
<1>10. CASE KillErasure
  <2>1. UNCHANGED << run, assets, evidence, scripts, cache, triggers, objects, audited, late >>
        /\ erasure' = None
    BY <1>10 DEF KillErasure, stores, requests
  <2>. QED
    BY <1>10, <2>1, ErasureLeavesJobs, BeforeTheRows, AuditStays
<1>11. ASSUME NEW expired, StartSweep(expired)
       PROVE  MediaInv' /\ SweptInv' /\ AuditInv'
  BY <1>11, ErasureLeavesJobs, ObjectsGo, AuditStays DEF StartSweep, mediaVars, stores, requests
<1>12. ASSUME NEW e, SweepBlob(e)
       PROVE  MediaInv' /\ SweptInv' /\ AuditInv'
  <2>1. \A o \in DOMAIN objects' : o \in DOMAIN objects
    BY <1>12 DEF SweepBlob, Without
  <2>. QED
    BY <1>12, <2>1, ErasureLeavesJobs, ObjectsGo, AuditStays DEF SweepBlob, stores, requests
<1>13. CASE SweepRow
  BY <1>13, ErasureLeavesJobs, ObjectsGo, AuditStays DEF SweepRow, mediaVars, stores, requests
<1>14. CASE KillSweep
  BY <1>14, ErasureLeavesJobs, ObjectsGo, AuditStays DEF KillSweep, stores, requests
<1>. QED
  BY <1>1, <1>2, <1>3, <1>4, <1>5, <1>6, <1>7, <1>8, <1>9, <1>10, <1>11, <1>12, <1>13, <1>14 DEF Next

\* The media jobs, the erasure and the sweep keep the invariant, for any
\* scripts, answers, objects and numbers of jobs, reviews, erasures and faults.
THEOREM Invariance == Spec => []IInv
<1>1. ErasureInit => IInv
  BY InitIInv
<1>2. IInv /\ [Next]_vars => IInv'
  BY Inductive
<1>. QED
  BY <1>1, <1>2, PTL DEF Spec

-----------------------------------------------------------------------------
(* What the runs check *)

\* A job leaves at most one row, a video has its object's key, and what refers
\* to the run is gone with it (persist_media_asset, the foreign keys).
THEOREM TypeCorrect == Spec => []TypeOK
<1>1. IInv => TypeOK
  <2>. SUFFICES ASSUME IInv PROVE TypeOK
    OBVIOUS
  <2>1. ASSUME NEW a \in assets, a.uri = None
        PROVE  a.status = "broken"
    <3>1. a.media \in 1..MaxJobs
      BY MediaAssumption DEF IInv, MediaShape, AssetsInv
    <3>. QED
      BY <2>1, <3>1, MediaAssumption DEF IInv, AssetsInv, Whole
  <2>. QED
    BY <2>1 DEF TypeOK, IInv, AssetsInv, SweptInv
<1>. QED
  BY <1>1, Invariance, PTL

\* Whatever reviewers edit and services fail between its steps, a video shows
\* and says what was approved, by actions that are allowed (the media graph).
THEOREM VideosAreWhole == Spec => []ReadyIsWhole
<1>1. IInv => ReadyIsWhole
  <2>. SUFFICES ASSUME IInv, NEW a \in assets, a.status = "ready"
                PROVE  /\ << a.script, a.transcript >> \in approved
                       /\ a.path \in Paths(a.transcript) /\ a.path # << >>
                       /\ \A i \in DOMAIN a.path :
                             /\ a.path[i].action = "navigate" => a.path[i].target = "safe"
                             /\ a.path[i].action # "navigate" => a.path[i].selector = "safe"
                       /\ a.uri \in DOMAIN objects => objects[a.uri] = [path |-> a.path, text |-> a.transcript]
                       /\ a.raw \in DOMAIN objects => objects[a.raw] = [path |-> a.path]
    BY DEF ReadyIsWhole
  <2>1. Whole(a)
    BY DEF IInv, AssetsInv
  <2>2. a.path # << >>
    BY <2>1 DEF Whole, PathAllowed
  <2>3. ASSUME NEW i \in DOMAIN a.path
        PROVE  /\ a.path[i].action = "navigate" => a.path[i].target = "safe"
               /\ a.path[i].action # "navigate" => a.path[i].selector = "safe"
    BY <2>1 DEF Whole, PathAllowed, StepAllowed, ClickActions, SelectorActions
  <2>. QED
    BY <2>1, <2>2, <2>3 DEF Whole, Made
<1>. QED
  BY <1>1, Invariance, PTL

\* Once an erasure is audited, what is left of the run was written after the
\* erasure had looked for it (erasure.erase_release_run).
THEOREM AuditIsTrue == Spec => []AuditedIsErased
<1>1. IInv => AuditedIsErased
  BY DEF IInv, SweptInv, AuditInv, AuditedIsErased, Markers
<1>. QED
  BY <1>1, Invariance, PTL

=============================================================================
