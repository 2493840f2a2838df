-------------------------- MODULE ContentGeneration --------------------------
(***************************************************************************)
(* The content graph of one run up to Gate #2: load the approved features,  *)
(* snapshot the skills, ask the model for one artifact per type and for the *)
(* claims of each, ground and check them, and store all of it at once.      *)
(*                                                                          *)
(* Each call of the model is paid for.  Its answer is kept in the process   *)
(* (L1) and in the database (L2), so that a retried node and a dispatched   *)
(* job find it again.                                                       *)
(***************************************************************************)
EXTENDS ContentRules

CONSTANTS
    None,
    Selected,      \* artifact types of the run
    Agents,        \* agent_capabilities: stored types by agent
    Capabilities,  \* capability_skills: stored skills by type
    Voices,        \* groundings the voice source may return
    Evidence,      \* redacted evidence of the run
    InitialFeatures, InitialSkills,
    Edits(_),      \* what a reviewer may make of a feature
    Bodies,        \* bodies the model may write
    ClaimSets,     \* claims the model may find in one
    Sizes,         \* tokens one call may take
    PerCallMax, PerRunMax,
    MaxAttempts,   \* of with_retries
    MaxJobs, MaxEdits, MaxFaults  \* bounds

ASSUME ContentGenerationAssumption ==
    /\ ValidSelection(Selected)
    /\ Sizes \subseteq Nat /\ PerCallMax \in Nat /\ PerRunMax \in Nat
    /\ MaxAttempts \in Nat /\ MaxJobs \in Nat /\ MaxEdits \in Nat /\ MaxFaults \in Nat
    /\ None \notin {"transient", "budget", "format", "shape"}
    /\ \A e, d \in Evidence : e.id = d.id => e = d
    \* A hash is of the whole file, which says the skill's name.
    /\ \A s \in InitialSkills : s = [name |-> s.hash[1], hash |-> s.hash]

VARIABLES
    features,   \* feature_clusters
    skills,     \* the current version of each skill
    snapshots,  \* skill_repo_snapshots
    cache,      \* llm_response_cache: L2
    tables,     \* artifacts, skill_usage_events, artifact_claims with their links
    job,        \* the process of the worker, at "none" when there is none
    minted,     \* artifact ids handed out
    bills,      \* cost telemetry: calls the model answered, by key
    lost,       \* history: answers that did not reach L2, or were swept from it
    jobs, edits, faults

settings == << features, skills >>
history  == << bills, lost >>
counts   == << jobs, edits, faults >>
vars == << settings, snapshots, cache, tables, job, minted, history, counts >>

Count(bag, key) == IF key \in DOMAIN bag THEN bag[key] ELSE 0
More(bag, keys) ==
    [k \in DOMAIN bag \cup keys |-> IF k \in keys THEN Count(bag, k) + 1 ELSE bag[k]]

\* The function f with f[x] = y.
With(f, x, y) == [z \in DOMAIN f \cup {x} |-> IF z = x THEN y ELSE f[z]]

\* ContentRunState in a node, with what the process keeps over its attempts:
\* the L1 cache and the budget.
Fresh(l1, spent, attempt) ==
    [at |-> "load", attempt |-> attempt, l1 |-> l1, spent |-> spent,
     features |-> {}, skills |-> {}, calls |-> << >>, drafts |-> {}, claims |-> {},
     written |-> [artifacts |-> {}, usage |-> {}, claims |-> {}]]

NoJob == [Fresh(<< >>, 0, 1) EXCEPT !.at = "none"]

In(node) == job.at = node

Init ==
    /\ features = InitialFeatures /\ skills = InitialSkills
    /\ snapshots = {} /\ cache = << >>
    /\ tables = [artifacts |-> {}, usage |-> {}, claims |-> {}]
    /\ job = NoJob /\ minted = 0 /\ bills = << >> /\ lost = << >>
    /\ jobs = 0 /\ edits = 0 /\ faults = 0

Fault == faults < MaxFaults /\ faults' = faults + 1

-----------------------------------------------------------------------------
(* The job *)

\* An initial job: the graph starts from its input.
StartJob ==
    /\ In("none") /\ jobs < MaxJobs
    /\ jobs' = jobs + 1
    /\ job' = Fresh(<< >>, 0, 1)
    /\ UNCHANGED << settings, snapshots, cache, tables, minted, history, edits, faults >>

\* The job ends: at Gate #2, or failed.  Answers on their way are lost.
InFlight == {t \in DOMAIN job.calls : job.calls[t].phase = "answered"}

End ==
    /\ job' = NoJob
    /\ lost' = More(lost, {job.calls[t].key : t \in InFlight})

\* with_retries: a transient failure starts the graph again.
FailTransiently ==
    IF job.attempt < MaxAttempts
    THEN job' = Fresh(job.l1, job.spent, job.attempt + 1) /\ UNCHANGED lost
    ELSE End

\* The runner dies, or the database fails the job.
Kill ==
    /\ ~In("none") /\ Fault
    /\ End
    /\ UNCHANGED << settings, snapshots, cache, tables, minted, bills, jobs, edits >>

\* load_approved_features: fails closed without one.
Approved == {[id |-> f, title |-> features[f].title, summary |-> features[f].summary] :
                f \in {g \in DOMAIN features : features[g].status = "approved"}}

LoadApprovedFeatures ==
    /\ In("load")
    /\ IF Approved = {} THEN End
       ELSE /\ job' = [job EXCEPT !.at = "snapshot", !.features = Approved]
            /\ UNCHANGED lost
    /\ UNCHANGED << settings, snapshots, cache, tables, minted, bills, counts >>

\* Bug: the snapshot rows are not written.
NotSnapshotted(loaded) == snapshots

\* upsert_snapshot: a row for each skill and version, for which the hash stands.
Snapshotted(loaded) == snapshots \cup loaded

SnapshotActiveSkills ==
    /\ In("snapshot")
    /\ snapshots' = Snapshotted(skills)
    /\ job' = [job EXCEPT !.at = "plan", !.skills = skills]
    /\ UNCHANGED << settings, cache, tables, minted, history, counts >>

\* generate_artifacts_parallel: ids are minted before any call.  A failed
\* retrieval of the voice leaves the prompt without it.
Call(key, prompt, id) ==
    [phase |-> "ready", key |-> key, prompt |-> prompt, id |-> id, answer |-> None, error |-> None]

PlanGeneration(voice) ==
    LET types == GateArtifactTypes(Selected, Agents)
        PromptOf(t) == Prompt(t, job.features, SkillsForSpec(t, job.skills, Capabilities), voice)
    IN  /\ In("plan")
        /\ job' = [job EXCEPT !.at = "generate",
                              !.calls = [t \in types |->
                                  Call(GenerationKey(PromptOf(t)), PromptOf(t), minted + 1 + Rank(t, types))]]
        /\ minted' = minted + Cardinality(types)
        /\ UNCHANGED << settings, snapshots, cache, tables, history, counts >>

-----------------------------------------------------------------------------
(* A call of the model, one thread per type *)

InCalls == In("generate") \/ In("extract")

Settle(t, answer) ==
    [job EXCEPT !.calls[t].phase = "done", !.calls[t].answer = answer,
                !.l1 = With(job.l1, job.calls[t].key, answer)]

\* Bug: only the cache of the process is asked.
KeptInProcess(key) == IF key \in DOMAIN job.l1 THEN {job.l1[key]} ELSE {}

\* generate_json: the answer in L1, or in L2, if there is one.
Kept(key) ==
    IF key \in DOMAIN job.l1 THEN {job.l1[key]}
    ELSE IF key \in DOMAIN cache THEN {cache[key]} ELSE {}

LookUp(t) ==
    /\ job.calls[t].phase = "ready"
    /\ LET kept == Kept(job.calls[t].key)
       IN  IF kept = {} THEN job' = [job EXCEPT !.calls[t].phase = "missed"]
           ELSE \E answer \in kept : job' = Settle(t, answer)
    /\ UNCHANGED << settings, snapshots, cache, tables, minted, history, counts >>

Failed(process, t, error) == [process EXCEPT !.calls[t].phase = "failed", !.calls[t].error = error]

\* What the model may answer: text, an object of the wrong shape, or one of
\* the schema.  The prompt is kept beside it as history.
Answers(t) ==
    {[kind |-> k, prompt |-> job.calls[t].prompt] : k \in {"text", "malformed"}}
    \cup IF In("generate")
         THEN {[kind |-> "object", prompt |-> job.calls[t].prompt, body |-> b] : b \in Bodies}
         ELSE {[kind |-> "object", prompt |-> job.calls[t].prompt, claims |-> c] : c \in ClaimSets}

\* BudgetTracker.record: a call over its own cap is not added.
Charged(spent, size) == IF size > PerCallMax THEN spent ELSE spent + size
Breach(spent, size) == size > PerCallMax \/ spent + size > PerRunMax

\* meter_call: the row of telemetry is written whatever the budget says.
Metered(key) == More(bills, {key})

Converse(t, answer, size) ==
    LET key == job.calls[t].key
        charged == [job EXCEPT !.spent = Charged(job.spent, size)]
    IN  /\ job.calls[t].phase = "missed"
        /\ bills' = Metered(key)
        /\ IF Breach(job.spent, size)
           THEN /\ job' = Failed(charged, t, "budget")
                /\ lost' = More(lost, {key})
           ELSE /\ job' = [charged EXCEPT !.calls[t].phase = "answered", !.calls[t].answer = answer]
                /\ UNCHANGED lost
        /\ UNCHANGED << settings, snapshots, cache, tables, minted, counts >>

\* Throttled five times, or no connection.
ConverseFails(t) ==
    /\ job.calls[t].phase = "missed" /\ Fault
    /\ job' = Failed(job, t, "transient")
    /\ UNCHANGED << settings, snapshots, cache, tables, minted, history, jobs, edits >>

\* Text is refused; an object of any shape is kept, the first of a key.
Keep(t) ==
    LET call == job.calls[t]
        first == IF call.key \in DOMAIN cache THEN cache[call.key] ELSE call.answer
    IN  /\ call.phase = "answered"
        /\ IF call.answer.kind = "text"
           THEN /\ job' = Failed(job, t, "format")
                /\ lost' = More(lost, {call.key})
                /\ UNCHANGED cache
           ELSE /\ cache' = With(cache, call.key, first)
                /\ job' = Settle(t, first)
                /\ UNCHANGED lost
        /\ UNCHANGED << settings, snapshots, tables, minted, bills, counts >>

\* Every thread has ended: the first error in the order of the types counts,
\* and an answer of the wrong shape is one.
Settled == \A t \in DOMAIN job.calls : job.calls[t].phase \in {"done", "failed"}

Error(t) ==
    IF job.calls[t].phase = "failed" THEN job.calls[t].error
    ELSE IF job.calls[t].answer.kind = "malformed" THEN "shape" ELSE None

Broken == {t \in DOMAIN job.calls : Error(t) # None}
FirstBroken == CHOOSE t \in Broken : \A u \in Broken : Place(t) <= Place(u)

CallsFail ==
    /\ InCalls /\ Settled /\ Broken # {}
    /\ IF Error(FirstBroken) = "transient" THEN FailTransiently ELSE End
    /\ UNCHANGED << settings, snapshots, cache, tables, minted, bills, counts >>

Draft(call) ==
    [id |-> call.id, type |-> call.prompt.type, body |-> call.answer.body, status |-> "draft",
     skills |-> SkillsForSpec(call.prompt.type, job.skills, Capabilities),
     loaded |-> job.features, prompt |-> call.answer.prompt, found |-> {}]

GenerateArtifactsParallel ==
    LET drafts == {Draft(job.calls[t]) : t \in DOMAIN job.calls}
        Extraction(d) == Call(ExtractionKey(d.id, d.body), d.body, d.id)
    IN  /\ In("generate") /\ Settled /\ Broken = {}
        /\ job' = [job EXCEPT !.at = "extract", !.drafts = drafts,
                              !.calls = [t \in {d.type : d \in drafts} |->
                                            Extraction(CHOOSE d \in drafts : d.type = t)]]
        /\ UNCHANGED << settings, snapshots, cache, tables, minted, history, counts >>

\* extract_claims, and link_claims_to_evidence: the matcher is asked for the
\* candidates of each claim by itself.
ExtractClaims ==
    LET Found(d) == job.calls[d.type].answer.claims
        drafts == {[d EXCEPT !.found = Found(d)] : d \in job.drafts}
    IN  /\ In("extract") /\ Settled /\ Broken = {}
        /\ job' = [job EXCEPT !.at = "link", !.drafts = drafts, !.calls = << >>]
        /\ UNCHANGED << settings, snapshots, cache, tables, minted, history, counts >>

FoundClaims == UNION {d.found : d \in job.drafts}

LinkClaims(candidates) ==
    LET resolved == {[artifact |-> p[1].id, row |-> Resolve(p[2], candidates[p[2]])] :
                        p \in {q \in job.drafts \X UNION ClaimSets : q[2] \in q[1].found}}
    IN  /\ In("link")
        /\ job' = [job EXCEPT !.at = "check", !.claims = resolved]
        /\ UNCHANGED << settings, snapshots, cache, tables, minted, history, counts >>

ClaimsOf(claims, d) == {c.row : c \in {x \in claims : x.artifact = d.id}}

\* The policy, the guardrail and apply_check_outcomes.
CheckArtifacts ==
    /\ In("check")
    /\ job' = [job EXCEPT !.at = "persist",
                          !.drafts = {[d EXCEPT !.status =
                              CheckedStatus(Findings(d.body, ClaimsOf(job.claims, d)))] : d \in job.drafts},
                          !.written = tables]
    /\ UNCHANGED << settings, snapshots, cache, tables, minted, history, counts >>

\* The guardrail or another node fails with an error worth a retry.
NodeFails ==
    /\ In("check") /\ Fault
    /\ FailTransiently
    /\ UNCHANGED << settings, snapshots, cache, tables, minted, bills, jobs, edits >>

\* transaction(): others see the rows from the commit on.
Visible(written) == tables

UsageEvents(drafts) ==
    UNION {{[artifact |-> d.id, skill |-> s] : s \in d.skills} : d \in drafts}

PersistArtifacts ==
    LET written == [job.written EXCEPT !.artifacts = @ \cup job.drafts,
                                       !.usage = @ \cup UsageEvents(job.drafts)]
    IN  /\ In("persist")
        /\ job' = [job EXCEPT !.at = "claims", !.written = written]
        /\ tables' = Visible(written)
        /\ UNCHANGED << settings, snapshots, cache, minted, history, counts >>

\* persist_claims, the commit, and the halt at Gate #2.
PersistClaims ==
    /\ In("claims")
    /\ tables' = [job.written EXCEPT !.claims = @ \cup job.claims]
    /\ End
    /\ UNCHANGED << settings, snapshots, cache, minted, bills, counts >>

-----------------------------------------------------------------------------
(* Others *)

ReviewFeature(f) ==
    /\ edits < MaxEdits /\ edits' = edits + 1
    /\ \E row \in Edits(features[f]) : features' = [features EXCEPT ![f] = row]
    /\ UNCHANGED << skills, snapshots, cache, tables, job, minted, history, jobs, faults >>

\* A new version of a skill.
EditSkill(s) ==
    /\ edits < MaxEdits /\ edits' = edits + 1
    /\ skills' = (skills \ {s}) \cup {[s EXCEPT !.hash = << s.name, @[2] + 1 >>]}
    /\ UNCHANGED << features, snapshots, cache, tables, job, minted, history, jobs, faults >>

\* llm-cache-sweep: an old answer is deleted.
Sweep(key) ==
    /\ edits < MaxEdits /\ edits' = edits + 1
    /\ cache' = [k \in DOMAIN cache \ {key} |-> cache[k]]
    /\ lost' = More(lost, {key})
    /\ UNCHANGED << settings, snapshots, tables, job, minted, bills, jobs, faults >>

Next ==
    \/ StartJob \/ Kill \/ LoadApprovedFeatures \/ SnapshotActiveSkills
    \/ In("plan") /\ \E v \in Voices : PlanGeneration(v)
    \/ InCalls /\ \E t \in DOMAIN job.calls :
           \/ LookUp(t) \/ ConverseFails(t) \/ Keep(t)
           \/ \E a \in Answers(t), n \in Sizes : Converse(t, a, n)
    \/ CallsFail \/ GenerateArtifactsParallel \/ ExtractClaims
    \/ In("link") /\ \E c \in [FoundClaims -> Candidates(Evidence)] : LinkClaims(c)
    \/ CheckArtifacts \/ NodeFails \/ PersistArtifacts \/ PersistClaims
    \/ \E f \in DOMAIN features : ReviewFeature(f)
    \/ \E s \in skills : EditSkill(s)
    \/ \E key \in DOMAIN cache : Sweep(key)

Spec == Init /\ [][Next]_vars

-----------------------------------------------------------------------------
(* Properties *)

\* The two tiers of the cache give one answer for a key; a usage event refers
\* to an artifact and a snapshot, and a claim to an artifact, that exist.
TypeOK ==
    /\ \A k \in DOMAIN job.l1 \cap DOMAIN cache : job.l1[k] = cache[k]
    /\ \A k \in DOMAIN cache : cache[k].kind \in {"object", "malformed"}
    /\ \A u \in tables.usage :
          u.skill \in snapshots /\ \E a \in tables.artifacts : a.id = u.artifact
    /\ \A c \in tables.claims : \E a \in tables.artifacts : a.id = c.artifact
    /\ \A a, b \in tables.artifacts : a.id = b.id => a = b

\* A call is paid for again only after its answer was lost: to a crash, to a
\* budget, to an answer that is not JSON, or to the sweep (bedrock_client's
\* generate_json over its retries and over jobs).
BilledOnce == \A k \in DOMAIN bills : bills[k] <= 1 + Count(lost, k)

\* An artifact a reviewer sees came from the features its job loaded as
\* approved and from the skills it is said to come from, all its claims are
\* stored with it, each link's evidence has the figures of its claim, and it
\* is a draft only if nothing stored about it blocks.
DraftsAreVetted ==
    \A a \in tables.artifacts :
        LET claims == ClaimsOf(tables.claims, a)
        IN  /\ a.prompt.type = a.type /\ a.prompt.skills = a.skills
            /\ {<< f.id, f.title >> : f \in a.prompt.features} = {<< f.id, f.title >> : f \in a.loaded}
            /\ {c.claim : c \in claims} = a.found
            /\ \A c \in claims : \A e \in Evidence :
                  e.id \in c.links => c.claim.figures \subseteq e.figures
            /\ a.status = "draft" => \A f \in Findings(a.body, claims) : ~f.blocking
=============================================================================
