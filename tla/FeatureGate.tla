----------------------------- MODULE FeatureGate -----------------------------
(***************************************************************************)
(* Gate #1: the release-intelligence graph of one run collects redacted     *)
(* evidence, clusters it into features, halts, and tells the reviewers.     *)
(* Jobs die anywhere and are dispatched again; the refs of the range may    *)
(* have moved by then.  Evidence is idempotent by its id, features are not. *)
(***************************************************************************)
EXTENDS EvidenceMining

CONSTANTS
    Diffs,        \* what the range may hold when a job looks
    Strangers,    \* ids a model invents
    Malformed,    \* an answer that is JSON and not the schema's
    MaxNamed,     \* bound: ids a model's answer names
    MaxFeatures,  \* bound: feature rows
    MaxInitial,   \* bound: initial jobs
    MaxReviews,   \* bound: decisions on single features
    MaxFaults     \* bound: kills and lost answers

Decisions == {"approved", "rejected", "edited"}
Numbers   == 1..MaxFeatures

ASSUME FeatureGateAssumption ==
    /\ MaxNamed \in Nat /\ MaxFeatures \in Nat /\ MaxInitial \in Nat /\ MaxReviews \in Nat /\ MaxFaults \in Nat
    /\ None \notin Numbers /\ None \notin Decisions

VARIABLES
    \* the stores
    blobs,     \* S3: redacted excerpts, by the id of their evidence
    rows,      \* evidence_items
    features,  \* feature_clusters with their links, by the number of their row
    answers,   \* llm_response_cache: the answer to a prompt
    ledger,    \* gate_notifications: attempts, and whether told
    marker,    \* the decision recorded under feature_manifest:<run>
    \* the job and the checkpoint
    job,       \* what runs, or Idle
    queued,    \* dispatched resume, None when none waits
    thread,    \* ReleaseRunState at the last checkpoint
    \* history and bounds
    posts,     \* notifications the channel accepted
    initials, reviews, faults

stores  == << blobs, rows, features, answers, ledger >>
gate    == << marker, queued >>
counts  == << initials, reviews, faults >>
vars    == << stores, gate, job, thread, posts, counts >>

\* ReleaseRunState: the next node and what the earlier ones left in it.
FreshState(at) == [next |-> at, evidence |-> {}, scored |-> {}, features |-> {}, decision |-> None]

\* A job in a node: what it has still to write, and the feature it has begun.
Job(at, value, todo) == [at |-> at, value |-> value, todo |-> todo, half |-> None]

Idle == Job("idle", None, {})

\* A row of feature_clusters and its feature_evidence_links.
Feature(ids) == [ids |-> ids, links |-> {}, status |-> "pending_review"]

TypeOK ==
    /\ {EvidenceId(e) : e \in rows} \subseteq blobs
    /\ \A e, d \in rows : EvidenceId(e) = EvidenceId(d) => e = d
    /\ DOMAIN features \subseteq Numbers
    /\ \A n \in DOMAIN features :
          /\ features[n].links \subseteq features[n].ids
          /\ features[n].status \in Decisions \cup {"pending_review"}
    /\ thread.features \subseteq DOMAIN features
    /\ marker \in Decisions \cup {None}
    /\ posts \in Nat /\ ledger.told \in BOOLEAN
    /\ initials \in 0..MaxInitial /\ reviews \in 0..MaxReviews /\ faults \in 0..MaxFaults

Init ==
    /\ blobs = {} /\ rows = {} /\ answers = << >>
    /\ features = << >>
    /\ ledger = [attempts |-> 0, told |-> FALSE]
    /\ marker = None /\ queued = None
    /\ job = Idle /\ thread = FreshState("end")
    /\ posts = 0
    /\ initials = 0 /\ reviews = 0 /\ faults = 0

\* The function f with f[x] = y.
With(f, x, y) == [z \in DOMAIN f \cup {x} |-> IF z = x THEN y ELSE f[z]]

Fault == faults < MaxFaults /\ faults' = faults + 1
In(node) == job.at = node

\* A node is done: the checkpoint holds `state` and the job is in `node`.
Checkpoint(state, node, todo) ==
    /\ thread' = [state EXCEPT !.next = node]
    /\ job' = IF node = "end" THEN Idle ELSE Job(node, job.value, todo)

-----------------------------------------------------------------------------
(* Collection: one node, so that raw text never reaches a checkpoint *)

\* An initial job: the graph starts from its input.  It reads the range once.
StartInitial(diff) ==
    /\ In("idle") /\ initials < MaxInitial
    /\ initials' = initials + 1
    /\ job' = Job("collect", None, {RedactEvidence(i) : i \in Collected(diff)})
    /\ thread' = FreshState("collect")
    /\ UNCHANGED << stores, gate, posts, reviews, faults >>

\* store_blob and the embedding of an item; the pool takes them in any order.
StoreBlob(item) ==
    /\ In("collect") /\ item \in job.todo
    /\ EvidenceId(item) \notin blobs
    /\ blobs' = blobs \cup {EvidenceId(item)}
    /\ UNCHANGED << rows, features, answers, ledger, gate, job, thread, posts, counts >>

\* Bug: a row for every item of every attempt.
InsertedAlways(items) == rows \cup items

\* ON CONFLICT (id) DO NOTHING, within the batch too.
Inserted(items) ==
    LET fresh == {EvidenceId(e) : e \in items} \ {EvidenceId(e) : e \in rows}
    IN  rows \cup {CHOOSE e \in items : EvidenceId(e) = id : id \in fresh}

\* record_many, when every upload has returned.
RecordMany ==
    /\ In("collect") /\ {EvidenceId(i) : i \in job.todo} \subseteq blobs
    /\ rows' = Inserted(job.todo)
    /\ Checkpoint(thread, "cluster", {})
    /\ UNCHANGED << blobs, features, answers, ledger, gate, posts, counts >>

-----------------------------------------------------------------------------
(* Clustering, scores and the manifest *)

\* The model's answer to a prompt: kept from an earlier job, or any.
Answer(selected, answer) ==
    /\ selected \in DOMAIN answers => answer = answers[selected]
    /\ answers' = With(answers, selected, answer)

\* A malformed answer is kept like any other, and fails the job.
ClusterFeatures(selected, answer) ==
    /\ In("cluster")
    /\ selected \in Selections(rows)
    /\ IF selected = {} THEN answer = {} /\ UNCHANGED answers ELSE Answer(selected, answer)
    /\ IF answer = Malformed THEN job' = Idle /\ UNCHANGED thread
       ELSE LET scored == {Score(ids, rows) : ids \in KnownIds(answer, selected)}
            IN  Checkpoint([thread EXCEPT !.evidence = rows, !.scored = scored], "persist", scored)
    /\ UNCHANGED << blobs, rows, features, ledger, gate, posts, counts >>

\* insert_feature, under an id of its own: a later attempt inserts it again.
InsertFeature(sf) ==
    LET n == CHOOSE n \in Numbers : n \notin DOMAIN features
    IN  /\ In("persist") /\ job.half = None /\ sf \in job.todo
        /\ Numbers \ DOMAIN features # {}
        /\ features' = With(features, n, Feature(sf.ids))
        /\ job' = [job EXCEPT !.todo = @ \ {sf}, !.half = n]
        /\ thread' = [thread EXCEPT !.features = @ \cup {n}]
        /\ UNCHANGED << blobs, rows, answers, ledger, gate, posts, counts >>

\* link_evidence, one by one.
LinkEvidence ==
    /\ In("persist") /\ job.half # None
    /\ LET f == features[job.half]
       IN  \E id \in f.ids \ f.links :
             /\ features' = [features EXCEPT ![job.half].links = @ \cup {id}]
             /\ job' = IF f.links \cup {id} = f.ids THEN [job EXCEPT !.half = None] ELSE job
    /\ UNCHANGED << blobs, rows, answers, ledger, gate, thread, posts, counts >>

ManifestPersisted ==
    /\ In("persist") /\ job.half = None /\ job.todo = {}
    /\ Checkpoint(thread, "gate", {})
    /\ UNCHANGED << stores, gate, posts, counts >>

-----------------------------------------------------------------------------
(* The interrupt, and telling the reviewers *)

\* Bug: the ledger is not asked.
AlreadyNotifiedNever == FALSE

\* already_notified: the gate of this run was told, by whatever job.
AlreadyNotified == ledger.told

\* A job without a decision halts; the dispatcher looks at the ledger first.
Halt ==
    /\ In("gate") /\ job.value = None
    /\ job' = IF AlreadyNotified THEN Idle ELSE Job("notify", None, {})
    /\ UNCHANGED << stores, gate, thread, posts, counts >>

\* POST accepted, and the answer seen.
PostAccepted ==
    /\ In("notify")
    /\ posts' = posts + 1
    /\ job' = Job("mark", None, {})
    /\ UNCHANGED << stores, gate, thread, counts >>

\* A failed attempt, or one accepted without an answer, is recorded and tried
\* again or given up.
PostFails ==
    /\ In("notify") /\ Fault
    /\ posts' \in {posts, posts + 1}
    /\ ledger' = [ledger EXCEPT !.attempts = @ + 1]
    /\ job' \in {job, Idle}
    /\ UNCHANGED << blobs, rows, features, answers, gate, thread, initials, reviews >>

\* record_attempt and mark_notified.
MarkNotified ==
    /\ In("mark")
    /\ ledger' = [attempts |-> ledger.attempts + 1, told |-> TRUE]
    /\ job' = Idle
    /\ UNCHANGED << blobs, rows, features, answers, gate, thread, posts, counts >>

-----------------------------------------------------------------------------
(* Reviewers *)

\* Approve, reject or edit one feature: the row's status, whatever it was.
ReviewFeature(n, decision) ==
    /\ features[n].status # decision
    /\ reviews < MaxReviews
    /\ reviews' = reviews + 1
    /\ features' = [features EXCEPT ![n].status = decision]
    /\ UNCHANGED << blobs, rows, answers, ledger, gate, job, thread, posts, initials, faults >>

\* recordApprovalIdempotent, then dispatchResume.  Where the marker is there the
\* request is told that the gate was resumed, and nothing happens.
Resume(decision) ==
    /\ marker = None
    /\ marker' = decision
    /\ queued' = decision
    /\ UNCHANGED << stores, job, thread, posts, counts >>

\* The dispatch fails, and the marker is deleted.
ResumeFails(decision) ==
    /\ marker = None /\ Fault
    /\ queued' \in {queued, decision}
    /\ UNCHANGED << stores, marker, job, thread, posts, initials, reviews >>

\* A resume that finds work pending goes on there, else it is refused.
StartResume ==
    /\ In("idle") /\ queued # None
    /\ queued' = None
    /\ job' = IF thread.next = "end" THEN Idle
              ELSE Job(thread.next, queued,
                       CASE thread.next = "persist" -> thread.scored
                         [] thread.next = "decide" -> thread.features
                         [] OTHER -> {})
    /\ thread.next # "collect"
    /\ UNCHANGED << stores, marker, thread, posts, counts >>

\* A thread that died while collecting collects again.
StartResumeCollecting(diff) ==
    /\ In("idle") /\ queued # None /\ thread.next = "collect"
    /\ queued' = None
    /\ job' = Job("collect", queued, {RedactEvidence(i) : i \in Collected(diff)})
    /\ UNCHANGED << stores, marker, thread, posts, counts >>

\* The gate returns the job's decision; an approval leaves the features alone.
ResolveGate ==
    /\ In("gate") /\ job.value # None
    /\ IF job.value = "approved" THEN Checkpoint([thread EXCEPT !.decision = job.value], "complete", {})
       ELSE Checkpoint([thread EXCEPT !.decision = job.value], "decide", thread.features)
    /\ UNCHANGED << stores, gate, posts, counts >>

\* persist_review_decision, feature by feature.
PersistReviewDecision ==
    /\ In("decide")
    /\ IF job.todo = {} THEN Checkpoint(thread, "complete", {}) /\ UNCHANGED features
       ELSE LET n == Min(job.todo)
            IN  /\ features' = [features EXCEPT ![n].status = thread.decision]
                /\ job' = [job EXCEPT !.todo = @ \ {n}]
                /\ UNCHANGED thread
    /\ UNCHANGED << blobs, rows, answers, ledger, gate, posts, counts >>

Complete ==
    /\ In("complete")
    /\ Checkpoint(thread, "end", {})
    /\ UNCHANGED << stores, gate, posts, counts >>

\* The runner dies or the job fails: what the node had put in the state and
\* not checkpointed is gone.
Kill ==
    /\ Fault /\ ~In("idle")
    /\ job' = Idle
    /\ thread' = IF In("persist") THEN [thread EXCEPT !.features = {}] ELSE thread
    /\ UNCHANGED << stores, gate, posts, initials, reviews >>

-----------------------------------------------------------------------------

\* Answers a model may give: groups of ids, some of them invented, or no such thing.
AnswersTo(selected) ==
    LET ids    == {EvidenceId(e) : e \in selected} \cup Strangers
        groups == UNION {kSubset(k, ids) : k \in 1..MaxNamed}
    IN  {a \in UNION {kSubset(k, groups) : k \in 0..MaxNamed} :
            MapThenSumSet(Cardinality, a) <= MaxNamed} \cup {Malformed}

Next ==
    \/ \E diff \in Diffs : StartInitial(diff) \/ StartResumeCollecting(diff)
    \/ \E item \in job.todo : StoreBlob(item) \/ InsertFeature(item)
    \/ RecordMany
    \/ In("cluster") /\ \E selected \in Selections(rows) : \E answer \in AnswersTo(selected) :
          ClusterFeatures(selected, answer)
    \/ LinkEvidence \/ ManifestPersisted
    \/ Halt \/ PostAccepted \/ PostFails \/ MarkNotified
    \/ \E n \in DOMAIN features, d \in Decisions : ReviewFeature(n, d)
    \/ \E d \in Decisions : Resume(d) \/ ResumeFails(d)
    \/ StartResume \/ ResolveGate \/ PersistReviewDecision \/ Complete
    \/ Kill

Spec == Init /\ [][Next]_vars

-----------------------------------------------------------------------------
(* Properties *)

\* The texts redaction is for.  Paths and names of symbols are not: they are
\* stored, and the path is prompted, as the diff has them.
Texts == {id[5] : id \in blobs}
         \cup UNION {{e.excerpt, e.meta} : e \in rows \cup thread.evidence \cup UNION DOMAIN answers}

\* No excerpt and no value of the metadata, in S3, in Aurora, in a checkpoint or
\* in what the model was sent, has a token a rule takes, whatever attempt put it
\* there and whatever the range held when the attempt looked.
ExcerptsAreRedacted == \A t \in Texts : ToSet(t) \cap Personal = {}

\* What a reviewer finds at the gate: every feature of the manifest has
\* evidence, and all of it is stored, and is of a selection that was put before
\* the model, whose answer is kept.
GatedFeaturesAreGrounded ==
    thread.next \in {"gate", "decide", "complete"} =>
        \A n \in thread.features :
            /\ features[n].links # {}
            /\ \E shown \in DOMAIN answers :
                  features[n].links \subseteq {EvidenceId(e) : e \in rows \cap shown}

\* Reviewers are told once of a gate; each repetition is paid by a fault.
ToldOnce == posts <= 1 + faults
=============================================================================
