------------------------------ MODULE Evaluation ------------------------------
(***************************************************************************)
(* Evaluations of a run, started by hand, while the run may still be        *)
(* reviewed: read the tables statement by statement, record the metrics,    *)
(* then ask the model to judge each approved artifact.  The connections     *)
(* commit each statement by itself.                                         *)
(***************************************************************************)
EXTENDS EvalMetrics, SequencesExt

CONSTANTS
    InitialTables,  \* what the pipeline has left when the evaluations begin
    InitialCaches,  \* and what earlier evaluations have
    Jobs,           \* evaluations
    ClaimRows,      \* claims a content job may still store
    Gates,          \* what may still be notified and decided
    Notes,          \* what a reviewer may remark, or Nothing
    Edits,          \* what a reviewer may write: a title and a body, Nothing for neither
    Reports,        \* engagement rows: artifact, value, as_of, source
    Verdicts,       \* objects the judge may answer; only those of Scores validate
    Scores,
    PartialCounts,       \* bound: how many metrics a failing evaluation has recorded
    MaxWrites, MaxFaults   \* bounds

TableNames == {"artifacts", "claims", "features", "candidates", "media", "signals", "approvals",
               "notified", "engagement", "selected"}

GateNames == {"feature_manifest_approval", "artifact_review", "skill_candidate_approval", "run_failed"}

\* The key of engagement_metrics, of one metric.
SameReport(r, s) == r.artifact = s.artifact /\ r.as_of = s.as_of /\ r.source = s.source

\* What the pipeline leaves, and every write keeps: claims have ids of their
\* own, a decision about an artifact is about one of the run, engagement has a
\* row per key and two reports of one artifact and date come at two times.
IsText(x) == x \in Seq(Range(x))

IsTextOrNothing(x) == x = Nothing \/ IsText(x)

ProperClaims(claims) ==
    /\ IsFiniteSet(claims)
    /\ \A c \in claims :
          c.id \in 1..Cardinality(claims) /\ c.support \in {"supported", "unsupported"} /\ IsText(c.text)
    /\ \A c, d \in claims : c.id = d.id => c = d

ProperReviews(artifacts, approvals) ==
    /\ \A a \in DOMAIN artifacts : IsText(artifacts[a].body) /\ artifacts[a].created = 0
    /\ IsFiniteSet(approvals)
    /\ \A r \in approvals :
          /\ r.at \in Nat
          /\ r.type = "artifact" => r.target \in DOMAIN artifacts
          /\ IsTextOrNothing(r.payload) /\ IsTextOrNothing(r.notes)

ProperSignals(signals) ==
    /\ IsText(signals)
    /\ \A i \in DOMAIN signals : IsText(signals[i].source) /\ IsText(signals[i].revised)

ProperReports(reports) ==
    /\ IsFiniteSet(reports)
    /\ \A r \in reports : r.as_of \in Nat /\ r.created \in Nat
    /\ \A r, s \in reports :
          SameReport(r, s) \/ (r.artifact = s.artifact /\ r.as_of = s.as_of /\ r.created = s.created) => r = s

ProperTables(t) ==
    /\ DOMAIN t = TableNames
    /\ ProperClaims(t.claims) /\ ProperReviews(t.artifacts, t.approvals)
    /\ ProperSignals(t.signals) /\ ProperReports(t.engagement)
    /\ IsFiniteSet(DOMAIN t.features) /\ IsFiniteSet(DOMAIN t.candidates)
    /\ \A g \in DOMAIN t.notified : t.notified[g] \in Nat
    /\ t.media \in Seq({"ready", "broken"})

\* Bug: the key says whose text, and not which.
IdempotencyKeyOfArtifact(text) == << text.artifact, << >> >>

\* The key of a text has its artifact and its body; the title is only prompted.
IdempotencyKey(text) == << text.artifact, text.body >>

ASSUME EvaluationAssumption ==
    /\ Scores \subseteq Verdicts /\ PartialCounts \subseteq 0..Len(MetricNames)
    /\ MaxWrites \in Nat /\ MaxFaults \in Nat
    /\ Gates \subseteq GateNames
    /\ \A x \in Notes \cup {edit.body : edit \in Edits} : IsTextOrNothing(x)
    /\ \A c \in InitialCaches : \A key \in DOMAIN c : IdempotencyKey(c[key].of) = key
    /\ \A t \in InitialTables : ProperTables(t) /\ \A r \in t.engagement : r.created = 0
    /\ \A row \in ClaimRows :
          /\ DOMAIN row = {"links", "support", "risk", "text"}
          /\ row.support \in {"supported", "unsupported"} /\ IsText(row.text)
    /\ \A report \in Reports :
          DOMAIN report = {"artifact", "value", "as_of", "source"} /\ report.as_of \in Nat

VARIABLES
    tables,   \* the rows of the run the metrics are about
    cache,    \* llm_response_cache
    evals,    \* eval_runs
    job,      \* the evaluations
    edits,    \* history: what each edit replaced, and by what
    writes, faults

evaluationVars == << tables, cache, evals, job, edits, writes, faults >>

At(e, place) == job[e].at = place

\* An evaluation and what it has in hand.
Idle == [at |-> "idle", inputs |-> << >>, seen |-> Nothing, metrics |-> << >>, meant |-> << >>,
         todo |-> {}, text |-> Nothing, answer |-> Nothing]

\* The function f with f[x] = y.
With(f, x, y) == [z \in DOMAIN f \cup {x} |-> IF z = x THEN y ELSE f[z]]

EvaluationInit ==
    /\ tables \in InitialTables
    /\ cache \in InitialCaches
    /\ evals = {} /\ edits = << >>
    /\ job = [e \in Jobs |-> Idle]
    /\ writes = 0 /\ faults = 0

-----------------------------------------------------------------------------
(* The evaluation *)

\* Evaluations meet in the cache only; as a bound, they read one after the other.
ReadsAlone(e) == \A f \in Jobs \ {e} : job[f].at \notin {"read", "record"}

\* seen is history: the writes before the first statement.
Start(e) ==
    /\ At(e, "idle") /\ ReadsAlone(e)
    /\ job' = [job EXCEPT ![e] = [Idle EXCEPT !.at = "read", !.seen = writes]]
    /\ UNCHANGED << tables, cache, evals, edits, writes, faults >>

\* The next SELECT.  After the last one, meant is what the metrics should say,
\* as history, if no write overlapped the statements.
Read(e) ==
    LET n == Cardinality(DOMAIN job[e].inputs) + 1
        inputs == With(job[e].inputs, Statements[n], Select(tables, Statements[n]))
        meant == IF writes = job[e].seen THEN Meant(tables) ELSE << >>
    IN  /\ At(e, "read")
        /\ job' = [job EXCEPT ![e] =
              IF n < Len(Statements) THEN [@ EXCEPT !.inputs = inputs]
              ELSE [Idle EXCEPT !.at = "record", !.metrics = ProductMetrics(inputs), !.meant = meant]]
        /\ UNCHANGED << tables, cache, evals, edits, writes, faults >>

\* sink.record, metric by metric: the first n of them.
MetricRows(e, n) ==
    {[by |-> e, type |-> MetricNames[i], score |-> job[e].metrics[MetricNames[i]],
      meant |-> {job[e].meant[name] : name \in (DOMAIN job[e].meant) \cap {MetricNames[i]}}] : i \in 1..n}

RecordMetrics(e) ==
    /\ At(e, "record")
    /\ evals' = evals \cup MetricRows(e, Len(MetricNames))
    /\ job' = [job EXCEPT ![e] = [Idle EXCEPT !.at = "list"]]
    /\ UNCHANGED << tables, cache, edits, writes, faults >>

\* approved_artifacts, in the order of their ids: titles and bodies.
ListApproved(e) ==
    LET approved == {a \in DOMAIN tables.artifacts : tables.artifacts[a].status = "approved"}
    IN  /\ At(e, "list")
        /\ job' = [job EXCEPT ![e] =
              [Idle EXCEPT !.at = "ask",
                           !.todo = {[artifact |-> a, title |-> tables.artifacts[a].title,
                                      body |-> tables.artifacts[a].body] : a \in approved}]]
        /\ UNCHANGED << tables, cache, evals, edits, writes, faults >>

First(text, todo) == \A u \in todo : text.artifact <= u.artifact

\* generate_json, of the next text: the kept answer, or a call.
Ask(e) ==
    /\ At(e, "ask")
    /\ \/ job[e].todo = {} /\ job' = [job EXCEPT ![e] = [Idle EXCEPT !.at = "done"]]
       \/ \E text \in job[e].todo :
             LET key == IdempotencyKey(text)
             IN  /\ First(text, job[e].todo)
                 /\ job' = [job EXCEPT ![e] =
                       IF key \in DOMAIN cache
                       THEN [@ EXCEPT !.at = "score", !.text = text, !.answer = cache[key]]
                       ELSE [@ EXCEPT !.at = "call", !.text = text]]
    /\ UNCHANGED << tables, cache, evals, edits, writes, faults >>

\* The model judges the title and the body.
Converse(e, verdict) ==
    /\ At(e, "call")
    /\ job' = [job EXCEPT ![e].at = "put", ![e].answer = [verdict |-> verdict, of |-> job[e].text]]
    /\ UNCHANGED << tables, cache, evals, edits, writes, faults >>

\* Bug: the last writer wins, and a caller keeps the answer it brought.
LastWins(key, answer) == answer

\* put: the answer of the first writer is the one for all.
FirstWins(key, answer) == IF key \in DOMAIN cache THEN cache[key] ELSE answer

Put(e) ==
    LET key == IdempotencyKey(job[e].text)
        answer == FirstWins(key, job[e].answer)
    IN  /\ At(e, "put")
        /\ cache' = With(cache, key, answer)
        /\ job' = [job EXCEPT ![e].at = "score", ![e].answer = answer]
        /\ UNCHANGED << tables, evals, edits, writes, faults >>

\* RubricScores: an object that does not validate ends the evaluation; what
\* has been recorded stays.
Score(e) ==
    LET text == job[e].text answer == job[e].answer
    IN  /\ At(e, "score")
        /\ IF answer.verdict \in Scores
           THEN /\ evals' = evals \cup {[by |-> e, type |-> "rubric", score |-> answer.verdict,
                                         text |-> text, of |-> answer.of]}
                /\ job' = [job EXCEPT ![e] = [Idle EXCEPT !.at = "ask", !.todo = job[e].todo \ {text}]]
           ELSE /\ job' = [job EXCEPT ![e] = [Idle EXCEPT !.at = "failed"]]
                /\ UNCHANGED evals
        /\ UNCHANGED << tables, cache, edits, writes, faults >>

\* The judge cannot be reached, a statement fails, the runner dies; of the
\* metrics a first part may have been recorded.
Fail(e) ==
    /\ job[e].at \notin {"idle", "done", "failed"}
    /\ faults < MaxFaults /\ faults' = faults + 1
    /\ IF At(e, "record")
       THEN \E n \in PartialCounts : evals' = evals \cup MetricRows(e, n)
       ELSE UNCHANGED evals
    /\ job' = [job EXCEPT ![e] = [Idle EXCEPT !.at = "failed"]]
    /\ UNCHANGED << tables, cache, edits, writes >>

-----------------------------------------------------------------------------
(* The run meanwhile.  Time is the number of writes. *)

Write(t) ==
    /\ writes < MaxWrites /\ writes' = writes + 1
    /\ tables' = t
    /\ UNCHANGED << cache, evals, job, faults >>

Now == writes + 1

PersistClaim(row) ==
    /\ Write([tables EXCEPT !.claims = @ \cup {With(row, "id", Cardinality(tables.claims) + 1)}])
    /\ UNCHANGED edits

ReviewFeature(f) ==
    /\ Write([tables EXCEPT !.features[f] = "rejected"])
    /\ UNCHANGED edits

\* A demo is captured, or comes out broken.
InsertMedia(status) ==
    /\ Write([tables EXCEPT !.media = Append(@, status)])
    /\ UNCHANGED edits

Decision(type, target, decision, payload, notes) ==
    [type |-> type, target |-> target, decision |-> decision, payload |-> payload,
     notes |-> notes, at |-> Now]

ApproveArtifact(a) ==
    /\ tables.artifacts[a].status \in {"draft", "rejected"}
    /\ Write([tables EXCEPT !.artifacts[a].status = "approved",
                            !.approvals = @ \cup {Decision("artifact", a, "approved", Nothing, Nothing)}])
    /\ UNCHANGED edits

RejectArtifact(a, notes) ==
    /\ Write([tables EXCEPT !.artifacts[a].status = "rejected",
                            !.approvals = @ \cup {Decision("artifact", a, "rejected", Nothing, notes)}])
    /\ UNCHANGED edits

\* The decision of the gate's own form.
DecideGate(gate) ==
    /\ Decides(gate) # Nothing
    /\ Write([tables EXCEPT !.approvals = @ \cup {Decision(Decides(gate), Nothing, "approved", Nothing, Nothing)}])
    /\ UNCHANGED edits

Notify(gate) ==
    /\ gate \notin DOMAIN tables.notified
    /\ Write([tables EXCEPT !.notified = With(@, gate, Now)])
    /\ UNCHANGED edits

OrKept(new, old) == IF new = Nothing THEN old ELSE new

\* PATCH of an artifact: what the edit has is overwritten, and the edit kept as a
\* decision; an edit of the title alone carries no body.
EditArtifact(a, edit) ==
    /\ Write([tables EXCEPT
          !.artifacts[a] = [@ EXCEPT !.status = "edited",
                                     !.title = OrKept(edit.title, tables.artifacts[a].title),
                                     !.body = OrKept(edit.body, tables.artifacts[a].body)],
          !.approvals = @ \cup {Decision("artifact", a, "edited", edit.body, Nothing)}])
    /\ edits' = Append(edits, [of |-> tables.artifacts[a].body, to |-> edit.body])

\* The skill-learning job mines the edits, the unsupported claims and the
\* notes, with the body as it is by then; what a signal lacks is stored as the
\* empty text.
OrEmpty(text) == IF text = Nothing THEN << >> ELSE text

Signal(kind, from, source, revised) ==
    [kind |-> kind, from |-> from, source |-> source, revised |-> OrEmpty(revised)]

EditSignals ==
    {Signal("reviewer_edit", r.target, tables.artifacts[r.target].body, r.payload) :
        r \in {s \in tables.approvals : s.type = "artifact" /\ s.decision = "edited"}}

ClaimSignals ==
    {Signal("rejected_claim", c.id, c.text, Nothing) :
        c \in {d \in tables.claims : d.support = "unsupported"}}

NoteSignals ==
    {Signal("review_note", r.target, r.notes, Nothing) :
        r \in {s \in tables.approvals : s.type = "artifact" /\ s.notes # Nothing}}

CollectLearningSignals ==
    LET mined == EditSignals \cup ClaimSignals \cup NoteSignals
    IN  /\ tables.signals = << >> /\ mined # {}
        /\ Write([tables EXCEPT !.signals = SetToSeq(mined)])
        /\ UNCHANGED edits

\* Bug: every report is a row of its own.
InPlaceNever(report) == {}

\* ON CONFLICT: the row of the same date and source is overwritten.
InPlace(report) ==
    {r \in tables.engagement : SameReport(r, report)}

\* upsertEngagementRows: an overwritten row keeps its time of creation.
Ingest(report) ==
    LET old == InPlace(report)
        created == IF old = {} THEN Now ELSE (CHOOSE r \in old : TRUE).created
    IN  /\ Write([tables EXCEPT !.engagement = (@ \ old) \cup {With(report, "created", created)}])
        /\ UNCHANGED edits

EvaluationNext ==
    \/ \E e \in Jobs :
          \/ Start(e) \/ Read(e) \/ RecordMetrics(e) \/ ListApproved(e)
          \/ Ask(e) \/ Put(e) \/ Score(e) \/ Fail(e)
          \/ \E v \in Verdicts : Converse(e, v)
    \/ \E row \in ClaimRows : PersistClaim(row)
    \/ \E f \in DOMAIN tables.features : ReviewFeature(f)
    \/ \E status \in {"ready", "broken"} : InsertMedia(status)
    \/ \E a \in DOMAIN tables.artifacts :
          \/ ApproveArtifact(a)
          \/ \E notes \in Notes : RejectArtifact(a, notes)
          \/ \E edit \in Edits : EditArtifact(a, edit)
    \/ \E gate \in Gates : DecideGate(gate) \/ Notify(gate)
    \/ CollectLearningSignals
    \/ \E report \in Reports : Ingest(report)

EvaluationSpec == EvaluationInit /\ [][EvaluationNext]_evaluationVars

-----------------------------------------------------------------------------
(* Properties *)

\* A row of eval_runs is of an evaluation, its type decides its columns, and
\* no evaluation records one metric, or one artifact, twice.
EvaluationTypeOK ==
    /\ \A r \in evals :
          /\ r.by \in Jobs /\ r.type \in ToSet(MetricNames) \cup {"rubric"}
          /\ r.type = "rubric" => r.score \in Scores /\ r.text.artifact \in DOMAIN tables.artifacts
    /\ \A r, s \in evals : r.by = s.by /\ r.type = s.type /\ r # s =>
          r.type = "rubric" /\ r.text.artifact # s.text.artifact
    /\ \A r, s \in tables.engagement : SameReport(r, s) => r = s

\* A metric recorded by an evaluation no write overlapped is what it stands
\* for: a share of the run's claims, features, candidates or media, the time its
\* artifacts and gates waited, the total of the standing reports, and Nothing,
\* never zero, when there is nothing to rate; and, where the signals are one
\* rewriting for each artifact, the mean of the least edits of these
\* (compute_product_metrics over AuroraMetricInputsReader and
\* AuroraEngagementReader).
MetricsAreTrue ==
    \A r \in {x \in evals : x.type # "rubric"} : \A m \in r.meant : SameScore(r.score, m)

\* A score is of the body it is filed under, whatever was rewritten since an
\* earlier evaluation, and two evaluations, even at the same time, never give
\* one body two scores (score_rubric over generate_json and its durable cache).
\* The title the judge saw may be another.
ScoresAreOfTheBody ==
    \A r, s \in {x \in evals : x.type = "rubric"} :
        /\ r.of.artifact = r.text.artifact /\ r.of.body = r.text.body
        /\ r.text.artifact = s.text.artifact /\ r.text.body = s.text.body => r.score = s.score

\* A signal of an edit measures what the edit changed.
EditsAreMeasured ==
    \A i \in DOMAIN tables.signals :
        tables.signals[i].kind = "reviewer_edit"
        => \E n \in DOMAIN edits :
              << tables.signals[i].source, tables.signals[i].revised >> = << edits[n].of, edits[n].to >>
=============================================================================
