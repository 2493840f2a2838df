------------------------------ MODULE EvalMetrics ------------------------------
(***************************************************************************)
(* The deterministic product metrics of a run: what the evaluation reads    *)
(* from each table, and the scores it makes of that.  A score is a fraction *)
(* <<n, d>>, or Nothing when there is nothing to rate.                     *)
(***************************************************************************)
EXTENDS Naturals, FiniteSets, Sequences, Functions, FiniteSetsExt

CONSTANTS
    Nothing,
    Cap          \* _EDIT_DISTANCE_MAX_CHARS

ASSUME EvalMetricsAssumption == Cap \in Nat \ {0}

Capped(text) == SubSeq(text, 1, Min({Cap, Len(text)}))

\* The two-row table of the distance: the row of a prefix of s from the row
\* of the prefix before it.
NextRow(previous, ch, i, t) ==
    LET current[j \in 0..Len(t)] ==
          IF j = 0 THEN i
          ELSE Min({previous[j] + 1, current[j - 1] + 1,
                    previous[j - 1] + (IF ch = t[j] THEN 0 ELSE 1)})
    IN  current

EditDistance(s, t) ==
    LET row[i \in 0..Len(s)] ==
          IF i = 0 THEN [j \in 0..Len(t) |-> j] ELSE NextRow(row[i - 1], s[i], i, t)
    IN  row[Len(s)][Len(t)]

NormalizedEditDistance(a, b) ==
    LET s == Capped(a) t == Capped(b)
    IN  IF s = << >> /\ t = << >> THEN << 0, 1 >>
        ELSE << EditDistance(s, t), Max({Len(s), Len(t)}) >>

Rate(numerator, denominator) ==
    IF denominator = 0 THEN Nothing ELSE << numerator, denominator >>

Plus(p, q) == << p[1] * q[2] + q[1] * p[2], p[2] * q[2] >>

Mean(samples) ==
    LET sum == FoldFunction(Plus, << 0, 1 >>, samples)
    IN  IF DOMAIN samples = {} THEN Nothing
        ELSE << sum[1], sum[2] * Cardinality(DOMAIN samples) >>

-----------------------------------------------------------------------------
(* AuroraMetricInputsReader: one SELECT each, in the order they are made *)

Count(rows, statuses) == Cardinality({k \in DOMAIN rows : rows[k] \in statuses})

\* Bug: a claim counts once for each of its links.
WithLinks(t) == Cardinality({p \in t.claims \X UNION {c.links : c \in t.claims} : p[2] \in p[1].links})

\* count(DISTINCT c.id) over the join with claim_evidence_links.
WithEvidence(t) ==
    LET joined == {p \in t.claims \X UNION {c.links : c \in t.claims} : p[2] \in p[1].links}
    IN  Cardinality({p[1].id : p \in joined})

\* Bug: ordered the other way.
ApprovalLatenciesOfLast(t) ==
    LET Rows(a) == {r \in t.approvals : r.type = "artifact" /\ r.target = a /\ r.decision = "approved"}
    IN  [a \in {b \in DOMAIN t.artifacts : Rows(b) # {}} |->
            << Max({r.at : r \in Rows(a)}) - t.artifacts[a].created, 1 >>]

\* DISTINCT ON (a.id), ordered by the time of the approval.
ApprovalLatencies(t) ==
    LET Rows(a) == {r \in t.approvals : r.type = "artifact" /\ r.target = a /\ r.decision = "approved"}
    IN  [a \in {b \in DOMAIN t.artifacts : Rows(b) # {}} |->
            << Min({r.at : r \in Rows(a)}) - t.artifacts[a].created, 1 >>]

\* The first decision about the run's gate from the notification on.
Decides(gate) ==
    [feature_manifest_approval |-> "feature_manifest", artifact_review |-> "artifact_manifest",
     skill_candidate_approval |-> "skill_candidate_manifest", run_failed |-> Nothing][gate]

NotifyLatencies(t) ==
    LET Rows(g) == {r \in t.approvals : r.type = Decides(g) /\ r.at >= t.notified[g]}
    IN  [g \in {h \in DOMAIN t.notified : Rows(h) # {}} |->
            << Min({r.at : r \in Rows(g)}) - t.notified[g], 1 >>]

\* Of every signal, whatever it was mined from.
EditDistances(t) == [i \in DOMAIN t.signals |->
    NormalizedEditDistance(t.signals[i].source, t.signals[i].revised)]

\* AuroraEngagementReader: DISTINCT ON (artifact_id, metric), ordered by as_of
\* and then created_at, both descending; a metric without rows stays Nothing.
Fresher(r, s) == r.as_of > s.as_of \/ (r.as_of = s.as_of /\ r.created > s.created)

Total(rows) == << MapThenSumSet(LAMBDA r : r.value, rows), 1 >>

Engagement(t) ==
    LET latest == {r \in t.engagement : \A s \in t.engagement :
                      s.artifact = r.artifact /\ s # r => Fresher(r, s)}
    IN  IF latest = {} THEN Nothing ELSE Total(latest)

Select(t, name) ==
    CASE name = "total_claims" -> Cardinality(t.claims)
      [] name = "claims_with_evidence" -> WithEvidence(t)
      [] name = "unsupported_claims" ->
         Cardinality({c \in t.claims : c.support = "unsupported" \/ c.risk = "high"})
      [] name = "total_features" -> Cardinality(DOMAIN t.features)
      [] name = "rejected_features" -> Count(t.features, {"rejected"})
      [] name = "total_skill_candidates" -> Cardinality(DOMAIN t.candidates)
      [] name = "accepted_skill_candidates" -> Count(t.candidates, {"approved", "promoted"})
      [] name = "total_media" -> Cardinality(DOMAIN t.media)
      [] name = "ready_media" -> Count(t.media, {"ready"})
      [] name = "edit_distances" -> EditDistances(t)
      [] name = "approval_latencies" -> ApprovalLatencies(t)
      [] name = "notify_latencies" -> NotifyLatencies(t)
      [] name = "demo_script_selected" -> t.selected
      [] name = "engagement" -> Engagement(t)

Statements ==
    << "total_claims", "claims_with_evidence", "unsupported_claims", "total_features",
       "rejected_features", "total_skill_candidates", "accepted_skill_candidates",
       "total_media", "ready_media", "edit_distances", "approval_latencies",
       "notify_latencies", "demo_script_selected", "engagement" >>

\* compute_product_metrics, with one metric of engagement for the three.
ProductMetrics(i) ==
    [evidence_coverage |-> Rate(i.claims_with_evidence, i.total_claims),
     unsupported_claim_rate |-> Rate(i.unsupported_claims, i.total_claims),
     edit_distance |-> Mean(i.edit_distances),
     approval_latency_seconds |-> Mean(i.approval_latencies),
     notify_to_decision_latency_seconds |-> Mean(i.notify_latencies),
     feature_rejection_rate |-> Rate(i.rejected_features, i.total_features),
     skill_candidate_acceptance_rate |-> Rate(i.accepted_skill_candidates, i.total_skill_candidates),
     media_success_rate |->
         IF i.demo_script_selected THEN Rate(i.ready_media, i.total_media) ELSE Nothing,
     engagement_total |-> i.engagement]

MetricNames ==
    << "evidence_coverage", "unsupported_claim_rate", "edit_distance", "approval_latency_seconds",
       "notify_to_decision_latency_seconds", "feature_rejection_rate",
       "skill_candidate_acceptance_rate", "media_success_rate", "engagement_total" >>

-----------------------------------------------------------------------------
(* What the metrics mean, for comparison *)

\* An alignment keeps characters of s against characters of t, in order; what
\* it does not keep is deleted or inserted, a kept pair that differs replaced.
Alignments(s, t) ==
    {m \in SUBSET ((DOMAIN s) \X (DOMAIN t)) :
        \A p, q \in m : p # q => (p[1] < q[1] /\ p[2] < q[2]) \/ (p[1] > q[1] /\ p[2] > q[2])}

LeastEdits(s, t) ==
    Min({Len(s) + Len(t) - 2 * Cardinality(m) + Cardinality({p \in m : s[p[1]] # t[p[2]]}) :
            m \in Alignments(s, t)})

SameScore(x, y) ==
    IF x = Nothing \/ y = Nothing THEN x = y ELSE x[1] * y[2] = y[1] * x[2]

Share(part, whole) == IF whole = {} THEN Nothing ELSE << Cardinality(part), Cardinality(whole) >>

\* Each reported artifact counts with the report no later one replaced.
Reported(t) == {r.artifact : r \in t.engagement}
Standing(t, a) == CHOOSE r \in t.engagement :
    r.artifact = a /\ \A s \in t.engagement : s.artifact = a => ~Fresher(s, r)

\* How long none of `moments` had come, from `since` on.
Waited(since, moments) ==
    << Cardinality({m \in since..Max(moments) : \A n \in moments : m < n}), 1 >>

\* The moments of the approvals of an artifact, and of the decisions about the
\* gate of a notification, from the notification on.
Approvals(t, a) ==
    {r.at : r \in {s \in t.approvals : s.type = "artifact" /\ s.target = a /\ s.decision = "approved"}}
DecisionsSince(t, g) ==
    {r.at : r \in {s \in t.approvals : s.type = Decides(g) /\ s.at >= t.notified[g]}}

\* The signals that are of a rewriting: of an edit, and with a revised text.
Rewrites(t) == {i \in DOMAIN t.signals :
    t.signals[i].kind = "reviewer_edit" /\ t.signals[i].revised # << >>}

\* The metrics of the tables t, in the words of their docstrings.
Meaning(t) ==
    [evidence_coverage |-> Share({c \in t.claims : c.links # {}}, t.claims),
     unsupported_claim_rate |->
         Share({c \in t.claims : ~(c.support = "supported" /\ c.risk # "high")}, t.claims),
     edit_distance |->
         Mean([i \in Rewrites(t) |->
                LET s == Capped(t.signals[i].source) r == Capped(t.signals[i].revised)
                IN  << LeastEdits(s, r), Max({1, Len(s), Len(r)}) >>]),
     approval_latency_seconds |->
         Mean([a \in {b \in DOMAIN t.artifacts : Approvals(t, b) # {}} |->
                 Waited(t.artifacts[a].created, Approvals(t, a))]),
     notify_to_decision_latency_seconds |->
         Mean([g \in {h \in DOMAIN t.notified : DecisionsSince(t, h) # {}} |->
                 Waited(t.notified[g], DecisionsSince(t, g))]),
     feature_rejection_rate |->
         Share({f \in DOMAIN t.features : t.features[f] = "rejected"}, DOMAIN t.features),
     skill_candidate_acceptance_rate |->
         Share({c \in DOMAIN t.candidates : t.candidates[c] = "approved" \/ t.candidates[c] = "promoted"},
               DOMAIN t.candidates),
     media_success_rate |->
         IF t.selected THEN Share({m \in DOMAIN t.media : t.media[m] = "ready"}, DOMAIN t.media)
         ELSE Nothing,
     engagement_total |->
         IF t.engagement = {} THEN Nothing ELSE Total({Standing(t, a) : a \in Reported(t)})]

\* Every signal is of a rewriting, and no artifact has two.
OneRewriteEach(t) ==
    /\ Rewrites(t) = DOMAIN t.signals
    /\ \A i, j \in DOMAIN t.signals : i # j => t.signals[i].from # t.signals[j].from

\* What the metrics are held to.  The edit distance says it is per artifact that
\* was edited; its reader takes every signal, and a refused claim, a note or an
\* edit of the title as a text deleted, so that with one of these, or with two
\* edits of an artifact, it is something else.
Meant(t) ==
    [name \in {n \in DOMAIN Meaning(t) : n = "edit_distance" => OneRewriteEach(t)} |->
        Meaning(t)[name]]
=============================================================================
