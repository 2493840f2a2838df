---------------------------- MODULE EvidenceMining ----------------------------
(***************************************************************************)
(* What the collection node computes from a release's diff and pull         *)
(* requests: added lines with their numbers, typed signals, redacted        *)
(* evidence and its identity; and what the next nodes compute from that:    *)
(* the selection for the clustering prompt and the scores.                  *)
(*                                                                          *)
(* A text is a sequence of tokens, a path too.  A line is known by its text  *)
(* and by what each pattern captures of it; a file by its path and by the   *)
(* patterns that match the path.                                            *)
(***************************************************************************)
EXTENDS Naturals, FiniteSets, Sequences, SequencesExt

CONSTANTS
    MaxDocs,     \* docs items in one clustering prompt
    MaxExcerpt,  \* tokens in the excerpt of a signal
    None

ASSUME EvidenceAssumption == MaxDocs \in Nat /\ MaxExcerpt \in Nat

-----------------------------------------------------------------------------
(* Redaction *)

\* The rule that takes a token, by its risk flag.
RiskFlag ==
    [key_block |-> "secret:private_key", key_orphan |-> "secret:private_key",
     aws |-> "secret:aws_access_key", github |-> "secret:github_token",
     slack |-> "secret:slack_token", bearer |-> "secret:bearer",
     stripe |-> "secret:stripe_key", google |-> "secret:google_api_key",
     jwt |-> "secret:jwt", assignment |-> "secret:credential", email |-> "email",
     ipv4 |-> "ip", ipv6 |-> "ip", phone |-> "phone"]

\* What the rules take.  A dotted quad assigned to a version is a word, and so,
\* to them, is what a cut leaves of a token ("fragment").
Personal == DOMAIN RiskFlag

\* redact: every personal token is replaced by its rule's placeholder.
Redact(text) ==
    [text  |-> [i \in DOMAIN text |-> IF text[i] \in Personal THEN "redacted" ELSE text[i]],
     flags |-> {RiskFlag[t] : t \in ToSet(text) \cap Personal}]

-----------------------------------------------------------------------------
(* Signals of a changed file *)

\* A line of a patch: "@" starts a hunk at line `at`, "+" adds, "-" removes,
\* " " is context, "h" is a file header.
\* The new-file number of the line after the first i, None before a hunk.
Counter(patch) ==
    LET c[i \in 0..Len(patch)] ==
          IF i = 0 THEN None
          ELSE IF patch[i].op = "@" THEN patch[i].at
          ELSE IF patch[i].op \in {"+", " "} /\ c[i - 1] # None THEN c[i - 1] + 1
          ELSE c[i - 1]
    IN  c

AddedLines(patch) ==
    {[index |-> i, number |-> Counter(patch)[i - 1], hits |-> patch[i].hits,
      text |-> patch[i].text] : i \in {j \in DOMAIN patch : patch[j].op = "+"}}

\* Confidences, in hundredths, of what a line can match.
LineConfidence ==
    [ui_attr |-> 80, jsx_text |-> 60, route_js |-> 85, route_py |-> 85, flag |-> 75,
     flag_kv |-> 75, ddl |-> 90, ts_export |-> 85, py_public |-> 85, js_test |-> 80,
     py_test |-> 80, heading |-> 70, prose |-> 50]

\* Patterns whose excerpt is the line, and not what they capture of it.
WholeLine == {"ddl", "ts_export", "py_public", "prose"}

\* Patterns whose capture names the signal; of others the name is a keyword.
Naming     == {"flag", "flag_kv", "ddl", "ts_export", "py_public", "py_test"}
Keywording == {"ui_attr", "route_js"}

\* _truncate, before anything is redacted: the cut goes through a token.
Truncate(text) ==
    IF Len(text) <= MaxExcerpt THEN text ELSE SubSeq(text, 1, MaxExcerpt) \o << "fragment" >>

\* The name of a signal is what was captured, as it came.
SymbolName(hit) ==
    IF hit.by \in Naming THEN hit.captured
    ELSE IF hit.by \in Keywording THEN << hit.by >> ELSE None

\* A hit says which pattern matched and what it captured.
LineSignals(file, type, patterns) ==
    UNION {{[type |-> type, symbol |-> SymbolName(h), number |-> l.number,
             text |-> Truncate(IF h.by \in WholeLine THEN l.text ELSE h.captured),
             confidence |-> LineConfidence[h.by]] : h \in {g \in l.hits : g.by \in patterns}} :
               l \in AddedLines(file.patch)}

\* A signal the path alone gives.
PathSignal(file, type, confidence) ==
    [type |-> type, symbol |-> file.path, number |-> None, text |-> Truncate(file.path),
     confidence |-> confidence]

When(condition, signals) == IF condition THEN signals ELSE {}

ExtractUiStrings(file) ==
    When("not_ui" \notin file.traits, LineSignals(file, "ui_string_change", {"ui_attr", "jsx_text"}))

ExtractRoutes(file) ==
    When(file.status = "added" /\ "route_file" \in file.traits, {PathSignal(file, "route", 90)})
    \cup LineSignals(file, "route", {"route_js", "route_py"})

\* A bare key and boolean counts on a line that speaks of flags or features.
ExtractFeatureFlags(file) ==
    LineSignals(file, "feature_flag", {"flag", "flag_kv"})

ExtractSchemaChanges(file) ==
    When(file.status = "added" /\ "migration" \in file.traits,
         {PathSignal(file, "schema_change", 95)})
    \cup LineSignals(file, "schema_change", {"ddl"})

ExtractPublicApiChanges(file) ==
    When("openapi" \in file.traits, {PathSignal(file, "public_api_change", 80)})
    \cup LineSignals(file, "public_api_change", {"ts_export"})
    \cup When("py_init" \in file.traits, LineSignals(file, "public_api_change", {"py_public"}))

\* A new test file that names no case is itself the signal.
ExtractTests(file) ==
    LET named == LineSignals(file, "test", {"js_test", "py_test"})
    IN  When("test_file" \in file.traits,
             IF named = {} /\ file.status = "added" THEN {PathSignal(file, "test", 60)}
             ELSE named)

\* A line is a heading or, if long enough, prose.
ExtractDocsDelta(file) ==
    When("docs" \in file.traits, LineSignals(file, "docs_delta", {"heading", "prose"}))

CodeSignals(file) ==
    ExtractUiStrings(file) \cup ExtractRoutes(file) \cup ExtractFeatureFlags(file)
    \cup ExtractSchemaChanges(file) \cup ExtractPublicApiChanges(file) \cup ExtractTests(file)

-----------------------------------------------------------------------------
(* Evidence *)

\* Evidence before it is redacted.  A source is where it was read, the
\* repository and the link a human follows.
CollectedEvidence(type, source, file, symbol, text, meta, line, confidence) ==
    [type |-> type, source |-> source, file |-> file, symbol |-> symbol, text |-> text,
     meta |-> meta, line |-> line, confidence |-> confidence]

GitDiff(diff)   == << "git_diff", diff.repo, "compare" >>
PatchText(file) == FlattenSeq([i \in DOMAIN file.patch |-> file.patch[i].text])

\* One item per file that has a patch: binary files have none.
WholeFileEvidence(diff) ==
    {CollectedEvidence("code_diff", GitDiff(diff), f.path, None, PatchText(f), << >>, None, None) :
        f \in {g \in diff.files : PatchText(g) # << >>}}

SignalEvidence(diff, file, signals) ==
    {CollectedEvidence(s.type, GitDiff(diff), file.path, s.symbol, s.text, << >>, s.number,
                       s.confidence) : s \in signals}

\* Each pull request and each of its linked issues.
PullRequestEvidence(diff) ==
    LET Direct(type, name, x) ==
          CollectedEvidence(type, << name, diff.repo, x.url >>, None, None, x.text, x.meta, None, 100)
    IN  UNION {{Direct("pr_metadata", "pr_metadata", pr)}
               \cup {Direct("issue", "issue_tracker", i) : i \in pr.issues} : pr \in diff.pulls}

Collected(diff) ==
    WholeFileEvidence(diff) \cup PullRequestEvidence(diff)
    \cup UNION {SignalEvidence(diff, f, ExtractDocsDelta(f) \cup CodeSignals(f)) : f \in diff.files}

\* Evidence whose excerpt and metadata are `excerpt` and `meta`.  The path and
\* the name of the symbol are kept as they were collected.
RedactedEvidence(item, excerpt, meta, flags) ==
    [type |-> item.type, source |-> item.source, file |-> item.file, symbol |-> item.symbol,
     excerpt |-> excerpt, meta |-> meta, flags |-> flags, line |-> item.line,
     confidence |-> item.confidence]

\* Bug: the values of the metadata go as they came.
RedactEvidenceText(item) ==
    LET body == Redact(item.text)
    IN  RedactedEvidence(item, body.text, item.meta, body.flags)

\* redact_evidence: the excerpt and the values of the metadata.
RedactEvidence(item) ==
    LET body == Redact(item.text)
        meta == Redact(item.meta)
    IN  RedactedEvidence(item, body.text, meta.text, body.flags \cup meta.flags)

\* The identity of an item: where it comes from and its redacted excerpt.
EvidenceId(item) == << item.type, item.source, item.file, item.symbol, item.excerpt >>

-----------------------------------------------------------------------------
(* What the prompt is made of, and the scores *)

\* _select_for_clustering: no empty excerpts, and of the docs only the longest.
Selections(records) ==
    LET shown == {e \in records : e.excerpt # << >>}
        docs  == {e \in shown : e.type = "docs_delta"}
        count == IF Cardinality(docs) <= MaxDocs THEN Cardinality(docs) ELSE MaxDocs
    IN  {(shown \ docs) \cup kept :
            kept \in {k \in SUBSET docs :
                        /\ Cardinality(k) = count
                        /\ \A e \in k, d \in docs \ k : Len(d.excerpt) <= Len(e.excerpt)}}

\* Bug: the ids of the answer are not compared with the prompt's.
KnownIdsOfAnswer(answer, selected) == answer

\* cluster_features_with_bedrock: ids the prompt did not hold are dropped, and
\* with them a feature that has none left.
KnownIds(answer, selected) ==
    {ids \cap {EvidenceId(e) : e \in selected} : ids \in answer} \ {{}}

MeanConfidence(linked) ==
    LET rated == {e \in linked : e.confidence # None}
    IN  IF rated = {} THEN 50
        ELSE MapThenSumSet(LAMBDA e : e.confidence, rated) \div Cardinality(rated)

LaunchRisk(confidence) ==
    IF confidence >= 75 THEN "low" ELSE IF confidence >= 50 THEN "medium" ELSE "high"

\* score_features: confidence and launch risk, from the linked evidence.
Score(ids, records) ==
    LET mean == MeanConfidence({e \in records : EvidenceId(e) \in ids})
    IN  [ids |-> ids, confidence |-> mean, risk |-> LaunchRisk(mean)]

=============================================================================
