# shipsignal in TLA+

shipsignal turns a release of a repository into reviewed marketing content. A
Next.js application (`app/`) serves the reviewers; a Python worker
(`worker/src/release_worker`) runs LangGraph graphs as GitHub Actions jobs; both
meet in one Aurora Postgres database and in nothing else. Every "handler" is
therefore a short-lived process (a serverless function, an Actions job) that
issues a handful of SQL statements with outward calls in between, and any of
them can overlap with, or be killed under, any other. These modules model the
statements, the reads that decide about them and the calls between them. A text
is what the code looks at in it: the figures, words or patterns it holds.

## 1. Inventory

| Component | State it keeps | Operations | What is hard | What makes it correct | Modules |
|---|---|---|---|---|---|
| Status lattice (`status.py`, `runStatus.ts`) | none | successors, legality, redundancy of a hop | two languages, one lattice | legal hops only, terminal statuses final | `RunStatus`, `StatusLattice` |
| Run lifecycle (`aurora_repository.py`, `nodes.py`, `graph.py`, `__main__.py`, `transient_retry.py`) | `release_runs.status`, `completed_at` | `advance`, `mark_failed`, one job per phase and per resume | redelivered and overlapping jobs, retries, kills, late errors | hops land, gates hold, completion is stamped once | `RunLifecycle` |
| Evidence collection and redaction (`evidence_nodes.py`, `signal_extractors.py`, `redaction.py`) | `evidence_items`, S3 blobs | read the range, extract, redact, store | two jobs over a range that moved; texts and metadata | excerpts and metadata are stored and prompted redacted only | `EvidenceMining`, `FeatureGate` |
| Gate #1, feature review (`feature_nodes.py`, `graph.py`, `resume/route.ts`) | `feature_clusters` and links, checkpoint, marker | cluster, score, persist, halt, review, resume | duplicate inserts, half-linked rows, killed nodes | what is reviewed is grounded | `FeatureGate` |
| Reviewer notifications (`notifier.py`) | `gate_notifications` | check, POST, record | crash or lost answer after the POST | told once, but for faults | `FeatureGate` |
| Content generation and grounding (`content_nodes.py`, `claim_nodes.py`, `content_graph.py`) | artifacts, claims, links, usage | snapshot skills, generate, extract, link, check, persist | redelivered jobs, stale answers, edits meanwhile | drafts are of what they say, and vetted | `ContentRules`, `ContentGeneration` |
| LLM client and cache (`bedrock_client.py`, `aurora_llm_cache.py`, `token_budget.py`) | `llm_response_cache`, telemetry, the budget | look up, call, meter, keep | racing writers, retries, the sweep | one answer per key, paid once | `ContentGeneration`, `Evaluation` |
| Gate #2 review (approve, reject, edit routes; `claims.ts`; `content_graph.py`) | `artifacts`, `artifact_claims`, `approved_artifact_snapshots`, `approvals` | persist, approve, reject, edit, resumed overwrite | read before the transaction, double submit, overwrite half done | approved means recorded and snapshotted, and no block or edit is overtaken | `ArtifactGate` |
| Scheduled publishing (`scheduledPublish*.ts`, the cron workflow) | `scheduled_publishes` | schedule, cancel, reap, claim, check, send, mark | overlapping drains, deaths, re-schedules, lost answers | at most one post per schedule, nothing stuck | `ScheduledPublish` |
| Publish dispatch (`channelPublishLogic.ts`, `mediaPublishLogic.ts`, Slack, GitHub, YouTube routes) | two-phase markers in `approvals`, a video's `external_url` | begin, send, complete, roll back | double clicks, lost answers, a failed rollback | one sender, no false success, an honest retry | `PublishDispatch` |
| Outbound webhook (`outboundDispatch.ts`, `outboundWebhookDeliveries.ts`) | `outbound_webhook_deliveries` | claim, POST with retries, record, sweep | claim races, leases, stale lists | one poster, nothing after a delivery | `OutboundWebhook` |
| Media generation (`media_graph.py`, `media_nodes.py`, `generate-demo`) | `media_assets`, S3, the run's media thread | trigger, capture, narrate, assemble, store | one thread for all jobs, broken steps, edits meanwhile | a ready video is what was approved | `MediaGeneration` |
| Gate #3, skill learning (`skill_learning_*.py`, `aurora_skill_*.py`, `resume-skill`, `skills/candidates` routes) | `skill_revision_candidates`, `skills`, `SKILL.md`, suppressions | mine, draft, decide, scan, promote, suppress | one thread for several candidates, two kinds of decision, two writes | only what was approved is promoted, and wholly | `SkillMining`, `SkillGate` |
| Gate resume and phase dispatch (resume routes, `resumeDispatch.ts`, `release-run.yml`) | one-shot markers, Actions queue, checkpoints | resume, dispatch, supersede | replays, superseded jobs, lost checkpoints | no decision is executed that was not made | at each gate |
| Evaluation (`aurora_eval.py`, `eval_*.py`) | `eval_runs` | read, compute, record, judge | fourteen statements beside writers | a metric is what it stands for | `EvalMetrics`, `Evaluation` |
| Engagement ingestion (`engagement.ts`, `aurora_eval.py`) | `engagement_metrics` | upsert, read the standing report | corrections, several sources | one report per artifact counts | `EvalMetrics`, `Evaluation` |
| Retention and erasure (`erasure.py`, `aurora_privacy.py`) | audit rows, S3, all of a run's rows | list, delete, verify, audit; sweep | partial failure, running workers | nothing left, or no audit row | `Erasure` |
| Webhook intake (`webhooks/github`) | `webhook_deliveries`, `release_runs` | dedupe, insert | redelivery | one run per delivery | none |
| Google connection, settings, dashboard, LangGraph | their own rows | CRUD, OAuth, views; a library | | | none |

`PROJECT.json` lists every component with what is left out of it, and the
hazards at their lines with the properties aimed at them.

## 2. What is modelled

**`RunStatus`** holds the lattice as operators under the source's names
(`Successors`, `CanTransition`, `IsRedundantAdvance`, ...). **`StatusLattice`**
is the abstract specification: the row starts at `created`, takes legal hops
only, and `completed_at` comes with the hop into a terminal status.

**`RunLifecycle`** is the row `(status, completedAt)` and a set of worker
invocations. An invocation runs a job, a sequence of hops (`Program`): the
collection graph, a resumed gate, content, media, or a job that advances
nothing. `advance` is split where another process can come in: `ReadStatus`
(`get_status` and the two checks), `FirstCAS`, `RereadStatus`, `SecondCAS`; a
lost second race raises. `Retry` re-enters the graph at an earlier hop, `Raise`
and `MarkFailed` are the error path, `Kill` is a cancelled runner. `Dispatch`
starts any job at any moment: the order of phases lives outside the worker, so
the model does not assume one. `decided` remembers the gate decisions resumes
were started with. `RunLifecycle` is shown to implement `StatusLattice`.

**`EvidenceMining`** is what the collection node computes: the number of each
added line, the signals of a changed file, redaction of text and metadata, the
identity of an item; then the selection for the clustering prompt, the filter on
the ids a model answers with, and the scores. A line is known by the patterns
that match it, by what each captures of it and by its tokens. An excerpt is cut
(`Truncate`) before it is redacted, and the cut leaves a `fragment` no rule takes;
paths and names of symbols are kept as they were collected, and are part of the
identity, as the repository and the link are.

**`FeatureGate`** is the graph of Gate #1 over it. A job collects a range (which
may have changed since an earlier job looked), stores blobs and rows, clusters
(`ClusterFeatures`: an answer kept from an earlier job, or any, with invented
ids, or one that is not of the schema, which is kept too and fails the job), inserts each feature and links it one statement at a time
(`InsertFeature`, `LinkEvidence`), halts and tells the reviewers
(`Halt`, `PostAccepted`, `PostFails`, `MarkNotified`). Reviewers change single
features and `Resume` under the one-shot marker; the resumed job goes on at the
checkpoint `thread.next`. `Kill` loses what a node had not checkpointed.

**`ContentRules`** is what content generation computes: which types and skills a
run plans, the keys of the model calls, what grounds a claim (among the candidates
searched for this claim, lexical support of a third, figures a subset), policy and guardrail findings, the status they lead to.
**`ContentGeneration`** is the job over it, from `Load` to the transaction that
makes its artifacts visible. A call is `LookUp` in both tiers, `Converse` or
`ConverseFails`, and `Keep` (first writer wins), and the calls of different
types interleave, as the code's threads do. The budget, the two attempts of
`with_retries`, kills, a redelivered job, a reviewer's or a skill writer's edit
and the cache sweep are there. `bills` counts what was paid for each key, `lost`
the answers that never reached the database or were swept from it.

**`ArtifactGate`** is Gate #2 for the artifacts of a run. An approve request is
two steps, `ReadForApproval` (the read and `isApprovable`) and `CommitApproval`
(one transaction: audit row, snapshot of what was *read*, conditional flip).
`Reject` and `Edit` are one transaction each. A resume with `rejected` or
`edited` walks all artifacts of the thread, one `WriteReview` at a time, and can
be retried or killed. `content` is a version number, `log` the audit trail. The
claims of an artifact are an outcome (none, ungrounded, grounded) chosen when
the graph persists them. `MCArtifactGate` adds the symmetry.

**`ScheduledPublish`** is one artifact's rows of `scheduled_publishes`, one per
channel, and the drains. The drain's statements are actions (`StartDrain`
reaps, `ClaimDue` claims a batch), and so are a claimed row's steps
(`CheckApproval`, `Publish`, `MarkSent`, `MarkFailed`, `Abandon`), which
interleave between rows because the code works on them with `Promise.all`.
`due` ranks the rows by the time they became due, which is what a claim is ordered by,
and `aged` is what the reaper compares clocks for. `Publish` returns, fails, or
is cut off after the channel accepted the post. The history variables number
schedules (`gen`, `claim`) and count posts per schedule.

**`PublishDispatch`** is the two-phase marker per destination, and requests that
end with an answer. Channels, Slack and the GitHub release share the steps; a
video (YouTube) also keeps its link before the marker is completed and is asked
for it first. `Reporting` are the routes that tell a failed rollback from a
failed send: X and LinkedIn. `Insert` and `Lookup` are two statements in the
code and two actions here, and a marker cleared in between is answered `idempotent`, as
the code does; `Complete`, `KeepLink` and `Rollback` may throw before
or after they took effect.

**`OutboundWebhook`** is the delivery ledger, and dispatchers that are an approve
route (a list of one) or a sweep (a list read once). `in_flight` is the sentinel
`last_status = -1`, `lapsed` an `updated_at` older than the lease. `Post` is one
attempt; `Record` may throw, and so may the claim after it was won (`Waste`).

**`ExclusiveSend`** is the abstract specification of the last three: a thing has one
sender at a time, goes into the books only when its sender leaves it and it was
accepted, and is sent by nobody from then on. Each reads its own books into it. For
the marker a thing is a destination and the books are the completed markers whose
request is gone (`Booked`; one that is still there may yet roll back). For the ledger it
is a delivery and its `delivered_at`. For the queue it is a schedule of a channel, and
every post counts, since a claim is never given back: what the ledger may repeat, a
POST whose answer was lost, the queue may not.

**`MediaGeneration`** is the trigger and its dispatch, and a job that walks ten
nodes, each under the guard that records a broken step and routes to
`HandleBrokenStep`. All jobs of a run share one thread, and LangGraph writes no
`None` over what a field held: `failed`, the requested feature and the raw
recording of an earlier job are still there. Uploads, model calls and steps fail,
jobs die, reviewers approve and edit the script. **`Erasure`** extends it: an
erasure lists and deletes the objects of each prefix, deletes and counts rows,
looks again and writes the audit row, one call or statement a step, while media
jobs upload and routes insert markers; the retention sweep deletes evidence.
`late` is the history of what was written after its part was looked at.

**`SkillMining`** is what the skill-learning graph computes from reviews: the
diff of an edit, themes, clusters, the skills they touch, the signature that is
suppressed, confidence and the next version. **`SkillGate`** is Gate #3 for two
runs. The routes record a decision for one candidate or for a run under their
marker and dispatch (`DispatchResume`, `DispatchFails`, `RouteDies`); Actions
runs one job of a run and keeps one waiting, the newest (`pending`); the job
walks the run's checkpointed `thread` through draft, persist, the gate, scan,
promotion and mark, or rejection and suppression. `InvokeResume` is the guarded
resume, `RefuseResume` its refusal. Promotion is `PromoteInCatalogue` and then
`ReplaceInCheckout` or `OpenPullRequest`, and only then `MarkPromoted`. `Retry` re-enters,
`Kill` stops anywhere. `decisions` remembers what was decided and for
what; `vouched` and `replaced` what was scanned and written.

**`EvalMetrics`** is each metric as an operator over the tables: the statements
of the reader, the edit distance by its table, the rates, the engagement's
standing reports; and `Meaning`, what each metric is said to be by its docstring and
the comment of its reader, not by its query. The two differ for the edit distance, and
`Meant` says where they must not. **`Evaluation`**
runs two evaluations statement by statement, then the rubric over the durable
cache, which may hold what an earlier evaluation judged, beside writes of reviewers, imports and jobs, of which `CollectLearningSignals`
and `Ingest` are two.

The components meet in the database. An `Approve` or `Unapprove` of the publishing
modules is what a `CommitApproval`, `Reject`, `Edit` or `WriteReview` of
`ArtifactGate` does to the two facts they read (the status, the snapshot), and it
may happen at any moment. The jobs of `RunLifecycle` are what the gate routes
dispatch; `FeatureGate`, `ContentGeneration`, `MediaGeneration` and `SkillGate`
are what goes on inside its four phases. `ContentGeneration` ends where
`ArtifactGate` begins; what `ArtifactGate` approves is what `MediaGeneration` may
film.

## 3. What is checked

| Run | Instance | Result |
|---|---|---|
| `lifecycle` | 2 invocations, 2 attempts | the row makes legal hops only (`LatticeSpec`), landed hops stay landed, gates hold and only rejections cancel, every invocation settles |
| `artifact_gate` | 2 artifacts, 2 requests, 5 audit entries | no approval overtakes a block or an edit: each was rejected first; an approved artifact has one approval per flip, recorded last, with a snapshot; snapshots are frozen and never newer than the content |
| `scheduled` | 2 channels, 2 drains, batches of 1, 2 schedules | one post at most per schedule, the queue implements `ExclusiveSend`, a row's words are true (sent was posted, cancelled was not), only content approved since the claim ships, `sending` ends, due rows are served, those the limit left out too |
| `dispatch` | a channel and a video, 3 requests | the marker implements `ExclusiveSend`; no completed marker, link or answer of success without a post (but a replay answered after another request gave up), and "retry" only where a retry can succeed; pending markers resolve |
| `webhook` | 2 artifacts, 2 dispatchers, 3 attempts, 4 claims | the ledger implements `ExclusiveSend`; claims do not outlive their dispatchers |
| `feature_gate` | one file and one pull request with personal data in path, name, lines and author, relabelled between 2 jobs; 1 of 2 docs items to a prompt, excerpts of 2 tokens; 2 named ids, 1 fault | no excerpt or metadata is raw in S3, tables, checkpoints or prompts; the manifest at the gate is grounded in what a prompt showed; reviewers are told once, but for faults |
| `content` | 2 types, 2 jobs of 2 attempts, 1 edit, 1 fault, a budget one call can exceed | a call is paid again only after its answer was lost; visible artifacts are of the features and skills they name, whole, and drafts hold nothing that blocks |
| `media` | 2 media jobs of 2 attempts, 1 review, 2 erasures, 1 sweep, 1 fault | a ready video shows and says an approved text, along allowed paths; an audited erasure left nothing but what came late |
| `skill_gate` | 2 runs (one writes the checkout, one opens pull requests), 3 candidates, 2 decisions, 1 fault | what is promoted was approved, scanned and written twice; settled candidates stay settled |
| `evaluation` | 2 evaluations after an earlier one, 1 write, 1 fault | undisturbed metrics are what they stand for; a score is of the body it is filed under, and one body has one |
| `resume` | as `skill_gate` | a resume is let through to a thread whose job was killed before the gate: section 6 |
| `rewrite` | as `evaluation`, smaller | mines an edit as the edited text twice: section 6 |

Bounds. Named constants bound what people and faults do (`MaxDecisions`,
`MaxSchedules`, `MaxReviews`, `MaxEdits`, `MaxWrites`, `MaxFaults`), how often a job
is dispatched (`MaxInitial`, `MaxJobs`, `MaxErasures`), and the claims of a
delivery (`MaxClaims`); nothing else is cut. Two invocations, drains and
dispatchers show every pairwise race; a third invocation could only lose a third
compare-and-set, which the code does not try, and the proofs hold for any number.
Three requests are what it takes for one to roll back while a second has lost the
insert and a third takes the marker. Five audit entries fit approve, edit, reject,
approve and an overwrite of one artifact, and block, reject, approve. Two schedules fit a re-schedule under a
running drain; a batch of one leaves the other channel's row out whenever both are due.
One write is enough for bodies that change between two scorings, since the caches an
evaluation begins with hold the score of a body, and of a title, that are no more. Four claims fit a failed dispatch, a lapsed one and their repeats.
In the graphs one fault is a kill or a lost answer at any statement, and the second job
shows what it left behind; two runs over one skill are what promotion can collide on,
and two of its candidates are siblings of one thread.

Fairness.
- `RunLifecycle`: weak fairness of each invocation's own steps. A process that is
  not killed executes. Nobody has to dispatch, and no retry has to happen.
- `ScheduledPublish`: weak fairness of starting a drain (a cron, every fifteen
  minutes), of a live drain's steps and of time; strong fairness of `ClaimDue`,
  that is, drains do not all die between their first statement and their second.
- `PublishDispatch`: weak fairness of each request's steps after it began. Nobody
  clicks twice, and `PendingResolves` excuses a request that died, as the code's
  comments do.
- `OutboundWebhook`: weak fairness of a claimed dispatch's steps and of time. No
  sweep has to come and the consumer has to accept nothing, so that a delivery is
  made eventually is not claimed.
- The graphs have no liveness property: a killed job is dispatched again by a human
  or not at all, and a recorded decision whose job was superseded is not executed
  (section 6). That a live job ends is `JobsSettle`.

Time. `Age` and `Lapse` let a claim grow old only when its holder is gone: a
channel call is cut off after ten seconds against half an hour, three webhook
attempts and their pauses take about half a minute against two. A live holder
slowed beyond that is outside the models.

`CHECK_DEADLOCK FALSE` is set where people, requests and faults are bounded and
the system comes to rest: everywhere but in `lifecycle` and `scheduled`.

Each property has a mutant, an operator named `Bug` in its comment: a mapped
definition with a plausible mistake in it (a dropped `WHERE` conjunct, an
unchecked row count, an upsert that overwrites, a key that leaves out an input).
TLC finds each property violated by its mutant.

## 4. What is proved

The proofs are in the `_proofs` modules and hold for every value of the
constants under the named assumptions of the modules: positive bounds, videos and
reporting routes among the destinations, `None` no element, and what the tables
hold to begin with (rows with their columns, evidence and claim ids that are unique,
engagement with one row per key and imported batch by batch, texts that are texts,
gates of the four the schema knows, objects under the run's two prefixes; the content
hash of a skill, being of its file, tells the skill's name). Every invariant that
a run checks has its theorem, and so have every action property and every refinement.
Each proof is of an inductive invariant that TLC has checked first, but for the parts
that quantify over more than it can enumerate; what a property lacks of being
inductive is named here.

- `RunLifecycle_proofs`. `IInv` adds to the properties what an invocation between
  its read and its write remembers (`InvocationInv`): it is at a hop of its program
  and the hop from the status it *read* was legal. The compare-and-set succeeds only
  if the row still is what was read, so every write of the row is a legal hop
  (`StepRow`); the rest is about the lattice: a legal hop never goes behind a
  hop that landed (`HopKeepsPast`), and only a decided job has a gate's hop
  (`ProgramHops`). Without the memory of the check nothing relates a write to the
  lattice. From it: `TypeOK`, `CompletedAtIffTerminal`, `HopsLand`,
  `GatesRespected`, and `Spec => LatticeSpec`, the refinement.
- `Artifacts_proofs`, Gate #2. The audit log against the rows (`RowsInv`): approved
  is whose last entry is an approval (`LogTells`), it has a snapshot that is no newer
  than its text (`CopiesAreOld`), a hold that is no more the status has its rejection
  (`HoldsTold`), and a text that is not the first version has its edit on the log
  (`EditsTold`).
  A request's commit is of what it *read*, so a reading must be no newer than the
  content (`ReadingIsOld`), and a resumed overwrite must carry a verdict
  (`ReviewHasVerdict`). Proved: `TypeOK`, `HoldsAreAnswered`,
  `ApprovalsOnRecord`, `SnapshotFrozen`.
- `Artifacts_proofs`, evaluations. The row of a score repeats what the cache keeps
  for its body, the cache an evaluation finds included (`CacheTells`), and what is kept is
  never replaced (`AnswerIsKept`, `RowInv`);
  what an evaluation still has to ask about it has not recorded (`RecordsOnce`). For the
  metrics, the statements of an evaluation no write came between answer for one
  state of the tables (`ReadsOneState`). Proved: `EvaluationTypeOK`,
  `ScoresAreOfTheBody`, and `MetricsAreTrue` (`MetricsMeanWhatTheySay`). The last
  rests on what the reader's statements compute of any tables
  (`MetricsSayWhatTheyMean`): the join over a claim's links counts each claim once;
  the two-row table of the edit distance ends with the least number of edits
  (`EditDistanceIsLeast`, by how an alignment of two prefixes ends); the first of the
  approvals, or of the decisions, ends the wait (`ApprovalsSayWhatTheyMean`,
  `NoticesSayWhatTheyMean`); and `DISTINCT ON` leaves each artifact its standing report (`EngagementSaysWhatItMeans`,
  since later writes have later times, `ReportsAreOld`).
- `ScheduledPublish_proofs`. At most one post per schedule needs to know that a
  schedule somebody can still claim is untouched (`Untouched`: no post, no drain at
  work for it), that no two drains work for one schedule of a channel (`Apart`) and
  that what a drain is about to send was not sent (`DrainInv`). Generations not made
  yet are unused (`Unmade`). Most steps change nothing of this but monotonically
  (`Harmless`), and one lemma covers them. Proved: `TypeOK`,
  `AtMostOncePerSchedule`, `RowTellsTruth`, `ShipsOnlyVouched`, and
  `Spec => ShipmentsSpec`: a claim starts with untouched schedules (`ClaimStarts`), a
  post is of a schedule the drain still ships (`PublishAccepts`), and marks, failures
  and crashes leave it (`DrainLeaves`).
- `Claims_proofs`, markers. A request between its insert and its end is the holder
  of its destination's marker, so two of them are one (`SenderHolds`). Proved of
  `PublishDispatch`: `TypeOK`, `OneSender`, `AnswersAreTrue`, `Spec => ExclusiveSpec`,
  and from it that a completed destination is never posted to again
  (`CompletionIsFinal`).
- `Claims_proofs`, deliveries. A dispatcher with a target has its delivery in
  flight, not lapsed and not delivered, which is what `ensureDelivery` refuses
  (`ClaimHeld`). Proved of `OutboundWebhook`: `WebhookTypeOK`, `PostsExclude`,
  `DeliveredWasAccepted`, `WebhookSpec => DeliveriesSpec`, and from it that a
  recorded delivery is never POSTed again (`RecordIsFinal`).
- `FeatureGate_proofs`. A job is about the checkpoint: it is at the node the thread
  names, holds what that node has computed so far and nothing of an earlier one
  (`WhereInv`). Every excerpt and metadata it holds, the thread holds or was stored came
  through redaction (`CleanInv`, with lemmas that redaction leaves no token of a rule in
  them); a row has its blob and an id one row (`RowsInv`); the features of the
  manifest link stored evidence of one prompt that was answered, because the ids of an
  answer are filtered by what the prompt offered (`ManifestInv`); a notice sent twice was
  paid by a fault between its POST and its record (`ToldInv`). Proved: `TypeOK`,
  `ExcerptsAreRedacted`, `GatedFeaturesAreGrounded`, `ToldOnce`.

- `ContentGeneration_proofs`. The key of a call tells all it was asked, so an
  answer under a key, in either tier of the cache or on its way, answers it whoever
  asked (`KeyTells`). What was paid for a key is kept, on its way or lost
  (`BooksInv`). What each draft has been given by each node (`DraftsInv`) is what the
  transaction stores, and later writes of features and skills leave the rows true,
  since they name the snapshot they came from (`TablesInv`). Proved: `TypeOK`,
  `BilledOnce`, `DraftsAreVetted`.
- `Erasure_proofs`. A video is vetted in nine steps and shown long after, so `JobInv`
  says what a job's answer, path, recording and uploads have in common after each,
  and `AssetsInv` that the row keeps it while other jobs, reviewers and deletions
  go on. What is under a prefix the erasure has verified was found or is late
  (`SweptInv`), and its audit is about rows that are gone (`AuditInv`). Proved:
  `TypeOK`, `ReadyIsWhole`, `AuditedIsErased`.
- `SkillGate_proofs`. A promotion is decided at one step and written steps, and
  perhaps jobs, later. A queued resume holds a decision that was made (`QueueInv`), a thread
  past the gate holds what the gate returned (`ThreadInv`), a job writes what the
  thread's resolution is about (`JobInv`), and a candidate remembers its
  scan and its writes (`CandInv`). A thread owns its candidates, so one lemma
  (`Frame`) leaves the threads of other runs alone. Proved: `TypeOK`,
  `PromotedWasApproved`, `PromotionIsComplete`, `SettledIsFinal`.

Only model-checked: the liveness properties (`JobsSettle`, `SendingEnds`,
`DueIsServed`, `PendingResolves`, `ClaimIsTransient`), which need fairness and
ENABLED, out of the prover's reach. So are its rules of induction, which take
operators; where a metric is computed along a text or a list the proofs take a least
counterexample instead (`LeastNatural`), and that a function defined by recursion
exists is shown first (`Recursion`).

Two things were changed to be reasoned about, and the runs with them: where the code
takes the newest row, the model takes any row that none is newer than, since ties are
open, and an evaluation, like a content job, is one record with an empty value for what
it does not hold. One was wrong: an evaluation took a table that had changed and
changed back for one no write had overlapped; it counts the writes now.

`OneSender`, `PostsExclude` and `DeliveredWasAccepted` are theorems no run checks by
name: `ExclusiveSend` implies them, and the runs check that.

## 5. What is left out, and why it matters

- Wording, prompts and layout. What a model answers is a choice among the answers
  the code tells apart; regular expressions are classes of lines and tokens, so a
  pattern that fails to match what it is meant for is outside the models.
- `set_thread_id` and telemetry but for `bills`: other columns and tables.
- A channel without credentials (dry run): the drain marks such a row sent without
  posting, so `RowTellsTruth` is about configured channels.
- Transactions are atomic steps: the code's `withTransaction` runs at the
  default isolation, and each of the modelled transactions decides by one
  conditional statement, which Postgres re-evaluates on the row it locked.
- The phases of a run on one Actions queue: each gate has its own marker, dispatch
  and thread here, and `RunLifecycle` lets the phases come in any order.

Not modelled: webhook intake (dedupe and insert are one transaction, and the run it
inserts is `Init` of `RunLifecycle`), the Google connection (OAuth with an
external service and one upsert), settings, projects, brand and capabilities
(independent rows; what content generation reads of them is in `ContentRules`), the
dashboard's read side, and LangGraph itself, of which the modules use that a
checkpoint is written when a node returns and that a resumed thread goes on at the
node it names.

## 6. Where the code and its comments part

Shown by a run:

1. `resume`: a resume is refused "unless the thread is genuinely halted at a gate
   interrupt" (`__main__.py:164`). A thread whose job was killed before its gate has
   pending work too, and the resume is let through: a decision meant for the gate takes
   it past.
2. `rewrite`: the edit distance is one "between the generated and revised text"
   (`aurora_eval.py:164`). The edit overwrites the generated text before it is mined.

Met while modelling, one line each; `PROJECT.json` quotes the comments:

- Gate #1: a review with `edited` uses the marker up, and the re-review's approve
  dispatches nothing. A feature killed between its row and its links stays without.
  An added line that begins with `++` is taken for a header and shifts the numbers.
  An answer of the clustering model that is not the schema's is kept and fails every
  later job.
- Redaction: paths and names of symbols are stored as they came and the path is
  prompted (`evidence_nodes.py:217`, `feature_nodes.py:132`); an excerpt is cut before it
  is redacted, and what is left of a token at the cut is not recognised
  (`redaction.py:3`).
- Gate #2: a blocked or edited artifact that is rejected can be approved unchecked
  (`approve/route.ts:3`, `claims.ts:249,253`). `HoldsAreAnswered` says that nothing less
  than a rejection is enough.
- Evaluation: the edit distance "per reviewer-edited artifact" (`aurora_eval.py:163`)
  takes every signal: a refused claim, a note or an edit of the title counts 1.0, a second
  edit counts again. The judge reads the title (`eval_rubric.py:149`), its key has only
  the body: after an edit of the title the score of the old one is recorded.
- Gate #3: `edited` is not a status the candidate's column takes, and fails the run.
  A second draft of one version replaces the first in the row's history. Candidates
  are promoted from `draft`. A kill between a rejection and its cooldown leaves none.
- The queue: a waiting resume is cancelled by a later dispatch, while its marker
  answers that the run was resumed.
- Content: an answer that is JSON but not the schema's is kept and fails every later
  job. The budget "per release run" is per client. Claims of a redelivered job are
  paid again, since the key has the artifact's new id.
- Media: a demo for a chosen feature never finds its script. A step that failed once
  is broken for every later job of the thread. A failed expectation of the click path
  fails the run.
- Erasure: what a running job uploads after the verification stays, and a marker
  inserted after the rows were deleted is neither found nor counted.
- Engagement: a correction keeps its `created_at` and stays behind another source.
- Publishing: a mark may land on another drain's claim (`scheduledPublishes.ts:153`).
  A marker deleted between the two statements of `beginApprovalDispatch` reads as
  completed, and its caller is told of a publish that never was. A rejected artifact with a snapshot is published by hand.
- Webhook: a POST accepted but not answered in ten seconds is repeated.

## 7. Plan

Done: all modules of section 2, their runs, and the proofs of section 4. What is
left, in the order of its worth:

1. The phases of a run on one Actions queue: the four resume routes with their
   markers, the waiting job that a newer one cancels, and `RunLifecycle` as what the
   jobs do, against an abstract "each decision is executed at most once, at its own
   gate". `SkillGate` has the queue for one gate.
2. `ArtifactGate`, `ScheduledPublish` and `PublishDispatch` on one artifact: a drain
   and a manual publish of one channel share nothing but the artifact's status.
3. Webhook intake, when there is more in it than its one transaction.
