------------------------------ MODULE SkillGate ------------------------------
(***************************************************************************)
(* Gate #3: the skill-learning graph of a run drafts revisions of skills,   *)
(* halts, and promotes or rejects them when a human has decided.            *)
(*                                                                          *)
(* Three parties share the database.  The routes record a decision under a  *)
(* one-shot marker and dispatch a job.  GitHub Actions runs the jobs of a   *)
(* run's graph one at a time, with one more pending.  The job walks the     *)
(* run's checkpointed thread from node to node; a node that died halfway is *)
(* entered again from its beginning by the next job that gets to run.       *)
(***************************************************************************)
EXTENDS SkillMining

CONSTANTS
    Runs,
    All,           \* the scope of a decision for every draft of the run
    Reviews,       \* the recorded review actions of each run
    OnDisk,        \* skills whose SKILL.md is in the checkout
    Version,       \* the version in each skill's SKILL.md
    Mode,          \* SKILL_PROMOTION_MODE of a run's jobs: direct or pr
    MaxCandidates, \* bound: candidates ever drafted
    MaxInitial,    \* bound: initial jobs dispatched
    MaxDecisions,  \* bound: decisions recorded
    MaxFaults      \* bound: kills, blips, lost answers, snapshots other runs
                   \* take and cooldowns that end

Ids == 1..MaxCandidates

ASSUME GateAssumption ==
    /\ MaxCandidates \in Nat /\ MaxInitial \in Nat /\ MaxDecisions \in Nat
    /\ MaxFaults \in Nat
    /\ DOMAIN Reviews = Runs /\ OnDisk \subseteq Skills /\ DOMAIN Version = Skills
    /\ All \notin Ids /\ None \notin Runs /\ None \notin Ids
    /\ Mode \in [Runs -> {"direct", "pr"}]

VARIABLES
    \* the database
    draft,        \* what was drafted, by its id
    status,       \* skill_revision_candidates.status, "absent" without a row
    suppressions, \* patterns in their cooldown
    catalogue,    \* the skills table: current version, versions
    active,       \* active snapshot of a skill
    markers,      \* dedupe keys in approvals
    \* the routes, GitHub and the checkpoints
    deciding,     \* decisions recorded and not yet dispatched
    pending,      \* the job that waits in a run's concurrency group
    running,      \* the job that runs, or NoJob
    thread,       \* checkpoint of the run's thread
    \* history and bounds
    decisions,    \* every decision a human made
    vouched,      \* candidates whose last scan was clean
    replaced,     \* candidates whose SKILL.md or pull request was written
    initials, faults

rows    == << draft, status, suppressions, catalogue, active >>
actions == << pending, running >>
history == << decisions, vouched, replaced >>
counts  == << initials, faults >>
vars    == << rows, markers, deciding, actions, thread, history, counts >>

Decision == {"approved", "rejected", "edited"}
Scope    == Ids \cup {All}

\* SkillGateResolution, with the run it is for.
Resolution == [run : Runs, decision : Decision, scope : Scope]

\* A job of the skill_learning graph: initial, or a resume with its value.
\* `todo` is what the node it is in has still to write, `half` the candidate
\* it is in the middle of.
Job(kind, value) ==
    [kind |-> kind, value |-> value, at |-> "none", todo |-> {}, half |-> None]

NoJob == Job("none", None)

\* A candidate as it is drafted; its row is inserted with status draft.
SkillRevisionCandidate(r, i) ==
    [run |-> r, skill |-> i.skill, base |-> i.snapshot,
     version |-> BumpMinor(Version[i.skill]),
     pattern |-> PatternHash(i.skill, i.clusters),
     confidence |-> Confidence(i.clusters)]

\* skill_revision_candidates.status as its CHECK has it.
CandidateStatus ==
    {"draft", "pending_review", "approved", "rejected", "promoted", "failed",
     "suppressed_duplicate"}

PreGate  == {"collect", "draft", "persist"}
PostGate == {"scan", "update", "mark", "reject"}

\* SkillLearningState: where the thread is and what its nodes have put in it.
FreshThread(at) ==
    [next |-> at, impacted |-> {}, cands |-> {}, resolution |-> None, records |-> {}]

TypeOK ==
    /\ \A c \in Ids : status[c] \in CandidateStatus \cup {"absent"}
    /\ \A c \in Ids : status[c] # "absent" => c \in DOMAIN draft
    /\ \A k \in Skills : DOMAIN catalogue[k].versions \subseteq {BumpMinor(Version[k])}
    /\ \A k \in Skills : active[k] \in Snapshots \cup {None}
    /\ markers \subseteq Runs \cup Ids
    /\ deciding \subseteq Resolution
    /\ \A r \in Runs : thread[r].next \in PreGate \cup PostGate \cup {"gate", "end"}
    /\ \A r \in Runs : thread[r].records \subseteq thread[r].cands
    /\ \A r \in Runs : thread[r].cands \subseteq DOMAIN draft
    /\ vouched \subseteq Ids /\ replaced \subseteq Ids
    /\ initials \in 0..MaxInitial /\ faults \in 0..MaxFaults

Init ==
    /\ draft = << >>
    /\ status = [c \in Ids |-> "absent"]
    /\ suppressions = {}
    /\ catalogue = [k \in Skills |-> [current |-> None, versions |-> << >>]]
    /\ \E commit \in Commits : active = [k \in Skills |-> << k, commit >>]
    /\ markers = {}
    /\ deciding = {}
    /\ pending = [r \in Runs |-> NoJob]
    /\ running = [r \in Runs |-> NoJob]
    /\ thread = [r \in Runs |-> FreshThread("end")]
    /\ decisions = {} /\ vouched = {} /\ replaced = {}
    /\ initials = 0 /\ faults = 0

Fault == faults < MaxFaults /\ faults' = faults + 1

-----------------------------------------------------------------------------
(* The routes *)

\* One more job for the group of r; the one that waited is cancelled.
Enqueue(r, job) == pending' = [pending EXCEPT ![r] = job]

\* The marker a decision is recorded under.
DedupeKey(d) == IF d.scope = All THEN d.run ELSE d.scope

\* Drafts of r a reviewer can see.
Shown(r) == {c \in Ids : status[c] # "absent" /\ draft[c].run = r}

\* getCandidateResumeTarget: the candidate has a row, and through its signals a run.
HasTarget(d) == d.scope = All \/ d.scope \in Shown(d.run)

\* recordApprovalIdempotent: the insert decides.
RecordDecision(d) ==
    /\ Cardinality(decisions) < MaxDecisions
    /\ HasTarget(d)
    /\ d.scope # All => d.decision # "edited"
    /\ DedupeKey(d) \notin markers
    /\ markers' = markers \cup {DedupeKey(d)}
    /\ deciding' = deciding \cup {d}
    /\ decisions' = decisions \cup
         {[run |-> d.run, scope |-> d.scope, decision |-> d.decision]}
    /\ UNCHANGED << rows, actions, thread, vouched, replaced, counts >>

\* dispatchResume, answered.
DispatchResume(d) ==
    /\ d \in deciding
    /\ deciding' = deciding \ {d}
    /\ Enqueue(d.run, Job("resume", d))
    /\ UNCHANGED << rows, markers, running, thread, history, counts >>

\* It failed for the route, refused or accepted with the answer lost: the
\* marker is deleted.
DispatchFails(d) ==
    /\ d \in deciding
    /\ Fault
    /\ deciding' = deciding \ {d}
    /\ markers' = markers \ {DedupeKey(d)}
    /\ Enqueue(d.run, Job("resume", d)) \/ UNCHANGED pending
    /\ UNCHANGED << rows, running, thread, history, initials >>

\* The route dies after the insert: the marker stays.
RouteDies(d) ==
    /\ d \in deciding
    /\ Fault
    /\ deciding' = deciding \ {d}
    /\ UNCHANGED << rows, markers, actions, thread, history, initials >>

\* An operator dispatches the graph of r, for the first time or again.
DispatchInitial(r) ==
    /\ initials < MaxInitial
    /\ initials' = initials + 1
    /\ Enqueue(r, Job("initial", None))
    /\ UNCHANGED << rows, markers, deciding, running, thread, history, faults >>

\* Content generation of some run snapshots a skill at another commit; one
\* snapshot stays active.
UpsertSnapshot(k, commit) ==
    /\ Fault
    /\ active[k] # << k, commit >>
    /\ active' = [active EXCEPT ![k] = << k, commit >>]
    /\ UNCHANGED << draft, status, suppressions, catalogue, markers,
                    deciding, actions, thread, history, initials >>

\* A cooldown runs out: suppressed_until passes.
CooldownEnds(p) ==
    /\ p \in suppressions
    /\ Fault
    /\ suppressions' = suppressions \ {p}
    /\ UNCHANGED << draft, status, catalogue, active, markers, deciding,
                    actions, thread, history, initials >>

-----------------------------------------------------------------------------
(* A job *)

\* Bug: a decision for one candidate decides all of them.
CandidatesInScopeAll(state) == state.cands

\* _candidates_in_scope: drafts the resolution decides; none is an error.
CandidatesInScope(state) ==
    IF state.resolution.scope = All THEN state.cands
    ELSE state.cands \cap {state.resolution.scope}

\* What a node has to write, from the thread's state.
ToWrite(state, node) ==
    CASE node = "persist" -> state.cands
      [] node \in {"update", "reject"} -> CandidatesInScope(state)
      [] node = "mark" -> state.records
      [] OTHER -> {}

\* The nodes take the candidates in the order of the drafts.
IsNext(r, c) == c \in running[r].todo /\ \A d \in running[r].todo : c <= d

InNode(r, node) == running[r].at = node

\* The job of r is over; the thread keeps its last checkpoint.
EndJob(r) == running' = [running EXCEPT ![r] = NoJob]

\* A node is done: the checkpoint holds `state` and names the next, which `job`
\* enters.
Checkpoint(r, job, state, node) ==
    /\ thread' = [thread EXCEPT ![r] = [state EXCEPT !.next = node]]
    /\ running' = [running EXCEPT ![r] =
         IF node = "end" THEN NoJob
         ELSE [job EXCEPT !.at = node, !.todo = ToWrite(state, node), !.half = None]]

\* The pending job of r gets its turn.
TakesTurn(r, kind) ==
    /\ running[r].kind = "none" /\ pending[r].kind = kind
    /\ pending' = [pending EXCEPT ![r] = NoJob]
    /\ UNCHANGED << rows, markers, deciding, history, counts >>

\* An initial job invokes the graph with a new input, whatever the thread holds.
InvokeInitial(r) ==
    /\ TakesTurn(r, "initial")
    /\ Checkpoint(r, pending[r], FreshThread("collect"), "collect")

\* _assert_pending_interrupt: snapshot.next is not empty.
PendingInterrupt(r) == thread[r].next # "end"

\* A resume that is let through goes on at the node the checkpoint names; with
\* none, the graph runs from its start.
InvokeResume(r) ==
    /\ TakesTurn(r, "resume")
    /\ PendingInterrupt(r)
    /\ IF thread[r].next = "end" THEN Checkpoint(r, pending[r], FreshThread("collect"), "collect")
       ELSE Checkpoint(r, pending[r], thread[r], thread[r].next)

RefuseResume(r) ==
    /\ TakesTurn(r, "resume")
    /\ ~PendingInterrupt(r)
    /\ UNCHANGED << running, thread >>

-----------------------------------------------------------------------------
(* Up to the gate *)

\* Every review action of the run becomes a signal.
Signals(r) == {LearningSignal(raw) : raw \in Reviews[r]}

\* active_skills_for_snapshots: the active snapshot, if the file is there.
ActiveSkills == [k \in Skills |-> IF k \in OnDisk THEN active[k] ELSE None]

\* From the reviews to the impacted skills: four nodes that only compute, but
\* for the signals they store.
SelectImpacted(r) ==
    LET clusters == EditClusters(Signals(r)) \cup RejectionClusters(Signals(r))
    IN  /\ InNode(r, "collect")
        /\ Checkpoint(r, running[r], [thread[r] EXCEPT !.impacted = ImpactedSkills(clusters, ActiveSkills)],
                      "draft")
        /\ UNCHANGED << rows, markers, deciding, pending, history, counts >>

\* The impacted skills whose pattern is not in a cooldown.
Proposable(r) ==
    {i \in thread[r].impacted : PatternHash(i.skill, i.clusters) \notin suppressions}

Unused == Ids \ DOMAIN draft

\* Ids for n proposals; which ones does not matter.
FreshIds(n) == {c \in Unused : Cardinality({d \in Unused : d < c}) < n}

\* One model call per proposable skill.  Nothing reads the impacted skills later.
DraftCandidates(r) ==
    LET todo == Proposable(r)
        ids  == FreshIds(Cardinality(todo))
    IN  /\ InNode(r, "draft")
        /\ Bijection(ids, todo) # {}
        /\ LET for == CHOOSE f \in Bijection(ids, todo) : TRUE
           IN  draft' = [c \in DOMAIN draft \cup ids |->
                           IF c \in ids THEN SkillRevisionCandidate(r, for[c]) ELSE draft[c]]
        /\ Checkpoint(r, running[r], [FreshThread("draft") EXCEPT !.cands = ids], "persist")
        /\ UNCHANGED << status, suppressions, catalogue, active, markers,
                        deciding, pending, history, counts >>

\* insert_candidate, for one of them: ON CONFLICT (id) DO NOTHING.
InsertCandidate(r, c) ==
    /\ InNode(r, "persist") /\ IsNext(r, c)
    /\ status' = [status EXCEPT ![c] = IF @ = "absent" THEN "draft" ELSE @]
    /\ running' = [running EXCEPT ![r].todo = @ \ {c}]
    /\ UNCHANGED << draft, suppressions, catalogue, active, markers,
                    deciding, pending, thread, history, counts >>

AllPersisted(r) ==
    /\ InNode(r, "persist") /\ running[r].todo = {}
    /\ Checkpoint(r, running[r], thread[r], "gate")
    /\ UNCHANGED << rows, markers, deciding, pending, history, counts >>

\* The interrupt: the job that came without a decision ends here.  So may one
\* whose decision was taken in before the gate was reached.
Halt(r) ==
    /\ InNode(r, "gate")
    /\ EndJob(r)
    /\ UNCHANGED << rows, markers, deciding, pending, thread, history, counts >>

\* The gate returns the job's decision.
ResolveGate(r) ==
    /\ InNode(r, "gate") /\ running[r].kind = "resume"
    /\ LET value == running[r].value
       IN  Checkpoint(r, running[r], [thread[r] EXCEPT !.resolution = value, !.records = {}],
                      RouteAfterGate3(value.decision))
    /\ UNCHANGED << rows, markers, deciding, pending, history, counts >>

-----------------------------------------------------------------------------
(* After the gate *)

\* prevent_unsafe_promotion scans every draft of the thread.
ScanPasses(r) ==
    /\ InNode(r, "scan")
    /\ vouched' = vouched \cup thread[r].cands
    /\ Checkpoint(r, running[r], thread[r], "update")
    /\ UNCHANGED << rows, markers, deciding, pending, decisions, replaced, counts >>

\* A finding in any of them fails the job.
ScanBlocks(r) ==
    /\ InNode(r, "scan")
    /\ vouched' = vouched \ thread[r].cands
    /\ EndJob(r)
    /\ UNCHANGED << rows, markers, deciding, pending, thread, decisions, replaced, counts >>

\* The decision names a candidate the thread does not hold: the job fails.
ScopeError(r) ==
    /\ InNode(r, "update") \/ InNode(r, "reject")
    /\ CandidatesInScope(thread[r]) = {} /\ thread[r].resolution.scope # All
    /\ EndJob(r)
    /\ UNCHANGED << rows, markers, deciding, pending, thread, history, counts >>

\* The function f with f[x] = y.
With(f, x, y) == [z \in DOMAIN f \cup {x} |-> IF z = x THEN y ELSE f[z]]

\* The first write of a promotion: the version in the skills table, the other
\* versions of the row kept.
PromoteInCatalogue(r, c) ==
    LET d == draft[c]
    IN  /\ InNode(r, "update") /\ IsNext(r, c) /\ running[r].half = None
        /\ catalogue' = [catalogue EXCEPT ![d.skill] =
             [current |-> d.version, versions |-> With(@.versions, d.version, c)]]
        /\ running' = [running EXCEPT ![r].half = c]
        /\ UNCHANGED << draft, status, suppressions, active, markers,
                        deciding, pending, thread, history, counts >>

\* Either writer is done with the candidate the node is in the middle of.
Replaced(r, c) ==
    /\ InNode(r, "update") /\ running[r].half = c
    /\ replaced' = replaced \cup {c}
    /\ running' = [running EXCEPT ![r].todo = @ \ {c}, ![r].half = None]
    /\ UNCHANGED << rows, markers, deciding, pending, thread, decisions, vouched, counts >>

\* The second write, direct mode: SKILL.md in the job's checkout.
ReplaceInCheckout(r, c) == Mode[r] = "direct" /\ Replaced(r, c)

\* The second write, pr mode: branch, commit and pull request, all found again
\* by the hash of path and content when an earlier attempt had made them.
OpenPullRequest(r, c) == Mode[r] = "pr" /\ Replaced(r, c)

AllReplaced(r) ==
    /\ InNode(r, "update") /\ running[r].todo = {}
    /\ thread[r].resolution.scope = All \/ CandidatesInScope(thread[r]) # {}
    /\ LET written == CandidatesInScope(thread[r])
       IN  Checkpoint(r, running[r], [thread[r] EXCEPT !.records = written], "mark")
    /\ UNCHANGED << rows, markers, deciding, pending, history, counts >>

\* mark_promoted: a pull request still has to be merged.
MarkPromoted(r, c) ==
    /\ InNode(r, "mark") /\ IsNext(r, c)
    /\ status' = [status EXCEPT ![c] = IF Mode[r] = "direct" THEN "promoted" ELSE "approved"]
    /\ running' = [running EXCEPT ![r].todo = @ \ {c}]
    /\ UNCHANGED << draft, suppressions, catalogue, active, markers,
                    deciding, pending, thread, history, counts >>

\* Bug: the column takes any status.
RecordableAny(decision) == TRUE

\* The status column's CHECK lets the decision in.
Recordable(decision) == decision \in CandidateStatus

\* record_rejection: the decision is the status.
RecordRejection(r, c) ==
    LET decision == thread[r].resolution.decision
    IN  /\ InNode(r, "reject") /\ IsNext(r, c) /\ running[r].half = None
        /\ IF Recordable(decision)
           THEN /\ status' = [status EXCEPT ![c] = decision]
                /\ running' = [running EXCEPT ![r].half = c]
           ELSE /\ EndJob(r)
                /\ UNCHANGED status
        /\ UNCHANGED << draft, suppressions, catalogue, active, markers,
                        deciding, pending, thread, history, counts >>

\* add_suppression, after a rejection.
AddSuppression(r, c) ==
    /\ InNode(r, "reject") /\ running[r].half = c
    /\ suppressions' = suppressions \cup {draft[c].pattern}
    /\ running' = [running EXCEPT ![r].todo = @ \ {c}, ![r].half = None]
    /\ UNCHANGED << draft, status, catalogue, active, markers,
                    deciding, pending, thread, history, counts >>

\* Bug: the thread goes back to the gate for the other drafts.
Reopened(state) == "gate"

\* Both branches lead to the end, whichever drafts were in scope.
AfterLastNode(state) == "end"

\* The last node of either branch.
Finish(r) ==
    /\ running[r].todo = {}
    /\ \/ InNode(r, "mark")
       \/ InNode(r, "reject") /\ (thread[r].resolution.scope = All
                                  \/ CandidatesInScope(thread[r]) # {})
    /\ Checkpoint(r, running[r], thread[r], AfterLastNode(thread[r]))
    /\ UNCHANGED << rows, markers, deciding, pending, history, counts >>

-----------------------------------------------------------------------------
(* Faults *)

\* with_retries: a model call, a scan or a GitHub call timed out.  An initial
\* invocation starts again with its input, a resumed one at the same node.
Retry(r) ==
    /\ Fault
    /\ running[r].at \in {"draft", "scan", "update"}
    /\ IF running[r].kind = "initial" THEN Checkpoint(r, running[r], FreshThread("collect"), "collect")
       ELSE Checkpoint(r, running[r], thread[r], running[r].at)
    /\ UNCHANGED << rows, markers, deciding, pending, history, initials >>

\* The runner dies, or the job fails: the database, GitHub, a path that is not
\* a skill's.
Kill(r) ==
    /\ Fault
    /\ running[r].kind # "none"
    /\ EndJob(r)
    /\ UNCHANGED << rows, markers, deciding, pending, thread, history, initials >>

-----------------------------------------------------------------------------

Environment ==
    \/ \E r \in Runs, s \in Scope, d \in Decision :
          RecordDecision([run |-> r, decision |-> d, scope |-> s])
    \/ \E d \in deciding : DispatchResume(d) \/ DispatchFails(d) \/ RouteDies(d)
    \/ \E r \in Runs : DispatchInitial(r)
    \/ \E k \in Skills, commit \in Commits : UpsertSnapshot(k, commit)
    \/ \E p \in suppressions : CooldownEnds(p)

Step(r) ==
    \/ InvokeInitial(r) \/ InvokeResume(r) \/ RefuseResume(r)
    \/ SelectImpacted(r) \/ DraftCandidates(r)
    \/ AllPersisted(r) \/ Halt(r) \/ ResolveGate(r)
    \/ ScanPasses(r) \/ ScanBlocks(r) \/ ScopeError(r)
    \/ AllReplaced(r) \/ Finish(r)
    \/ \E c \in Ids : \/ InsertCandidate(r, c) \/ PromoteInCatalogue(r, c)
                      \/ ReplaceInCheckout(r, c) \/ OpenPullRequest(r, c)
                      \/ MarkPromoted(r, c)
                      \/ RecordRejection(r, c) \/ AddSuppression(r, c)

Next ==
    \/ Environment
    \/ \E r \in Runs : Step(r) \/ Retry(r) \/ Kill(r)

Spec == Init /\ [][Next]_vars

-----------------------------------------------------------------------------
(* Properties *)

\* A decision covers a candidate: it is for it alone, or for all of its run.
Covers(d, c) == d.run = draft[c].run /\ d.scope \in {All, c}

Bodies == UNION {{catalogue[k].versions[v] : v \in DOMAIN catalogue[k].versions} : k \in Skills}

Promoted == Bodies \cup replaced \cup {c \in Ids : status[c] \in {"promoted", "approved"}}

\* No skill is written, in the table, in the repository or in a pull request,
\* without a human's approval that covers this candidate: approving one draft
\* promotes no sibling, and no reject turns into a promotion.
PromotedWasApproved ==
    \A c \in Promoted : \E d \in decisions : d.decision = "approved" /\ Covers(d, c)

\* What is in use was scanned, and a row that says promoted stands for both
\* writes: the skills table has that version and the file was replaced.
PromotionIsComplete ==
    /\ Bodies \subseteq vouched
    /\ \A c \in Ids : status[c] \in {"promoted", "approved"} =>
          /\ c \in replaced
          /\ draft[c].version \in DOMAIN catalogue[draft[c].skill].versions

\* A candidate that is promoted or rejected stays so, whatever jobs and
\* decisions come after.
SettledIsFinal ==
    [][\A c \in Ids : status[c] \in {"promoted", "approved", "rejected"} =>
          status'[c] = status[c]]_vars

\* A resume is let through only to a thread that has come to its gate
\* (_assert_pending_interrupt: "unless the thread is genuinely halted at a gate
\* interrupt"): from an earlier node the decision would be taken for drafts that
\* are not there yet.
ResumedAtGate ==
    [][\A r \in Runs : running[r].kind = "none" /\ running'[r].kind = "resume" =>
          thread[r].next \notin PreGate]_vars

=============================================================================
