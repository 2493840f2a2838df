---------------------------- MODULE ArtifactGate -----------------------------
(***************************************************************************)
(* Gate #2: the human review of the artifacts of one run.                  *)
(*                                                                         *)
(* The content graph persists each artifact as draft or blocked; reviewers *)
(* approve, reject or edit it through the dashboard's routes; a resume of  *)
(* the halted graph with rejected or edited overwrites the status of every *)
(* artifact of the thread.  An approve request reads the artifact, leaves  *)
(* the database, and comes back with a transaction: everything may happen  *)
(* in between.                                                             *)
(***************************************************************************)
EXTENDS Naturals, Sequences, Functions

CONSTANTS
    Artifacts,      \* the run's artifacts
    Requests,       \* approve requests
    MaxDecisions,   \* bound: audit entries of the run
    None            \* no value: no request running, graph not resumed

ASSUME MaxDecisionsAssumption == MaxDecisions \in Nat \ {0}

Statuses == {"absent", "draft", "blocked", "approved", "rejected", "edited"}

\* What claim extraction and grounding left on an artifact: no claim at all,
\* some claim unsupported or unlinked, or every claim supported and linked.
ClaimKinds == {"none", "ungrounded", "grounded"}

\* What befell an artifact: a check blocked it; it was decided at Gate #2, or its
\* status overwritten by the resumed graph with the same words.
Entries == {"blocked", "approved", "rejected", "edited"}

VARIABLES
    status,     \* artifacts.status
    content,    \* version of title/body; every edit makes a new one
    claims,     \* artifact_claims with their links
    snapshot,   \* content version of approved_artifact_snapshots, 0: no row
    log,        \* approvals rows about the artifact, with the worker's statuses
    request,    \* approve request -> None or what it read
    review,     \* the resumed graph: artifacts still to be overwritten
    verdict     \* the decision it was resumed with

rows == << status, content, claims, snapshot, log >>
vars == << rows, request, review, verdict >>

Reading == [artifact : Artifacts, content : Nat]

TypeOK ==
    /\ status \in [Artifacts -> Statuses]
    /\ content \in [Artifacts -> Nat]
    /\ claims \in [Artifacts -> ClaimKinds]
    /\ snapshot \in [Artifacts -> Nat]
    /\ log \in [Artifacts -> Seq(Entries)]
    /\ request \in [Requests -> Reading \cup {None}]
    /\ review \subseteq Artifacts
    /\ verdict \in {None, "rejected", "edited"}

Init ==
    /\ status = [a \in Artifacts |-> "absent"]
    /\ content = [a \in Artifacts |-> 1]
    /\ claims = [a \in Artifacts |-> "none"]
    /\ snapshot = [a \in Artifacts |-> 0]
    /\ log = [a \in Artifacts |-> << >>]
    /\ request = [r \in Requests |-> None]
    /\ review = {}
    /\ verdict = None

-----------------------------------------------------------------------------

Decisions == FoldFunction(LAMBDA entries, n : Len(entries) + n, 0, log)

Record(a, entry) ==
    /\ Decisions < MaxDecisions
    /\ log' = [log EXCEPT ![a] = Append(@, entry)]

\* At least one claim, each of them supported and with an evidence link.
Provenance(a) == claims[a] = "grounded"

\* isApprovable, on what the approve route read.
IsApprovable(a) == status[a] \notin {"blocked", "edited"} /\ Provenance(a)

\* Bug: the flip at the gate is the unconditional update of the other routes.
FlippableAlways(a) == TRUE

\* Bug: the flip trusts isApprovable that the artifact has not been edited.
FlippableEdited(a) == status[a] \notin {"blocked", "approved"} /\ Provenance(a)

\* The WHERE clause of tryApproveArtifact.
Flippable(a) == status[a] \notin {"blocked", "approved", "edited"} /\ Provenance(a)

\* persist_reviewable_artifacts and persist_claims, one transaction for all the
\* artifacts of the thread; a blocking finding of the policy checks or the
\* guardrail makes an artifact blocked.
PersistReviewable ==
    /\ \A a \in Artifacts : status[a] = "absent"
    /\ status' \in [Artifacts -> {"draft", "blocked"}]
    /\ claims' \in [Artifacts -> ClaimKinds]
    /\ log' = [a \in Artifacts |-> IF status'[a] = "blocked" THEN << "blocked" >> ELSE << >>]
    /\ UNCHANGED << content, snapshot, request, review, verdict >>

\* POST approve, first half: getArtifactWithClaims and isApprovable.  A refused
\* request answers 404 or 409 and changes nothing.
ReadForApproval(r, a) ==
    /\ request[r] = None
    /\ status[a] # "absent"
    /\ IsApprovable(a)
    /\ request' = [request EXCEPT ![r] = [artifact |-> a, content |-> content[a]]]
    /\ UNCHANGED << rows, review, verdict >>

\* Bug: ON CONFLICT DO UPDATE.
CommitApprovalOverwrites(r) ==
    /\ request[r] # None
    /\ request' = [request EXCEPT ![r] = None]
    /\ LET a == request[r].artifact IN
        IF Flippable(a)
        THEN /\ Record(a, "approved")
             /\ snapshot' = [snapshot EXCEPT ![a] = request[r].content]
             /\ status' = [status EXCEPT ![a] = "approved"]
             /\ UNCHANGED << content, claims >>
        ELSE UNCHANGED rows
    /\ UNCHANGED << review, verdict >>

\* Second half, one transaction: the approvals row, the snapshot of what was
\* READ (ON CONFLICT DO NOTHING), the conditional flip.  When the flip matches
\* no row everything is rolled back and the route answers 409.
CommitApproval(r) ==
    /\ request[r] # None
    /\ request' = [request EXCEPT ![r] = None]
    /\ LET a == request[r].artifact IN
        IF Flippable(a)
        THEN /\ Record(a, "approved")
             /\ snapshot' = [snapshot EXCEPT ![a] =
                                 IF @ = 0 THEN request[r].content ELSE @]
             /\ status' = [status EXCEPT ![a] = "approved"]
             /\ UNCHANGED << content, claims >>
        ELSE UNCHANGED rows
    /\ UNCHANGED << review, verdict >>

\* The function serving the request is killed before its transaction commits.
DropRequest(r) ==
    /\ request[r] # None
    /\ request' = [request EXCEPT ![r] = None]
    /\ UNCHANGED << rows, review, verdict >>

\* POST reject, one transaction.  Any artifact may be rejected.
Reject(a) ==
    /\ status[a] # "absent"
    /\ Record(a, "rejected")
    /\ status' = [status EXCEPT ![a] = "rejected"]
    /\ UNCHANGED << content, claims, snapshot, request, review, verdict >>

\* PATCH, one transaction: the new body, never the claims.
Edit(a) ==
    /\ status[a] # "absent"
    /\ Record(a, "edited")
    /\ content' = [content EXCEPT ![a] = @ + 1]
    /\ status' = [status EXCEPT ![a] = "edited"]
    /\ UNCHANGED << claims, snapshot, request, review, verdict >>

\* Bug: the resumed node does not see the decision.
ResumeReviewUndecided(v) ==
    /\ verdict = None
    /\ \A a \in Artifacts : status[a] # "absent"
    /\ review' = Artifacts
    /\ UNCHANGED << rows, request, verdict >>

\* The content graph is resumed with rejected or edited: persist_artifact_review
\* walks the thread's artifacts.  An approved resume writes no artifact.  The
\* graph halts only after persisting, so there is nothing absent to walk.
ResumeReview(v) ==
    /\ verdict = None
    /\ \A a \in Artifacts : status[a] # "absent"
    /\ verdict' = v
    /\ review' = Artifacts
    /\ UNCHANGED << rows, request >>

\* One UPDATE per artifact, each its own transaction: no guard, no approvals row.
WriteReview(a) ==
    /\ a \in review
    /\ Record(a, verdict)
    /\ status' = [status EXCEPT ![a] = verdict]
    /\ review' = review \ {a}
    /\ UNCHANGED << content, claims, snapshot, request, verdict >>

\* A transient error re-enters the node from its start.
RetryReview ==
    /\ review # {}
    /\ review # Artifacts
    /\ review' = Artifacts
    /\ UNCHANGED << rows, request, verdict >>

\* The invocation is killed; the artifacts not reached keep their status.
KillReview ==
    /\ review # {}
    /\ review' = {}
    /\ UNCHANGED << rows, request, verdict >>

Next ==
    \/ PersistReviewable
    \/ \E a \in Artifacts :
        \/ Reject(a)
        \/ Edit(a)
        \/ WriteReview(a)
        \/ \E r \in Requests : ReadForApproval(r, a)
    \/ \E r \in Requests : CommitApproval(r) \/ DropRequest(r)
    \/ \E v \in {"rejected", "edited"} : ResumeReview(v)
    \/ RetryReview
    \/ KillReview

Spec == Init /\ [][Next]_vars

-----------------------------------------------------------------------------
(* Safety *)

LastEntry(a) == log[a][Len(log[a])]

\* The last thing the audit log says of an approved artifact is a human's
\* approval, and its snapshot is there.
ApprovedHasRecord ==
    \A a \in Artifacts : status[a] = "approved" =>
        /\ log[a] # << >>
        /\ LastEntry(a) = "approved"
        /\ snapshot[a] # 0

\* Between two approvals on the log somebody took the first one back.
NoDoubleApproval ==
    \A a \in Artifacts : \A i \in 1..(Len(log[a]) - 1) :
        ~ (log[a][i] = "approved" /\ log[a][i + 1] = "approved")

\* The status and the audit log agree whatever raced: no approved status without
\* its record, so an edit or a rejection takes the approval back; and a double
\* submit records one approval, so none is recorded for a flip that did not win.
ApprovalsOnRecord == ApprovedHasRecord /\ NoDoubleApproval

\* What keeps an artifact from being approved: a check blocked it, or its text was
\* changed since anyone looked at it.
Holds == {"blocked", "edited"}

\* Each of them was followed by a rejection.
HoldsAnswered(a) ==
    \A i \in 1..Len(log[a]) : log[a][i] \in Holds =>
        \E j \in (i + 1)..Len(log[a]) : log[a][j] = "rejected"

\* An approval never overtakes a block or an edit that came between what its
\* request read and its transaction: whatever held an approved artifact was
\* rejected first.  (That this is enough, that the rejected text need not be
\* checked again, is what approve/route.ts:3-5 and claims.ts:249 deny.)  And while
\* nobody rejected it, the copy that is published is the text in review.
HoldsAreAnswered ==
    \A a \in Artifacts : status[a] = "approved" =>
        /\ HoldsAnswered(a)
        /\ "rejected" \notin Range(log[a]) => snapshot[a] = content[a]

\* The published copy never changes once a human approved it, and it is never
\* newer than what is in review.
SnapshotFrozen ==
    [][ \A a \in Artifacts :
          /\ snapshot[a] # 0 => snapshot'[a] = snapshot[a]
          /\ snapshot'[a] <= content'[a] ]_vars
=============================================================================
