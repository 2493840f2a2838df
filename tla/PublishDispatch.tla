--------------------------- MODULE PublishDispatch ---------------------------
(***************************************************************************)
(* "Publish" buttons: one approved artifact to X, LinkedIn, Slack or a      *)
(* GitHub release, or one finished demo video to YouTube, each guarded by   *)
(* a two-phase marker in approvals (one row per destination, dedupe_state). *)
(*                                                                          *)
(* Requests for a destination overlap: each asks the gate, inserts a        *)
(* pending marker, calls the destination, completes the marker, and deletes *)
(* it if anything failed in between.  A request can die after any           *)
(* statement, and every call can fail before or after it took effect.       *)
(***************************************************************************)
EXTENDS Naturals, FiniteSets

CONSTANTS
    Destinations,   \* what a marker is for: an artifact's channel, a video's platform
    Videos,         \* the destinations of a video: its link is kept, and asked for first
    Reporting,      \* the routes that report a marker they could not clear
    Requests,       \* the requests of one run of the model
    None

ASSUME DispatchAssumption ==
    Videos \subseteq Destinations /\ Reporting \subseteq Destinations /\ None \notin Requests

MarkerState == {"absent", "pending", "completed"}

Stages == {"new", "insert", "lookup", "send", "link", "complete", "rollback", "done", "dead"}

\* 409, the preview, 200 published, 200 idempotent, 409 inFlight, 502 retry,
\* 500 retryBlocked.
Answers == {"none", "refused", "preview", "published", "idempotent", "in_flight",
            "failed", "blocked"}

VARIABLES
    approved,   \* the artifact's status is approved
    snapshot,   \* it has an approved snapshot
    ready,      \* the video's status is ready
    link,       \* destinations whose external_url is set
    marker,     \* dedupe_state of the row with the destination's key
    holder,     \* the request that inserted the row (the row's id)
    stage,      \* where a request is
    dest,       \* what it publishes to
    answer,     \* what its caller was told
    posts       \* history: posts a destination accepted

gate    == << approved, snapshot, ready >>
request == << stage, dest, answer >>
row     == << marker, holder >>
vars    == << gate, link, row, request, posts >>

TypeOK ==
    /\ approved \in BOOLEAN
    /\ snapshot \in BOOLEAN
    /\ ready \in BOOLEAN
    /\ link \subseteq Videos
    /\ marker \in [Destinations -> MarkerState]
    /\ holder \in [Destinations -> Requests \cup {None}]
    /\ stage \in [Requests -> Stages]
    /\ dest \in [Requests -> Destinations]
    /\ answer \in [Requests -> Answers]
    /\ posts \in [Destinations -> Nat]

\* A new request has not chosen: its dest is any, and read by nobody.
Init ==
    /\ approved = FALSE
    /\ snapshot = FALSE
    /\ ready = FALSE
    /\ link = {}
    /\ marker = [k \in Destinations |-> "absent"]
    /\ holder = [k \in Destinations |-> None]
    /\ stage = [r \in Requests |-> "new"]
    /\ dest \in [Requests -> Destinations]
    /\ answer = [r \in Requests |-> "none"]
    /\ posts = [k \in Destinations |-> 0]

GoTo(r, s) == stage' = [stage EXCEPT ![r] = s]

\* The last thing a request does.
Tell(r, a) ==
    /\ stage' = [stage EXCEPT ![r] = "done"]
    /\ answer' = [answer EXCEPT ![r] = a]

-----------------------------------------------------------------------------
(* Gate #2 and the media worker, the environment *)

Approve ==
    /\ ~ approved
    /\ approved' = TRUE
    /\ snapshot' = TRUE
    /\ UNCHANGED << ready, link, row, request, posts >>

\* Rejected or edited: the snapshot stays.
Unapprove ==
    /\ approved
    /\ approved' = FALSE
    /\ UNCHANGED << snapshot, ready, link, row, request, posts >>

FinishVideo ==
    /\ ~ ready
    /\ ready' = TRUE
    /\ UNCHANGED << approved, snapshot, link, row, request, posts >>

-----------------------------------------------------------------------------
(* The request *)

\* What a route asks before it does anything: the snapshot, the video's status.
Publishable(k) == IF k \in Videos THEN ready ELSE snapshot

\* Read the gate: refuse, answer from the link, preview, or go on to the marker.
Ask(r) ==
    /\ stage[r] = "new"
    /\ \/ ~ Publishable(dest[r]) /\ Tell(r, "refused")
       \/ /\ Publishable(dest[r])
          /\ dest[r] \in link
          /\ Tell(r, "idempotent")
       \/ /\ Publishable(dest[r])
          /\ dest[r] \notin link
          /\ \/ Tell(r, "preview")
             \/ GoTo(r, "insert") /\ UNCHANGED answer
    /\ UNCHANGED << gate, link, row, dest, posts >>

\* Bug: no unique index behind ON CONFLICT DO NOTHING.
InsertAlways(r) ==
    /\ stage[r] = "insert"
    /\ marker' = [marker EXCEPT ![dest[r]] = "pending"]
    /\ holder' = [holder EXCEPT ![dest[r]] = r]
    /\ GoTo(r, "send")
    /\ UNCHANGED << gate, link, dest, answer, posts >>

\* beginApprovalDispatch, first statement.
Insert(r) ==
    /\ stage[r] = "insert"
    /\ IF marker[dest[r]] = "absent"
       THEN /\ marker' = [marker EXCEPT ![dest[r]] = "pending"]
            /\ holder' = [holder EXCEPT ![dest[r]] = r]
            /\ GoTo(r, "send")
       ELSE GoTo(r, "lookup") /\ UNCHANGED row
    /\ UNCHANGED << gate, link, dest, answer, posts >>

\* Bug: whoever loses the insert is told that it was a replay.
LookupBlind(r) ==
    /\ stage[r] = "lookup"
    /\ Tell(r, "idempotent")
    /\ UNCHANGED << gate, link, row, dest, posts >>

\* Second statement: no row any more counts as completed.
Lookup(r) ==
    /\ stage[r] = "lookup"
    /\ Tell(r, IF marker[dest[r]] = "pending" THEN "in_flight" ELSE "idempotent")
    /\ UNCHANGED << gate, link, row, dest, posts >>

\* The outward call: answered, refused, or cut off after it was accepted.
Send(r) ==
    /\ stage[r] = "send"
    /\ \E accepted \in BOOLEAN, answered \in BOOLEAN :
        /\ answered => accepted
        /\ posts' = [posts EXCEPT ![dest[r]] = IF accepted THEN @ + 1 ELSE @]
        /\ GoTo(r, CASE ~ answered -> "rollback"
                     [] answered /\ dest[r] \in Videos -> "link"
                     [] OTHER -> "complete")
    /\ UNCHANGED << gate, link, row, dest, answer >>

\* recordMediaPublication, of a video only.
KeepLink(r) ==
    /\ stage[r] = "link"
    /\ \/ link' = link \cup {dest[r]} /\ GoTo(r, "complete")
       \/ link' \in {link, link \cup {dest[r]}} /\ GoTo(r, "rollback")
    /\ UNCHANGED << gate, row, dest, answer, posts >>

\* Bug: a state the readers of the column do not know.
CompleteRowAsPublished(r) ==
    marker' = [k \in Destinations |-> IF holder[k] = r THEN "published" ELSE marker[k]]

\* UPDATE approvals ... WHERE id = r's row.
CompleteRow(r) ==
    marker' = [k \in Destinations |-> IF holder[k] = r THEN "completed" ELSE marker[k]]

\* completeApprovalDispatch returns, or throws before or after it took effect.
Complete(r) ==
    /\ stage[r] = "complete"
    /\ \/ CompleteRow(r) /\ Tell(r, "published")
       \/ CompleteRow(r) /\ GoTo(r, "rollback") /\ UNCHANGED answer
       \/ UNCHANGED << marker, answer >> /\ GoTo(r, "rollback")
    /\ UNCHANGED << gate, link, holder, dest, posts >>

\* DELETE FROM approvals WHERE id = r's row.
DeleteRow(r) ==
    /\ marker' = [k \in Destinations |-> IF holder[k] = r THEN "absent" ELSE marker[k]]
    /\ holder' = [k \in Destinations |-> IF holder[k] = r THEN None ELSE holder[k]]

\* Bug: the caller is told to retry whether the marker is gone or not.
RollbackUnreported(r) ==
    /\ stage[r] = "rollback"
    /\ DeleteRow(r) \/ UNCHANGED row
    /\ Tell(r, "failed")
    /\ UNCHANGED << gate, link, dest, posts >>

\* Bug: a failed send leaves its marker.
RollbackForgotten(r) ==
    /\ stage[r] = "rollback"
    /\ Tell(r, "failed")
    /\ UNCHANGED << gate, link, row, dest, posts >>

\* The catch: clear the marker, and say so when that fails too (before or after
\* it took effect).
Rollback(r) ==
    /\ stage[r] = "rollback"
    /\ \/ DeleteRow(r) /\ Tell(r, "failed")
       \/ /\ DeleteRow(r) \/ UNCHANGED row
          /\ Tell(r, IF dest[r] \in Reporting THEN "blocked" ELSE "failed")
    /\ UNCHANGED << gate, link, dest, posts >>

\* The function is killed, or a statement throws where nothing catches it.
Die(r) ==
    /\ stage[r] \notin {"new", "done", "dead"}
    /\ GoTo(r, "dead")
    /\ UNCHANGED << gate, link, row, dest, answer, posts >>

Work(r) ==
    \/ Insert(r) \/ Lookup(r) \/ Send(r) \/ KeepLink(r) \/ Complete(r) \/ Rollback(r)

Next ==
    \/ Approve \/ Unapprove \/ FinishVideo
    \/ \E r \in Requests : Ask(r) \/ Work(r) \/ Die(r)

Spec == Init /\ [][Next]_vars

\* A request that is not killed goes on; nobody has to click again.
FairSpec == Spec /\ \A r \in Requests : WF_vars(Work(r))

-----------------------------------------------------------------------------
(* Safety *)

\* Between its marker and the end of its try a request may post, or its post
\* may still be undone in the books.
Sending == {"send", "link", "complete", "rollback"}

\* Two requests never publish to one destination at the same time (a double
\* click, two operators): the marker is a lock while its request lives.
OneSender ==
    \A r, s \in Requests :
        stage[r] \in Sending /\ stage[s] \in Sending /\ dest[r] = dest[s] => r = s

\* A request of k failed and cleared the marker it held, or could not say it did.
GaveUp(k) == \E s \in Requests : dest[s] = k /\ answer[s] \in {"failed", "blocked"}

\* What the books and the answers call published was posted: a completed marker,
\* a kept link, a caller told "published".  A caller told that its publish is a
\* replay is told the truth, too, unless a failing request cleared the marker
\* between the caller's two statements: channelPublishLogic.ts:89-90 denies that
\* this can be, and it can.
SuccessIsReal ==
    /\ \A k \in Destinations : marker[k] = "completed" \/ k \in link => posts[k] > 0
    /\ \A r \in Requests :
        /\ answer[r] = "published" => posts[dest[r]] > 0 /\ marker[dest[r]] = "completed"
        /\ answer[r] = "idempotent" => posts[dest[r]] > 0 \/ GaveUp(dest[r])

\* A caller told to retry can: its own marker is gone.  Only the routes that
\* report a failed clear promise it.
RetryIsPossible ==
    \A r \in Requests :
        answer[r] = "failed" /\ dest[r] \in Reporting => holder[dest[r]] # r

\* What the books and the answers say of a post is what happened to it, up to the
\* false replay named above: "published" and "idempotent" stand for a post, and of
\* the routes that report a failed clear, "failed" leaves the way open for another
\* try.  (The Slack, GitHub and YouTube routes say it whether it does or not.)
AnswersAreTrue == SuccessIsReal /\ RetryIsPossible

-----------------------------------------------------------------------------
(* What the marker promises *)

SendersOf == [k \in Destinations |-> {r \in Requests : stage[r] \in Sending /\ dest[r] = k}]
Booked    == {k \in Destinations : marker[k] = "completed" /\ SendersOf[k] = {}}

Exclusive == INSTANCE ExclusiveSend WITH
    Things <- Destinations, Senders <- Requests, sending <- SendersOf, accepted <- posts, sent <- Booked

\* The marker implements ExclusiveSend: a destination has one sender at a time
\* (a double click, two operators), and once a marker is completed and its request
\* gone, nobody sends again or takes the completion back.  Until then it is not
\* in the books: a completion that threw is rolled back.
ExclusiveSpec == Exclusive!Spec

-----------------------------------------------------------------------------
(* Liveness *)

\* A pending marker is completed or cleared, unless its request died or could
\* not clear it (an operator has to then, as the code says).
PendingResolves ==
    \A k \in Destinations, r \in Requests :
        (marker[k] = "pending" /\ holder[k] = r) ~>
            \/ marker[k] # "pending"
            \/ stage[r] = "dead"
            \/ answer[r] = "blocked"
            \/ answer[r] = "failed" /\ k \notin Reporting
=============================================================================
