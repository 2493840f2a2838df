-------------------------- MODULE ScheduledPublish --------------------------
(***************************************************************************)
(* Approve-then-schedule: the scheduled_publishes rows of one artifact,    *)
(* one per channel, and the drains that ship them.                         *)
(*                                                                         *)
(* A human (re-)schedules and cancels; a cron starts a drain, which reaps  *)
(* rows a dead drain left in sending, claims due rows and then works on    *)
(* each claimed row concurrently: re-check the artifact, call the channel, *)
(* mark the row.  A drain can die anywhere, and nothing but its claim      *)
(* keeps a second one away.  The artifact's review (Gate #2) is the        *)
(* environment.  Channels have credentials here: a dry run sends nothing.  *)
(***************************************************************************)
EXTENDS Naturals, FiniteSets

CONSTANTS
    Channels,      \* the channels the artifact can be scheduled to
    Drains,        \* drain invocations that may overlap
    Limit,         \* rows claimed per drain
    MaxSchedules   \* bound: times a human schedules, all channels together

ASSUME ScheduleAssumption == Limit \in Nat \ {0} /\ MaxSchedules \in Nat \ {0}

RowStatus == {"none", "pending", "sending", "sent", "failed", "cancelled"}

\* Where a drain is with a row it claimed.
Stages == {"none", "check", "publish", "mark_sent", "mark_failed"}

Generation == 0..MaxSchedules

VARIABLES
    row,         \* scheduled_publishes.status, none: no row yet
    due,         \* scheduled_at, once it is past: when among the others, else 0
    aged,        \* updated_at is over the stale limit ago
    approved,    \* artifacts.status = approved
    snapshot,    \* the artifact has an approved snapshot
    drain,       \* where each drain is
    stage,       \* where it is with each row
    \* history
    made,        \* schedules made so far, numbered from 1
    gen,         \* the schedule a row holds
    claim,       \* the schedule a drain claimed
    posts,       \* posts the channel accepted, per schedule
    vouched      \* artifact seen approved at some moment since the claim

table == << row, due, aged, gen, made >>
gate  == << approved, snapshot >>
work  == << drain, stage, claim >>
vars  == << table, gate, work, posts, vouched >>

TypeOK ==
    /\ row \in [Channels -> RowStatus]
    /\ due \in [Channels -> Generation]
    /\ aged \in [Channels -> BOOLEAN]
    /\ approved \in BOOLEAN
    /\ snapshot \in BOOLEAN
    /\ drain \in [Drains -> {"idle", "reaped", "sending"}]
    /\ stage \in [Drains -> [Channels -> Stages]]
    /\ made \in Generation
    /\ gen \in [Channels -> Generation]
    /\ claim \in [Drains -> [Channels -> Generation]]
    /\ posts \in [Channels -> [Generation -> Nat]]
    /\ vouched \in [Drains -> [Channels -> BOOLEAN]]

Init ==
    /\ row = [c \in Channels |-> "none"]
    /\ due = [c \in Channels |-> 0]
    /\ aged = [c \in Channels |-> FALSE]
    /\ approved = FALSE
    /\ snapshot = FALSE
    /\ drain = [d \in Drains |-> "idle"]
    /\ stage = [d \in Drains |-> [c \in Channels |-> "none"]]
    /\ made = 0
    /\ gen = [c \in Channels |-> 0]
    /\ claim = [d \in Drains |-> [c \in Channels |-> 0]]
    /\ posts = [c \in Channels |-> [g \in Generation |-> 0]]
    /\ vouched = [d \in Drains |-> [c \in Channels |-> FALSE]]

-----------------------------------------------------------------------------
(* Gate #2 and the humans *)

\* Approval flips the status and leaves the snapshot for good.
Approve ==
    /\ ~ approved
    /\ approved' = TRUE
    /\ snapshot' = TRUE
    /\ vouched' = [d \in Drains |-> [c \in Channels |->
                       vouched[d][c] \/ stage[d][c] # "none"]]
    /\ UNCHANGED << table, work, posts >>

\* A reviewer rejects or edits: one transaction with cancelSchedulesForArtifact.
Unapprove ==
    /\ approved
    /\ approved' = FALSE
    /\ row' = [c \in Channels |-> IF row[c] = "pending" THEN "cancelled" ELSE row[c]]
    /\ aged' = [c \in Channels |-> aged[c] /\ row[c] # "pending"]
    /\ UNCHANGED << due, gen, made, snapshot, work, posts, vouched >>

\* A resumed content graph overwrites the status and cancels nothing.
WorkerUnapprove ==
    /\ approved
    /\ approved' = FALSE
    /\ UNCHANGED << table, snapshot, work, posts, vouched >>

\* POST schedule: only the snapshot is asked for; the upsert resets the row
\* whatever its status.
Schedule(c) ==
    /\ snapshot
    /\ made < MaxSchedules
    /\ row' = [row EXCEPT ![c] = "pending"]
    /\ due' = [due EXCEPT ![c] = 0]
    /\ aged' = [aged EXCEPT ![c] = FALSE]
    /\ made' = made + 1
    /\ gen' = [gen EXCEPT ![c] = made + 1]
    /\ UNCHANGED << gate, work, posts, vouched >>

\* Bug: a cancel that also takes rows a drain has claimed.
CancelClaimed(c) ==
    /\ row[c] \in {"pending", "sending"}
    /\ row' = [row EXCEPT ![c] = "cancelled"]
    /\ aged' = [aged EXCEPT ![c] = FALSE]
    /\ UNCHANGED << due, gen, made, gate, work, posts, vouched >>

\* DELETE schedule: pending rows only.
Cancel(c) ==
    /\ row[c] = "pending"
    /\ row' = [row EXCEPT ![c] = "cancelled"]
    /\ aged' = [aged EXCEPT ![c] = FALSE]
    /\ UNCHANGED << due, gen, made, gate, work, posts, vouched >>

-----------------------------------------------------------------------------
(* Time *)

\* Ranks after those of the rows that are due already.
Later == {n \in Generation : \A c \in Channels : due[c] < n}

\* scheduled_at passes.
BecomeDue(c) ==
    /\ row[c] = "pending"
    /\ due[c] = 0
    /\ \E n \in Later : /\ \A m \in Later : n <= m
                        /\ due' = [due EXCEPT ![c] = n]
    /\ UNCHANGED << row, aged, gen, made, gate, work, posts, vouched >>

\* Half an hour passes over a claim.  The drain that holds it is dead by then:
\* its calls are cut off after ten seconds each.
Age(c) ==
    /\ row[c] = "sending"
    /\ ~ aged[c]
    /\ \A d \in Drains : stage[d][c] = "none" \/ claim[d][c] # gen[c]
    /\ aged' = [aged EXCEPT ![c] = TRUE]
    /\ UNCHANGED << row, due, gen, made, gate, work, posts, vouched >>

-----------------------------------------------------------------------------
(* The drain *)

\* Bug: the reaper puts a stale row back in the queue.
ReapedRequeues(c) == IF row[c] = "sending" /\ aged[c] THEN "pending" ELSE row[c]

\* Bug: there is no reaper.
ReapedNever(c) == row[c]

\* Bug: a status the column's CHECK constraint refuses.
ReapedExpired(c) == IF row[c] = "sending" /\ aged[c] THEN "expired" ELSE row[c]

\* expireStaleSending: never back to pending, a stale row may have been sent.
Reaped(c) == IF row[c] = "sending" /\ aged[c] THEN "failed" ELSE row[c]

StartDrain(d) ==
    /\ drain[d] = "idle"
    /\ drain' = [drain EXCEPT ![d] = "reaped"]
    /\ row' = [c \in Channels |-> Reaped(c)]
    /\ aged' = [c \in Channels |-> aged[c] /\ Reaped(c) = row[c]]
    /\ UNCHANGED << due, gen, made, gate, stage, claim, posts, vouched >>

\* Bug: a drain takes what another one has claimed, too.
DueOrClaimed == {c \in Channels : row[c] \in {"pending", "sending"} /\ due[c] > 0}

Due == {c \in Channels : row[c] = "pending" /\ due[c] > 0}

\* ORDER BY scheduled_at LIMIT: the earliest rows of S, all if they are few.
Earliest(S) ==
    {B \in SUBSET S :
        /\ Cardinality(B) = Limit \/ (Cardinality(B) < Limit /\ B = S)
        /\ \A b \in B, c \in S \ B : due[b] <= due[c]}

\* Bug: the limit is in the sub-query, the status outside of it: rows that were
\* sent long ago fill the batch.
BatchOfAnyStatus ==
    {B \cap Due : B \in Earliest({c \in Channels : due[c] > 0})}

\* What one claim takes.  Rows another claim has locked are skipped: it is the
\* earlier of the two here.
Batch == Earliest(Due)

\* claimDuePending, one statement: pending -> sending.
ClaimDue(d) ==
    /\ drain[d] = "reaped"
    /\ \E B \in Batch :
        /\ row' = [c \in Channels |-> IF c \in B THEN "sending" ELSE row[c]]
        /\ aged' = [c \in Channels |-> aged[c] /\ c \notin B]
        /\ stage' = [stage EXCEPT ![d] =
                         [c \in Channels |-> IF c \in B THEN "check" ELSE "none"]]
        /\ claim' = [claim EXCEPT ![d] =
                         [c \in Channels |-> IF c \in B THEN gen[c] ELSE 0]]
        /\ vouched' = [vouched EXCEPT ![d] =
                         [c \in Channels |-> c \in B /\ approved]]
    /\ drain' = [drain EXCEPT ![d] = "sending"]
    /\ UNCHANGED << due, gen, made, gate, posts >>

MoveTo(d, c, s) == stage' = [stage EXCEPT ![d][c] = s]

\* Bug: only the snapshot is looked at before a send.
StillApprovedBySnapshot == snapshot

\* The live status is approved and the snapshot is there.  Two reads, one step:
\* a snapshot never goes away.
StillApproved == approved /\ snapshot

CheckApproval(d, c) ==
    /\ stage[d][c] = "check"
    /\ MoveTo(d, c, IF StillApproved THEN "publish" ELSE "mark_failed")
    /\ UNCHANGED << table, gate, drain, claim, posts, vouched >>

\* The call returns, fails, or is cut off after the channel accepted the post.
Publish(d, c) ==
    /\ stage[d][c] = "publish"
    /\ \E accepted \in BOOLEAN, answered \in BOOLEAN :
        /\ answered => accepted
        /\ posts' = [posts EXCEPT ![c][claim[d][c]] = IF accepted THEN @ + 1 ELSE @]
        /\ MoveTo(d, c, IF answered THEN "mark_sent" ELSE "mark_failed")
    /\ UNCHANGED << table, gate, drain, claim, vouched >>

\* UPDATE ... WHERE id = row AND status = 'sending': whose claim is not asked.
Mark(c, s) ==
    IF row[c] = "sending"
    THEN /\ row' = [row EXCEPT ![c] = s]
         /\ aged' = [aged EXCEPT ![c] = FALSE]
    ELSE UNCHANGED << row, aged >>

\* markScheduleSent; when it throws, before or after it took effect, the catch
\* around the send marks the row failed.
MarkSent(d, c) ==
    /\ stage[d][c] = "mark_sent"
    /\ \/ Mark(c, "sent") /\ MoveTo(d, c, "none")
       \/ /\ Mark(c, "sent") \/ UNCHANGED << row, aged >>
          /\ MoveTo(d, c, "mark_failed")
    /\ UNCHANGED << due, gen, made, gate, drain, claim, posts, vouched >>

MarkFailed(d, c) ==
    /\ stage[d][c] = "mark_failed"
    /\ Mark(c, "failed")
    /\ MoveTo(d, c, "none")
    /\ UNCHANGED << due, gen, made, gate, drain, claim, posts, vouched >>

\* A read or markScheduleFailed throws outside the try: the row's work ends,
\* the others go on, the row stays in sending.
Abandon(d, c) ==
    /\ stage[d][c] \in {"check", "mark_failed"}
    /\ MoveTo(d, c, "none")
    /\ UNCHANGED << table, gate, drain, claim, posts, vouched >>

EndDrain(d) ==
    /\ drain[d] = "sending"
    /\ \A c \in Channels : stage[d][c] = "none"
    /\ drain' = [drain EXCEPT ![d] = "idle"]
    /\ UNCHANGED << table, gate, stage, claim, posts, vouched >>

\* The serverless function is killed.
Crash(d) ==
    /\ drain[d] # "idle"
    /\ drain' = [drain EXCEPT ![d] = "idle"]
    /\ stage' = [stage EXCEPT ![d] = [c \in Channels |-> "none"]]
    /\ UNCHANGED << table, gate, claim, posts, vouched >>

WorkOn(d, c) ==
    CheckApproval(d, c) \/ Publish(d, c) \/ MarkSent(d, c) \/ MarkFailed(d, c)

Next ==
    \/ Approve \/ Unapprove \/ WorkerUnapprove
    \/ \E c \in Channels : Schedule(c) \/ Cancel(c) \/ BecomeDue(c) \/ Age(c)
    \/ \E d \in Drains :
        \/ StartDrain(d) \/ ClaimDue(d) \/ EndDrain(d) \/ Crash(d)
        \/ \E c \in Channels : WorkOn(d, c) \/ Abandon(d, c)

Spec == Init /\ [][Next]_vars

\* The cron keeps starting drains (every quarter of an hour), time passes, a
\* live drain keeps working; and drains do not all die between their first
\* statement and their second.
FairSpec ==
    /\ Spec
    /\ WF_vars(\E d \in Drains : StartDrain(d))
    /\ SF_vars(\E d \in Drains : ClaimDue(d))
    /\ \A d \in Drains : WF_vars(EndDrain(d))
    /\ \A d \in Drains, c \in Channels : WF_vars(WorkOn(d, c))
    /\ \A c \in Channels : WF_vars(Age(c))

-----------------------------------------------------------------------------
(* Safety *)

\* One schedule is shipped at most once, whatever dies, overlaps or times out:
\* a claimed row never becomes pending again unless a human re-schedules it.
AtMostOncePerSchedule ==
    \A c \in Channels : \A g \in Generation : posts[c][g] <= 1

\* A schedule the human was told is cancelled has not been and will not be sent.
CancelledNotSent ==
    \A c \in Channels : row[c] = "cancelled" =>
        /\ posts[c][gen[c]] = 0
        /\ \A d \in Drains : stage[d][c] # "none" => claim[d][c] # gen[c]

\* A row shown as sent stands for a post the channel accepted.
SentWasPosted ==
    \A c \in Channels : row[c] = "sent" => \E g \in Generation : posts[c][g] > 0

\* What a schedule's row tells the human is true of the channel.
RowTellsTruth == CancelledNotSent /\ SentWasPosted

\* Nothing un-approved since before its claim ships: a drain calls the channel
\* only if the artifact was approved at some moment after it claimed the row.
ShipsOnlyVouched ==
    \A d \in Drains, c \in Channels : stage[d][c] = "publish" => vouched[d][c]

-----------------------------------------------------------------------------
(* What the queue promises *)

Schedules == Channels \X Generation

Shippers == [s \in Schedules |-> {d \in Drains : stage[d][s[1]] # "none" /\ claim[d][s[1]] = s[2]}]
Posted   == [s \in Schedules |-> posts[s[1]][s[2]]]
Shipped  == {s \in Schedules : Posted[s] > 0 /\ Shippers[s] = {}}

Shipments == INSTANCE ExclusiveSend WITH
    Things <- Schedules, Senders <- Drains, sending <- Shippers, accepted <- Posted, sent <- Shipped

\* The queue implements ExclusiveSend for each schedule, and with every post in
\* its books, those included whose drain died or was told nothing: no drain ever
\* claims a schedule again that was posted.
ShipmentsSpec == Shipments!Spec

-----------------------------------------------------------------------------
(* Liveness *)

\* No slot is blocked forever by a claim whose drain died.
SendingEnds == \A c \in Channels : (row[c] = "sending") ~> (row[c] # "sending")

\* A due schedule is picked up (or cancelled, or re-timed) though more are due than
\* one drain may claim, and drains die over what they took.
DueIsServed == \A c \in Channels : (c \in Due) ~> (c \notin Due)
=============================================================================
