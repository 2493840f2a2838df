--------------------------- MODULE OutboundWebhook ---------------------------
(***************************************************************************)
(* The artifact.approved webhook: the delivery ledger, one row per artifact *)
(* (the delivery id is a function of the event and the artifact), and the   *)
(* dispatchers that claim a row, POST with retries and record the outcome.  *)
(*                                                                          *)
(* A dispatcher is the approve route (one artifact) or the sweep of the     *)
(* resume route (every approved artifact without a delivery, one after the  *)
(* other, from a list read once).  It never fails its caller: an error ends *)
(* the artifact's dispatch and the sweep goes on.                           *)
(***************************************************************************)
EXTENDS Naturals, FiniteSets

CONSTANTS
    Artifacts,
    Dispatchers,   \* dispatchers that may overlap
    MaxAttempts,   \* POSTs of one dispatch
    MaxClaims,     \* bound: claims won, all artifacts together
    NoArtifact

ASSUME WebhookAssumption == MaxAttempts \in Nat \ {0} /\ MaxClaims \in Nat /\ NoArtifact \notin Artifacts

VARIABLES
    snapshots,   \* artifacts with an approved snapshot
    in_flight,   \* last_status is the sentinel -1
    lapsed,      \* updated_at is over the lease ago
    delivered,   \* delivered_at is set
    phase,       \* where a dispatcher is
    list,        \* artifacts it has still to dispatch
    target,      \* the artifact it is dispatching
    tries,       \* which attempt it is at
    ok,          \* the outcome it has to record
    \* history
    accepted,    \* POSTs the consumer accepted, per artifact
    claims       \* claims won so far

ledger      == << in_flight, lapsed, delivered >>
dispatcher  == << phase, list, target, tries, ok >>
webhookVars == << snapshots, ledger, dispatcher, accepted, claims >>

WebhookTypeOK ==
    /\ snapshots \subseteq Artifacts
    /\ in_flight \subseteq Artifacts
    /\ lapsed \subseteq in_flight
    /\ delivered \subseteq snapshots
    /\ phase \in [Dispatchers -> {"idle", "claim", "post", "record"}]
    /\ list \in [Dispatchers -> SUBSET snapshots]
    /\ target \in [Dispatchers -> snapshots \cup {NoArtifact}]
    /\ tries \in [Dispatchers -> 0..MaxAttempts]
    /\ ok \in [Dispatchers -> BOOLEAN]
    /\ accepted \in [Artifacts -> Nat]
    /\ claims \in 0..MaxClaims

WebhookInit ==
    /\ snapshots = {}
    /\ in_flight = {}
    /\ lapsed = {}
    /\ delivered = {}
    /\ phase = [d \in Dispatchers |-> "idle"]
    /\ list = [d \in Dispatchers |-> {}]
    /\ target = [d \in Dispatchers |-> NoArtifact]
    /\ tries = [d \in Dispatchers |-> 0]
    /\ ok = [d \in Dispatchers |-> FALSE]
    /\ accepted = [a \in Artifacts |-> 0]
    /\ claims = 0

-----------------------------------------------------------------------------
(* Who dispatches *)

\* d has these artifacts to dispatch; none left: it is finished.
Turn(d, todo) ==
    /\ list' = [list EXCEPT ![d] = todo]
    /\ phase' = [phase EXCEPT ![d] = IF todo = {} THEN "idle" ELSE "claim"]
    /\ target' = [target EXCEPT ![d] = NoArtifact]
    /\ tries' = [tries EXCEPT ![d] = 0]
    /\ ok' = [ok EXCEPT ![d] = FALSE]

\* The approve route: the approval is committed, then the webhook goes out.
ApproveAndDispatch(d, a) ==
    /\ phase[d] = "idle"
    /\ snapshots' = snapshots \cup {a}
    /\ Turn(d, {a})
    /\ UNCHANGED << ledger, accepted, claims >>

\* The same while no webhook is configured, or the route dies at once.
ApproveSilently(a) ==
    /\ a \notin snapshots
    /\ snapshots' = snapshots \cup {a}
    /\ UNCHANGED << ledger, dispatcher, accepted, claims >>

\* The resume route: listUndeliveredApprovedArtifacts, read once.
Sweep(d) ==
    /\ phase[d] = "idle"
    /\ Turn(d, snapshots \ delivered)
    /\ UNCHANGED << snapshots, ledger, accepted, claims >>

-----------------------------------------------------------------------------
(* One dispatch *)

\* Bug: the claim forgets the dispatches in flight.
ClaimableInFlight(a) == a \notin delivered

\* Bug: a claim is never given up.
ClaimableOnce(a) == a \notin delivered /\ a \notin in_flight

\* Undelivered, and not in flight or in flight for longer than the lease.
Claimable(a) == a \notin delivered /\ (a \notin in_flight \/ a \in lapsed)

\* ensureDelivery: one UPDATE.
Take(a) ==
    /\ Claimable(a)
    /\ claims < MaxClaims
    /\ in_flight' = in_flight \cup {a}
    /\ lapsed' = lapsed \ {a}
    /\ claims' = claims + 1
    /\ UNCHANGED << snapshots, delivered, accepted >>

Win(d, a) ==
    /\ Take(a)
    /\ phase' = [phase EXCEPT ![d] = "post"]
    /\ target' = [target EXCEPT ![d] = a]
    /\ tries' = [tries EXCEPT ![d] = 1]
    /\ UNCHANGED << list, ok >>

\* The claim is not won, or it throws.
Skip(d, a) ==
    /\ Turn(d, list[d] \ {a})
    /\ UNCHANGED << snapshots, ledger, accepted, claims >>

\* The claim is won and throws: the answer is lost, the row stays in flight.
Waste(d, a) == Take(a) /\ Turn(d, list[d] \ {a})

Claim(d) ==
    /\ phase[d] = "claim"
    /\ \E a \in list[d] : Win(d, a) \/ Skip(d, a) \/ Waste(d, a)

Finish(d, delivery) ==
    /\ phase' = [phase EXCEPT ![d] = "record"]
    /\ ok' = [ok EXCEPT ![d] = delivery]
    /\ UNCHANGED tries

\* Bug: one attempt too many.
RetryOnceMore(d) ==
    IF tries[d] <= MaxAttempts
    THEN tries' = [tries EXCEPT ![d] = @ + 1] /\ UNCHANGED << phase, ok >>
    ELSE Finish(d, FALSE)

Retry(d) ==
    IF tries[d] < MaxAttempts
    THEN tries' = [tries EXCEPT ![d] = @ + 1] /\ UNCHANGED << phase, ok >>
    ELSE Finish(d, FALSE)

\* Bug: any answer counts as a delivery.
OutcomeUnchecked(d, accepts) == Finish(d, TRUE)

\* 2xx: done.  5xx, 429, no answer: again; a request cut off after ten seconds
\* may have been accepted.  Any other status: stop.
Outcome(d, accepts) ==
    \/ accepts /\ Finish(d, TRUE)
    \/ Retry(d)
    \/ ~ accepts /\ Finish(d, FALSE)

\* One attempt of postWithRetry.
Post(d) ==
    /\ phase[d] = "post"
    /\ \E accepts \in BOOLEAN :
        /\ accepted' = [accepted EXCEPT ![target[d]] = IF accepts THEN @ + 1 ELSE @]
        /\ Outcome(d, accepts)
    /\ UNCHANGED << snapshots, ledger, list, target, claims >>

\* recordDeliveryAttempt: whoever holds the claim by now.  When it throws, the
\* outcome is lost and the claim stays.
Record(d) ==
    /\ phase[d] = "record"
    /\ \/ /\ in_flight' = in_flight \ {target[d]}
          /\ lapsed' = lapsed \ {target[d]}
          /\ delivered' = IF ok[d] THEN delivered \cup {target[d]} ELSE delivered
       \/ UNCHANGED ledger
    /\ Turn(d, list[d] \ {target[d]})
    /\ UNCHANGED << snapshots, accepted, claims >>

Crash(d) ==
    /\ phase[d] # "idle"
    /\ Turn(d, {})
    /\ UNCHANGED << snapshots, ledger, accepted, claims >>

\* Two minutes pass over a claim.  Its dispatcher has finished or is dead: three
\* attempts of ten seconds and their pauses take half a minute.
Lapse(a) ==
    /\ a \in in_flight \ lapsed
    /\ \A d \in Dispatchers : target[d] # a
    /\ lapsed' = lapsed \cup {a}
    /\ UNCHANGED << snapshots, in_flight, delivered, dispatcher, accepted, claims >>

WebhookNext ==
    \/ \E a \in Artifacts : ApproveSilently(a) \/ Lapse(a)
    \/ \E d \in Dispatchers :
        \/ Sweep(d) \/ Claim(d) \/ Post(d) \/ Record(d) \/ Crash(d)
        \/ \E a \in Artifacts : ApproveAndDispatch(d, a)

WebhookSpec == WebhookInit /\ [][WebhookNext]_webhookVars

\* A live dispatcher goes on and time passes.  Nobody has to sweep, and the
\* consumer has to accept nothing.
FairWebhookSpec ==
    /\ WebhookSpec
    /\ \A d \in Dispatchers : WF_webhookVars(Post(d) \/ Record(d))
    /\ \A a \in Artifacts : WF_webhookVars(Lapse(a))

-----------------------------------------------------------------------------
(* Safety *)

\* Two dispatchers never POST one delivery at the same time: the approval's own
\* dispatch, the sweep, a second sweep, a claim taken over after the lease.
OnePoster ==
    \A d, e \in Dispatchers : target[d] # NoArtifact /\ target[d] = target[e] => d = e

\* A delivery that is recorded is never POSTed again, whatever list a sweep works
\* from and however late a result is recorded.
NothingAfterDelivered ==
    \A d \in Dispatchers : phase[d] = "post" => target[d] \notin delivered

\* A claim excludes: no POST overlaps another one of its delivery, and none
\* follows the one that is recorded.
PostsExclude == OnePoster /\ NothingAfterDelivered

\* The ledger calls delivered only what the consumer accepted.
DeliveredWasAccepted == \A a \in delivered : accepted[a] > 0

-----------------------------------------------------------------------------
(* What the ledger promises *)

Posters == [a \in Artifacts |-> {d \in Dispatchers : target[d] = a}]

Deliveries == INSTANCE ExclusiveSend WITH
    Things <- Artifacts, Senders <- Dispatchers, sending <- Posters, sent <- delivered

\* The ledger implements ExclusiveSend: a delivery has one dispatcher at a time,
\* over claims that lapse, sweeps of old lists and lost answers; it is recorded
\* only when it was accepted, and nobody POSTs it any more from then on.
DeliveriesSpec == Deliveries!Spec

-----------------------------------------------------------------------------
(* Liveness *)

\* A claim does not outlive its dispatcher: a later sweep can take the delivery.
ClaimIsTransient == \A a \in Artifacts : a \in in_flight ~> Claimable(a) \/ a \in delivered
=============================================================================
