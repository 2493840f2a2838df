---------------------------- MODULE Claims_proofs ----------------------------
(***************************************************************************)
(* Proofs about the two claims behind which something leaves the system:    *)
(* PublishDispatch's marker, for any destinations, routes and requests, and *)
(* OutboundWebhook's row of the ledger, for any artifacts, dispatchers and  *)
(* retry bound.                                                             *)
(*                                                                          *)
(* The marker is a lock whose key is the row's id: holder.  IInv says that  *)
(* a request between its insert and the end of its try holds the row of its *)
(* destination (SenderHolds), so that two of them cannot be there, and      *)
(* relates what is in the row to where its holder is (AnswerTells).         *)
(*                                                                          *)
(* The ledger's claim is a lease: the row says in flight, not whose.        *)
(* WebhookIInv says that a dispatcher with a target keeps it in flight,     *)
(* undelivered and unlapsed (ClaimHeld), so that no other dispatcher can    *)
(* claim it; that the lease outlasts a live dispatcher is in Lapse's guard. *)
(***************************************************************************)
EXTENDS PublishDispatch, OutboundWebhook, TLAPS

-----------------------------------------------------------------------------
(* PublishDispatch: the inductive invariant *)

\* A row has a holder exactly while it exists.
RowHasHolder == \A k \in Destinations : marker[k] = "absent" <=> holder[k] = None

\* The holder of a row asked for this destination, and has inserted.
HolderIsPast(k, r) ==
    holder[k] = r => dest[r] = k /\ stage[r] \notin {"new", "insert", "lookup"}

\* A request from its insert to the end of its try holds its row, pending until
\* it completes it, and past its send it knows of a post.  Only a video's request
\* has a link to keep.
SenderHolds(r) ==
    /\ stage[r] \in Sending => holder[dest[r]] = r
    /\ stage[r] \in {"send", "link", "complete"} => marker[dest[r]] = "pending"
    /\ stage[r] \in {"link", "complete"} => posts[dest[r]] > 0
    /\ stage[r] = "link" => dest[r] \in Videos

\* Only a request that is done has told its caller anything; one that told
\* "published" holds its completed row for good.
AnswerTells(r) ==
    /\ answer[r] # "none" => stage[r] = "done"
    /\ answer[r] = "published" => holder[dest[r]] = r /\ marker[dest[r]] = "completed"
    /\ answer[r] = "failed" /\ dest[r] \in Reporting => holder[dest[r]] # r

\* A request that lost the insert finds a row, or another has given up since; and
\* it took no row for a completed one then.
LookupTells(r) ==
    /\ stage[r] = "lookup" => marker[dest[r]] # "absent" \/ GaveUp(dest[r])
    /\ answer[r] = "idempotent" => posts[dest[r]] > 0 \/ GaveUp(dest[r])

\* What the books call published was posted.
BooksAreReal == \A k \in Destinations : marker[k] = "completed" \/ k \in link => posts[k] > 0

RequestInv ==
    /\ \A k \in Destinations, r \in Requests : HolderIsPast(k, r)
    /\ \A r \in Requests : SenderHolds(r) /\ AnswerTells(r)

IInv ==
    /\ TypeOK /\ RowHasHolder /\ BooksAreReal /\ RequestInv
    /\ \A r \in Requests : LookupTells(r)

-----------------------------------------------------------------------------
(* What follows from it *)

LEMMA InvOneSender == IInv => OneSender
BY DEF IInv, RequestInv, SenderHolds, OneSender

LEMMA InvSuccessIsReal == IInv => SuccessIsReal
BY DEF IInv, RequestInv, AnswerTells, LookupTells, BooksAreReal, SuccessIsReal, TypeOK

LEMMA InvRetryIsPossible == IInv => RetryIsPossible
BY DEF IInv, RequestInv, AnswerTells, RetryIsPossible

-----------------------------------------------------------------------------
(* It is inductive *)

LEMMA InitIInv == Init => IInv
<1> SUFFICES ASSUME Init PROVE IInv
  OBVIOUS
<1> USE DispatchAssumption DEF Init
<1>1. TypeOK
  BY DEF TypeOK, MarkerState, Stages, Answers
<1>2. RowHasHolder /\ BooksAreReal
  BY DEF RowHasHolder, BooksAreReal
<1>3. RequestInv
  BY DEF RequestInv, HolderIsPast, SenderHolds, AnswerTells, Sending
<1>4. \A r \in Requests : LookupTells(r)
  BY DEF LookupTells
<1> QED BY <1>1, <1>2, <1>3, <1>4 DEF IInv

LEMMA StepTypeOK == IInv /\ [Next]_vars => TypeOK'
<1> SUFFICES ASSUME TypeOK, RequestInv, [Next]_vars PROVE TypeOK'
  BY DEF IInv
<1> USE DispatchAssumption
<1>1. CASE Approve \/ Unapprove \/ FinishVideo
  BY <1>1 DEF Approve, Unapprove, FinishVideo, TypeOK, row, request
<1>2. ASSUME NEW r \in Requests, Ask(r) PROVE TypeOK'
  BY <1>2 DEF Ask, Tell, GoTo, TypeOK, gate, row, Stages, Answers
<1>3. ASSUME NEW r \in Requests, Insert(r) PROVE TypeOK'
  BY <1>3 DEF Insert, GoTo, TypeOK, gate, row, Stages, MarkerState
<1>4. ASSUME NEW r \in Requests, Lookup(r) PROVE TypeOK'
  BY <1>4 DEF Lookup, Tell, TypeOK, gate, row, Stages, Answers
<1>5. ASSUME NEW r \in Requests, Send(r) PROVE TypeOK'
  BY <1>5 DEF Send, GoTo, TypeOK, gate, row, Stages
<1>6. ASSUME NEW r \in Requests, KeepLink(r) PROVE TypeOK'
  BY <1>6 DEF KeepLink, GoTo, TypeOK, gate, row, Stages, RequestInv, SenderHolds
<1>7. ASSUME NEW r \in Requests, Complete(r) PROVE TypeOK'
  BY <1>7 DEF Complete, CompleteRow, Tell, GoTo, TypeOK, gate, Stages, Answers, MarkerState
<1>8. ASSUME NEW r \in Requests, Rollback(r) PROVE TypeOK'
  BY <1>8 DEF Rollback, DeleteRow, Tell, TypeOK, gate, row, Stages, Answers, MarkerState
<1>9. ASSUME NEW r \in Requests, Die(r) PROVE TypeOK'
  BY <1>9 DEF Die, GoTo, TypeOK, gate, row, Stages
<1>10. CASE UNCHANGED vars
  BY <1>10 DEF vars, gate, row, request, TypeOK
<1> QED
  BY <1>1, <1>2, <1>3, <1>4, <1>5, <1>6, <1>7, <1>8, <1>9, <1>10 DEF Next, Work

LEMMA StepRequests ==
    IInv /\ [Next]_vars => RowHasHolder' /\ BooksAreReal' /\ RequestInv'
<1> DEFINE Goal == RowHasHolder /\ BooksAreReal /\ RequestInv
<1> SUFFICES ASSUME IInv, [Next]_vars PROVE Goal'
  OBVIOUS
<1> USE DispatchAssumption DEF IInv, TypeOK, RowHasHolder, BooksAreReal, RequestInv,
        HolderIsPast, SenderHolds, AnswerTells, Sending
<1>1. CASE Approve \/ Unapprove \/ FinishVideo
  BY <1>1 DEF Approve, Unapprove, FinishVideo, row, request
<1>2. ASSUME NEW r \in Requests, Ask(r) PROVE Goal'
  BY <1>2 DEF Ask, Tell, GoTo, row
<1>3. ASSUME NEW r \in Requests, Insert(r) PROVE Goal'
  BY <1>3 DEF Insert, GoTo, row
<1>4. ASSUME NEW r \in Requests, Lookup(r) PROVE Goal'
  BY <1>4 DEF Lookup, Tell, row
<1>5. ASSUME NEW r \in Requests, Send(r) PROVE Goal'
  BY <1>5 DEF Send, GoTo, row
<1>6. ASSUME NEW r \in Requests, KeepLink(r) PROVE Goal'
  BY <1>6 DEF KeepLink, GoTo, row
<1>7. ASSUME NEW r \in Requests, Complete(r) PROVE Goal'
  BY <1>7 DEF Complete, CompleteRow, Tell, GoTo
<1>8. ASSUME NEW r \in Requests, Rollback(r) PROVE Goal'
  BY <1>8 DEF Rollback, DeleteRow, Tell, row
<1>9. ASSUME NEW r \in Requests, Die(r) PROVE Goal'
  BY <1>9 DEF Die, GoTo, row
<1>10. CASE UNCHANGED vars
  BY <1>10 DEF vars, row, request
<1> QED
  BY <1>1, <1>2, <1>3, <1>4, <1>5, <1>6, <1>7, <1>8, <1>9, <1>10 DEF Next, Work

\* What a done request has told stays told, so giving up is for good.
LEMMA GaveUpStays ==
    ASSUME TypeOK, RequestInv, [Next]_vars, NEW k \in Destinations, GaveUp(k)
    PROVE  GaveUp(k)'
<1> PICK s \in Requests : dest[s] = k /\ answer[s] \in {"failed", "blocked"}
  BY DEF GaveUp
<1>1. stage[s] = "done"
  BY DEF RequestInv, AnswerTells
<1>2. UNCHANGED dest
  BY DEF Next, Work, Approve, Unapprove, FinishVideo, Ask, Insert, Lookup, Send, KeepLink,
         Complete, Rollback, Die, vars, request
<1>3. answer'[s] = answer[s]
  BY <1>1 DEF Next, Work, Approve, Unapprove, FinishVideo, Ask, Insert, Lookup, Send, KeepLink,
              Complete, Rollback, Die, Tell, vars, request, TypeOK
<1> QED BY <1>2, <1>3 DEF GaveUp

\* Nor is a post taken back.
LEMMA PostsStay ==
    ASSUME TypeOK, [Next]_vars, NEW k \in Destinations, posts[k] > 0
    PROVE  posts'[k] > 0
<1>1. ASSUME NEW r \in Requests, Send(r) PROVE posts'[k] > 0
  BY <1>1 DEF Send, TypeOK
<1>2. (\E r \in Requests : Send(r)) \/ UNCHANGED posts
  BY DEF Next, Work, Approve, Unapprove, FinishVideo, Ask, Insert, Lookup, KeepLink,
         Complete, Rollback, Die, vars
<1> QED BY <1>1, <1>2

LEMMA StepLookups == IInv /\ [Next]_vars => \A r \in Requests : LookupTells(r)'
<1> SUFFICES ASSUME IInv, [Next]_vars, NEW q \in Requests PROVE LookupTells(q)'
  OBVIOUS
<1>1. /\ TypeOK /\ RequestInv /\ BooksAreReal /\ LookupTells(q)
      /\ dest[q] \in Destinations
  BY DEF IInv, TypeOK
<1>. PICK k \in Destinations : k = dest[q]
  BY <1>1
<1>2. dest'[q] = dest[q]
  BY DEF Next, Work, Approve, Unapprove, FinishVideo, Ask, Insert, Lookup, Send, KeepLink,
         Complete, Rollback, Die, vars, request
<1>3. GaveUp(k) => GaveUp(k)'
  BY <1>1, GaveUpStays
<1>4. posts[k] > 0 => posts'[k] > 0
  BY <1>1, PostsStay
<1>5. ASSUME NEW s \in Requests, Rollback(s), marker'[k] = "absent", marker[k] # "absent"
      PROVE  GaveUp(k)'
  <2>1. holder[k] = s /\ dest[s] = k
    BY <1>1, <1>5 DEF Rollback, DeleteRow, row, TypeOK, RequestInv, HolderIsPast
  <2>2. answer'[s] \in {"failed", "blocked"} /\ dest'[s] = dest[s]
    BY <1>1, <1>5 DEF Rollback, Tell, TypeOK
  <2> QED BY <1>2, <2>1, <2>2 DEF GaveUp
<1>6. marker'[k] = "absent" =>
        marker[k] = "absent" \/ (\E s \in Requests : Rollback(s))
  BY <1>1 DEF Next, Work, Approve, Unapprove, FinishVideo, Ask, Insert, Lookup, Send, KeepLink,
              Complete, CompleteRow, Die, vars, row, TypeOK
<1>7. stage'[q] = "lookup" => stage[q] = "lookup" \/ marker'[k] # "absent"
  BY <1>1 DEF Next, Work, Approve, Unapprove, FinishVideo, Ask, Insert, Lookup, Send, KeepLink,
              Complete, Rollback, Die, Tell, GoTo, vars, row, request, TypeOK
<1>8. stage'[q] = "lookup" => marker'[k] # "absent" \/ GaveUp(k)'
  BY <1>1, <1>2, <1>3, <1>5, <1>6, <1>7 DEF LookupTells
<1>9. answer'[q] = "idempotent" =>
        \/ answer[q] = "idempotent"
        \/ k \in link
        \/ stage[q] = "lookup" /\ marker[k] # "pending"
  BY <1>1 DEF Next, Work, Approve, Unapprove, FinishVideo, Ask, Insert, Lookup, Send, KeepLink,
              Complete, Rollback, Die, Tell, vars, request, TypeOK
<1>10. answer'[q] = "idempotent" => posts[k] > 0 \/ GaveUp(k)
  BY <1>1, <1>9 DEF LookupTells, BooksAreReal, TypeOK, MarkerState
<1>11. answer'[q] = "idempotent" => posts'[k] > 0 \/ GaveUp(k)'
  BY <1>2, <1>3, <1>4, <1>10
<1> QED BY <1>2, <1>8, <1>11 DEF LookupTells, GaveUp

LEMMA Inductive == IInv /\ [Next]_vars => IInv'
BY StepTypeOK, StepRequests, StepLookups DEF IInv

-----------------------------------------------------------------------------
(* PublishDispatch: theorems *)

\* IInv holds throughout every behaviour of the publish routes.
THEOREM Invariance == Spec => []IInv
BY InitIInv, Inductive, PTL DEF Spec

\* The rows and the program counters of the publish routes keep their types.
THEOREM TypeCorrect == Spec => []TypeOK
BY Invariance, PTL DEF IInv

\* However many operators press however many buttons, and wherever their
\* requests die, no destination has two requests sending at once.
THEOREM DispatchExcludes == Spec => []OneSender
BY Invariance, InvOneSender, PTL

\* No post is ever claimed, in the books, to the caller who made it or to one whose
\* publish is called a replay, that the destination did not accept, unless a
\* request for it has given up.
THEOREM BooksTellTruth == Spec => []SuccessIsReal
BY Invariance, InvSuccessIsReal, PTL

\* A 502 of a route that reports stuck markers leaves none of its own.
THEOREM RetryInvitationHonest == Spec => []RetryIsPossible
BY Invariance, InvRetryIsPossible, PTL

\* What the books and the answers say of a post is what happened to it, up to the
\* false replay SuccessIsReal names.
THEOREM AnswersTrue == Spec => []AnswersAreTrue
BY BooksTellTruth, RetryInvitationHonest, PTL DEF AnswersAreTrue

-----------------------------------------------------------------------------
(* PublishDispatch implements ExclusiveSend *)

\* A request that goes on sending, or does not, changes nothing of the promise:
\* what it writes in its own row is not in the books while it is there.
LEMMA RequestStays ==
    ASSUME IInv, NEW r \in Requests, NEW s \in Stages,
           stage' = [stage EXCEPT ![r] = s], UNCHANGED dest,
           s \in Sending <=> stage[r] \in Sending,
           \A k \in Destinations : marker'[k] = marker[k] \/ (k = dest[r] /\ s \in Sending)
    PROVE  UNCHANGED << SendersOf, Booked >>
<1>1. SendersOf' = SendersOf
  <2>1. \A q \in Requests : stage'[q] \in Sending <=> stage[q] \in Sending
    BY DEF IInv, TypeOK
  <2> QED
    BY <2>1 DEF SendersOf
<1>2. s \in Sending => r \in SendersOf[dest[r]]
  BY DEF SendersOf, IInv, TypeOK
<1> QED
  BY <1>1, <1>2 DEF Booked

\* A request that ends leaves its destination, whose row may be complete.
LEMMA RequestStops ==
    ASSUME IInv, NEW r \in Requests, NEW s \in Stages \ Sending, stage[r] \in Sending,
           stage' = [stage EXCEPT ![r] = s], UNCHANGED << dest, posts >>,
           \A k \in Destinations : marker'[k] = marker[k] \/ k = dest[r],
           marker'[dest[r]] = "completed" => posts[dest[r]] > 0
    PROVE  Exclusive!Next
<1>1. dest[r] \in Destinations /\ SendersOf[dest[r]] = {r}
  <2>1. dest[r] \in Destinations
    BY DEF IInv, TypeOK
  <2>2. \A q \in Requests : stage[q] \in Sending /\ dest[q] = dest[r] => q = r
    BY InvOneSender DEF OneSender
  <2> QED
    BY <2>1, <2>2 DEF SendersOf
<1>2. SendersOf' = [k \in Destinations |-> IF k = dest[r] THEN {} ELSE SendersOf[k]]
  <2>1. \A q \in Requests : stage'[q] \in Sending <=> stage[q] \in Sending /\ q # r
    BY DEF IInv, TypeOK
  <2>2. \A q \in Requests : stage[q] \in Sending /\ dest[q] = dest[r] => q = r
    BY InvOneSender DEF OneSender
  <2>3. \A k \in Destinations :
          {q \in Requests : stage'[q] \in Sending /\ dest'[q] = k}
            = IF k = dest[r] THEN {} ELSE {q \in Requests : stage[q] \in Sending /\ dest[q] = k}
    BY <2>1, <2>2
  <2> QED
    BY <2>3 DEF SendersOf
<1>3. PICK booked : booked = {k \in {dest[r]} : marker'[k] = "completed"}
  OBVIOUS
<1>4. Booked' = Booked \cup booked
  <2>1. \A k \in Destinations : SendersOf'[k] = IF k = dest[r] THEN {} ELSE SendersOf[k]
    BY <1>2
  <2>2. Booked' = {k \in Destinations : marker'[k] = "completed" /\ SendersOf'[k] = {}}
    BY DEF Booked
  <2> QED
    BY <1>1, <1>3, <2>1, <2>2 DEF Booked
<1>5. Exclusive!Stop(r, {dest[r]}, booked)
  BY <1>1, <1>2, <1>3, <1>4 DEF Exclusive!Stop
<1>6. {dest[r]} \in SUBSET Destinations /\ booked \in SUBSET {dest[r]}
  BY <1>1, <1>3
<1> QED
  BY <1>5, <1>6 DEF Exclusive!Next

LEMMA StepExclusive ==
    ASSUME IInv, [Next]_vars
    PROVE  Exclusive!Next \/ UNCHANGED << SendersOf, posts, Booked >>
<1> DEFINE Goal == Exclusive!Next \/ UNCHANGED << SendersOf, posts, Booked >>
<1> USE DEF Sending
<1>0. \A r \in Requests : stage[r] \in Stages /\ dest[r] \in Destinations /\ SenderHolds(r)
  BY DEF IInv, TypeOK, RequestInv
<1>1. CASE Approve \/ Unapprove \/ FinishVideo
  BY <1>1 DEF Approve, Unapprove, FinishVideo, row, request, SendersOf, Booked
<1>2. ASSUME NEW r \in Requests, Ask(r) PROVE Goal
  <2>1. PICK s \in {"done", "insert"} : stage' = [stage EXCEPT ![r] = s]
    BY <1>2 DEF Ask, Tell, GoTo
  <2> QED
    BY <1>2, <2>1, RequestStays DEF Ask, row, Stages
<1>3. ASSUME NEW r \in Requests, Insert(r) PROVE Goal
  <2>1. CASE marker[dest[r]] = "absent"
    <3>1. /\ marker' = [marker EXCEPT ![dest[r]] = "pending"] /\ stage' = [stage EXCEPT ![r] = "send"]
          /\ UNCHANGED << dest, posts >> /\ stage[r] = "insert"
      BY <1>3, <2>1 DEF Insert, GoTo
    <3>2. \A q \in Requests : stage[q] \in Sending => dest[q] # dest[r]
      BY <1>0, <2>1, DispatchAssumption DEF SenderHolds, IInv, RowHasHolder
    <3>3. SendersOf' = [k \in Destinations |-> IF k \in {dest[r]} THEN {r} ELSE SendersOf[k]]
      <4>1. \A q \in Requests : stage'[q] \in Sending <=> stage[q] \in Sending \/ q = r
        BY <3>1 DEF IInv, TypeOK
      <4>2. \A k \in Destinations :
              {q \in Requests : stage'[q] \in Sending /\ dest'[q] = k}
                = IF k \in {dest[r]} THEN {r} ELSE {q \in Requests : stage[q] \in Sending /\ dest[q] = k}
        BY <3>1, <3>2, <4>1
      <4> QED
        BY <4>2 DEF SendersOf
    <3>4. SendersOf[dest[r]] = {} /\ dest[r] \notin Booked
      BY <1>0, <2>1, <3>2 DEF SendersOf, Booked
    <3>5. Booked' = Booked
      <4>1. \A k \in Destinations : k # dest[r] => marker'[k] = marker[k] /\ SendersOf'[k] = SendersOf[k]
        BY <3>1, <3>3 DEF IInv, TypeOK
      <4>2. SendersOf'[dest[r]] = {r}
        BY <1>0, <3>3
      <4>3. Booked' = {k \in Destinations : marker'[k] = "completed" /\ SendersOf'[k] = {}}
        BY DEF Booked
      <4> QED
        BY <3>4, <4>1, <4>2, <4>3 DEF Booked
    <3>6. Exclusive!Start(r, {dest[r]})
      BY <3>1, <3>3, <3>4, <3>5 DEF Exclusive!Start
    <3> QED
      BY <1>0, <3>6 DEF Exclusive!Next
  <2>2. CASE marker[dest[r]] # "absent"
    BY <1>3, <2>2, RequestStays DEF Insert, GoTo, row, Stages
  <2> QED
    BY <2>1, <2>2
<1>4. ASSUME NEW r \in Requests, Lookup(r) PROVE Goal
  BY <1>4, RequestStays DEF Lookup, Tell, row, Stages
<1>5. ASSUME NEW r \in Requests, Send(r) PROVE Goal
  <2>1. PICK taken \in BOOLEAN, s \in {"rollback", "link", "complete"} :
          /\ posts' = [posts EXCEPT ![dest[r]] = IF taken THEN @ + 1 ELSE @]
          /\ stage' = [stage EXCEPT ![r] = s]
    BY <1>5 DEF Send, GoTo
  <2>2. UNCHANGED << SendersOf, Booked >>
    BY <1>5, <2>1, RequestStays DEF Send, row, Stages
  <2>3. CASE taken
    <3>1. SendersOf[dest[r]] = {r}
      BY <1>0, <1>5, InvOneSender DEF Send, SendersOf, OneSender
    <3>2. Exclusive!Accept(r, dest[r])
      BY <2>1, <2>2, <2>3, <3>1 DEF Exclusive!Accept
    <3> QED
      BY <1>0, <3>2 DEF Exclusive!Next
  <2>4. CASE ~ taken
    BY <2>1, <2>2, <2>4 DEF IInv, TypeOK
  <2> QED
    BY <2>3, <2>4
<1>6. ASSUME NEW r \in Requests, KeepLink(r) PROVE Goal
  <2>1. PICK s \in {"complete", "rollback"} : stage' = [stage EXCEPT ![r] = s]
    BY <1>6 DEF KeepLink, GoTo
  <2> QED
    BY <1>6, <2>1, RequestStays DEF KeepLink, row, Stages
<1>7. ASSUME NEW r \in Requests, Complete(r) PROVE Goal
  <2>1. \A k \in Destinations : marker'[k] = marker[k] \/ k = dest[r]
    BY <1>7 DEF Complete, CompleteRow, IInv, TypeOK, RequestInv, HolderIsPast
  <2>2. posts[dest[r]] > 0
    BY <1>0, <1>7 DEF Complete, SenderHolds
  <2>3. CASE stage' = [stage EXCEPT ![r] = "done"]
    BY <1>7, <2>1, <2>2, <2>3, RequestStops DEF Complete, Stages
  <2>4. CASE stage' = [stage EXCEPT ![r] = "rollback"]
    BY <1>7, <2>1, <2>4, RequestStays DEF Complete, Stages
  <2> QED
    BY <1>7, <2>3, <2>4 DEF Complete, Tell, GoTo
<1>8. ASSUME NEW r \in Requests, Rollback(r) PROVE Goal
  <2>1. DeleteRow(r) \/ UNCHANGED row
    BY <1>8 DEF Rollback
  <2>2. \A k \in Destinations : marker'[k] = marker[k] \/ (k = dest[r] /\ marker'[k] = "absent")
    BY <2>1 DEF DeleteRow, row, IInv, TypeOK, RequestInv, HolderIsPast
  <2>3. marker'[dest[r]] = "completed" => posts[dest[r]] > 0
    BY <1>0, <2>2 DEF IInv, BooksAreReal
  <2>4. stage' = [stage EXCEPT ![r] = "done"] /\ stage[r] = "rollback" /\ UNCHANGED << dest, posts >>
    BY <1>8 DEF Rollback, Tell
  <2> QED
    BY <2>2, <2>3, <2>4, RequestStops DEF Stages
<1>9. ASSUME NEW r \in Requests, Die(r) PROVE Goal
  <2>1. stage' = [stage EXCEPT ![r] = "dead"] /\ UNCHANGED << marker, dest, posts >>
    BY <1>9 DEF Die, GoTo, row
  <2>2. CASE stage[r] \in Sending
    <3>1. marker[dest[r]] = "completed" => posts[dest[r]] > 0
      BY <1>0 DEF IInv, BooksAreReal
    <3> QED
      BY <2>1, <2>2, <3>1, RequestStops DEF Stages
  <2>3. CASE stage[r] \notin Sending
    BY <2>1, <2>3, RequestStays DEF Stages
  <2> QED
    BY <2>2, <2>3
<1>10. CASE UNCHANGED vars
  BY <1>10 DEF vars, row, request, SendersOf, Booked
<1> QED
  BY <1>1, <1>2, <1>3, <1>4, <1>5, <1>6, <1>7, <1>8, <1>9, <1>10 DEF Next, Work

\* The two-phase marker implements the abstract claim: one sender at a time, and
\* nobody sends after a completion its request has left in the books.
THEOREM MarkerIsExclusive == Spec => ExclusiveSpec
<1>1. Init => Exclusive!Init
  BY DispatchAssumption DEF Init, Exclusive!Init, SendersOf, Booked, Sending
<1>2. IInv /\ [Next]_vars => [Exclusive!Next]_<< SendersOf, posts, Booked >>
  BY StepExclusive
<1> QED
  BY <1>1, <1>2, Invariance, PTL DEF Spec, ExclusiveSpec, Exclusive!Spec

\* So a destination whose marker is completed and left is never posted to again,
\* and its completion stays.
THEOREM CompletionIsFinal ==
    Spec => [][\A k \in Booked : k \in Booked' /\ posts'[k] = posts[k]]_<< SendersOf, posts, Booked >>
<1>1. TypeOK /\ [Exclusive!Next]_<< SendersOf, posts, Booked >>
        => [\A k \in Booked : k \in Booked' /\ posts'[k] = posts[k]]_<< SendersOf, posts, Booked >>
  BY DEF TypeOK, Booked, Exclusive!Next, Exclusive!Accept, Exclusive!Start, Exclusive!Stop
<1> QED
  BY <1>1, MarkerIsExclusive, TypeCorrect, PTL DEF ExclusiveSpec, Exclusive!Spec

-----------------------------------------------------------------------------
(* OutboundWebhook: the inductive invariant *)

\* A dispatcher has a target from its claim to its record, and holds it.
ClaimHeld(d) ==
    /\ target[d] # NoArtifact <=> phase[d] \in {"post", "record"}
    /\ target[d] # NoArtifact =>
           /\ target[d] \in in_flight
           /\ target[d] \notin lapsed
           /\ target[d] \notin delivered

\* A success to be recorded is a POST that was accepted.
OutcomeIsReal(d) == ok[d] => phase[d] = "record" /\ accepted[target[d]] > 0

WebhookIInv ==
    /\ WebhookTypeOK
    /\ OnePoster
    /\ DeliveredWasAccepted
    /\ \A d \in Dispatchers : ClaimHeld(d) /\ OutcomeIsReal(d)

LEMMA InvNothingAfterDelivered == WebhookIInv => NothingAfterDelivered
BY DEF WebhookIInv, ClaimHeld, NothingAfterDelivered

-----------------------------------------------------------------------------
(* It is inductive *)

LEMMA WebhookInitIInv == WebhookInit => WebhookIInv
BY WebhookAssumption
   DEF WebhookInit, WebhookIInv, WebhookTypeOK, OnePoster, DeliveredWasAccepted, ClaimHeld, OutcomeIsReal

LEMMA StepWebhookTypeOK == WebhookIInv /\ [WebhookNext]_webhookVars => WebhookTypeOK'
<1> SUFFICES ASSUME WebhookTypeOK, \A d \in Dispatchers : ClaimHeld(d), [WebhookNext]_webhookVars PROVE WebhookTypeOK'
  BY DEF WebhookIInv
<1> USE WebhookAssumption
<1>1. ASSUME NEW a \in Artifacts, ApproveSilently(a) PROVE WebhookTypeOK'
  BY <1>1 DEF ApproveSilently, WebhookTypeOK, ledger, dispatcher
<1>2. ASSUME NEW a \in Artifacts, Lapse(a) PROVE WebhookTypeOK'
  BY <1>2 DEF Lapse, WebhookTypeOK, dispatcher
<1>3. ASSUME NEW d \in Dispatchers, Sweep(d) PROVE WebhookTypeOK'
  BY <1>3 DEF Turn, Sweep, WebhookTypeOK, ledger
<1>4. ASSUME NEW d \in Dispatchers, NEW a \in Artifacts, ApproveAndDispatch(d, a) PROVE WebhookTypeOK'
  BY <1>4 DEF Turn, ApproveAndDispatch, WebhookTypeOK, ledger
<1>5. ASSUME NEW d \in Dispatchers, Claim(d) PROVE WebhookTypeOK'
  <2>1. PICK a \in list[d] : Win(d, a) \/ Skip(d, a) \/ Waste(d, a)
    BY <1>5 DEF Claim
  <2>2. a \in snapshots /\ a \in Artifacts /\ list[d] \in SUBSET snapshots
    BY <2>1 DEF WebhookTypeOK
  <2>3. CASE Win(d, a)
    BY <2>2, <2>3 DEF Win, Take, WebhookTypeOK
  <2>4. CASE Skip(d, a)
    BY <2>2, <2>4 DEF Skip, Turn, WebhookTypeOK, ledger
  <2>5. CASE Waste(d, a)
    BY <2>2, <2>5 DEF Waste, Take, Turn, WebhookTypeOK
  <2> QED BY <2>1, <2>3, <2>4, <2>5
<1>6. ASSUME NEW d \in Dispatchers, Post(d) PROVE WebhookTypeOK'
  <2>0. /\ target[d] \in Artifacts /\ accepted \in [Artifacts -> Nat]
        /\ tries \in [Dispatchers -> 0..MaxAttempts]
    BY <1>6 DEF Post, ClaimHeld, WebhookTypeOK
  <2>1. accepted' \in [Artifacts -> Nat]
    BY <1>6, <2>0 DEF Post
  <2>2. Retry(d) \/ \E delivery \in BOOLEAN : Finish(d, delivery)
    BY <1>6 DEF Post, Outcome
  <2>3. /\ phase' \in [Dispatchers -> {"idle", "claim", "post", "record"}]
        /\ ok' \in [Dispatchers -> BOOLEAN]
    BY <2>2 DEF Retry, Finish, WebhookTypeOK
  <2>4. tries' \in [Dispatchers -> 0..MaxAttempts]
    <3>1. \A n \in 0..MaxAttempts : n < MaxAttempts => n + 1 \in 0..MaxAttempts
      OBVIOUS
    <3> QED BY <2>0, <2>2, <3>1 DEF Retry, Finish
  <2> QED BY <1>6, <2>1, <2>3, <2>4 DEF Post, WebhookTypeOK, ledger
<1>7. ASSUME NEW d \in Dispatchers, Record(d) PROVE WebhookTypeOK'
  BY <1>7 DEF Turn, Record, ClaimHeld, WebhookTypeOK, ledger
<1>8. ASSUME NEW d \in Dispatchers, Crash(d) PROVE WebhookTypeOK'
  BY <1>8 DEF Turn, Crash, WebhookTypeOK, ledger
<1>9. CASE UNCHANGED webhookVars
  BY <1>9 DEF webhookVars, ledger, dispatcher, WebhookTypeOK
<1> QED BY <1>1, <1>2, <1>3, <1>4, <1>5, <1>6, <1>7, <1>8, <1>9 DEF WebhookNext

LEMMA StepClaims ==
    WebhookIInv /\ [WebhookNext]_webhookVars =>
        /\ OnePoster'
        /\ DeliveredWasAccepted'
        /\ \A d \in Dispatchers : (ClaimHeld(d) /\ OutcomeIsReal(d))'
<1> DEFINE Goal == /\ OnePoster
                   /\ DeliveredWasAccepted
                   /\ \A d \in Dispatchers : ClaimHeld(d) /\ OutcomeIsReal(d)
<1> SUFFICES ASSUME WebhookTypeOK, Goal, [WebhookNext]_webhookVars PROVE Goal'
  BY DEF WebhookIInv
<1> USE WebhookAssumption DEF OnePoster, DeliveredWasAccepted, ClaimHeld, OutcomeIsReal
<1>1. ASSUME NEW a \in Artifacts, ApproveSilently(a) PROVE Goal'
  BY <1>1 DEF ApproveSilently, ledger, dispatcher
<1>2. ASSUME NEW a \in Artifacts, Lapse(a) PROVE Goal'
  BY <1>2 DEF Lapse, dispatcher
<1>3. ASSUME NEW d \in Dispatchers, Sweep(d) PROVE Goal'
  BY <1>3 DEF Turn, Sweep, ledger
<1>4. ASSUME NEW d \in Dispatchers, NEW a \in Artifacts, ApproveAndDispatch(d, a) PROVE Goal'
  BY <1>4 DEF Turn, ApproveAndDispatch, ledger
<1>5. ASSUME NEW d \in Dispatchers, Claim(d) PROVE Goal'
  <2>1. PICK a \in list[d] : Win(d, a) \/ Skip(d, a) \/ Waste(d, a)
    BY <1>5 DEF Claim
  <2>2. Take(a) => a # NoArtifact /\ \A e \in Dispatchers : target[e] # a
    BY <2>1 DEF Take, Claimable, WebhookTypeOK
  <2>3. CASE Win(d, a)
    <3>1. target' = [target EXCEPT ![d] = a]
      BY <2>3 DEF Win
    <3> QED BY <1>5, <2>2, <2>3, <3>1 DEF Claim, Win, Take, Claimable, WebhookTypeOK
  <2>4. CASE Skip(d, a)
    BY <1>5, <2>4 DEF Claim, Skip, Turn, ledger, WebhookTypeOK
  <2>5. CASE Waste(d, a)
    BY <1>5, <2>2, <2>5 DEF Claim, Waste, Take, Turn, WebhookTypeOK
  <2> QED BY <2>1, <2>3, <2>4, <2>5
<1>6. ASSUME NEW d \in Dispatchers, Post(d) PROVE Goal'
  BY <1>6 DEF Post, Outcome, Retry, Finish, ledger, WebhookTypeOK
<1>7. ASSUME NEW d \in Dispatchers, Record(d) PROVE Goal'
  <2>1. target[d] # NoArtifact /\ target' = [target EXCEPT ![d] = NoArtifact]
    BY <1>7 DEF Record, Turn
  <2>2. \A e \in Dispatchers \ {d} : target[e] # NoArtifact => target[e] # target[d]
    BY <2>1
  <2>3. /\ phase' = [phase EXCEPT ![d] = phase'[d]] /\ phase'[d] \in {"idle", "claim"}
        /\ ok' = [ok EXCEPT ![d] = FALSE]
        /\ UNCHANGED accepted
    BY <1>7 DEF Record, Turn, WebhookTypeOK
  <2>4. \A e \in Dispatchers : (ClaimHeld(e) /\ OutcomeIsReal(e))'
    BY <1>7, <2>1, <2>2, <2>3 DEF Record, ledger, WebhookTypeOK
  <2>5. DeliveredWasAccepted'
    BY <1>7, <2>3 DEF Record, ledger, WebhookTypeOK
  <2> QED BY <2>1, <2>4, <2>5 DEF WebhookTypeOK
<1>8. ASSUME NEW d \in Dispatchers, Crash(d) PROVE Goal'
  BY <1>8 DEF Turn, Crash, ledger, WebhookTypeOK
<1>9. CASE UNCHANGED webhookVars
  BY <1>9 DEF webhookVars, ledger, dispatcher
<1> QED BY <1>1, <1>2, <1>3, <1>4, <1>5, <1>6, <1>7, <1>8, <1>9 DEF WebhookNext

LEMMA WebhookInductive == WebhookIInv /\ [WebhookNext]_webhookVars => WebhookIInv'
BY StepWebhookTypeOK, StepClaims DEF WebhookIInv

-----------------------------------------------------------------------------
(* OutboundWebhook: theorems *)

\* WebhookIInv holds throughout every behaviour of the dispatchers.
THEOREM WebhookInvariance == WebhookSpec => []WebhookIInv
BY WebhookInitIInv, WebhookInductive, PTL DEF WebhookSpec

\* The rows and the program counters of the delivery ledger keep their types.
THEOREM WebhookTypeCorrect == WebhookSpec => []WebhookTypeOK
BY WebhookInvariance, PTL DEF WebhookIInv

\* Approvals and sweeps never POST one delivery at the same time, wherever
\* dispatchers die.
THEOREM ClaimExcludes == WebhookSpec => []OnePoster
BY WebhookInvariance, PTL DEF WebhookIInv

\* A recorded delivery is final: nothing POSTs it any more.
THEOREM DeliveryIsFinal == WebhookSpec => []NothingAfterDelivered
BY WebhookInvariance, InvNothingAfterDelivered, PTL

\* Together: a claim excludes every other POST of its delivery.
THEOREM PostsAreExclusive == WebhookSpec => []PostsExclude
BY ClaimExcludes, DeliveryIsFinal, PTL DEF PostsExclude

\* The ledger's delivered_at stands for a POST that was accepted.
THEOREM LedgerTellsTruth == WebhookSpec => []DeliveredWasAccepted
BY WebhookInvariance, PTL DEF WebhookIInv

-----------------------------------------------------------------------------
(* OutboundWebhook implements ExclusiveSend *)

\* A dispatcher that has no target, and takes none, changes nothing of the promise.
LEMMA TargetsStay ==
    ASSUME UNCHANGED << target, accepted, delivered >>
    PROVE  UNCHANGED << Posters, accepted, delivered >>
BY DEF Posters

LEMMA Untargeted ==
    ASSUME WebhookIInv, NEW d \in Dispatchers, NEW todo, Turn(d, todo), phase[d] \in {"idle", "claim"}
    PROVE  target' = target
BY DEF Turn, WebhookIInv, WebhookTypeOK, ClaimHeld

\* One that ends its work on its target leaves it, recorded or not.
LEMMA DispatcherStops ==
    ASSUME WebhookIInv, NEW d \in Dispatchers, NEW todo, Turn(d, todo), target[d] # NoArtifact,
           UNCHANGED accepted,
           NEW booked \in SUBSET {target[d]}, delivered' = delivered \cup booked,
           \A a \in booked : accepted[a] > 0
    PROVE  Deliveries!Next
<1>1. target[d] \in Artifacts
  BY DEF WebhookIInv, WebhookTypeOK
<1>2. \A e \in Dispatchers : target[e] = target[d] => e = d
  BY DEF WebhookIInv, OnePoster
<1>3. Posters[target[d]] = {d}
  BY <1>1, <1>2 DEF Posters
<1>4. Posters' = [a \in Artifacts |-> IF a \in {target[d]} THEN {} ELSE Posters[a]]
  <2>1. target' = [target EXCEPT ![d] = NoArtifact]
    BY DEF Turn
  <2>2. \A a \in Artifacts :
          {e \in Dispatchers : target'[e] = a}
            = IF a \in {target[d]} THEN {} ELSE {e \in Dispatchers : target[e] = a}
    BY <1>2, <2>1, WebhookAssumption DEF WebhookIInv, WebhookTypeOK
  <2> QED
    BY <2>2 DEF Posters
<1>5. Deliveries!Stop(d, {target[d]}, booked)
  BY <1>3, <1>4 DEF Deliveries!Stop
<1> QED
  BY <1>1, <1>5 DEF Deliveries!Next

LEMMA StepDeliveries ==
    ASSUME WebhookIInv, [WebhookNext]_webhookVars
    PROVE  Deliveries!Next \/ UNCHANGED << Posters, accepted, delivered >>
<1> DEFINE Goal == Deliveries!Next \/ UNCHANGED << Posters, accepted, delivered >>
<1>0. \A d \in Dispatchers : ClaimHeld(d) /\ OutcomeIsReal(d)
  BY DEF WebhookIInv
<1>1. ASSUME NEW a \in Artifacts, ApproveSilently(a) \/ Lapse(a) PROVE Goal
  BY <1>1, TargetsStay DEF ApproveSilently, Lapse, ledger, dispatcher
<1>2. ASSUME NEW d \in Dispatchers, Sweep(d) PROVE Goal
  BY <1>2, Untargeted, TargetsStay DEF Sweep, ledger
<1>3. ASSUME NEW d \in Dispatchers, NEW a \in Artifacts, ApproveAndDispatch(d, a) PROVE Goal
  BY <1>3, Untargeted, TargetsStay DEF ApproveAndDispatch, ledger
<1>4. ASSUME NEW d \in Dispatchers, Claim(d) PROVE Goal
  <2>1. PICK a \in list[d] : Win(d, a) \/ Skip(d, a) \/ Waste(d, a)
    BY <1>4 DEF Claim
  <2>2. a \in Artifacts /\ phase[d] = "claim" /\ target[d] = NoArtifact
    BY <1>0, <1>4, <2>1 DEF Claim, ClaimHeld, WebhookIInv, WebhookTypeOK
  <2>3. CASE Win(d, a)
    <3>1. /\ target' = [target EXCEPT ![d] = a] /\ UNCHANGED << accepted, delivered >>
          /\ a \notin delivered /\ (a \notin in_flight \/ a \in lapsed)
      BY <2>3 DEF Win, Take, Claimable
    <3>2. \A e \in Dispatchers : target[e] # a
      BY <1>0, <2>2, <3>1, WebhookAssumption DEF ClaimHeld
    <3>3. Posters[a] = {}
      BY <2>2, <3>2 DEF Posters
    <3>4. Posters' = [b \in Artifacts |-> IF b \in {a} THEN {d} ELSE Posters[b]]
      <4>1. \A b \in Artifacts :
              {e \in Dispatchers : target'[e] = b}
                = IF b \in {a} THEN {d} ELSE {e \in Dispatchers : target[e] = b}
        BY <2>2, <3>1, <3>2, WebhookAssumption DEF WebhookIInv, WebhookTypeOK
      <4> QED
        BY <4>1 DEF Posters
    <3>5. Deliveries!Start(d, {a})
      BY <3>1, <3>3, <3>4 DEF Deliveries!Start
    <3> QED
      BY <2>2, <3>5 DEF Deliveries!Next
  <2>4. CASE Skip(d, a)
    BY <2>2, <2>4, Untargeted, TargetsStay DEF Skip, ledger
  <2>5. CASE Waste(d, a)
    BY <2>2, <2>5, Untargeted, TargetsStay DEF Waste, Take
  <2> QED
    BY <2>1, <2>3, <2>4, <2>5
<1>5. ASSUME NEW d \in Dispatchers, Post(d) PROVE Goal
  <2>1. PICK taken \in BOOLEAN : accepted' = [accepted EXCEPT ![target[d]] = IF taken THEN @ + 1 ELSE @]
    BY <1>5 DEF Post
  <2>2. UNCHANGED << target, delivered >> /\ target[d] # NoArtifact
    BY <1>0, <1>5 DEF Post, ClaimHeld, ledger
  <2>3. target[d] \in Artifacts /\ Posters' = Posters
    BY <2>2 DEF WebhookIInv, WebhookTypeOK, Posters
  <2>4. CASE taken
    <3>1. Posters[target[d]] = {d}
      BY <2>2, <2>3 DEF Posters, WebhookIInv, OnePoster
    <3>2. Deliveries!Accept(d, target[d])
      BY <2>1, <2>2, <2>3, <2>4, <3>1 DEF Deliveries!Accept
    <3> QED
      BY <2>3, <3>2 DEF Deliveries!Next
  <2>5. CASE ~ taken
    BY <2>1, <2>2, <2>3, <2>5 DEF WebhookIInv, WebhookTypeOK
  <2> QED
    BY <2>4, <2>5
<1>6. ASSUME NEW d \in Dispatchers, Record(d) PROVE Goal
  <2>1. target[d] # NoArtifact
    BY <1>0, <1>6 DEF Record, ClaimHeld
  <2>2. PICK booked \in SUBSET {target[d]} : delivered' = delivered \cup booked /\ (booked # {} => ok[d])
    <3>1. \/ delivered' = delivered
          \/ delivered' = delivered \cup {target[d]} /\ ok[d]
      BY <1>6 DEF Record, ledger
    <3>2. CASE delivered' = delivered
      BY <3>2
    <3>3. CASE delivered' = delivered \cup {target[d]} /\ ok[d]
      BY <3>3
    <3> QED
      BY <3>1, <3>2, <3>3
  <2>3. \A a \in booked : accepted[a] > 0
    BY <1>0, <2>2 DEF OutcomeIsReal
  <2> QED
    BY <1>6, <2>1, <2>2, <2>3, DispatcherStops DEF Record
<1>7. ASSUME NEW d \in Dispatchers, Crash(d) PROVE Goal
  <2>1. Turn(d, {}) /\ UNCHANGED << accepted, delivered >>
    BY <1>7 DEF Crash, ledger
  <2>2. CASE target[d] = NoArtifact
    <3>1. target' = target
      BY <2>1, <2>2 DEF Turn, WebhookIInv, WebhookTypeOK
    <3> QED
      BY <2>1, <3>1, TargetsStay
  <2>3. CASE target[d] # NoArtifact
    <3>1. delivered' = delivered \cup {}
      BY <2>1
    <3> QED
      BY <2>1, <2>3, <3>1, DispatcherStops
  <2> QED
    BY <2>2, <2>3
<1>8. CASE UNCHANGED webhookVars
  BY <1>8, TargetsStay DEF webhookVars, ledger, dispatcher
<1> QED
  BY <1>1, <1>2, <1>3, <1>4, <1>5, <1>6, <1>7, <1>8 DEF WebhookNext

\* The delivery ledger implements the abstract claim: one dispatcher at a time,
\* and nobody POSTs a delivery that is recorded.
THEOREM LedgerIsExclusive == WebhookSpec => DeliveriesSpec
<1>1. WebhookInit => Deliveries!Init
  BY WebhookAssumption DEF WebhookInit, Deliveries!Init, Posters
<1>2. WebhookIInv /\ [WebhookNext]_webhookVars => [Deliveries!Next]_<< Posters, accepted, delivered >>
  BY StepDeliveries
<1> QED
  BY <1>1, <1>2, WebhookInvariance, PTL DEF WebhookSpec, DeliveriesSpec, Deliveries!Spec

\* So the consumer gets nothing of a delivery any more once it is recorded, and
\* the record stays, whatever a sweep has on its list.
THEOREM RecordIsFinal ==
    WebhookSpec =>
        [][\A a \in delivered : a \in delivered' /\ accepted'[a] = accepted[a]]_<< Posters, accepted, delivered >>
<1>1. WebhookIInv /\ [Deliveries!Next]_<< Posters, accepted, delivered >>
        => [\A a \in delivered : a \in delivered' /\ accepted'[a] = accepted[a]]_<< Posters, accepted, delivered >>
  <2> SUFFICES ASSUME WebhookIInv, Deliveries!Next, NEW a \in delivered
               PROVE  a \in delivered' /\ accepted'[a] = accepted[a]
    BY DEF WebhookIInv, WebhookTypeOK
  <2>1. Posters[a] = {} /\ accepted \in [Artifacts -> Nat] /\ a \in Artifacts
    BY WebhookAssumption DEF WebhookIInv, WebhookTypeOK, ClaimHeld, Posters
  <2> QED
    BY <2>1 DEF Deliveries!Next, Deliveries!Accept, Deliveries!Start, Deliveries!Stop
<1> QED
  BY <1>1, LedgerIsExclusive, WebhookInvariance, PTL DEF DeliveriesSpec, Deliveries!Spec
=============================================================================
