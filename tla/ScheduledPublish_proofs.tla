---------------------- MODULE ScheduledPublish_proofs -----------------------
(***************************************************************************)
(* Proofs about ScheduledPublish, for any channels, drains, batch size and  *)
(* number of schedules.                                                     *)
(*                                                                          *)
(* The row carries no owner: what keeps a schedule from being shipped twice *)
(* is that pending, the only claimable status, is never entered but with a  *)
(* new schedule (Untouched), and that a drain posts once per claim          *)
(* (DrainInv).                                                              *)
(***************************************************************************)
EXTENDS ScheduledPublish, TLAPS

-----------------------------------------------------------------------------
(* The inductive invariant *)

Working(d, c) == stage[d][c] # "none"

\* Nobody works, or will post again, for schedule g of c.
NobodyFor(c, g) == \A d \in Drains : Working(d, c) => claim[d][c] # g

\* A schedule that is still to be claimed, or was cancelled, has seen no drain.
Untouched(c) ==
    row[c] \in {"none", "pending", "cancelled"} =>
        posts[c][gen[c]] = 0 /\ NobodyFor(c, gen[c])

\* Nor has one that is not made yet.
Unmade(c) ==
    /\ gen[c] <= made
    /\ \A g \in Generation : g > made => posts[c][g] = 0
    /\ \A d \in Drains : claim[d][c] <= made

\* A drain posts a schedule that was not posted, and says sent of one that was.
DrainInv(d, c) ==
    /\ stage[d][c] \in {"check", "publish"} => posts[c][claim[d][c]] = 0
    /\ stage[d][c] = "mark_sent" => posts[c][claim[d][c]] > 0
    /\ Working(d, c) /\ approved => vouched[d][c]
    /\ stage[d][c] = "publish" => vouched[d][c]
    /\ drain[d] # "sending" => ~ Working(d, c)

\* Two drains never work for the same schedule.
Apart == \A c \in Channels, d, e \in Drains :
    Working(d, c) /\ Working(e, c) /\ claim[d][c] = claim[e][c] => d = e

RowInv == \A c \in Channels : Untouched(c) /\ Unmade(c)

IInv ==
    /\ TypeOK
    /\ RowInv
    /\ \A d \in Drains, c \in Channels : DrainInv(d, c)
    /\ Apart
    /\ AtMostOncePerSchedule
    /\ SentWasPosted

LEMMA InvCancelledNotSent == IInv => CancelledNotSent
BY DEF IInv, RowInv, Untouched, NobodyFor, Working, CancelledNotSent

LEMMA InvShipsOnlyVouched == IInv => ShipsOnlyVouched
BY DEF IInv, DrainInv, ShipsOnlyVouched

-----------------------------------------------------------------------------
(* It is inductive *)

LEMMA InitIInv == Init => IInv
<1> SUFFICES ASSUME Init PROVE IInv
  OBVIOUS
<1>0. 0 \in Generation
  BY ScheduleAssumption DEF Generation
<1>1. TypeOK
  BY <1>0 DEF Init, TypeOK, RowStatus, Stages
<1>2. RowInv
  BY <1>0 DEF Init, RowInv, Untouched, NobodyFor, Working, Unmade, Generation
<1>3. \A d \in Drains, c \in Channels : DrainInv(d, c)
  BY <1>0 DEF Init, DrainInv, Working
<1>4. Apart /\ AtMostOncePerSchedule /\ SentWasPosted
  BY <1>0 DEF Init, Apart, Working, AtMostOncePerSchedule, SentWasPosted
<1> QED BY <1>1, <1>2, <1>3, <1>4 DEF IInv

\* A drain's move changes its own stage with one row.
LEMMA Moved ==
    ASSUME TypeOK, NEW d \in Drains, NEW c \in Channels, NEW s \in Stages, MoveTo(d, c, s)
    PROVE  /\ stage' \in [Drains -> [Channels -> Stages]]
           /\ stage'[d][c] = s
           /\ \A e \in Drains, k \in Channels :
                e # d \/ k # c => stage'[e][k] = stage[e][k]
BY DEF MoveTo, TypeOK

LEMMA StepTypeOK == TypeOK /\ [Next]_vars => TypeOK'
<1> SUFFICES ASSUME TypeOK, [Next]_vars PROVE TypeOK'
  OBVIOUS
<1>1. CASE Approve
  BY <1>1 DEF Approve, TypeOK, table, work
<1>2. CASE Unapprove
  BY <1>2 DEF Unapprove, TypeOK, work, RowStatus
<1>3. CASE WorkerUnapprove
  BY <1>3 DEF WorkerUnapprove, TypeOK, table, work
<1>4. ASSUME NEW c \in Channels, Schedule(c) PROVE TypeOK'
  <2>1. made' \in Generation /\ made + 1 \in Generation
    BY <1>4, ScheduleAssumption DEF Schedule, TypeOK, Generation
  <2>2. gen' \in [Channels -> Generation]
    BY <1>4, <2>1 DEF Schedule, TypeOK
  <2>3. row' \in [Channels -> RowStatus]
    BY <1>4 DEF Schedule, TypeOK, RowStatus
  <2>4. due' \in [Channels -> Generation]
    BY <1>4, ScheduleAssumption DEF Schedule, TypeOK, Generation
  <2> QED BY <1>4, <2>1, <2>2, <2>3, <2>4 DEF Schedule, TypeOK, gate, work
<1>5. ASSUME NEW c \in Channels, Cancel(c) PROVE TypeOK'
  BY <1>5 DEF Cancel, TypeOK, gate, work, RowStatus
<1>6. ASSUME NEW c \in Channels, BecomeDue(c) \/ Age(c) PROVE TypeOK'
  <2>1. CASE BecomeDue(c)
    <3>1. PICK n \in Generation : due' = [due EXCEPT ![c] = n]
      BY <2>1 DEF BecomeDue, Later
    <3>2. due' \in [Channels -> Generation]
      BY <3>1 DEF TypeOK
    <3> QED BY <2>1, <3>2 DEF BecomeDue, TypeOK, gate, work
  <2>2. CASE Age(c)
    BY <2>2 DEF Age, TypeOK, gate, work
  <2> QED BY <1>6, <2>1, <2>2
<1>7. ASSUME NEW d \in Drains, StartDrain(d) PROVE TypeOK'
  BY <1>7 DEF StartDrain, Reaped, TypeOK, gate, RowStatus
<1>8. ASSUME NEW d \in Drains, ClaimDue(d) PROVE TypeOK'
  <2>1. PICK B \in Batch :
          /\ row' = [c \in Channels |-> IF c \in B THEN "sending" ELSE row[c]]
          /\ aged' = [c \in Channels |-> aged[c] /\ c \notin B]
          /\ stage' = [stage EXCEPT ![d] =
                           [c \in Channels |-> IF c \in B THEN "check" ELSE "none"]]
          /\ claim' = [claim EXCEPT ![d] =
                           [c \in Channels |-> IF c \in B THEN gen[c] ELSE 0]]
          /\ vouched' = [vouched EXCEPT ![d] =
                           [c \in Channels |-> c \in B /\ approved]]
    BY <1>8 DEF ClaimDue
  <2>2. 0 \in Generation
    BY ScheduleAssumption DEF Generation
  <2>3. row' \in [Channels -> RowStatus] /\ aged' \in [Channels -> BOOLEAN]
    BY <2>1 DEF TypeOK, RowStatus
  <2>4. stage' \in [Drains -> [Channels -> Stages]]
    BY <2>1 DEF TypeOK, Stages
  <2>5. claim' \in [Drains -> [Channels -> Generation]]
    BY <2>1, <2>2 DEF TypeOK
  <2>6. vouched' \in [Drains -> [Channels -> BOOLEAN]]
    BY <2>1 DEF TypeOK
  <2>7. drain' \in [Drains -> {"idle", "reaped", "sending"}]
    BY <1>8 DEF ClaimDue, TypeOK
  <2> QED BY <1>8, <2>3, <2>4, <2>5, <2>6, <2>7 DEF ClaimDue, TypeOK, gate
<1>9. ASSUME NEW d \in Drains, EndDrain(d) PROVE TypeOK'
  BY <1>9 DEF EndDrain, TypeOK, table, gate
<1>10. ASSUME NEW d \in Drains, Crash(d) PROVE TypeOK'
  BY <1>10 DEF Crash, TypeOK, table, gate, Stages
<1>11. ASSUME NEW d \in Drains, NEW c \in Channels,
              CheckApproval(d, c) \/ Abandon(d, c)
       PROVE  TypeOK'
  <2>1. \E s \in Stages : MoveTo(d, c, s)
    BY <1>11 DEF CheckApproval, Abandon, Stages
  <2>2. stage' \in [Drains -> [Channels -> Stages]]
    BY <2>1, Moved
  <2> QED BY <1>11, <2>2 DEF CheckApproval, Abandon, TypeOK, table, gate
<1>12. ASSUME NEW d \in Drains, NEW c \in Channels, Publish(d, c) PROVE TypeOK'
  <2>1. claim[d][c] \in Generation
    BY DEF TypeOK
  <2>2. posts' \in [Channels -> [Generation -> Nat]]
    BY <1>12, <2>1 DEF Publish, TypeOK
  <2>3. stage' \in [Drains -> [Channels -> Stages]]
    BY <1>12, Moved DEF Publish, Stages
  <2> QED BY <1>12, <2>2, <2>3 DEF Publish, TypeOK, table, gate
<1>13. ASSUME NEW d \in Drains, NEW c \in Channels, MarkSent(d, c) \/ MarkFailed(d, c)
       PROVE  TypeOK'
  <2>1. stage' \in [Drains -> [Channels -> Stages]]
    BY <1>13, Moved DEF MarkSent, MarkFailed, Stages
  <2>2. row' \in [Channels -> RowStatus] /\ aged' \in [Channels -> BOOLEAN]
    BY <1>13 DEF MarkSent, MarkFailed, Mark, TypeOK, RowStatus
  <2> QED BY <1>13, <2>1, <2>2 DEF MarkSent, MarkFailed, TypeOK, gate
<1>14. CASE UNCHANGED vars
  BY <1>14 DEF vars, table, gate, work, TypeOK
<1> QED
  BY <1>1, <1>2, <1>3, <1>4, <1>5, <1>6, <1>7, <1>8, <1>9, <1>10, <1>11, <1>12, <1>13,
     <1>14 DEF Next, WorkOn

\* The conjuncts of IInv beside the types.
SafeInv ==
    /\ RowInv
    /\ \A d \in Drains, c \in Channels : DrainInv(d, c)
    /\ Apart
    /\ AtMostOncePerSchedule
    /\ SentWasPosted

\* A step that makes no schedule and no claim, posts nothing, ends work or moves
\* it on as DrainInv asks, and takes rows nowhere but to failed, cancelled or
\* sent as it may.
Harmless ==
    /\ UNCHANGED << gen, made, claim, posts >>
    /\ \A d \in Drains, c \in Channels : DrainInv(d, c)' /\ (Working(d, c)' => Working(d, c))
    /\ \A c \in Channels :
         \/ row'[c] \in {row[c], "failed"}
         \/ row[c] = "pending" /\ row'[c] = "cancelled"
         \/ row'[c] = "sent" /\ \E g \in Generation : posts[c][g] > 0

LEMMA HarmlessIsSafe == TypeOK /\ SafeInv /\ Harmless => SafeInv'
<1> SUFFICES ASSUME TypeOK, SafeInv, Harmless PROVE SafeInv'
  OBVIOUS
<1>1. RowInv'
  <2> SUFFICES ASSUME NEW c \in Channels PROVE Untouched(c)' /\ Unmade(c)'
    BY DEF RowInv
  <2>1. Untouched(c) /\ Unmade(c)
    BY DEF SafeInv, RowInv
  <2>2. row'[c] \in {"none", "pending", "cancelled"} =>
            row[c] \in {"none", "pending", "cancelled"}
    BY DEF Harmless
  <2>3. Untouched(c)'
    BY <2>1, <2>2 DEF Untouched, NobodyFor, Harmless
  <2>4. Unmade(c)'
    BY <2>1 DEF Unmade, Harmless
  <2> QED BY <2>3, <2>4
<1>2. Apart'
  BY DEF SafeInv, Apart, Harmless
<1>3. AtMostOncePerSchedule' /\ SentWasPosted'
  BY DEF SafeInv, AtMostOncePerSchedule, SentWasPosted, Harmless
<1> QED BY <1>1, <1>2, <1>3 DEF SafeInv, Harmless

LEMMA StepSafe == IInv /\ [Next]_vars => SafeInv'
<1> SUFFICES ASSUME TypeOK, SafeInv, [Next]_vars PROVE SafeInv'
  BY DEF IInv, SafeInv
<1>0. \A d \in Drains, c \in Channels : DrainInv(d, c)
  BY DEF SafeInv
<1>1. CASE Approve
  <2>1. \A d \in Drains, c \in Channels :
          vouched'[d][c] = (vouched[d][c] \/ stage[d][c] # "none")
    BY <1>1 DEF Approve
  <2> QED BY <1>0, <1>1, <2>1, HarmlessIsSafe DEF Approve, Harmless, DrainInv, Working, table, work
<1>2. CASE Unapprove
  <2>0. row' = [c \in Channels |-> IF row[c] = "pending" THEN "cancelled" ELSE row[c]]
    BY <1>2 DEF Unapprove
  <2>1. \A c \in Channels :
          row'[c] = row[c] \/ (row[c] = "pending" /\ row'[c] = "cancelled")
    BY <2>0
  <2> QED
    BY <1>0, <1>2, <2>1, HarmlessIsSafe DEF Unapprove, Harmless, DrainInv, Working, work
<1>3. CASE WorkerUnapprove
  BY <1>0, <1>3, HarmlessIsSafe DEF WorkerUnapprove, Harmless, DrainInv, Working, table, work
<1>4. ASSUME NEW c \in Channels, Schedule(c) PROVE SafeInv'
  <2>1. /\ made' = made + 1 /\ made + 1 \in Generation /\ made \in Nat
        /\ gen'[c] = made + 1
        /\ \A k \in Channels \ {c} : gen'[k] = gen[k] /\ row'[k] = row[k]
        /\ row'[c] = "pending"
        /\ UNCHANGED << gate, work, posts, vouched >>
    BY <1>4, ScheduleAssumption DEF Schedule, TypeOK, Generation
  <2>2. \A k \in Channels : Untouched(k) /\ Unmade(k) /\ gen[k] \in Nat
    BY DEF SafeInv, RowInv, TypeOK, Generation
  <2>3. \A d \in Drains, k \in Channels : claim[d][k] \in Nat /\ claim[d][k] <= made
    BY <2>2 DEF Unmade, TypeOK, Generation
  <2>4. \A g \in Generation : g \in Nat
    BY DEF Generation
  <2>5. \A k \in Channels : Unmade(k)'
    BY <2>1, <2>2, <2>3, <2>4 DEF Unmade, work
  <2>6. \A k \in Channels \ {c} : Untouched(k)'
    BY <2>1, <2>2 DEF Untouched, NobodyFor, Working, work
  <2>7. Untouched(c)'
    <3>1. posts[c][made + 1] = 0
      BY <2>1, <2>2 DEF Unmade
    <3>2. \A d \in Drains : claim[d][c] # made + 1
      BY <2>1, <2>3
    <3> QED BY <2>1, <3>1, <3>2 DEF Untouched, NobodyFor, work
  <2>8. (\A d \in Drains, k \in Channels : DrainInv(d, k)') /\ Apart'
    BY <1>0, <2>1 DEF SafeInv, DrainInv, Working, Apart, gate, work
  <2>9. AtMostOncePerSchedule' /\ SentWasPosted'
    BY <2>1 DEF SafeInv, AtMostOncePerSchedule, SentWasPosted
  <2> QED BY <2>5, <2>6, <2>7, <2>8, <2>9 DEF SafeInv, RowInv
<1>5. ASSUME NEW c \in Channels, Cancel(c) PROVE SafeInv'
  <2>1. \A k \in Channels :
          row'[k] = row[k] \/ (row[k] = "pending" /\ row'[k] = "cancelled")
    <3>1. row \in [Channels -> RowStatus] /\ row' = [row EXCEPT ![c] = "cancelled"]
      BY <1>5 DEF Cancel, TypeOK
    <3>2. row[c] = "pending"
      BY <1>5 DEF Cancel
    <3> QED BY <3>1, <3>2
  <2> QED
    BY <1>0, <1>5, <2>1, HarmlessIsSafe DEF Cancel, Harmless, DrainInv, Working, gate, work
<1>6. ASSUME NEW c \in Channels, BecomeDue(c) \/ Age(c) PROVE SafeInv'
  BY <1>0, <1>6, HarmlessIsSafe DEF BecomeDue, Age, Harmless, DrainInv, Working, gate, work
<1>7. ASSUME NEW d \in Drains, StartDrain(d) PROVE SafeInv'
  <2>1. \A k \in Channels : row'[k] \in {row[k], "failed"}
    BY <1>7 DEF StartDrain, Reaped
  <2>2. \A e \in Drains : drain'[e] = drain[e] \/ drain[e] # "sending"
    BY <1>7 DEF StartDrain, TypeOK
  <2> QED
    BY <1>0, <1>7, <2>1, <2>2, HarmlessIsSafe DEF StartDrain, Harmless, DrainInv, Working, gate
<1>8. ASSUME NEW d \in Drains, ClaimDue(d) PROVE SafeInv'
  <2>1. PICK B \in Batch :
          /\ row' = [c \in Channels |-> IF c \in B THEN "sending" ELSE row[c]]
          /\ stage' = [stage EXCEPT ![d] =
                           [c \in Channels |-> IF c \in B THEN "check" ELSE "none"]]
          /\ claim' = [claim EXCEPT ![d] =
                           [c \in Channels |-> IF c \in B THEN gen[c] ELSE 0]]
          /\ vouched' = [vouched EXCEPT ![d] =
                           [c \in Channels |-> c \in B /\ approved]]
    BY <1>8 DEF ClaimDue
  <2>2. \A c \in B : c \in Channels /\ row[c] = "pending"
    BY DEF Batch, Earliest, Due
  <2>3. /\ drain'[d] = "sending" /\ \A e \in Drains \ {d} : drain'[e] = drain[e]
        /\ UNCHANGED << due, gen, made, gate, posts >>
    BY <1>8 DEF ClaimDue, TypeOK
  <2>4. \A c \in Channels :
          /\ stage'[d][c] = IF c \in B THEN "check" ELSE "none"
          /\ claim'[d][c] = IF c \in B THEN gen[c] ELSE 0
          /\ vouched'[d][c] = (c \in B /\ approved)
    BY <2>1 DEF TypeOK
  <2>5. \A e \in Drains \ {d}, c \in Channels :
          stage'[e][c] = stage[e][c] /\ claim'[e][c] = claim[e][c] /\ vouched'[e][c] = vouched[e][c]
    BY <2>1 DEF TypeOK
  <2>6. \A c \in Channels : Untouched(c) /\ Unmade(c) /\ made \in Nat /\ gen[c] \in Nat
    BY DEF SafeInv, RowInv, TypeOK, Generation
  <2>7. \A c \in Channels : Unmade(c)'
    BY <2>3, <2>4, <2>5, <2>6 DEF Unmade
  <2>8. \A c \in Channels : Untouched(c)'
    <3>1. \A c \in Channels : row'[c] # "sending" => c \notin B /\ row'[c] = row[c]
      BY <2>1
    <3> QED BY <2>3, <2>4, <2>5, <2>6, <3>1 DEF Untouched, NobodyFor, Working
  <2>9. \A e \in Drains, c \in Channels : DrainInv(e, c)'
    <3>1. ASSUME NEW e \in Drains \ {d}, NEW c \in Channels PROVE DrainInv(e, c)'
      BY <1>0, <2>3, <2>5, <3>1 DEF DrainInv, Working, gate
    <3>2. ASSUME NEW c \in Channels PROVE DrainInv(d, c)'
      <4>1. c \in B => posts[c][gen[c]] = 0
        BY <2>2, <2>6 DEF Untouched
      <4> QED BY <2>3, <2>4, <4>1 DEF DrainInv, Working, gate
    <3> QED BY <3>1, <3>2
  <2>10. Apart'
    BY <2>2, <2>3, <2>4, <2>5, <2>6 DEF SafeInv, Apart, Working, Untouched, NobodyFor
  <2>11. AtMostOncePerSchedule' /\ SentWasPosted'
    BY <2>1, <2>3 DEF SafeInv, AtMostOncePerSchedule, SentWasPosted
  <2> QED BY <2>7, <2>8, <2>9, <2>10, <2>11 DEF SafeInv, RowInv
<1>9. ASSUME NEW d \in Drains, EndDrain(d) PROVE SafeInv'
  BY <1>0, <1>9, HarmlessIsSafe
     DEF EndDrain, Harmless, DrainInv, Working, TypeOK, table, gate
<1>10. ASSUME NEW d \in Drains, Crash(d) PROVE SafeInv'
  <2>1. \A e \in Drains, c \in Channels :
          /\ stage'[e][c] = IF e = d THEN "none" ELSE stage[e][c]
          /\ drain'[e] = IF e = d THEN "idle" ELSE drain[e]
    BY <1>10 DEF Crash, TypeOK
  <2> QED
    BY <1>0, <1>10, <2>1, HarmlessIsSafe DEF Crash, Harmless, DrainInv, Working, table, gate
<1>11. ASSUME NEW d \in Drains, NEW c \in Channels,
              CheckApproval(d, c) \/ Abandon(d, c)
       PROVE  SafeInv'
  <2>1. PICK s \in Stages \ {"check", "mark_sent"} :
          /\ MoveTo(d, c, s)
          /\ s = "publish" => stage[d][c] = "check" /\ approved
    BY <1>11 DEF CheckApproval, StillApproved, Abandon, Stages
  <2>2. UNCHANGED << table, gate, drain, claim, posts, vouched >> /\ Working(d, c)
    BY <1>11 DEF CheckApproval, Abandon, Working
  <2> QED BY <1>0, <2>1, <2>2, Moved, HarmlessIsSafe DEF Harmless, DrainInv, Working, table, gate
<1>12. ASSUME NEW d \in Drains, NEW c \in Channels, Publish(d, c) PROVE SafeInv'
  <2>1. PICK accepted \in BOOLEAN, s \in {"mark_sent", "mark_failed"} :
          /\ s = "mark_sent" => accepted
          /\ posts' = [posts EXCEPT ![c][claim[d][c]] = IF accepted THEN @ + 1 ELSE @]
          /\ MoveTo(d, c, s)
    BY <1>12 DEF Publish
  <2>2. UNCHANGED << table, gate, drain, claim, vouched >> /\ stage[d][c] = "publish"
    BY <1>12 DEF Publish
  <2>3. /\ stage'[d][c] = s
        /\ \A e \in Drains, k \in Channels : e # d \/ k # c => stage'[e][k] = stage[e][k]
    BY <2>1, Moved DEF Stages
  <2>4. claim[d][c] \in Generation /\ posts[c][claim[d][c]] = 0
    BY <1>0, <2>2 DEF DrainInv, TypeOK
  <2>5. /\ posts'[c][claim[d][c]] = IF accepted THEN 1 ELSE 0
        /\ \A k \in Channels, g \in Generation :
             k # c \/ g # claim[d][c] => posts'[k][g] = posts[k][g]
    BY <2>1, <2>4 DEF TypeOK
  <2>6. /\ \A k \in Channels : gen[k] \in Generation /\ Untouched(k) /\ Unmade(k)
        /\ \A e \in Drains, k \in Channels : claim[e][k] \in Generation
        /\ \A g \in Generation : g \in Nat
        /\ made \in Nat
    BY DEF SafeInv, RowInv, TypeOK, Generation
  <2>7. \A k \in Channels : Unmade(k)'
    <3>1. claim[d][c] <= made
      BY <2>6 DEF Unmade
    <3> QED BY <2>2, <2>4, <2>5, <2>6, <3>1 DEF Unmade, table
  <2>8. \A k \in Channels : Untouched(k)'
    <3>1. row[c] \in {"none", "pending", "cancelled"} => claim[d][c] # gen[c]
      BY <2>2, <2>6 DEF Untouched, NobodyFor, Working
    <3> QED BY <2>2, <2>3, <2>5, <2>6, <3>1 DEF Untouched, NobodyFor, Working, table
  <2>9. \A e \in Drains, k \in Channels : DrainInv(e, k)'
    <3>1. ASSUME NEW e \in Drains, NEW k \in Channels, e # d \/ k # c
          PROVE  DrainInv(e, k)'
      <4>1. Working(e, k) => k # c \/ claim[e][k] # claim[d][c]
        BY <2>2, <3>1 DEF SafeInv, Apart, Working
      <4>2. Working(e, k) => posts'[k][claim[e][k]] = posts[k][claim[e][k]]
        BY <2>5, <2>6, <4>1
      <4>3. DrainInv(e, k) /\ stage'[e][k] = stage[e][k]
        BY <1>0, <2>3, <3>1
      <4> QED BY <2>2, <4>2, <4>3 DEF DrainInv, Working, table, gate
    <3>2. DrainInv(d, c)'
      BY <1>0, <2>1, <2>2, <2>3, <2>5 DEF DrainInv, Working, gate
    <3> QED BY <3>1, <3>2
  <2>10. Apart'
    BY <2>2, <2>3 DEF SafeInv, Apart, Working
  <2>11. AtMostOncePerSchedule'
    BY <2>5 DEF SafeInv, AtMostOncePerSchedule
  <2>12. SentWasPosted'
    <3>1. \A k \in Channels, g \in Generation : posts[k][g] > 0 => posts'[k][g] > 0
      BY <2>4, <2>5
    <3> QED BY <2>2, <3>1 DEF SafeInv, SentWasPosted, table
  <2> QED BY <2>7, <2>8, <2>9, <2>10, <2>11, <2>12 DEF SafeInv, RowInv
<1>13. ASSUME NEW d \in Drains, NEW c \in Channels, MarkSent(d, c) \/ MarkFailed(d, c)
       PROVE  SafeInv'
  <2>1. PICK s \in {"none", "mark_failed"} : MoveTo(d, c, s)
    BY <1>13 DEF MarkSent, MarkFailed
  <2>2. UNCHANGED << gen, made, gate, drain, claim, posts, vouched >> /\ Working(d, c)
    BY <1>13 DEF MarkSent, MarkFailed, Working
  <2>3. \A k \in Channels :
          \/ row'[k] \in {row[k], "failed"}
          \/ row'[k] = "sent" /\ k = c /\ stage[d][c] = "mark_sent"
    <3>1. row \in [Channels -> RowStatus]
      BY DEF TypeOK
    <3>2. \/ row' = row
          \/ row' = [row EXCEPT ![c] = "failed"]
          \/ row' = [row EXCEPT ![c] = "sent"] /\ stage[d][c] = "mark_sent"
      BY <1>13 DEF MarkSent, MarkFailed, Mark
    <3> QED BY <3>1, <3>2
  <2>4. stage[d][c] = "mark_sent" => \E g \in Generation : posts[c][g] > 0
    BY <1>0 DEF DrainInv, TypeOK
  <2>5. \A e \in Drains, k \in Channels : DrainInv(e, k)' /\ (Working(e, k)' => Working(e, k))
    BY <1>0, <2>1, <2>2, Moved DEF DrainInv, Working, gate, Stages
  <2> QED BY <2>2, <2>3, <2>4, <2>5, HarmlessIsSafe DEF Harmless
<1>14. CASE UNCHANGED vars
  BY <1>0, <1>14, HarmlessIsSafe DEF vars, table, gate, work, Harmless, DrainInv, Working
<1> QED
  BY <1>1, <1>2, <1>3, <1>4, <1>5, <1>6, <1>7, <1>8, <1>9, <1>10, <1>11, <1>12, <1>13,
     <1>14 DEF Next, WorkOn

LEMMA Inductive == IInv /\ [Next]_vars => IInv'
BY StepTypeOK, StepSafe DEF IInv, SafeInv

-----------------------------------------------------------------------------
(* Theorems *)

\* IInv holds throughout every behaviour of the schedules and the drains.
THEOREM Invariance == Spec => []IInv
BY InitIInv, Inductive, PTL DEF Spec

\* The rows and the program counters of the queue and its drains keep their types.
THEOREM TypeCorrect == Spec => []TypeOK
BY Invariance, PTL DEF IInv

\* However many drains overlap, die, or are told nothing by the channel, one
\* schedule is posted at most once.
THEOREM ScheduleShipsOnce == Spec => []AtMostOncePerSchedule
BY Invariance, PTL DEF IInv

\* A cancel that was accepted is never overtaken by a drain.
THEOREM CancelIsFinal == Spec => []CancelledNotSent
BY Invariance, InvCancelledNotSent, PTL

\* What the queue shows as sent was posted.
THEOREM SentIsReal == Spec => []SentWasPosted
BY Invariance, PTL DEF IInv

\* What a row of the queue says, sent or cancelled, is true of the channel.
THEOREM QueueTellsTruth == Spec => []RowTellsTruth
BY CancelIsFinal, SentIsReal, PTL DEF RowTellsTruth

\* A drain calls the channel only for an artifact that was approved at some
\* moment since its claim.
THEOREM OnlyVouchedShips == Spec => []ShipsOnlyVouched
BY Invariance, InvShipsOnlyVouched, PTL

-----------------------------------------------------------------------------
(* The queue implements ExclusiveSend *)

\* A schedule has one shipper.
LEMMA OneShipper ==
    ASSUME IInv, NEW s \in Schedules, NEW d \in Shippers[s]
    PROVE  Shippers[s] = {d}
BY DEF IInv, Apart, Working, Shippers, Schedules

\* A drain that goes on with some of its rows and leaves others: what it leaves
\* is in the books if it was posted.
LEMMA DrainLeaves ==
    ASSUME IInv, NEW d \in Drains, UNCHANGED << claim, posts >>,
           \A e \in Drains \ {d}, c \in Channels : Working(e, c)' <=> Working(e, c),
           \A c \in Channels : Working(d, c)' => Working(d, c)
    PROVE  Shipments!Next
<1> DEFINE batch == {s \in Schedules : d \in Shippers[s] /\ d \notin Shippers'[s]}
           booked == {s \in batch : Posted[s] > 0}
<1>1. Posted' = Posted
  BY DEF Posted
<1>2. \A s \in batch : Shippers[s] = {d}
  BY OneShipper
<1>3. ASSUME NEW s \in Schedules
      PROVE  Shippers'[s] = IF s \in batch THEN {} ELSE Shippers[s]
  <2>1. s[1] \in Channels
    BY DEF Schedules
  <2>2. Shippers'[s] = {e \in Drains : Working(e, s[1])' /\ claim[e][s[1]] = s[2]}
    BY DEF Shippers, Working
  <2>3. Shippers[s] = {e \in Drains : Working(e, s[1]) /\ claim[e][s[1]] = s[2]}
    BY DEF Shippers, Working
  <2>4. CASE s \in batch
    <3>1. \A e \in Drains : e \in Shippers'[s] => e = d /\ e \in Shippers'[s]
      BY <1>2, <2>1, <2>2, <2>3, <2>4
    <3> QED
      BY <2>2, <2>4, <3>1
  <2>5. CASE s \notin batch
    BY <2>1, <2>2, <2>3, <2>5
  <2> QED
    BY <2>4, <2>5
<1>4. Shippers' = [s \in Schedules |-> IF s \in batch THEN {} ELSE Shippers[s]]
  <2>1. Shippers' = [s \in Schedules |-> Shippers'[s]]
    BY DEF Shippers, Schedules, Generation
  <2> QED
    BY <1>3, <2>1
<1>5. Shipped' = Shipped \cup booked
  <2>1. Shipped' = {s \in Schedules : Posted[s] > 0 /\ Shippers'[s] = {}}
    BY <1>1 DEF Shipped, Schedules, Generation
  <2> QED
    BY <1>3, <2>1 DEF Shipped
<1>6. Shipments!Stop(d, batch, booked)
  BY <1>1, <1>2, <1>4, <1>5 DEF Shipments!Stop
<1>7. batch \in SUBSET Schedules /\ booked \in SUBSET batch
  OBVIOUS
<1> QED
  BY <1>6, <1>7 DEF Shipments!Next

\* What no drain does leaves the promise alone.
LEMMA NothingShipped ==
    ASSUME UNCHANGED << stage, claim, posts >>
    PROVE  UNCHANGED << Shippers, Posted, Shipped >>
<1>1. Shippers' = Shippers /\ Posted' = Posted
  BY DEF Shippers, Posted, Schedules, Generation
<1> QED
  BY <1>1 DEF Shipped, Schedules, Generation

\* A claim takes only schedules nobody has shipped and nobody ships.
LEMMA ClaimStarts ==
    ASSUME IInv, NEW d \in Drains, ClaimDue(d)
    PROVE  Shipments!Next
<1>1. PICK B \in Batch :
        /\ stage' = [stage EXCEPT ![d] = [c \in Channels |-> IF c \in B THEN "check" ELSE "none"]]
        /\ claim' = [claim EXCEPT ![d] = [c \in Channels |-> IF c \in B THEN gen[c] ELSE 0]]
  BY DEF ClaimDue
<1>2. drain[d] = "reaped" /\ UNCHANGED posts
  BY DEF ClaimDue
<1>3. \A c \in B : c \in Channels /\ posts[c][gen[c]] = 0 /\ NobodyFor(c, gen[c])
  <2>1. \A c \in B : c \in Channels /\ row[c] = "pending"
    BY DEF Batch, Earliest, Due
  <2> QED
    BY <2>1 DEF IInv, RowInv, Untouched
<1>4. \A c \in Channels : ~ Working(d, c)
  BY <1>2 DEF IInv, DrainInv
<1> DEFINE batch == {s \in Schedules : s[1] \in B /\ s[2] = gen[s[1]]}
<1>5. ASSUME NEW s \in batch PROVE Shippers[s] = {} /\ s \notin Shipped
  <2>1. s \in Schedules /\ s[1] \in B /\ s[2] = gen[s[1]]
    BY <1>5
  <2>2. posts[s[1]][s[2]] = 0 /\ \A e \in Drains : Working(e, s[1]) => claim[e][s[1]] # s[2]
    BY <1>3, <2>1 DEF NobodyFor
  <2>3. Shippers[s] = {}
    BY <2>1, <2>2 DEF Shippers, Working
  <2>4. Posted[s] = 0
    BY <2>1, <2>2 DEF Posted
  <2> QED
    BY <2>3, <2>4 DEF Shipped
<1>6. ASSUME NEW s \in Schedules
      PROVE  Shippers'[s] = IF s \in batch THEN {d} ELSE Shippers[s]
  <2>1. s[1] \in Channels
    BY DEF Schedules
  <2>2. Shippers'[s] = {e \in Drains : Working(e, s[1])' /\ claim'[e][s[1]] = s[2]}
    BY DEF Shippers, Working
  <2>3. \A e \in Drains \ {d} : (Working(e, s[1])' <=> Working(e, s[1])) /\ claim'[e][s[1]] = claim[e][s[1]]
    BY <1>1, <2>1 DEF IInv, TypeOK, Working
  <2>4. (Working(d, s[1])' /\ claim'[d][s[1]] = s[2]) <=> s \in batch
    BY <1>1, <2>1 DEF IInv, TypeOK, Working
  <2>5. Shippers[s] = {e \in Drains : Working(e, s[1]) /\ claim[e][s[1]] = s[2]}
    BY DEF Shippers, Working
  <2>6. d \notin Shippers[s]
    BY <1>4, <2>1, <2>5
  <2>7. CASE s \in batch
    <3>1. Shippers[s] = {}
      BY <1>5, <2>7
    <3> QED
      BY <2>2, <2>3, <2>4, <2>5, <2>7, <3>1
  <2>8. CASE s \notin batch
    BY <2>2, <2>3, <2>4, <2>5, <2>6, <2>8
  <2> QED
    BY <2>7, <2>8
<1> HIDE DEF batch
<1>7. Shippers' = [s \in Schedules |-> IF s \in batch THEN {d} ELSE Shippers[s]]
  <2>1. Shippers' = [s \in Schedules |-> Shippers'[s]]
    BY DEF Shippers, Schedules, Generation
  <2> QED
    BY <1>6, <2>1
<1>8. Posted' = Posted
  BY <1>2 DEF Posted, Schedules, Generation
<1>9. Shipped' = Shipped
  <2>1. Shipped' = {s \in Schedules : Posted[s] > 0 /\ Shippers'[s] = {}}
    BY <1>8 DEF Shipped, Schedules, Generation
  <2>2. \A s \in batch : ~ (Posted[s] > 0)
    <3>1. \A s \in batch : s \in Schedules
      BY DEF batch
    <3> QED
      BY <1>5, <3>1 DEF Shipped
  <2> QED
    BY <1>6, <2>1, <2>2 DEF Shipped
<1>10. Shipments!Start(d, batch)
  BY <1>5, <1>7, <1>8, <1>9 DEF Shipments!Start
<1>11. batch \in SUBSET Schedules
  BY DEF batch
<1> QED
  BY <1>10, <1>11 DEF Shipments!Next

\* A post is of the schedule the drain has claimed, which it still ships.
LEMMA PublishAccepts ==
    ASSUME IInv, NEW d \in Drains, NEW c \in Channels, Publish(d, c)
    PROVE  Shipments!Next \/ UNCHANGED << Shippers, Posted, Shipped >>
<1>1. PICK accepted \in BOOLEAN, s \in {"mark_sent", "mark_failed"} :
        /\ posts' = [posts EXCEPT ![c][claim[d][c]] = IF accepted THEN @ + 1 ELSE @]
        /\ MoveTo(d, c, s)
  BY DEF Publish
<1>2. UNCHANGED claim /\ stage[d][c] = "publish" /\ TypeOK /\ claim[d][c] \in Generation
  BY DEF Publish, IInv, TypeOK
<1> DEFINE this == << c, claim[d][c] >>
<1>3. this \in Schedules /\ this[1] = c /\ this[2] = claim[d][c]
  BY <1>2 DEF Schedules
<1>4. \A e \in Drains, k \in Channels : Working(e, k)' <=> Working(e, k)
  BY <1>1, <1>2, Moved DEF Working, Stages
<1>5. Shippers' = Shippers
  <2>1. ASSUME NEW t \in Schedules PROVE Shippers'[t] = Shippers[t]
    <3>1. t[1] \in Channels
      BY DEF Schedules
    <3> QED
      BY <1>2, <1>4, <3>1 DEF Shippers, Working
  <2>2. /\ Shippers' = [t \in Schedules |-> Shippers'[t]]
        /\ Shippers = [t \in Schedules |-> Shippers[t]]
    BY DEF Shippers, Schedules, Generation
  <2> QED
    BY <2>1, <2>2
<1>6. d \in Shippers[this]
  BY <1>2, <1>3 DEF Shippers
<1>7. Posted' = [Posted EXCEPT ![this] = IF accepted THEN @ + 1 ELSE @]
  <2>1. ASSUME NEW t \in Schedules
        PROVE  Posted'[t] = IF t = this /\ accepted THEN Posted[t] + 1 ELSE Posted[t]
    <3>1. t[1] \in Channels /\ t[2] \in Generation /\ t = << t[1], t[2] >>
      BY DEF Schedules
    <3>2. Posted'[t] = posts'[t[1]][t[2]] /\ Posted[t] = posts[t[1]][t[2]]
      BY DEF Posted, Schedules, Generation
    <3>3. t = this <=> t[1] = c /\ t[2] = claim[d][c]
      BY <1>3, <3>1
    <3> QED
      BY <1>1, <1>2, <3>1, <3>2, <3>3 DEF TypeOK
  <2>2. /\ Posted' = [t \in Schedules |-> Posted'[t]]
        /\ Posted = [t \in Schedules |-> Posted[t]]
    BY DEF Posted, Schedules, Generation
  <2> QED
    BY <2>1, <2>2
<1> HIDE DEF this
<1>8. Shipped' = Shipped
  <2>1. Shipped' = {t \in Schedules : Posted'[t] > 0 /\ Shippers'[t] = {}}
    BY DEF Shipped, Schedules, Generation
  <2>2. \A t \in Schedules : Shippers[t] = {} => Posted'[t] = Posted[t]
    BY <1>3, <1>6, <1>7 DEF Posted
  <2> QED
    BY <1>5, <2>1, <2>2 DEF Shipped
<1>9. CASE accepted
  <2>1. Shipments!Accept(d, this)
    BY <1>3, <1>5, <1>6, <1>7, <1>8, <1>9, OneShipper DEF Shipments!Accept
  <2> QED
    BY <1>3, <2>1 DEF Shipments!Next
<1>10. CASE ~ accepted
  <2>1. Posted' = Posted
    BY <1>7, <1>10 DEF Posted
  <2> QED
    BY <1>5, <1>8, <2>1
<1> QED
  BY <1>9, <1>10

LEMMA StepShipments ==
    ASSUME IInv, [Next]_vars
    PROVE  Shipments!Next \/ UNCHANGED << Shippers, Posted, Shipped >>
<1> DEFINE Goal == Shipments!Next \/ UNCHANGED << Shippers, Posted, Shipped >>
<1>1. CASE Approve \/ Unapprove \/ WorkerUnapprove \/ UNCHANGED vars
  BY <1>1, NothingShipped DEF Approve, Unapprove, WorkerUnapprove, vars, table, work
<1>2. ASSUME NEW c \in Channels, Schedule(c) \/ Cancel(c) \/ BecomeDue(c) \/ Age(c) PROVE Goal
  BY <1>2, NothingShipped DEF Schedule, Cancel, BecomeDue, Age, work
<1>3. ASSUME NEW d \in Drains, StartDrain(d) \/ EndDrain(d) PROVE Goal
  BY <1>3, NothingShipped DEF StartDrain, EndDrain, table
<1>4. ASSUME NEW d \in Drains, ClaimDue(d) PROVE Goal
  BY <1>4, ClaimStarts
<1>5. ASSUME NEW d \in Drains, Crash(d) PROVE Goal
  <2>1. \A e \in Drains, c \in Channels : stage'[e][c] = IF e = d THEN "none" ELSE stage[e][c]
    BY <1>5 DEF Crash, IInv, TypeOK
  <2> QED
    BY <1>5, <2>1, DrainLeaves DEF Crash, Working
<1>6. ASSUME NEW d \in Drains, NEW c \in Channels, Publish(d, c) PROVE Goal
  BY <1>6, PublishAccepts
<1>7. ASSUME NEW d \in Drains, NEW c \in Channels,
             CheckApproval(d, c) \/ MarkSent(d, c) \/ MarkFailed(d, c) \/ Abandon(d, c)
      PROVE  Goal
  <2>1. PICK s \in Stages : MoveTo(d, c, s)
    BY <1>7 DEF CheckApproval, MarkSent, MarkFailed, Abandon, Stages
  <2>2. UNCHANGED << claim, posts >> /\ Working(d, c) /\ TypeOK
    BY <1>7 DEF CheckApproval, MarkSent, MarkFailed, Abandon, Working, IInv
  <2>3. \A e \in Drains, k \in Channels : e # d \/ k # c => stage'[e][k] = stage[e][k]
    BY <2>1, <2>2, Moved
  <2> QED
    BY <2>2, <2>3, DrainLeaves DEF Working
<1> QED
  BY <1>1, <1>2, <1>3, <1>4, <1>5, <1>6, <1>7 DEF Next, WorkOn

\* The queue implements the abstract claim for each schedule, with every post in
\* its books: however drains overlap and die, none claims a schedule again that
\* was posted, or that another is at work for.
THEOREM QueueIsExclusive == Spec => ShipmentsSpec
<1>1. Init => Shipments!Init
  <2> SUFFICES ASSUME Init PROVE Shipments!Init
    OBVIOUS
  <2>1. Shippers = [s \in Schedules |-> {}]
    BY DEF Init, Shippers, Schedules
  <2>2. Posted = [s \in Schedules |-> 0]
    BY DEF Init, Posted, Schedules
  <2>3. Shipped = {}
    BY <2>2 DEF Shipped
  <2> QED
    BY <2>1, <2>2, <2>3 DEF Shipments!Init
<1>2. IInv /\ [Next]_vars => [Shipments!Next]_<< Shippers, Posted, Shipped >>
  BY StepShipments
<1> QED
  BY <1>1, <1>2, Invariance, PTL DEF Spec, ShipmentsSpec, Shipments!Spec
=============================================================================
