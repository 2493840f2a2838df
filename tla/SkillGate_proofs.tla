-------------------------- MODULE SkillGate_proofs --------------------------
(***************************************************************************)
(* Proofs about SkillGate, for any runs, skills, reviews and numbers of     *)
(* candidates, jobs, decisions and faults.                                  *)
(*                                                                          *)
(* A promotion is decided at one step and written many steps and perhaps    *)
(* jobs later.  IInv carries the decision along: a queued or running resume *)
(* holds one that was made (QueueInv), a thread past the gate holds what    *)
(* the gate returned (ThreadInv), a job writes what the thread's resolution *)
(* is about (JobInv), and a candidate remembers what was done for it        *)
(* (CandInv).  A thread owns its candidates, so that a step of one run      *)
(* leaves the threads of the others alone (Frame).                          *)
(***************************************************************************)
EXTENDS SkillGate, TLAPS

-----------------------------------------------------------------------------
(* The inductive invariant *)

JobFields    == {"kind", "value", "at", "todo", "half"}
ThreadFields == {"next", "impacted", "cands", "resolution", "records"}

\* A candidate as its draft leaves it, for good.
WellDrafted(d) ==
    d.run \in Runs /\ d.skill \in Skills /\ d.version = BumpMinor(Version[d.skill])

Shape ==
    /\ DOMAIN draft \subseteq Ids /\ \A c \in DOMAIN draft : WellDrafted(draft[c])
    /\ DOMAIN status = Ids
    /\ \A c \in Ids : status[c] \in CandidateStatus \cup {"absent"}
    /\ \A c \in Ids : status[c] # "absent" => c \in DOMAIN draft
    /\ DOMAIN catalogue = Skills
    /\ \A k \in Skills : DOMAIN catalogue[k].versions \subseteq {BumpMinor(Version[k])}
    /\ DOMAIN active = Skills /\ \A k \in Skills : active[k] \in Snapshots \cup {None}
    /\ markers \subseteq Runs \cup Ids
    /\ DOMAIN pending = Runs /\ DOMAIN running = Runs /\ DOMAIN thread = Runs
    /\ \A r \in Runs : DOMAIN pending[r] = JobFields
    /\ \A r \in Runs : DOMAIN running[r] = JobFields
    /\ \A r \in Runs : DOMAIN thread[r] = ThreadFields
    /\ \A r \in Runs : thread[r].next \in PreGate \cup PostGate \cup {"gate", "end"}
    /\ \A r \in Runs : \A i \in thread[r].impacted : i.skill \in Skills
    /\ initials \in 0..MaxInitial /\ faults \in 0..MaxFaults

\* Somebody decided v about r.
Decided(r, v) ==
    /\ v \in Resolution /\ v.run = r
    /\ \E d \in decisions : d.run = r /\ d.scope = v.scope /\ d.decision = v.decision

\* A resume, wherever it is, carries a decision that was made.
QueueInv ==
    /\ \A d \in deciding : Decided(d.run, d)
    /\ \A r \in Runs : /\ pending[r].kind = "resume" => Decided(r, pending[r].value)
                       /\ running[r].kind = "resume" => Decided(r, running[r].value)
                       /\ pending[r].kind \in {"none", "initial", "resume"}
                       /\ running[r].kind \in {"none", "initial", "resume"}

\* The version of c is in the skills table.
Written(c) == draft[c].version \in DOMAIN catalogue[draft[c].skill].versions

\* What the status of a thread's candidates may be while it is at a node.
StatusAt(r, node) ==
    {"absent", "draft"} \cup
    (CASE node = "mark" -> {IF Mode[r] = "direct" THEN "promoted" ELSE "approved"}
       [] node = "reject" -> {"rejected"}
       [] OTHER -> {})

\* A thread has its own run's candidates, none in use before the scan; past the
\* gate it has a decision and is on its branch, past the scan they are clean.
ThreadInv(r) ==
    /\ \A c \in thread[r].cands : c \in DOMAIN draft /\ draft[c].run = r
    /\ thread[r].records \subseteq thread[r].cands
    /\ thread[r].next \in PostGate =>
          /\ Decided(r, thread[r].resolution)
          /\ thread[r].resolution.decision = "approved" <=> thread[r].next # "reject"
    /\ thread[r].next \in {"update", "mark"} => thread[r].cands \subseteq vouched
    /\ thread[r].next \in PreGate \cup {"gate", "scan"} => thread[r].cands \cap Bodies = {}
    /\ thread[r].next # "end" =>
          \A c \in thread[r].cands : status[c] \in StatusAt(r, thread[r].next)
    /\ thread[r].next = "mark" =>
          thread[r].records \subseteq CandidatesInScope(thread[r]) \cap replaced

\* A job is in the node its thread names and writes what that node has to; what
\* it no longer has to promote is promoted, what it is in the middle of half so.
JobInv(r) ==
    /\ running[r].at = IF running[r].kind = "none" THEN "none" ELSE thread[r].next
    /\ running[r].todo \subseteq ToWrite(thread[r], running[r].at)
    /\ InNode(r, "update") =>
          /\ CandidatesInScope(thread[r]) \ running[r].todo \subseteq replaced
          /\ running[r].half # None => running[r].half \in running[r].todo /\ Written(running[r].half)

Approved(c) == \E d \in decisions : d.decision = "approved" /\ Covers(d, c)

\* What was done for a candidate, in its order: approved and scanned, in the
\* table, in the repository, in its row.
CandInv ==
    /\ vouched \cup Bodies \cup replaced \subseteq DOMAIN draft
    /\ Bodies \subseteq vouched
    /\ \A c \in Promoted : Approved(c)
    /\ \A c \in replaced : Written(c)
    /\ \A c \in Ids : status[c] \in {"promoted", "approved"} => c \in replaced

IInv == Shape /\ QueueInv /\ (\A r \in Runs : ThreadInv(r) /\ JobInv(r)) /\ CandInv

-----------------------------------------------------------------------------
(* What the steps have in common *)

LEMMA BodyIsVersion ==
    ASSUME NEW c
    PROVE  c \in Bodies <=>
             \E k \in Skills : \E v \in DOMAIN catalogue[k].versions : c = catalogue[k].versions[v]
BY DEF Bodies

\* What a checkpoint leaves of the thread and of the job.
LEMMA AtCheckpoint ==
    ASSUME Shape, NEW r \in Runs, NEW job, NEW state, NEW node, node # "none",
           DOMAIN job = JobFields, DOMAIN state = ThreadFields, job.kind # "none",
           Checkpoint(r, job, state, node)
    PROVE  /\ DOMAIN thread' = Runs /\ DOMAIN running' = Runs
           /\ DOMAIN thread'[r] = ThreadFields /\ DOMAIN running'[r] = JobFields
           /\ \A s \in Runs \ {r} : thread'[s] = thread[s] /\ running'[s] = running[s]
           /\ thread'[r].next = node
           /\ thread'[r].impacted = state.impacted
           /\ thread'[r].cands = state.cands
           /\ thread'[r].resolution = state.resolution
           /\ thread'[r].records = state.records
           /\ running'[r] = NoJob \/ (running'[r].kind = job.kind /\ running'[r].value = job.value)
           /\ running'[r].at = IF running'[r].kind = "none" THEN "none" ELSE node
           /\ running'[r].todo \subseteq ToWrite(thread'[r], node)
           /\ node = "update" => running'[r].todo = CandidatesInScope(thread'[r])
           /\ running'[r].half = None
           /\ running'[r].kind = "none" => running'[r].todo = {}
<1> USE DEF JobFields, ThreadFields
<1>1. thread'[r] = [state EXCEPT !.next = node]
  BY DEF Checkpoint, Shape
<1>2. /\ DOMAIN thread' = Runs /\ DOMAIN running' = Runs
      /\ \A s \in Runs \ {r} : thread'[s] = thread[s] /\ running'[s] = running[s]
  BY DEF Checkpoint, Shape
<1>3. /\ DOMAIN thread'[r] = ThreadFields /\ thread'[r].next = node
      /\ thread'[r].impacted = state.impacted /\ thread'[r].cands = state.cands
      /\ thread'[r].resolution = state.resolution /\ thread'[r].records = state.records
  BY <1>1
<1>4. ToWrite(thread'[r], node) = ToWrite(state, node)
  BY <1>3 DEF ToWrite, CandidatesInScope
<1>5. running'[r] = IF node = "end" THEN NoJob
                    ELSE [job EXCEPT !.at = node, !.todo = ToWrite(state, node), !.half = None]
  BY DEF Checkpoint, Shape
<1>6. CASE node = "end"
  BY <1>2, <1>3, <1>5, <1>6 DEF NoJob, Job
<1>7. CASE node # "end"
  <2>1. /\ DOMAIN running'[r] = JobFields
        /\ running'[r].kind = job.kind /\ running'[r].value = job.value
        /\ running'[r].at = node /\ running'[r].todo = ToWrite(state, node)
        /\ running'[r].half = None
    BY <1>5, <1>7
  <2>2. node = "update" => ToWrite(state, node) = CandidatesInScope(thread'[r])
    BY <1>4 DEF ToWrite
  <2> QED BY <1>2, <1>3, <1>4, <1>7, <2>1, <2>2
<1> QED BY <1>6, <1>7

\* What every step does with what was drafted, decided and written.
Grows ==
    /\ \A c \in DOMAIN draft : c \in DOMAIN draft' /\ draft'[c] = draft[c]
    /\ decisions \subseteq decisions'
    /\ replaced \subseteq replaced'
    /\ \A k \in Skills : DOMAIN catalogue[k].versions \subseteq DOMAIN catalogue'[k].versions

\* A step that leaves the candidates of s alone.
LeavesAlone(s) ==
    \A c \in thread[s].cands : /\ status'[c] = status[c]
                               /\ c \in vouched => c \in vouched'
                               /\ c \in Bodies' => c \in Bodies

LEMMA DecidedStays ==
    ASSUME NEW r, NEW v, decisions \subseteq decisions', Decided(r, v)
    PROVE  Decided(r, v)'
BY DEF Decided

LEMMA WrittenStays ==
    ASSUME Shape, Grows, NEW c \in DOMAIN draft, Written(c)
    PROVE  Written(c)'
BY DEF Shape, WellDrafted, Grows, Written

LEMMA ApprovedStays ==
    ASSUME Grows, NEW c \in DOMAIN draft, Approved(c)
    PROVE  Approved(c)'
BY DEF Grows, Approved, Covers

\* A thread and a job that a step does not touch.
LEMMA Frame ==
    ASSUME Shape, Grows, NEW s \in Runs, ThreadInv(s), JobInv(s), LeavesAlone(s),
           thread'[s] = thread[s], running'[s] = running[s]
    PROVE  ThreadInv(s)' /\ JobInv(s)'
<1>1. ThreadInv(s)'
  <2>1. \A c \in thread'[s].cands : c \in DOMAIN draft' /\ draft'[c].run = s
    BY DEF ThreadInv, Grows
  <2>2. thread'[s].next \in PostGate => Decided(s, thread[s].resolution)'
    BY DEF ThreadInv, Grows, Decided
  <2>3. thread'[s].next # "end" =>
          \A c \in thread'[s].cands : status'[c] \in StatusAt(s, thread'[s].next)
    BY DEF ThreadInv, LeavesAlone
  <2>4. thread'[s].next = "mark" =>
          thread'[s].records \subseteq CandidatesInScope(thread'[s]) \cap replaced'
    BY DEF ThreadInv, Grows
  <2>5. thread'[s].next \in {"update", "mark"} => thread'[s].cands \subseteq vouched'
    BY DEF ThreadInv, LeavesAlone
  <2>6. thread'[s].next \in PreGate \cup {"gate", "scan"} => thread'[s].cands \cap Bodies' = {}
    BY DEF ThreadInv, LeavesAlone
  <2> QED BY <2>1, <2>2, <2>3, <2>4, <2>5, <2>6 DEF ThreadInv
<1>2. JobInv(s)'
  <2>1. ASSUME running[s].at = "update", running[s].half # None
        PROVE  Written(running[s].half)'
    <3>1. running[s].half \in running[s].todo /\ Written(running[s].half)
      BY <2>1 DEF JobInv, InNode
    <3>2. running[s].half \in thread[s].cands
      BY <2>1, <3>1 DEF JobInv, ToWrite, CandidatesInScope
    <3> QED BY <3>1, <3>2, WrittenStays DEF ThreadInv
  <2> QED BY <2>1 DEF JobInv, InNode, Grows
<1> QED BY <1>1, <1>2

\* The job that enters a node has all of it to do.
LEMMA JobAtCheckpoint ==
    ASSUME Shape, NEW r \in Runs, NEW job, NEW state, NEW node, node # "none",
           DOMAIN job = JobFields, DOMAIN state = ThreadFields, job.kind # "none",
           Checkpoint(r, job, state, node)
    PROVE  JobInv(r)'
<1>1. /\ thread'[r].next = node
      /\ running'[r].at = IF running'[r].kind = "none" THEN "none" ELSE node
      /\ running'[r].todo \subseteq ToWrite(thread'[r], node)
      /\ node = "update" => running'[r].todo = CandidatesInScope(thread'[r])
      /\ running'[r].half = None
      /\ running'[r].kind = "none" => running'[r].todo = {}
  BY AtCheckpoint
<1>2. running'[r].at = "update" => node = "update"
  BY <1>1
<1>3. running'[r].todo \subseteq ToWrite(thread'[r], running'[r].at)
  BY <1>1
<1> QED BY <1>1, <1>2, <1>3 DEF JobInv, InNode

\* A job that is over has nothing to do.
LEMMA JobAtEnd ==
    ASSUME Shape, NEW r \in Runs, EndJob(r)
    PROVE  /\ DOMAIN running' = Runs /\ running'[r] = NoJob
           /\ DOMAIN running'[r] = JobFields
           /\ \A s \in Runs \ {r} : running'[s] = running[s]
           /\ JobInv(r)'
<1>1. /\ DOMAIN running' = Runs /\ running'[r] = NoJob
      /\ \A s \in Runs \ {r} : running'[s] = running[s]
  BY DEF EndJob, Shape
<1>2. /\ DOMAIN running'[r] = JobFields
      /\ running'[r].kind = "none" /\ running'[r].at = "none" /\ running'[r].todo = {}
  BY <1>1 DEF NoJob, Job, JobFields
<1> QED BY <1>1, <1>2 DEF JobInv, InNode

-----------------------------------------------------------------------------
(* Steps that move a thread or a job and write nothing else *)

Moves(r) ==
    \/ InvokeInitial(r) \/ InvokeResume(r) \/ RefuseResume(r)
    \/ SelectImpacted(r) \/ AllPersisted(r) \/ Halt(r) \/ ResolveGate(r)
    \/ ScopeError(r) \/ AllReplaced(r) \/ Finish(r)
    \/ Retry(r) \/ Kill(r)

\* Steps that write a candidate's row, body or scan, or draft candidates.
Writes(r) ==
    \/ DraftCandidates(r) \/ ScanPasses(r) \/ ScanBlocks(r)
    \/ \E c \in Ids : \/ InsertCandidate(r, c) \/ PromoteInCatalogue(r, c)
                      \/ Replaced(r, c)
                      \/ MarkPromoted(r, c)
                      \/ RecordRejection(r, c) \/ AddSuppression(r, c)

LEMMA NextCases ==
    Next => Environment \/ \E r \in Runs : Moves(r) \/ Writes(r)
BY DEF Next, Step, Moves, Writes, ReplaceInCheckout, OpenPullRequest

Kept == << draft, status, catalogue, active, markers, deciding, decisions, vouched, replaced,
           initials >>

LEMMA MovesKeep ==
    ASSUME NEW r, Moves(r)
    PROVE  UNCHANGED Kept /\ (faults' = faults \/ (faults < MaxFaults /\ faults' = faults + 1))
<1>1. CASE InvokeInitial(r) \/ InvokeResume(r) \/ RefuseResume(r)
  BY <1>1 DEF InvokeInitial, InvokeResume, RefuseResume, TakesTurn, Kept, rows, history, counts
<1>2. CASE SelectImpacted(r) \/ AllPersisted(r) \/ Halt(r) \/ ResolveGate(r)
  BY <1>2 DEF SelectImpacted, AllPersisted, Halt, ResolveGate, Kept, rows, history, counts
<1>3. CASE ScopeError(r) \/ AllReplaced(r) \/ Finish(r)
  BY <1>3 DEF ScopeError, AllReplaced, Finish, Kept, rows, history, counts
<1>4. CASE Retry(r) \/ Kill(r)
  BY <1>4 DEF Retry, Kill, Fault, Kept, rows, history
<1> QED BY <1>1, <1>2, <1>3, <1>4 DEF Moves

\* A step of r is r's: of threads and jobs it touches its own, and leaves both
\* in their shape.
Moved(r) ==
    /\ DOMAIN thread' = Runs /\ DOMAIN running' = Runs
    /\ \A s \in Runs \ {r} : thread'[s] = thread[s] /\ running'[s] = running[s]
    /\ DOMAIN thread'[r] = ThreadFields /\ DOMAIN running'[r] = JobFields
    /\ thread'[r].next \in PreGate \cup PostGate \cup {"gate", "end"}
    /\ \A i \in thread'[r].impacted : i.skill \in Skills
    /\ running'[r].kind \in {"none", "initial", "resume"}
    /\ running'[r].kind = "resume" => Decided(r, running'[r].value)

LEMMA CheckpointMoves ==
    ASSUME Shape, QueueInv, NEW r \in Runs, NEW job \in {running[r], pending[r]}, NEW state,
           NEW node \in PreGate \cup PostGate \cup {"gate", "end"},
           DOMAIN state = ThreadFields, job.kind # "none",
           \A i \in state.impacted : i.skill \in Skills,
           Checkpoint(r, job, state, node)
    PROVE  /\ Moved(r) /\ JobInv(r)'
           /\ thread'[r].next = node
           /\ thread'[r].cands = state.cands
           /\ thread'[r].resolution = state.resolution
           /\ thread'[r].records = state.records
<1>1. node # "none" /\ DOMAIN job = JobFields
  BY DEF PreGate, PostGate, Shape
<1>2. JobInv(r)'
  BY <1>1, JobAtCheckpoint
<1>3. /\ DOMAIN thread' = Runs /\ DOMAIN running' = Runs
      /\ DOMAIN thread'[r] = ThreadFields /\ DOMAIN running'[r] = JobFields
      /\ \A s \in Runs \ {r} : thread'[s] = thread[s] /\ running'[s] = running[s]
      /\ thread'[r].next = node
      /\ thread'[r].impacted = state.impacted
      /\ thread'[r].cands = state.cands
      /\ thread'[r].resolution = state.resolution
      /\ thread'[r].records = state.records
      /\ running'[r] = NoJob \/ (running'[r].kind = job.kind /\ running'[r].value = job.value)
  BY <1>1, AtCheckpoint
<1>4. NoJob.kind = "none"
  BY DEF NoJob, Job
<1>5. /\ job.kind \in {"none", "initial", "resume"}
      /\ job.kind = "resume" => Decided(r, job.value)
  BY DEF QueueInv
<1>6. /\ running'[r].kind \in {"none", "initial", "resume"}
      /\ running'[r].kind = "resume" => Decided(r, running'[r].value)
  BY <1>3, <1>4, <1>5
<1> QED BY <1>2, <1>3, <1>6 DEF Moved

LEMMA EndMoves ==
    ASSUME Shape, NEW r \in Runs, EndJob(r), UNCHANGED thread
    PROVE  Moved(r) /\ JobInv(r)'
<1>1. running'[r].kind = "none"
  BY JobAtEnd DEF NoJob, Job
<1> QED BY <1>1, JobAtEnd DEF Moved, Shape

\* A thread that starts again has no candidates.
LEMMA FreshIsFine ==
    ASSUME NEW r \in Runs, NEW node \in PreGate, thread'[r].next = node,
           thread'[r].cands = {}, thread'[r].records = {}
    PROVE  ThreadInv(r)'
BY DEF ThreadInv, PreGate, PostGate

\* So is one whose state and whose candidates stay as they were.
LEMMA SameThread ==
    ASSUME NEW r \in Runs, ThreadInv(r), UNCHANGED Kept,
           thread'[r].next = thread[r].next, thread'[r].cands = thread[r].cands,
           thread'[r].resolution = thread[r].resolution,
           thread'[r].records = thread[r].records
    PROVE  ThreadInv(r)'
<1>1. Bodies' = Bodies
  BY DEF Kept, Bodies
<1>2. thread[r].next \in PostGate => Decided(r, thread[r].resolution)'
  BY DEF Kept, Decided, ThreadInv
<1>3. thread'[r].resolution = thread[r].resolution
  OBVIOUS
<1>4. CandidatesInScope(thread'[r]) = CandidatesInScope(thread[r])
  BY DEF CandidatesInScope
<1>5. thread'[r].next \in PostGate =>
          /\ Decided(r, thread[r].resolution)'
          /\ thread[r].resolution.decision = "approved" <=> thread[r].next # "reject"
  BY <1>2 DEF ThreadInv
<1> QED BY <1>1, <1>4, <1>5 DEF ThreadInv, Kept, Decided

LEMMA MovesOwn ==
    ASSUME Shape, QueueInv, NEW r \in Runs, ThreadInv(r), JobInv(r), Moves(r)
    PROVE  Moved(r) /\ ThreadInv(r)' /\ JobInv(r)'
<1> UNCHANGED Kept
  BY MovesKeep
<1> DEFINE Nodes == PreGate \cup PostGate \cup {"gate", "end"}
<1>0. /\ DOMAIN thread[r] = ThreadFields /\ thread[r].next \in Nodes
      /\ \A i \in thread[r].impacted : i.skill \in Skills
      /\ running[r].at = IF running[r].kind = "none" THEN "none" ELSE thread[r].next
      /\ running[r] \in {running[r], pending[r]} /\ pending[r] \in {running[r], pending[r]}
  BY DEF Shape, JobInv
\* The thread goes on where it is, or starts again.
<1>1. ASSUME NEW job \in {running[r], pending[r]}, job.kind # "none",
             Checkpoint(r, job, thread[r], thread[r].next)
      PROVE  Moved(r) /\ ThreadInv(r)' /\ JobInv(r)'
  BY <1>0, <1>1, CheckpointMoves, SameThread
<1>2. ASSUME NEW job \in {running[r], pending[r]}, job.kind # "none",
             Checkpoint(r, job, FreshThread("collect"), "collect")
      PROVE  Moved(r) /\ ThreadInv(r)' /\ JobInv(r)'
  <2>1. /\ DOMAIN FreshThread("collect") = ThreadFields /\ FreshThread("collect").impacted = {}
        /\ FreshThread("collect").cands = {} /\ FreshThread("collect").records = {}
    BY DEF FreshThread, ThreadFields
  <2>2. "collect" \in PreGate
    BY DEF PreGate
  <2> HIDE DEF Nodes
  <2>3. /\ Moved(r) /\ JobInv(r)' /\ thread'[r].next = "collect"
        /\ thread'[r].cands = {} /\ thread'[r].records = {}
    BY <1>2, <2>1, <2>2, CheckpointMoves
  <2> QED BY <2>2, <2>3, FreshIsFine
\* The job ends, the thread stays.
<1>3. ASSUME EndJob(r), UNCHANGED thread
      PROVE  Moved(r) /\ ThreadInv(r)' /\ JobInv(r)'
  BY <1>3, EndMoves, SameThread
<1>4. CASE InvokeInitial(r)
  BY <1>2, <1>4 DEF InvokeInitial, TakesTurn
<1>5. CASE InvokeResume(r)
  BY <1>0, <1>1, <1>2, <1>5 DEF InvokeResume, TakesTurn
<1>6. CASE RefuseResume(r)
  <2>1. UNCHANGED << running, thread >>
    BY <1>6 DEF RefuseResume
  <2>2. JobInv(r)'
    BY <2>1 DEF JobInv, InNode, Kept, Written
  <2>3. Moved(r)
    BY <2>1 DEF Moved, Shape, QueueInv
  <2> QED BY <2>1, <2>2, <2>3, SameThread
<1>7. CASE SelectImpacted(r)
  <2>1. PICK impacted : /\ \A i \in impacted : i.skill \in Skills
                        /\ Checkpoint(r, running[r], [thread[r] EXCEPT !.impacted = impacted], "draft")
    <3>1. ASSUME NEW clusters, NEW i \in ImpactedSkills(clusters, ActiveSkills)
          PROVE  i.skill \in Skills
      BY DEF ImpactedSkills, ActiveSkills
    <3> QED BY <1>7, <3>1 DEF SelectImpacted
  <2> DEFINE state == [thread[r] EXCEPT !.impacted = impacted]
  <2>2. /\ DOMAIN state = ThreadFields /\ \A i \in state.impacted : i.skill \in Skills
        /\ state.cands = thread[r].cands /\ state.records = thread[r].records
    BY <1>0, <2>1 DEF ThreadFields
  <2>3. thread[r].next = "collect" /\ running[r].kind # "none"
    BY <1>0, <1>7 DEF SelectImpacted, InNode
  <2>4. Checkpoint(r, running[r], state, "draft") /\ "draft" \in Nodes
    BY <2>1 DEF PreGate
  <2> HIDE DEF state, Nodes
  <2>5. /\ Moved(r) /\ JobInv(r)' /\ thread'[r].next = "draft"
        /\ thread'[r].cands = thread[r].cands /\ thread'[r].records = thread[r].records
    BY <2>2, <2>3, <2>4, CheckpointMoves DEF Nodes
  <2>6. ThreadInv(r)'
    BY <2>3, <2>5 DEF ThreadInv, Kept, Bodies, PreGate, PostGate, StatusAt
  <2> QED BY <2>5, <2>6
<1>8. CASE AllPersisted(r)
  <2>1. /\ thread[r].next = "persist" /\ running[r].kind # "none"
        /\ Checkpoint(r, running[r], thread[r], "gate")
    BY <1>0, <1>8 DEF AllPersisted, InNode
  <2>2. /\ Moved(r) /\ JobInv(r)' /\ thread'[r].next = "gate"
        /\ thread'[r].cands = thread[r].cands /\ thread'[r].records = thread[r].records
    BY <1>0, <2>1, CheckpointMoves
  <2>3. ThreadInv(r)'
    BY <2>1, <2>2 DEF ThreadInv, Kept, Bodies, PreGate, PostGate, StatusAt
  <2> QED BY <2>2, <2>3
<1>9. CASE Halt(r) \/ ScopeError(r) \/ Kill(r)
  BY <1>3, <1>9 DEF Halt, ScopeError, Kill
<1>10. CASE ResolveGate(r)
  <2> DEFINE value == running[r].value
             state == [thread[r] EXCEPT !.resolution = value, !.records = {}]
             node  == RouteAfterGate3(value.decision)
  <2>1. /\ DOMAIN state = ThreadFields /\ state.impacted = thread[r].impacted
        /\ state.cands = thread[r].cands /\ state.records = {} /\ state.resolution = value
    BY <1>0 DEF ThreadFields
  <2>2. /\ thread[r].next = "gate" /\ running[r].kind # "none" /\ Decided(r, value)
        /\ Checkpoint(r, running[r], state, node)
    BY <1>0, <1>10 DEF ResolveGate, InNode, QueueInv
  <2>3. node \in {"scan", "reject"} /\ (node = "scan" <=> value.decision = "approved")
    BY DEF RouteAfterGate3
  <2>4. node \in PreGate \cup PostGate \cup {"gate", "end"}
    BY <2>3 DEF PostGate
  <2> HIDE DEF state, node
  <2>5. /\ Moved(r) /\ JobInv(r)' /\ thread'[r].next = node
        /\ thread'[r].cands = thread[r].cands /\ thread'[r].records = {}
        /\ thread'[r].resolution = value
    BY <1>0, <2>1, <2>2, <2>4, CheckpointMoves
  <2>7. thread'[r].next \in PostGate =>
          /\ Decided(r, thread'[r].resolution)
          /\ thread'[r].resolution.decision = "approved" <=> thread'[r].next # "reject"
    BY <2>2, <2>3, <2>5
  <2>8. ThreadInv(r)'
    BY <2>2, <2>3, <2>5, <2>7 DEF ThreadInv, Kept, Bodies, PreGate, PostGate, StatusAt, Decided
  <2> QED BY <2>5, <2>8
<1>11. CASE AllReplaced(r)
  <2> DEFINE written == CandidatesInScope(thread[r])
             state   == [thread[r] EXCEPT !.records = written]
  <2>1. /\ DOMAIN state = ThreadFields /\ state.impacted = thread[r].impacted
        /\ state.cands = thread[r].cands /\ state.records = written
        /\ state.resolution = thread[r].resolution
    BY <1>0 DEF ThreadFields
  <2>2. /\ thread[r].next = "update" /\ running[r].kind # "none"
        /\ Checkpoint(r, running[r], state, "mark") /\ "mark" \in Nodes
    BY <1>0, <1>11 DEF AllReplaced, InNode, PostGate
  <2>3. written \subseteq replaced /\ written \subseteq thread[r].cands
    BY <1>11 DEF AllReplaced, JobInv, CandidatesInScope
  <2> HIDE DEF state, Nodes
  <2>4. /\ Moved(r) /\ JobInv(r)' /\ thread'[r].next = "mark"
        /\ thread'[r].cands = thread[r].cands /\ thread'[r].records = written
        /\ thread'[r].resolution = thread[r].resolution
    BY <1>0, <2>1, <2>2, CheckpointMoves DEF Nodes
  <2>5. CandidatesInScope(thread'[r]) = written
    BY <2>4 DEF CandidatesInScope
  <2> HIDE DEF written
  <2>6. ThreadInv(r)'
    BY <2>2, <2>3, <2>4, <2>5 DEF ThreadInv, Kept, Bodies, PreGate, PostGate, StatusAt, Decided
  <2> QED BY <2>4, <2>6
<1>12. CASE Finish(r)
  <2>1. /\ running[r].kind # "none" /\ Checkpoint(r, running[r], thread[r], "end")
    BY <1>0, <1>12 DEF Finish, InNode, AfterLastNode
  <2>2. /\ Moved(r) /\ JobInv(r)' /\ thread'[r].next = "end"
        /\ thread'[r].cands = thread[r].cands /\ thread'[r].records = thread[r].records
    BY <1>0, <2>1, CheckpointMoves
  <2>3. ThreadInv(r)'
    BY <2>2 DEF ThreadInv, Kept, PreGate, PostGate
  <2> QED BY <2>2, <2>3
<1>13. CASE Retry(r)
  <2>1. running[r].kind # "none" /\ running[r].at = thread[r].next
    BY <1>0, <1>13 DEF Retry
  <2> QED BY <1>1, <1>2, <1>13, <2>1 DEF Retry
<1> QED BY <1>4, <1>5, <1>6, <1>7, <1>8, <1>9, <1>10, <1>11, <1>12, <1>13 DEF Moves

-----------------------------------------------------------------------------
(* Steps that write about candidates *)

\* Everything but its shape and the queue that a step of r must keep.
Keeps(r) ==
    /\ Moved(r) /\ ThreadInv(r)' /\ JobInv(r)'
    /\ Grows /\ \A s \in Runs \ {r} : LeavesAlone(s)
    /\ CandInv'

LEMMA MovesKeepAll ==
    ASSUME IInv, NEW r \in Runs, Moves(r)
    PROVE  Keeps(r)
<1>1. UNCHANGED Kept
  BY MovesKeep
<1>2. Bodies' = Bodies
  BY <1>1 DEF Kept, Bodies
<1>3. Grows /\ \A s \in Runs \ {r} : LeavesAlone(s)
  BY <1>1, <1>2 DEF Kept, Grows, LeavesAlone
<1>4. CandInv'
  BY <1>1, <1>2 DEF IInv, CandInv, Kept, Promoted, Approved, Covers, Written
<1> QED BY <1>3, <1>4, MovesOwn DEF IInv, Keeps

\* A thread owns its candidates.
LEMMA Owned ==
    ASSUME NEW r \in Runs, NEW s \in Runs \ {r}, ThreadInv(r), ThreadInv(s)
    PROVE  thread[r].cands \cap thread[s].cands = {}
BY DEF ThreadInv

\* A job that has done a part of its node.
Works(r) ==
    /\ UNCHANGED thread
    /\ DOMAIN running' = Runs /\ DOMAIN running'[r] = JobFields
    /\ \A s \in Runs \ {r} : running'[s] = running[s]
    /\ running'[r].kind = running[r].kind /\ running'[r].value = running[r].value
    /\ running'[r].at = running[r].at

LEMMA WorksMoves ==
    ASSUME Shape, QueueInv, NEW r \in Runs, Works(r)
    PROVE  Moved(r)
BY DEF Shape, QueueInv, Works, Moved

LEMMA TodoIsOwn ==
    ASSUME NEW r \in Runs, JobInv(r), ThreadInv(r), NEW c \in running[r].todo
    PROVE  c \in thread[r].cands /\ c \in DOMAIN draft /\ draft[c].run = r
<1>1. c \in thread[r].cands
  BY DEF JobInv, ThreadInv, ToWrite, CandidatesInScope
<1> QED BY <1>1 DEF ThreadInv

\* What was drafted earlier keeps what was done for it when only drafts grow.
LEMMA CandInvStays ==
    ASSUME IInv, Grows, UNCHANGED << status, catalogue, vouched, replaced >>
    PROVE  CandInv'
<1>1. Bodies' = Bodies /\ Promoted' = Promoted
  BY DEF Bodies, Promoted
<1>2. Promoted \subseteq DOMAIN draft
  BY DEF IInv, Shape, CandInv, Promoted
<1>3. \A c \in Promoted : Approved(c)'
  BY <1>2, ApprovedStays DEF IInv, CandInv
<1>4. \A c \in replaced : Written(c)'
  BY WrittenStays DEF IInv, CandInv
<1>5. vouched \cup Bodies \cup replaced \subseteq DOMAIN draft'
  BY DEF IInv, CandInv, Grows
<1> QED BY <1>1, <1>3, <1>4, <1>5 DEF IInv, CandInv

LEMMA DraftKeeps ==
    ASSUME IInv, NEW r \in Runs, DraftCandidates(r)
    PROVE  /\ Keeps(r)
           /\ DOMAIN draft' \subseteq Ids /\ \A c \in DOMAIN draft' : WellDrafted(draft'[c])
<1> DEFINE todo == Proposable(r)
           ids  == FreshIds(Cardinality(todo))
           for  == CHOOSE f \in Bijection(ids, todo) : TRUE
           state == [FreshThread("draft") EXCEPT !.cands = ids]
<1>1. ids \subseteq Ids \ DOMAIN draft
  BY DEF FreshIds, Unused
<1>2. for \in [ids -> todo]
  BY DEF DraftCandidates, Bijection, Injection
<1>3. \A i \in todo : i.skill \in Skills
  BY DEF Proposable, IInv, Shape
<1>4. draft' = [c \in DOMAIN draft \cup ids |->
                  IF c \in ids THEN SkillRevisionCandidate(r, for[c]) ELSE draft[c]]
  BY DEF DraftCandidates
<1>5. /\ UNCHANGED << status, catalogue, decisions, vouched, replaced >>
      /\ InNode(r, "draft") /\ Checkpoint(r, running[r], state, "persist")
  BY DEF DraftCandidates, history
<1>6. /\ DOMAIN state = ThreadFields /\ state.impacted = {} /\ state.cands = ids
      /\ state.records = {}
  BY DEF FreshThread, ThreadFields
<1> HIDE DEF todo, ids, for, state
<1>7. \A c \in ids : WellDrafted(SkillRevisionCandidate(r, for[c]))
  BY <1>2, <1>3 DEF SkillRevisionCandidate, WellDrafted
<1>8. /\ DOMAIN draft' = DOMAIN draft \cup ids
      /\ \A c \in ids : WellDrafted(draft'[c]) /\ draft'[c].run = r
      /\ \A c \in DOMAIN draft : draft'[c] = draft[c]
  BY <1>1, <1>4, <1>7 DEF SkillRevisionCandidate
<1>9. /\ DOMAIN draft' \subseteq Ids
      /\ \A c \in DOMAIN draft' : WellDrafted(draft'[c])
  BY <1>1, <1>8 DEF IInv, Shape
<1>10. Bodies' = Bodies
  BY <1>5 DEF Bodies
<1>11. Grows /\ \A s \in Runs \ {r} : LeavesAlone(s)
  BY <1>5, <1>8, <1>10 DEF Grows, LeavesAlone
<1>12. CandInv'
  BY <1>5, <1>11, CandInvStays
<1>13. /\ Moved(r) /\ JobInv(r)' /\ thread'[r].next = "persist"
       /\ thread'[r].cands = ids /\ thread'[r].records = {}
  <2>1. running[r].kind # "none"
    BY <1>5 DEF IInv, JobInv, InNode
  <2>2. "persist" \in PreGate
    BY DEF PreGate
  <2> QED BY <1>5, <1>6, <2>1, <2>2, CheckpointMoves DEF IInv
<1>14. \A c \in ids : status'[c] = "absent" /\ c \notin Bodies'
  BY <1>1, <1>5, <1>10 DEF IInv, Shape, CandInv
<1>15. ThreadInv(r)'
  BY <1>8, <1>13, <1>14 DEF ThreadInv, PreGate, PostGate, StatusAt
<1> QED BY <1>9, <1>11, <1>12, <1>13, <1>15 DEF Keeps

LEMMA InsertKeeps ==
    ASSUME IInv, NEW r \in Runs, NEW c \in Ids, InsertCandidate(r, c)
    PROVE  Keeps(r)
<1>1. /\ InNode(r, "persist") /\ c \in running[r].todo
      /\ status' = [status EXCEPT ![c] = IF @ = "absent" THEN "draft" ELSE @]
      /\ running' = [running EXCEPT ![r].todo = @ \ {c}]
      /\ UNCHANGED << draft, catalogue, thread, decisions, vouched, replaced >>
  BY DEF InsertCandidate, IsNext, history
<1>2. Works(r) /\ running'[r].todo \subseteq running[r].todo
  BY <1>1 DEF Works, IInv, Shape, JobFields
<1>3. c \in thread[r].cands /\ thread[r].next = "persist"
  BY <1>1, TodoIsOwn DEF IInv, JobInv, InNode
<1>4. Bodies' = Bodies
  BY <1>1 DEF Bodies
<1>5. Grows /\ \A s \in Runs \ {r} : LeavesAlone(s)
  BY <1>1, <1>3, <1>4, Owned DEF Grows, LeavesAlone, IInv, Shape
<1>6. JobInv(r)'
  <2>1. running[r].at = "persist"
    BY <1>1 DEF InNode
  <2> QED BY <1>1, <1>2, <2>1 DEF IInv, JobInv, InNode, Works
<1>7. ThreadInv(r)'
  <2>1. \A d \in thread[r].cands : status'[d] \in {"absent", "draft"}
    BY <1>1, <1>3 DEF IInv, Shape, ThreadInv, StatusAt
  <2> QED BY <1>1, <1>3, <1>4, <2>1 DEF IInv, ThreadInv, StatusAt, PreGate, PostGate
<1>8. CandInv'
  <2>1. \A d \in Ids : status'[d] = status[d] \/ status'[d] = "draft"
    BY <1>1 DEF IInv, Shape
  <2>2. Promoted' \subseteq Promoted
    BY <1>1, <1>4, <2>1 DEF Promoted
  <2>3. \A d : (Approved(d) => Approved(d)') /\ (Written(d) => Written(d)')
    BY <1>1 DEF Approved, Covers, Written
  <2> QED BY <1>1, <1>4, <2>1, <2>2, <2>3 DEF IInv, CandInv
<1> QED BY <1>2, <1>5, <1>6, <1>7, <1>8, WorksMoves DEF IInv, Keeps

LEMMA ScanKeeps ==
    ASSUME IInv, NEW r \in Runs, ScanPasses(r) \/ ScanBlocks(r)
    PROVE  Keeps(r)
<1>1. /\ thread[r].next = "scan" /\ running[r].kind # "none"
      /\ UNCHANGED << draft, status, catalogue, decisions, replaced >>
  BY DEF ScanPasses, ScanBlocks, InNode, IInv, JobInv, rows
<1>2. Bodies' = Bodies /\ Promoted' = Promoted
  BY <1>1 DEF Bodies, Promoted
<1>3. /\ vouched \ thread[r].cands \subseteq vouched'
      /\ vouched' \subseteq vouched \cup thread[r].cands
  BY DEF ScanPasses, ScanBlocks
<1>4. thread[r].cands \cap Bodies = {} /\ thread[r].cands \subseteq DOMAIN draft
  BY <1>1 DEF IInv, ThreadInv
<1>5. Grows
  BY <1>1 DEF Grows
<1>6. ASSUME NEW s \in Runs \ {r} PROVE LeavesAlone(s)
  <2>1. thread[r].cands \cap thread[s].cands = {}
    BY Owned DEF IInv
  <2> QED BY <1>1, <1>2, <1>3, <2>1 DEF LeavesAlone
<1>7. CandInv'
  <2>1. \A d : (Approved(d) => Approved(d)') /\ (Written(d) => Written(d)')
    BY <1>1 DEF Approved, Covers, Written
  <2> QED BY <1>1, <1>2, <1>3, <1>4, <2>1 DEF IInv, CandInv
<1>8. CASE ScanPasses(r)
  <2>1. Checkpoint(r, running[r], thread[r], "update") /\ thread[r].cands \subseteq vouched'
    BY <1>8 DEF ScanPasses
  <2>2. "update" \in PostGate
    BY DEF PostGate
  <2>3. /\ Moved(r) /\ JobInv(r)' /\ thread'[r].next = "update"
        /\ thread'[r].cands = thread[r].cands /\ thread'[r].records = thread[r].records
        /\ thread'[r].resolution = thread[r].resolution
    BY <1>1, <2>1, <2>2, CheckpointMoves DEF IInv, Shape
  <2>4. ThreadInv(r)'
    BY <1>1, <2>1, <2>3 DEF IInv, ThreadInv, PreGate, PostGate, StatusAt, Decided
  <2> QED BY <1>5, <1>6, <1>7, <2>3, <2>4 DEF Keeps
<1>9. CASE ScanBlocks(r)
  <2>1. EndJob(r) /\ UNCHANGED thread
    BY <1>9 DEF ScanBlocks
  <2>2. Moved(r) /\ JobInv(r)'
    BY <2>1, EndMoves DEF IInv
  <2>3. ThreadInv(r)'
    BY <1>1, <1>2, <2>1 DEF IInv, ThreadInv, PreGate, PostGate, StatusAt, Decided
  <2> QED BY <1>5, <1>6, <1>7, <2>2, <2>3 DEF Keeps
<1> QED BY <1>8, <1>9

\* A candidate a job still has to promote: approved, of a clean thread.
LEMMA TodoIsApproved ==
    ASSUME IInv, NEW r \in Runs, InNode(r, "update") \/ InNode(r, "mark"),
           NEW c \in CandidatesInScope(thread[r])
    PROVE  /\ c \in DOMAIN draft /\ draft[c].run = r /\ c \in thread[r].cands
           /\ c \in vouched /\ Approved(c)
           /\ thread[r].next = running[r].at
<1>1. thread[r].next \in {"update", "mark"} /\ thread[r].next = running[r].at
  BY DEF InNode, IInv, JobInv
<1>2. c \in thread[r].cands
  BY DEF CandidatesInScope
<1>3. /\ c \in DOMAIN draft /\ draft[c].run = r /\ c \in vouched
      /\ Decided(r, thread[r].resolution) /\ thread[r].resolution.decision = "approved"
  BY <1>1, <1>2 DEF IInv, ThreadInv, PostGate
<1>4. thread[r].resolution.scope \in {All, c}
  BY DEF CandidatesInScope
<1>5. Approved(c)
  BY <1>3, <1>4 DEF Decided, Approved, Covers
<1> QED BY <1>1, <1>2, <1>3, <1>5

LEMMA PromoteKeeps ==
    ASSUME IInv, NEW r \in Runs, NEW c \in Ids, PromoteInCatalogue(r, c)
    PROVE  /\ Keeps(r)
           /\ DOMAIN catalogue' = Skills
           /\ \A k \in Skills : DOMAIN catalogue'[k].versions \subseteq {BumpMinor(Version[k])}
<1> DEFINE k == draft[c].skill
           v == draft[c].version
<1>1. /\ InNode(r, "update") /\ c \in running[r].todo
      /\ catalogue' = [catalogue EXCEPT ![k] =
           [current |-> v, versions |-> With(catalogue[k].versions, v, c)]]
      /\ running' = [running EXCEPT ![r].half = c]
      /\ UNCHANGED << draft, status, thread, decisions, vouched, replaced >>
  BY DEF PromoteInCatalogue, IsNext, history
<1>2. c \in CandidatesInScope(thread[r])
  BY <1>1 DEF IInv, JobInv, InNode, ToWrite
<1>3. /\ c \in DOMAIN draft /\ draft[c].run = r /\ c \in thread[r].cands
      /\ c \in vouched /\ Approved(c) /\ thread[r].next = "update"
  BY <1>1, <1>2, TodoIsApproved DEF InNode
<1>4. k \in Skills /\ v = BumpMinor(Version[k])
  BY <1>3 DEF IInv, Shape, WellDrafted
<1> HIDE DEF k, v
<1>5. /\ DOMAIN catalogue' = Skills
      /\ catalogue'[k].versions = With(catalogue[k].versions, v, c)
      /\ \A j \in Skills \ {k} : catalogue'[j] = catalogue[j]
  BY <1>1, <1>4 DEF IInv, Shape
<1>6. /\ DOMAIN With(catalogue[k].versions, v, c) = DOMAIN catalogue[k].versions \cup {v}
      /\ \A w \in DOMAIN With(catalogue[k].versions, v, c) :
           \/ w = v /\ With(catalogue[k].versions, v, c)[w] = c
           \/ w \in DOMAIN catalogue[k].versions /\
              With(catalogue[k].versions, v, c)[w] = catalogue[k].versions[w]
  BY DEF With
<1>7. \A j \in Skills : DOMAIN catalogue'[j].versions \subseteq {BumpMinor(Version[j])}
  BY <1>4, <1>5, <1>6 DEF IInv, Shape
<1>8. Bodies' \subseteq Bodies \cup {c}
  <2>1. ASSUME NEW b \in Bodies' PROVE b \in Bodies \cup {c}
    <3>1. PICK j \in Skills : \E w \in DOMAIN catalogue'[j].versions : b = catalogue'[j].versions[w]
      BY <2>1 DEF Bodies
    <3>2. PICK w \in DOMAIN catalogue'[j].versions : b = catalogue'[j].versions[w]
      BY <3>1
    <3>3. \/ b = c
          \/ w \in DOMAIN catalogue[j].versions /\ b = catalogue[j].versions[w]
      BY <3>2, <1>5, <1>6
    <3> QED BY <3>3, BodyIsVersion
  <2> QED BY <2>1
<1>9. Works(r) /\ running'[r].todo = running[r].todo /\ running'[r].half = c
  BY <1>1 DEF Works, IInv, Shape, JobFields
<1>10. Grows
  BY <1>1, <1>5, <1>6 DEF Grows
<1>11. \A s \in Runs \ {r} : LeavesAlone(s)
  BY <1>1, <1>3, <1>8, Owned DEF LeavesAlone, IInv
<1>12. Written(c)'
  BY <1>1, <1>4, <1>5, <1>6 DEF Written, k, v
<1>13. JobInv(r)'
  BY <1>1, <1>9, <1>12 DEF IInv, JobInv, InNode, Works
<1>14. ThreadInv(r)'
  BY <1>1, <1>3 DEF IInv, ThreadInv, PreGate, PostGate, StatusAt, Decided
<1>15. CandInv'
  <2>1. Promoted' \subseteq Promoted \cup {c}
    BY <1>1, <1>8 DEF Promoted
  <2>2. \A d : Approved(d) => Approved(d)'
    BY <1>1 DEF Approved, Covers
  <2>3. \A d \in replaced' : Written(d)'
    BY <1>1, <1>10, WrittenStays DEF IInv, CandInv
  <2> QED BY <1>1, <1>3, <1>8, <2>1, <2>2, <2>3 DEF IInv, CandInv
<1> QED BY <1>5, <1>7, <1>9, <1>10, <1>11, <1>13, <1>14, <1>15, WorksMoves DEF IInv, Keeps

LEMMA ReplaceKeeps ==
    ASSUME IInv, NEW r \in Runs, NEW c \in Ids, Replaced(r, c)
    PROVE  Keeps(r)
<1>1. /\ InNode(r, "update") /\ running[r].half = c /\ replaced' = replaced \cup {c}
      /\ running' = [running EXCEPT ![r].todo = @ \ {c}, ![r].half = None]
      /\ UNCHANGED << draft, status, catalogue, thread, decisions, vouched >>
  BY DEF Replaced, rows
<1>2. c \in running[r].todo /\ Written(c)
  BY <1>1, GateAssumption DEF IInv, JobInv
<1>3. c \in CandidatesInScope(thread[r])
  BY <1>1, <1>2 DEF IInv, JobInv, InNode, ToWrite
<1>4. c \in DOMAIN draft /\ Approved(c) /\ thread[r].next = "update"
  BY <1>1, <1>3, TodoIsApproved DEF InNode
<1>5. /\ Works(r) /\ running'[r].todo = running[r].todo \ {c} /\ running'[r].half = None
  BY <1>1 DEF Works, IInv, Shape, JobFields
<1>6. Bodies' = Bodies
  BY <1>1 DEF Bodies
<1>7. Grows /\ \A s \in Runs \ {r} : LeavesAlone(s)
  BY <1>1, <1>6 DEF Grows, LeavesAlone
<1>8. JobInv(r)'
  BY <1>1, <1>5 DEF IInv, JobInv, InNode, Works
<1>9. ThreadInv(r)'
  BY <1>1, <1>4 DEF IInv, ThreadInv, PreGate, PostGate, StatusAt, Decided
<1>10. CandInv'
  <2>1. Promoted' = Promoted \cup {c}
    BY <1>1, <1>6 DEF Promoted
  <2>2. \A d : (Approved(d) => Approved(d)') /\ (Written(d) => Written(d)')
    BY <1>1 DEF Approved, Covers, Written
  <2> QED BY <1>1, <1>2, <1>4, <1>6, <2>1, <2>2 DEF IInv, CandInv
<1> QED BY <1>5, <1>7, <1>8, <1>9, <1>10, WorksMoves DEF IInv, Keeps

LEMMA MarkKeeps ==
    ASSUME IInv, NEW r \in Runs, NEW c \in Ids, MarkPromoted(r, c)
    PROVE  /\ Keeps(r)
           /\ c \in DOMAIN draft
           /\ status[c] \notin {"promoted", "approved", "rejected"} \/ status'[c] = status[c]
<1> DEFINE settled == IF Mode[r] = "direct" THEN "promoted" ELSE "approved"
<1>1. /\ InNode(r, "mark") /\ c \in running[r].todo
      /\ status' = [status EXCEPT ![c] = settled]
      /\ running' = [running EXCEPT ![r].todo = @ \ {c}]
      /\ UNCHANGED << draft, catalogue, thread, decisions, vouched, replaced >>
  BY DEF MarkPromoted, IsNext, history
<1>2. thread[r].next = "mark" /\ c \in thread[r].records
  BY <1>1 DEF IInv, JobInv, InNode, ToWrite
<1>3. c \in CandidatesInScope(thread[r]) /\ c \in replaced
  BY <1>2 DEF IInv, ThreadInv
<1>4. c \in DOMAIN draft /\ c \in thread[r].cands /\ Approved(c)
  BY <1>1, <1>3, TodoIsApproved
<1>5. Works(r) /\ running'[r].todo = running[r].todo \ {c}
  BY <1>1 DEF Works, IInv, Shape, JobFields
<1>6. Bodies' = Bodies
  BY <1>1 DEF Bodies
<1>7. Grows /\ \A s \in Runs \ {r} : LeavesAlone(s)
  BY <1>1, <1>4, <1>6, Owned DEF Grows, LeavesAlone, IInv, Shape
<1>8. JobInv(r)'
  BY <1>1, <1>5 DEF IInv, JobInv, InNode, Works
<1>9. status'[c] = settled /\ \A d \in Ids \ {c} : status'[d] = status[d]
  BY <1>1 DEF IInv, Shape
<1>10. settled \in StatusAt(r, "mark") /\ StatusAt(r, "mark") = {"absent", "draft", settled}
  BY DEF StatusAt
<1> HIDE DEF settled
<1>11. thread[r].cands \subseteq Ids
  BY DEF IInv, Shape, ThreadInv
<1>12. \A d \in thread[r].cands : status'[d] \in StatusAt(r, "mark")
  BY <1>2, <1>9, <1>10, <1>11 DEF IInv, ThreadInv
<1>13. ThreadInv(r)'
  BY <1>1, <1>2, <1>12 DEF IInv, ThreadInv, PreGate, PostGate, Decided
<1>14. CandInv'
  <2>1. Promoted' \subseteq Promoted \cup {c}
    BY <1>1, <1>6, <1>9 DEF Promoted
  <2>2. \A d : (Approved(d) => Approved(d)') /\ (Written(d) => Written(d)')
    BY <1>1 DEF Approved, Covers, Written
  <2> QED BY <1>1, <1>3, <1>4, <1>6, <1>9, <2>1, <2>2 DEF IInv, CandInv
<1>15. status[c] \in StatusAt(r, "mark")
  BY <1>2, <1>4 DEF IInv, ThreadInv
<1> QED BY <1>4, <1>5, <1>7, <1>8, <1>9, <1>10, <1>13, <1>14, <1>15, WorksMoves DEF IInv, Keeps

LEMMA RejectKeeps ==
    ASSUME IInv, NEW r \in Runs, NEW c \in Ids, RecordRejection(r, c)
    PROVE  /\ Keeps(r)
           /\ c \in DOMAIN draft
           /\ UNCHANGED status \/ (/\ status' = [status EXCEPT ![c] = "rejected"]
                                   /\ status[c] \in {"absent", "draft", "rejected"})
<1> DEFINE decision == thread[r].resolution.decision
<1>1. /\ InNode(r, "reject") /\ c \in running[r].todo
      /\ UNCHANGED << draft, catalogue, thread, decisions, vouched, replaced >>
  BY DEF RecordRejection, IsNext, history
<1>2. /\ thread[r].next = "reject" /\ c \in thread[r].cands /\ c \in DOMAIN draft
      /\ decision \in Decision \ {"approved"}
  <2>1. thread[r].next = "reject"
    BY <1>1 DEF IInv, JobInv, InNode
  <2>2. decision # "approved" /\ Decided(r, thread[r].resolution)
    BY <2>1 DEF IInv, ThreadInv, PostGate
  <2>3. decision \in Decision
    BY <2>2 DEF Decided, Resolution
  <2> QED BY <1>1, <2>1, <2>2, <2>3, TodoIsOwn DEF IInv
<1>3. Bodies' = Bodies
  BY <1>1 DEF Bodies
<1>4. status[c] \in {"absent", "draft", "rejected"}
  BY <1>2 DEF IInv, ThreadInv, StatusAt
<1>5. \A d : (Approved(d) => Approved(d)') /\ (Written(d) => Written(d)')
  BY <1>1 DEF Approved, Covers, Written
<1>6. CASE Recordable(decision)
  <2>1. decision = "rejected"
    BY <1>2, <1>6 DEF Recordable, Decision, CandidateStatus
  <2>2. /\ status' = [status EXCEPT ![c] = "rejected"]
        /\ running' = [running EXCEPT ![r].half = c]
    BY <1>6, <2>1 DEF RecordRejection
  <2>3. Works(r) /\ running'[r].todo = running[r].todo
    BY <1>1, <2>2 DEF Works, IInv, Shape, JobFields
  <2>4. JobInv(r)'
    BY <1>1, <2>3 DEF IInv, JobInv, InNode, Works
  <2>5. Grows /\ \A s \in Runs \ {r} : LeavesAlone(s)
    BY <1>1, <1>2, <1>3, <2>2, Owned DEF Grows, LeavesAlone, IInv, Shape
  <2>6. status'[c] = "rejected" /\ \A d \in Ids \ {c} : status'[d] = status[d]
    BY <2>2 DEF IInv, Shape
  <2>7. thread[r].cands \subseteq Ids
    BY DEF IInv, Shape, ThreadInv
  <2>8. \A d \in thread[r].cands : status'[d] \in StatusAt(r, "reject")
    BY <1>2, <2>6, <2>7 DEF IInv, ThreadInv, StatusAt
  <2>9. ThreadInv(r)'
    BY <1>1, <1>2, <2>8 DEF IInv, ThreadInv, PreGate, PostGate, Decided
  <2>10. CandInv'
    <3>1. Promoted' \subseteq Promoted
      BY <1>1, <1>3, <2>6 DEF Promoted
    <3> QED BY <1>1, <1>3, <1>5, <2>6, <3>1 DEF IInv, CandInv
  <2> QED BY <1>2, <1>4, <2>2, <2>3, <2>4, <2>5, <2>9, <2>10, WorksMoves DEF IInv, Keeps
<1>7. CASE ~Recordable(decision)
  <2>1. EndJob(r) /\ UNCHANGED status
    BY <1>7 DEF RecordRejection
  <2>2. Moved(r) /\ JobInv(r)'
    BY <1>1, <2>1, EndMoves DEF IInv
  <2>3. ThreadInv(r)'
    BY <1>1, <1>2, <2>1 DEF IInv, ThreadInv, PreGate, PostGate, Decided
  <2>4. Grows /\ \A s \in Runs \ {r} : LeavesAlone(s)
    BY <1>1, <1>3, <2>1 DEF Grows, LeavesAlone
  <2> QED BY <1>1, <1>2, <2>1, <2>2, <2>3, <2>4, CandInvStays DEF Keeps
<1> QED BY <1>6, <1>7

LEMMA SuppressKeeps ==
    ASSUME IInv, NEW r \in Runs, NEW c \in Ids, AddSuppression(r, c)
    PROVE  Keeps(r)
<1>1. /\ InNode(r, "reject")
      /\ running' = [running EXCEPT ![r].todo = @ \ {c}, ![r].half = None]
      /\ UNCHANGED << draft, status, catalogue, thread, decisions, vouched, replaced >>
  BY DEF AddSuppression, history
<1>2. Works(r) /\ running'[r].todo \subseteq running[r].todo
  BY <1>1 DEF Works, IInv, Shape, JobFields
<1>3. Bodies' = Bodies
  BY <1>1 DEF Bodies
<1>4. Grows /\ \A s \in Runs \ {r} : LeavesAlone(s)
  BY <1>1, <1>3 DEF Grows, LeavesAlone
<1>5. JobInv(r)'
  BY <1>1, <1>2 DEF IInv, JobInv, InNode, Works
<1>6. ThreadInv(r)'
  BY <1>1, <1>3 DEF IInv, ThreadInv, Decided
<1> QED BY <1>1, <1>2, <1>4, <1>5, <1>6, WorksMoves, CandInvStays DEF IInv, Keeps

-----------------------------------------------------------------------------
(* It is inductive *)

\* What Shape says of the candidates, their rows and the skills table.
RowsShape ==
    /\ DOMAIN draft \subseteq Ids /\ \A c \in DOMAIN draft : WellDrafted(draft[c])
    /\ DOMAIN status = Ids
    /\ \A c \in Ids : status[c] \in CandidateStatus \cup {"absent"}
    /\ \A c \in Ids : status[c] # "absent" => c \in DOMAIN draft
    /\ DOMAIN catalogue = Skills
    /\ \A k \in Skills : DOMAIN catalogue[k].versions \subseteq {BumpMinor(Version[k])}

Settled == {"promoted", "approved", "rejected"}
StatusIsFinal == \A c \in Ids : status[c] \in Settled => status'[c] = status[c]

WritesWell(r) ==
    /\ Keeps(r) /\ RowsShape' /\ StatusIsFinal
    /\ UNCHANGED << active, markers, deciding, pending, counts >>

LEMMA WritesOwn ==
    ASSUME IInv, NEW r \in Runs, Writes(r)
    PROVE  WritesWell(r)
<1>0. RowsShape /\ ThreadInv(r) /\ JobInv(r)
  BY DEF IInv, Shape, RowsShape
<1>1. CASE DraftCandidates(r)
  <2>1. UNCHANGED << status, catalogue, active, markers, deciding, pending, counts >>
    BY <1>1 DEF DraftCandidates
  <2>2. /\ Keeps(r)
        /\ DOMAIN draft' \subseteq Ids /\ \A c \in DOMAIN draft' : WellDrafted(draft'[c])
    BY <1>1, DraftKeeps
  <2>3. DOMAIN draft \subseteq DOMAIN draft'
    BY <2>2 DEF Keeps, Grows
  <2> QED BY <1>0, <2>1, <2>2, <2>3 DEF WritesWell, RowsShape, StatusIsFinal
<1>2. CASE ScanPasses(r) \/ ScanBlocks(r)
  <2>1. UNCHANGED << draft, status, catalogue, active, markers, deciding, pending, counts >>
    BY <1>2 DEF ScanPasses, ScanBlocks, rows
  <2> QED BY <1>0, <1>2, <2>1, ScanKeeps DEF WritesWell, RowsShape, StatusIsFinal
<1>3. ASSUME NEW c \in Ids, InsertCandidate(r, c) PROVE WritesWell(r)
  <2>1. /\ UNCHANGED << draft, catalogue, active, markers, deciding, pending, counts >>
        /\ status' = [status EXCEPT ![c] = IF @ = "absent" THEN "draft" ELSE @]
        /\ c \in running[r].todo
    BY <1>3 DEF InsertCandidate, IsNext
  <2>2. c \in DOMAIN draft
    BY <1>0, <2>1, TodoIsOwn
  <2>3. RowsShape' /\ StatusIsFinal
    BY <1>0, <2>1, <2>2 DEF RowsShape, StatusIsFinal, Settled, CandidateStatus
  <2> QED BY <1>3, <2>1, <2>3, InsertKeeps DEF WritesWell
<1>4. ASSUME NEW c \in Ids, PromoteInCatalogue(r, c) PROVE WritesWell(r)
  <2>1. UNCHANGED << draft, status, active, markers, deciding, pending, counts >>
    BY <1>4 DEF PromoteInCatalogue
  <2> QED BY <1>0, <1>4, <2>1, PromoteKeeps DEF WritesWell, RowsShape, StatusIsFinal
<1>5. ASSUME NEW c \in Ids, Replaced(r, c) PROVE WritesWell(r)
  <2>1. UNCHANGED << draft, status, catalogue, active, markers, deciding, pending, counts >>
    BY <1>5 DEF Replaced, rows
  <2> QED BY <1>0, <1>5, <2>1, ReplaceKeeps DEF WritesWell, RowsShape, StatusIsFinal
<1>6. ASSUME NEW c \in Ids, MarkPromoted(r, c) PROVE WritesWell(r)
  <2>1. PICK settled \in {"promoted", "approved"} :
          /\ UNCHANGED << draft, catalogue, active, markers, deciding, pending, counts >>
          /\ status' = [status EXCEPT ![c] = settled]
    BY <1>6 DEF MarkPromoted
  <2>2. /\ Keeps(r) /\ c \in DOMAIN draft
        /\ status[c] \notin Settled \/ status'[c] = status[c]
    BY <1>6, MarkKeeps DEF Settled
  <2>3. RowsShape' /\ StatusIsFinal
    BY <1>0, <2>1, <2>2 DEF RowsShape, StatusIsFinal, CandidateStatus
  <2> QED BY <2>1, <2>2, <2>3 DEF WritesWell
<1>7. ASSUME NEW c \in Ids, RecordRejection(r, c) PROVE WritesWell(r)
  <2>1. UNCHANGED << draft, catalogue, active, markers, deciding, pending, counts >>
    BY <1>7 DEF RecordRejection
  <2>2. /\ Keeps(r) /\ c \in DOMAIN draft
        /\ UNCHANGED status \/ (/\ status' = [status EXCEPT ![c] = "rejected"]
                                /\ status[c] \in {"absent", "draft", "rejected"})
    BY <1>7, RejectKeeps
  <2>3. RowsShape' /\ StatusIsFinal
    BY <1>0, <2>1, <2>2 DEF RowsShape, StatusIsFinal, Settled, CandidateStatus
  <2> QED BY <2>1, <2>2, <2>3 DEF WritesWell
<1>8. ASSUME NEW c \in Ids, AddSuppression(r, c) PROVE WritesWell(r)
  <2>1. UNCHANGED << draft, status, catalogue, active, markers, deciding, pending, counts >>
    BY <1>8 DEF AddSuppression
  <2> QED BY <1>0, <1>8, <2>1, SuppressKeeps DEF WritesWell, RowsShape, StatusIsFinal
<1> QED BY <1>1, <1>2, <1>3, <1>4, <1>5, <1>6, <1>7, <1>8 DEF Writes

\* A job's queue is touched by its own run, which at most takes its turn.
LEMMA StepsDequeue ==
    ASSUME Shape, NEW r \in Runs, Moves(r) \/ Writes(r)
    PROVE  UNCHANGED pending \/ pending' = [pending EXCEPT ![r] = NoJob]
<1>1. CASE Writes(r)
  BY <1>1 DEF Writes, DraftCandidates, ScanPasses, ScanBlocks, InsertCandidate,
     PromoteInCatalogue, Replaced, MarkPromoted, RecordRejection, AddSuppression
<1>2. CASE InvokeInitial(r) \/ InvokeResume(r) \/ RefuseResume(r)
  BY <1>2 DEF InvokeInitial, InvokeResume, RefuseResume, TakesTurn
<1>3. CASE SelectImpacted(r) \/ AllPersisted(r) \/ Halt(r) \/ ResolveGate(r)
  BY <1>3 DEF SelectImpacted, AllPersisted, Halt, ResolveGate
<1>4. CASE ScopeError(r) \/ AllReplaced(r) \/ Finish(r) \/ Retry(r) \/ Kill(r)
  BY <1>4 DEF ScopeError, AllReplaced, Finish, Retry, Kill
<1> QED BY <1>1, <1>2, <1>3, <1>4 DEF Moves

\* Everything of the invariant after a step of a run.
LEMMA RunStep ==
    ASSUME IInv, NEW r \in Runs, Moves(r) \/ Writes(r)
    PROVE  IInv' /\ StatusIsFinal
<1>1. Keeps(r) /\ RowsShape' /\ StatusIsFinal
  <2>1. CASE Moves(r)
    <3>1. UNCHANGED << draft, status, catalogue >>
      BY <2>1, MovesKeep DEF Kept
    <3> QED BY <2>1, <3>1, MovesKeepAll DEF IInv, Shape, RowsShape, StatusIsFinal
  <2>2. CASE Writes(r)
    BY <2>2, WritesOwn DEF WritesWell
  <2> QED BY <2>1, <2>2
<1>2. /\ UNCHANGED << active, markers, deciding, initials >>
      /\ faults' \in 0..MaxFaults
  <2>1. CASE Moves(r)
    BY <2>1, MovesKeep, GateAssumption DEF Kept, IInv, Shape
  <2>2. CASE Writes(r)
    BY <2>2, WritesOwn DEF WritesWell, counts, IInv, Shape
  <2> QED BY <2>1, <2>2
<1>3. /\ DOMAIN pending' = Runs /\ DOMAIN NoJob = JobFields /\ NoJob.kind = "none"
      /\ \A s \in Runs : pending'[s] = pending[s] \/ pending'[s] = NoJob
  BY StepsDequeue DEF IInv, Shape, NoJob, Job, JobFields
<1>4. Shape'
  <2>1. \A s \in Runs : DOMAIN pending'[s] = JobFields
    BY <1>3 DEF IInv, Shape
  <2>2. /\ DOMAIN running' = Runs /\ DOMAIN thread' = Runs
        /\ \A s \in Runs : DOMAIN running'[s] = JobFields /\ DOMAIN thread'[s] = ThreadFields
        /\ \A s \in Runs : thread'[s].next \in PreGate \cup PostGate \cup {"gate", "end"}
        /\ \A s \in Runs : \A i \in thread'[s].impacted : i.skill \in Skills
    BY <1>1 DEF IInv, Shape, Keeps, Moved
  <2> QED BY <1>1, <1>2, <1>3, <2>1, <2>2 DEF IInv, Shape, RowsShape
<1>5. QueueInv'
  <2>2. ASSUME NEW s \in Runs
        PROVE  /\ pending'[s].kind = "resume" => Decided(s, pending'[s].value)
               /\ pending'[s].kind \in {"none", "initial", "resume"}
    BY <1>3 DEF IInv, QueueInv
  <2>3. ASSUME NEW s \in Runs
        PROVE  /\ running'[s].kind = "resume" => Decided(s, running'[s].value)
               /\ running'[s].kind \in {"none", "initial", "resume"}
    BY <1>1 DEF IInv, QueueInv, Keeps, Moved
  <2>4. decisions \subseteq decisions'
    BY <1>1 DEF Keeps, Grows
  <2> QED BY <1>2, <2>2, <2>3, <2>4 DEF IInv, QueueInv, Decided
<1>6. ASSUME NEW s \in Runs PROVE ThreadInv(s)' /\ JobInv(s)'
  <2>1. CASE s = r
    BY <1>1, <2>1 DEF Keeps
  <2>2. CASE s # r
    BY <1>1, <2>2, Frame DEF IInv, Keeps, Moved
  <2> QED BY <2>1, <2>2
<1> QED BY <1>1, <1>4, <1>5, <1>6 DEF IInv, Keeps

\* Routes, operators, other runs' snapshots and the clock touch no thread.
LEMMA EnvironmentStep ==
    ASSUME IInv, Environment
    PROVE  IInv' /\ StatusIsFinal
<1>1. /\ UNCHANGED << draft, status, catalogue, running, thread, vouched, replaced >>
      /\ decisions \subseteq decisions'
  <2>1. ASSUME NEW d, RecordDecision(d) PROVE <1>1!:
    BY <2>1 DEF RecordDecision, rows, actions
  <2>2. ASSUME NEW d, DispatchResume(d) \/ DispatchFails(d) \/ RouteDies(d) PROVE <1>1!:
    BY <2>2 DEF DispatchResume, DispatchFails, RouteDies, rows, actions, history
  <2>3. ASSUME NEW r, DispatchInitial(r) PROVE <1>1!:
    BY <2>3 DEF DispatchInitial, rows, history
  <2>4. ASSUME NEW k, NEW commit, UpsertSnapshot(k, commit) PROVE <1>1!:
    BY <2>4 DEF UpsertSnapshot, actions, history
  <2>5. ASSUME NEW p, CooldownEnds(p) PROVE <1>1!:
    BY <2>5 DEF CooldownEnds, actions, history
  <2> QED BY <2>1, <2>2, <2>3, <2>4, <2>5 DEF Environment
<1>2. Bodies' = Bodies
  BY <1>1 DEF Bodies
<1>3. Grows /\ (\A s \in Runs : LeavesAlone(s)) /\ StatusIsFinal
  BY <1>1, <1>2 DEF Grows, LeavesAlone, StatusIsFinal
<1>4. \A s \in Runs : ThreadInv(s)' /\ JobInv(s)'
  BY <1>1, <1>3, Frame DEF IInv
<1>5. CandInv'
  BY <1>1, <1>3, CandInvStays
<1>6. RowsShape'
  BY <1>1 DEF IInv, Shape, RowsShape
\* What is queued is a decision that was made, also when it was made just now.
<1>7. /\ \A d \in deciding' : Decided(d.run, d)'
      /\ DOMAIN pending' = Runs
      /\ \A s \in Runs : /\ DOMAIN pending'[s] = JobFields
                         /\ pending'[s].kind \in {"none", "initial", "resume"}
      /\ \A s \in Runs : pending'[s].kind = "resume" =>
           /\ pending'[s].value \in Resolution /\ pending'[s].value.run = s
           /\ \E d \in decisions' : /\ d.run = s /\ d.scope = pending'[s].value.scope
                                    /\ d.decision = pending'[s].value.decision
  <2> USE DEF IInv, Shape, QueueInv, Decided
  <2>1. ASSUME NEW r \in Runs, NEW scope \in Scope, NEW decision \in Decision,
               RecordDecision([run |-> r, decision |-> decision, scope |-> scope])
        PROVE  <1>7!:
    <3> DEFINE d == [run |-> r, decision |-> decision, scope |-> scope]
               e == [run |-> d.run, scope |-> d.scope, decision |-> d.decision]
    <3>1. /\ d \in Resolution /\ d.run = r /\ d.scope = scope /\ d.decision = decision
          /\ e.run = r /\ e.scope = scope /\ e.decision = decision
      BY DEF Resolution
    <3>2. /\ deciding' = deciding \cup {d} /\ decisions' = decisions \cup {e}
          /\ UNCHANGED pending
      BY <2>1 DEF RecordDecision, actions
    <3> HIDE DEF d, e
    <3> QED BY <3>1, <3>2
  <2>2. ASSUME NEW d \in deciding, DispatchResume(d) \/ DispatchFails(d) \/ RouteDies(d)
        PROVE  <1>7!:
    <3>1. /\ deciding' = deciding \ {d} /\ UNCHANGED decisions
          /\ UNCHANGED pending \/ pending' = [pending EXCEPT ![d.run] = Job("resume", d)]
      BY <2>2 DEF DispatchResume, DispatchFails, RouteDies, Enqueue, history, actions
    <3>2. /\ DOMAIN Job("resume", d) = JobFields /\ Job("resume", d).kind = "resume"
          /\ Job("resume", d).value = d
      BY DEF Job, JobFields
    <3>3. Decided(d.run, d) /\ d.run \in Runs
      BY DEF Resolution
    <3>4. \A s \in Runs : pending'[s] = pending[s] \/ (s = d.run /\ pending'[s] = Job("resume", d))
      BY <3>1
    <3> QED BY <3>1, <3>2, <3>3, <3>4
  <2>3. ASSUME NEW r \in Runs, DispatchInitial(r) PROVE <1>7!:
    <3>1. /\ UNCHANGED << deciding, decisions >>
          /\ pending' = [pending EXCEPT ![r] = Job("initial", None)]
      BY <2>3 DEF DispatchInitial, Enqueue, history
    <3>2. DOMAIN Job("initial", None) = JobFields /\ Job("initial", None).kind = "initial"
      BY DEF Job, JobFields
    <3>3. \A s \in Runs : pending'[s] = pending[s] \/ pending'[s] = Job("initial", None)
      BY <3>1
    <3> QED BY <3>1, <3>2, <3>3
  <2>4. ASSUME NEW k, NEW commit, UpsertSnapshot(k, commit) PROVE <1>7!:
    BY <2>4 DEF UpsertSnapshot, history, actions
  <2>5. ASSUME NEW p, CooldownEnds(p) PROVE <1>7!:
    BY <2>5 DEF CooldownEnds, history, actions
  <2> QED BY <2>1, <2>2, <2>3, <2>4, <2>5 DEF Environment
<1>8. QueueInv'
  <2>1. \A s \in Runs : running[s].kind = "resume" => Decided(s, running[s].value)'
    BY <1>1 DEF IInv, QueueInv, Decided
  <2> QED BY <1>1, <1>7, <2>1 DEF IInv, QueueInv, Decided
<1>9. /\ DOMAIN active' = Skills /\ \A k \in Skills : active'[k] \in Snapshots \cup {None}
      /\ markers' \subseteq Runs \cup Ids
      /\ initials' \in 0..MaxInitial /\ faults' \in 0..MaxFaults
  <2> USE GateAssumption DEF IInv, Shape, Fault
  <2>1. ASSUME NEW r \in Runs, NEW scope \in Scope, NEW decision \in Decision,
               RecordDecision([run |-> r, decision |-> decision, scope |-> scope])
        PROVE  <1>9!:
    BY <2>1 DEF RecordDecision, DedupeKey, Scope, rows, counts
  <2>2. ASSUME NEW d \in deciding, DispatchResume(d) \/ DispatchFails(d) \/ RouteDies(d)
        PROVE  <1>9!:
    BY <2>2 DEF DispatchResume, DispatchFails, RouteDies, rows, counts
  <2>3. ASSUME NEW r \in Runs, DispatchInitial(r) PROVE <1>9!:
    BY <2>3 DEF DispatchInitial, rows
  <2>4. ASSUME NEW k \in Skills, NEW commit \in Commits, UpsertSnapshot(k, commit)
        PROVE  <1>9!:
    BY <2>4 DEF UpsertSnapshot, Snapshots
  <2>5. ASSUME NEW p, CooldownEnds(p) PROVE <1>9!:
    BY <2>5 DEF CooldownEnds
  <2> QED BY <2>1, <2>2, <2>3, <2>4, <2>5 DEF Environment
<1>10. Shape'
  BY <1>1, <1>6, <1>7, <1>9 DEF IInv, Shape, RowsShape
<1> QED BY <1>3, <1>4, <1>5, <1>8, <1>10 DEF IInv

LEMMA InitIInv == Init => IInv
<1> SUFFICES ASSUME Init PROVE IInv
  OBVIOUS
<1>1. /\ DOMAIN NoJob = JobFields /\ NoJob.kind = "none" /\ NoJob.at = "none" /\ NoJob.todo = {}
  BY DEF NoJob, Job, JobFields
<1>2. /\ DOMAIN FreshThread("end") = ThreadFields /\ FreshThread("end").next = "end"
      /\ FreshThread("end").impacted = {} /\ FreshThread("end").cands = {}
      /\ FreshThread("end").records = {}
  BY DEF FreshThread, ThreadFields
<1>3. Bodies = {} /\ Promoted = {}
  BY DEF Init, Bodies, Promoted
<1>4. Shape
  BY <1>1, <1>2, GateAssumption DEF Init, Shape, Snapshots
<1>5. QueueInv /\ CandInv
  BY <1>1, <1>3 DEF Init, QueueInv, CandInv
<1>6. \A r \in Runs : ThreadInv(r) /\ JobInv(r)
  BY <1>1, <1>2 DEF Init, ThreadInv, JobInv, InNode, PreGate, PostGate
<1> QED BY <1>4, <1>5, <1>6 DEF IInv

LEMMA Inductive == IInv /\ [Next]_vars => IInv' /\ StatusIsFinal
<1> SUFFICES ASSUME IInv, [Next]_vars PROVE IInv' /\ StatusIsFinal
  OBVIOUS
<1>1. CASE Environment
  BY <1>1, EnvironmentStep
<1>2. ASSUME NEW r \in Runs, Moves(r) \/ Writes(r) PROVE IInv' /\ StatusIsFinal
  BY <1>2, RunStep
<1>3. CASE UNCHANGED vars
  BY <1>3 DEF vars, rows, actions, history, counts, IInv, Shape, QueueInv, ThreadInv, JobInv,
     CandInv, InNode, Decided, Written, Approved, Covers, Promoted, Bodies, StatusIsFinal
<1> QED BY <1>1, <1>2, <1>3, NextCases

-----------------------------------------------------------------------------
(* The theorems *)

\* The invariant of Gate #3, its routes, queues, threads and candidates.
THEOREM Invariance == Spec => []IInv
BY InitIInv, Inductive, PTL DEF Spec

\* Rows are of drafts, versions are of their skill, records of their thread.
THEOREM TypeCorrect == Spec => []TypeOK
<1>1. IInv => TypeOK
  <2> SUFFICES ASSUME IInv PROVE TypeOK
    OBVIOUS
  <2>1. deciding \subseteq Resolution
    BY DEF IInv, QueueInv, Decided
  <2>2. vouched \subseteq Ids /\ replaced \subseteq Ids
    BY DEF IInv, Shape, CandInv
  <2>3. \A r \in Runs : thread[r].records \subseteq thread[r].cands /\ thread[r].cands \subseteq DOMAIN draft
    BY DEF IInv, ThreadInv
  <2> QED BY <2>1, <2>2, <2>3 DEF IInv, Shape, TypeOK
<1> QED BY <1>1, Invariance, PTL

\* Whatever is queued, superseded, retried or killed, what is in the skills
\* table, in a file or pull request, or marked so in its row was approved by a
\* human whose decision covers this very candidate.
THEOREM OnlyApprovedIsPromoted == Spec => []PromotedWasApproved
<1>1. IInv => PromotedWasApproved
  BY DEF IInv, CandInv, Approved, PromotedWasApproved
<1> QED BY <1>1, Invariance, PTL

\* What is in use passed its scan, and a row that says promoted stands for both
\* writes of the promotion.
THEOREM PromotionsAreWhole == Spec => []PromotionIsComplete
<1>1. IInv => PromotionIsComplete
  BY DEF IInv, CandInv, Written, PromotionIsComplete
<1> QED BY <1>1, Invariance, PTL

\* No step takes a promoted or rejected candidate to another status.
THEOREM SettledStays == Spec => SettledIsFinal
<1>1. IInv /\ [Next]_vars => [\A c \in Ids : status[c] \in {"promoted", "approved", "rejected"} =>
                                 status'[c] = status[c]]_vars
  BY Inductive DEF StatusIsFinal, Settled
<1> QED BY <1>1, Invariance, PTL DEF Spec, SettledIsFinal

=============================================================================
