----------------------- MODULE ContentGeneration_proofs -----------------------
(***************************************************************************)
(* Proofs about ContentGeneration, for any selection, skills, evidence,     *)
(* answers and budgets, and any numbers of jobs, edits and faults.          *)
(*                                                                          *)
(* A call's key says what it was asked: KeyTells holds of every answer       *)
(* under its key, in either cache or on its way.  BooksInv counts what was   *)
(* paid for against what is kept, on its way or lost.  DraftsInv says what   *)
(* the drafts of the job have been given so far, and TablesInv that what is  *)
(* stored keeps it.                                                         *)
(***************************************************************************)
EXTENDS ContentGeneration, FiniteSetTheorems, TLAPS

-----------------------------------------------------------------------------
(* The inductive invariant *)

\* The nodes at and after which the job has drafts, their claims, and so on.
Storing   == {"claims"}
Checked   == {"persist"} \cup Storing
Linked    == {"check"} \cup Checked
Extracted == {"link"} \cup Linked
Drafted   == {"extract"} \cup Extracted
Planned   == {"plan", "generate"} \cup Drafted

JobFields == {"at", "attempt", "l1", "spent", "features", "skills", "calls", "drafts",
              "claims", "written"}
CallFields == {"phase", "key", "prompt", "id", "answer", "error"}
DraftFields == {"id", "type", "body", "status", "skills", "loaded", "prompt", "found"}
TableFields == {"artifacts", "usage", "claims"}

JobShape ==
    /\ DOMAIN job = JobFields
    /\ job.at \in {"none", "load", "snapshot"} \cup Planned
    /\ job.at \in Planned => job.skills \subseteq snapshots
    /\ job.at \notin {"generate", "extract"} => DOMAIN job.calls = {}
    /\ minted \in Nat /\ DOMAIN tables = TableFields

\* A hash is of one skill.
SkillsInv == \A s \in snapshots \cup skills : s = [name |-> s.hash[1], hash |-> s.hash]

\* What is kept under a key was answered to what the key stands for.
KeyTells(key, answer) ==
    /\ answer.kind \in {"object", "malformed"}
    /\ key[1] = "generate" => key = GenerationKey(answer.prompt) /\ answer.prompt.skills \subseteq snapshots
    /\ key[1] = "extract" /\ answer.kind = "object" => answer.claims \in ClaimSets

CacheInv ==
    /\ \A k \in DOMAIN cache : KeyTells(k, cache[k])
    /\ \A k \in DOMAIN job.l1 : KeyTells(k, job.l1[k])
    /\ \A k \in DOMAIN job.l1 \cap DOMAIN cache : job.l1[k] = cache[k]

\* The key of a call is its own, and while an answer is on its way nothing is
\* kept under it.
CallInv(t) ==
    LET call == job.calls[t]
    IN  /\ DOMAIN call = CallFields
        /\ call.phase \in {"ready", "missed", "answered", "done", "failed"}
        /\ call.id \in 1..minted /\ \A a \in tables.artifacts : a.id # call.id
        /\ call.phase \in {"missed", "answered"} => call.key \notin DOMAIN cache
        /\ call.phase = "answered" => call.answer.kind = "text" \/ KeyTells(call.key, call.answer)
        /\ call.phase = "done" => KeyTells(call.key, call.answer)
        /\ call.phase = "failed" => call.error \in {"transient", "budget", "format"}
        /\ job.at = "generate" =>
              /\ call.key = GenerationKey(call.prompt) /\ call.prompt.type = t
              /\ call.prompt.features = job.features
              /\ call.prompt.skills = SkillsForSpec(t, job.skills, Capabilities)
        /\ job.at = "extract" => call.key[1] = "extract" /\ call.key[2] = call.id

CallsInv ==
    /\ \A t \in DOMAIN job.calls : CallInv(t)
    /\ \A t, u \in DOMAIN job.calls : job.calls[t].id = job.calls[u].id => t = u
    /\ job.at = "extract" => DOMAIN job.calls = {d.type : d \in job.drafts}

\* An answer that was paid for is kept, on its way, or lost.
Flying == {job.calls[t].key : t \in InFlight}
BooksInv ==
    /\ \A k \in DOMAIN bills : bills[k] \in Nat
    /\ \A k \in DOMAIN lost : lost[k] \in Nat
    /\ \A k : Count(bills, k) <= Count(lost, k) + IF k \in DOMAIN cache \cup Flying THEN 1 ELSE 0

\* Where a draft came from.
Sourced(d) ==
    /\ d.prompt.type = d.type /\ d.prompt.skills = d.skills
    /\ {<< f.id, f.title >> : f \in d.prompt.features} = {<< f.id, f.title >> : f \in d.loaded}

\* What its claims are, and what was found in them.
Grounded(d, claims) ==
    /\ {c.claim : c \in claims} = d.found
    /\ \A c \in claims : \A e \in Evidence : e.id \in c.links => c.claim.figures \subseteq e.figures

Vetted(d, claims) == d.status = "draft" => \A f \in Findings(d.body, claims) : ~f.blocking

DraftInv(d) ==
    /\ DOMAIN d = DraftFields
    /\ d.id \in 1..minted /\ \A a \in tables.artifacts : a.id # d.id
    /\ d.skills \subseteq snapshots /\ Sourced(d)
    /\ job.at \in Extracted => d.found \in ClaimSets
    /\ job.at \in Linked => Grounded(d, ClaimsOf(job.claims, d))
    /\ job.at \in Checked => Vetted(d, ClaimsOf(job.claims, d))

DraftsInv ==
    job.at \in Drafted =>
        /\ \A d \in job.drafts : DraftInv(d)
        /\ \A d, e \in job.drafts : d.id = e.id \/ d.type = e.type => d = e
        /\ job.at \in Linked => \A c \in job.claims : \E d \in job.drafts : d.id = c.artifact
        /\ job.at = "persist" => job.written = tables
        /\ job.at = "claims" =>
              /\ DOMAIN job.written = TableFields
              /\ job.written.artifacts = tables.artifacts \cup job.drafts
              /\ job.written.usage = tables.usage \cup UsageEvents(job.drafts)
              /\ job.written.claims = tables.claims

TablesInv ==
    /\ \A u \in tables.usage : u.skill \in snapshots /\ \E a \in tables.artifacts : a.id = u.artifact
    /\ \A c \in tables.claims : \E a \in tables.artifacts : a.id = c.artifact
    /\ \A a, b \in tables.artifacts : a.id = b.id => a = b
    /\ \A a \in tables.artifacts : a.id \in 1..minted
    /\ \A a \in tables.artifacts :
          Sourced(a) /\ Grounded(a, ClaimsOf(tables.claims, a)) /\ Vetted(a, ClaimsOf(tables.claims, a))

IInv == JobShape /\ SkillsInv /\ CacheInv /\ CallsInv /\ BooksInv /\ DraftsInv /\ TablesInv

-----------------------------------------------------------------------------
(* The types in their order *)

\* Every type has one place in the order.
LEMMA PlaceIs ==
    ASSUME NEW t \in ArtifactTypes
    PROVE  Place(t) \in 1..10 /\ TypeOrder[Place(t)] = t
<1>1. DOMAIN TypeOrder = 1..10
  BY DEF TypeOrder
<1>2. \E i \in DOMAIN TypeOrder : TypeOrder[i] = t
  BY DEF TypeOrder, ArtifactTypes, FormatSkill
<1>. QED
  BY <1>1, <1>2 DEF Place

LEMMA TypesAreFinite ==
    ASSUME NEW types, types \subseteq ArtifactTypes
    PROVE  IsFiniteSet(types)
<1>. DEFINE place == [t \in types |-> Place(t)]
<1>1. place \in Injection(types, 1..10)
  BY PlaceIs DEF Injection, IsInjective
<1>2. IsFiniteSet(1..10)
  <2>1. \A a, b \in Int : IsFiniteSet(a..b)
    BY FS_Interval
  <2>2. 1 \in Int /\ 10 \in Int
    OBVIOUS
  <2>. QED
    BY <2>1, <2>2, Zenon
<1>. QED
  BY <1>1, <1>2, FS_Injection

\* The ids of a job's artifacts are consecutive, and no two of them equal.
LEMMA RankIs ==
    ASSUME NEW types, types \subseteq ArtifactTypes
    PROVE  /\ Cardinality(types) \in Nat
           /\ \A t \in types : Rank(t, types) \in Nat /\ Rank(t, types) < Cardinality(types)
           /\ \A t, u \in types : Rank(t, types) = Rank(u, types) => t = u
<1>. DEFINE Before(t) == {u \in types : Place(u) < Place(t)}
<1>1. \A S \in SUBSET types : IsFiniteSet(S) /\ Cardinality(S) \in Nat
  BY TypesAreFinite, FS_CardinalityType
<1>2. \A S, T \in SUBSET types : S \subseteq T /\ S # T => Cardinality(S) < Cardinality(T)
  BY <1>1, FS_Subset
<1>3. \A t \in types : Place(t) \in Nat
  BY PlaceIs
<1>4. \A t \in types : Before(t) \in SUBSET types /\ Before(t) # types
  BY <1>3
<1>5. ASSUME NEW t \in types, NEW u \in types, Place(t) < Place(u)
      PROVE  Cardinality(Before(t)) < Cardinality(Before(u))
  <2>1. Before(t) \subseteq Before(u) /\ t \in Before(u) /\ t \notin Before(t)
    BY <1>3, <1>5
  <2>2. Before(t) # Before(u)
    BY <2>1
  <2>. HIDE DEF Before
  <2>. QED
    BY <1>2, <1>4, <2>1, <2>2
<1>6. \A t, u \in types : t # u => Place(t) < Place(u) \/ Place(u) < Place(t)
  BY PlaceIs
<1>7. \A t \in types : Rank(t, types) = Cardinality(Before(t))
  BY DEF Rank
<1>. HIDE DEF Before
<1>8. \A t, u \in types : t # u => Cardinality(Before(t)) # Cardinality(Before(u))
  BY <1>1, <1>4, <1>5, <1>6
<1>. QED
  BY <1>1, <1>2, <1>4, <1>7, <1>8

-----------------------------------------------------------------------------
(* Keys, and what was asked under them *)

LEMMA KeysSay ==
    ASSUME NEW p, NEW q, NEW id, NEW body
    PROVE  /\ GenerationKey(p)[1] = "generate" /\ GenerationKey(p)[2] = p.type
           /\ GenerationKey(p) = GenerationKey(q) =>
                 /\ p.type = q.type
                 /\ {<< f.id, f.title >> : f \in p.features} = {<< f.id, f.title >> : f \in q.features}
                 /\ {s.hash : s \in p.skills} = {s.hash : s \in q.skills}
           /\ ExtractionKey(id, body)[1] = "extract" /\ ExtractionKey(id, body)[2] = id
<1>. DEFINE Pairs(r) == {<< f.id, f.title >> : f \in r.features}
            Hashes(r) == {s.hash : s \in r.skills}
<1>1. \A r : GenerationKey(r) = << "generate", r.type, Pairs(r), Hashes(r), r.voice >>
  BY DEF GenerationKey
<1>2. ExtractionKey(id, body) = << "extract", id, body >>
  BY DEF ExtractionKey
<1>. HIDE DEF Pairs, Hashes
<1>3. /\ GenerationKey(p)[1] = "generate" /\ GenerationKey(p)[2] = p.type
      /\ GenerationKey(p) = GenerationKey(q) =>
            p.type = q.type /\ Pairs(p) = Pairs(q) /\ Hashes(p) = Hashes(q)
  BY <1>1
<1>. QED
  BY <1>2, <1>3 DEF Pairs, Hashes

\* Skills with the same hashes are the same.
LEMMA SameSkills ==
    ASSUME SkillsInv, NEW S, S \subseteq snapshots, NEW T, T \subseteq snapshots,
           {s.hash : s \in S} = {s.hash : s \in T}
    PROVE  S = T
<1>1. \A s, r \in snapshots : s.hash = r.hash => s = r
  BY DEF SkillsInv
<1>2. ASSUME NEW s \in S PROVE s \in T
  <2>1. PICK r \in T : r.hash = s.hash
    OBVIOUS
  <2>. QED
    BY <1>1, <2>1
<1>3. ASSUME NEW r \in T PROVE r \in S
  <2>1. PICK s \in S : s.hash = r.hash
    OBVIOUS
  <2>. QED
    BY <1>1, <2>1
<1>. QED
  BY <1>2, <1>3

\* A later snapshot changes nothing of what a key tells.
LEMMA TellsStill ==
    ASSUME snapshots \subseteq snapshots', NEW k, NEW answer, KeyTells(k, answer)
    PROVE  KeyTells(k, answer)'
BY DEF KeyTells

LEMMA MoreIs ==
    ASSUME NEW bag, NEW keys, \A k \in DOMAIN bag : bag[k] \in Nat
    PROVE  /\ \A k \in DOMAIN More(bag, keys) : More(bag, keys)[k] \in Nat
           /\ \A k : Count(More(bag, keys), k) = Count(bag, k) + IF k \in keys THEN 1 ELSE 0
           /\ \A k : Count(bag, k) \in Nat
BY DEF More, Count

-----------------------------------------------------------------------------
(* The initial states *)

LEMMA NoJobIs ==
    /\ DOMAIN NoJob = JobFields /\ NoJob.at = "none" /\ NoJob.l1 = << >> /\ NoJob.calls = << >>
BY DEF NoJob, Fresh, JobFields

LEMMA FreshIs ==
    ASSUME NEW l1, NEW spent, NEW attempt
    PROVE  /\ DOMAIN Fresh(l1, spent, attempt) = JobFields /\ Fresh(l1, spent, attempt).at = "load"
           /\ Fresh(l1, spent, attempt).l1 = l1 /\ Fresh(l1, spent, attempt).calls = << >>
BY DEF Fresh, JobFields

LEMMA InitIInv ==
    Init => IInv
<1>. SUFFICES ASSUME Init PROVE IInv
  OBVIOUS
<1>. USE DEF Init
<1>0. /\ DOMAIN job = JobFields /\ job.at = "none" /\ DOMAIN job.l1 = {} /\ DOMAIN job.calls = {}
      /\ DOMAIN cache = {} /\ DOMAIN bills = {} /\ DOMAIN lost = {}
  BY NoJobIs
<1>1. JobShape
  BY <1>0 DEF JobShape, Planned, Drafted, Extracted, Linked, Checked, Storing, TableFields
<1>2. SkillsInv
  BY ContentGenerationAssumption DEF SkillsInv
<1>3. CacheInv
  BY <1>0 DEF CacheInv
<1>4. CallsInv
  BY <1>0 DEF CallsInv
<1>5. BooksInv
  BY <1>0 DEF BooksInv, Count
<1>6. DraftsInv
  BY <1>0 DEF DraftsInv, Drafted, Extracted, Linked, Checked, Storing
<1>7. TablesInv
  BY DEF TablesInv
<1>. QED
  BY <1>1, <1>2, <1>3, <1>4, <1>5, <1>6, <1>7 DEF IInv

-----------------------------------------------------------------------------
(* Steps of others, and the end of a job *)

LEMMA ReviewFeatureIInv ==
    IInv /\ (\E f \in DOMAIN features : ReviewFeature(f)) => IInv'
<1>. SUFFICES ASSUME IInv, NEW f \in DOMAIN features, ReviewFeature(f) PROVE IInv'
  OBVIOUS
<1>1. UNCHANGED << skills, snapshots, cache, tables, job, minted, bills, lost >>
  BY DEF ReviewFeature, history
<1>. QED
  BY <1>1 DEF IInv, JobShape, SkillsInv, CacheInv, KeyTells, CallsInv, CallInv, BooksInv, Flying,
              InFlight, DraftsInv, DraftInv, TablesInv

LEMMA EditSkillIInv ==
    IInv /\ (\E s \in skills : EditSkill(s)) => IInv'
<1>. SUFFICES ASSUME IInv, NEW s \in skills, EditSkill(s) PROVE IInv'
  OBVIOUS
<1>1. UNCHANGED << snapshots, cache, tables, job, minted, bills, lost >>
  BY DEF EditSkill, history
<1>2. SkillsInv'
  <2>1. s = [name |-> s.hash[1], hash |-> s.hash]
    BY DEF IInv, SkillsInv
  <2>. DEFINE new == [s EXCEPT !.hash = << s.name, @[2] + 1 >>]
  <2>2. new = [name |-> s.name, hash |-> << s.name, s.hash[2] + 1 >>]
    BY <2>1
  <2>3. new = [name |-> new.hash[1], hash |-> new.hash]
    BY <2>2
  <2>4. skills' = (skills \ {s}) \cup {new}
    BY DEF EditSkill
  <2>. HIDE DEF new
  <2>. QED
    BY <1>1, <2>3, <2>4 DEF IInv, SkillsInv
<1>. QED
  BY <1>1, <1>2 DEF IInv, JobShape, CacheInv, KeyTells, CallsInv, CallInv, BooksInv, Flying,
              InFlight, DraftsInv, DraftInv, TablesInv

LEMMA SweepIInv ==
    IInv /\ (\E key \in DOMAIN cache : Sweep(key)) => IInv'
<1>. SUFFICES ASSUME IInv, NEW key \in DOMAIN cache, Sweep(key) PROVE IInv'
  OBVIOUS
<1>1. /\ UNCHANGED << skills, snapshots, tables, job, minted, bills >>
      /\ DOMAIN cache' = DOMAIN cache \ {key} /\ \A k \in DOMAIN cache' : cache'[k] = cache[k]
      /\ lost' = More(lost, {key})
  BY DEF Sweep, settings
<1>2. JobShape' /\ SkillsInv' /\ DraftsInv' /\ TablesInv'
  BY <1>1 DEF IInv, JobShape, SkillsInv, DraftsInv, DraftInv, TablesInv
<1>3. CacheInv'
  BY <1>1 DEF IInv, CacheInv, KeyTells
<1>4. CallsInv'
  BY <1>1 DEF IInv, CallsInv, CallInv, KeyTells
<1>5. BooksInv'
  <2>1. BooksInv /\ Flying' = Flying
    BY <1>1 DEF IInv, Flying, InFlight
  <2>2. /\ \A k \in DOMAIN lost' : lost'[k] \in Nat
        /\ \A k : Count(lost', k) = Count(lost, k) + IF k \in {key} THEN 1 ELSE 0
        /\ \A k : Count(lost, k) \in Nat /\ Count(bills, k) \in Nat
    BY <1>1, <2>1, MoreIs DEF BooksInv
  <2>. QED
    BY <1>1, <2>1, <2>2 DEF BooksInv
<1>. QED
  BY <1>2, <1>3, <1>4, <1>5 DEF IInv

\* The process is at its start, or gone: what it kept in L1 may be kept on, and
\* the answers on their way are lost.
LEMMA JobOver ==
    ASSUME IInv, UNCHANGED << skills, snapshots, cache, minted, bills >>,
           DOMAIN job' = JobFields, job'.at \in {"none", "load"}, DOMAIN job'.calls = {},
           \A k \in DOMAIN job'.l1 : k \in DOMAIN job.l1 /\ job'.l1[k] = job.l1[k],
           (lost' = More(lost, Flying)) \/ (Flying = {} /\ lost' = lost),
           DOMAIN tables' = TableFields, TablesInv'
    PROVE  IInv'
<1>1. JobShape'
  BY DEF IInv, JobShape, Planned, Drafted, Extracted, Linked, Checked, Storing
<1>2. SkillsInv'
  BY DEF IInv, SkillsInv
<1>3. CacheInv'
  BY DEF IInv, CacheInv, KeyTells
<1>4. CallsInv'
  BY DEF CallsInv
<1>5. BooksInv'
  <2>1. BooksInv /\ Flying' = {}
    BY DEF IInv, Flying, InFlight
  <2>2. CASE lost' = More(lost, Flying)
    <3>1. /\ \A k \in DOMAIN lost' : lost'[k] \in Nat
          /\ \A k : Count(lost', k) = Count(lost, k) + IF k \in Flying THEN 1 ELSE 0
          /\ \A k : Count(lost, k) \in Nat /\ Count(bills, k) \in Nat
      BY <2>1, <2>2, MoreIs DEF BooksInv
    <3>. QED
      BY <2>1, <3>1 DEF BooksInv
  <2>3. CASE Flying = {} /\ lost' = lost
    BY <2>1, <2>3 DEF BooksInv
  <2>. QED
    BY <2>2, <2>3
<1>6. DraftsInv'
  BY DEF DraftsInv, Drafted, Extracted, Linked, Checked, Storing
<1>. QED
  BY <1>1, <1>2, <1>3, <1>4, <1>5, <1>6 DEF IInv

LEMMA TablesKept ==
    ASSUME IInv, UNCHANGED << snapshots, tables, minted >>
    PROVE  TablesInv' /\ DOMAIN tables' = TableFields
BY DEF IInv, TablesInv, JobShape

LEMMA EndIInv ==
    ASSUME IInv, End, UNCHANGED << skills, snapshots, cache, minted, bills >>,
           DOMAIN tables' = TableFields, TablesInv'
    PROVE  IInv'
<1>1. job' = NoJob /\ lost' = More(lost, Flying)
  BY DEF End, Flying
<1>2. /\ DOMAIN job' = JobFields /\ job'.at \in {"none", "load"} /\ DOMAIN job'.calls = {}
      /\ DOMAIN job'.l1 = {}
  BY <1>1, NoJobIs
<1>. QED
  BY <1>1, <1>2, JobOver

LEMMA FailTransientlyIInv ==
    ASSUME IInv, FailTransiently, Flying = {},
           UNCHANGED << skills, snapshots, cache, tables, minted, bills >>
    PROVE  IInv'
<1>0. TablesInv' /\ DOMAIN tables' = TableFields
  BY TablesKept
<1>1. CASE End
  BY <1>0, <1>1, EndIInv
<1>2. CASE job' = Fresh(job.l1, job.spent, job.attempt + 1) /\ UNCHANGED lost
  <2>1. /\ DOMAIN job' = JobFields /\ job'.at \in {"none", "load"} /\ DOMAIN job'.calls = {}
        /\ job'.l1 = job.l1
    BY <1>2, FreshIs
  <2>. QED
    BY <1>0, <1>2, <2>1, JobOver
<1>. QED
  BY <1>1, <1>2 DEF FailTransiently

LEMMA StartJobIInv ==
    IInv /\ StartJob => IInv'
<1>. SUFFICES ASSUME IInv, StartJob PROVE IInv'
  OBVIOUS
<1>1. UNCHANGED << skills, snapshots, cache, tables, minted, bills, lost >> /\ job' = Fresh(<< >>, 0, 1)
  BY DEF StartJob, settings, history
<1>2. /\ DOMAIN job' = JobFields /\ job'.at \in {"none", "load"} /\ DOMAIN job'.calls = {}
      /\ DOMAIN job'.l1 = {}
  BY <1>1, FreshIs
<1>3. Flying = {}
  <2>1. job.at = "none" /\ DOMAIN job.calls = {}
    BY DEF StartJob, In, IInv, JobShape
  <2>. QED
    BY <2>1 DEF Flying, InFlight
<1>. QED
  BY <1>1, <1>2, <1>3, TablesKept, JobOver

LEMMA KillIInv ==
    IInv /\ Kill => IInv'
<1>. SUFFICES ASSUME IInv, Kill PROVE IInv'
  OBVIOUS
<1>1. UNCHANGED << skills, snapshots, cache, tables, minted, bills >> /\ End
  BY DEF Kill, settings
<1>. QED
  BY <1>1, TablesKept, EndIInv

LEMMA NodeFailsIInv ==
    IInv /\ NodeFails => IInv'
<1>. SUFFICES ASSUME IInv, NodeFails PROVE IInv'
  OBVIOUS
<1>1. UNCHANGED << skills, snapshots, cache, tables, minted, bills >> /\ FailTransiently
  BY DEF NodeFails, settings
<1>2. Flying = {}
  <2>1. job.at = "check" /\ DOMAIN job.calls = {}
    BY DEF NodeFails, In, IInv, JobShape
  <2>. QED
    BY <2>1 DEF Flying, InFlight
<1>. QED
  BY <1>1, <1>2, FailTransientlyIInv

LEMMA CallsFailIInv ==
    IInv /\ CallsFail => IInv'
<1>. SUFFICES ASSUME IInv, CallsFail PROVE IInv'
  OBVIOUS
<1>1. UNCHANGED << skills, snapshots, cache, tables, minted, bills >> /\ (FailTransiently \/ End)
  BY DEF CallsFail, settings
<1>2. Flying = {}
  BY DEF CallsFail, Settled, Flying, InFlight
<1>. QED
  BY <1>1, <1>2, TablesKept, EndIInv, FailTransientlyIInv

LEMMA LoadApprovedFeaturesIInv ==
    IInv /\ LoadApprovedFeatures => IInv'
<1>. SUFFICES ASSUME IInv, LoadApprovedFeatures PROVE IInv'
  OBVIOUS
<1>0. UNCHANGED << skills, snapshots, cache, tables, minted, bills >> /\ job.at = "load"
  BY DEF LoadApprovedFeatures, settings, In
<1>1. CASE End
  BY <1>0, <1>1, TablesKept, EndIInv
<1>2. CASE job' = [job EXCEPT !.at = "snapshot", !.features = Approved] /\ UNCHANGED lost
  <2>0. DOMAIN job = JobFields /\ DOMAIN job.calls = {}
    BY <1>0 DEF IInv, JobShape
  <2>1. DOMAIN job' = JobFields /\ job'.at = "snapshot" /\ job'.calls = job.calls /\ job'.l1 = job.l1
    BY <1>2, <2>0 DEF JobFields
  <2>2. JobShape'
    BY <1>0, <2>0, <2>1 DEF IInv, JobShape, Planned, Drafted, Extracted, Linked, Checked, Storing
  <2>3. SkillsInv' /\ TablesInv'
    BY <1>0 DEF IInv, SkillsInv, TablesInv
  <2>4. CacheInv'
    BY <1>0, <2>1 DEF IInv, CacheInv, KeyTells
  <2>5. CallsInv'
    BY <2>0, <2>1 DEF CallsInv
  <2>6. BooksInv'
    BY <1>0, <1>2, <2>0, <2>1 DEF IInv, BooksInv, Flying, InFlight
  <2>7. DraftsInv'
    BY <2>1 DEF DraftsInv, Drafted, Extracted, Linked, Checked, Storing
  <2>. QED
    BY <2>2, <2>3, <2>4, <2>5, <2>6, <2>7 DEF IInv
<1>. QED
  BY <1>1, <1>2 DEF LoadApprovedFeatures

-----------------------------------------------------------------------------
(* What the job loads and plans *)

LEMMA SnapshotActiveSkillsIInv ==
    IInv /\ SnapshotActiveSkills => IInv'
<1>. SUFFICES ASSUME IInv, SnapshotActiveSkills PROVE IInv'
  OBVIOUS
<1>0. /\ UNCHANGED << skills, cache, tables, minted, bills, lost >>
      /\ job.at = "snapshot" /\ snapshots' = snapshots \cup skills
  BY DEF SnapshotActiveSkills, settings, history, In, Snapshotted
<1>1. DOMAIN job = JobFields /\ DOMAIN job.calls = {}
  BY <1>0 DEF IInv, JobShape
<1>2. /\ DOMAIN job' = JobFields /\ job'.at = "plan" /\ job'.skills = skills
      /\ job'.calls = job.calls /\ job'.l1 = job.l1
  BY <1>1 DEF SnapshotActiveSkills, JobFields
<1>3. JobShape'
  BY <1>0, <1>1, <1>2 DEF IInv, JobShape, Planned, Drafted, Extracted, Linked, Checked, Storing
<1>4. SkillsInv'
  BY <1>0 DEF IInv, SkillsInv
<1>5. CacheInv'
  BY <1>0, <1>2, TellsStill DEF IInv, CacheInv
<1>6. CallsInv'
  BY <1>1, <1>2 DEF CallsInv
<1>7. BooksInv'
  BY <1>0, <1>1, <1>2 DEF IInv, BooksInv, Flying, InFlight
<1>8. DraftsInv'
  BY <1>2 DEF DraftsInv, Drafted, Extracted, Linked, Checked, Storing
<1>9. TablesInv'
  BY <1>0 DEF IInv, TablesInv
<1>. QED
  BY <1>3, <1>4, <1>5, <1>6, <1>7, <1>8, <1>9 DEF IInv

LEMMA PlanGenerationIInv ==
    IInv /\ In("plan") /\ (\E v \in Voices : PlanGeneration(v)) => IInv'
<1>. SUFFICES ASSUME IInv, NEW v \in Voices, PlanGeneration(v) PROVE IInv'
  OBVIOUS
<1>. DEFINE types == GateArtifactTypes(Selected, Agents)
            PromptOf(t) == Prompt(t, job.features, SkillsForSpec(t, job.skills, Capabilities), v)
            calls == [t \in types |->
                        Call(GenerationKey(PromptOf(t)), PromptOf(t), minted + 1 + Rank(t, types))]
<1>0. /\ UNCHANGED << skills, snapshots, cache, tables, bills, lost >>
      /\ job.at = "plan" /\ minted' = minted + Cardinality(types)
      /\ job' = [job EXCEPT !.at = "generate", !.calls = calls]
  BY DEF PlanGeneration, settings, history, In
<1>1. DOMAIN job = JobFields /\ DOMAIN job.calls = {} /\ minted \in Nat
  BY <1>0 DEF IInv, JobShape
<1>2. types \subseteq ArtifactTypes
  BY ContentGenerationAssumption DEF GateArtifactTypes, ValidSelection
<1>3. /\ Cardinality(types) \in Nat
      /\ \A t \in types : Rank(t, types) \in Nat /\ Rank(t, types) < Cardinality(types)
      /\ \A t, u \in types : Rank(t, types) = Rank(u, types) => t = u
  <2>. HIDE DEF types
  <2>. QED
    BY <1>2, RankIs
<1>4. ASSUME NEW t \in types
      PROVE  /\ calls[t].key = GenerationKey(PromptOf(t)) /\ calls[t].prompt = PromptOf(t)
             /\ calls[t].phase = "ready" /\ DOMAIN calls[t] = CallFields
             /\ calls[t].id = minted + 1 + Rank(t, types)
             /\ PromptOf(t).type = t /\ PromptOf(t).features = job.features
             /\ PromptOf(t).skills = SkillsForSpec(t, job.skills, Capabilities)
  BY DEF Call, CallFields, Prompt
<1>5. DOMAIN calls = types
  OBVIOUS
<1>. HIDE DEF types, calls, PromptOf
<1>6. /\ DOMAIN job' = JobFields /\ job'.at = "generate" /\ job'.calls = calls
      /\ job'.l1 = job.l1 /\ job'.features = job.features /\ job'.skills = job.skills
  BY <1>0, <1>1 DEF JobFields
<1>7. JobShape'
  BY <1>0, <1>1, <1>3, <1>6 DEF IInv, JobShape, Planned, Drafted, Extracted, Linked, Checked, Storing
<1>8. SkillsInv'
  BY <1>0 DEF IInv, SkillsInv
<1>9. CacheInv'
  BY <1>0, <1>6, TellsStill DEF IInv, CacheInv
<1>10. CallsInv'
  <2>1. ASSUME NEW t \in types PROVE CallInv(t)'
    <3>1. calls[t].id \in 1..minted' /\ calls[t].id > minted
      BY <1>0, <1>1, <1>3, <1>4
    <3>2. \A a \in tables'.artifacts : a.id # calls[t].id
      BY <1>0, <1>1, <3>1 DEF IInv, TablesInv
    <3>. QED
      BY <1>4, <1>6, <3>1, <3>2 DEF CallInv
  <2>2. \A t, u \in types : calls[t].id = calls[u].id => t = u
    BY <1>1, <1>3, <1>4
  <2>. QED
    BY <1>5, <1>6, <2>1, <2>2 DEF CallsInv
<1>11. BooksInv'
  <2>1. Flying = {} /\ Flying' = {}
    BY <1>1, <1>4, <1>5, <1>6 DEF Flying, InFlight
  <2>. QED
    BY <1>0, <2>1 DEF IInv, BooksInv
<1>12. DraftsInv'
  BY <1>6 DEF DraftsInv, Drafted, Extracted, Linked, Checked, Storing
<1>13. TablesInv'
  <2>1. \A i \in 1..minted : i \in 1..minted'
    BY <1>0, <1>1, <1>3
  <2>. QED
    BY <1>0, <2>1 DEF IInv, TablesInv
<1>. QED
  BY <1>7, <1>8, <1>9, <1>10, <1>11, <1>12, <1>13 DEF IInv

-----------------------------------------------------------------------------
(* The threads *)

\* Two calls of a node have two keys.
LEMMA KeysDiffer ==
    ASSUME IInv, InCalls, NEW t \in DOMAIN job.calls, NEW u \in DOMAIN job.calls,
           job.calls[t].key = job.calls[u].key
    PROVE  t = u
<1>1. CallInv(t) /\ CallInv(u) /\ (job.calls[t].id = job.calls[u].id => t = u)
  BY DEF IInv, CallsInv
<1>2. CASE job.at = "generate"
  <2>1. job.calls[t].key[2] = t /\ job.calls[u].key[2] = u
    BY <1>1, <1>2, KeysSay DEF CallInv
  <2>. QED
    BY <2>1
<1>3. CASE job.at = "extract"
  BY <1>1, <1>3 DEF CallInv
<1>. QED
  BY <1>2, <1>3 DEF InCalls, In

\* A thread's step on its own call: what it leaves alone, and what is left to
\* show of the call and of the caches.
Threads(t) ==
    /\ UNCHANGED << skills, snapshots, tables, minted >>
    /\ DOMAIN job' = JobFields /\ DOMAIN job'.calls = DOMAIN job.calls
    /\ job'.at = job.at /\ job'.features = job.features /\ job'.skills = job.skills
    /\ job'.drafts = job.drafts /\ job'.claims = job.claims /\ job'.written = job.written
    /\ \A u \in DOMAIN job.calls : u # t => job'.calls[u] = job.calls[u]
    /\ DOMAIN job'.calls[t] = CallFields
    /\ job'.calls[t].key = job.calls[t].key /\ job'.calls[t].id = job.calls[t].id
    /\ job'.calls[t].prompt = job.calls[t].prompt

LEMMA ThreadIInv ==
    ASSUME IInv, InCalls, NEW t \in DOMAIN job.calls, Threads(t),
           job'.calls[t].phase \in {"ready", "missed", "answered", "done", "failed"},
           job'.calls[t].phase \in {"missed", "answered"} => job.calls[t].key \notin DOMAIN cache',
           job'.calls[t].phase = "answered" =>
               job'.calls[t].answer.kind = "text" \/ KeyTells(job.calls[t].key, job'.calls[t].answer),
           job'.calls[t].phase = "done" => KeyTells(job.calls[t].key, job'.calls[t].answer),
           job'.calls[t].phase = "failed" => job'.calls[t].error \in {"transient", "budget", "format"},
           DOMAIN cache' \subseteq DOMAIN cache \cup {job.calls[t].key},
           CacheInv', BooksInv'
    PROVE  IInv'
<1>. USE DEF Threads
<1>1. JobShape'
  BY DEF IInv, JobShape
<1>2. SkillsInv' /\ TablesInv'
  BY DEF IInv, SkillsInv, TablesInv
<1>3. CallsInv'
  <2>1. CallsInv
    BY DEF IInv
  <2>2. \A k, a : KeyTells(k, a) => KeyTells(k, a)'
    BY TellsStill
  <2>3. CallInv(t)'
    BY <2>1, <2>2 DEF CallsInv, CallInv
  <2>4. ASSUME NEW u \in DOMAIN job.calls, u # t PROVE CallInv(u)'
    <3>1. CallInv(u) /\ job'.calls[u] = job.calls[u]
      BY <2>1, <2>4 DEF CallsInv
    <3>2. job.calls[u].key # job.calls[t].key
      BY <2>4, KeysDiffer
    <3>3. job.calls[u].key \in DOMAIN cache' => job.calls[u].key \in DOMAIN cache
      BY <3>2
    <3>. QED
      BY <2>2, <3>1, <3>3 DEF CallInv
  <2>. QED
    BY <2>1, <2>3, <2>4 DEF CallsInv
<1>4. DraftsInv'
  BY DEF IInv, DraftsInv, DraftInv
<1>. QED
  BY <1>1, <1>2, <1>3, <1>4 DEF IInv

LEMMA LookUpIInv ==
    ASSUME IInv, InCalls, NEW t \in DOMAIN job.calls, LookUp(t)
    PROVE  IInv'
<1>. DEFINE call == job.calls[t]
<1>0. /\ UNCHANGED << skills, snapshots, cache, tables, minted, bills, lost >>
      /\ call.phase = "ready"
  BY DEF LookUp, settings, history
<1>1. DOMAIN job = JobFields /\ CallInv(t) /\ DOMAIN call = CallFields
  BY DEF IInv, JobShape, CallsInv, CallInv
<1>2. CASE Kept(call.key) = {} /\ job' = [job EXCEPT !.calls[t].phase = "missed"]
  <2>1. Threads(t) /\ job'.l1 = job.l1 /\ job'.calls[t].phase = "missed"
    BY <1>0, <1>1, <1>2 DEF Threads, JobFields, CallFields
  <2>2. call.key \notin DOMAIN cache'
    BY <1>0, <1>2 DEF Kept
  <2>3. CacheInv'
    BY <1>0, <2>1 DEF IInv, CacheInv, KeyTells
  <2>4. Flying' = Flying
    BY <1>0, <2>1 DEF Flying, InFlight, Threads
  <2>5. BooksInv'
    BY <1>0, <2>4 DEF IInv, BooksInv
  <2>. QED
    BY <1>0, <2>1, <2>2, <2>3, <2>5, ThreadIInv
<1>3. ASSUME NEW answer \in Kept(call.key), job' = Settle(t, answer)
      PROVE  IInv'
  <2>1. /\ Threads(t) /\ job'.calls[t].phase = "done" /\ job'.calls[t].answer = answer
        /\ job'.l1 = With(job.l1, call.key, answer)
    BY <1>0, <1>1, <1>3 DEF Threads, JobFields, CallFields, Settle
  <2>2. /\ KeyTells(call.key, answer)
        /\ call.key \in DOMAIN cache => answer = cache[call.key]
    BY <1>3 DEF Kept, IInv, CacheInv
  <2>3. CacheInv'
    BY <1>0, <2>1, <2>2, TellsStill DEF IInv, CacheInv, With, Threads
  <2>4. Flying' = Flying
    BY <1>0, <2>1 DEF Flying, InFlight, Threads
  <2>5. BooksInv'
    BY <1>0, <2>4 DEF IInv, BooksInv
  <2>. QED
    BY <1>0, <2>1, <2>2, <2>3, <2>5, ThreadIInv
<1>. QED
  BY <1>2, <1>3 DEF LookUp

\* An answer was asked for under the key of its call.
LEMMA AnswersTell ==
    ASSUME IInv, InCalls, NEW t \in DOMAIN job.calls, NEW a \in Answers(t)
    PROVE  a.kind = "text" \/ KeyTells(job.calls[t].key, a)
<1>1. CallInv(t) /\ JobShape
  BY DEF IInv, CallsInv
<1>2. CASE job.at = "generate"
  <2>1. /\ job.calls[t].key = GenerationKey(job.calls[t].prompt)
        /\ job.calls[t].prompt.skills \subseteq snapshots
    BY <1>1, <1>2 DEF CallInv, JobShape, SkillsForSpec, Planned
  <2>2. a.prompt = job.calls[t].prompt /\ a.kind \in {"text", "malformed", "object"}
    BY <1>2 DEF Answers, In
  <2>3. job.calls[t].key[1] = "generate"
    BY <2>1, KeysSay
  <2>. QED
    BY <2>1, <2>2, <2>3 DEF KeyTells
<1>3. CASE job.at = "extract"
  <2>1. job.calls[t].key[1] = "extract"
    BY <1>1, <1>3 DEF CallInv
  <2>2. /\ a.kind \in {"text", "malformed", "object"}
        /\ a.kind = "object" => a.claims \in ClaimSets
    BY <1>3 DEF Answers, In
  <2>. QED
    BY <2>1, <2>2 DEF KeyTells
<1>. QED
  BY <1>2, <1>3 DEF InCalls, In

\* What a call adds to the books.
LEMMA BilledBooks ==
    ASSUME IInv, NEW key, key \notin DOMAIN cache, key \notin Flying,
           bills' = More(bills, {key}), cache' = cache,
           \/ lost' = More(lost, {key}) /\ Flying' = Flying
           \/ lost' = lost /\ Flying' = Flying \cup {key}
    PROVE  BooksInv'
<1>0. BooksInv
  BY DEF IInv
<1>1. /\ \A k \in DOMAIN bills' : bills'[k] \in Nat
      /\ \A k : Count(bills', k) = Count(bills, k) + IF k \in {key} THEN 1 ELSE 0
      /\ \A k : Count(lost, k) \in Nat /\ Count(bills, k) \in Nat
  BY <1>0, MoreIs DEF BooksInv
<1>2. CASE lost' = More(lost, {key}) /\ Flying' = Flying
  <2>1. /\ \A k \in DOMAIN lost' : lost'[k] \in Nat
        /\ \A k : Count(lost', k) = Count(lost, k) + IF k \in {key} THEN 1 ELSE 0
    BY <1>0, <1>2, MoreIs DEF BooksInv
  <2>. QED
    BY <1>0, <1>1, <1>2, <2>1 DEF BooksInv
<1>3. CASE lost' = lost /\ Flying' = Flying \cup {key}
  BY <1>0, <1>1, <1>3 DEF BooksInv
<1>. QED
  BY <1>2, <1>3

LEMMA ConverseIInv ==
    ASSUME IInv, InCalls, NEW t \in DOMAIN job.calls, NEW a \in Answers(t), NEW n \in Sizes,
           Converse(t, a, n)
    PROVE  IInv'
<1>. DEFINE call == job.calls[t]
            charged == [job EXCEPT !.spent = Charged(job.spent, n)]
<1>0. /\ UNCHANGED << skills, snapshots, cache, tables, minted >>
      /\ call.phase = "missed" /\ bills' = More(bills, {call.key})
  BY DEF Converse, settings, Metered
<1>1. /\ DOMAIN job = JobFields /\ CallInv(t) /\ DOMAIN call = CallFields
      /\ call.key \notin DOMAIN cache
  BY <1>0 DEF IInv, JobShape, CallsInv, CallInv
<1>2. call.key \notin Flying
  BY <1>0, KeysDiffer DEF Flying, InFlight
<1>3. CASE job' = Failed(charged, t, "budget") /\ lost' = More(lost, {call.key})
  <2>1. /\ Threads(t) /\ job'.l1 = job.l1 /\ job'.calls[t].phase = "failed"
        /\ job'.calls[t].error = "budget"
    BY <1>0, <1>1, <1>3 DEF Threads, JobFields, CallFields, Failed
  <2>2. Flying' = Flying
    BY <1>0, <2>1 DEF Flying, InFlight, Threads
  <2>3. BooksInv'
    BY <1>0, <1>1, <1>2, <1>3, <2>2, BilledBooks
  <2>4. CacheInv'
    BY <1>0, <2>1 DEF IInv, CacheInv, KeyTells
  <2>. QED
    BY <1>0, <2>1, <2>3, <2>4, ThreadIInv
<1>4. CASE /\ job' = [charged EXCEPT !.calls[t].phase = "answered", !.calls[t].answer = a]
           /\ lost' = lost
  <2>1. /\ Threads(t) /\ job'.l1 = job.l1 /\ job'.calls[t].phase = "answered"
        /\ job'.calls[t].answer = a
    BY <1>0, <1>1, <1>4 DEF Threads, JobFields, CallFields
  <2>2. Flying' = Flying \cup {call.key}
    BY <1>0, <2>1 DEF Flying, InFlight, Threads
  <2>3. BooksInv'
    BY <1>0, <1>1, <1>2, <1>4, <2>2, BilledBooks
  <2>4. CacheInv'
    BY <1>0, <2>1 DEF IInv, CacheInv, KeyTells
  <2>5. a.kind = "text" \/ KeyTells(call.key, a)
    BY AnswersTell
  <2>. QED
    BY <1>0, <1>1, <2>1, <2>3, <2>4, <2>5, ThreadIInv
<1>. QED
  BY <1>3, <1>4 DEF Converse

LEMMA ConverseFailsIInv ==
    ASSUME IInv, InCalls, NEW t \in DOMAIN job.calls, ConverseFails(t)
    PROVE  IInv'
<1>0. /\ UNCHANGED << skills, snapshots, cache, tables, minted, bills, lost >>
      /\ job.calls[t].phase = "missed" /\ job' = Failed(job, t, "transient")
  BY DEF ConverseFails, settings, history
<1>1. DOMAIN job = JobFields /\ DOMAIN job.calls[t] = CallFields
  BY DEF IInv, JobShape, CallsInv, CallInv
<1>2. /\ Threads(t) /\ job'.l1 = job.l1 /\ job'.calls[t].phase = "failed"
      /\ job'.calls[t].error = "transient"
  BY <1>0, <1>1 DEF Threads, JobFields, CallFields, Failed
<1>3. Flying' = Flying
  BY <1>0, <1>2 DEF Flying, InFlight, Threads
<1>4. BooksInv' /\ CacheInv'
  BY <1>0, <1>2, <1>3 DEF IInv, BooksInv, CacheInv, KeyTells
<1>. QED
  BY <1>0, <1>2, <1>4, ThreadIInv

LEMMA KeepIInv ==
    ASSUME IInv, InCalls, NEW t \in DOMAIN job.calls, Keep(t)
    PROVE  IInv'
<1>. DEFINE call == job.calls[t]
<1>0. /\ UNCHANGED << skills, snapshots, tables, minted, bills >>
      /\ call.phase = "answered"
  BY DEF Keep, settings
<1>1. /\ DOMAIN job = JobFields /\ CallInv(t) /\ DOMAIN call = CallFields
      /\ call.key \notin DOMAIN cache
  BY <1>0 DEF IInv, JobShape, CallsInv, CallInv
<1>2. \A u \in DOMAIN job.calls : u # t => job.calls[u].key # call.key
  BY KeysDiffer
<1>3. BooksInv /\ CacheInv
  BY DEF IInv
<1>4. CASE call.answer.kind = "text"
  <2>0. job' = Failed(job, t, "format") /\ lost' = More(lost, {call.key}) /\ cache' = cache
    BY <1>4 DEF Keep
  <2>1. /\ Threads(t) /\ job'.l1 = job.l1 /\ job'.calls[t].phase = "failed"
        /\ job'.calls[t].error = "format"
    BY <1>0, <1>1, <2>0 DEF Threads, JobFields, CallFields, Failed
  <2>2. Flying = Flying' \cup {call.key}
    BY <1>0, <2>1 DEF Flying, InFlight, Threads
  <2>3. CacheInv'
    BY <1>0, <1>3, <2>0, <2>1 DEF CacheInv, KeyTells
  <2>4. BooksInv'
    <3>1. /\ \A k \in DOMAIN lost' : lost'[k] \in Nat
          /\ \A k : Count(lost', k) = Count(lost, k) + IF k \in {call.key} THEN 1 ELSE 0
          /\ \A k : Count(lost, k) \in Nat /\ Count(bills, k) \in Nat
      BY <1>3, <2>0, MoreIs DEF BooksInv
    <3>. HIDE DEF call
    <3>2. \A k : Count(bills', k) <= Count(lost', k) + IF k \in DOMAIN cache' \cup Flying' THEN 1 ELSE 0
      <4>. SUFFICES ASSUME NEW k
                    PROVE  Count(bills, k) <= Count(lost', k) + IF k \in DOMAIN cache \cup Flying' THEN 1 ELSE 0
        BY <1>0, <2>0 DEF Count
      <4>1. Count(bills, k) <= Count(lost, k) + IF k \in DOMAIN cache \cup Flying THEN 1 ELSE 0
        BY <1>3 DEF BooksInv
      <4>2. k # call.key => (k \in DOMAIN cache \cup Flying <=> k \in DOMAIN cache \cup Flying')
        BY <2>2
      <4>. QED
        BY <3>1, <4>1, <4>2
    <3>. QED
      BY <1>0, <1>3, <3>1, <3>2 DEF BooksInv
  <2>. QED
    BY <1>0, <2>0, <2>1, <2>3, <2>4, ThreadIInv
<1>5. CASE call.answer.kind # "text"
  <2>0. /\ job' = Settle(t, call.answer) /\ lost' = lost
        /\ cache' = With(cache, call.key, call.answer)
    BY <1>1, <1>5 DEF Keep
  <2>1. /\ Threads(t) /\ job'.calls[t].phase = "done" /\ job'.calls[t].answer = call.answer
        /\ job'.l1 = With(job.l1, call.key, call.answer)
    BY <1>0, <1>1, <2>0 DEF Threads, JobFields, CallFields, Settle
  <2>2. Flying = Flying' \cup {call.key} /\ DOMAIN cache' = DOMAIN cache \cup {call.key}
    <3>1. Flying = Flying' \cup {call.key}
      BY <1>0, <2>1 DEF Flying, InFlight, Threads
    <3>2. DOMAIN cache' = DOMAIN cache \cup {call.key}
      BY <2>0 DEF With
    <3>. QED
      BY <3>1, <3>2
  <2>3. KeyTells(call.key, call.answer)
    BY <1>0, <1>1, <1>5 DEF CallInv
  <2>4. CacheInv'
    BY <1>0, <1>3, <2>0, <2>1, <2>3, TellsStill DEF CacheInv, With
  <2>5. BooksInv'
    <3>. HIDE DEF call
    <3>1. DOMAIN cache' \cup Flying' = DOMAIN cache \cup Flying
      BY <2>2
    <3>. QED
      BY <1>0, <1>3, <2>0, <3>1 DEF BooksInv
  <2>. QED
    BY <1>0, <2>0, <2>1, <2>2, <2>3, <2>4, <2>5, ThreadIInv
<1>. QED
  BY <1>4, <1>5

-----------------------------------------------------------------------------
(* The drafts, from their generation to their storage *)

\* When no call is broken, each has the answer it asked for.
LEMMA AllAnswered ==
    ASSUME IInv, Settled, Broken = {}, NEW t \in DOMAIN job.calls
    PROVE  /\ KeyTells(job.calls[t].key, job.calls[t].answer)
           /\ job.calls[t].answer.kind = "object"
<1>1. Error(t) = None
  BY DEF Broken
<1>2. CallInv(t)
  BY DEF IInv, CallsInv
<1>3. job.calls[t].phase = "done"
  BY <1>1, <1>2, ContentGenerationAssumption DEF Settled, Error, CallInv
<1>4. KeyTells(job.calls[t].key, job.calls[t].answer)
  BY <1>2, <1>3 DEF CallInv
<1>5. job.calls[t].answer.kind # "malformed"
  BY <1>1, <1>3, ContentGenerationAssumption DEF Error
<1>. QED
  BY <1>4, <1>5 DEF KeyTells

\* A draft of a node's answers is of the type, the features and the skills its
\* job asked for, although the answer may be an earlier job's.
LEMMA DraftIs ==
    ASSUME IInv, job.at = "generate", Settled, Broken = {}, NEW t \in DOMAIN job.calls
    PROVE  /\ DOMAIN Draft(job.calls[t]) = DraftFields
           /\ Draft(job.calls[t]).id = job.calls[t].id /\ Draft(job.calls[t]).type = t
           /\ Draft(job.calls[t]).skills \subseteq snapshots
           /\ Sourced(Draft(job.calls[t]))
<1>. DEFINE call == job.calls[t]
            d == Draft(call)
<1>1. /\ CallInv(t) /\ JobShape /\ SkillsInv
      /\ call.key = GenerationKey(call.prompt) /\ call.prompt.type = t
      /\ call.prompt.features = job.features
      /\ call.prompt.skills = SkillsForSpec(t, job.skills, Capabilities)
  BY DEF IInv, CallsInv, CallInv
<1>2. /\ DOMAIN d = DraftFields /\ d.id = call.id /\ d.type = t
      /\ d.skills = call.prompt.skills /\ d.loaded = call.prompt.features
      /\ d.prompt = call.answer.prompt
  BY <1>1 DEF Draft, DraftFields
<1>3. call.prompt.skills \subseteq snapshots
  BY <1>1 DEF JobShape, SkillsForSpec, Planned
<1>4. KeyTells(call.key, call.answer)
  BY AllAnswered
<1>5. call.key = GenerationKey(call.answer.prompt) /\ call.answer.prompt.skills \subseteq snapshots
  <2>1. call.key[1] = "generate"
    BY <1>1, KeysSay
  <2>. QED
    BY <1>4, <2>1 DEF KeyTells
<1>6. GenerationKey(call.prompt) = GenerationKey(call.answer.prompt)
  BY <1>1, <1>5
<1>7. /\ call.prompt.type = call.answer.prompt.type
      /\ {<< f.id, f.title >> : f \in call.prompt.features}
            = {<< f.id, f.title >> : f \in call.answer.prompt.features}
      /\ {s.hash : s \in call.prompt.skills} = {s.hash : s \in call.answer.prompt.skills}
  BY <1>6, KeysSay
<1>8. call.prompt.skills = call.answer.prompt.skills
  BY <1>1, <1>3, <1>5, <1>7, SameSkills
<1>. HIDE DEF call, d
<1>9. Sourced(d)
  BY <1>1, <1>2, <1>7, <1>8 DEF Sourced
<1>. QED
  BY <1>2, <1>3, <1>9 DEF call, d

LEMMA GenerateArtifactsParallelIInv ==
    IInv /\ GenerateArtifactsParallel => IInv'
<1>. SUFFICES ASSUME IInv, GenerateArtifactsParallel PROVE IInv'
  OBVIOUS
<1>. DEFINE drafts == {Draft(job.calls[t]) : t \in DOMAIN job.calls}
            Of(t) == CHOOSE d \in drafts : d.type = t
            calls == [t \in {d.type : d \in drafts} |->
                        Call(ExtractionKey(Of(t).id, Of(t).body), Of(t).body, Of(t).id)]
<1>0. /\ UNCHANGED << skills, snapshots, cache, tables, minted, bills, lost >>
      /\ job.at = "generate" /\ Settled /\ Broken = {}
      /\ job' = [job EXCEPT !.at = "extract", !.drafts = drafts, !.calls = calls]
  BY DEF GenerateArtifactsParallel, settings, history, In
<1>1. DOMAIN job = JobFields /\ JobShape /\ CallsInv
  BY DEF IInv, JobShape
<1>2. ASSUME NEW d \in drafts
      PROVE  /\ DOMAIN d = DraftFields /\ d.type \in DOMAIN job.calls
             /\ d.id = job.calls[d.type].id /\ d = Draft(job.calls[d.type])
             /\ d.skills \subseteq snapshots /\ Sourced(d)
             /\ d.id \in 1..minted /\ \A a \in tables.artifacts : a.id # d.id
  <2>1. PICK t \in DOMAIN job.calls : d = Draft(job.calls[t])
    OBVIOUS
  <2>2. CallInv(t)
    BY <1>1 DEF CallsInv
  <2>3. /\ DOMAIN d = DraftFields /\ d.id = job.calls[t].id /\ d.type = t
        /\ d.skills \subseteq snapshots /\ Sourced(d)
    BY <1>0, <2>1, DraftIs
  <2>4. job.calls[t].id \in 1..minted /\ \A a \in tables.artifacts : a.id # job.calls[t].id
    BY <2>2 DEF CallInv
  <2>. QED
    BY <2>1, <2>3, <2>4
<1>3. \A d, e \in drafts : d.id = e.id \/ d.type = e.type => d = e
  <2>. SUFFICES ASSUME NEW d \in drafts, NEW e \in drafts, d.id = e.id \/ d.type = e.type
                PROVE  d = e
    OBVIOUS
  <2>. HIDE DEF drafts
  <2>1. d.type = e.type
    BY <1>1, <1>2 DEF CallsInv
  <2>. QED
    BY <1>2, <2>1
<1>4. ASSUME NEW t \in {d.type : d \in drafts}
      PROVE  Of(t) \in drafts /\ Of(t).type = t
  OBVIOUS
<1>5. ASSUME NEW t \in DOMAIN calls
      PROVE  /\ DOMAIN calls[t] = CallFields /\ calls[t].phase = "ready"
             /\ calls[t].id = Of(t).id /\ calls[t].key = ExtractionKey(Of(t).id, Of(t).body)
  BY DEF Call, CallFields
<1>6. DOMAIN calls = {d.type : d \in drafts}
  OBVIOUS
<1>. HIDE DEF drafts, calls, Of
<1>7. /\ DOMAIN job' = JobFields /\ job'.at = "extract" /\ job'.calls = calls
      /\ job'.drafts = drafts /\ job'.l1 = job.l1 /\ job'.skills = job.skills
  BY <1>0, <1>1 DEF JobFields
<1>8. JobShape'
  BY <1>0, <1>1, <1>7 DEF JobShape, Planned, Drafted, Extracted, Linked, Checked, Storing
<1>9. SkillsInv' /\ TablesInv'
  BY <1>0 DEF IInv, SkillsInv, TablesInv
<1>10. CacheInv'
  BY <1>0, <1>7 DEF IInv, CacheInv, KeyTells
<1>11. CallsInv'
  <2>1. ASSUME NEW t \in DOMAIN calls PROVE CallInv(t)'
    <3>1. calls[t].key[1] = "extract" /\ calls[t].key[2] = calls[t].id
      BY <1>5, KeysSay
    <3>2. calls[t].id \in 1..minted /\ \A a \in tables.artifacts : a.id # calls[t].id
      BY <1>2, <1>4, <1>5, <1>6
    <3>. QED
      BY <1>0, <1>5, <1>7, <3>1, <3>2 DEF CallInv
  <2>2. ASSUME NEW t \in DOMAIN calls, NEW u \in DOMAIN calls, calls[t].id = calls[u].id
        PROVE  t = u
    BY <1>3, <1>4, <1>5, <1>6, <2>2
  <2>. QED
    BY <1>6, <1>7, <2>1, <2>2 DEF CallsInv
<1>12. BooksInv'
  <2>1. Flying = {} /\ Flying' = {}
    BY <1>0, <1>5, <1>7 DEF Flying, InFlight, Settled
  <2>. QED
    BY <1>0, <2>1 DEF IInv, BooksInv
<1>13. DraftsInv'
  <2>1. ASSUME NEW d \in drafts PROVE DraftInv(d)'
    <3>1. Sourced(d)'
      BY <1>2 DEF Sourced
    <3>. QED
      BY <1>0, <1>2, <1>7, <3>1 DEF DraftInv, Extracted, Linked, Checked, Storing
  <2>. QED
    BY <1>3, <1>7, <2>1 DEF DraftsInv, Linked, Checked, Storing
<1>. QED
  BY <1>8, <1>9, <1>10, <1>11, <1>12, <1>13 DEF IInv

\* A draft keeps its sources when what it is given is something else.
LEMMA SourcedToo ==
    ASSUME NEW d, NEW e, Sourced(d), e.type = d.type, e.skills = d.skills,
           e.prompt = d.prompt, e.loaded = d.loaded
    PROVE  Sourced(e)
<1>. DEFINE Pairs(fs) == {<< f.id, f.title >> : f \in fs}
<1>1. \A x : Sourced(x) <=> /\ x.prompt.type = x.type /\ x.prompt.skills = x.skills
                           /\ Pairs(x.prompt.features) = Pairs(x.loaded)
  BY DEF Sourced
<1>. HIDE DEF Pairs
<1>. QED
  BY <1>1

LEMMA ExtractClaimsIInv ==
    IInv /\ ExtractClaims => IInv'
<1>. SUFFICES ASSUME IInv, ExtractClaims PROVE IInv'
  OBVIOUS
<1>. DEFINE With1(d) == [d EXCEPT !.found = job.calls[d.type].answer.claims]
            drafts == {With1(d) : d \in job.drafts}
<1>0. /\ UNCHANGED << skills, snapshots, cache, tables, minted, bills, lost >>
      /\ job.at = "extract" /\ Settled /\ Broken = {}
      /\ job' = [job EXCEPT !.at = "link", !.drafts = drafts, !.calls = << >>]
  BY DEF ExtractClaims, settings, history, In
<1>1. /\ DOMAIN job = JobFields /\ JobShape
      /\ \A d \in job.drafts : DraftInv(d)
      /\ \A d, e \in job.drafts : d.id = e.id \/ d.type = e.type => d = e
  BY <1>0 DEF IInv, JobShape, DraftsInv, Drafted
<1>2. ASSUME NEW d \in job.drafts
      PROVE  /\ DOMAIN With1(d) = DraftFields /\ With1(d).found \in ClaimSets
             /\ With1(d).id = d.id /\ With1(d).type = d.type /\ With1(d).skills = d.skills
             /\ With1(d).prompt = d.prompt /\ With1(d).loaded = d.loaded
             /\ With1(d).status = d.status
  <2>1. DOMAIN d = DraftFields
    BY <1>1 DEF DraftInv
  <2>2. d.type \in DOMAIN job.calls /\ CallInv(d.type)
    BY <1>0 DEF IInv, CallsInv
  <2>3. job.calls[d.type].answer.claims \in ClaimSets
    BY <1>0, <2>2, AllAnswered DEF KeyTells, CallInv
  <2>. QED
    BY <2>1, <2>3 DEF DraftFields
<1>. HIDE DEF With1
<1>3. /\ DOMAIN job' = JobFields /\ job'.at = "link" /\ DOMAIN job'.calls = {}
      /\ job'.drafts = drafts /\ job'.l1 = job.l1 /\ job'.skills = job.skills
  BY <1>0, <1>1 DEF JobFields
<1>4. JobShape'
  BY <1>0, <1>1, <1>3 DEF JobShape, Planned, Drafted, Extracted, Linked, Checked, Storing
<1>5. SkillsInv' /\ TablesInv'
  BY <1>0 DEF IInv, SkillsInv, TablesInv
<1>6. CacheInv'
  BY <1>0, <1>3 DEF IInv, CacheInv, KeyTells
<1>7. CallsInv'
  BY <1>3 DEF CallsInv
<1>8. BooksInv'
  <2>1. Flying = {} /\ Flying' = {}
    BY <1>0, <1>3 DEF Flying, InFlight, Settled
  <2>. QED
    BY <1>0, <2>1 DEF IInv, BooksInv
<1>9. DraftsInv'
  <2>1. ASSUME NEW e \in drafts PROVE DraftInv(e)'
    <3>1. PICK d \in job.drafts : e = With1(d)
      OBVIOUS
    <3>2. /\ DraftInv(d) /\ DOMAIN e = DraftFields /\ e.found \in ClaimSets
          /\ e.id = d.id /\ e.type = d.type /\ e.skills = d.skills
          /\ e.prompt = d.prompt /\ e.loaded = d.loaded
      BY <1>1, <1>2, <3>1
    <3>3. Sourced(e)
      BY <3>2, SourcedToo DEF DraftInv
    <3>4. Sourced(e)'
      BY <3>3 DEF Sourced
    <3>. HIDE DEF drafts
    <3>. QED
      BY <1>0, <1>3, <3>2, <3>4 DEF DraftInv, Linked, Checked, Storing
  <2>2. \A d, e \in drafts : d.id = e.id \/ d.type = e.type => d = e
    BY <1>1, <1>2
  <2>. QED
    BY <1>3, <2>1, <2>2 DEF DraftsInv, Linked, Checked, Storing
<1>. QED
  BY <1>4, <1>5, <1>6, <1>7, <1>8, <1>9 DEF IInv

\* What a node without calls leaves alone.
LEMMA NodeKeeps ==
    ASSUME IInv, UNCHANGED << skills, snapshots, cache, tables, minted, bills, lost >>,
           job.at \in Extracted, DOMAIN job' = JobFields, job'.at \in Extracted,
           job'.skills = job.skills, job'.calls = job.calls, job'.l1 = job.l1
    PROVE  /\ JobShape' /\ SkillsInv' /\ CacheInv' /\ CallsInv' /\ BooksInv' /\ TablesInv'
           /\ DOMAIN job.calls = {}
<1>. USE DEF Planned, Drafted, Extracted, Linked, Checked, Storing
<1>1. DOMAIN job.calls = {}
  BY DEF IInv, JobShape
<1>2. JobShape'
  BY DEF IInv, JobShape
<1>3. SkillsInv' /\ TablesInv'
  BY DEF IInv, SkillsInv, TablesInv
<1>4. CacheInv'
  BY DEF IInv, CacheInv, KeyTells
<1>5. CallsInv'
  BY <1>1 DEF CallsInv
<1>6. BooksInv'
  BY DEF IInv, BooksInv, Flying, InFlight
<1>. QED
  BY <1>1, <1>2, <1>3, <1>4, <1>5, <1>6

\* A link's evidence has the figures of its claim.
LEMMA ResolveIs ==
    ASSUME NEW claim, NEW candidates \in Candidates(Evidence)
    PROVE  /\ Resolve(claim, candidates).claim = claim
           /\ \A e \in Evidence :
                 e.id \in Resolve(claim, candidates).links => claim.figures \subseteq e.figures
<1>1. candidates \subseteq Evidence
  BY DEF Candidates
<1>2. /\ Resolve(claim, candidates).claim = claim
      /\ Resolve(claim, candidates).links = Grounds(claim, candidates)
  BY DEF Resolve
<1>3. ASSUME NEW e \in Evidence, e.id \in Grounds(claim, candidates)
      PROVE  claim.figures \subseteq e.figures
  <2>1. PICK c \in candidates : c.id = e.id /\ claim.figures \subseteq c.figures
    BY <1>3 DEF Grounds
  <2>2. c = e
    BY <1>1, <2>1, ContentGenerationAssumption
  <2>. QED
    BY <2>1, <2>2
<1>. QED
  BY <1>2, <1>3

LEMMA LinkClaimsIInv ==
    IInv /\ In("link") /\ (\E c \in [FoundClaims -> Candidates(Evidence)] : LinkClaims(c)) => IInv'
<1>. SUFFICES ASSUME IInv, NEW cands \in [FoundClaims -> Candidates(Evidence)], LinkClaims(cands)
             PROVE  IInv'
  OBVIOUS
<1>. DEFINE pairs == {q \in job.drafts \X UNION ClaimSets : q[2] \in q[1].found}
            resolved == {[artifact |-> p[1].id, row |-> Resolve(p[2], cands[p[2]])] : p \in pairs}
<1>0. /\ UNCHANGED << skills, snapshots, cache, tables, minted, bills, lost >>
      /\ job.at = "link" /\ job' = [job EXCEPT !.at = "check", !.claims = resolved]
  BY DEF LinkClaims, settings, history, In
<1>1. /\ DOMAIN job = JobFields
      /\ \A d \in job.drafts : DraftInv(d) /\ d.found \in ClaimSets
      /\ \A d, e \in job.drafts : d.id = e.id \/ d.type = e.type => d = e
  BY <1>0 DEF IInv, JobShape, DraftsInv, DraftInv, Drafted, Extracted
<1>2. ASSUME NEW d \in job.drafts
      PROVE  ClaimsOf(resolved, d) = {Resolve(x, cands[x]) : x \in d.found}
  <2>1. ASSUME NEW r \in ClaimsOf(resolved, d) PROVE \E x \in d.found : r = Resolve(x, cands[x])
    <3>1. PICK c \in resolved : c.artifact = d.id /\ c.row = r
      BY DEF ClaimsOf
    <3>2. PICK p \in pairs : c = [artifact |-> p[1].id, row |-> Resolve(p[2], cands[p[2]])]
      OBVIOUS
    <3>3. p[1] \in job.drafts /\ p[2] \in p[1].found
      OBVIOUS
    <3>4. p[1] = d
      BY <1>1, <3>1, <3>2, <3>3
    <3>. QED
      BY <3>1, <3>2, <3>3, <3>4
  <2>2. ASSUME NEW x \in d.found PROVE Resolve(x, cands[x]) \in ClaimsOf(resolved, d)
    <3>1. x \in UNION ClaimSets
      BY <1>1
    <3>2. << d, x >> \in pairs
      BY <3>1
    <3>. DEFINE c == [artifact |-> d.id, row |-> Resolve(x, cands[x])]
    <3>3. c \in resolved
      <4>. DEFINE p == << d, x >>
      <4>1. p \in pairs /\ p[1] = d /\ p[2] = x
        BY <3>2
      <4>. HIDE DEF p, pairs
      <4>. QED
        BY <4>1
    <3>4. c.artifact = d.id /\ c.row = Resolve(x, cands[x])
      OBVIOUS
    <3>. HIDE DEF c, resolved
    <3>. QED
      BY <3>3, <3>4 DEF ClaimsOf
  <2>. HIDE DEF resolved
  <2>. QED
    BY <2>1, <2>2
<1>3. ASSUME NEW c \in resolved PROVE \E d \in job.drafts : d.id = c.artifact
  OBVIOUS
<1>. HIDE DEF resolved
<1>4. ASSUME NEW d \in job.drafts PROVE Grounded(d, ClaimsOf(resolved, d))
  <2>0. \A x \in d.found : cands[x] \in Candidates(Evidence)
    BY DEF FoundClaims
  <2>1. {c.claim : c \in ClaimsOf(resolved, d)} = d.found
    BY <1>2, <2>0, ResolveIs
  <2>2. \A c \in ClaimsOf(resolved, d) : \A e \in Evidence :
            e.id \in c.links => c.claim.figures \subseteq e.figures
    BY <1>2, <2>0, ResolveIs
  <2>. QED
    BY <2>1, <2>2 DEF Grounded
<1>5. /\ DOMAIN job' = JobFields /\ job'.at = "check" /\ job'.calls = job.calls
      /\ job'.drafts = job.drafts /\ job'.claims = resolved
      /\ job'.l1 = job.l1 /\ job'.skills = job.skills
  BY <1>0, <1>1 DEF JobFields
<1>6. JobShape' /\ SkillsInv' /\ CacheInv' /\ CallsInv' /\ BooksInv' /\ TablesInv'
  BY <1>0, <1>5, NodeKeeps DEF Extracted, Linked, Checked, Storing
<1>7. DraftsInv'
  <2>1. ASSUME NEW d \in job.drafts PROVE DraftInv(d)'
    <3>1. DraftInv(d) /\ Grounded(d, ClaimsOf(resolved, d))
      BY <1>1, <1>4
    <3>2. Sourced(d)' /\ Grounded(d, ClaimsOf(job.claims, d))'
      BY <1>5, <3>1 DEF DraftInv, Sourced, Grounded, ClaimsOf
    <3>. QED
      BY <1>0, <1>1, <1>5, <3>1, <3>2 DEF DraftInv, Checked, Storing
  <2>. QED
    BY <1>1, <1>3, <1>5, <2>1 DEF DraftsInv
<1>. QED
  BY <1>6, <1>7 DEF IInv

\* The claims of a draft are those under its id.
LEMMA SameClaims ==
    ASSUME NEW claims, NEW d, NEW e, d.id = e.id
    PROVE  ClaimsOf(claims, d) = ClaimsOf(claims, e)
BY DEF ClaimsOf

LEMMA CheckArtifactsIInv ==
    IInv /\ CheckArtifacts => IInv'
<1>. SUFFICES ASSUME IInv, CheckArtifacts PROVE IInv'
  OBVIOUS
<1>. DEFINE StatusOf(d) == CheckedStatus(Findings(d.body, ClaimsOf(job.claims, d)))
            As(d) == [d EXCEPT !.status = StatusOf(d)]
            drafts == {As(d) : d \in job.drafts}
<1>0. /\ UNCHANGED << skills, snapshots, cache, tables, minted, bills, lost >>
      /\ job.at = "check"
      /\ job' = [job EXCEPT !.at = "persist", !.drafts = drafts, !.written = tables]
  BY DEF CheckArtifacts, settings, history, In
<1>1. /\ DOMAIN job = JobFields
      /\ \A d \in job.drafts :
            DraftInv(d) /\ d.found \in ClaimSets /\ Grounded(d, ClaimsOf(job.claims, d))
      /\ \A d, e \in job.drafts : d.id = e.id \/ d.type = e.type => d = e
      /\ \A c \in job.claims : \E d \in job.drafts : d.id = c.artifact
  BY <1>0 DEF IInv, JobShape, DraftsInv, DraftInv, Drafted, Extracted, Linked
<1>2. ASSUME NEW d \in job.drafts
      PROVE  /\ DOMAIN As(d) = DraftFields /\ As(d).status = StatusOf(d)
             /\ As(d).id = d.id /\ As(d).type = d.type /\ As(d).body = d.body
             /\ As(d).skills = d.skills /\ As(d).prompt = d.prompt
             /\ As(d).loaded = d.loaded /\ As(d).found = d.found
  <2>1. DOMAIN d = DraftFields
    BY <1>1 DEF DraftInv
  <2>. HIDE DEF StatusOf
  <2>. QED
    BY <2>1 DEF DraftFields
<1>. HIDE DEF As
<1>3. /\ DOMAIN job' = JobFields /\ job'.at = "persist" /\ job'.calls = job.calls
      /\ job'.drafts = drafts /\ job'.claims = job.claims /\ job'.written = tables
      /\ job'.l1 = job.l1 /\ job'.skills = job.skills
  BY <1>0, <1>1 DEF JobFields
<1>4. JobShape' /\ SkillsInv' /\ CacheInv' /\ CallsInv' /\ BooksInv' /\ TablesInv'
  BY <1>0, <1>3, NodeKeeps DEF Extracted, Linked, Checked, Storing
<1>5. DraftsInv'
  <2>1. ASSUME NEW e \in drafts PROVE DraftInv(e)'
    <3>1. PICK d \in job.drafts : e = As(d)
      OBVIOUS
    <3>2. /\ DOMAIN e = DraftFields /\ e.status = StatusOf(d)
          /\ e.id = d.id /\ e.type = d.type /\ e.body = d.body
          /\ e.skills = d.skills /\ e.prompt = d.prompt
          /\ e.loaded = d.loaded /\ e.found = d.found
      BY <1>2, <3>1
    <3>3. DraftInv(d) /\ d.found \in ClaimSets /\ Grounded(d, ClaimsOf(job.claims, d))
      BY <1>1
    <3>4. ClaimsOf(job.claims, e) = ClaimsOf(job.claims, d)
      BY <3>2, SameClaims
    <3>5. Sourced(e)
      BY <3>2, <3>3, SourcedToo DEF DraftInv
    <3>6. Grounded(e, ClaimsOf(job.claims, e))
      BY <3>2, <3>3, <3>4 DEF Grounded
    <3>7. Vetted(e, ClaimsOf(job.claims, e))
      BY <3>2, <3>4 DEF Vetted, CheckedStatus
    <3>8. /\ Sourced(e)' /\ Grounded(e, ClaimsOf(job.claims, e))'
          /\ Vetted(e, ClaimsOf(job.claims, e))'
      BY <1>3, <3>5, <3>6, <3>7 DEF Sourced, Grounded, Vetted, ClaimsOf
    <3>. HIDE DEF drafts, StatusOf
    <3>. QED
      BY <1>0, <1>3, <3>2, <3>3, <3>8 DEF DraftInv
  <2>2. \A d, e \in drafts : d.id = e.id \/ d.type = e.type => d = e
    <3>. HIDE DEF StatusOf
    <3>. QED
      BY <1>1, <1>2
  <2>3. \A c \in job.claims : \E d \in drafts : d.id = c.artifact
    BY <1>1, <1>2
  <2>. HIDE DEF drafts
  <2>. QED
    BY <1>0, <1>3, <2>1, <2>2, <2>3 DEF DraftsInv
<1>. QED
  BY <1>4, <1>5 DEF IInv

LEMMA PersistArtifactsIInv ==
    IInv /\ PersistArtifacts => IInv'
<1>. SUFFICES ASSUME IInv, PersistArtifacts PROVE IInv'
  OBVIOUS
<1>. DEFINE written == [job.written EXCEPT !.artifacts = @ \cup job.drafts,
                                           !.usage = @ \cup UsageEvents(job.drafts)]
<1>0. /\ UNCHANGED << skills, snapshots, cache, tables, minted, bills, lost >>
      /\ job.at = "persist" /\ job' = [job EXCEPT !.at = "claims", !.written = written]
  BY DEF PersistArtifacts, settings, history, In, Visible
<1>1. /\ DOMAIN job = JobFields /\ job.written = tables /\ DOMAIN tables = TableFields
      /\ \A d \in job.drafts : DraftInv(d)
      /\ \A d, e \in job.drafts : d.id = e.id \/ d.type = e.type => d = e
      /\ \A c \in job.claims : \E d \in job.drafts : d.id = c.artifact
  BY <1>0 DEF IInv, JobShape, DraftsInv, DraftInv, Drafted, Extracted, Linked, Checked
<1>2. /\ DOMAIN written = TableFields
      /\ written.artifacts = tables.artifacts \cup job.drafts
      /\ written.usage = tables.usage \cup UsageEvents(job.drafts)
      /\ written.claims = tables.claims
  BY <1>1 DEF TableFields
<1>. HIDE DEF written
<1>3. /\ DOMAIN job' = JobFields /\ job'.at = "claims" /\ job'.calls = job.calls
      /\ job'.drafts = job.drafts /\ job'.claims = job.claims /\ job'.written = written
      /\ job'.l1 = job.l1 /\ job'.skills = job.skills
  BY <1>0, <1>1 DEF JobFields
<1>4. JobShape' /\ SkillsInv' /\ CacheInv' /\ CallsInv' /\ BooksInv' /\ TablesInv'
  BY <1>0, <1>3, NodeKeeps DEF Extracted, Linked, Checked, Storing
<1>5. DraftsInv'
  <2>1. ASSUME NEW d \in job.drafts PROVE DraftInv(d)'
    BY <1>0, <1>1, <1>3 DEF DraftInv, Sourced, Grounded, Vetted, ClaimsOf,
                            Extracted, Linked, Checked, Storing
  <2>2. UsageEvents(job'.drafts) = UsageEvents(job.drafts)
    BY <1>3
  <2>. QED
    BY <1>0, <1>1, <1>2, <1>3, <2>1, <2>2 DEF DraftsInv
<1>. QED
  BY <1>4, <1>5 DEF IInv

\* Claims of others are none of its.
LEMMA OtherClaims ==
    ASSUME NEW claims, NEW others, NEW d, \A c \in others : c.artifact # d.id
    PROVE  /\ ClaimsOf(claims \cup others, d) = ClaimsOf(claims, d)
           /\ ClaimsOf(others \cup claims, d) = ClaimsOf(claims, d)
<1>1. {x \in claims \cup others : x.artifact = d.id} = {x \in claims : x.artifact = d.id}
  OBVIOUS
<1>2. claims \cup others = others \cup claims
  OBVIOUS
<1>. QED
  BY <1>1, <1>2 DEF ClaimsOf

LEMMA PersistClaimsIInv ==
    IInv /\ PersistClaims => IInv'
<1>. SUFFICES ASSUME IInv, PersistClaims PROVE IInv'
  OBVIOUS
<1>0. /\ UNCHANGED << skills, snapshots, cache, minted, bills >> /\ End
      /\ job.at = "claims" /\ tables' = [job.written EXCEPT !.claims = @ \cup job.claims]
  BY DEF PersistClaims, settings, In
<1>1. /\ \A d \in job.drafts :
            /\ d.id \in 1..minted /\ d.skills \subseteq snapshots
            /\ \A a \in tables.artifacts : a.id # d.id
            /\ Sourced(d) /\ Grounded(d, ClaimsOf(job.claims, d)) /\ Vetted(d, ClaimsOf(job.claims, d))
      /\ \A d, e \in job.drafts : d.id = e.id \/ d.type = e.type => d = e
      /\ \A c \in job.claims : \E d \in job.drafts : d.id = c.artifact
      /\ DOMAIN job.written = TableFields
      /\ job.written.artifacts = tables.artifacts \cup job.drafts
      /\ job.written.usage = tables.usage \cup UsageEvents(job.drafts)
      /\ job.written.claims = tables.claims
  BY <1>0 DEF IInv, DraftsInv, DraftInv, Drafted, Extracted, Linked, Checked, Storing
<1>2. /\ DOMAIN tables' = TableFields
      /\ tables'.artifacts = tables.artifacts \cup job.drafts
      /\ tables'.usage = tables.usage \cup UsageEvents(job.drafts)
      /\ tables'.claims = tables.claims \cup job.claims
  BY <1>0, <1>1 DEF TableFields
<1>3. TablesInv
  BY DEF IInv
<1>4. \A u \in tables'.usage : u.skill \in snapshots /\ \E a \in tables'.artifacts : a.id = u.artifact
  <2>1. ASSUME NEW u \in UsageEvents(job.drafts)
        PROVE  u.skill \in snapshots /\ \E d \in job.drafts : d.id = u.artifact
    <3>1. PICK d \in job.drafts : \E s \in d.skills : u = [artifact |-> d.id, skill |-> s]
      BY DEF UsageEvents
    <3>. QED
      BY <1>1, <3>1
  <2>. QED
    BY <1>2, <1>3, <2>1 DEF TablesInv
<1>5. \A c \in tables'.claims : \E a \in tables'.artifacts : a.id = c.artifact
  BY <1>1, <1>2, <1>3 DEF TablesInv
<1>6. \A a, b \in tables'.artifacts : a.id = b.id => a = b
  BY <1>1, <1>2, <1>3 DEF TablesInv
<1>7. \A a \in tables'.artifacts : a.id \in 1..minted
  BY <1>1, <1>2, <1>3 DEF TablesInv
<1>8. ASSUME NEW a \in tables'.artifacts
      PROVE  /\ Sourced(a) /\ Grounded(a, ClaimsOf(tables'.claims, a))
             /\ Vetted(a, ClaimsOf(tables'.claims, a))
  <2>1. CASE a \in tables.artifacts
    <3>1. ClaimsOf(tables'.claims, a) = ClaimsOf(tables.claims, a)
      <4>1. \A c \in job.claims : c.artifact # a.id
        BY <1>1, <2>1
      <4>2. ClaimsOf(tables.claims \cup job.claims, a) = ClaimsOf(tables.claims, a)
        BY ONLY <4>1, OtherClaims, Zenon
      <4>. QED
        BY <1>2, <4>2
    <3>. QED
      BY <1>3, <2>1, <3>1 DEF TablesInv
  <2>2. CASE a \in job.drafts
    <3>1. ClaimsOf(tables'.claims, a) = ClaimsOf(job.claims, a)
      <4>1. \A c \in tables.claims : c.artifact # a.id
        BY <1>1, <1>3, <2>2 DEF TablesInv
      <4>2. ClaimsOf(tables.claims \cup job.claims, a) = ClaimsOf(job.claims, a)
        BY ONLY <4>1, OtherClaims, Zenon
      <4>. QED
        BY <1>2, <4>2
    <3>. QED
      BY <1>1, <2>2, <3>1
  <2>. QED
    BY <1>2, <2>1, <2>2
<1>9. TablesInv'
  <2>1. ASSUME NEW a \in tables'.artifacts
        PROVE  (Sourced(a) /\ Grounded(a, ClaimsOf(tables.claims, a)) /\ Vetted(a, ClaimsOf(tables.claims, a)))'
    BY <1>8 DEF Sourced, Grounded, Vetted, ClaimsOf
  <2>. QED
    BY <1>0, <1>4, <1>5, <1>6, <1>7, <2>1 DEF TablesInv
<1>. QED
  BY <1>0, <1>2, <1>9, EndIInv

-----------------------------------------------------------------------------
(* The specification *)

LEMMA Inductive ==
    IInv /\ [Next]_vars => IInv'
<1>. SUFFICES ASSUME IInv, [Next]_vars PROVE IInv'
  OBVIOUS
<1>1. CASE StartJob
  BY <1>1, StartJobIInv
<1>2. CASE Kill
  BY <1>2, KillIInv
<1>3. CASE LoadApprovedFeatures
  BY <1>3, LoadApprovedFeaturesIInv
<1>4. CASE SnapshotActiveSkills
  BY <1>4, SnapshotActiveSkillsIInv
<1>5. CASE In("plan") /\ \E v \in Voices : PlanGeneration(v)
  BY <1>5, PlanGenerationIInv
<1>6. CASE InCalls /\ \E t \in DOMAIN job.calls :
               \/ LookUp(t) \/ ConverseFails(t) \/ Keep(t)
               \/ \E a \in Answers(t), n \in Sizes : Converse(t, a, n)
  BY <1>6, LookUpIInv, ConverseFailsIInv, KeepIInv, ConverseIInv
<1>7. CASE CallsFail
  BY <1>7, CallsFailIInv
<1>8. CASE GenerateArtifactsParallel
  BY <1>8, GenerateArtifactsParallelIInv
<1>9. CASE ExtractClaims
  BY <1>9, ExtractClaimsIInv
<1>10. CASE In("link") /\ \E c \in [FoundClaims -> Candidates(Evidence)] : LinkClaims(c)
  BY <1>10, LinkClaimsIInv
<1>11. CASE CheckArtifacts
  BY <1>11, CheckArtifactsIInv
<1>12. CASE NodeFails
  BY <1>12, NodeFailsIInv
<1>13. CASE PersistArtifacts
  BY <1>13, PersistArtifactsIInv
<1>14. CASE PersistClaims
  BY <1>14, PersistClaimsIInv
<1>15. CASE \E f \in DOMAIN features : ReviewFeature(f)
  BY <1>15, ReviewFeatureIInv
<1>16. CASE \E s \in skills : EditSkill(s)
  BY <1>16, EditSkillIInv
<1>17. CASE \E key \in DOMAIN cache : Sweep(key)
  BY <1>17, SweepIInv
<1>18. CASE UNCHANGED vars
  <2>1. UNCHANGED << features, skills, snapshots, cache, tables, job, minted, bills, lost >>
    BY <1>18 DEF vars, settings, history
  <2>. QED
    BY <2>1 DEF IInv, JobShape, SkillsInv, CacheInv, KeyTells, CallsInv, CallInv, BooksInv, Flying,
                InFlight, DraftsInv, DraftInv, TablesInv
<1>. QED
  BY <1>1, <1>2, <1>3, <1>4, <1>5, <1>6, <1>7, <1>8, <1>9, <1>10, <1>11, <1>12, <1>13, <1>14,
     <1>15, <1>16, <1>17, <1>18 DEF Next

\* Every reachable state satisfies the invariant.
THEOREM Invariance == Spec => []IInv
BY InitIInv, Inductive, PTL DEF Spec

\* The two tiers of the cache never give two answers for a key, a usage event
\* refers to an artifact and to a snapshot, and a claim to an artifact, that
\* are stored, and no id is given twice (bedrock_client's caches,
\* persist_artifacts, persist_claims).
THEOREM TypeCorrect == Spec => []TypeOK
<1>1. IInv => TypeOK
  BY DEF IInv, CacheInv, KeyTells, TablesInv, TypeOK
<1>. QED
  BY <1>1, Invariance, PTL

\* A call of the model is paid for again only after its answer was lost, over
\* the attempts of a job and over any number of jobs (generate_json).
THEOREM NoCallIsBilledAgain == Spec => []BilledOnce
<1>1. IInv => BilledOnce
  <2>. SUFFICES ASSUME IInv, NEW k \in DOMAIN bills PROVE bills[k] <= 1 + Count(lost, k)
    BY DEF BilledOnce
  <2>1. Count(bills, k) <= Count(lost, k) + IF k \in DOMAIN cache \cup Flying THEN 1 ELSE 0
    BY DEF IInv, BooksInv
  <2>2. bills[k] \in Nat /\ Count(bills, k) = bills[k] /\ Count(lost, k) \in Nat
    BY DEF IInv, BooksInv, Count
  <2>. QED
    BY <2>1, <2>2
<1>. QED
  BY <1>1, Invariance, PTL

\* What a reviewer sees came from the features and the skills it names even
\* when its text was found under the key of an earlier job, its claims are all
\* stored and grounded, and it is a draft only if nothing stored blocks it
\* (generate_artifacts_parallel, link_claims_to_evidence, apply_check_outcomes).
THEOREM ReviewersSeeVettedDrafts == Spec => []DraftsAreVetted
<1>1. IInv => DraftsAreVetted
  BY DEF IInv, TablesInv, Sourced, Grounded, Vetted, DraftsAreVetted
<1>. QED
  BY <1>1, Invariance, PTL

=============================================================================
