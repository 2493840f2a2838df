----------------------------- MODULE SkillMining -----------------------------
(***************************************************************************)
(* What the skill-learning graph computes from the reviews of a run: the    *)
(* signals, their clusters, the skills they touch and the signature of a    *)
(* proposal.  Pure operators; SkillGate runs them against the database.     *)
(*                                                                          *)
(* A line of text is a value of Lines, known by what the rules look at:     *)
(* whether it holds a superlative and which figures it holds.               *)
(***************************************************************************)
EXTENDS Naturals, FiniteSets, Sequences, SequencesExt

CONSTANTS
    Skills,       \* names of repository skills, one SKILL.md each
    Commits,      \* commits at which skills are snapshotted
    Lines,        \* lines of artifact text
    Hype,         \* those with a superlative
    Figures,      \* the numbers in a line
    Categories,   \* rejection categories as written
    Canon,        \* their normal form: trimmed, lower case, underscores
    None

ASSUME MiningAssumption ==
    /\ Hype \subseteq Lines
    /\ DOMAIN Figures = Lines
    /\ DOMAIN Canon = Categories
    /\ None \notin Categories \cup Skills

Snapshots == Skills \X Commits

\* A review action as the source returns it.  An edit carries both texts, a
\* rejected claim its category, a note only text.
RawReviewSignal ==
    [kind : {"reviewer_edit", "rejected_claim", "review_note"},
     source : Seq(Lines), revised : Seq(Lines),
     category : Categories \cup {None}, snapshots : SUBSET Snapshots]

\* Lines an edit removed and added, in their order.
LineDiff(source, revised) ==
    [removed |-> SelectSeq(source, LAMBDA l : l \notin ToSet(revised)),
     added   |-> SelectSeq(revised, LAMBDA l : l \notin ToSet(source))]

\* The mined row: the raw action and, for an edit, its diff.
LearningSignal(raw) ==
    [raw |-> raw,
     diff |-> IF raw.kind = "reviewer_edit"
              THEN LineDiff(raw.source, raw.revised)
              ELSE [removed |-> << >>, added |-> << >>]]

FiguresIn(text) == UNION {Figures[l] : l \in ToSet(text)}

EditTheme(sig) ==
    LET removed == sig.diff.removed
    IN  IF ToSet(removed) \cap Hype # {} THEN "reduce_hype"
        ELSE IF FiguresIn(removed) \subseteq FiguresIn(sig.raw.revised)
             THEN "tighten_wording"
             ELSE "remove_unsupported_metric"

RejectionTheme(sig) ==
    IF sig.raw.category = None THEN "general" ELSE Canon[sig.raw.category]

OfKind(signals, kind) == {s \in signals : s.raw.kind = kind}

\* The signals of one kind, by theme; a cluster carries all its members and
\* every snapshot any of them names.
GroupedClusters(kind, theme) ==
    LET members(t) == {s \in DOMAIN theme : theme[s] = t}
    IN  {[kind |-> kind, theme |-> t, signals |-> members(t),
          snapshots |-> UNION {s.raw.snapshots : s \in members(t)}] : t \in Range(theme)}

EditClusters(signals) ==
    GroupedClusters("reviewer_edit", [s \in OfKind(signals, "reviewer_edit") |-> EditTheme(s)])

RejectionClusters(signals) ==
    GroupedClusters("rejected_claim", [s \in OfKind(signals, "rejected_claim") |-> RejectionTheme(s)])

\* Active skills whose snapshot some cluster names, each with those clusters.
\* `active` maps a skill to its active snapshot, or to None.
ImpactedSkills(clusters, active) ==
    LET touching(k) == {c \in clusters : active[k] \in c.snapshots}
    IN  {[skill |-> k, snapshot |-> active[k], clusters |-> touching(k),
          supporting |-> UNION {c.signals : c \in touching(k)}] :
            k \in {j \in DOMAIN active : touching(j) # {}}}

\* The signature of a proposal: the skill and the themes, not the signals.
PatternHash(skill, clusters) == << skill, {c.theme : c \in clusters} >>

Least(a, b) == IF a <= b THEN a ELSE b

\* In hundredths.
Confidence(clusters) ==
    Least(95, 40 + 10 * Cardinality(UNION {c.signals : c \in clusters}))

\* A version is <<major, minor, patch>>, or None when missing or unreadable.
BumpMinor(version) ==
    IF version = None THEN << 1, 1, 0 >>
    ELSE << version[1], version[2] + 1, version[3] >>

\* Bug: an approved draft is not scanned.
RouteUnscanned(decision) == IF decision = "approved" THEN "update" ELSE "reject"

\* Where an approval leads after the gate, and everything else.
RouteAfterGate3(decision) == IF decision = "approved" THEN "scan" ELSE "reject"

=============================================================================
