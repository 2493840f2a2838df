----------------------------- MODULE ContentRules -----------------------------
(***************************************************************************)
(* What the content graph computes without any store: which types of        *)
(* artifact a run plans and which skills feed each, the key of a model      *)
(* call, how claims are grounded in evidence, and which findings block.     *)
(*                                                                          *)
(* A text is known by its content words, the figures in it and the patterns *)
(* that match it.                                                           *)
(***************************************************************************)
EXTENDS Naturals, FiniteSets, Sequences

CONSTANT TopK  \* candidates the matcher returns for one claim

ASSUME ContentRulesAssumption == TopK \in Nat \ {0}

-----------------------------------------------------------------------------
(* Planning *)

\* The types in their order, and the skill that shapes each.
FormatSkill ==
    [release_blog |-> "blog-format", changelog_entry |-> "changelog-format",
     sales_onepager |-> "sales-onepager-format", linkedin_post |-> "social-post-format",
     demo_script |-> "demo-script-format", release_audio_digest |-> "audio-digest-format",
     customer_email |-> "customer-email-format",
     battlecard_delta |-> "battlecard-delta-format", x_post |-> "x-post-format",
     hackernews_post |-> "hackernews-post-format"]

ArtifactTypes == DOMAIN FormatSkill

\* The canonical order, in which results are collected.
TypeOrder == << "release_blog", "changelog_entry", "sales_onepager", "linkedin_post",
               "demo_script", "release_audio_digest", "customer_email",
               "battlecard_delta", "x_post", "hackernews_post" >>

Place(type) == CHOOSE i \in DOMAIN TypeOrder : TypeOrder[i] = type

\* How many of the types come before one.
Rank(type, types) == Cardinality({u \in types : Place(u) < Place(type)})

\* A stored selection: not empty, and of known types.
ValidSelection(selected) == selected # {} /\ selected \subseteq ArtifactTypes

CodeDefaultSkills(type) == {FormatSkill[type], "brand-voice"}

\* A stored map wins for every key it has a row for; one that cannot be read
\* is one without rows.
Resolved(stored, key, codeDefault) ==
    IF key \in DOMAIN stored THEN stored[key] ELSE codeDefault

\* gate_artifact_types: what the run selected and the agent may produce.
GateArtifactTypes(selected, agents) ==
    selected \cap Resolved(agents, "content-generation", ArtifactTypes)

\* _skills_for_spec: a wanted skill without a snapshot is skipped.
SkillsForSpec(type, snapshots, capabilities) ==
    {s \in snapshots : s.name \in Resolved(capabilities, type, CodeDefaultSkills(type))}

\* _render_features and _system_prompt: what the model is shown of a feature.
Prompt(type, features, skills, voice) ==
    [type |-> type, features |-> features, skills |-> skills, voice |-> voice]

\* Bug: the loaded skills are not part of the key.
KeyWithoutSkills(prompt) ==
    << "generate", prompt.type, {<< f.id, f.title >> : f \in prompt.features}, prompt.voice >>

\* _idempotency_key: of a feature the id, title and value, not the summary.
GenerationKey(prompt) ==
    << "generate", prompt.type, {<< f.id, f.title >> : f \in prompt.features},
       {s.hash : s \in prompt.skills}, prompt.voice >>

\* _extract_idempotency_key.
ExtractionKey(id, body) == << "extract", id, body >>

-----------------------------------------------------------------------------
(* Grounding *)

\* _lexical_support reaches the threshold of 0.34.
LexicallySupports(claim, excerpt) ==
    /\ claim.words # {}
    /\ 100 * Cardinality(claim.words \cap excerpt.words) >= 34 * Cardinality(claim.words)

\* What the matcher may surface: the nearest of the embedded items, or any if
\* none is.
Candidates(evidence) ==
    LET embedded == {e \in evidence : e.embedded}
        pool == IF embedded # {} THEN embedded ELSE evidence
        count == IF Cardinality(pool) <= TopK THEN Cardinality(pool) ELSE TopK
    IN  {c \in SUBSET pool : Cardinality(c) = count}

\* link_claims_to_evidence: evidence that has all the figures and enough words.
Grounds(claim, candidates) ==
    {c.id : c \in {d \in candidates :
        claim.figures \subseteq d.figures /\ LexicallySupports(claim, d)}}

\* A claim as it is stored: supported exactly when it has links.
Resolve(claim, candidates) ==
    LET links == Grounds(claim, candidates)
    IN  [claim |-> claim, links |-> links,
         status |-> IF links = {} THEN "unsupported" ELSE "supported"]

-----------------------------------------------------------------------------
(* Checks *)

\* scan_named_entities, over the patterns that match a body.
NamedEntities == {"codename", "customer_name", "private_url", "internal_hostname",
                  "security_detail"}

Finding(code, blocking) == [code |-> code, blocking |-> blocking]

BodyFindings(body) ==
    {Finding(t, TRUE) : t \in body.traits \cap NamedEntities}
    \cup {Finding("secret_leak", TRUE) : t \in body.traits \cap {"secret"}}

\* What one claim is found to be: a figure without evidence blocks, and so
\* does a missing link if the risk is high.
ClaimFindings(stored) ==
    LET claim == stored.claim
        unsupported == stored.status = "unsupported"
    IN  {Finding("secret_leak", TRUE) : t \in claim.traits \cap {"secret"}}
        \cup {Finding("superlative", FALSE) : t \in claim.traits \cap {"superlative"}}
        \cup (IF ~unsupported THEN {}
              ELSE IF claim.figures # {} THEN {Finding("unverified_metric", TRUE)}
              ELSE {Finding("unsupported_claim", claim.risk = "high")})

\* run_bedrock_guardrails: an intervention blocks.
GuardrailFindings(body) ==
    {Finding("guardrail_blocked", TRUE) : t \in body.traits \cap {"denied_topic"}}

Findings(body, claims) ==
    BodyFindings(body) \cup UNION {ClaimFindings(c) : c \in claims} \cup GuardrailFindings(body)

\* apply_check_outcomes.
CheckedStatus(findings) ==
    IF \E f \in findings : f.blocking THEN "blocked" ELSE "draft"

=============================================================================
