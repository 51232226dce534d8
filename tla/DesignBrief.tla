----------------------------- MODULE DesignBrief -----------------------------
(***************************************************************************)
(* From a profile to a scene: GenerateDesignBrief asks the model for a     *)
(* brief in the renderer's vocabulary, checks it and lets it be repaired;  *)
(* ComposeSceneSpec maps it to a scene and checks that against the         *)
(* manifest.  One batch of RunMakeoverPipeline, which reads the manifest   *)
(* once, while every brief reads it again through the response cache, and  *)
(* while the render service may be deployed with another vocabulary.       *)
(***************************************************************************)
EXTENDS Naturals, Sequences, FiniteSets

CONSTANTS
    N,              \* businesses in the batch
    Digest,         \* the number each business's id hashes to
    Slots,          \* material slots
    Ids,            \* what templates may be called
    Families,       \* material families anyone may name
    Unwieldy,       \* those whose name a scene may not carry: empty, or too long
    Moods,          \* LightingMood, and LightingPreset alike
    Moves,          \* camera moves anyone may name
    Manifests,      \* manifests the render service may publish
    MaxFamilies,    \* the contract's limit on a brief's families
    MaxRepairs,     \* brief_max_repair_attempts
    Mandatory,      \* MANDATORY_EXCLUSIONS
    MaxExclusions,  \* MAX_DO_NOT_INCLUDE
    Listings,       \* what the model may list in do_not_include
    Unusable,       \* a body that is no manifest
    NONE

Businesses == 1 .. N

\* roomy: the limits admit the one duration and frame rate a scene asks for.
\* Samples and resolution are cut to the limits and always fit.
\* Nothing keeps two templates from sharing an id, or a slot from repeating.
Manifest == [templates : Seq([id : Ids, slots : Seq(Slots)]), families : SUBSET Families,
             moods : SUBSET Moods, moves : SUBSET Moves, roomy : BOOLEAN]

ASSUME BatchAssumption == N \in Nat /\ Digest \in [Businesses -> Nat]
ASSUME ManifestAssumption ==
    \A m \in Manifests : /\ m \in Manifest
                         /\ Len(m.templates) > 0
                         /\ \A i \in 1 .. Len(m.templates) : Len(m.templates[i].slots) > 0
ASSUME ExclusionAssumption ==
    /\ Mandatory \in Seq(STRING) /\ Listings \subseteq Seq(STRING)
    /\ \A i, j \in DOMAIN Mandatory : Mandatory[i] = Mandatory[j] => i = j
    /\ MaxExclusions \in Nat /\ Len(Mandatory) <= MaxExclusions
ASSUME LimitAssumption == MaxFamilies \in Nat /\ MaxRepairs \in Nat

Vocabularies == [families : SUBSET Families, moods : SUBSET Moods, moves : SUBSET Moves]

\* A brief that passed the contract.  text: what signage and rationale claim.
Texts  == {"plain", "mark", "claim"}
Briefs == [families : UNION {[1 .. n -> Families] : n \in 1 .. MaxFamilies},
           mood : Moods, move : Moves, text : Texts, listed : Listings]

ASSUME ValueAssumption ==
    /\ NONE \notin Manifests \cup Vocabularies \cup Briefs \cup {Unusable}
    /\ Unusable \notin Manifests

VARIABLES
    live,        \* the manifest the render service has now
    served,      \* /capabilities in the response cache: a manifest, Unusable or NONE
    manifest,    \* what the batch read
    at,          \* the business in hand
    pc,          \* where the batch is
    vocabulary,  \* the words the current brief may use
    attempt,     \* calls made for it
    problems,    \* why the last one was rejected
    brief,       \* the brief that was accepted
    usage,       \* calls whose tokens the result will report
    billed       \* history: calls the provider answered

locals == <<vocabulary, attempt, problems, brief, usage, billed>>
vars == <<live, served, manifest, at, pc, locals>>

-----------------------------------------------------------------------------
(* The pure parts *)

FromManifest(m) == [families |-> m.families, moods |-> m.moods \cap Moods, moves |-> m.moves]

\* What is left of a list that is kept without repetitions and cut at the limit.
Kept(merged) ==
    LET firsts == {i \in DOMAIN merged : \A j \in 1 .. i - 1 : merged[j] # merged[i]}
    IN  {merged[i] : i \in {k \in firsts : Cardinality({j \in firsts : j < k}) < MaxExclusions}}

\* Mutant: the model's own exclusions come first.
ListedFirst(listed) == Kept(listed \o Mandatory)

\* _with_mandatory_exclusions: the mandatory ones, then what the model added.
Exclusions(listed) == Kept(Mandatory \o listed)

\* Mutant: the camera move is not checked.
VocabularyProblemsNoMove(b, words) ==
    {p \in {"families", "mood"} :
        \/ p = "families" /\ ~ \A i \in DOMAIN b.families : b.families[i] \in words.families
        \/ p = "mood"     /\ b.mood \notin words.moods}

VocabularyProblems(b, words) ==
    {p \in {"families", "move", "mood"} :
        \/ p = "families" /\ ~ \A i \in DOMAIN b.families : b.families[i] \in words.families
        \/ p = "move"     /\ b.move \notin words.moves
        \/ p = "mood"     /\ b.mood \notin words.moods}

\* Mutant: the signage is searched for marks, no text for claims.
ContentProblemsNoClaim(b) ==
    {p \in {"mark", "exclusions"} :
        \/ p = b.text
        \/ p = "exclusions" /\ ~ \A i \in DOMAIN Mandatory : Mandatory[i] \in Exclusions(b.listed)}

ContentProblems(b) ==
    {p \in {"mark", "claim", "exclusions"} :
        \/ p = b.text
        \/ p = "exclusions" /\ ~ \A i \in DOMAIN Mandatory : Mandatory[i] \in Exclusions(b.listed)}

Problems == {"upstream", "families", "move", "mood", "mark", "claim", "exclusions"}

\* The scene of a business: _pick_template, _assign_materials; its texts are
\* left out.
Scene(business, b, m) ==
    LET picked == m.templates[(Digest[business] % Len(m.templates)) + 1]
    IN  [template  |-> picked.id,
         materials |-> [i \in 1 .. Len(picked.slots) |->
                          [slot   |-> picked.slots[i],
                           family |-> b.families[((i - 1) % Len(b.families)) + 1]]],
         mood      |-> b.mood,
         move      |-> b.move]

\* SceneSpec refuses two assignments to one slot, MaterialAssignment a family
\* whose name is empty or too long: a ValidationError.
IsInvalid(scene) ==
    \/ \E i, j \in DOMAIN scene.materials :
         i # j /\ scene.materials[i].slot = scene.materials[j].slot
    \/ \E i \in DOMAIN scene.materials : scene.materials[i].family \in Unwieldy

\* validate_against_manifest: the template is the first of its id.
SceneFits(scene, m) ==
    /\ \E i \in DOMAIN m.templates :
         /\ m.templates[i].id = scene.template
         /\ \A j \in 1 .. i - 1 : m.templates[j].id # scene.template
         /\ \A k \in DOMAIN scene.materials :
              \E j \in DOMAIN m.templates[i].slots :
                m.templates[i].slots[j] = scene.materials[k].slot
    /\ \A k \in DOMAIN scene.materials : scene.materials[k].family \in m.families
    /\ scene.mood \in m.moods
    /\ scene.move \in m.moves
    /\ m.roomy

-----------------------------------------------------------------------------
Init ==
    /\ live \in Manifests
    /\ served \in {live, NONE}
    /\ manifest = NONE
    /\ at = 1
    /\ pc = "start"
    /\ vocabulary = NONE /\ attempt = 0 /\ problems = {} /\ brief = NONE
    /\ usage = 0 /\ billed = 0

\* CapabilitySource.manifest() yields m, or raises when m is Unusable: from the
\* cache, or from the service, whose body is stored before it is parsed.
Reads(m) ==
    \/ served # NONE /\ m = served /\ UNCHANGED served
    \/ served = NONE /\ m = live /\ served' = live
    \/ served = NONE /\ m = Unusable /\ served' \in {NONE, Unusable}

\* Mutant: goes on for one business more than there are.
LeavePastEnd ==
    /\ at' = at + 1
    /\ pc' = IF at > N THEN "done" ELSE "ask"
    /\ vocabulary' = NONE /\ attempt' = 0 /\ problems' = {} /\ brief' = NONE
    /\ usage' = 0 /\ billed' = 0

\* On to the next business; what execute held for this one is gone.
Leave ==
    /\ at' = at + 1
    /\ pc' = IF at = N THEN "done" ELSE "ask"
    /\ vocabulary' = NONE /\ attempt' = 0 /\ problems' = {} /\ brief' = NONE
    /\ usage' = 0 /\ billed' = 0

Start ==
    /\ pc = "start"
    /\ \E m \in Manifests \cup {Unusable} :
         /\ Reads(m)
         /\ IF m = Unusable THEN pc' = "raised" /\ UNCHANGED manifest
            ELSE pc' = (IF N = 0 THEN "done" ELSE "ask") /\ manifest' = m
    /\ UNCHANGED <<live, at, locals>>

\* GenerateDesignBrief reads the manifest again, for its vocabulary.
Ask ==
    /\ pc = "ask"
    /\ \E m \in Manifests \cup {Unusable} :
         /\ Reads(m)
         /\ IF m = Unusable THEN Leave
            ELSE /\ vocabulary' = FromManifest(m)
                 /\ attempt' = 1
                 /\ pc' = "generate"
                 /\ UNCHANGED <<at, problems, brief, usage, billed>>
    /\ UNCHANGED <<live, manifest>>

\* Mutant: allows one repair round more than it was told to.
RetryOnceMore(found, reported) ==
    IF attempt > MaxRepairs + 1 THEN Leave
    ELSE /\ attempt' = attempt + 1
         /\ problems' = found
         /\ usage' = usage + reported
         /\ billed' = billed + 1
         /\ UNCHANGED <<at, pc, vocabulary, brief>>

\* Another round, told what was wrong, or an UpstreamError: BRIEF_FAILED.
\* reported: whether the call's tokens are counted in the result.
Retry(found, reported) ==
    IF attempt > MaxRepairs THEN Leave
    ELSE /\ attempt' = attempt + 1
         /\ problems' = found
         /\ usage' = usage + reported
         /\ billed' = billed + 1
         /\ UNCHANGED <<at, pc, vocabulary, brief>>

\* A refusal, a truncated answer, no tool call, or a brief that breaks the
\* contract: the tokens are spent, but no GeneratedBrief carries their count.
CallFails ==
    /\ pc = "generate"
    /\ Retry({"upstream"}, 0)
    /\ UNCHANGED <<live, served, manifest>>

\* The SDK's own exceptions are not UpstreamErrors: they end the batch.
SdkRaises ==
    /\ pc = "generate"
    /\ pc' = "raised"
    /\ UNCHANGED <<live, served, manifest, at, locals>>

Generate ==
    /\ pc = "generate"
    /\ \E b \in Briefs :
         LET found == VocabularyProblems(b, vocabulary) \cup ContentProblems(b) IN
         IF found = {}
         THEN /\ brief' = b
              /\ pc' = "compose"
              /\ usage' = usage + 1 /\ billed' = billed + 1
              /\ UNCHANGED <<at, vocabulary, attempt, problems>>
         ELSE Retry(found, 1)
    /\ UNCHANGED <<live, served, manifest>>

Compose ==
    /\ pc = "compose"
    /\ ~IsInvalid(Scene(at, brief, manifest))
    /\ SceneFits(Scene(at, brief, manifest), manifest)
    /\ pc' = "submit"
    /\ UNCHANGED <<live, served, manifest, at, locals>>

\* An UpstreamError: RENDER_FAILED, and the brief was paid for in vain.
Unrenderable ==
    /\ pc = "compose"
    /\ ~IsInvalid(Scene(at, brief, manifest))
    /\ ~SceneFits(Scene(at, brief, manifest), manifest)
    /\ Leave
    /\ UNCHANGED <<live, served, manifest>>

\* SceneSpec's ValidationError is no UpstreamError: it ends the batch.
ComposeRaises ==
    /\ pc = "compose"
    /\ IsInvalid(Scene(at, brief, manifest))
    /\ pc' = "raised"
    /\ UNCHANGED <<live, served, manifest, at, locals>>

\* The scene is handed to the render client: MakeoverBatch has the rest.
Submit ==
    /\ pc = "submit"
    /\ Leave
    /\ UNCHANGED <<live, served, manifest>>

-----------------------------------------------------------------------------
(* Around the batch *)

\* The render service is deployed with another vocabulary.
Deploy ==
    /\ live' \in Manifests \ {live}
    /\ UNCHANGED <<served, manifest, at, pc, locals>>

\* The cached answer expires or is evicted.
Expire ==
    /\ served # NONE
    /\ served' = NONE
    /\ UNCHANGED <<live, manifest, at, pc, locals>>

\* Another request of the same process reads the manifest.
OtherReads ==
    /\ served = NONE
    /\ served' \in {live, Unusable}
    /\ UNCHANGED <<live, manifest, at, pc, locals>>

-----------------------------------------------------------------------------
Proceed ==
    \/ Start \/ Ask \/ CallFails \/ SdkRaises \/ Generate
    \/ Compose \/ Unrenderable \/ ComposeRaises \/ Submit
Next == Proceed \/ Deploy \/ Expire \/ OtherReads

Spec == Init /\ [][Next]_vars

-----------------------------------------------------------------------------
\* Every variable has the shape of what it stands for.
TypeOK ==
    /\ live \in Manifests
    /\ served \in Manifests \cup {Unusable, NONE}
    /\ manifest \in Manifests \cup {NONE}
    /\ at \in 1 .. N + 1
    /\ pc \in {"start", "ask", "generate", "compose", "submit", "done", "raised"}
    /\ vocabulary \in Vocabularies \cup {NONE}
    /\ attempt \in Nat
    /\ problems \subseteq Problems
    /\ brief \in Briefs \cup {NONE}
    /\ usage \in Nat
    /\ billed \in Nat

\* SubmittedFitsBoth: what is submitted was checked twice, against vocabularies
\* read at different times, and satisfies both; and it comes from a brief
\* without marks or claims.  ("an unrenderable or non-compliant brief must
\* never reach a scene", generate_design_brief.py:85-86)
Submitted == Scene(at, brief, manifest)
SubmittedFitsBoth ==
    pc = "submit" =>
        /\ \A i \in DOMAIN Submitted.materials :
             Submitted.materials[i].family \in vocabulary.families \cap manifest.families
        /\ Submitted.mood \in vocabulary.moods \cap manifest.moods
        /\ Submitted.move \in vocabulary.moves \cap manifest.moves
        /\ brief.text = "plain"

\* OnlyManifestsFailComposing: composing an accepted brief fails only through
\* what the render service published.  It is an UpstreamError only when the
\* brief was made from another manifest than the batch's, or that one does not
\* admit the scene's clip or gives two templates one id; it is a ValidationError
\* only when a template names a slot twice or the brief's vocabulary offered a
\* family whose name no scene may carry.  Picking a template by digest and
\* going round the families never fails by themselves.
Unambiguous(m) ==
    \A i, j \in DOMAIN m.templates : m.templates[i].id = m.templates[j].id => i = j
NoSlotTwice(m) ==
    \A t \in DOMAIN m.templates : \A i, j \in DOMAIN m.templates[t].slots :
        m.templates[t].slots[i] = m.templates[t].slots[j] => i = j
OnlyManifestsFailComposing ==
    [][/\ Unrenderable => \/ vocabulary # FromManifest(manifest)
                          \/ ~manifest.roomy
                          \/ ~Unambiguous(manifest)
       /\ ComposeRaises => \/ ~NoSlotTwice(manifest)
                           \/ vocabulary.families \cap Unwieldy # {}]_vars

\* ExclusionsNeverReject: no brief is ever rejected, and no call paid again, for
\* lacking a mandatory exclusion, however much the model listed itself.
ExclusionsNeverReject == "exclusions" \notin problems

\* SpendIsBounded: one business never costs more calls than the first one and
\* its repairs, and no call is reported that was not made.
SpendIsBounded == usage <= billed /\ billed <= MaxRepairs + 1

\* What makes the above inductive: which of the locals are set at which point,
\* and what was true of the brief when it was accepted.
Accepted(b, words) ==
    /\ \A i \in DOMAIN b.families : b.families[i] \in words.families
    /\ b.mood \in words.moods /\ b.move \in words.moves /\ b.text = "plain"
Control ==
    /\ pc \in {"ask", "generate", "compose", "submit"} => manifest \in Manifests /\ at <= N
    /\ pc = "start" => at = 1
    /\ pc \in {"start", "ask"} => attempt = 0 /\ usage = 0 /\ billed = 0
    /\ pc = "generate" =>
         /\ vocabulary # NONE
         /\ attempt \in 1 .. MaxRepairs + 1 /\ billed < attempt
    /\ pc \in {"compose", "submit"} =>
         vocabulary # NONE /\ brief # NONE /\ Accepted(brief, vocabulary)
    /\ pc = "submit" => SceneFits(Submitted, manifest)
IInv == TypeOK /\ SubmittedFitsBoth /\ SpendIsBounded /\ Control
=============================================================================
