-------------------------- MODULE DesignBrief_proofs --------------------------
(***************************************************************************)
(* Theorems about DesignBrief for any batch, vocabularies and limits.      *)
(***************************************************************************)
EXTENDS DesignBrief, FiniteSetTheorems, TLAPS

LEMMA InvInit == Init => IInv
BY BatchAssumption, LimitAssumption
   DEF Init, IInv, TypeOK, SubmittedFitsBoth, SpendIsBounded, Control, Problems

\* What a read of the manifest yields, and what it leaves in the cache.
LEMMA ReadsFacts ==
    ASSUME TypeOK, NEW m \in Manifests \cup {Unusable}, Reads(m)
    PROVE  served' \in Manifests \cup {Unusable, NONE}
BY DEF Reads, TypeOK

\* The vocabulary of a manifest has the shape of one.
LEMMA VocabularyType ==
    ASSUME NEW m \in Manifests PROVE FromManifest(m) \in Vocabularies
BY ManifestAssumption DEF FromManifest, Vocabularies, Manifest

\* Leaving a business behind, from any point of it.
LEMMA InvLeave ==
    ASSUME IInv, pc \in {"ask", "generate", "compose", "submit"}, Leave,
           UNCHANGED <<live, manifest>>, served' \in Manifests \cup {Unusable, NONE}
    PROVE  IInv'
<1>1. manifest \in Manifests /\ at \in 1 .. N /\ N \in Nat
  BY BatchAssumption DEF IInv, TypeOK, Control
<1>2. /\ at' = at + 1 /\ pc' = (IF at = N THEN "done" ELSE "ask")
      /\ vocabulary' = NONE /\ attempt' = 0 /\ problems' = {} /\ brief' = NONE
      /\ usage' = 0 /\ billed' = 0
  BY DEF Leave
<1>3. TypeOK'
  BY <1>1, <1>2, BatchAssumption DEF IInv, TypeOK, Problems
<1>4. SubmittedFitsBoth' /\ SpendIsBounded'
  BY <1>2, LimitAssumption DEF SubmittedFitsBoth, SpendIsBounded
<1>5. Control'
  BY <1>1, <1>2 DEF Control
<1> QED BY <1>3, <1>4, <1>5 DEF IInv

LEMMA InvStart == ASSUME IInv, Start PROVE IInv'
<1>1. PICK m \in Manifests \cup {Unusable} :
        /\ Reads(m)
        /\ IF m = Unusable THEN pc' = "raised" /\ UNCHANGED manifest
           ELSE pc' = (IF N = 0 THEN "done" ELSE "ask") /\ manifest' = m
  BY DEF Start
<1>2. served' \in Manifests \cup {Unusable, NONE}
  BY <1>1, ReadsFacts DEF IInv
<1>3. pc = "start" /\ UNCHANGED <<live, at, vocabulary, attempt, problems, brief, usage, billed>>
  BY DEF Start, locals
<1>4. TypeOK'
  BY <1>1, <1>2, <1>3 DEF IInv, TypeOK
<1>5. SubmittedFitsBoth' /\ SpendIsBounded'
  BY <1>1, <1>3 DEF IInv, SubmittedFitsBoth, SpendIsBounded
<1>6. Control'
  BY <1>1, <1>3, BatchAssumption DEF IInv, TypeOK, Control
<1> QED BY <1>4, <1>5, <1>6 DEF IInv

LEMMA InvAsk == ASSUME IInv, Ask PROVE IInv'
<1>1. PICK m \in Manifests \cup {Unusable} :
        /\ Reads(m)
        /\ IF m = Unusable THEN Leave
           ELSE /\ vocabulary' = FromManifest(m)
                /\ attempt' = 1
                /\ pc' = "generate"
                /\ UNCHANGED <<at, problems, brief, usage, billed>>
  BY DEF Ask
<1>2. served' \in Manifests \cup {Unusable, NONE}
  BY <1>1, ReadsFacts DEF IInv
<1>3. pc = "ask" /\ live' = live /\ manifest' = manifest
  BY DEF Ask
<1>4. CASE m = Unusable
  BY <1>1, <1>2, <1>3, <1>4, InvLeave
<1>5. CASE m # Unusable
  <2>1. vocabulary' \in Vocabularies /\ vocabulary' # NONE
    BY <1>1, <1>5, VocabularyType, ValueAssumption
  <2>2. TypeOK'
    BY <1>1, <1>2, <1>3, <1>5, <2>1 DEF IInv, TypeOK
  <2>3. SubmittedFitsBoth' /\ SpendIsBounded'
    BY <1>1, <1>3, <1>5 DEF IInv, SubmittedFitsBoth, SpendIsBounded
  <2>4. Control'
    BY <1>1, <1>3, <1>5, <2>1, LimitAssumption DEF IInv, Control
  <2> QED BY <2>2, <2>3, <2>4 DEF IInv
<1> QED BY <1>4, <1>5

\* Another round, or the end of this business.
LEMMA InvRetry ==
    ASSUME IInv, pc = "generate", NEW found \in SUBSET Problems, NEW reported \in {0, 1},
           Retry(found, reported), UNCHANGED <<live, served, manifest>>
    PROVE  IInv'
<1>0. served' \in Manifests \cup {Unusable, NONE}
  BY DEF IInv, TypeOK
<1>1. CASE attempt > MaxRepairs
  BY <1>0, <1>1, InvLeave DEF Retry
<1>2. CASE ~(attempt > MaxRepairs)
  <2>1. /\ attempt' = attempt + 1 /\ problems' = found
        /\ usage' = usage + reported /\ billed' = billed + 1
        /\ at' = at /\ pc' = pc /\ vocabulary' = vocabulary /\ brief' = brief
    BY <1>2 DEF Retry
  <2>2. /\ attempt \in Nat /\ usage \in Nat /\ billed \in Nat /\ usage <= billed
        /\ attempt \in 1 .. MaxRepairs + 1 /\ billed < attempt
    BY DEF IInv, TypeOK, Control, SpendIsBounded
  <2>3. TypeOK'
    BY <2>1, <2>2 DEF IInv, TypeOK
  <2>4. SubmittedFitsBoth' /\ SpendIsBounded'
    BY <1>2, <2>1, <2>2, LimitAssumption DEF SubmittedFitsBoth, SpendIsBounded
  <2>5. Control'
    BY <1>2, <2>1, <2>2, LimitAssumption DEF IInv, Control
  <2> QED BY <2>3, <2>4, <2>5 DEF IInv
<1> QED BY <1>1, <1>2

LEMMA InvGenerate == ASSUME IInv, Generate PROVE IInv'
<1>1. PICK b \in Briefs :
        LET found == VocabularyProblems(b, vocabulary) \cup ContentProblems(b) IN
        IF found = {}
        THEN /\ brief' = b
             /\ pc' = "compose"
             /\ usage' = usage + 1 /\ billed' = billed + 1
             /\ UNCHANGED <<at, vocabulary, attempt, problems>>
        ELSE Retry(found, 1)
  BY DEF Generate
<1>2. pc = "generate" /\ live' = live /\ served' = served /\ manifest' = manifest
  BY DEF Generate
<1> DEFINE found == VocabularyProblems(b, vocabulary) \cup ContentProblems(b)
<1>3. found \in SUBSET Problems
  BY DEF VocabularyProblems, ContentProblems, Problems
<1>4. CASE found # {}
  <2>1. Retry(found, 1)
    BY <1>1, <1>4
  <2> HIDE DEF found
  <2> QED BY <1>2, <1>3, <2>1, InvRetry
<1>5. CASE found = {}
  <2>1. /\ brief' = b /\ pc' = "compose" /\ usage' = usage + 1 /\ billed' = billed + 1
        /\ at' = at /\ vocabulary' = vocabulary /\ attempt' = attempt /\ problems' = problems
    BY <1>1, <1>5
  <2>2. Accepted(b, vocabulary)
    <3>1. /\ "families" \notin found /\ "move" \notin found /\ "mood" \notin found
          /\ "mark" \notin found /\ "claim" \notin found
      BY <1>5
    <3>2. b.text \in {"plain", "mark", "claim"}
      BY DEF Briefs, Texts
    <3>3. b.text = "plain"
      BY <3>1, <3>2 DEF ContentProblems
    <3>4. /\ \A i \in DOMAIN b.families : b.families[i] \in vocabulary.families
          /\ b.mood \in vocabulary.moods /\ b.move \in vocabulary.moves
      BY <3>1 DEF VocabularyProblems
    <3> QED BY <3>3, <3>4 DEF Accepted
  <2>3. /\ usage \in Nat /\ billed \in Nat /\ attempt \in 1 .. MaxRepairs + 1
        /\ usage <= billed /\ billed < attempt
    BY <1>2 DEF IInv, TypeOK, SpendIsBounded, Control
  <2>4. TypeOK'
    BY <1>2, <2>1, <2>3 DEF IInv, TypeOK
  <2>5. SubmittedFitsBoth' /\ SpendIsBounded'
    BY <2>1, <2>3, LimitAssumption DEF SubmittedFitsBoth, SpendIsBounded
  <2>6. Control'
    BY <1>2, <2>1, <2>2, ValueAssumption DEF IInv, Control
  <2> QED BY <2>4, <2>5, <2>6 DEF IInv
<1> QED BY <1>4, <1>5

-----------------------------------------------------------------------------
(* Composing *)

\* Going round a list never leaves it.
LEMMA Cycle == ASSUME NEW n \in Nat \ {0}, NEW k \in Nat PROVE (k % n) + 1 \in 1 .. n
OBVIOUS

\* A scene is named after one of the manifest's templates, its slots are that
\* template's, one by one, and its families are the brief's.
LEMMA SceneFacts ==
    ASSUME NEW business \in Businesses, NEW b \in Briefs, NEW m \in Manifests
    PROVE  LET scene == Scene(business, b, m) IN
           /\ \E i \in DOMAIN m.templates :
                /\ m.templates[i].id = scene.template
                /\ DOMAIN scene.materials = DOMAIN m.templates[i].slots
                /\ \A k \in DOMAIN scene.materials :
                     scene.materials[k].slot = m.templates[i].slots[k]
           /\ \A k \in DOMAIN scene.materials :
                \E j \in DOMAIN b.families : b.families[j] = scene.materials[k].family
           /\ scene.mood = b.mood
           /\ scene.move = b.move
<1> DEFINE index == (Digest[business] % Len(m.templates)) + 1
           picked == m.templates[index]
           scene == Scene(business, b, m)
<1>1. /\ m.templates \in Seq([id : Ids, slots : Seq(Slots)]) /\ Len(m.templates) \in Nat \ {0}
      /\ DOMAIN m.templates = 1 .. Len(m.templates)
  <2>1. m \in Manifest /\ Len(m.templates) > 0
    BY ManifestAssumption
  <2>2. m.templates \in Seq([id : Ids, slots : Seq(Slots)])
    BY <2>1 DEF Manifest
  <2> QED BY <2>1, <2>2
<1>2. index \in 1 .. Len(m.templates)
  <2>1. Digest[business] \in Nat
    BY BatchAssumption DEF Businesses
  <2> QED BY <1>1, <2>1, Cycle
<1> DEFINE slots == picked.slots
<1>3. slots \in Seq(Slots) /\ Len(slots) \in Nat /\ DOMAIN slots = 1 .. Len(slots)
  <2>1. picked \in [id : Ids, slots : Seq(Slots)]
    <3> DEFINE Templates == [id : Ids, slots : Seq(Slots)]
    <3>1. m.templates \in Seq(Templates)
      BY <1>1
    <3> HIDE DEF index, Templates
    <3>2. picked \in Templates
      BY <1>2, <3>1
    <3> QED BY <3>2 DEF Templates
  <2> HIDE DEF picked
  <2> QED BY <2>1
<1>4. PICK n \in 1 .. MaxFamilies : b.families \in [1 .. n -> Families]
  BY DEF Briefs
<1>5. n \in Nat \ {0} /\ Len(b.families) = n /\ DOMAIN b.families = 1 .. n
  <2>1. n \in Nat \ {0}
    BY <1>4, LimitAssumption
  <2>2. b.families \in Seq(Families)
    BY <1>4, <2>1
  <2> QED BY <1>4, <2>1, <2>2
<1> DEFINE family(k) == b.families[((k - 1) % Len(b.families)) + 1]
           materials == [k \in 1 .. Len(slots) |-> [slot |-> slots[k], family |-> family(k)]]
<1>6. /\ scene.template = picked.id /\ scene.mood = b.mood /\ scene.move = b.move
      /\ scene.materials = materials
  BY DEF Scene
<1> HIDE DEF slots, index, scene
<1>7. ASSUME NEW k \in 1 .. Len(slots)
      PROVE  /\ materials[k].slot = slots[k]
             /\ materials[k].family = family(k)
             /\ \E j \in DOMAIN b.families : b.families[j] = family(k)
  <2>1. k - 1 \in Nat
    BY <1>3
  <2>2. ((k - 1) % n) + 1 \in 1 .. n
    BY <1>5, <2>1, Cycle
  <2> QED BY <1>5, <2>2
<1>8. DOMAIN materials = 1 .. Len(slots)
  OBVIOUS
<1> HIDE DEF materials, family
<1>9. \E i \in DOMAIN m.templates :
        /\ m.templates[i].id = scene.template
        /\ DOMAIN scene.materials = DOMAIN m.templates[i].slots
        /\ \A k \in DOMAIN scene.materials :
             scene.materials[k].slot = m.templates[i].slots[k]
  <2>1. index \in DOMAIN m.templates
    BY <1>1, <1>2
  <2>2. m.templates[index].slots = slots
    BY DEF slots
  <2>3. m.templates[index].id = scene.template
    BY <1>6
  <2> QED BY <1>3, <1>6, <1>7, <1>8, <2>1, <2>2, <2>3
<1>10. \A k \in DOMAIN scene.materials :
         \E j \in DOMAIN b.families : b.families[j] = scene.materials[k].family
  BY <1>6, <1>7, <1>8
<1> QED BY <1>6, <1>9, <1>10 DEF scene

\* What holds of a brief and its scene once the brief was accepted.
LEMMA AcceptedScene ==
    ASSUME IInv, pc = "compose"
    PROVE  /\ at \in Businesses /\ brief \in Briefs /\ manifest \in Manifests
           /\ vocabulary \in Vocabularies /\ Accepted(brief, vocabulary)
BY BatchAssumption DEF IInv, TypeOK, Control, Businesses

LEMMA InvCompose == ASSUME IInv, Compose PROVE IInv'
<1>1. pc = "compose" /\ SceneFits(Submitted, manifest)
  BY DEF Compose, Submitted
<1>2. /\ pc' = "submit" /\ live' = live /\ served' = served /\ manifest' = manifest /\ at' = at
      /\ vocabulary' = vocabulary /\ attempt' = attempt /\ problems' = problems
      /\ brief' = brief /\ usage' = usage /\ billed' = billed
  BY DEF Compose, locals
<1>3. /\ at \in Businesses /\ brief \in Briefs /\ manifest \in Manifests
      /\ vocabulary \in Vocabularies /\ Accepted(brief, vocabulary)
  BY <1>1, AcceptedScene
<1>4. Submitted' = Submitted
  BY <1>2 DEF Submitted, Scene
<1>5. TypeOK' /\ SpendIsBounded' /\ Control'
  BY <1>1, <1>2, <1>4 DEF IInv, TypeOK, SpendIsBounded, Control
<1>6. /\ \A i \in DOMAIN Submitted.materials :
           Submitted.materials[i].family \in vocabulary.families \cap manifest.families
      /\ Submitted.mood \in vocabulary.moods \cap manifest.moods
      /\ Submitted.move \in vocabulary.moves \cap manifest.moves
      /\ brief.text = "plain"
  <2>1. /\ \A i \in DOMAIN Submitted.materials :
             \E j \in DOMAIN brief.families : brief.families[j] = Submitted.materials[i].family
        /\ Submitted.mood = brief.mood /\ Submitted.move = brief.move
    BY <1>3, SceneFacts DEF Submitted
  <2> HIDE DEF Submitted
  <2> QED BY <1>1, <1>3, <2>1 DEF Accepted, SceneFits
<1>7. SubmittedFitsBoth'
  BY <1>2, <1>4, <1>6 DEF SubmittedFitsBoth
<1> QED BY <1>5, <1>7 DEF IInv

LEMMA InvNext == IInv /\ [Next]_vars => IInv'
<1> SUFFICES ASSUME IInv, [Next]_vars PROVE IInv'
  OBVIOUS
<1>0. served \in Manifests \cup {Unusable, NONE}
  BY DEF IInv, TypeOK
<1>1. CASE Start
  BY <1>1, InvStart
<1>2. CASE Ask
  BY <1>2, InvAsk
<1>3. CASE CallFails
  BY <1>3, InvRetry DEF CallFails, Problems
<1>4. CASE SdkRaises \/ ComposeRaises
  <2>1. /\ pc' = "raised" /\ live' = live /\ served' = served /\ manifest' = manifest /\ at' = at
        /\ vocabulary' = vocabulary /\ attempt' = attempt /\ problems' = problems
        /\ brief' = brief /\ usage' = usage /\ billed' = billed
    BY <1>4 DEF SdkRaises, ComposeRaises, locals
  <2> QED BY <2>1 DEF IInv, TypeOK, SubmittedFitsBoth, SpendIsBounded, Control
<1>5. CASE Generate
  BY <1>5, InvGenerate
<1>6. CASE Compose
  BY <1>6, InvCompose
<1>7. CASE Unrenderable \/ Submit
  BY <1>0, <1>7, InvLeave DEF Unrenderable, Submit
<1>8. CASE Deploy \/ Expire \/ OtherReads \/ UNCHANGED vars
  <2>1. /\ pc' = pc /\ manifest' = manifest /\ at' = at
        /\ vocabulary' = vocabulary /\ attempt' = attempt /\ problems' = problems
        /\ brief' = brief /\ usage' = usage /\ billed' = billed
    BY <1>8 DEF Deploy, Expire, OtherReads, vars, locals
  <2>2. live' \in Manifests /\ served' \in Manifests \cup {Unusable, NONE}
    BY <1>8 DEF Deploy, Expire, OtherReads, vars, IInv, TypeOK
  <2>3. Submitted' = Submitted
    BY <2>1 DEF Submitted, Scene
  <2>4. TypeOK' /\ SpendIsBounded' /\ Control'
    BY <2>1, <2>2, <2>3 DEF IInv, TypeOK, SpendIsBounded, Control
  <2>5. SubmittedFitsBoth'
    BY <2>1, <2>3 DEF IInv, SubmittedFitsBoth
  <2> QED BY <2>4, <2>5 DEF IInv
<1> QED BY <1>1, <1>2, <1>3, <1>4, <1>5, <1>6, <1>7, <1>8 DEF Next, Proceed

-----------------------------------------------------------------------------
\* The inductive invariant holds in every reachable state.
THEOREM Invariance == Spec => []IInv
BY InvInit, InvNext, PTL DEF Spec

\* Every variable keeps the shape of what it stands for.
THEOREM TypeCorrect == Spec => []TypeOK
<1>1. IInv => TypeOK
  BY DEF IInv
<1> QED BY <1>1, Invariance, PTL

\* Whatever is submitted satisfies the vocabulary its brief was checked against
\* and the manifest its scene was checked against, and carries no mark or claim
\* of the brief's, for any number of businesses, deploys and expiries.
THEOREM SubmissionsFitBoth == Spec => []SubmittedFitsBoth
<1>1. IInv => SubmittedFitsBoth
  BY DEF IInv
<1> QED BY <1>1, Invariance, PTL

\* One business never costs more than the first call and its repairs.
THEOREM SpendStaysBounded == Spec => []SpendIsBounded
<1>1. IInv => SpendIsBounded
  BY DEF IInv
<1> QED BY <1>1, Invariance, PTL

\* The mandatory exclusions come before the cut: not one of them repeats an
\* earlier one, and no more than themselves stand before any of them.
LEMMA MandatoryKept ==
    ASSUME NEW b \in Briefs, NEW place \in DOMAIN Mandatory
    PROVE  Mandatory[place] \in Exclusions(b.listed)
<1> DEFINE merged    == Mandatory \o b.listed
           firsts    == {i \in DOMAIN merged : \A j \in 1 .. i - 1 : merged[j] # merged[i]}
           before(i) == {j \in firsts : j < i}
<1>1. b.listed \in Seq(STRING)
  BY ExclusionAssumption DEF Briefs
<1>2. /\ merged \in Seq(STRING) /\ place \in DOMAIN merged /\ place \in Nat
      /\ place \in 1 .. Len(Mandatory) /\ Len(Mandatory) \in Nat
      /\ \A i \in 1 .. Len(Mandatory) : merged[i] = Mandatory[i]
  BY <1>1, ExclusionAssumption
<1>3. place \in firsts
  <2> SUFFICES ASSUME NEW j \in 1 .. place - 1 PROVE merged[j] # merged[place]
    BY <1>2
  <2>1. j \in DOMAIN Mandatory /\ j # place /\ j \in 1 .. Len(Mandatory)
    BY <1>2, ExclusionAssumption
  <2>2. merged[j] = Mandatory[j] /\ merged[place] = Mandatory[place]
    BY <1>2, <2>1
  <2> QED BY <2>1, <2>2, ExclusionAssumption
<1>4. Cardinality(before(place)) < MaxExclusions
  <2>1. before(place) \subseteq 1 .. place - 1
    BY <1>2
  <2>2. IsFiniteSet(1 .. place - 1) /\ Cardinality(1 .. place - 1) = place - 1
    <3>1. 1 \in Int /\ place - 1 \in Int
      BY <1>2
    <3>2. /\ IsFiniteSet(1 .. place - 1)
          /\ Cardinality(1 .. place - 1) = IF 1 > place - 1 THEN 0 ELSE place - 1 - 1 + 1
      BY <3>1, FS_Interval, Zenon
    <3> QED BY <3>2, <1>2
  <2> HIDE DEF before
  <2>3. /\ IsFiniteSet(before(place)) /\ Cardinality(before(place)) <= place - 1
        /\ Cardinality(before(place)) \in Nat
    BY <2>1, <2>2, FS_Subset, FS_CardinalityType
  <2> QED BY <1>2, <2>3, ExclusionAssumption
<1> HIDE DEF firsts
<1>5. merged[place] \in {merged[i] : i \in {k \in firsts : Cardinality(before(k)) < MaxExclusions}}
  BY <1>3, <1>4
<1> HIDE DEF merged
<1>6. Mandatory[place] \in {merged[i] : i \in {k \in firsts : Cardinality(before(k)) < MaxExclusions}}
  BY <1>2, <1>5
<1> QED BY <1>6 DEF Exclusions, Kept, merged, firsts

\* Whatever the model lists, a brief is never sent back for a missing exclusion.
THEOREM ExclusionsNeverCost == Spec => []ExclusionsNeverReject
<1>1. Init => ExclusionsNeverReject
  BY DEF Init, ExclusionsNeverReject
<1>2. ExclusionsNeverReject /\ [Next]_vars => ExclusionsNeverReject'
  <2> SUFFICES ASSUME "exclusions" \notin problems, [Next]_vars
               PROVE  "exclusions" \notin problems'
    BY DEF ExclusionsNeverReject
  <2>1. ASSUME Leave PROVE "exclusions" \notin problems'
    BY <2>1 DEF Leave
  <2>2. ASSUME NEW found, NEW reported, Retry(found, reported), "exclusions" \notin found
        PROVE  "exclusions" \notin problems'
    BY <2>1, <2>2 DEF Retry
  <2>3. CASE Generate
    <3>1. PICK b \in Briefs :
            LET found == VocabularyProblems(b, vocabulary) \cup ContentProblems(b) IN
            IF found = {} THEN problems' = problems ELSE Retry(found, 1)
      BY <2>3 DEF Generate
    <3> DEFINE found == VocabularyProblems(b, vocabulary) \cup ContentProblems(b)
    <3>2. "exclusions" \notin found
      <4>1. b.text # "exclusions"
        BY DEF Briefs, Texts
      <4> QED BY <4>1, MandatoryKept DEF VocabularyProblems, ContentProblems
    <3>3. problems' = problems \/ Retry(found, 1)
      BY <3>1
    <3> HIDE DEF found
    <3> QED BY <2>2, <3>2, <3>3
  <2>4. CASE CallFails
    <3>1. Retry({"upstream"}, 0)
      BY <2>4 DEF CallFails
    <3> QED BY <2>2, <3>1
  <2>5. CASE Ask \/ Unrenderable \/ Submit
    BY <2>1, <2>5 DEF Ask, Unrenderable, Submit
  <2>6. CASE Start \/ SdkRaises \/ Compose \/ ComposeRaises \/ Deploy \/ Expire \/ OtherReads
             \/ UNCHANGED vars
    BY <2>6 DEF Start, SdkRaises, Compose, ComposeRaises, Deploy, Expire, OtherReads, vars, locals
  <2> QED BY <2>3, <2>4, <2>5, <2>6 DEF Next, Proceed
<1> QED BY <1>1, <1>2, PTL DEF Spec

\* Composing an accepted brief fails only through the manifests: picking a
\* template and going round the families stay inside them.
THEOREM OnlyManifestsFail == Spec => OnlyManifestsFailComposing
<1>1. ASSUME IInv, pc = "compose"
      PROVE  /\ manifest \in Manifests /\ Accepted(brief, vocabulary)
             /\ \E i \in DOMAIN manifest.templates :
                  /\ manifest.templates[i].id = Submitted.template
                  /\ DOMAIN Submitted.materials = DOMAIN manifest.templates[i].slots
                  /\ \A k \in DOMAIN Submitted.materials :
                       Submitted.materials[k].slot = manifest.templates[i].slots[k]
             /\ \A k \in DOMAIN Submitted.materials :
                  \E j \in DOMAIN brief.families : brief.families[j] = Submitted.materials[k].family
             /\ Submitted.mood = brief.mood /\ Submitted.move = brief.move
  <2>1. /\ at \in Businesses /\ brief \in Briefs /\ manifest \in Manifests
        /\ Accepted(brief, vocabulary)
    BY <1>1, AcceptedScene
  <2> QED BY <2>1, SceneFacts DEF Submitted
<1> DEFINE scene == Submitted
<1> HIDE DEF scene
<1>2. ASSUME IInv, Unrenderable, vocabulary = FromManifest(manifest), manifest.roomy,
             Unambiguous(manifest)
      PROVE  FALSE
  <2>1. pc = "compose" /\ ~SceneFits(scene, manifest)
    BY <1>2 DEF Unrenderable, Submitted, scene
  <2>2. /\ vocabulary.families = manifest.families /\ vocabulary.moves = manifest.moves
        /\ vocabulary.moods \subseteq manifest.moods
    BY <1>2 DEF FromManifest
  <2>3. PICK i \in DOMAIN manifest.templates :
          /\ manifest.templates[i].id = scene.template
          /\ DOMAIN scene.materials = DOMAIN manifest.templates[i].slots
          /\ \A k \in DOMAIN scene.materials :
               scene.materials[k].slot = manifest.templates[i].slots[k]
    BY <1>1, <1>2, <2>1 DEF scene
  <2>4. \A j \in 1 .. i - 1 : manifest.templates[j].id # scene.template
    <3>1. \E S : manifest.templates \in Seq(S)
      BY <1>1, <1>2, <2>1, ManifestAssumption DEF Manifest
    <3>2. \A j \in 1 .. i - 1 : j \in DOMAIN manifest.templates /\ j # i
      BY <2>3, <3>1
    <3> QED BY <1>2, <2>3, <3>2 DEF Unambiguous
  <2>5. \A k \in DOMAIN scene.materials :
          \E j \in DOMAIN manifest.templates[i].slots :
            manifest.templates[i].slots[j] = scene.materials[k].slot
    BY <2>3
  <2>6. /\ \A k \in DOMAIN scene.materials : scene.materials[k].family \in manifest.families
        /\ scene.mood \in manifest.moods /\ scene.move \in manifest.moves
    BY <1>1, <1>2, <2>1, <2>2 DEF Accepted, scene
  <2> QED BY <1>2, <2>1, <2>3, <2>4, <2>5, <2>6 DEF SceneFits
<1>3. ASSUME IInv, ComposeRaises, NoSlotTwice(manifest), vocabulary.families \cap Unwieldy = {}
      PROVE  FALSE
  <2>1. pc = "compose" /\ IsInvalid(scene)
    BY <1>3 DEF ComposeRaises, Submitted, scene
  <2>2. \A k \in DOMAIN scene.materials : scene.materials[k].family \notin Unwieldy
    BY <1>1, <1>3, <2>1 DEF Accepted, scene
  <2>3. \A i, j \in DOMAIN scene.materials :
          scene.materials[i].slot = scene.materials[j].slot => i = j
    BY <1>1, <1>3, <2>1 DEF NoSlotTwice, scene
  <2> QED BY <2>1, <2>2, <2>3 DEF IsInvalid
<1> DEFINE Excused ==
      /\ Unrenderable => \/ vocabulary # FromManifest(manifest)
                         \/ ~manifest.roomy
                         \/ ~Unambiguous(manifest)
      /\ ComposeRaises => \/ ~NoSlotTwice(manifest)
                          \/ vocabulary.families \cap Unwieldy # {}
<1>4. IInv /\ [Next]_vars => [Excused]_vars
  BY <1>2, <1>3
<1> QED BY <1>4, Invariance, PTL DEF Spec, OnlyManifestsFailComposing
=============================================================================
