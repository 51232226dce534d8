-------------------------- MODULE Extraction_proofs ---------------------------
(***************************************************************************)
(* Theorems about Extraction for any pages and limits: the profile made of *)
(* a page has the type and the size the contract asks for, and carries no  *)
(* contact detail.                                                         *)
(***************************************************************************)
EXTENDS Extraction, FunctionTheorems, FiniteSetTheorems, WellFoundedInduction, TLAPS

USE LimitAssumption, NoneAssumption

-----------------------------------------------------------------------------
(* Positions *)

\* A set of positions has a lowest one.
LEMMA LowestExists == ASSUME NEW S \in SUBSET Nat, S # {} PROVE \E i \in S : \A j \in S : i <= j
<1>1. PICK i \in S : \A j \in S : ~ (<<j, i>> \in OpToRel(<, Nat))
  BY NatLessThanWellFounded, WFMin
<1>2. ASSUME NEW j \in S, j < i PROVE FALSE
  <2>1. <<j, i>> \in Nat \X Nat /\ <<j, i>>[1] < <<j, i>>[2]
    BY <1>2, SMT
  <2>2. <<j, i>> \in OpToRel(<, Nat)
    BY <2>1, Zenon DEF OpToRel
  <2> QED BY <2>2, <1>1
<1>3. \A j \in S : i <= j
  BY <1>2, SMT
<1> QED BY <1>3

\* A set of positions in a list has a highest one.
LEMMA HighestExists ==
    ASSUME NEW n \in Nat, NEW S \in SUBSET (1 .. n), S # {}
    PROVE  \E i \in S : \A j \in S : j <= i
<1> DEFINE Back == {n - i : i \in S}
<1>1. Back \in SUBSET Nat /\ Back # {}
  <2>1. \A i \in S : n - i \in Nat
    BY SMT
  <2> QED BY <2>1
<1> HIDE DEF Back
<1>2. PICK b \in Back : \A d \in Back : b <= d
  BY <1>1, LowestExists
<1>3. PICK i \in S : b = n - i
  BY DEF Back
<1>4. \A j \in S : n - j \in Back
  BY DEF Back
<1>5. \A j \in S : n - i <= n - j
  BY <1>2, <1>3, <1>4
<1>6. \A j \in S : j <= i
  BY <1>5, SMT
<1> QED BY <1>6

LEMMA PositionsFinite ==
    ASSUME NEW n \in Nat, NEW S \in SUBSET (1 .. n)
    PROVE  IsFiniteSet(S)
<1>1. IsFiniteSet(1 .. n)
  BY FS_Interval
<1> QED BY <1>1, FS_Subset

\* No more than the limit are among the first so many.
LEMMA LeadingIsShort ==
    ASSUME NEW n \in Nat, NEW S \in SUBSET (1 .. n), NEW limit \in Nat
    PROVE  /\ Leading(S, limit) \subseteq S
           /\ IsFiniteSet(Leading(S, limit))
           /\ Cardinality(Leading(S, limit)) <= limit
<1> DEFINE L == Leading(S, limit)
<1>1. L \subseteq S /\ L \in SUBSET (1 .. n) /\ IsFiniteSet(L)
  BY PositionsFinite DEF Leading
<1>2. CASE L = {}
  BY <1>1, <1>2, FS_EmptySet
<1>3. CASE L # {}
  <2>1. PICK m \in L : \A j \in L : j <= m
    BY <1>1, <1>3, HighestExists
  <2> DEFINE Below == {j \in S : j < m}
  <2>2. Cardinality(Below) < limit /\ IsFiniteSet(Below) /\ Cardinality(Below) \in Nat
    BY <1>1, <2>1, PositionsFinite, FS_CardinalityType DEF Leading
  <2>3. L \subseteq Below \cup {m}
    BY <1>1, <2>1
  <2> HIDE DEF L, Below
  <2>4. /\ IsFiniteSet(Below \cup {m})
        /\ Cardinality(Below \cup {m}) \in {Cardinality(Below), Cardinality(Below) + 1}
    BY <2>2, FS_AddElement, Zenon
  <2>5. Cardinality(L) <= Cardinality(Below \cup {m}) /\ Cardinality(L) \in Nat
        /\ Cardinality(Below \cup {m}) \in Nat
    BY <2>3, <2>4, FS_Subset, FS_CardinalityType, <1>1
  <2>6. Cardinality(L) <= limit
    BY <2>2, <2>4, <2>5
  <2> QED BY <1>1, <2>6 DEF L
<1> QED BY <1>2, <1>3

\* What a function takes on a list has no more members than the list.
LEMMA ImageIsShort ==
    ASSUME NEW S, IsFiniteSet(S), NEW f, NEW T, T = {f[i] : i \in S}
    PROVE  IsFiniteSet(T) /\ Cardinality(T) <= Cardinality(S)
<1> DEFINE g == [i \in S |-> f[i]]
<1>1. g \in Surjection(S, T)
  BY DEF Surjection
<1> QED BY <1>1, FS_Surjection

-----------------------------------------------------------------------------
(* The extractor *)

LEMMA BusinessNodeTyped == ASSUME NEW p \in Page PROVE BusinessNode(p) \in Node
<1> DEFINE found == {i \in DOMAIN p.nodes : p.nodes[i].business}
<1>1. p.nodes \in Seq(Node)
  BY DEF Page
<1>2. found \in SUBSET Nat /\ found \subseteq DOMAIN p.nodes
  BY <1>1
<1>3. CASE found = {}
  BY <1>3 DEF BusinessNode, NoNode, Node, Text
<1>4. CASE found # {}
  <2>1. \E i \in found : \A j \in found : i <= j
    BY <1>2, <1>4, LowestExists
  <2>2. (CHOOSE i \in found : \A j \in found : i <= j) \in DOMAIN p.nodes
    BY <1>2, <2>1
  <2>3. BusinessNode(p) = p.nodes[CHOOSE i \in found : \A j \in found : i <= j]
    BY <1>4 DEF BusinessNode
  <2>4. \A i \in DOMAIN p.nodes : p.nodes[i] \in Node
    BY <1>1
  <2> QED BY <2>2, <2>3, <2>4, Zenon
<1> QED BY <1>3, <1>4

\* A list of values at some of the positions of a sequence.
LEMMA DescriptorsTyped ==
    ASSUME NEW p \in Page
    PROVE  \E n \in Nat : \E D \in SUBSET (1 .. n) : DescriptorsOf(p) \in [D -> Text]
<1> DEFINE said == BusinessNode(p).keywords \o p.keywords
           D    == Leading(Firsts(DOMAIN said, said), MaxDescriptors)
<1>1. BusinessNode(p).keywords \in Seq(Text) /\ p.keywords \in Seq(Text)
  BY BusinessNodeTyped DEF Node, Page
<1>2. said \in Seq(Text)
  BY <1>1
<1>3. DescriptorsOf(p) = [i \in D |-> said[i]]
  BY DEF DescriptorsOf
<1> HIDE DEF said
<1>4. DOMAIN said = 1 .. Len(said) /\ Len(said) \in Nat /\ \A i \in DOMAIN said : said[i] \in Text
  BY <1>2
<1>5. D \in SUBSET (1 .. Len(said))
  BY <1>4 DEF Leading, Firsts
<1>6. DescriptorsOf(p) \in [D -> Text]
  BY <1>3, <1>4, <1>5
<1> QED BY <1>4, <1>5, <1>6

LEMMA PhotosTyped ==
    ASSUME NEW p \in Page
    PROVE  \E n \in Nat : \E D \in SUBSET (1 .. n) : PhotosOf(p) \in [D -> STRING]
<1> DEFINE images == Images(p)
           usable == {i \in Candidates(p) : images[i].web}
           urls   == [i \in usable |-> images[i].url]
           D      == Leading(Firsts(usable, urls), MaxPhotos)
<1>1. BusinessNode(p).images \in Seq(Image) /\ p.cards \in Seq(Image) /\ p.imgs \in Seq(Image)
  BY BusinessNodeTyped DEF Node, Page
<1>2. images \in Seq(Image) /\ Candidates(p) \subseteq DOMAIN images
  <2>1. Stated(p) \in Seq(Image)
    BY <1>1 DEF Stated
  <2>2. images \in Seq(Image)
    BY <1>1, <2>1 DEF Images
  <2>3. Candidates(p) \subseteq DOMAIN images
    BY DEF Candidates
  <2> QED BY <2>2, <2>3
<1>3. PhotosOf(p) = [i \in D |-> urls[i]]
  BY DEF PhotosOf
<1> HIDE DEF images
<1>4. DOMAIN images = 1 .. Len(images) /\ Len(images) \in Nat /\ \A i \in DOMAIN images : images[i].url \in STRING
  <2>1. \A i \in DOMAIN images : images[i] \in Image
    BY <1>2
  <2>2. \A i \in DOMAIN images : images[i].url \in STRING
    BY <2>1 DEF Image
  <2> QED BY <1>2, <2>2
<1>5. usable \subseteq 1 .. Len(images) /\ urls \in [usable -> STRING]
  BY <1>2, <1>4
<1> HIDE DEF usable, urls
<1>6. D \in SUBSET (1 .. Len(images)) /\ D \subseteq usable
  BY <1>5 DEF Leading, Firsts
<1>7. PhotosOf(p) \in [D -> STRING]
  BY <1>3, <1>5, <1>6
<1> QED BY <1>4, <1>6, <1>7

-----------------------------------------------------------------------------
(* The redaction *)

LEMMA BlankTyped ==
    ASSUME NEW s \in Text, NEW where
    PROVE  Blank(s, where) \in Text /\ DOMAIN Blank(s, where) = DOMAIN s
<1>1. \A i \in DOMAIN s : s[i] \in Token
  BY DEF Text
<1>2. Gap \in Token
  <2>1. "gap" \in Kinds
    BY DEF Kinds
  <2> QED BY <2>1 DEF Gap, Token
<1>3. DOMAIN s = 1 .. Len(s) /\ Len(s) \in Nat
  BY DEF Text
<1> QED BY <1>1, <1>2, <1>3 DEF Blank, Text

LEMMA VisibleTyped ==
    ASSUME NEW s \in Text
    PROVE  /\ Visible(s) \in Text /\ DOMAIN Visible(s) = DOMAIN s
           /\ \A i \in DOMAIN s : ~Visible(s)[i].hidden
<1>1. \A i \in DOMAIN s : s[i] \in Token
  BY DEF Text
<1>2. \A i \in DOMAIN s : [s[i] EXCEPT !.hidden = FALSE] \in Token /\ ~[s[i] EXCEPT !.hidden = FALSE].hidden
  BY <1>1 DEF Token
<1>3. DOMAIN s = 1 .. Len(s) /\ Len(s) \in Nat
  BY DEF Text
<1> DEFINE shown == [i \in DOMAIN s |-> [s[i] EXCEPT !.hidden = FALSE]]
<1>4. DOMAIN shown = DOMAIN s /\ \A i \in DOMAIN s : shown[i] \in Token /\ ~shown[i].hidden
  BY <1>2
<1>5. Visible(s) = shown
  BY DEF Visible
<1> HIDE DEF shown
<1>6. shown \in [1 .. Len(s) -> Token]
  <2>1. shown = [i \in DOMAIN s |-> shown[i]]
    BY DEF shown
  <2> QED BY <1>3, <1>4, <2>1
<1>7. shown \in Seq(Token)
  BY <1>3, <1>6
<1> QED BY <1>4, <1>5, <1>7 DEF Text

\* What is left of a visible text once a pattern is gone.
LEMMA BlankedVisible ==
    ASSUME NEW s \in Text, \A i \in DOMAIN s : ~s[i].hidden, NEW where
    PROVE  /\ \A i \in DOMAIN s : ~Blank(s, where)[i].hidden
           /\ \A i \in DOMAIN s : Blank(s, where)[i] \in {s[i], Gap}
           /\ \A i \in DOMAIN s \ where : Blank(s, where)[i] = s[i]
           /\ \A i \in DOMAIN s \cap where : Blank(s, where)[i] = Gap
  BY DEF Blank, Gap

LEMMA MatchedAreGone ==
    ASSUME NEW s \in Text, \A i \in DOMAIN s : ~s[i].hidden, NEW kind \in Kinds \ {"gap"}
    PROVE  \A i \in DOMAIN s : Blank(s, Matching(s, kind))[i].kind # kind
  BY DEF Blank, Matching, Gap, Kinds

\* Taking all numbers away at once leaves none: the one nearest to a group that
\* stayed would have taken it along.
LEMMA NoPhoneLeft ==
    ASSUME NEW s \in Text, \A i \in DOMAIN s : ~s[i].hidden
    PROVE  PhoneLike(Blank(s, PhoneLike(s))) = {}
<1> DEFINE t == Blank(s, PhoneLike(s))
<1> SUFFICES ASSUME NEW a \in DOMAIN s, NEW b \in DOMAIN s, a < b,
                    a \in Matching(t, "digits"), b \in Matching(t, "digits"),
                    \A k \in DOMAIN s : Between(k, a, b) => t[k] = Gap
             PROVE  FALSE
  <2>1. DOMAIN t = DOMAIN s /\ DOMAIN s \subseteq Nat
    BY BlankTyped DEF Text
  <2> HIDE DEF t
  <2>2. ASSUME NEW i \in PhoneLike(t) PROVE FALSE
    <3>1. PICK j \in Matching(t, "digits") :
              i # j /\ \A k \in DOMAIN t : Between(k, i, j) => t[k] = Gap
      BY <2>2 DEF PhoneLike
    <3>2. i \in Matching(t, "digits") /\ i \in DOMAIN s /\ j \in DOMAIN s
      BY <2>1, <2>2, <3>1 DEF PhoneLike, Matching
    <3>3. \A k : Between(k, i, j) <=> Between(k, j, i)
      BY DEF Between
    <3>4. CASE i < j
      BY <2>1, <3>1, <3>2, <3>4
    <3>5. CASE j < i
      BY <2>1, <3>1, <3>2, <3>3, <3>5
    <3>6. i \in Nat /\ j \in Nat /\ i # j
      BY <2>1, <3>1, <3>2
    <3> QED BY <3>4, <3>5, <3>6
  <2> QED BY <2>2 DEF t
<1>1. DOMAIN s \in SUBSET Nat
  BY DEF Text
<1>2. s[a] = t[a] /\ s[b] = t[b] /\ a \in Matching(s, "digits") /\ b \in Matching(s, "digits")
  BY DEF Matching, Blank, Gap
<1>3. a \notin PhoneLike(s)
  BY DEF Matching, Blank, Gap
<1> DEFINE Left == {k \in DOMAIN s : Between(k, a, b) /\ s[k] # Gap}
<1>4. \A k \in Left : k \in Matching(s, "digits")
  BY DEF Blank, PhoneLike
<1>5. PICK k \in Left \cup {b} : \A j \in Left \cup {b} : k <= j
  <2>1. Left \cup {b} \in SUBSET Nat /\ Left \cup {b} # {}
    BY <1>1
  <2> HIDE DEF Left
  <2> QED BY <2>1, LowestExists
<1>6. k \in Matching(s, "digits") /\ a < k /\ k <= b /\ k \in DOMAIN s
  BY <1>1, <1>2, <1>4, <1>5 DEF Between
<1>7. ASSUME NEW j \in DOMAIN s, Between(j, a, k) PROVE s[j] = Gap
  <2>1. a < j /\ j < k
    BY <1>1, <1>6, <1>7 DEF Between
  <2>2. Between(j, a, b) /\ j \notin Left
    BY <1>1, <1>5, <1>6, <2>1 DEF Between
  <2> QED BY <2>2
<1>8. a \in PhoneLike(s)
  BY <1>1, <1>2, <1>6, <1>7 DEF PhoneLike
<1> QED BY <1>3, <1>8

LEMMA CleanIsContactless ==
    ASSUME NEW s \in Text
    PROVE  Clean(s) \in Text /\ DOMAIN Clean(s) = DOMAIN s /\ Contactless(Clean(s))
<1> DEFINE v == Visible(s)
           e == Blank(v, Matching(v, "email"))
           u == Blank(e, Matching(e, "url"))
           d == Blank(u, PhoneLike(u))
<1>1. v \in Text /\ DOMAIN v = DOMAIN s /\ \A i \in DOMAIN s : ~v[i].hidden
  BY VisibleTyped
<1>2. e \in Text /\ DOMAIN e = DOMAIN s
      /\ \A i \in DOMAIN s : ~e[i].hidden /\ e[i].kind # "email"
  BY <1>1, BlankTyped, BlankedVisible, MatchedAreGone DEF Kinds
<1>3. u \in Text /\ DOMAIN u = DOMAIN s
      /\ \A i \in DOMAIN s : ~u[i].hidden /\ u[i].kind # "url" /\ u[i] \in {e[i], Gap}
  BY <1>2, BlankTyped, BlankedVisible, MatchedAreGone DEF Kinds
<1>4. d \in Text /\ DOMAIN d = DOMAIN s
      /\ \A i \in DOMAIN s : ~d[i].hidden /\ d[i] \in {u[i], Gap}
  BY <1>3, BlankTyped, BlankedVisible
<1>5. PhoneLike(d) = {}
  BY <1>3, NoPhoneLeft
<1>6. \A i \in DOMAIN d : d[i].kind \notin {"email", "url"} /\ ~d[i].hidden
  <2>1. Gap.kind = "gap"
    BY DEF Gap
  <2> HIDE DEF v, e, u, d
  <2>2. \A i \in DOMAIN s : u[i].kind \notin {"email", "url"}
    BY <1>2, <1>3, <2>1
  <2> QED BY <1>4, <2>1, <2>2
<1>7. Clean(s) = d
  BY DEF Clean
<1> HIDE DEF d
<1> QED BY <1>4, <1>5, <1>6, <1>7 DEF Contactless

LEMMA WordsOf ==
    ASSUME NEW s \in Text
    PROVE  /\ Words(s) \subseteq DOMAIN s /\ DOMAIN s \in SUBSET Nat
           /\ \A i : IsFiniteSet({j \in Words(s) : j <= i})
<1>1. DOMAIN s = 1 .. Len(s) /\ Len(s) \in Nat
  BY DEF Text
<1>2. \A i : {j \in Words(s) : j <= i} \in SUBSET (1 .. Len(s))
  BY <1>1 DEF Words
<1>3. \A i : IsFiniteSet({j \in Words(s) : j <= i})
  BY <1>1, <1>2, PositionsFinite
<1>4. Words(s) \subseteq DOMAIN s /\ DOMAIN s \in SUBSET Nat
  BY <1>1 DEF Words
<1> QED BY <1>3, <1>4

\* What is cut off is the end, and never the first two words.
LEMMA CutTakesTheEnd ==
    ASSUME NEW s \in Text
    PROVE  /\ Cut(s) \in Text /\ DOMAIN Cut(s) = DOMAIN s
           /\ \A i \in DOMAIN s : Cut(s)[i] \in {s[i], Gap}
           /\ \A i, j \in DOMAIN s : i < j /\ Cut(s)[j] # Gap => Cut(s)[i] = s[i]
           /\ \A i, j \in Words(s) :
                  (\A k \in Words(s) : k <= j => k \in {i, j}) => Cut(s)[j] = s[j]
<1> DEFINE Upto(i) == {j \in Words(s) : j <= i}
           Off     == {i \in DOMAIN s : Cardinality(Upto(i)) > MaxTokens}
<1>1. Cut(s) = Blank(s, Off)
  BY DEF Cut
<1>2. DOMAIN s \in SUBSET Nat /\ Words(s) \subseteq DOMAIN s /\ \A i : IsFiniteSet(Upto(i))
  BY WordsOf
<1>3. \A i \in DOMAIN s : Cut(s)[i] = IF i \in Off THEN Gap ELSE s[i]
  BY <1>1 DEF Blank
<1>4. \A i, j \in DOMAIN s : i < j /\ j \notin Off => i \notin Off
  <2> SUFFICES ASSUME NEW i \in DOMAIN s, NEW j \in DOMAIN s, i < j, j \notin Off
               PROVE  i \notin Off
    OBVIOUS
  <2>1. Upto(i) \subseteq Upto(j)
    BY <1>2
  <2>2. Cardinality(Upto(i)) <= Cardinality(Upto(j))
    BY <1>2, <2>1, FS_Subset
  <2>3. Cardinality(Upto(i)) \in Nat /\ Cardinality(Upto(j)) \in Nat
    BY <1>2, FS_CardinalityType
  <2> QED BY <2>2, <2>3
<1>5. ASSUME NEW i \in Words(s), NEW j \in Words(s), \A k \in Words(s) : k <= j => k \in {i, j}
      PROVE  j \notin Off
  <2>1. Upto(j) \subseteq {i, j}
    BY <1>5
  <2>2. IsFiniteSet({i}) /\ Cardinality({i}) = 1
    BY FS_Singleton
  <2>3. IsFiniteSet({i} \cup {j}) /\ Cardinality({i} \cup {j}) \in {1, 2}
    BY <2>2, FS_AddElement
  <2>4. Cardinality(Upto(j)) <= 2 /\ Cardinality(Upto(j)) \in Nat
    <3>1. Upto(j) \subseteq {i} \cup {j}
      BY <2>1
    <3> QED BY <1>2, <2>3, <3>1, FS_Subset, FS_CardinalityType
  <2> QED BY <2>4
<1>6. Cut(s) \in Text /\ DOMAIN Cut(s) = DOMAIN s
  BY <1>1, BlankTyped
<1> HIDE DEF Off
<1>7. \A i, j \in DOMAIN s : i < j /\ Cut(s)[j] # Gap => Cut(s)[i] = s[i]
  BY <1>3, <1>4
<1>8. \A i, j \in Words(s) :
          (\A k \in Words(s) : k <= j => k \in {i, j}) => Cut(s)[j] = s[j]
  BY <1>2, <1>3, <1>5
<1> QED BY <1>3, <1>6, <1>7, <1>8

\* A text that may be kept may be kept cut.
LEMMA CutKeeps ==
    ASSUME NEW s \in Text, Contactless(s), Words(s) # {}, ~TooShort(s)
    PROVE  Cut(s) \in Text /\ Contactless(Cut(s)) /\ Words(Cut(s)) # {} /\ ~TooShort(Cut(s))
<1> DEFINE t == Cut(s)
<1>1. /\ t \in Text /\ DOMAIN t = DOMAIN s
      /\ \A i \in DOMAIN s : t[i] \in {s[i], Gap}
      /\ \A i, j \in DOMAIN s : i < j /\ t[j] # Gap => t[i] = s[i]
      /\ \A i, j \in Words(s) :
             (\A k \in Words(s) : k <= j => k \in {i, j}) => t[j] = s[j]
  BY CutTakesTheEnd
<1>2. DOMAIN s \in SUBSET Nat /\ Words(s) \subseteq DOMAIN s
  BY WordsOf
<1> HIDE DEF t
<1>3. \A i \in DOMAIN t : t[i].kind \notin {"email", "url"} /\ ~t[i].hidden
  BY <1>1 DEF Contactless, Gap
<1>4. ASSUME NEW i \in PhoneLike(t) PROVE FALSE
  <2>1. PICK j \in Matching(t, "digits") :
            i # j /\ \A k \in DOMAIN t : Between(k, i, j) => t[k] = Gap
    BY <1>4 DEF PhoneLike
  <2>2. i \in DOMAIN s /\ j \in DOMAIN s /\ t[i].kind = "digits" /\ t[j].kind = "digits"
    BY <1>1, <1>4, <2>1 DEF PhoneLike, Matching
  <2>3. t[i] # Gap /\ t[j] # Gap /\ t[i] = s[i] /\ t[j] = s[j]
    BY <1>1, <2>2 DEF Gap
  <2>4. i \in Matching(s, "digits") /\ j \in Matching(s, "digits")
    BY <1>3, <1>1, <2>2, <2>3 DEF Matching
  <2>5. ASSUME NEW k \in DOMAIN s, Between(k, i, j) PROVE s[k] = Gap
    <3>1. k < i \/ k < j
      BY <2>5 DEF Between
    <3>2. t[k] = s[k]
      BY <1>1, <2>2, <2>3, <3>1
    <3> QED BY <1>1, <2>1, <2>5, <3>2
  <2>6. i \in PhoneLike(s)
    BY <2>1, <2>4, <2>5 DEF PhoneLike
  <2> QED BY <2>6 DEF Contactless
<1>5. PICK m \in Words(s) : \A j \in Words(s) : m <= j
  BY <1>2, LowestExists
<1>6. m \in Nat /\ t[m] = s[m]
  <2>1. m \in Nat
    BY <1>2, <1>5
  <2>2. \A k \in Words(s) : k <= m => k \in {m, m}
    BY <1>2, <1>5, <2>1
  <2> QED BY <1>1, <2>1, <2>2
<1>7. m \in Words(t)
  BY <1>1, <1>2, <1>6 DEF Words
<1>8. ASSUME NEW i \in Words(t), Words(t) = {i}, t[i].kind = "short" PROVE FALSE
  <2>1. i = m /\ s[m].kind = "short"
    BY <1>6, <1>7, <1>8
  <2> DEFINE Others == Words(s) \ {m}
  <2>2. Others # {} /\ Others \in SUBSET Nat
    BY <1>2, <2>1 DEF TooShort
  <2>3. PICK n \in Others : \A j \in Others : n <= j
    <3> HIDE DEF Others
    <3> QED BY <2>2, LowestExists
  <2>4. \A k \in Words(s) : k <= n => k \in {m, n}
    BY <1>2, <2>2, <2>3
  <2>5. t[n] = s[n]
    BY <1>1, <2>3, <2>4
  <2>6. n \in Words(t)
    BY <1>1, <1>2, <2>3, <2>5 DEF Words
  <2> QED BY <1>8, <2>1, <2>3, <2>6
<1> QED BY <1>1, <1>3, <1>4, <1>7, <1>8 DEF t, Contactless, TooShort

\* What is left of a descriptor, when something is.
LEMMA CleanDescriptorKeeps ==
    ASSUME NEW s \in Text, CleanDescriptor(s) # NONE
    PROVE  /\ CleanDescriptor(s) \in Text /\ Contactless(CleanDescriptor(s))
           /\ Words(CleanDescriptor(s)) # {} /\ ~TooShort(CleanDescriptor(s))
<1>1. Clean(s) \in Text /\ Contactless(Clean(s))
  BY CleanIsContactless
<1>2. Words(Clean(s)) # {} /\ ~TooShort(Clean(s)) /\ CleanDescriptor(s) = Cut(Clean(s))
  BY DEF CleanDescriptor
<1> QED BY <1>1, <1>2, CutKeeps

LEMMA CleanOrNoneKeeps ==
    ASSUME NEW s \in Text \cup {NONE}
    PROVE  /\ CleanOrNone(s) \in Text \cup {NONE}
           /\ CleanOrNone(s) # NONE => Contactless(CleanOrNone(s))
  BY CleanIsContactless DEF CleanOrNone

\* One spelling of each descriptor is kept, and no more than the limit.
LEMMA CleanAllKeeps ==
    ASSUME NEW n \in Nat, NEW D \in SUBSET (1 .. n), NEW texts \in [D -> Text]
    PROVE  /\ \A d \in CleanAll(texts) : d \in Text /\ Contactless(d) /\ Words(d) # {} /\ ~TooShort(d)
           /\ \A d, e \in CleanAll(texts) : Folded(d) = Folded(e) => d = e
           /\ Cardinality(CleanAll(texts)) <= MaxDescriptors
<1> DEFINE cleaned == [i \in D |-> CleanDescriptor(texts[i])]
           left    == {i \in D : cleaned[i] # NONE}
           said    == [i \in left |-> Folded(cleaned[i])]
           firsts  == Firsts(left, said)
           kept    == Leading(firsts, MaxDescriptors)
<1>1. CleanAll(texts) = {cleaned[i] : i \in kept}
  BY DEF CleanAll
<1>2. \A i \in left : /\ cleaned[i] \in Text /\ Contactless(cleaned[i])
                      /\ Words(cleaned[i]) # {} /\ ~TooShort(cleaned[i])
  BY CleanDescriptorKeeps
<1> HIDE DEF cleaned
<1>3. left \in SUBSET (1 .. n) /\ left \in SUBSET Nat
  <2>1. left \subseteq D
    OBVIOUS
  <2>2. D \subseteq Nat /\ D \subseteq 1 .. n
    OBVIOUS
  <2> HIDE DEF left
  <2> QED BY <2>1, <2>2
<1> HIDE DEF left
<1>4. \A i, j \in firsts : Folded(cleaned[i]) = Folded(cleaned[j]) => i = j
  BY <1>3 DEF Firsts
<1>5. firsts \in SUBSET (1 .. n) /\ firsts \subseteq left
  BY <1>3 DEF Firsts
<1> HIDE DEF firsts
<1>6. kept \subseteq firsts /\ IsFiniteSet(kept) /\ Cardinality(kept) <= MaxDescriptors
  BY <1>5, LeadingIsShort
<1> HIDE DEF kept
<1>7. IsFiniteSet(CleanAll(texts)) /\ Cardinality(CleanAll(texts)) <= Cardinality(kept)
  BY <1>1, <1>6, ImageIsShort
<1>8. Cardinality(CleanAll(texts)) <= MaxDescriptors
  BY <1>6, <1>7, FS_CardinalityType
<1>9. \A d \in CleanAll(texts) : d \in Text /\ Contactless(d) /\ Words(d) # {} /\ ~TooShort(d)
  BY <1>1, <1>2, <1>5, <1>6
<1>10. \A d, e \in CleanAll(texts) : Folded(d) = Folded(e) => d = e
  BY <1>1, <1>4, <1>6
<1> QED BY <1>8, <1>9, <1>10

-----------------------------------------------------------------------------
(* The profile *)

\* What content may hold.
Content(c) ==
    /\ c.phone \in Text \cup {NONE}
    /\ \E n \in Nat : \E D \in SUBSET (1 .. n) : c.descriptors \in [D -> Text]
    /\ \E n \in Nat : \E D \in SUBSET (1 .. n) : c.photos \in [D -> STRING]

\* Whatever content it is given, _assemble makes a profile of the right shape and
\* size in which no text gives a contact away.
THEOREM AssembleKeeps ==
    ASSUME NEW c, Content(c)
    PROVE  LET made == Assemble(c)
           IN  /\ made \in Profile
               /\ Fits(made)
               /\ \A d \in made.descriptors : Contactless(d)
               /\ made.phone # NONE => Contactless(made.phone)
<1> DEFINE made   == Assemble(c)
           photos == {c.photos[i] : i \in Leading(DOMAIN c.photos, MaxPhotos)}
<1>1. /\ made.phone = CleanOrNone(c.phone)
      /\ made.descriptors = CleanAll(c.descriptors)
      /\ made.photos = photos
      /\ made = [phone |-> CleanOrNone(c.phone), descriptors |-> CleanAll(c.descriptors),
                 photos |-> photos]
  BY DEF Assemble
<1>2. CleanOrNone(c.phone) \in Text \cup {NONE}
      /\ (CleanOrNone(c.phone) # NONE => Contactless(CleanOrNone(c.phone)))
  BY CleanOrNoneKeeps DEF Content
<1>3. PICK n \in Nat : \E D \in SUBSET (1 .. n) : c.descriptors \in [D -> Text]
  BY DEF Content
<1>4. /\ \A d \in CleanAll(c.descriptors) :
             d \in Text /\ Contactless(d) /\ Words(d) # {} /\ ~TooShort(d)
      /\ \A d, e \in CleanAll(c.descriptors) : Folded(d) = Folded(e) => d = e
      /\ Cardinality(CleanAll(c.descriptors)) <= MaxDescriptors
  BY <1>3, CleanAllKeeps
<1>5. PICK m \in Nat : \E D \in SUBSET (1 .. m) : c.photos \in [D -> STRING]
  BY DEF Content
<1>6. PICK D \in SUBSET (1 .. m) : c.photos \in [D -> STRING]
  BY <1>5
<1>7. /\ Leading(D, MaxPhotos) \subseteq D /\ IsFiniteSet(Leading(D, MaxPhotos))
      /\ Cardinality(Leading(D, MaxPhotos)) <= MaxPhotos
  BY LeadingIsShort
<1>8. photos \in SUBSET STRING
  BY <1>6, <1>7
<1>9. IsFiniteSet(photos) /\ Cardinality(photos) <= Cardinality(Leading(D, MaxPhotos))
  BY <1>6, <1>7, ImageIsShort
<1>10. Cardinality(photos) <= MaxPhotos
  BY <1>7, <1>9, FS_CardinalityType
<1> HIDE DEF made, photos
<1>11. made \in Profile
  BY <1>1, <1>2, <1>4, <1>8 DEF Profile
<1>12. Fits(made)
  BY <1>1, <1>4, <1>10 DEF Fits
<1> QED BY <1>1, <1>2, <1>4, <1>11, <1>12 DEF made

\* What the extractor hands on is such content, and so is none at all.
LEMMA ExtractIsContent == ASSUME NEW p \in Page PROVE Content(Extract(p))
<1>1. BusinessNode(p).phone \in Text \cup {NONE}
  BY BusinessNodeTyped DEF Node
<1> QED BY <1>1, DescriptorsTyped, PhotosTyped DEF Content, Extract

LEMMA NothingIsContent == Content(NoContent)
<1>1. <<>> \in [{} -> Text] /\ <<>> \in [{} -> STRING] /\ {} \in SUBSET (1 .. 0)
  OBVIOUS
<1> QED BY <1>1 DEF Content, NoContent

\* The profile of any page, and the one made without a page.
THEOREM ProfilesKeep ==
    \A made \in {ProfileOf[p] : p \in Pages} \cup {Unenriched} :
        /\ made \in Profile
        /\ Fits(made)
        /\ \A d \in made.descriptors : Contactless(d)
        /\ made.phone # NONE => Contactless(made.phone)
<1>1. ASSUME NEW p \in Pages
      PROVE  ProfileOf[p] = Assemble(Extract(p)) /\ Content(Extract(p))
  BY ExtractIsContent, PageAssumption DEF ProfileOf
<1>2. Unenriched = Assemble(NoContent)
  BY DEF Unenriched
<1> QED BY <1>1, <1>2, NothingIsContent, AssembleKeeps
=============================================================================
