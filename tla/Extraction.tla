----------------------------- MODULE Extraction ------------------------------
(***************************************************************************)
(* From a web page to what a business profile keeps of it:                 *)
(* HtmlContentExtractor reads the page, RedactionPolicy cleans what it     *)
(* found, EnrichBusinessProfile assembles the rest.                        *)
(*                                                                         *)
(* A text is a sequence of tokens; what the redaction removes becomes a    *)
(* gap, which stands for the space the code puts there.  A token of digits *)
(* is too short for a telephone number, two with nothing but space between *)
(* them are one.  A hidden token has characters inside it that _CONTROL    *)
(* lists, and no pattern matches it while it has; what other invisible     *)
(* characters break up is a word to every pattern, before and after.       *)
(***************************************************************************)
EXTENDS Naturals, Sequences, FiniteSets

CONSTANTS
    Pages,            \* the pages a business website may serve
    MaxDescriptors,   \* MAX_DESCRIPTORS
    MaxPhotos,        \* MAX_PHOTOS
    MaxTokens,        \* MAX_DESCRIPTOR_CHARS, in tokens
    NONE              \* None

Kinds == {"word", "short", "email", "url", "digits", "gap"}
\* word: the token, casefolded; upper: whether its case was folded.
Token == [kind : Kinds, word : STRING \cup {NONE}, upper : BOOLEAN, hidden : BOOLEAN]
Text  == Seq(Token)
Gap   == [kind |-> "gap", word |-> NONE, upper |-> FALSE, hidden |-> FALSE]

\* web: whether the URL resolves to http(s); broken: whether resolving it raises a
\* ValueError instead; photo: whether the tag looks like a photo, not like
\* furniture of the page.
Image == [url : STRING, web : BOOLEAN, broken : BOOLEAN, photo : BOOLEAN]

\* A node of the page's JSON-LD, in the order in which _walk meets them.
Node == [business : BOOLEAN, named : BOOLEAN, phone : Text \cup {NONE},
         keywords : Seq(Text), images : Seq(Image)]

\* thin: it looks like a JavaScript shell; named: a meta tag or the title gives a
\* name or a description; keywords and cards: what the meta tags say; imgs: its
\* <img> tags.
Page == [thin : BOOLEAN, named : BOOLEAN, nodes : Seq(Node), keywords : Seq(Text),
         cards : Seq(Image), imgs : Seq(Image)]

Profile == [phone : Text \cup {NONE}, descriptors : SUBSET Text, photos : SUBSET STRING]

ASSUME PageAssumption == Pages \subseteq Page
ASSUME LimitAssumption == MaxDescriptors \in Nat /\ MaxPhotos \in Nat /\ MaxTokens \in Nat \ {0, 1}
ASSUME NoneAssumption == NONE \notin Text \cup Page

-----------------------------------------------------------------------------
(* Lists are functions on positions, some of which may be left out. *)

\* dict.setdefault: the first of those that f tells apart.
Firsts(S, f)  == {i \in S : \A j \in S : j < i => f[j] # f[i]}
Leading(S, n) == {i \in S : Cardinality({j \in S : j < i}) < n}

-----------------------------------------------------------------------------
(* HtmlContentExtractor.extract *)

NoNode == [business |-> TRUE, named |-> FALSE, phone |-> NONE, keywords |-> <<>>, images |-> <<>>]

BusinessNode(p) ==
    LET found == {i \in DOMAIN p.nodes : p.nodes[i].business}
    IN  IF found = {} THEN NoNode ELSE p.nodes[CHOOSE i \in found : \A j \in found : i <= j]

DescriptorsOf(p) ==
    LET said == BusinessNode(p).keywords \o p.keywords
    IN  [i \in Leading(Firsts(DOMAIN said, said), MaxDescriptors) |-> said[i]]

\* The page's own <img> tags count only when nothing else names a photo.
Stated(p) == BusinessNode(p).images \o p.cards
Images(p) == IF Stated(p) = <<>> THEN p.imgs ELSE Stated(p)
Candidates(p) == {i \in DOMAIN Images(p) : Stated(p) = <<>> => Images(p)[i].photo}

\* urljoin and urlsplit refuse a candidate, and the whole page with it.
ExtractRaises(p) == \E i \in Candidates(p) : Images(p)[i].broken

PhotosOf(p) ==
    LET usable == {i \in Candidates(p) : Images(p)[i].web}
        urls   == [i \in usable |-> Images(p)[i].url]
    IN  [i \in Leading(Firsts(usable, urls), MaxPhotos) |-> urls[i]]

Extract(p) ==
    [named       |-> BusinessNode(p).named \/ p.named,
     phone       |-> BusinessNode(p).phone,
     descriptors |-> DescriptorsOf(p),
     photos      |-> PhotosOf(p)]

IsEmpty(content) ==
    /\ ~content.named
    /\ content.phone = NONE
    /\ DOMAIN content.descriptors = {}
    /\ DOMAIN content.photos = {}

\* What is assembled when there is no content.
NoContent == [named |-> FALSE, phone |-> NONE, descriptors |-> <<>>, photos |-> <<>>]

-----------------------------------------------------------------------------
(* RedactionPolicy *)

\* Characters that _CONTROL lists are gone.
Visible(s) == [i \in DOMAIN s |-> [s[i] EXCEPT !.hidden = FALSE]]
Blank(s, where) == [i \in DOMAIN s |-> IF i \in where THEN Gap ELSE s[i]]

\* What a pattern matches.
Matching(s, kind) == {i \in DOMAIN s : s[i].kind = kind /\ ~s[i].hidden}
Between(k, i, j) == (i < k /\ k < j) \/ (j < k /\ k < i)
PhoneLike(s) ==
    {i \in Matching(s, "digits") :
        \E j \in Matching(s, "digits") :
            i # j /\ \A k \in DOMAIN s : Between(k, i, j) => s[k] = Gap}

\* Mutant: invisible characters are stripped from what is left in the end.
CleanInvisibleLast(s) ==
    LET noEmail == Blank(s, Matching(s, "email"))
        noUrl   == Blank(noEmail, Matching(noEmail, "url"))
    IN  Visible(Blank(noUrl, PhoneLike(noUrl)))

\* Invisible characters first, numbers last: an email address that goes may leave
\* two groups of digits together.
Clean(s) ==
    LET visible == Visible(s)
        noEmail == Blank(visible, Matching(visible, "email"))
        noUrl   == Blank(noEmail, Matching(noEmail, "url"))
    IN  Blank(noUrl, PhoneLike(noUrl))

Words(s) == {i \in DOMAIN s : s[i] # Gap}
TooShort(s) == \E i \in Words(s) : Words(s) = {i} /\ s[i].kind = "short"
Cut(s) == Blank(s, {i \in DOMAIN s : Cardinality({j \in Words(s) : j <= i}) > MaxTokens})

CleanOrNone(s) == IF s = NONE \/ Words(Clean(s)) = {} THEN NONE ELSE Clean(s)
CleanDescriptor(s) ==
    IF Words(Clean(s)) = {} \/ TooShort(Clean(s)) THEN NONE ELSE Cut(Clean(s))

\* str.casefold of the collapsed text.
Folded(s) ==
    LET kept == SelectSeq(s, LAMBDA t : t # Gap) IN [i \in DOMAIN kept |-> kept[i].word]

\* Mutant: duplicates are dropped before anything is cleaned.
CleanAllDedupedFirst(texts) ==
    LET said    == [i \in DOMAIN texts |-> Folded(texts[i])]
        firsts  == Firsts(DOMAIN texts, said)
        cleaned == [i \in firsts |-> CleanDescriptor(texts[i])]
        left    == {i \in firsts : cleaned[i] # NONE}
    IN  {cleaned[i] : i \in Leading(left, MaxDescriptors)}

CleanAll(texts) ==
    LET cleaned == [i \in DOMAIN texts |-> CleanDescriptor(texts[i])]
        left    == {i \in DOMAIN texts : cleaned[i] # NONE}
        said    == [i \in left |-> Folded(cleaned[i])]
    IN  {cleaned[i] : i \in Leading(Firsts(left, said), MaxDescriptors)}

-----------------------------------------------------------------------------
\* EnrichBusinessProfile._assemble, the fields that come from the website.
Assemble(content) ==
    [phone       |-> CleanOrNone(content.phone),
     descriptors |-> CleanAll(content.descriptors),
     photos      |-> {content.photos[i] : i \in Leading(DOMAIN content.photos, MaxPhotos)}]

\* What becomes of each page, and of no page.
BrokenPages == {p \in Pages : ExtractRaises(p)}
EmptyPages  == {p \in Pages \ BrokenPages : IsEmpty(Extract(p))}
ProfileOf  == [p \in Pages |-> Assemble(Extract(p))]
Unenriched == Assemble(NoContent)

-----------------------------------------------------------------------------
(* What a profile must be *)

\* A text without contact details, not even behind characters _CONTROL lists.
Contactless(s) ==
    /\ \A i \in DOMAIN s : s[i].kind \notin {"email", "url"} /\ ~s[i].hidden
    /\ PhoneLike(s) = {}

\* No more than the limits, nothing said twice in other letters, nothing blank.
Fits(made) ==
    /\ Cardinality(made.descriptors) <= MaxDescriptors
    /\ Cardinality(made.photos) <= MaxPhotos
    /\ \A d, e \in made.descriptors : Folded(d) = Folded(e) => d = e
    /\ \A d \in made.descriptors : Words(d) # {} /\ ~TooShort(d)
=============================================================================
