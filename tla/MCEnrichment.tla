---------------------------- MODULE MCEnrichment ----------------------------
(* Enrichment on a small instance: see the .cfg files for the bounds. *)
EXTENDS Enrichment

MCToken(kind, word)   == [kind |-> kind, word |-> word, upper |-> FALSE, hidden |-> FALSE]
MCHidden(kind, word)  == [MCToken(kind, word) EXCEPT !.hidden = TRUE]
MCUpper(word)         == [MCToken("word", word) EXCEPT !.upper = TRUE]
MCImage(url, web, photo) == [url |-> url, web |-> web, broken |-> FALSE, photo |-> photo]
MCBroken(url) == [url |-> url, web |-> FALSE, broken |-> TRUE, photo |-> TRUE]

MCHalal == MCToken("word", "halal")
MCPhone == MCToken("digits", "6737")
MCMail  == MCToken("email", "a@b.sg")

MCNode(business, phone, keywords, images) ==
    [business |-> business, named |-> FALSE, phone |-> phone, keywords |-> keywords,
     images |-> images]
MCPage(thin, named, nodes, keywords, cards, imgs) ==
    [thin |-> thin, named |-> named, nodes |-> nodes, keywords |-> keywords,
     cards |-> cards, imgs |-> imgs]

\* A shell with nothing in it; a shell with a title and two spellings of a word,
\* one of them with an address behind an invisible character; a page whose node
\* is no business, with an icon and a photo; a page whose business node has an
\* address between two groups of digits, a telephone number, a long text, a short
\* one, more words than may be kept and images that are no URLs of the web; a page
\* whose photo has an address nothing can be made of.
MCPages == {
    MCPage(TRUE, FALSE, <<>>, <<>>, <<>>, <<>>),
    MCPage(TRUE, TRUE, <<>>,
           <<<<MCUpper("halal")>>, <<MCHalal, MCHidden("email", "a@b.sg")>>>>, <<>>, <<>>),
    MCPage(FALSE, TRUE, <<>>, <<>>, <<>>, <<MCBroken("http://[")>>),
    MCPage(FALSE, FALSE,
           <<MCNode(FALSE, <<MCPhone>>, <<<<MCHalal>>>>, <<MCImage("node", TRUE, TRUE)>>)>>,
           <<>>, <<>>, <<MCImage("icon", TRUE, FALSE), MCImage("photo", TRUE, TRUE)>>),
    MCPage(FALSE, FALSE,
           <<MCNode(FALSE, NONE, <<>>, <<>>),
             MCNode(TRUE, <<MCPhone, MCPhone>>,
                    <<<<MCToken("word", "call"), MCPhone, MCMail, MCPhone>>,
                      <<MCToken("short", "a"), MCToken("url", "www.b.sg")>>,
                      <<MCHalal, MCHalal, MCToken("word", "grill")>>,
                      <<MCToken("word", "bar")>>>>,
                    <<MCImage("data", FALSE, TRUE), MCImage("one", TRUE, TRUE),
                      MCImage("one", TRUE, TRUE), MCImage("two", TRUE, TRUE)>>)>>,
           <<<<MCHalal>>>>, <<MCImage("card", TRUE, TRUE)>>, <<>>)}
=============================================================================
