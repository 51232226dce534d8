---------------------------- MODULE MCDesignBrief ----------------------------
(* DesignBrief on a small instance: see the .cfg files for the bounds. *)
EXTENDS DesignBrief

\* Two businesses that pick different templates where there are two.
MCDigest == [b \in 1 .. N |-> b]

MCFront == [id |-> "front", slots |-> <<"facade", "sign">>]
MCPlain == [id |-> "plain", slots |-> <<"facade">>]
MCWide == [templates |-> <<MCFront, MCPlain>>, families |-> {"timber", "brass"},
           moods |-> {"warm", "neon"}, moves |-> {"orbit", "pan"}, roomy |-> TRUE]
MCNarrow == [templates |-> <<MCFront>>, families |-> {"timber"},
             moods |-> {"warm"}, moves |-> {"orbit"}, roomy |-> TRUE]
MCTight == [MCNarrow EXCEPT !.roomy = FALSE]
\* A slot named twice; one id for two templates, and a family of an endless name.
MCDouble == [MCWide EXCEPT !.templates = <<[id |-> "front", slots |-> <<"sign", "sign">>]>>]
MCTwins == [MCWide EXCEPT !.templates = <<MCPlain, [MCFront EXCEPT !.id = "plain"]>>,
                          !.families = {"timber", "endless"}]
MCManifests == {MCWide, MCNarrow, MCTight, MCDouble, MCTwins}

MCMandatory == <<"logos", "claims">>
\* A listing that repeats a mandatory one and itself, and overfills the limit.
MCListings == {<<>>, <<"people", "people", "claims", "cars">>}
=============================================================================
