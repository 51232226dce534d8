------------------------ MODULE MCProjectLifecycle --------------------------
(* ProjectLifecycle on a small instance: see the .cfg files for the bounds. *)
EXTENDS ProjectLifecycle

\* One still and the thumbnail stand for the four kinds of artifact; the page
\* copies the thumbnail and never a still.
MCCopyOrder == <<"still_0.png", "thumbnail.png">>
MCPageFiles == {"thumbnail.png"}

\* An uploaded picture may be called anything, an artifact's name included.
MCUploadNames == {"upload.jpg", "thumbnail.png"}
MCOneUploadName == {"thumbnail.png"}

\* The smallest instance in which a page shows an artifact.
MCOneFile == <<"thumbnail.png">>

MCNoPhoto == {NONE}
MCPhoto == {Photo}
MCMaybePhoto == {Photo, NONE}

=============================================================================
