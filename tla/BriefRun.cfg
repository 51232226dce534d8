SPECIFICATION Spec
CONSTANTS
    N = 2
    Digest <- MCDigest
    Slots = {"facade", "sign"}
    Ids = {"front", "plain"}
    Families = {"timber", "brass", "endless"}
    Unwieldy = {"endless"}
    Moods = {"warm", "neon"}
    Moves = {"orbit", "pan"}
    Manifests <- MCManifests
    MaxFamilies = 2
    MaxRepairs = 1
    Mandatory <- MCMandatory
    MaxExclusions = 3
    Listings <- MCListings
    Unusable = Unusable
    NONE = NONE
INVARIANTS
    TypeOK
    SubmittedFitsBoth
    ExclusionsNeverReject
    SpendIsBounded
PROPERTY OnlyManifestsFailComposing
