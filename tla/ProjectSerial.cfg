SPECIFICATION SerialSpec
CONSTANTS
    Requests = {r1}
    Commands = {c1}
    r1 = r1
    c1 = c1
    CopyOrder <- MCCopyOrder
    PageFiles <- MCPageFiles
    UploadNames <- MCUploadNames
    FirstPhoto <- MCMaybePhoto
    MaxRenders = 2
    Photo = Photo
    Upload = Upload
    Torn = Torn
    NONE = NONE
INVARIANTS
    PublishedIsComplete
    DigestsTrueAtSave
PROPERTIES
    PageFollowsRow
    GateButReruns
