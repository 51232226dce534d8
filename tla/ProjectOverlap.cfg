SPECIFICATION Spec
CONSTANTS
    Requests = {r1}
    Commands = {c1}
    r1 = r1
    c1 = c1
    CopyOrder <- MCOneFile
    PageFiles <- MCPageFiles
    UploadNames <- MCOneUploadName
    FirstPhoto <- MCNoPhoto
    MaxRenders = 1
    Photo = Photo
    Upload = Upload
    Torn = Torn
    NONE = NONE
INVARIANTS
    TypeOK
    NoDanglingFile
    PageIsWhole
PROPERTY TakedownHolds
