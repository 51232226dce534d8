SPECIFICATION FairSerialSpec
CONSTANTS
    Requests = {r1}
    Commands = {c1}
    r1 = r1
    c1 = c1
    CopyOrder <- MCOneFile
    PageFiles <- MCPageFiles
    UploadNames <- MCOneUploadName
    FirstPhoto <- MCPhoto
    MaxRenders = 1
    Photo = Photo
    Upload = Upload
    Torn = Torn
    NONE = NONE
PROPERTY TakedownReachesThePage
