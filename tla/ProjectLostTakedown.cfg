SPECIFICATION Spec
CONSTANTS
    Requests = {r1, r2}
    Commands = {}
    r1 = r1
    r2 = r2
    CopyOrder <- MCOneFile
    PageFiles <- MCPageFiles
    UploadNames <- MCOneUploadName
    FirstPhoto <- MCPhoto
    MaxRenders = 1
    Photo = Photo
    Upload = Upload
    Torn = Torn
    NONE = NONE
PROPERTY TakedownSurvivesPublish
