CONSTANTS
    Nick = "b"
    Window = 2
    MaxTime = 3
    MaxIn = 2
    MaxOut = 2
    Names <- MCNames
    Chats <- MCChats
    TransfersEnabled = TRUE
    UploadWritable = {TRUE, FALSE}
    StatusChannels = {TRUE, FALSE}
SPECIFICATION Spec
INVARIANTS ChatReachesIM OfferTargetsNamedFile
PROPERTIES RepliesFollowUser
