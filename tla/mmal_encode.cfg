SPECIFICATION FairSpec
CONSTANTS
    NumIn = 2
    NumOut = 2
    MaxPieces = 2
    MaxPictures = 5
INVARIANTS
    TypeOK
    NeverStarves
    QueuedIsAnnounced
    PiecesInOrder
PROPERTY EncodeReturns
CHECK_DEADLOCK FALSE
