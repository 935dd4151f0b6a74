\* Two events, buffers of one.
CONSTANTS
    h1 = h1
    h2 = h2
    tab = tab
    desk = desk
    ann = ann
    root = root
    Publishers <- MCPublishers
    Conns <- MCConns
    Viewers <- MCViewers
    Viewer <- MCViewer
    SeesAll <- MCSeesAll
    Kinds <- MCKinds
    bufSz = 1
    MaxEvents = 2
SPECIFICATION FairSpec
INVARIANTS
    TypeOK
    NoSendOnClosed
    InOrder
PROPERTIES
    IsLossyBroadcast
    PublishReturns
CHECK_DEADLOCK FALSE
