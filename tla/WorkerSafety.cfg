\* Two threads share the handle: their GetInfos of nodes 2 and 3 and a query overlap,
\* while the allocator asks about node 2.
CONSTANTS
    None = None
    LocalIds = {1}
    MaxNodeId = 2
    ObservedIds = {2}
    Hashes = {5}
    RequestUids = {}
    AnswerUids = {7}
    AnsweringIds = {}
    SqlFaults = {}
    MaxQueue = 1
    Calls <- OverlappingCalls
    Addressable = {0, 1, 2, 3}
    MaxCallers = 2
    ChannelSize = 1
    MaxSends = 2
SPECIFICATION WSpec
INVARIANTS
    WTypeOK
    RepliesNeverBlock
    ResponsesWereRequested
    InfoIsOfTheNodeAsked
PROPERTIES
    ImplementsAllocator
