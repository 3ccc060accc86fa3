\* A channel of one slot, which an abandoned command may fill; shutdown at any time.
CONSTANTS
    None = None
    LocalIds = {1}
    MaxNodeId = 2
    ObservedIds = {2}
    Hashes = {}
    RequestUids = {7}
    AnswerUids = {7}
    AnsweringIds = {}
    SqlFaults = {}
    MaxQueue = 1
    Calls <- GetInfoAndQuery
    Addressable = {0, 1, 2, 3}
    MaxCallers = 1
    ChannelSize = 1
    MaxSends = 2
SPECIFICATION FairWSpec
PROPERTIES
    CallReturns
    GetInfosSettle
    WorkerStops
