\* A device is heard on a static ID (or asks as a v1 node), then asks as a v2 node
\* while the GetInfo answer of its old ID is still to come.
CONSTANTS
    None = None
    LocalIds = {0}
    MaxNodeId = 2
    ObservedIds = {1}
    Hashes = {5}
    RequestUids = {7}
    AnswerUids = {7}
    AnsweringIds = {}
    SqlFaults = {}
    MaxQueue = 2
SPECIFICATION HSpec
INVARIANTS
    V2SameAnswer
