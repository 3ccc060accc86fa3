\* A v2 node whose 128-bit unique ID is all zeros.
CONSTANTS
    None = None
    LocalIds = {1}
    MaxNodeId = 2
    ObservedIds = {2}
    Hashes = {}
    RequestUids = {0}
    AnswerUids = {7}
    AnsweringIds = {}
    SqlFaults = {}
    MaxQueue = 2
SPECIFICATION Spec
INVARIANTS
    LocalNeverAssigned
