\* Two v1 nodes and a v2 node compete for the IDs 1 and 3.  Node 1 may be a static one
\* and answers GetInfo; the local node hears its own heartbeats (the echo of an
\* adapter) and may never answer its own GetInfo.  Inserts, heartbeat records and
\* updates may fail.
CONSTANTS
    None = None
    LocalIds = {2}
    MaxNodeId = 3
    ObservedIds = {1, 2}
    Hashes = {5, 6}
    RequestUids = {7}
    AnswerUids = {7}
    AnsweringIds = {1}
    SqlFaults = {"insert", "record", "update"}
    MaxQueue = 2
SPECIFICATION FairSpec
INVARIANTS
    TypeOK
    OneIdPerHash
    ReplyIsRecorded
    V1ReplyAssignable
    QueriedIdsRecorded
PROPERTIES
    V1MappingStable
    AssignmentSpec
    PlaceholderResolved
