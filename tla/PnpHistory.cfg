\* One v1 node, two v2 nodes (one with an unprogrammed, all-zero unique ID), ID 3
\* heard at any time, a local ID that the configuration may change, inserts,
\* updates and COUNT(*) queries that may fail.
CONSTANTS
    None = None
    LocalIds = {1, 2}
    MaxNodeId = 3
    ObservedIds = {3}
    Hashes = {5}
    RequestUids = {0, 7}
    AnswerUids = {7, 8}
    AnsweringIds = {}
    SqlFaults = {"insert", "update", "count"}
    MaxQueue = 2
SPECIFICATION HSpec
INVARIANTS
    GrantedOnce
    V2GrantKept
    V1SameAnswer
PROPERTIES
    HeardNeverGranted
