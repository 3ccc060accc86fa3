\* Two allocators share one file and one of their requesters.
CONSTANTS
    None = None
    can = can
    udp = udp
    Allocators = {can, udp}
    LocalId <- MCLocalId
    MaxNodeId <- MCMaxNodeId
    Requests <- MCRequests
    UidOf <- MCUidOf
    Static = {3}
    StaticUids = {9}
    Listening = {can}
    SqlFaults = {"update"}
SPECIFICATION FairSpec
INVARIANTS
    NoSharedId
    RowsPerListener
PROPERTIES
    SharedAssignment
    Served
