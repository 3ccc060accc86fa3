\* Every transfer may fail, the process may be killed, the bitrate may have no timing.
CONSTANTS
    None = None
    Panic = Panic
    Word = 1073741824
    Adapters <- MCAdapters
    Bitrates = {0, 125000, 500000, 1000000}
    Accepted = {{}, {1, 4}, {2, 3}}
    Faults = {"usb", "kill"}
SPECIFICATION FairSpec
INVARIANTS
    TypeOK
    RunsConfigured
    ClaimReleased
    SetupIsRight
PROPERTIES
    RunsUnstalled
    OpenEnds
