\* Both modes with three transports and channels of two slots: the configuration and
\* any worker may fail, commands are typed at any time, the terminal may be gone,
\* the REPL may end in every way, and signals come at any moment.
CONSTANTS
    udp = udp
    can = can
    serial = serial
    Workers = {udp, can, serial}
    Modes = {"daemon", "foreground"}
    Failures = {"config", "startup", "editor", "handlers", "panic"}
    Handles <- MCHandles
    NameOf <- MCNameOf
    Words <- MCWords
    ChannelSize = 2
SPECIFICATION FairSSpec
INVARIANTS
    STypeOK
    ExitIsComplete
    ReplHasItsWorkers
PROPERTIES
    ProcessEnds
    CommandReturns
\* The process ends.
CHECK_DEADLOCK FALSE
