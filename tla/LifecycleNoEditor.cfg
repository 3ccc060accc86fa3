\* Foreground mode in which the line editor may fail to initialise.
CONSTANTS
    Workers = {udp, can}
    Modes = {"foreground"}
    Failures = {"editor"}
SPECIFICATION FairSpec
PROPERTIES
    ReplEndEndsProcess
\* The process ends.
CHECK_DEADLOCK FALSE
