\* A daemon in which nothing fails but that is signalled twice.
CONSTANTS
    Workers = {udp, can}
    Modes = {"daemon"}
    Failures = {}
SPECIFICATION FairSpec
PROPERTIES
    StopNotInterrupted
\* The process ends.
CHECK_DEADLOCK FALSE
