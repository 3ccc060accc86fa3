\* An adapter whose CAN interface is not interface 0, and no transfer fails.
CONSTANTS
    None = None
    Panic = Panic
    Word = 1073741824
    Adapters <- MCKernelAdapters
    Bitrates = {500000}
    Accepted = {{1, 4}}
    Faults = {}
SPECIFICATION Spec
INVARIANTS
    KernelDriverDetached
