SPECIFICATION Spec
CONSTANTS
    LONG = 65536
    Char <- Chars
    Calls <- KernelCalls
INVARIANTS
    WireShowsText
PROPERTIES
    AllIsSent
CHECK_DEADLOCK FALSE
