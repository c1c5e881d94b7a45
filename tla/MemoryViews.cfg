SPECIFICATION Spec
CONSTANTS
    MAX_TASKS = 3
    ENTRIES = 8
    RamStart = 128
    KernelEnd = 131
    RamEnd = 176
    ClintStart = 8
    ClintEnd = 10
    Uart = 32
    TextStart = 128
    TextEnd = 129
    RodataStart = 129
    RodataEnd = 130
    KERNEL_WORD = 777
    USER_RW_PAGE_VA = 64
    USER_STACK_PAGE_VA = 71
    USER_RO_PAGE_VA = 96
    Image <- LargeImage
    Values = {1}
    StoreSlots = {0}
    MaxCalls = 4
PROPERTY
    ImplementsAddressSpaces
CHECK_DEADLOCK FALSE
