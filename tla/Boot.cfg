CONSTANTS
    MAX_TASKS = 2
    Pgds = {p1, p2, p3}
    MaxPc = 1
    UserSp = {top, low}
    Reg = {"a0"}
    UserVal = {0, 1}
    Keys = {}
    BOOT_ENTRY = 1
    ENTRY = 0
    USER_STACK_TOP = top
    IMAGE_WORD = 1
    CLOBBERED = CLOBBERED
    NULL = NULL
    Harts = {0, 1, 2}
    BOOT_STACK = stacks
    WILD = wild
    KERNEL_PGD = root_page_table

SPECIFICATION BootSpec
CHECK_DEADLOCK FALSE

INVARIANTS
    BootsToKernel
    InterruptFindsVector

PROPERTIES
    BootEnds
