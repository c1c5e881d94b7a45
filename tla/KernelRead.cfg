CONSTANTS
    MAX_TASKS = 2
    Pgds = {p1, p2, p3}
    MaxPc = 1
    UserSp = {top}
    Reg = {"a0"}
    UserVal = {0, 1}
    Keys = {1}
    BOOT_ENTRY = 0
    ENTRY = 0
    USER_STACK_TOP = top
    IMAGE_WORD = 0
    CLOBBERED = CLOBBERED
    NULL = NULL

SPECIFICATION Spec
SYMMETRY PgdSymmetry
CHECK_DEADLOCK FALSE

PROPERTIES
    ReadFillsBuffer
