SPECIFICATION Spec
CONSTANTS
    WORD = 128
    PAGE_SIZE = 4
    SV_SIZE = 64
    PHDR_SIZE = 2
    EHDR_SIZE = 1
    app_elf_len = 6
    USER_RW_PAGE_VA = 12
    USER_STACK_TOP = 24
    USER_RO_PAGE_VA = 28
    Images <- BoundaryImages
INVARIANTS
    EntryIsMapped
CHECK_DEADLOCK FALSE
