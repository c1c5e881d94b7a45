SPECIFICATION Spec
CONSTANTS
    INPUT_MAX = 6
    Letters = {"a", "b"}
    Builtins <- BuiltinNames
    Spelling <- ShortSpelling
INVARIANTS
    TypeOK
    ScreenShowsLine
    LineIsTerminated
PROPERTIES
    CommandIsLine
CHECK_DEADLOCK FALSE
