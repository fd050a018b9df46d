CONSTANTS
    None = None
    Layers <- Two
    Segments <- MCSegments
    SegmentPages = 2
    PageTokens = 2
    Capacity = 10
    Requests <- Two
    Stream <- MCStream
    Prompt <- MCPrompt
    Quantum = 2
    IndexCapacity = 2
SPECIFICATION Spec
INVARIANT RefsCounted
INVARIANT TablesRead
INVARIANT ClonesFit
INVARIANT IndexSound
INVARIANT CommitWhole
CHECK_DEADLOCK FALSE
