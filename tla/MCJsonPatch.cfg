SPECIFICATION DocSpec
CONSTANTS
    Segment <- MCSegment
    Index <- MCIndex
    Depth = 4
    Root <- MCRoot
    Slot <- MCSlot
    Target <- MCTarget
    Watched <- MCWatched
    Sharing <- MCSharing
INVARIANTS
    Reached
    ViewsFollow
    UndoRestores
