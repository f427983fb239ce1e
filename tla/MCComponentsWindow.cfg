\* Windows: what a user sees and asks for.
SPECIFICATION Spec
CONSTANTS
    None = None
    Live = FALSE
    Moving = {
        "panel", "closing", "navigation", "explorer", "settings", "terminal", "diffs",
        "git", "find", "watch", "finder", "connection"}
INVARIANTS
    TerminalInStep
    DiffIsTrue
    
    PathsOfQuery
    OnlineIsServed
PROPERTIES
    OwnWork
    NothingLost
    JumpsLeadThereAndBack
    TreeIsTrue
    
    ReplacedIsAccepted
\* Inputs are used up.
CHECK_DEADLOCK FALSE
