\* What survives being cut off, and what comes in the end.
SPECIFICATION Spec
CONSTANTS
    None = None
    Live = TRUE
    Moving = {
        "drafts", "closing", "edits", "diffs", "git", "search", "lsp", "finder",
        "settings", "terminal", "lock", "remote", "connection"}
PROPERTIES
    OneCopy
    RunnableKept
    BegunEnds
    AskedIsAnswered
    ConnectedAsWanted
\* Inputs are used up.
CHECK_DEADLOCK FALSE
