\* The daemon.
SPECIFICATION Spec
CONSTANTS
    None = None
    Live = FALSE
    Moving = {
        "files", "edits", "lock", "search", "lsp"}
INVARIANTS
    Reachable
PROPERTIES
    AllFilesOrNone
    
    ReplacedAsReviewed
    PresentedIsCurrent
\* Inputs are used up.
CHECK_DEADLOCK FALSE
