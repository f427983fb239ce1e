SPECIFICATION FairSpec
CONSTANTS
    None = None
    Text = {a, b}
    EmptyText = a
    Buffers = {b1, b2}
    Ops <- DiskOps
    MaxInputs = 6
    MaxFiles = 5
INVARIANTS
    CleanFollowsDisk
PROPERTIES
    ConflictTold
\* With the inputs used up and nothing to notice the worker waits.
CHECK_DEADLOCK FALSE
