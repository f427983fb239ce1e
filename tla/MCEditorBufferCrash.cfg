SPECIFICATION Spec
CONSTANTS
    None = None
    Text = {a, b, c}
    EmptyText = a
    Buffers = {b1, b2}
    Ops <- CrashOps
    MaxInputs = 5
    MaxFiles = 5
INVARIANTS
    Recoverable
    ViewIsTrue
PROPERTIES
    SaveSparesUnseen
\* With the inputs used up and nothing to notice the worker waits.
CHECK_DEADLOCK FALSE
