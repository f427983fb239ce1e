SPECIFICATION FairSpec
CONSTANTS
    None = None
    Workspaces = {w1, w2}
    Sessions = {s1, s2}
    Names = {n}
    Roots = {r}
    Terminals = {p}
    Paths = {e}
    MaxTabs = 2
    Layouts <- MCLayouts
    Files = {f1, f2}
    Ops <- EveryOp
    MaxChanges = 3
INVARIANTS
    ListConsistent
    SavedWhole
PROPERTIES
    NeverLess
    EventuallySaved
\* With the changes used up and saved the saver waits.
CHECK_DEADLOCK FALSE
