\* A window comes back before the daemon notices that it had left.
CONSTANTS
    w1 = w1
    w2 = w2
    s1 = s1
    s2 = s2
    name = name
    root = root
    None = None
    Workspaces = {w1, w2}
    Sessions = {s1, s2}
    Names = {name}
    Roots = {root}
    Terminals = {p1}
    Paths = {}
    MaxTabs = 3
    Clients = {c1}
    Sockets = {k1, k2}
    Start <- Two
    Ops = {"leave", "linger"}
    MaxAsked = 3
    MaxPrinted = 1
SPECIFICATION Spec
INVARIANTS
    UpToDate
CHECK_DEADLOCK FALSE
