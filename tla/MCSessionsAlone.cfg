\* One window, whose lost connections the daemon notices before the next.
CONSTANTS
    w1 = w1
    w2 = w2
    s1 = s1
    s2 = s2
    name = name
    root = root
    None = None
    Workspaces = {w1, w2}
    Sessions = {s1, s2, s3}
    Names = {name}
    Roots = {root}
    Terminals = {p1, p2}
    Paths = {}
    MaxTabs = 3
    Clients = {c1}
    Sockets = {k1, k2}
    Start <- Two
    Ops = {"switch", "close", "open", "kill", "eof", "leave"}
    MaxAsked = 2
    MaxPrinted = 2
SPECIFICATION Spec
SYMMETRY Alike
INVARIANTS
    UpToDate
    InOrder
    TerminalsNamed
CHECK_DEADLOCK FALSE
