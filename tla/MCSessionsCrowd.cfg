\* Two windows that do not wait, requests that fail as every shell does, and connections
\* whose end is noticed late.
CONSTANTS
    w1 = w1
    w2 = w2
    s1 = s1
    s2 = s2
    name = name
    root = root
    None = None
    Workspaces = {w1, w2}
    Sessions = {s1, s2, s3}
    Names = {name}
    Roots = {root}
    Terminals = {}
    Paths = {}
    MaxTabs = 3
    Clients = {c1, c2}
    Sockets = {k1, k2}
    Start <- Two
    Ops = {"switch", "close", "leave", "linger", "hasty", "fail"}
    MaxAsked = 2
    MaxPrinted = 0
SPECIFICATION FairSpec
INVARIANTS
    SubscriberAttached
PROPERTIES
    SwitchAnswered
CHECK_DEADLOCK FALSE
