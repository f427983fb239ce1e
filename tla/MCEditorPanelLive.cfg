SPECIFICATION FairSpec
CONSTANTS
    None = None
    Text = {a, b}
    EmptyText = a
    Ids = {i1, i2, i3, i4, i5, i6}
    Ops <- ReopenOps
    MaxInputs = 3
INVARIANTS
    TypeOK
PROPERTIES
    Converges
