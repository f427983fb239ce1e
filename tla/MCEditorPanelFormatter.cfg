SPECIFICATION Spec
CONSTANTS
    None = None
    Text = {a, b, c}
    EmptyText = a
    Ids = {i1, i2, i3, i4, i5}
    Ops <- FormatterOps
    MaxInputs = 3
INVARIANTS
    ConflictResolvable
