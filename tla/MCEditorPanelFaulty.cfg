SPECIFICATION Spec
SYMMETRY Alike
CONSTANTS
    None = None
    Text = {a, b, c}
    EmptyText = a
    Ids = {i1, i2, i3, i4, i5, i6, i7}
    Ops <- FaultyOps
    MaxInputs = 4
INVARIANTS
    
    NothingHeldBack
PROPERTIES
    TypingKept
