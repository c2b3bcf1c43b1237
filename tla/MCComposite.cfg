CONSTANTS
    a = a
    b = b
    c = c
    root = root
    inner = inner
    empty = empty
    Root = root
    Leaves = {a, b, c}
    Composites = {root, inner, empty}
    Children <- MCChildren
    Built <- MCBuilt
SPECIFICATION CompositeFairSpec
INVARIANTS
    VerdictIsSafe
PROPERTIES
    RootReturns
CHECK_DEADLOCK FALSE
