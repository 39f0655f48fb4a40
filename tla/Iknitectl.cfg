SPECIFICATION Spec
CONSTANTS
    Processes = {p1, p2}
    Paths = {a, b}
    MaxCommands = 4
    Stages = {s1}
    Names = {x}
    Namespaces = {n1, n2}
    MaxRenders = 2
SYMMETRY Symmetry
INVARIANTS
    KeysMatch
    SecretsAreKept
    RendersExactly
CHECK_DEADLOCK FALSE
