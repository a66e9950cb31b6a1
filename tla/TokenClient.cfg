\* Two processes share a token file.
SPECIFICATION Spec
CONSTANTS
    Process = {p1, p2}
    Session = {s1, s2}
    Token = {1, 2, 3, 4}
    None = None
    Mixed = Mixed
INVARIANTS
    TypeOK
    FileNotSuperseded
    ToolsServed
SYMMETRY Symmetry
