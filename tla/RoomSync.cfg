CONSTANTS
    o1 = o1
    o2 = o2
    p1 = p1
    p2 = p2
    c1 = c1
    n1 = n1
    Object <- MCObject
    Position <- MCPosition
    Home = p1
    Client <- MCClient
    ProcNode <- MCProcNode
    Chosen = Chosen
    Absent = Absent
    Nobody = Nobody
SPECIFICATION Spec
CONSTRAINT MCFewHolders
SYMMETRY MCSymmetry
INVARIANTS
    TypeOK
    
    ShownIsHeld
