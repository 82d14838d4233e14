CONSTANTS
    o1 = o1
    o2 = o2
    i1 = i1
    i2 = i2
    v1 = v1
    v2 = v2
    n1 = n1
    NoValue = NoValue
    Out <- MCOut
    In <- MCIn
    Value <- MCValue
    Node <- MCNode
    Type <- MCType
    Owner <- MCOwner
    Displayed <- MCDisplayed
    MaxListeners = 2
SPECIFICATION Spec
INVARIANTS
    TypeOK
    
    
PROPERTIES
    ImplementsWiring
