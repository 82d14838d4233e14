CONSTANTS
    a = a
    b = b
    c = c
    aOut = aOut
    bOut = bOut
    bIn = bIn
    cIn = cIn
    Node <- MCNode
    Out <- MCOut
    In <- MCIn
    Owner <- MCOwner
    Root = Root
    Group = Group
    Unborn = Unborn
    Deleted = Deleted
    MaxLinks = 3
    Clients = FALSE
SPECIFICATION Spec
CHECK_DEADLOCK FALSE
INVARIANT LinksFollowNodes
