SPECIFICATION Spec
CONSTANTS
    u1 = u1
    g1 = g1
    w1 = w1
    w2 = w2
    Users <- OneUser
    Groups <- OneGroup
    Procs <- TwoWorkers
    MaxValue = 2
    FirstRange = 2
    Edits <- Moves
    Occurs = {}
SYMMETRY Workers
INVARIANTS TypeOK OneHolder KeptOut StaysReserved
