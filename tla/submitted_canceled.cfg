SPECIFICATION Spec
CONSTANTS
    p1 = p1
    w1 = w1
    w2 = w2
    Proposals <- OneProposal
    Procs <- TwoWorkers
    LastStep = 3
    Optional <- AwardOnly
    Parkable <- DecisionOnly
    Occurs = {}
PROPERTIES DraftsOnlyAreCanceled
\* Every proposal may have been decided.
CHECK_DEADLOCK FALSE
