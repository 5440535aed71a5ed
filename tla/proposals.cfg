SPECIFICATION FairSpec
CONSTANTS
    p1 = p1
    w1 = w1
    w2 = w2
    Proposals <- OneProposal
    Procs <- TwoWorkers
    LastStep = 3
    Optional <- AwardOnly
    Parkable <- DecisionOnly
    Occurs <- Operations
INVARIANTS TypeOK StandsAtOneStep AcceptedWasEvaluated
PROPERTIES SubmissionIsKept DecisionIsFinal ClosedRoundEnds
\* Every proposal may have been decided.
CHECK_DEADLOCK FALSE
