SPECIFICATION Spec
CONSTANTS
    p = p
    q = q
    w1 = w1
    w2 = w2
    Workers <- TwoWorkers
    Projects <- TwoProjects
    LastMonth = 2
    Cost <- Costs
    EndMonth = 2
    Fee <- Fees
    Setups <- Openings
    Amounts <- OneOut
    Edits = {12}
    Occurs <- Operations
    StaffAlone = TRUE
SYMMETRY Workforce
INVARIANTS TypeOK Reconciles MonthIsBacked AllocationsAreBacked PaidFromEarnings FeesOnce
