SPECIFICATION Spec
CONSTANTS
    Snapshots <- Sessions
    Budgets <- BudgetsUsed
    MinBudget = 100
    Ceiling = 3000
    MaxChars = 2900
    Fixed = 4
    Close = 8
CHECK_DEADLOCK FALSE
INVARIANTS
    WithinBudget
    
    CriticalLast
