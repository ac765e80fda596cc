SPECIFICATION Spec
CONSTANTS
    None = None
    Metrics <- MCMetrics
    Groups <- MCGroups
    Files <- MCFiles
    Groupings <- MCGroupings
    Txns = {t1, t2}
    MaxExcluded = 1
    MaxTable = 3
SYMMETRY Symmetry
CONSTRAINT Bounds
CHECK_DEADLOCK FALSE
INVARIANTS StatisticsConserve AdjustedIsReference SummaryRowsAgree
