CONSTANTS
    c1 = c1  c2 = c2  u1 = u1  u2 = u2  u3 = u3  s1 = s1  s2 = s2
    k1 = k1  k2 = k2  o1 = o1  o2 = o2
    Conditions = {c1, c2}
    Planned <- MCPlanned
    Steps = {k1, k2}
    LayerOf <- MCLayerOf
    Processes = {o1, o2}
    ProcessOf <- MCProcessOf
    Recipe <- MCRecipe
    Uses = {}
    Solutions = {}
    SolutionOf <- NoSolutionOf
    Preparations = {}
    Executions = {x1, x2, x3}
    DeviationTypes = {"general"}
    BatchLimit = 3
    MaxCount = 2
    MaxDeviations = 0
    Actors = {owner, instructor}
    Instructors = {instructor}
    Owner = owner
    None = None
SPECIFICATION Spec
SYMMETRY MCSymmetry
INVARIANTS MembersGrouped PlannedOnce MarkedShared CompletedIsSettled
PROPERTIES TerminalForGood
CHECK_DEADLOCK FALSE
