CONSTANTS
    c1 = c1  c2 = c2  u1 = u1  u2 = u2  u3 = u3  s1 = s1  s2 = s2
    k1 = k1  k2 = k2  o1 = o1  o2 = o2
    Conditions = {c1}
    Planned <- OnePlanned
    Steps = {k1, k2}
    LayerOf <- MCLayerOf
    Processes = {o1, o2}
    ProcessOf <- MCProcessOf
    Recipe <- NoRecipe
    Uses = {u1, u2, u3}
    Solutions = {s1, s2}
    SolutionOf <- MCSolutionOf
    Preparations = {p1, p2, p3}
    Executions = {}
    DeviationTypes = {"general"}
    BatchLimit = 3
    MaxCount = 1
    MaxDeviations = 1
    Actors = {instructor}
    Instructors = {instructor}
    Owner = instructor
    None = None
SPECIFICATION Spec
SYMMETRY MCSymmetry
INVARIANTS TypeOK UsesGrouped ReadyIsPopulated DeviationTargets
CHECK_DEADLOCK FALSE
