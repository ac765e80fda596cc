SPECIFICATION Spec
CONSTANTS
    Students = {s1}
    Instructors = {i1}
    Administrators = {a1}
    Txns = {t1, t2}
    MaxRevisions = 2
    None = None
    Bases = {b1, b2}
    BaseNames = {n1}
    Campaigns = {c1}
    Codes = {"A", "B"}
    CodeOrder <- MCCodeOrder
    LayoutRows <- MCLayoutRows
    Recipes <- MCRecipes
    MaxVersion = 1
    Presets = {p1, p2}
    PresetNames = {n1}
    Materials = {m1}
    Products = {x1, x2}
    MaterialOf <- MCMaterialOf
    m1 = m1
    x1 = x1
    x2 = x2
    LayoutKeys = {l1, l2}
    MaterialKeys = {k1}
    ProductKeys = {y1}
    PresetKeys = {e1}
    BaselineKeys = {}
    k1 = k1
    y1 = y1
    Parent <- MCParent
    NoItem = NoItem
    MaxRuns = 2
SYMMETRY MCSymmetry
CONSTRAINT PlanBounds
CHECK_DEADLOCK FALSE
INVARIANTS TypeOK PublicIsReviewed SourceStaysVisible SeriesDense GuessesAreFlagged ImportComplete
PROPERTIES BaselinesAreRevisions PresetsAreRevisions
