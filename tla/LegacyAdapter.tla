---------------------------- MODULE LegacyAdapter ---------------------------
(* How a posted recipe becomes the conditions of a plan                       *)
(* (src/web/services/legacy_adapter.py).                                      *)
(*                                                                            *)
(* A recipe is a sequence of groups over one recorded substrate size.  A      *)
(* group has a kind, an own layer stack or not, adjustments in free text or   *)
(* not, and a substrate count (0 when none was given).  A plan of a group     *)
(* names its role, a layout code and a count.  Layers, processes and names    *)
(* are told apart by the group they come from.                                *)
EXTENDS Integers, FiniteSets, Sequences, FiniteSetsExt

RecipeGroup ==
    [id: STRING, kind: {"control", "target", "standalone"},
     layers: BOOLEAN, adjusted: BOOLEAN, count: Nat]

\* What the validation of a device recipe lets through.
WellFormed(groups) ==
    LET OfKind(k) == {i \in DOMAIN groups : groups[i].kind = k}
    IN /\ \A i, j \in DOMAIN groups :
             groups[i].id = groups[j].id => i = j
       /\ \/ OfKind("standalone") = DOMAIN groups /\ Len(groups) = 1
          \/ /\ OfKind("standalone") = {}
             /\ Cardinality(OfKind("control")) = 1
             /\ OfKind("target") # {}
       /\ \A i \in DOMAIN groups : groups[i].kind # "target" =>
             ~groups[i].layers /\ ~groups[i].adjusted

DefaultSubstrateCount == 3

\* The catalog holds the newest version of each layout, at the place of its
\* code.
Matches(catalog, size) == {i \in DOMAIN catalog : catalog[i].size = size}

InferredLayout(catalog, size) ==
    IF Matches(catalog, size) = {}
    THEN catalog[Min(DOMAIN catalog)]
    ELSE catalog[Min(Matches(catalog, size))]

\* Mutation: several layouts of the right size are no doubt.
AmbiguousWithoutMatch(catalog, size) == Matches(catalog, size) = {}
Ambiguous(catalog, size) == Cardinality(Matches(catalog, size)) # 1

WithCode(catalog, code) ==
    {catalog[i] : i \in {j \in DOMAIN catalog : catalog[j].code = code}}

PlansOf(plans, g) == {p \in plans : p.group = g.id}

\* Every refusal of an explicit plan.
PlansFit(catalog, groups, size, plans) ==
    /\ \A p, q \in plans : p.group = q.group => p = q
    /\ \A p \in plans :
          /\ \E i \in DOMAIN groups :
                groups[i].id = p.group /\ groups[i].kind = p.role
          /\ p.count >= 1
          /\ \E layout \in WithCode(catalog, p.layout) : layout.size = size
    /\ plans # {} =>
          \A i \in DOMAIN groups : PlansOf(plans, groups[i]) # {}

\* Free text does not say how the layers change.
AdjustmentGuessed(g) == g.kind = "target" /\ g.adjusted /\ ~g.layers

ConditionOf(catalog, groups, size, plans, i) ==
    LET g == groups[i]
        planned == PlansOf(plans, g)
        plan == CHOOSE p \in planned : TRUE
        nth == Cardinality({j \in 1..i : groups[j].kind = g.kind})
    IN [role |-> g.kind,
        code |-> <<g.kind, nth>>,
        recipe |-> IF g.layers THEN g.id ELSE "root",
        layout |-> IF planned = {}
                   THEN InferredLayout(catalog, size)
                   ELSE CHOOSE l \in WithCode(catalog, plan.layout) : TRUE,
        count |-> IF planned # {} THEN plan.count
                  ELSE IF g.count > 0 THEN g.count
                  ELSE DefaultSubstrateCount,
        review |-> \/ planned = {} /\ Ambiguous(catalog, size)
                   \/ AdjustmentGuessed(g)]

\* No conditions stand for a refusal.
Materialize(catalog, groups, size, plans) ==
    IF DOMAIN catalog # {} /\ PlansFit(catalog, groups, size, plans)
    THEN [i \in DOMAIN groups |->
            ConditionOf(catalog, groups, size, plans, i)]
    ELSE <<>>

=============================================================================
