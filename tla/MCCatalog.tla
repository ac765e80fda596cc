----------------------------- MODULE MCCatalog ------------------------------
(* The catalog for TLC.  Four parts share no state: new plans with their      *)
(* baselines, layer presets, materials, and the import.  A behaviour moves    *)
(* one of them, since a property of one says nothing of the others.           *)
EXTENDS NewPlans, LayerPresets, Materials, CatalogImport, TLC

CONSTANTS m1, x1, x2, k1, y1

vars == <<baseVars, planVars, presetVars, materialVars, importVars>>

MCCodeOrder == <<"A", "B">>
MCLayoutRow(code, version, size) ==
    [code |-> code, version |-> version, size |-> size]
MCLayoutRows ==
    {MCLayoutRow("A", 1, "small"), MCLayoutRow("A", 2, "large"),
     MCLayoutRow("B", 1, "small")}

Group(id, kind, layers, adjusted) ==
    [id |-> id, kind |-> kind, layers |-> layers, adjusted |-> adjusted,
     count |-> 0]
Plan(id, kind, code) ==
    [group |-> id, role |-> kind, layout |-> code, count |-> 2]
Recipe(groups, plans) ==
    [groups |-> groups, size |-> "small", plans |-> plans]

\* A recipe without plans whose target is described by an adjustment, one
\* planned in full whose target has its own layers, and a standalone one.
MCRecipes ==
    {Recipe(<<Group("c", "control", FALSE, FALSE),
              Group("t", "target", FALSE, TRUE)>>, {}),
     Recipe(<<Group("c", "control", FALSE, FALSE),
              Group("t", "target", TRUE, TRUE)>>,
            {Plan("c", "control", "A"), Plan("t", "target", "B")}),
     Recipe(<<Group("s", "standalone", FALSE, FALSE)>>, {})}

MCMaterialOf == x1 :> m1 @@ x2 :> m1
MCParent == y1 :> k1

Init ==
    /\ BaseInit /\ PlansInit /\ PresetInit /\ MaterialInit
    /\ ImportInit

PlansRest == BaseInit /\ PlansInit
ImportRests == phase = "idle" /\ runs = 0 /\ rows = {} /\ document = {}

Next ==
    \/ /\ PresetInit /\ MaterialInit /\ ImportRests
       /\ NewPlansNext
       /\ UNCHANGED <<presetVars, materialVars, importVars>>
    \/ /\ PlansRest /\ MaterialInit /\ ImportRests
       /\ PresetNext
       /\ UNCHANGED <<baseVars, planVars, materialVars, importVars>>
    \/ /\ PlansRest /\ PresetInit /\ ImportRests
       /\ MaterialNext
       /\ UNCHANGED <<baseVars, planVars, presetVars, importVars>>
    \/ /\ PlansRest /\ PresetInit /\ MaterialInit
       /\ ImportNext
       /\ UNCHANGED <<baseVars, planVars, presetVars, materialVars>>

Spec == Init /\ [][Next]_vars

\* Bound: two plans at once, or over several layouts, are made by a student
\* without a baseline; with one, a standalone plan is made by anybody next to a
\* baseline request.
PlanBounds ==
    \/ PlansInit
    \/ /\ \A b \in Bases : baselines[b] = None
       /\ \A t \in Txns : draft[t] # None => draft[t].user \in Students
    \/ /\ Cardinality({b \in Bases : baselines[b] # None}) <= 1
       /\ Cardinality({t \in Txns : baseRequest[t] # None}) <= 1
       /\ Cardinality({t \in Txns : draft[t] # None}) <= 1
       /\ \A t \in Txns : draft[t] # None =>
             Len(draft[t].recipe.groups) = 1
       /\ \A c \in Campaigns : /\ Cardinality(experiments[c]) <= 1
                               /\ campaigns[c] \in {None, "active"}
       /\ layouts \subseteq {MCLayoutRow("A", 1, "small")}

MCSymmetry ==
    Permutations(Txns) \cup Permutations(Presets) \cup Permutations(Bases)

TypeOK ==
    /\ BaseTypeOK /\ PlansTypeOK /\ PresetTypeOK /\ MaterialTypeOK
    /\ ImportTypeOK

=============================================================================
