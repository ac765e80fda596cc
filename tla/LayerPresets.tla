---------------------------- MODULE LayerPresets ----------------------------
(* Layer presets and their immutable revisions                                *)
(* (src/web/repository/preset.py and the routes of routes/catalogs.py).       *)
(*                                                                            *)
(* Unlike a baseline, a preset is found by one WHERE clause that also decides *)
(* whether the user may write it.  A statement that waits for the lock of a   *)
(* row evaluates the clause again on the row as it is then: both looks are    *)
(* kept.  Layers and deposition processes are left out.                       *)
EXTENDS Actors, Integers, Sequences

CONSTANTS
    Presets,     \* ids of layer presets
    PresetNames  \* names a preset can have

VARIABLES
    presets,         \* rows of layer_presets
    presetVersions,  \* the author of each row of layer_preset_versions
    presetRequest    \* what each transaction asked for

presetVars == <<presets, presetVersions, presetRequest>>

Scopes == {"personal", "shared"}
PresetRow ==
    [name: PresetNames, owner: Users \cup {None}, scope: Scopes,
     status: {"active", "inactive"},
     current: Nat \ {0}]  \* number of the row current_version_id points to
PresetRequest ==
    [kind: {"update", "deactivate"}, user: Users, preset: Presets,
     name: PresetNames, scope: Scopes]

ASSUME NoneIsNoPreset == None \notin PresetRow \cup PresetRequest

PresetInit ==
    /\ presets = [p \in Presets |-> None]
    /\ presetVersions = [p \in Presets |-> <<>>]
    /\ presetRequest = [t \in Txns |-> None]

\* The unique indexes, which hold for inactive presets too.
PresetNameFree(p, scope, owner, name) ==
    \A other \in Presets \ {p} : presets[other] # None =>
        ~ /\ presets[other].name = name
          /\ presets[other].scope = scope
          /\ scope = "personal" => presets[other].owner = owner

CreateLayerPreset(u, p, scope, name) ==
    LET owner == IF scope = "personal" THEN u ELSE None
    IN /\ presets[p] = None
       /\ scope = "shared" => u \in Staff
       /\ PresetNameFree(p, scope, owner, name)
       /\ presets' = [presets EXCEPT ![p] =
            [name |-> name, owner |-> owner, scope |-> scope,
             status |-> "active", current |-> 1]]
       /\ presetVersions' = [presetVersions EXCEPT ![p] = <<u>>]
       /\ UNCHANGED presetRequest

\* The WHERE clause of an update and of a deactivation.
Writable(u, p) ==
    /\ presets[p] # None
    /\ \/ presets[p].scope = "personal" /\ presets[p].owner = u
       \/ presets[p].scope = "shared" /\ u \in Staff

\* Mutation: the row is found by its id alone after the wait.
WritableAtFirst(u, p) == presets[p] # None
StillWritable(u, p) == Writable(u, p)

-----------------------------------------------------------------------------
BeginPreset(t, kind, u, p, scope, name) ==
    /\ presetRequest[t] = None
    /\ Writable(u, p)
    /\ presetRequest' = [presetRequest EXCEPT ![t] =
            [kind |-> kind, user |-> u, preset |-> p, name |-> name,
             scope |-> scope]]
    /\ UNCHANGED <<presets, presetVersions>>

BeginUpdatePreset(t, u, p, scope, name) ==
    /\ Len(presetVersions[p]) < MaxRevisions
    /\ BeginPreset(t, "update", u, p, scope, name)

BeginDeactivatePreset(t, u, p) ==
    /\ presets[p] # None
    /\ BeginPreset(t, "deactivate", u, p, presets[p].scope, presets[p].name)

PresetAsks(t, kind) ==
    presetRequest[t] # None /\ presetRequest[t].kind = kind
AnswerPreset(t) == presetRequest' = [presetRequest EXCEPT ![t] = None]

\* The scope that was submitted must be the scope of the row.
Revisable(t) ==
    LET r == presetRequest[t]
        row == presets[r.preset]
    IN /\ StillWritable(r.user, r.preset)
       /\ row.status = "active"
       /\ row.scope = r.scope
       /\ PresetNameFree(r.preset, row.scope, row.owner, r.name)

UpdateLayerPreset(t) ==
    /\ PresetAsks(t, "update")
    /\ Revisable(t)
    /\ LET r == presetRequest[t]
       IN /\ presetVersions' = [presetVersions EXCEPT ![r.preset] =
                Append(@, r.user)]
          /\ presets' = [presets EXCEPT
                ![r.preset].name = r.name,
                ![r.preset].current = Len(presetVersions[r.preset]) + 1]
    /\ AnswerPreset(t)

\* One UPDATE statement; an inactive preset is deactivated again.
DeactivateLayerPreset(t) ==
    /\ PresetAsks(t, "deactivate")
    /\ StillWritable(presetRequest[t].user, presetRequest[t].preset)
    /\ presets' = [presets EXCEPT
            ![presetRequest[t].preset].status = "inactive"]
    /\ AnswerPreset(t)
    /\ UNCHANGED presetVersions

RefusePreset(t) ==
    /\ \/ PresetAsks(t, "update") /\ ~Revisable(t)
       \/ /\ PresetAsks(t, "deactivate")
          /\ ~StillWritable(presetRequest[t].user, presetRequest[t].preset)
    /\ AnswerPreset(t)
    /\ UNCHANGED <<presets, presetVersions>>

\* Mutation: a shared preset still names its owner.
PromotedOwned(row) == [row EXCEPT !.scope = "shared"]
Promoted(row) == [row EXCEPT !.scope = "shared", !.owner = None]

\* Locked by id, so only the row after the wait counts.  The search for a
\* shared preset of that name and the unique index refuse the same names.
PromoteLayerPreset(u, p) ==
    /\ u \in Staff
    /\ presets[p] # None
    /\ presets[p].scope = "personal"
    /\ presets[p].status = "active"
    /\ PresetNameFree(p, "shared", None, presets[p].name)
    /\ presets' = [presets EXCEPT ![p] = Promoted(@)]
    /\ UNCHANGED <<presetVersions, presetRequest>>

-----------------------------------------------------------------------------
PresetRequests ==
    \/ \E u \in Users, p \in Presets, s \in Scopes, name \in PresetNames :
          \/ CreateLayerPreset(u, p, s, name)
          \/ \E t \in Txns : BeginUpdatePreset(t, u, p, s, name)
    \/ \E u \in Users, p \in Presets :
          \/ PromoteLayerPreset(u, p)
          \/ \E t \in Txns : BeginDeactivatePreset(t, u, p)

PresetSteps ==
    \E t \in Txns :
        \/ UpdateLayerPreset(t)
        \/ DeactivateLayerPreset(t)
        \/ RefusePreset(t)

PresetNext == PresetRequests \/ PresetSteps

PresetSpec == PresetInit /\ [][PresetNext]_presetVars

-----------------------------------------------------------------------------
(* Properties.                                                               *)

PresetTypeOK ==
    /\ presets \in [Presets -> PresetRow \cup {None}]
    /\ presetVersions \in [Presets -> Seq(Users)]
    /\ presetRequest \in [Txns -> PresetRequest \cup {None}]
    /\ \A p \in Presets :
          IF presets[p] = None
          THEN presetVersions[p] = <<>>
          ELSE /\ presets[p].current = Len(presetVersions[p])
               /\ presets[p].scope = "personal" <=> presets[p].owner # None

ItemOfPreset ==
    [p \in Presets |->
        IF presets[p] = None THEN None
        ELSE [owner |-> presets[p].owner,
              chain |-> presetVersions[p],
              scope |-> presets[p].scope,
              at |-> 0,
              status |-> IF presets[p].status = "active" THEN "open"
                                                         ELSE "retired"]]

PresetRevisions == INSTANCE Revisions WITH
    Items <- Presets, Authors <- Users, Curators <- Staff,
    Absent <- None, KeepsOrigin <- FALSE, item <- ItemOfPreset

ASSUME NoneIsNoPresetItem == None \notin PresetRevisions!Rows

\* "Append a revision to an active preset owned by the actor": under any
\* overlap with a promotion or a deactivation, a student never writes a preset
\* that has become shared, and nobody one that was deactivated.
PresetsAreRevisions == PresetRevisions!Spec

=============================================================================
