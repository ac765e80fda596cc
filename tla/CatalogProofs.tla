---------------------------- MODULE CatalogProofs ----------------------------
(* Proofs about the catalogs and the plans drawn from them, for any number of *)
(* rows, users, requests, plans, keys and runs: Baselines and LayerPresets    *)
(* implement Revisions, the directory shows what was reviewed, an import that *)
(* ends is complete, a plan keeps its version, its source and its doubts, and *)
(* all of them keep their types together.                                     *)
EXTENDS MCCatalog, SequenceTheorems, FiniteSetTheorems,
        WellFoundedInduction, TLAPS

USE DEF Scopes

-----------------------------------------------------------------------------
(* Layer presets.                                                            *)

LEMMA PresetNone ==
    /\ \A r \in PresetRow : r # None
    /\ \A r \in PresetRequest : r # None
    /\ \A u \in Users : u # None
  BY NoneIsNoPreset, NoneIsNobody

LEMMA PresetTypeInit == PresetInit => PresetTypeOK
  BY DEF PresetInit, PresetTypeOK

\* What a request may ask for is typed, so that what it leaves is.
LEMMA PresetTypeStep == PresetTypeOK /\ [PresetNext]_presetVars => PresetTypeOK'
<1> SUFFICES ASSUME PresetTypeOK, [PresetNext]_presetVars
             PROVE  PresetTypeOK'
  OBVIOUS
<1> USE PresetNone DEF PresetTypeOK
<1>1. ASSUME NEW u \in Users, NEW p \in Presets, NEW s \in Scopes,
             NEW name \in PresetNames, CreateLayerPreset(u, p, s, name)
      PROVE  PresetTypeOK'
  <2> DEFINE row == [name |-> name,
                     owner |-> IF s = "personal" THEN u ELSE None,
                     scope |-> s, status |-> "active", current |-> 1]
  <2>1. /\ presets' = [presets EXCEPT ![p] = row]
        /\ presetVersions' = [presetVersions EXCEPT ![p] = <<u>>]
        /\ presetRequest' = presetRequest
    BY <1>1 DEF CreateLayerPreset
  <2>2. row \in PresetRow
    BY DEF PresetRow
  <2>3. <<u>> \in Seq(Users) /\ Len(<<u>>) = 1
    OBVIOUS
  <2>4. row.scope = "personal" <=> row.owner # None
    OBVIOUS
  <2> HIDE DEF row
  <2>5. /\ presets' \in [Presets -> PresetRow \cup {None}]
        /\ presetVersions' \in [Presets -> Seq(Users)]
    BY <2>1, <2>2, <2>3
  <2>6. ASSUME NEW q \in Presets
        PROVE  IF presets'[q] = None
               THEN presetVersions'[q] = <<>>
               ELSE /\ presets'[q].current = Len(presetVersions'[q])
                    /\ presets'[q].scope = "personal"
                          <=> presets'[q].owner # None
    <3>1. CASE q = p
      <4>1. presets'[q] = row /\ presetVersions'[q] = <<u>>
        BY <2>1, <3>1
      <4>2. row.current = 1
        BY DEF row
      <4> QED
        BY <2>2, <2>3, <2>4, <4>1, <4>2
    <3>2. CASE q # p
      BY <2>1, <3>2
    <3> QED
      BY <3>1, <3>2
  <2> QED
    BY <2>1, <2>5, <2>6
<1>2. ASSUME NEW t \in Txns, NEW kind \in {"update", "deactivate"},
             NEW u \in Users, NEW p \in Presets, NEW s \in Scopes,
             NEW name \in PresetNames, BeginPreset(t, kind, u, p, s, name)
      PROVE  PresetTypeOK'
  <2>1. [kind |-> kind, user |-> u, preset |-> p, name |-> name, scope |-> s]
            \in PresetRequest
    BY DEF PresetRequest
  <2> QED
    BY <1>2, <2>1 DEF BeginPreset
<1>3. ASSUME NEW t \in Txns, NEW u \in Users, NEW p \in Presets,
             BeginDeactivatePreset(t, u, p)
      PROVE  PresetTypeOK'
  <2>1. presets[p] \in PresetRow
    BY <1>3 DEF BeginDeactivatePreset
  <2>2. presets[p].scope \in Scopes /\ presets[p].name \in PresetNames
    BY <2>1 DEF PresetRow
  <2> QED
    BY <1>2, <1>3, <2>2 DEF BeginDeactivatePreset
<1>4. ASSUME NEW t \in Txns, UpdateLayerPreset(t) PROVE PresetTypeOK'
  <2> DEFINE r == presetRequest[t]
             p == r.preset
             row == [presets[p] EXCEPT !.name = r.name,
                                       !.current = Len(presetVersions[p]) + 1]
             chain == Append(presetVersions[p], r.user)
  <2>1. r \in PresetRequest
    BY <1>4 DEF UpdateLayerPreset, PresetAsks
  <2>2. p \in Presets /\ r.user \in Users /\ r.name \in PresetNames
    BY <2>1 DEF PresetRequest
  <2>3. presets[p] \in PresetRow
    BY <1>4, <2>2 DEF UpdateLayerPreset, Revisable, StillWritable, Writable
  <2>4. /\ presets' = [presets EXCEPT ![p] = row]
        /\ presetVersions' = [presetVersions EXCEPT ![p] = chain]
        /\ presetRequest' = [presetRequest EXCEPT ![t] = None]
    BY <1>4, <2>2, <2>3 DEF UpdateLayerPreset, AnswerPreset, PresetRow
  <2>5. presetVersions[p] \in Seq(Users)
    BY <2>2
  <2>6. chain \in Seq(Users) /\ Len(chain) = Len(presetVersions[p]) + 1
    BY <2>2, <2>5
  <2>7. row \in PresetRow
    <3>1. Len(presetVersions[p]) + 1 \in Nat \ {0}
      BY <2>5
    <3> HIDE DEF p, r
    <3> QED
      BY <2>2, <2>3, <3>1 DEF PresetRow
  <2>8. /\ row.current = Len(chain)
        /\ row.scope = "personal" <=> row.owner # None
    BY <2>2, <2>3, <2>6 DEF PresetRow
  <2> HIDE DEF r, p, row, chain
  <2>9. /\ presets' \in [Presets -> PresetRow \cup {None}]
        /\ presetVersions' \in [Presets -> Seq(Users)]
        /\ presetRequest' \in [Txns -> PresetRequest \cup {None}]
    BY <2>2, <2>4, <2>6, <2>7
  <2>10. ASSUME NEW q \in Presets
         PROVE  IF presets'[q] = None
                THEN presetVersions'[q] = <<>>
                ELSE /\ presets'[q].current = Len(presetVersions'[q])
                     /\ presets'[q].scope = "personal"
                           <=> presets'[q].owner # None
    <3>1. CASE q = p
      <4>1. presets'[q] = row /\ presetVersions'[q] = chain
        BY <2>2, <2>4, <3>1
      <4> QED
        BY <2>7, <2>8, <4>1
    <3>2. CASE q # p
      BY <2>4, <3>2
    <3> QED
      BY <3>1, <3>2
  <2> QED
    BY <2>9, <2>10
<1>5. ASSUME NEW p \in Presets, NEW row \in PresetRow, presets[p] # None,
             presets' = [presets EXCEPT ![p] = row],
             row.current = presets[p].current,
             row.scope = "personal" <=> row.owner # None,
             presetVersions' = presetVersions,
             presetRequest' \in [Txns -> PresetRequest \cup {None}]
      PROVE  PresetTypeOK'
  <2>1. presets' \in [Presets -> PresetRow \cup {None}]
    BY <1>5
  <2>2. ASSUME NEW q \in Presets
        PROVE  IF presets'[q] = None
               THEN presetVersions'[q] = <<>>
               ELSE /\ presets'[q].current = Len(presetVersions'[q])
                    /\ presets'[q].scope = "personal"
                          <=> presets'[q].owner # None
    <3>1. CASE q = p
      BY <1>5, <3>1
    <3>2. CASE q # p
      BY <1>5, <3>2
    <3> QED
      BY <3>1, <3>2
  <2> QED
    BY <1>5, <2>1, <2>2
<1>6. ASSUME NEW t \in Txns, DeactivateLayerPreset(t) PROVE PresetTypeOK'
  <2> DEFINE p == presetRequest[t].preset
             row == [presets[p] EXCEPT !.status = "inactive"]
  <2>1. p \in Presets
    BY <1>6 DEF DeactivateLayerPreset, PresetAsks, PresetRequest
  <2>2. presets[p] \in PresetRow
    BY <1>6, <2>1 DEF DeactivateLayerPreset, StillWritable, Writable
  <2>3. /\ row \in PresetRow
        /\ row.current = presets[p].current
        /\ row.scope = "personal" <=> row.owner # None
    BY <2>1, <2>2 DEF PresetRow
  <2>4. /\ presets' = [presets EXCEPT ![p] = row]
        /\ presetVersions' = presetVersions
        /\ presetRequest' \in [Txns -> PresetRequest \cup {None}]
    BY <1>6 DEF DeactivateLayerPreset, AnswerPreset
  <2> HIDE DEF row, p
  <2> QED
    BY <1>5, <2>1, <2>2, <2>3, <2>4
<1>7. ASSUME NEW u \in Users, NEW p \in Presets, PromoteLayerPreset(u, p)
      PROVE  PresetTypeOK'
  <2>1. presets[p] \in PresetRow
    BY <1>7 DEF PromoteLayerPreset
  <2>2. /\ Promoted(presets[p]) \in PresetRow
        /\ Promoted(presets[p]).current = presets[p].current
        /\ Promoted(presets[p]).scope = "shared"
        /\ Promoted(presets[p]).owner = None
    BY <2>1 DEF PresetRow, Promoted
  <2>3. /\ presets' = [presets EXCEPT ![p] = Promoted(presets[p])]
        /\ presetVersions' = presetVersions
        /\ presetRequest' = presetRequest
    BY <1>7 DEF PromoteLayerPreset
  <2> QED
    BY <1>5, <2>1, <2>2, <2>3
<1>8. ASSUME NEW t \in Txns, RefusePreset(t) PROVE PresetTypeOK'
  BY <1>8 DEF RefusePreset, AnswerPreset
<1>9. CASE UNCHANGED presetVars
  BY <1>9 DEF presetVars
<1> QED
  BY <1>1, <1>2, <1>3, <1>4, <1>6, <1>7, <1>8, <1>9
  DEF PresetNext, PresetRequests, PresetSteps, BeginUpdatePreset

\* Rows, revisions and requests of layer presets have their types; the current
\* revision of a preset is its last, and it has an owner exactly while personal.
THEOREM PresetTypeCorrect == PresetSpec => []PresetTypeOK
<1>1. PresetInit => PresetTypeOK
  BY PresetTypeInit
<1>2. PresetTypeOK /\ [PresetNext]_presetVars => PresetTypeOK'
  BY PresetTypeStep
<1> QED
  BY <1>1, <1>2, PTL DEF PresetSpec

-----------------------------------------------------------------------------
(* LayerPresets implements Revisions.                                        *)

PresetItem(row, chain) ==
    [owner |-> row.owner, chain |-> chain, scope |-> row.scope, at |-> 0,
     status |-> IF row.status = "active" THEN "open" ELSE "retired"]

\* A step that writes one preset writes one item.
LEMMA PresetItemWritten ==
    ASSUME PresetTypeOK, NEW p \in Presets, NEW row, row # None,
           NEW chain,
           presets' = [presets EXCEPT ![p] = row],
           presetVersions' = [presetVersions EXCEPT ![p] = chain]
    PROVE  ItemOfPreset' = [ItemOfPreset EXCEPT ![p] = PresetItem(row, chain)]
<1>1. /\ presets'[p] = row /\ presetVersions'[p] = chain
      /\ \A q \in Presets \ {p} : /\ presets'[q] = presets[q]
                                  /\ presetVersions'[q] = presetVersions[q]
  BY DEF PresetTypeOK
<1>2. ItemOfPreset'[p] = PresetItem(row, chain)
  BY <1>1 DEF ItemOfPreset, PresetItem
<1>3. \A q \in Presets \ {p} : ItemOfPreset'[q] = ItemOfPreset[q]
  BY <1>1 DEF ItemOfPreset
<1>4. /\ ItemOfPreset = [q \in Presets |-> ItemOfPreset[q]]
      /\ ItemOfPreset' = [q \in Presets |-> ItemOfPreset'[q]]
  BY DEF ItemOfPreset
<1> QED
  BY <1>2, <1>3, <1>4

\* An item is absent exactly while its preset is.
LEMMA PresetItemOf ==
    ASSUME PresetTypeOK, NEW p \in Presets
    PROVE  /\ presets[p] = None => ItemOfPreset[p] = None
           /\ presets[p] # None =>
                 /\ ItemOfPreset[p] = PresetItem(presets[p], presetVersions[p])
                 /\ ItemOfPreset[p] # None
<1>1. CASE presets[p] = None
  BY <1>1 DEF ItemOfPreset
<1>2. CASE presets[p] # None
  <2>1. ItemOfPreset[p] = PresetItem(presets[p], presetVersions[p])
    BY <1>2 DEF ItemOfPreset, PresetItem
  <2>2. presets[p] \in PresetRow /\ presetVersions[p] \in Seq(Users)
    BY <1>2 DEF PresetTypeOK
  <2>3. PresetItem(presets[p], presetVersions[p]) \in PresetRevisions!Rows
    BY <2>2 DEF PresetItem, PresetRevisions!Rows, PresetRow
  <2> QED
    BY <1>2, <2>1, <2>3, NoneIsNoPresetItem
<1> QED
  BY <1>1, <1>2

LEMMA PresetRevisionsInit == PresetInit => PresetRevisions!Init
  BY DEF PresetInit, PresetRevisions!Init, ItemOfPreset

LEMMA PresetRevisionsStep ==
    PresetTypeOK /\ [PresetNext]_presetVars
        => [PresetRevisions!Next]_ItemOfPreset
<1> SUFFICES ASSUME PresetTypeOK, [PresetNext]_presetVars
             PROVE  PresetRevisions!Next \/ UNCHANGED ItemOfPreset
  BY DEF PresetRevisions!Next
<1>1. ASSUME NEW u \in Users, NEW p \in Presets, NEW s \in Scopes,
             NEW name \in PresetNames, CreateLayerPreset(u, p, s, name)
      PROVE  PresetRevisions!Next
  <2> DEFINE row == [name |-> name,
                     owner |-> IF s = "personal" THEN u ELSE None,
                     scope |-> s, status |-> "active", current |-> 1]
  <2>1. /\ presets[p] = None
        /\ presets' = [presets EXCEPT ![p] = row]
        /\ presetVersions' = [presetVersions EXCEPT ![p] = <<u>>]
    BY <1>1 DEF CreateLayerPreset
  <2>2. row # None
    <3>1. row \in PresetRow
      BY DEF PresetRow
    <3> QED
      BY <3>1, PresetNone
  <2>3. ItemOfPreset' = [ItemOfPreset EXCEPT ![p] = PresetItem(row, <<u>>)]
    <3> HIDE DEF row
    <3> QED
      BY <2>1, <2>2, PresetItemWritten
  <2>4. ItemOfPreset[p] = None
    BY <2>1, PresetItemOf
  <2>5. PresetItem(row, <<u>>) = IF s = "personal"
                                 THEN PresetRevisions!Chain(u, u, "personal")
                                 ELSE PresetRevisions!Chain(None, u, "shared")
    BY DEF PresetItem, PresetRevisions!Chain
  <2>6. PresetRevisions!Create(p, u)
    BY <2>3, <2>4, <2>5 DEF PresetRevisions!Create
  <2> QED
    BY <2>6 DEF PresetRevisions!Next
<1>2. ASSUME NEW t \in Txns, UpdateLayerPreset(t) PROVE PresetRevisions!Next
  <2> DEFINE r == presetRequest[t]
             p == r.preset
             row == [presets[p] EXCEPT !.name = r.name,
                                       !.current = Len(presetVersions[p]) + 1]
             chain == Append(presetVersions[p], r.user)
  <2>1. p \in Presets /\ r.user \in Users
    BY <1>2 DEF UpdateLayerPreset, PresetAsks, PresetTypeOK, PresetRequest
  <2>2. /\ presets[p] # None
        /\ presets[p] \in PresetRow
        /\ presets[p].status = "active"
        /\ \/ presets[p].scope = "personal" /\ presets[p].owner = r.user
           \/ presets[p].scope = "shared" /\ r.user \in Staff
    BY <1>2, <2>1 DEF UpdateLayerPreset, Revisable, StillWritable, Writable,
                      PresetTypeOK
  <2>3. /\ presets' = [presets EXCEPT ![p] = row]
        /\ presetVersions' = [presetVersions EXCEPT ![p] = chain]
    BY <1>2, <2>1, <2>2 DEF UpdateLayerPreset, PresetTypeOK, PresetRow
  <2>4. /\ row.owner = presets[p].owner
        /\ row.scope = presets[p].scope
        /\ row.status = presets[p].status
    BY <2>2 DEF PresetRow
  <2>5. row # None
    <3>1. presets'[p] \in PresetRow \cup {None}
      BY <2>1, PresetTypeStep DEF PresetTypeOK
    <3>2. presets'[p] = None => presetVersions'[p] = <<>>
      BY <2>1, PresetTypeStep DEF PresetTypeOK
    <3>3. presetVersions'[p] = chain /\ presets'[p] = row
      BY <2>1, <2>3 DEF PresetTypeOK
    <3>4. chain # <<>>
      <4>1. presetVersions[p] \in Seq(Users)
        BY <2>1 DEF PresetTypeOK
      <4>2. Len(chain) = Len(presetVersions[p]) + 1
        BY <2>1, <4>1
      <4>3. Len(presetVersions[p]) \in Nat
        BY <4>1
      <4> HIDE DEF chain
      <4> QED
        BY <4>2, <4>3
    <3> QED
      BY <3>2, <3>3, <3>4
  <2> HIDE DEF row, chain, r, p
  <2>6. ItemOfPreset' = [ItemOfPreset EXCEPT ![p] = PresetItem(row, chain)]
    BY <2>1, <2>3, <2>5, PresetItemWritten
  <2>7. /\ ItemOfPreset[p] # None
        /\ ItemOfPreset[p] = PresetItem(presets[p], presetVersions[p])
    BY <2>1, <2>2, PresetItemOf
  <2>8. PresetItem(row, chain) =
            [ItemOfPreset[p] EXCEPT !.chain = Append(@, r.user)]
    BY <2>4, <2>7 DEF PresetItem, chain
  <2>9. /\ ItemOfPreset[p].status = "open"
        /\ IF ItemOfPreset[p].scope = "shared"
           THEN r.user \in Staff
           ELSE r.user = ItemOfPreset[p].owner
    BY <2>2, <2>7 DEF PresetItem
  <2>10. PresetRevisions!Revise(p, r.user)
    BY <2>1, <2>6, <2>7, <2>8, <2>9
    DEF PresetRevisions!Revise, PresetRevisions!Open, ItemOfPreset
  <2> QED
    BY <2>1, <2>10 DEF PresetRevisions!Next
<1>3. ASSUME NEW t \in Txns, DeactivateLayerPreset(t)
      PROVE  PresetRevisions!Next \/ UNCHANGED ItemOfPreset
  <2> DEFINE p == presetRequest[t].preset
             row == [presets[p] EXCEPT !.status = "inactive"]
  <2>1. p \in Presets
    BY <1>3 DEF DeactivateLayerPreset, PresetAsks, PresetTypeOK, PresetRequest
  <2>2. presets[p] \in PresetRow /\ presets[p] # None
    BY <1>3, <2>1 DEF DeactivateLayerPreset, StillWritable, Writable,
                      PresetTypeOK
  <2>3. /\ presets' = [presets EXCEPT ![p] = row]
        /\ presetVersions' =
              [presetVersions EXCEPT ![p] = presetVersions[p]]
    BY <1>3, <2>1 DEF DeactivateLayerPreset, PresetTypeOK
  <2>4. /\ row \in PresetRow
        /\ row.owner = presets[p].owner
        /\ row.scope = presets[p].scope
        /\ row.status = "inactive"
    BY <2>2 DEF PresetRow
  <2> HIDE DEF row, p
  <2>5. ItemOfPreset' = [ItemOfPreset EXCEPT
                            ![p] = PresetItem(row, presetVersions[p])]
    BY <2>1, <2>3, <2>4, PresetItemWritten, PresetNone
  <2>6. /\ ItemOfPreset[p] # None
        /\ ItemOfPreset[p] = PresetItem(presets[p], presetVersions[p])
    BY <2>1, <2>2, PresetItemOf
  <2>7. PresetItem(row, presetVersions[p]) =
            [ItemOfPreset[p] EXCEPT !.status = "retired"]
    BY <2>4, <2>6 DEF PresetItem
  <2>8. CASE ItemOfPreset[p].status = "open"
    <3>1. PresetRevisions!Retire(p)
      BY <2>1, <2>5, <2>6, <2>7, <2>8
      DEF PresetRevisions!Retire, PresetRevisions!Open, ItemOfPreset
    <3> QED
      BY <2>1, <3>1 DEF PresetRevisions!Next
  <2>9. CASE ItemOfPreset[p].status # "open"
    <3>1. PresetItem(row, presetVersions[p]) = ItemOfPreset[p]
      BY <2>4, <2>6, <2>9 DEF PresetItem
    <3> QED
      BY <2>1, <2>5, <3>1 DEF ItemOfPreset
  <2> QED
    BY <2>8, <2>9
<1>4. ASSUME NEW u \in Users, NEW p \in Presets, PromoteLayerPreset(u, p)
      PROVE  PresetRevisions!Next
  <2> DEFINE row == Promoted(presets[p])
  <2>1. /\ presets[p] # None
        /\ presets[p] \in PresetRow
        /\ presets[p].scope = "personal"
        /\ presets[p].status = "active"
    BY <1>4 DEF PromoteLayerPreset, PresetTypeOK
  <2>2. /\ row \in PresetRow
        /\ row.owner = None
        /\ row.scope = "shared"
        /\ row.status = "active"
    BY <2>1 DEF PresetRow, Promoted
  <2>3. /\ presets' = [presets EXCEPT ![p] = row]
        /\ presetVersions' =
              [presetVersions EXCEPT ![p] = presetVersions[p]]
    BY <1>4 DEF PromoteLayerPreset, PresetTypeOK
  <2> HIDE DEF row
  <2>4. ItemOfPreset' = [ItemOfPreset EXCEPT
                            ![p] = PresetItem(row, presetVersions[p])]
    BY <2>2, <2>3, PresetItemWritten, PresetNone
  <2>5. /\ ItemOfPreset[p] # None
        /\ ItemOfPreset[p] = PresetItem(presets[p], presetVersions[p])
    BY <2>1, PresetItemOf
  <2>6. /\ ItemOfPreset[p].status = "open"
        /\ ItemOfPreset[p].scope = "personal"
    BY <2>1, <2>5 DEF PresetItem
  <2>7. PresetItem(row, presetVersions[p])
           = PresetRevisions!Shared(ItemOfPreset[p])
    BY <2>1, <2>2, <2>5 DEF PresetItem, PresetRevisions!Shared
  <2>8. PresetRevisions!Share(p)
    BY <2>4, <2>5, <2>6, <2>7
    DEF PresetRevisions!Share, PresetRevisions!Open, ItemOfPreset
  <2> QED
    BY <2>8 DEF PresetRevisions!Next
<1>5. ASSUME UNCHANGED <<presets, presetVersions>>
      PROVE  UNCHANGED ItemOfPreset
  BY <1>5 DEF ItemOfPreset
<1>6. ASSUME NEW t \in Txns, RefusePreset(t) PROVE UNCHANGED ItemOfPreset
  BY <1>5, <1>6 DEF RefusePreset
<1>7. ASSUME NEW t \in Txns, NEW u \in Users, NEW p \in Presets,
             \/ BeginDeactivatePreset(t, u, p)
             \/ \E s \in Scopes, name \in PresetNames :
                   BeginUpdatePreset(t, u, p, s, name)
      PROVE  UNCHANGED ItemOfPreset
  BY <1>5, <1>7 DEF BeginDeactivatePreset, BeginUpdatePreset, BeginPreset
<1>8. CASE UNCHANGED presetVars
  BY <1>5, <1>8 DEF presetVars
<1> QED
  BY <1>1, <1>2, <1>3, <1>4, <1>6, <1>7, <1>8
  DEF PresetNext, PresetRequests, PresetSteps

\* However requests on layer presets overlap, the chain of a preset only grows,
\* by its owner while it is personal and by the staff once it is shared, and
\* never after it was deactivated.
THEOREM PresetsImplementRevisions == PresetSpec => PresetsAreRevisions
<1>1. PresetInit => PresetRevisions!Init
  BY PresetRevisionsInit
<1>2. PresetTypeOK /\ [PresetNext]_presetVars
        => [PresetRevisions!Next]_ItemOfPreset
  BY PresetRevisionsStep
<1> QED
  BY <1>1, <1>2, PresetTypeCorrect, PTL
  DEF PresetSpec, PresetsAreRevisions, PresetRevisions!Spec

-----------------------------------------------------------------------------
(* Baselines.                                                                *)

LEMMA BaseNone ==
    /\ \A r \in BaselineRow : r # None
    /\ \A r \in BaseRequest : r # None
  BY NoneIsNoBaseline

LEMMA BaseTypeInit == BaseInit => BaseTypeOK
  BY DEF BaseInit, BaseTypeOK

\* A step that writes one baseline with its revisions, and at most answers.
LEMMA BaseWritten ==
    ASSUME BaseTypeOK, NEW b \in Bases, NEW row \in BaselineRow,
           NEW chain \in Seq(Users), row.current = Len(chain),
           baselines' = [baselines EXCEPT ![b] = row],
           versions' = [versions EXCEPT ![b] = chain],
           \/ baseRequest' = baseRequest
           \/ \E t \in Txns : Answer(t)
    PROVE  BaseTypeOK'
<1> USE BaseNone DEF BaseTypeOK
<1>1. /\ baselines' \in [Bases -> BaselineRow \cup {None}]
      /\ versions' \in [Bases -> Seq(Users)]
      /\ baseRequest' \in [Txns -> BaseRequest \cup {None}]
  BY DEF Answer
<1>2. ASSUME NEW c \in Bases
      PROVE  /\ baselines[c] # None => baselines'[c] # None
             /\ IF baselines'[c] = None
                THEN versions'[c] = <<>>
                ELSE baselines'[c].current = Len(versions'[c])
  <2>1. CASE c = b
    BY <2>1
  <2>2. CASE c # b
    BY <2>2
  <2> QED
    BY <2>1, <2>2
<1>3. ASSUME NEW t \in Txns, baseRequest'[t] # None
      PROVE  baselines'[baseRequest'[t].base] # None
  <2>1. baseRequest'[t] = baseRequest[t]
    BY <1>3 DEF Answer
  <2>2. baseRequest[t].base \in Bases
    BY <1>3, <2>1 DEF BaseRequest
  <2> QED
    BY <1>2, <1>3, <2>1, <2>2
<1> QED
  BY <1>1, <1>2, <1>3

\* The row a request is about, while it is open.
LEMMA BaseAsked ==
    ASSUME BaseTypeOK, NEW t \in Txns, baseRequest[t] # None
    PROVE  /\ baseRequest[t] \in BaseRequest
           /\ baseRequest[t].base \in Bases
           /\ baseRequest[t].user \in Users
           /\ baseRequest[t].name \in BaseNames
           /\ baseRequest[t].seen \in BaselineRow
           /\ baselines[baseRequest[t].base] \in BaselineRow
           /\ baselines[baseRequest[t].base] # None
           /\ versions[baseRequest[t].base] \in Seq(Users)
           /\ baselines[baseRequest[t].base].current
                 = Len(versions[baseRequest[t].base])
  BY DEF BaseTypeOK, BaseRequest

\* What the four writing steps make of a baseline.
BaseRow(u, name) ==
    [name |-> name, owner |-> IF u \in Students THEN u ELSE None,
     scope |-> IF u \in Students THEN "personal" ELSE "shared",
     status |-> "active", current |-> 1, promoted |-> 0]

LEMMA SaveEffect ==
    ASSUME BaseTypeOK, NEW u \in Users, NEW b \in Bases, NEW name \in BaseNames,
           SaveBaseline(u, b, name)
    PROVE  /\ baselines[b] = None
           /\ BaseRow(u, name) \in BaselineRow
           /\ BaseRow(u, name).current = Len(<<u>>)
           /\ <<u>> \in Seq(Users)
           /\ baselines' = [baselines EXCEPT ![b] = BaseRow(u, name)]
           /\ versions' = [versions EXCEPT ![b] = <<u>>]
           /\ baseRequest' = baseRequest
<1>1. /\ baselines[b] = None
      /\ baselines' = [baselines EXCEPT ![b] = BaseRow(u, name)]
      /\ versions' = [versions EXCEPT ![b] = <<u>>]
      /\ baseRequest' = baseRequest
  BY NoneIsNobody DEF SaveBaseline, BaseRow
<1>2. BaseRow(u, name) \in BaselineRow
  BY DEF BaseRow, BaselineRow
<1>3. BaseRow(u, name).current = 1
  BY DEF BaseRow
<1>4. <<u>> \in Seq(Users) /\ Len(<<u>>) = 1
  OBVIOUS
<1> QED
  BY <1>1, <1>2, <1>3, <1>4

LEMMA UpdateEffect ==
    ASSUME BaseTypeOK, NEW t \in Txns, UpdateBaseline(t)
    PROVE  LET b == baseRequest[t].base
               chain == Append(versions[b], baseRequest[t].user)
           IN \E row \in BaselineRow :
                 /\ row.current = Len(chain)
                 /\ row.owner = baselines[b].owner
                 /\ row.scope = baselines[b].scope
                 /\ row.status = baselines[b].status
                 /\ row.promoted = baselines[b].promoted
                 /\ chain \in Seq(Users)
                 /\ baselines' = [baselines EXCEPT ![b] = row]
                 /\ versions' = [versions EXCEPT ![b] = chain]
<1> DEFINE b == baseRequest[t].base
           u == baseRequest[t].user
           chain == Append(versions[b], u)
           row == [baselines[b] EXCEPT !.name = baseRequest[t].name,
                                       !.current = Len(versions[b]) + 1]
<1>1. baseRequest[t] # None
  BY DEF UpdateBaseline, Asks
<1>2. /\ b \in Bases /\ u \in Users /\ baseRequest[t].name \in BaseNames
      /\ baselines[b] \in BaselineRow /\ versions[b] \in Seq(Users)
  BY <1>1, BaseAsked
<1>3. /\ baselines' = [baselines EXCEPT ![b] = row]
      /\ versions' = [versions EXCEPT ![b] = chain]
  BY <1>2 DEF UpdateBaseline, BaselineRow, BaseTypeOK
<1>4. chain \in Seq(Users) /\ Len(chain) = Len(versions[b]) + 1
  BY <1>2
<1>5. Len(versions[b]) + 1 \in Nat \ {0}
  BY <1>2
<1> HIDE DEF b, u, chain
<1>6. /\ row \in BaselineRow
      /\ row.current = Len(versions[b]) + 1
      /\ row.owner = baselines[b].owner
      /\ row.scope = baselines[b].scope
      /\ row.status = baselines[b].status
      /\ row.promoted = baselines[b].promoted
  BY <1>2, <1>5 DEF BaselineRow
<1> HIDE DEF row
<1> QED
  BY <1>3, <1>4, <1>6 DEF b, u, chain

LEMMA PromoteEffect ==
    ASSUME BaseTypeOK, NEW t \in Txns, PromoteBaseline(t)
    PROVE  LET b == baseRequest[t].base
           IN \E row \in BaselineRow :
                 /\ baselines[b].scope = "personal"
                 /\ baselines[b].status = "active"
                 /\ row.current = Len(versions[b])
                 /\ row.owner = baselines[b].owner
                 /\ row.scope = "shared"
                 /\ row.status = "active"
                 /\ row.promoted = Len(versions[b])
                 /\ baselines' = [baselines EXCEPT ![b] = row]
                 /\ versions' = [versions EXCEPT ![b] = versions[b]]
<1> DEFINE b == baseRequest[t].base
           row == [baselines[b] EXCEPT
                     !.scope = "shared",
                     !.promoted = baseRequest[t].seen.current]
<1>1. baseRequest[t] # None
  BY DEF PromoteBaseline, Asks
<1>2. /\ b \in Bases
      /\ baselines[b] \in BaselineRow /\ versions[b] \in Seq(Users)
      /\ baselines[b].current = Len(versions[b])
  BY <1>1, BaseAsked
<1>3. /\ baselines' = [baselines EXCEPT ![b] = row]
      /\ versions' = [versions EXCEPT ![b] = versions[b]]
  BY <1>2 DEF PromoteBaseline, BaselineRow, BaseTypeOK
<1>4. /\ baselines[b].scope = "personal"
      /\ baselines[b].status = "active"
      /\ baseRequest[t].seen.current = Len(versions[b])
  BY <1>2 DEF PromoteBaseline, Promotable, Joined
<1>5. Len(versions[b]) \in Nat
  BY <1>2
<1>6. /\ row \in BaselineRow
      /\ row.current = Len(versions[b])
      /\ row.owner = baselines[b].owner
      /\ row.scope = "shared"
      /\ row.status = "active"
      /\ row.promoted = Len(versions[b])
  <2> HIDE DEF b
  <2> QED
    BY <1>2, <1>4, <1>5 DEF BaselineRow
<1> HIDE DEF row
<1> QED
  BY <1>3, <1>4, <1>6 DEF b

LEMMA DeleteEffect ==
    ASSUME BaseTypeOK, NEW t \in Txns, DeleteBaseline(t)
    PROVE  LET b == baseRequest[t].base
           IN \E row \in BaselineRow :
                 /\ row.current = Len(versions[b])
                 /\ row.owner = baselines[b].owner
                 /\ row.scope = baselines[b].scope
                 /\ row = baselines[b] \/ row.status = "archived"
                 /\ row.promoted = baselines[b].promoted
                 /\ baselines' = [baselines EXCEPT ![b] = row]
                 /\ versions' = [versions EXCEPT ![b] = versions[b]]
<1> DEFINE b == baseRequest[t].base
           row == [baselines[b] EXCEPT !.status = "archived"]
<1>1. baseRequest[t] # None
  BY DEF DeleteBaseline, Asks
<1>2. /\ b \in Bases
      /\ baselines[b] \in BaselineRow /\ versions[b] \in Seq(Users)
      /\ baselines[b].current = Len(versions[b])
  BY <1>1, BaseAsked
<1>3. versions' = [versions EXCEPT ![b] = versions[b]]
  BY <1>2 DEF DeleteBaseline, BaseTypeOK
<1>4. CASE baseRequest[t].seen.status = "archived"
  <2>1. baselines' = [baselines EXCEPT ![b] = baselines[b]]
    BY <1>2, <1>4 DEF DeleteBaseline, BaseTypeOK
  <2> QED
    BY <1>2, <1>3, <2>1
<1>5. CASE baseRequest[t].seen.status # "archived"
  <2>1. baselines' = [baselines EXCEPT ![b] = row]
    BY <1>5 DEF DeleteBaseline
  <2>2. /\ row \in BaselineRow
        /\ row.current = Len(versions[b])
        /\ row.owner = baselines[b].owner
        /\ row.scope = baselines[b].scope
        /\ row.status = "archived"
        /\ row.promoted = baselines[b].promoted
    BY <1>2 DEF BaselineRow
  <2> HIDE DEF row
  <2> QED
    BY <1>3, <2>1, <2>2 DEF b
<1> QED
  BY <1>4, <1>5

LEMMA BaseTypeStep ==
    BaseTypeOK /\ [BaseRequests \/ BaseSteps]_baseVars => BaseTypeOK'
<1> SUFFICES ASSUME BaseTypeOK, [BaseRequests \/ BaseSteps]_baseVars
             PROVE  BaseTypeOK'
  OBVIOUS
<1>1. ASSUME NEW u \in Users, NEW b \in Bases, NEW name \in BaseNames,
             SaveBaseline(u, b, name)
      PROVE  BaseTypeOK'
  <2>1. /\ BaseRow(u, name) \in BaselineRow
        /\ BaseRow(u, name).current = Len(<<u>>)
        /\ <<u>> \in Seq(Users)
        /\ baselines' = [baselines EXCEPT ![b] = BaseRow(u, name)]
        /\ versions' = [versions EXCEPT ![b] = <<u>>]
        /\ baseRequest' = baseRequest
    BY <1>1, SaveEffect
  <2> QED
    BY <2>1, BaseWritten
<1>2. ASSUME NEW t \in Txns, NEW kind \in {"update", "promote", "archive"},
             NEW u \in Users, NEW b \in Bases, NEW name \in BaseNames,
             BeginBase(t, kind, u, b, name)
      PROVE  BaseTypeOK'
  <2> DEFINE r == [kind |-> kind, user |-> u, base |-> b, name |-> name,
                   seen |-> baselines[b]]
  <2>1. baselines[b] # None /\ baselines[b] \in BaselineRow
    BY <1>2 DEF BeginBase, BaseTypeOK
  <2>2. r \in BaseRequest /\ r.base = b
    BY <2>1 DEF BaseRequest
  <2>3. /\ baseRequest' = [baseRequest EXCEPT ![t] = r]
        /\ baselines' = baselines /\ versions' = versions
    BY <1>2 DEF BeginBase
  <2> HIDE DEF r
  <2>4. \A x \in Txns : baseRequest'[x] # None =>
           baselines'[baseRequest'[x].base] # None
    BY <2>1, <2>2, <2>3 DEF BaseTypeOK
  <2> QED
    BY <2>2, <2>3, <2>4 DEF BaseTypeOK
<1>3. ASSUME NEW t \in Txns, NEW u \in Users, NEW b \in Bases,
             BeginPromoteBaseline(t, u, b) \/ BeginArchiveBaseline(t, u, b)
      PROVE  BaseTypeOK'
  <2>1. baselines[b].name \in BaseNames
    BY <1>3 DEF BeginPromoteBaseline, BeginArchiveBaseline, BaseTypeOK,
                BaselineRow
  <2> QED
    BY <1>2, <1>3, <2>1 DEF BeginPromoteBaseline, BeginArchiveBaseline
<1>4. ASSUME NEW t \in Txns, UpdateBaseline(t) PROVE BaseTypeOK'
  <2>1. baseRequest[t].base \in Bases /\ Answer(t)
    BY <1>4, BaseAsked DEF UpdateBaseline, Asks
  <2> QED
    BY <1>4, <2>1, UpdateEffect, BaseWritten
<1>5. ASSUME NEW t \in Txns, PromoteBaseline(t) PROVE BaseTypeOK'
  <2>1. /\ baseRequest[t].base \in Bases /\ Answer(t)
        /\ versions[baseRequest[t].base] \in Seq(Users)
    BY <1>5, BaseAsked DEF PromoteBaseline, Asks
  <2> QED
    BY <1>5, <2>1, PromoteEffect, BaseWritten
<1>6. ASSUME NEW t \in Txns, DeleteBaseline(t) PROVE BaseTypeOK'
  <2>1. /\ baseRequest[t].base \in Bases /\ Answer(t)
        /\ versions[baseRequest[t].base] \in Seq(Users)
    BY <1>6, BaseAsked DEF DeleteBaseline, Asks
  <2> QED
    BY <1>6, <2>1, DeleteEffect, BaseWritten
<1>7. ASSUME NEW t \in Txns, RefuseBaseline(t) PROVE BaseTypeOK'
  BY <1>7, BaseNone DEF RefuseBaseline, Answer, BaseTypeOK
<1>8. CASE UNCHANGED baseVars
  BY <1>8 DEF baseVars, BaseTypeOK
<1> QED
  BY <1>1, <1>2, <1>3, <1>4, <1>5, <1>6, <1>7, <1>8
  DEF BaseRequests, BaseSteps, BeginUpdateBaseline

\* Rows, revisions and requests of baselines have their types; the current
\* revision of a baseline is its last, and an open request is about a baseline
\* that exists.
THEOREM BaseTypeCorrect == BaseSpec => []BaseTypeOK
<1>1. BaseInit => BaseTypeOK
  BY BaseTypeInit
<1>2. BaseTypeOK /\ [BaseRequests \/ BaseSteps]_baseVars => BaseTypeOK'
  BY BaseTypeStep
<1> QED
  BY <1>1, <1>2, PTL DEF BaseSpec

-----------------------------------------------------------------------------
(* Baselines implements Revisions.                                           *)

BaseItem(row, chain) ==
    [owner |-> row.owner, chain |-> chain, scope |-> row.scope,
     at |-> row.promoted,
     status |-> IF row.status = "active" THEN "open" ELSE "retired"]

\* A step that writes one baseline writes one item.
LEMMA BaseItemWritten ==
    ASSUME BaseTypeOK, NEW b \in Bases, NEW row \in BaselineRow,
           NEW chain,
           baselines' = [baselines EXCEPT ![b] = row],
           versions' = [versions EXCEPT ![b] = chain]
    PROVE  ItemOfBaseline' = [ItemOfBaseline EXCEPT ![b] = BaseItem(row, chain)]
<1>1. /\ baselines'[b] = row /\ versions'[b] = chain
      /\ \A c \in Bases \ {b} : /\ baselines'[c] = baselines[c]
                                /\ versions'[c] = versions[c]
  BY DEF BaseTypeOK
<1>2. ItemOfBaseline'[b] = BaseItem(row, chain)
  BY <1>1, BaseNone DEF ItemOfBaseline, BaseItem
<1>3. \A c \in Bases \ {b} : ItemOfBaseline'[c] = ItemOfBaseline[c]
  BY <1>1 DEF ItemOfBaseline
<1>4. /\ ItemOfBaseline = [c \in Bases |-> ItemOfBaseline[c]]
      /\ ItemOfBaseline' = [c \in Bases |-> ItemOfBaseline'[c]]
  BY DEF ItemOfBaseline
<1> QED
  BY <1>2, <1>3, <1>4

\* An item is absent exactly while its baseline is.
LEMMA BaseItemOf ==
    ASSUME BaseTypeOK, NEW b \in Bases
    PROVE  /\ baselines[b] = None => ItemOfBaseline[b] = None
           /\ baselines[b] # None =>
                 /\ ItemOfBaseline[b] = BaseItem(baselines[b], versions[b])
                 /\ ItemOfBaseline[b] # None
<1>1. CASE baselines[b] = None
  BY <1>1 DEF ItemOfBaseline
<1>2. CASE baselines[b] # None
  <2>1. ItemOfBaseline[b] = BaseItem(baselines[b], versions[b])
    BY <1>2 DEF ItemOfBaseline, BaseItem
  <2>2. baselines[b] \in BaselineRow /\ versions[b] \in Seq(Users)
    BY <1>2 DEF BaseTypeOK
  <2>3. BaseItem(baselines[b], versions[b]) \in BaseRevisions!Rows
    BY <2>2 DEF BaseItem, BaseRevisions!Rows, BaselineRow
  <2> QED
    BY <1>2, <2>1, <2>3, NoneIsNoBaselineItem
<1> QED
  BY <1>1, <1>2

\* An item with one more revision, all else equal.
LEMMA BaseItemRevised ==
    ASSUME NEW old, NEW row, NEW chain, NEW u,
           row.owner = old.owner, row.scope = old.scope,
           row.status = old.status, row.promoted = old.promoted
    PROVE  BaseItem(row, Append(chain, u))
              = [BaseItem(old, chain) EXCEPT !.chain = Append(@, u)]
<1>1. BaseItem(old, chain).chain = chain
  BY DEF BaseItem
<1> DEFINE longer == Append(chain, u)
<1>2. Append(BaseItem(old, chain).chain, u) = longer
  BY <1>1
<1> HIDE DEF longer
<1>3. BaseItem(row, longer) = [BaseItem(old, chain) EXCEPT !.chain = longer]
  BY DEF BaseItem
<1> QED
  BY <1>2, <1>3 DEF longer

LEMMA BaseRevisionsInit == BaseInit => BaseRevisions!Init
  BY DEF BaseInit, BaseRevisions!Init, ItemOfBaseline

LEMMA BaseRevisionsStep ==
    BaseTypeOK /\ [BaseRequests \/ BaseSteps]_baseVars
        => [BaseRevisions!Next]_ItemOfBaseline
<1> SUFFICES ASSUME BaseTypeOK, [BaseRequests \/ BaseSteps]_baseVars
             PROVE  BaseRevisions!Next \/ UNCHANGED ItemOfBaseline
  BY DEF BaseRevisions!Next
<1>1. ASSUME NEW u \in Users, NEW b \in Bases, NEW name \in BaseNames,
             SaveBaseline(u, b, name)
      PROVE  BaseRevisions!Next
  <2> DEFINE item == BaseItem(BaseRow(u, name), <<u>>)
  <2>1. /\ BaseRow(u, name) \in BaselineRow
        /\ baselines[b] = None
        /\ baselines' = [baselines EXCEPT ![b] = BaseRow(u, name)]
        /\ versions' = [versions EXCEPT ![b] = <<u>>]
    BY <1>1, SaveEffect
  <2>2. ItemOfBaseline' = [ItemOfBaseline EXCEPT ![b] = item]
    BY <2>1, BaseItemWritten
  <2>3. ItemOfBaseline[b] = None
    BY <2>1, BaseItemOf
  <2>4. item = IF u \in Students
               THEN BaseRevisions!Chain(u, u, "personal")
               ELSE BaseRevisions!Chain(None, u, "shared")
    BY DEF BaseItem, BaseRow, BaseRevisions!Chain
  <2>5. BaseRevisions!Create(b, u)
    BY <2>2, <2>3, <2>4 DEF BaseRevisions!Create
  <2> QED
    BY <2>5 DEF BaseRevisions!Next
<1>2. ASSUME NEW t \in Txns, UpdateBaseline(t) PROVE BaseRevisions!Next
  <2> DEFINE b == baseRequest[t].base
             u == baseRequest[t].user
             chain == Append(versions[b], u)
  <2>1. /\ b \in Bases /\ u \in Users
        /\ baselines[b] # None /\ baselines[b] \in BaselineRow
    BY <1>2, BaseAsked DEF UpdateBaseline, Asks
  <2>2. /\ baselines[b].status = "active"
        /\ IF baselines[b].scope = "personal" THEN baselines[b].owner = u
                                              ELSE u \in Administrators
    BY <1>2 DEF UpdateBaseline, MayUpdate
  <2>3. PICK row \in BaselineRow :
           /\ row.owner = baselines[b].owner
           /\ row.scope = baselines[b].scope
           /\ row.status = baselines[b].status
           /\ row.promoted = baselines[b].promoted
           /\ baselines' = [baselines EXCEPT ![b] = row]
           /\ versions' = [versions EXCEPT ![b] = chain]
    BY <1>2, UpdateEffect
  <2>4. baselines[b].scope \in {"personal", "shared"}
    BY <2>1 DEF BaselineRow
  <2> HIDE DEF b, u, chain
  <2>5. ItemOfBaseline' = [ItemOfBaseline EXCEPT ![b] = BaseItem(row, chain)]
    BY <2>1, <2>3, BaseItemWritten
  <2>6. /\ ItemOfBaseline[b] # None
        /\ ItemOfBaseline[b] = BaseItem(baselines[b], versions[b])
    BY <2>1, BaseItemOf
  <2>7. BaseItem(row, chain) = [ItemOfBaseline[b] EXCEPT !.chain = Append(@, u)]
    BY <2>3, <2>6, BaseItemRevised DEF chain
  <2>8. /\ ItemOfBaseline[b].status = "open"
        /\ IF ItemOfBaseline[b].scope = "shared"
           THEN u \in Administrators
           ELSE u = ItemOfBaseline[b].owner
    BY <2>2, <2>4, <2>6 DEF BaseItem
  <2>9. BaseRevisions!Revise(b, u)
    BY <2>1, <2>5, <2>6, <2>7, <2>8
    DEF BaseRevisions!Revise, BaseRevisions!Open, ItemOfBaseline
  <2> QED
    BY <2>1, <2>9 DEF BaseRevisions!Next
<1>3. ASSUME NEW t \in Txns, PromoteBaseline(t) PROVE BaseRevisions!Next
  <2> DEFINE b == baseRequest[t].base
  <2>1. b \in Bases /\ baselines[b] # None
    BY <1>3, BaseAsked DEF PromoteBaseline, Asks
  <2>2. PICK row \in BaselineRow :
           /\ baselines[b].scope = "personal"
           /\ baselines[b].status = "active"
           /\ row.owner = baselines[b].owner
           /\ row.scope = "shared"
           /\ row.status = "active"
           /\ row.promoted = Len(versions[b])
           /\ baselines' = [baselines EXCEPT ![b] = row]
           /\ versions' = [versions EXCEPT ![b] = versions[b]]
    BY <1>3, PromoteEffect
  <2> HIDE DEF b
  <2>3. ItemOfBaseline' =
           [ItemOfBaseline EXCEPT ![b] = BaseItem(row, versions[b])]
    BY <2>1, <2>2, BaseItemWritten
  <2>4. /\ ItemOfBaseline[b] # None
        /\ ItemOfBaseline[b] = BaseItem(baselines[b], versions[b])
    BY <2>1, BaseItemOf
  <2>5. /\ ItemOfBaseline[b].status = "open"
        /\ ItemOfBaseline[b].scope = "personal"
    BY <2>2, <2>4 DEF BaseItem
  <2>6. BaseItem(row, versions[b]) = BaseRevisions!Shared(ItemOfBaseline[b])
    BY <2>2, <2>4 DEF BaseItem, BaseRevisions!Shared
  <2>7. BaseRevisions!Share(b)
    BY <2>1, <2>3, <2>4, <2>5, <2>6
    DEF BaseRevisions!Share, BaseRevisions!Open, ItemOfBaseline
  <2> QED
    BY <2>1, <2>7 DEF BaseRevisions!Next
<1>4. ASSUME NEW t \in Txns, DeleteBaseline(t)
      PROVE  BaseRevisions!Next \/ UNCHANGED ItemOfBaseline
  <2> DEFINE b == baseRequest[t].base
  <2>1. b \in Bases /\ baselines[b] # None
    BY <1>4, BaseAsked DEF DeleteBaseline, Asks
  <2>2. PICK row \in BaselineRow :
           /\ row.owner = baselines[b].owner
           /\ row.scope = baselines[b].scope
           /\ row = baselines[b] \/ row.status = "archived"
           /\ row.promoted = baselines[b].promoted
           /\ baselines' = [baselines EXCEPT ![b] = row]
           /\ versions' = [versions EXCEPT ![b] = versions[b]]
    BY <1>4, DeleteEffect
  <2> HIDE DEF b
  <2>3. ItemOfBaseline' =
           [ItemOfBaseline EXCEPT ![b] = BaseItem(row, versions[b])]
    BY <2>1, <2>2, BaseItemWritten
  <2>4. /\ ItemOfBaseline[b] # None
        /\ ItemOfBaseline[b] = BaseItem(baselines[b], versions[b])
    BY <2>1, BaseItemOf
  <2>5. CASE row.status = "archived" /\ ItemOfBaseline[b].status = "open"
    <3>1. BaseItem(row, versions[b]) =
             [ItemOfBaseline[b] EXCEPT !.status = "retired"]
      BY <2>2, <2>4, <2>5 DEF BaseItem
    <3>2. BaseRevisions!Retire(b)
      BY <2>1, <2>3, <2>4, <2>5, <3>1
      DEF BaseRevisions!Retire, BaseRevisions!Open, ItemOfBaseline
    <3> QED
      BY <2>1, <3>2 DEF BaseRevisions!Next
  <2>6. CASE ~(row.status = "archived" /\ ItemOfBaseline[b].status = "open")
    <3>1. BaseItem(row, versions[b]) = ItemOfBaseline[b]
      BY <2>2, <2>4, <2>6 DEF BaseItem
    <3> QED
      BY <2>1, <2>3, <3>1 DEF ItemOfBaseline
  <2> QED
    BY <2>5, <2>6
<1>5. ASSUME UNCHANGED <<baselines, versions>>
      PROVE  UNCHANGED ItemOfBaseline
  BY <1>5 DEF ItemOfBaseline
<1>6. ASSUME NEW t \in Txns, RefuseBaseline(t) PROVE UNCHANGED ItemOfBaseline
  BY <1>5, <1>6 DEF RefuseBaseline
<1>7. ASSUME NEW t \in Txns, NEW u \in Users, NEW b \in Bases,
             \/ BeginPromoteBaseline(t, u, b)
             \/ BeginArchiveBaseline(t, u, b)
             \/ \E name \in BaseNames : BeginUpdateBaseline(t, u, b, name)
      PROVE  UNCHANGED ItemOfBaseline
  BY <1>5, <1>7
  DEF BeginPromoteBaseline, BeginArchiveBaseline, BeginUpdateBaseline, BeginBase
<1>8. CASE UNCHANGED baseVars
  BY <1>5, <1>8 DEF baseVars
<1> QED
  BY <1>1, <1>2, <1>3, <1>4, <1>6, <1>7, <1>8 DEF BaseRequests, BaseSteps

\* However a revision, a promotion and an archiving of one baseline overlap, its
\* chain only grows, its owner writes it only while it is personal, an
\* administrator once it is shared, a promotion names the revision that was last
\* at that moment, and an archived baseline is not written again.
THEOREM BaselinesImplementRevisions == BaseSpec => BaselinesAreRevisions
<1>1. BaseInit => BaseRevisions!Init
  BY BaseRevisionsInit
<1>2. BaseTypeOK /\ [BaseRequests \/ BaseSteps]_baseVars
        => [BaseRevisions!Next]_ItemOfBaseline
  BY BaseRevisionsStep
<1> QED
  BY <1>1, <1>2, BaseTypeCorrect, PTL
  DEF BaseSpec, BaselinesAreRevisions, BaseRevisions!Spec

-----------------------------------------------------------------------------
(* Materials: who vouches for an active row.                                 *)

RowReviewed(row) ==
    row # None => (row.status = "active" => row.reviewer \in Staff)

\* No row of either table is active without a reviewer of the staff; the status
\* of a product says nothing of that of its material, so both tables are needed.
ActiveIsReviewed ==
    /\ MaterialTypeOK
    /\ \A m \in Materials : RowReviewed(materials[m])
    /\ \A p \in Products : RowReviewed(products[p])

LEMMA MaterialNone == \A r \in MaterialRow : r # None
  BY NoneIsNoMaterial

LEMMA EnteredRow ==
    ASSUME NEW u \in Users, NEW active \in BOOLEAN, active => u \in Staff
    PROVE  /\ Entered(u, active) \in MaterialRow
           /\ RowReviewed(Entered(u, active))
<1>1. CASE active
  BY <1>1 DEF Entered, RowReviewed, MaterialRow, MaterialStatuses
<1>2. CASE ~active
  BY <1>2 DEF Entered, RowReviewed, MaterialRow, MaterialStatuses
<1> QED
  BY <1>1, <1>2

LEMMA ReviewedRow ==
    ASSUME NEW row \in MaterialRow, NEW u \in Staff,
           NEW status \in MaterialStatuses
    PROVE  /\ Reviewed(row, u, status) \in MaterialRow
           /\ RowReviewed(Reviewed(row, u, status))
<1>1. u \in Users
  BY DEF Users, Staff
<1> QED
  BY <1>1 DEF Reviewed, RowReviewed, MaterialRow

LEMMA ActiveIsReviewedInit == MaterialInit => ActiveIsReviewed
  BY DEF MaterialInit, ActiveIsReviewed, MaterialTypeOK, RowReviewed

\* A step that writes one reviewed material, and one that writes one product.
LEMMA MaterialWritten ==
    ASSUME ActiveIsReviewed, NEW m \in Materials, NEW row \in MaterialRow,
           RowReviewed(row),
           materials' = [materials EXCEPT ![m] = row], products' = products
    PROVE  ActiveIsReviewed'
  BY DEF ActiveIsReviewed, MaterialTypeOK, RowReviewed

LEMMA ProductWritten ==
    ASSUME ActiveIsReviewed, NEW p \in Products, NEW row \in MaterialRow,
           RowReviewed(row),
           products' = [products EXCEPT ![p] = row], materials' = materials
    PROVE  ActiveIsReviewed'
  BY DEF ActiveIsReviewed, MaterialTypeOK, RowReviewed

LEMMA ActiveIsReviewedStep ==
    ActiveIsReviewed /\ [MaterialNext]_materialVars => ActiveIsReviewed'
<1> SUFFICES ASSUME ActiveIsReviewed, [MaterialNext]_materialVars
             PROVE  ActiveIsReviewed'
  OBVIOUS
<1>1. ASSUME NEW u \in Users, NEW m \in Materials, CreateMaterial(u, m)
      PROVE  ActiveIsReviewed'
  <2> DEFINE row == Entered(u, u \in Staff)
  <2>1. row \in MaterialRow /\ RowReviewed(row)
    <3> DEFINE active == u \in Staff
    <3>1. active \in BOOLEAN /\ (active => u \in Staff)
      OBVIOUS
    <3> HIDE DEF active
    <3>2. Entered(u, active) \in MaterialRow
          /\ RowReviewed(Entered(u, active))
      BY <3>1, EnteredRow
    <3> QED
      BY <3>2 DEF active
  <2>2. /\ materials' = [materials EXCEPT ![m] = row]
        /\ products' = products
    BY <1>1 DEF CreateMaterial
  <2> HIDE DEF row
  <2> QED
    BY <2>1, <2>2, MaterialWritten
<1>2. ASSUME NEW u \in Users, NEW m \in Materials,
             NEW status \in MaterialStatuses, UpdateMaterial(u, m, status)
      PROVE  ActiveIsReviewed'
  <2> DEFINE row == Reviewed(materials[m], u, status)
  <2>1. u \in Staff /\ materials[m] \in MaterialRow
    BY <1>2 DEF UpdateMaterial, ActiveIsReviewed, MaterialTypeOK
  <2>2. row \in MaterialRow /\ RowReviewed(row)
    BY <2>1, ReviewedRow
  <2>3. /\ materials' = [materials EXCEPT ![m] = row]
        /\ products' = products
    BY <1>2 DEF UpdateMaterial, Reviewed
  <2> HIDE DEF row
  <2> QED
    BY <2>2, <2>3, MaterialWritten
<1>3. ASSUME NEW u \in Users, NEW p \in Products, CreateMaterialProduct(u, p)
      PROVE  ActiveIsReviewed'
  <2> DEFINE row == Entered(u, ActiveAtOnce(u, MaterialOf[p]))
  <2>1. row \in MaterialRow /\ RowReviewed(row)
    BY EnteredRow DEF ActiveAtOnce
  <2>2. /\ products' = [products EXCEPT ![p] = row]
        /\ materials' = materials
    BY <1>3 DEF CreateMaterialProduct
  <2> HIDE DEF row
  <2> QED
    BY <2>1, <2>2, ProductWritten
<1>4. ASSUME NEW u \in Users, NEW p \in Products,
             NEW status \in MaterialStatuses,
             UpdateMaterialProduct(u, p, status)
      PROVE  ActiveIsReviewed'
  <2> DEFINE row == Reviewed(products[p], u, status)
  <2>1. u \in Staff /\ products[p] \in MaterialRow
    BY <1>4 DEF UpdateMaterialProduct, ActiveIsReviewed, MaterialTypeOK
  <2>2. row \in MaterialRow /\ RowReviewed(row)
    BY <2>1, ReviewedRow
  <2>3. /\ products' = [products EXCEPT ![p] = row]
        /\ materials' = materials
    BY <1>4 DEF UpdateMaterialProduct, Reviewed
  <2> HIDE DEF row
  <2> QED
    BY <2>2, <2>3, ProductWritten
<1>5. CASE UNCHANGED materialVars
  BY <1>5 DEF materialVars, ActiveIsReviewed, MaterialTypeOK
<1> QED
  BY <1>1, <1>2, <1>3, <1>4, <1>5 DEF MaterialNext

\* What a student sees of a row is reviewed or his own proposal.
LEMMA ShownIsVouched ==
    ASSUME NEW row, RowReviewed(row), NEW u \in Students, Shown(u, row)
    PROVE  Vouched(u, row)
<1>1. u \notin Staff
  BY OneRoleEach
<1> QED
  BY <1>1 DEF RowReviewed, Shown, Vouched

LEMMA ReviewedListing == ActiveIsReviewed => PublicIsReviewed
<1> SUFFICES ASSUME ActiveIsReviewed, NEW u \in Students
             PROVE  /\ \A m \in ListedMaterials(u) : Vouched(u, materials[m])
                    /\ \A p \in ListedProducts(u) :
                          /\ Vouched(u, products[p])
                          /\ Vouched(u, materials[MaterialOf[p]])
                    /\ ExportedMaterials \subseteq ListedMaterials(u)
                    /\ ExportedProducts \subseteq ListedProducts(u)
  BY DEF PublicIsReviewed
<1>1. \A m \in ListedMaterials(u) : Vouched(u, materials[m])
  BY ShownIsVouched DEF ActiveIsReviewed, ListedMaterials
<1>2. \A p \in ListedProducts(u) : /\ Vouched(u, products[p])
                                   /\ Vouched(u, materials[MaterialOf[p]])
  BY <1>1, ShownIsVouched DEF ActiveIsReviewed, ListedProducts
<1>3. ExportedMaterials \subseteq ListedMaterials(u)
  BY DEF ExportedMaterials, ListedMaterials, Shown
<1>4. ExportedProducts \subseteq ListedProducts(u)
  BY <1>3 DEF ExportedProducts, ListedProducts, Shown
<1> QED
  BY <1>1, <1>2, <1>3, <1>4

\* Whatever proposals, products and reviews arrive, and in whatever order, a
\* student finds only what the staff reviewed and his own pending proposals, and
\* the export takes nothing that a student could not see.
THEOREM DirectoryIsReviewed == MaterialSpec => []PublicIsReviewed
<1>1. MaterialInit => ActiveIsReviewed
  BY ActiveIsReviewedInit
<1>2. ActiveIsReviewed /\ [MaterialNext]_materialVars => ActiveIsReviewed'
  BY ActiveIsReviewedStep
<1>3. ActiveIsReviewed => PublicIsReviewed
  BY ReviewedListing
<1> QED
  BY <1>1, <1>2, <1>3, PTL DEF MaterialSpec

-----------------------------------------------------------------------------
(* The import: where an item of the file can be while a run is on its way.   *)

\* An item that the run has passed is committed, or waits in the transaction of
\* the layouts; an item it misses is one it still has to create.
Accounted ==
    /\ phase = "layouts" => document \subseteq left \cup rows \cup written
    /\ phase = "items" => document \subseteq left \cup rows
    /\ phase = "done" => document \subseteq rows
    /\ missing # NoItem => phase = "items" /\ missing \in left

LEMMA AccountedInit == ImportInit => Accounted
  BY DEF ImportInit, Accounted

LEMMA AccountedStep == Accounted /\ [ImportNext]_importVars => Accounted'
<1> SUFFICES ASSUME Accounted, [ImportNext]_importVars PROVE Accounted'
  OBVIOUS
<1> USE DEF Accounted
<1>1. CASE StartImport
  BY <1>1 DEF StartImport
<1>2. ASSUME NEW k \in Keys, ImportLayout(k) PROVE Accounted'
  BY <1>2 DEF ImportLayout
<1>3. CASE CommitLayouts
  BY <1>3 DEF CommitLayouts
<1>4. ASSUME NEW k \in Keys, SkipItem(k) PROVE Accounted'
  BY <1>4 DEF SkipItem, DoneWith
<1>5. ASSUME NEW k \in Keys, MissItem(k) PROVE Accounted'
  BY <1>5 DEF MissItem, Turn
<1>6. CASE CreateItem
  BY <1>6 DEF CreateItem
<1>7. CASE ItemTaken \/ Killed
  BY <1>7 DEF ItemTaken, Killed, Stopped
<1>8. CASE FinishImport
  BY <1>8 DEF FinishImport
<1>9. ASSUME NEW k \in Keys, SomebodyCreates(k) PROVE Accounted'
  BY <1>9 DEF SomebodyCreates
<1>10. CASE UNCHANGED importVars
  BY <1>10 DEF importVars
<1> QED
  BY <1>1, <1>2, <1>3, <1>4, <1>5, <1>6, <1>7, <1>8, <1>9, <1>10
  DEF ImportNext

\* However often the command is killed, ends on an item somebody else created,
\* or is started again, a run that reports success has the whole file in place.
THEOREM ImportIsComplete == ImportSpec => []ImportComplete
<1>1. ImportInit => Accounted
  BY AccountedInit
<1>2. Accounted /\ [ImportNext]_importVars => Accounted'
  BY AccountedStep
<1>3. Accounted => ImportComplete
  BY DEF Accounted, ImportComplete
<1> QED
  BY <1>1, <1>2, <1>3, PTL DEF ImportSpec

-----------------------------------------------------------------------------
(* The inductive invariant.                                                  *)

DraftRecord(d) ==
    /\ d = [user |-> d.user, campaign |-> d.campaign, source |-> d.source,
            recipe |-> d.recipe, version |-> d.version, catalog |-> d.catalog,
            conditions |-> d.conditions]
    /\ d.user \in Users
    /\ d.campaign \in Campaigns
    /\ d.recipe \in Recipes
    /\ d.version \in Nat

PlanTables ==
    /\ layouts \subseteq LayoutRows
    /\ IsFiniteSet(layouts)
    /\ experiments = [c \in Campaigns |-> experiments[c]]
    /\ \A c \in Campaigns : IsFiniteSet(experiments[c])
    /\ series \in [Campaigns -> Txns \cup {None}]
    /\ draft = [t \in Txns |-> draft[t]]
    /\ \A t \in Txns : draft[t] # None => DraftRecord(draft[t])

\* Who has drawn a version holds its series; who has not has no conditions.
DrawnHoldsSeries ==
    \A t \in Txns : draft[t] # None =>
        /\ draft[t].version # 0 => series[draft[t].campaign] = t
        /\ draft[t].version = 0 => draft[t].conditions = <<>>

\* A user saw the revision that a plan names, and still may.
SourceSeen(u, source) ==
    source # None =>
        /\ source[1] \in Bases
        /\ baselines[source[1]] # None
        /\ source[2] \in 1..Len(versions[source[1]])
        /\ OwnOrShared(u, source[1])

SourcesSeen ==
    /\ \A c \in Campaigns : \A e \in experiments[c] :
          SourceSeen(e.creator, e.source)
    /\ \A t \in Txns : draft[t] # None =>
          SourceSeen(draft[t].user, draft[t].source)

\* What GuessesAreFlagged says of one plan, made or being made.
Flagged(known, e) ==
    /\ Len(e.conditions) = Len(e.recipe.groups)
    /\ \A i \in DOMAIN e.conditions :
          LET k == e.conditions[i]
              g == e.recipe.groups[i]
          IN ~k.review =>
                /\ k.layout \in known
                /\ k.layout.size = e.recipe.size
                /\ PlansOf(e.recipe.plans, g) = {} =>
                      Cardinality(Matches(e.catalog, e.recipe.size)) = 1
                /\ g.adjusted => k.recipe = g.id

DraftsFlagged ==
    \A t \in Txns : draft[t] # None /\ draft[t].conditions # <<>> =>
        Flagged(layouts, draft[t])

IInv ==
    /\ BaseTypeOK
    /\ PlanTables
    /\ DrawnHoldsSeries
    /\ SeriesDense
    /\ SourcesSeen
    /\ DraftsFlagged
    /\ GuessesAreFlagged

\* A set of layouts that has grown still has the layouts it had.
LEMMA FlaggedGrows ==
    ASSUME NEW known, NEW more, known \subseteq more, NEW e, Flagged(known, e)
    PROVE  Flagged(more, e)
  BY DEF Flagged

LEMMA GuessesByPlan ==
    GuessesAreFlagged <=>
        \A c \in Campaigns : \A e \in experiments[c] : Flagged(layouts, e)
  BY DEF GuessesAreFlagged, Flagged

-----------------------------------------------------------------------------
(* Largest elements.                                                         *)

LEMMA LargestOfInterval ==
    ASSUME NEW n \in Nat
    PROVE  Max({0} \cup 1..n) = n
<1>1. n \in {0} \cup 1..n /\ \A y \in {0} \cup 1..n : n >= y
  OBVIOUS
<1>2. \A x \in {0} \cup 1..n :
         (\A y \in {0} \cup 1..n : x >= y) => x = n
  BY <1>1
<1> QED
  BY <1>1, <1>2 DEF Max

LEMMA FiniteHasLargest ==
    ASSUME NEW S, IsFiniteSet(S), S # {}, NEW rank \in [S -> Nat]
    PROVE  \E l \in S : \A m \in S : rank[m] <= rank[l]
<1> DEFINE Above(l) == {m \in S : rank[m] > rank[l]}
           T == {Above(l) : l \in S}
<1>1. T \subseteq FiniteSubsetsOf(S) /\ T # {}
  <2>1. \A U \in SUBSET S : IsFiniteSet(U)
    BY FS_Subset
  <2>2. \A l \in S : Above(l) \in SUBSET S
    OBVIOUS
  <2> HIDE DEF Above
  <2> QED
    BY <2>1, <2>2 DEF FiniteSubsetsOf
<1>2. PICK U \in T : \A V \in T : ~(<<V, U>> \in StrictSubsetOrdering(S))
  <2> HIDE DEF T
  <2> QED
    BY <1>1, FS_StrictSubsetOrderingWellFounded, WFMin
<1>3. PICK l \in S : U = Above(l)
  OBVIOUS
<1>4. ASSUME NEW m \in S PROVE rank[m] <= rank[l]
  <2> SUFFICES ASSUME rank[m] > rank[l] PROVE FALSE
    OBVIOUS
  <2>1. Above(m) \subseteq Above(l) /\ m \in Above(l) /\ m \notin Above(m)
    OBVIOUS
  <2>2. <<Above(m), Above(l)>> \in StrictSubsetOrdering(S)
    BY <2>1 DEF StrictSubsetOrdering
  <2> QED
    BY <1>2, <1>3, <2>2
<1> QED
  BY <1>3, <1>4

-----------------------------------------------------------------------------
(* Layouts.                                                                  *)

\* The catalog has one layout for each code that has one, the newest.
LEMMA CatalogRows ==
    ASSUME PlanTables
    PROVE  /\ DOMAIN ListDeviceLayouts \subseteq 1..Cardinality(Codes)
           /\ \A i \in DOMAIN ListDeviceLayouts :
                 /\ ListDeviceLayouts[i] \in layouts
                 /\ ListDeviceLayouts[i].code = CodeOrder[i]
                 /\ ListDeviceLayouts[i] = NewestLayout(CodeOrder[i])
<1>1. ASSUME NEW code, LayoutVersions(code) # {}
      PROVE  NewestLayout(code) \in LayoutVersions(code)
  <2> DEFINE rank == [l \in LayoutVersions(code) |-> l.version]
  <2>1. LayoutVersions(code) \subseteq layouts
    BY DEF LayoutVersions
  <2>2. IsFiniteSet(LayoutVersions(code))
    BY <2>1, FS_Subset DEF PlanTables
  <2>3. rank \in [LayoutVersions(code) -> Nat]
    BY <2>1, LayoutsTyped DEF PlanTables
  <2>4. PICK l \in LayoutVersions(code) :
           \A m \in LayoutVersions(code) : rank[m] <= rank[l]
    <3> HIDE DEF rank
    <3> QED
      BY <1>1, <2>2, <2>3, FiniteHasLargest
  <2> QED
    BY <2>4 DEF NewestLayout
<1>2. DOMAIN CodeOrder = 1..Cardinality(Codes)
  BY CodesOrdered
<1> QED
  BY <1>1, <1>2 DEF ListDeviceLayouts, LayoutVersions

LEMMA OneLayoutOfACode ==
    ASSUME PlanTables, NEW code,
           NEW l \in WithCode(ListDeviceLayouts, code),
           NEW m \in WithCode(ListDeviceLayouts, code)
    PROVE  l = m /\ l \in layouts
  BY CatalogRows DEF WithCode

\* What the adapter makes of a recipe that it does not refuse.
LEMMA MaterializeFlags ==
    ASSUME PlanTables, NEW e, e.recipe \in Recipes,
           e.catalog = ListDeviceLayouts,
           e.conditions = Materialize(e.catalog, e.recipe.groups,
                                      e.recipe.size, e.recipe.plans),
           e.conditions # <<>>
    PROVE  Flagged(layouts, e)
<1> DEFINE catalog == e.catalog
           groups == e.recipe.groups
           size == e.recipe.size
           plans == e.recipe.plans
<1>1. /\ PlansFit(catalog, groups, size, plans)
      /\ e.conditions = [i \in DOMAIN groups |->
                           ConditionOf(catalog, groups, size, plans, i)]
  BY DEF Materialize
<1>2. groups \in Seq(RecipeGroup) /\ WellFormed(groups)
  BY RecipesWellFormed
<1> HIDE DEF catalog, groups, size, plans
<1>3. Len(e.conditions) = Len(groups) /\ DOMAIN e.conditions = DOMAIN groups
  <2> DEFINE S == {e.conditions[i] : i \in DOMAIN groups}
  <2>1. Len(groups) \in Nat /\ DOMAIN groups = 1..Len(groups)
    BY <1>2
  <2>2. e.conditions \in [1..Len(groups) -> S]
    BY <1>1, <2>1
  <2>3. e.conditions \in Seq(S)
    BY <2>1, <2>2, SeqDef
  <2>4. Len(e.conditions) \in Nat /\ DOMAIN e.conditions = 1..Len(e.conditions)
    BY <2>3, LenProperties
  <2> QED
    BY <1>1, <2>1, <2>4
<1>4. ASSUME NEW i \in DOMAIN groups, ~e.conditions[i].review
      PROVE  /\ e.conditions[i].layout \in layouts
             /\ e.conditions[i].layout.size = size
             /\ PlansOf(plans, groups[i]) = {} =>
                   Cardinality(Matches(catalog, size)) = 1
             /\ groups[i].adjusted => e.conditions[i].recipe = groups[i].id
  <2> DEFINE g == groups[i]
             k == e.conditions[i]
             planned == PlansOf(plans, g)
             plan == CHOOSE p \in planned : TRUE
             layout == IF planned = {} THEN InferredLayout(catalog, size)
                       ELSE CHOOSE l \in WithCode(catalog, plan.layout) : TRUE
             review == \/ planned = {} /\ Ambiguous(catalog, size)
                       \/ AdjustmentGuessed(g)
  <2>1. /\ k.review = review
        /\ k.layout = layout
        /\ k.recipe = IF g.layers THEN g.id ELSE "root"
    <3>1. k = ConditionOf(catalog, groups, size, plans, i)
      BY <1>1
    <3>2. ConditionOf(catalog, groups, size, plans, i).review = review
      BY Zenon DEF ConditionOf
    <3>3. /\ ConditionOf(catalog, groups, size, plans, i).layout = layout
          /\ ConditionOf(catalog, groups, size, plans, i).recipe
                = IF g.layers THEN g.id ELSE "root"
      BY DEF ConditionOf
    <3> HIDE DEF k, review, layout
    <3> QED
      BY <3>1, <3>2, <3>3
  <2>2. ~review
    BY <1>4, <2>1
  <2>3. g \in RecipeGroup /\ (g.kind # "target" => ~g.adjusted)
    BY <1>2 DEF WellFormed
  <2>4. g.adjusted => k.recipe = g.id
    BY <2>1, <2>2, <2>3 DEF AdjustmentGuessed
  <2>5. CASE planned # {}
    <3>1. plan \in plans
      BY <2>5 DEF PlansOf
    <3>2. PICK l \in WithCode(catalog, plan.layout) : l.size = size
      BY <1>1, <3>1 DEF PlansFit
    <3>3. /\ layout = CHOOSE m \in WithCode(catalog, plan.layout) : TRUE
          /\ layout \in WithCode(catalog, plan.layout)
      BY <2>5, <3>2
    <3> HIDE DEF layout, plan, planned
    <3>4. layout = l /\ layout \in layouts
      BY <3>2, <3>3, OneLayoutOfACode DEF catalog
    <3> QED
      BY <2>1, <2>4, <2>5, <3>2, <3>4 DEF planned
  <2>6. CASE planned = {}
    <3>1. Cardinality(Matches(catalog, size)) = 1
      BY <2>2, <2>6 DEF Ambiguous
    <3>2. Matches(catalog, size) \subseteq 1..Cardinality(Codes)
      BY CatalogRows DEF Matches, catalog
    <3>3. IsFiniteSet(Matches(catalog, size))
      <4>1. Cardinality(Codes) \in Int /\ 1 \in Int
        <5>1. Cardinality(Codes) \in Nat
          BY CodesOrdered, FS_CardinalityType
        <5> QED
          BY <5>1
      <4> HIDE DEF groups, plans, size, catalog, g, k, planned, plan,
                   layout, review
      <4>2. IsFiniteSet(1..Cardinality(Codes))
        BY <4>1, FS_Interval
      <4> QED
        BY <3>2, <4>2, FS_Subset
    <3>4. PICK x : Matches(catalog, size) = {x}
      BY <3>1, <3>3, FS_Singleton
    <3>5. Min(Matches(catalog, size)) = x
      BY <3>2, <3>4, CodesOrdered, FS_CardinalityType DEF Min
    <3>6. /\ layout = catalog[x]
          /\ x \in DOMAIN catalog /\ catalog[x].size = size
      <4>1. x \in Matches(catalog, size)
        BY <3>4
      <4> QED
        BY <2>6, <3>5, <4>1 DEF InferredLayout, Matches
    <3>7. layout \in layouts
      BY <3>6, CatalogRows DEF catalog
    <3> HIDE DEF layout, planned
    <3> QED
      BY <2>1, <2>4, <3>1, <3>6, <3>7
  <2> QED
    BY <2>5, <2>6
<1> QED
  BY <1>3, <1>4 DEF Flagged, catalog, groups, size, plans

-----------------------------------------------------------------------------
(* Versions of a series.                                                     *)

LEMMA NextAfterDense ==
    ASSUME SeriesDense, PlanTables, NEW c \in Campaigns
    PROVE  /\ Cardinality(experiments[c]) \in Nat
           /\ NextVersion(c) = Cardinality(experiments[c]) + 1
<1>1. Cardinality(experiments[c]) \in Nat
  BY FS_CardinalityType DEF PlanTables
<1>2. {e.version : e \in experiments[c]} = 1..Cardinality(experiments[c])
  BY DEF SeriesDense
<1> QED
  BY <1>1, <1>2, LargestOfInterval DEF NextVersion

-----------------------------------------------------------------------------
(* Steps of baselines.                                                       *)

\* No step takes a baseline away, changes its owner, makes it personal again
\* or shortens its chain.
LEMMA BaselineKept ==
    ASSUME BaseTypeOK, [BaseRequests \/ BaseSteps]_baseVars,
           NEW b \in Bases, baselines[b] # None
    PROVE  /\ baselines'[b] # None
           /\ baselines'[b].owner = baselines[b].owner
           /\ baselines[b].scope = "shared" => baselines'[b].scope = "shared"
           /\ Len(versions[b]) <= Len(versions'[b])
<1>0. versions[b] \in Seq(Users) /\ Len(versions[b]) \in Nat
  BY DEF BaseTypeOK
<1>1. ASSUME NEW c \in Bases, NEW row \in BaselineRow, NEW chain,
             baselines' = [baselines EXCEPT ![c] = row],
             versions' = [versions EXCEPT ![c] = chain],
             c = b => /\ row.owner = baselines[c].owner
                      /\ baselines[c].scope = "shared" => row.scope = "shared"
                      /\ Len(versions[c]) <= Len(chain)
      PROVE  /\ baselines'[b] # None
             /\ baselines'[b].owner = baselines[b].owner
             /\ baselines[b].scope = "shared" => baselines'[b].scope = "shared"
             /\ Len(versions[b]) <= Len(versions'[b])
  <2>1. CASE c = b
    BY <1>1, <2>1, BaseNone DEF BaseTypeOK
  <2>2. CASE c # b
    BY <1>0, <1>1, <2>2 DEF BaseTypeOK
  <2> QED
    BY <2>1, <2>2
<1>2. ASSUME UNCHANGED <<baselines, versions>>
      PROVE  /\ baselines'[b] # None
             /\ baselines'[b].owner = baselines[b].owner
             /\ baselines[b].scope = "shared" => baselines'[b].scope = "shared"
             /\ Len(versions[b]) <= Len(versions'[b])
  BY <1>0, <1>2
<1>3. ASSUME NEW u \in Users, NEW c \in Bases, NEW name \in BaseNames,
             SaveBaseline(u, c, name)
      PROVE  /\ baselines'[b] # None
             /\ baselines'[b].owner = baselines[b].owner
             /\ baselines[b].scope = "shared" => baselines'[b].scope = "shared"
             /\ Len(versions[b]) <= Len(versions'[b])
  <2>1. /\ baselines[c] = None
        /\ BaseRow(u, name) \in BaselineRow
        /\ baselines' = [baselines EXCEPT ![c] = BaseRow(u, name)]
        /\ versions' = [versions EXCEPT ![c] = <<u>>]
    BY <1>3, SaveEffect
  <2> QED
    BY <1>1, <2>1
<1>4. ASSUME NEW t \in Txns,
             UpdateBaseline(t) \/ PromoteBaseline(t) \/ DeleteBaseline(t)
      PROVE  /\ baselines'[b] # None
             /\ baselines'[b].owner = baselines[b].owner
             /\ baselines[b].scope = "shared" => baselines'[b].scope = "shared"
             /\ Len(versions[b]) <= Len(versions'[b])
  <2> DEFINE c == baseRequest[t].base
             longer == Append(versions[c], baseRequest[t].user)
  <2>1. /\ c \in Bases /\ versions[c] \in Seq(Users)
        /\ baseRequest[t].user \in Users
        /\ baselines[c] \in BaselineRow
    BY <1>4, BaseAsked
    DEF UpdateBaseline, PromoteBaseline, DeleteBaseline, Asks
  <2>2. /\ Len(versions[c]) <= Len(longer)
        /\ Len(versions[c]) <= Len(versions[c])
    BY <2>1
  <2>3. CASE UpdateBaseline(t)
    <3>1. PICK row \in BaselineRow :
             /\ row.owner = baselines[c].owner
             /\ row.scope = baselines[c].scope
             /\ baselines' = [baselines EXCEPT ![c] = row]
             /\ versions' = [versions EXCEPT ![c] = longer]
      BY <2>3, UpdateEffect
    <3> HIDE DEF c, longer
    <3> QED
      BY <1>1, <2>1, <2>2, <3>1
  <2>4. CASE PromoteBaseline(t)
    <3>1. PICK row \in BaselineRow :
             /\ row.owner = baselines[c].owner
             /\ row.scope = "shared"
             /\ baselines' = [baselines EXCEPT ![c] = row]
             /\ versions' = [versions EXCEPT ![c] = versions[c]]
      BY <2>4, PromoteEffect
    <3> HIDE DEF c, longer
    <3> QED
      BY <1>1, <2>1, <2>2, <3>1
  <2>5. CASE DeleteBaseline(t)
    <3>1. PICK row \in BaselineRow :
             /\ row.owner = baselines[c].owner
             /\ row.scope = baselines[c].scope
             /\ baselines' = [baselines EXCEPT ![c] = row]
             /\ versions' = [versions EXCEPT ![c] = versions[c]]
      BY <2>5, DeleteEffect
    <3> HIDE DEF c, longer
    <3> QED
      BY <1>1, <2>1, <2>2, <3>1
  <2> QED
    BY <1>4, <2>3, <2>4, <2>5
<1>5. ASSUME NEW t \in Txns, RefuseBaseline(t)
      PROVE  UNCHANGED <<baselines, versions>>
  BY <1>5 DEF RefuseBaseline
<1>6. ASSUME NEW t \in Txns, NEW u \in Users, NEW c \in Bases,
             \/ BeginPromoteBaseline(t, u, c)
             \/ BeginArchiveBaseline(t, u, c)
             \/ \E name \in BaseNames : BeginUpdateBaseline(t, u, c, name)
      PROVE  UNCHANGED <<baselines, versions>>
  BY <1>6 DEF BeginPromoteBaseline, BeginArchiveBaseline,
              BeginUpdateBaseline, BeginBase
<1>7. CASE UNCHANGED baseVars
  BY <1>2, <1>7 DEF baseVars
<1> QED
  BY <1>2, <1>3, <1>4, <1>5, <1>6, <1>7 DEF BaseRequests, BaseSteps

\* What a user saw of a baseline, he may see for good.
LEMMA SeenForGood ==
    ASSUME BaseTypeOK, [BaseRequests \/ BaseSteps]_baseVars,
           NEW u, NEW source, SourceSeen(u, source)
    PROVE  SourceSeen(u, source)'
<1>1. BaseTypeOK'
  BY BaseTypeStep
<1> SUFFICES ASSUME source # None
             PROVE  /\ source[1] \in Bases
                    /\ baselines'[source[1]] # None
                    /\ source[2] \in 1..Len(versions'[source[1]])
                    /\ OwnOrShared(u, source[1])'
  BY DEF SourceSeen
<1> DEFINE b == source[1]
<1>2. /\ b \in Bases /\ baselines[b] # None
      /\ source[2] \in 1..Len(versions[b])
      /\ OwnOrShared(u, b)
  BY DEF SourceSeen
<1>3. Len(versions[b]) \in Nat /\ Len(versions'[b]) \in Nat
  BY <1>1, <1>2 DEF BaseTypeOK
<1> HIDE DEF b
<1>4. /\ baselines'[b] # None
      /\ baselines'[b].owner = baselines[b].owner
      /\ baselines[b].scope = "shared" => baselines'[b].scope = "shared"
      /\ Len(versions[b]) <= Len(versions'[b])
  BY <1>2, BaselineKept
<1>5. OwnOrShared(u, b)'
  BY <1>2, <1>4 DEF OwnOrShared
<1> QED
  BY <1>2, <1>3, <1>4, <1>5 DEF b

LEMMA BaselineStep ==
    ASSUME IInv, [BaseRequests \/ BaseSteps]_baseVars, UNCHANGED planVars
    PROVE  IInv'
<1>1. UNCHANGED <<layouts, experiments, series, draft>>
  BY DEF planVars
<1>2. BaseTypeOK'
  BY BaseTypeStep DEF IInv
<1>3. PlanTables'
  BY <1>1 DEF IInv, PlanTables, DraftRecord
<1>4. DrawnHoldsSeries' /\ SeriesDense'
  BY <1>1 DEF IInv, DrawnHoldsSeries, SeriesDense, NextVersion
<1>5. SourcesSeen'
  <2>1. \A u, source : SourceSeen(u, source) => SourceSeen(u, source)'
    BY SeenForGood DEF IInv
  <2> QED
    BY <1>1, <2>1 DEF IInv, SourcesSeen, SourceSeen, OwnOrShared
<1>6. DraftsFlagged' /\ GuessesAreFlagged'
  BY <1>1 DEF IInv, DraftsFlagged, GuessesAreFlagged
<1> QED
  BY <1>2, <1>3, <1>4, <1>5, <1>6 DEF IInv

-----------------------------------------------------------------------------
(* Steps of campaigns and layouts.                                           *)

LEMMA CampaignStep ==
    ASSUME IInv,
           UNCHANGED <<baselines, versions, baseRequest, layouts, experiments,
                       series, draft>>
    PROVE  IInv'
<1>1. BaseTypeOK'
  BY DEF IInv, BaseTypeOK
<1>2. PlanTables'
  BY DEF IInv, PlanTables, DraftRecord
<1>3. DrawnHoldsSeries' /\ SeriesDense'
  BY DEF IInv, DrawnHoldsSeries, SeriesDense, NextVersion
<1>4. SourcesSeen'
  BY DEF IInv, SourcesSeen, SourceSeen, OwnOrShared
<1>5. DraftsFlagged' /\ GuessesAreFlagged'
  BY DEF IInv, DraftsFlagged, GuessesAreFlagged
<1> QED
  BY <1>1, <1>2, <1>3, <1>4, <1>5 DEF IInv

\* Layouts are only added.
LEMMA LayoutStep ==
    ASSUME IInv, NEW u \in Users, NEW row \in LayoutRows,
           CreateDeviceLayout(u, row), UNCHANGED baseVars
    PROVE  IInv'
<1>1. /\ layouts' = layouts \cup {row}
      /\ UNCHANGED <<baselines, versions, baseRequest, experiments, series,
                     draft>>
  BY DEF CreateDeviceLayout, baseVars
<1>2. BaseTypeOK'
  BY <1>1 DEF IInv, BaseTypeOK
<1>3. PlanTables'
  <2>1. IsFiniteSet(layouts \cup {row})
    BY FS_AddElement DEF IInv, PlanTables
  <2> QED
    BY <1>1, <2>1 DEF IInv, PlanTables, DraftRecord
<1>4. DrawnHoldsSeries' /\ SeriesDense'
  BY <1>1 DEF IInv, DrawnHoldsSeries, SeriesDense, NextVersion
<1>5. SourcesSeen'
  BY <1>1 DEF IInv, SourcesSeen, SourceSeen, OwnOrShared
<1>6. layouts \subseteq layouts'
  BY <1>1
<1>7. DraftsFlagged'
  BY <1>1, <1>6, FlaggedGrows DEF IInv, DraftsFlagged
<1>8. GuessesAreFlagged'
  <2>1. \A c \in Campaigns : \A e \in experiments[c] : Flagged(layouts', e)
    BY <1>6, GuessesByPlan, FlaggedGrows DEF IInv
  <2> QED
    BY <1>1, <2>1 DEF GuessesAreFlagged, Flagged
<1> QED
  BY <1>2, <1>3, <1>4, <1>5, <1>7, <1>8 DEF IInv

-----------------------------------------------------------------------------
(* Steps of a plan being made.                                               *)

LEMMA BeginExperimentStep ==
    ASSUME IInv, NEW t \in Txns, NEW u \in Users, NEW c \in Campaigns,
           NEW source \in Sources(u), NEW r \in Recipes,
           BeginExperiment(t, u, c, source, r), UNCHANGED baseVars
    PROVE  IInv'
<1> DEFINE d == [user |-> u, campaign |-> c, source |-> source, recipe |-> r,
                 version |-> 0, catalog |-> <<>>, conditions |-> <<>>]
<1>1. /\ draft' = [draft EXCEPT ![t] = d]
      /\ UNCHANGED <<baselines, versions, baseRequest, layouts, experiments,
                     series>>
  BY DEF BeginExperiment, baseVars
<1>2. /\ draft'[t] = d
      /\ \A x \in Txns \ {t} : draft'[x] = draft[x]
      /\ draft' = [x \in Txns |-> draft'[x]]
  BY <1>1 DEF IInv, PlanTables
<1>3. /\ d.version = 0 /\ d.conditions = <<>>
      /\ d.user = u /\ d.source = source
      /\ DraftRecord(d)
  BY DEF DraftRecord
<1>4. SourceSeen(u, source)
  BY DEF Sources, UsableBaselines, SourceSeen
<1> HIDE DEF d
<1>5. BaseTypeOK'
  BY <1>1 DEF IInv, BaseTypeOK
<1>6. PlanTables'
  BY <1>1, <1>2, <1>3 DEF IInv, PlanTables
<1>7. DrawnHoldsSeries' /\ SeriesDense'
  BY <1>1, <1>2, <1>3 DEF IInv, DrawnHoldsSeries, SeriesDense, NextVersion
<1>8. SourcesSeen'
  <2>1. \A x \in Txns : draft'[x] # None =>
           SourceSeen(draft'[x].user, draft'[x].source)
    BY <1>2, <1>3, <1>4 DEF IInv, SourcesSeen
  <2> QED
    BY <1>1, <2>1 DEF IInv, SourcesSeen, SourceSeen, OwnOrShared
<1>9. DraftsFlagged' /\ GuessesAreFlagged'
  BY <1>1, <1>2, <1>3 DEF IInv, DraftsFlagged, GuessesAreFlagged
<1> QED
  BY <1>5, <1>6, <1>7, <1>8, <1>9 DEF IInv

\* The version, the layouts and the conditions are written together.
WithVersion(d, version, catalog, conditions) ==
    [d EXCEPT !.version = version, !.catalog = catalog,
              !.conditions = conditions]

LEMMA WithVersionFields ==
    ASSUME NEW d, DraftRecord(d), NEW version \in Nat, NEW catalog,
           NEW conditions
    PROVE  LET e == WithVersion(d, version, catalog, conditions)
           IN  /\ DraftRecord(e)
               /\ e.user = d.user /\ e.campaign = d.campaign
               /\ e.source = d.source /\ e.recipe = d.recipe
               /\ e.version = version /\ e.catalog = catalog
               /\ e.conditions = conditions
<1> DEFINE e == WithVersion(d, version, catalog, conditions)
<1>1. PICK u, c, s, r, v, l, k :
         d = [user |-> u, campaign |-> c, source |-> s, recipe |-> r,
              version |-> v, catalog |-> l, conditions |-> k]
  BY DEF DraftRecord
<1>2. DOMAIN d = {"user", "campaign", "source", "recipe", "version",
                  "catalog", "conditions"}
  BY <1>1
<1>3. d.user = u /\ d.campaign = c /\ d.source = s /\ d.recipe = r
  BY <1>1
<1>4. /\ e.user = u /\ e.campaign = c /\ e.source = s /\ e.recipe = r
      /\ e.version = version /\ e.catalog = catalog
      /\ e.conditions = conditions
  BY <1>2, <1>3 DEF WithVersion
<1>5. e = [i \in DOMAIN d |-> e[i]]
  BY <1>2, <1>3 DEF WithVersion
<1>6. e = [user |-> u, campaign |-> c, source |-> s, recipe |-> r,
           version |-> version, catalog |-> catalog,
           conditions |-> conditions]
  <2> HIDE DEF e
  <2> QED
    BY <1>2, <1>4, <1>5
<1> QED
  BY <1>3, <1>4, <1>6 DEF DraftRecord

LEMMA DrawVersionStep ==
    ASSUME IInv, NEW t \in Txns, DrawVersion(t), UNCHANGED baseVars
    PROVE  IInv'
<1> DEFINE d == draft[t]
           c == d.campaign
           n == NextVersion(c)
           catalog == ListDeviceLayouts
           k == Materialize(catalog, d.recipe.groups, d.recipe.size,
                            d.recipe.plans)
           e == WithVersion(d, n, catalog, k)
<1>1. /\ series' = [series EXCEPT ![c] = t]
      /\ UNCHANGED <<baselines, versions, baseRequest, layouts, experiments>>
  BY DEF DrawVersion, baseVars
<1>2. draft' = [draft EXCEPT ![t] = e]
  <2>1. draft' = [draft EXCEPT ![t].version = n, ![t].catalog = catalog,
                               ![t].conditions = k]
    BY DEF DrawVersion
  <2> HIDE DEF n, catalog, k
  <2> QED
    BY <2>1 DEF WithVersion, IInv, PlanTables
<1>3. d # None /\ d.version = 0 /\ series[c] = None
  BY DEF DrawVersion, SeriesFree
<1>4. DraftRecord(d) /\ c \in Campaigns /\ d.recipe \in Recipes
  BY <1>3 DEF IInv, PlanTables, DraftRecord
<1> HIDE DEF d, c, n, catalog, k
<1>5. n \in Nat /\ n # 0
  BY <1>4, NextAfterDense DEF IInv, n
<1>6. /\ DraftRecord(e)
      /\ e.user = d.user /\ e.campaign = c /\ e.source = d.source
      /\ e.recipe = d.recipe /\ e.version = n /\ e.catalog = catalog
      /\ e.conditions = k
  <2> HIDE DEF e
  <2>1. LET x == WithVersion(d, n, catalog, k)
        IN  /\ DraftRecord(x)
            /\ x.user = d.user /\ x.campaign = d.campaign
            /\ x.source = d.source /\ x.recipe = d.recipe
            /\ x.version = n /\ x.catalog = catalog
            /\ x.conditions = k
    BY <1>4, <1>5, WithVersionFields
  <2> QED
    BY <2>1 DEF c, e
<1> HIDE DEF e
<1>7. /\ draft'[t] = e
      /\ \A x \in Txns \ {t} : draft'[x] = draft[x]
      /\ draft' = [x \in Txns |-> draft'[x]]
  BY <1>2 DEF IInv, PlanTables
<1>8. /\ series'[c] = t
      /\ \A b \in Campaigns \ {c} : series'[b] = series[b]
      /\ series' \in [Campaigns -> Txns \cup {None}]
  BY <1>1, <1>4 DEF IInv, PlanTables
<1>9. BaseTypeOK'
  BY <1>1 DEF IInv, BaseTypeOK
<1>10. PlanTables'
  BY <1>1, <1>6, <1>7, <1>8 DEF IInv, PlanTables
<1>11. DrawnHoldsSeries'
  <2> SUFFICES ASSUME NEW x \in Txns, draft'[x] # None
               PROVE  /\ draft'[x].version # 0
                            => series'[draft'[x].campaign] = x
                      /\ draft'[x].version = 0 => draft'[x].conditions = <<>>
    BY DEF DrawnHoldsSeries
  <2>1. CASE x = t
    BY <1>5, <1>6, <1>7, <1>8, <2>1
  <2>2. CASE x # t
    <3>1. /\ draft'[x] = draft[x]
          /\ draft[x].campaign \in Campaigns
          /\ draft[x].version # 0 => series[draft[x].campaign] = x
          /\ draft[x].version = 0 => draft[x].conditions = <<>>
      BY <1>7, <2>2 DEF IInv, DrawnHoldsSeries, PlanTables, DraftRecord
    <3>2. draft[x].version # 0 => draft[x].campaign # c
      BY <1>3, <3>1, NoneIsNoTxn
    <3> QED
      BY <1>8, <3>1, <3>2
  <2> QED
    BY <2>1, <2>2
<1>12. SeriesDense'
  <2>1. \A b : NextVersion(b)' = NextVersion(b)
    BY <1>1 DEF NextVersion
  <2>2. \A x \in Txns : draft'[x] # None =>
           draft'[x].version \in {0, NextVersion(draft'[x].campaign)}
    BY <1>6, <1>7 DEF IInv, SeriesDense, n
  <2> QED
    BY <1>1, <2>2 DEF IInv, SeriesDense, NextVersion
<1>13. SourcesSeen'
  <2>1. \A x \in Txns : draft'[x] # None =>
           SourceSeen(draft'[x].user, draft'[x].source)
    BY <1>3, <1>6, <1>7 DEF IInv, SourcesSeen, d
  <2> QED
    BY <1>1, <2>1 DEF IInv, SourcesSeen, SourceSeen, OwnOrShared
<1>14. DraftsFlagged'
  <2>1. e.conditions # <<>> => Flagged(layouts, e)
    <3>1. e.recipe \in Recipes /\ e.catalog = ListDeviceLayouts
          /\ e.conditions = Materialize(e.catalog, e.recipe.groups,
                                        e.recipe.size, e.recipe.plans)
      BY <1>4, <1>6 DEF catalog, k
    <3> QED
      BY <3>1, MaterializeFlags DEF IInv
  <2> QED
    BY <1>1, <1>7, <2>1 DEF IInv, DraftsFlagged
<1>15. GuessesAreFlagged'
  BY <1>1 DEF IInv, GuessesAreFlagged
<1> QED
  BY <1>9, <1>10, <1>11, <1>12, <1>13, <1>14, <1>15 DEF IInv

\* Who leaves gives the series back, and only his own.
LEMMA LeaveStep ==
    ASSUME IInv, NEW t \in Txns, Leave(t), draft[t] # None,
           UNCHANGED <<baselines, versions, baseRequest, layouts>>
    PROVE  /\ series' \in [Campaigns -> Txns \cup {None}]
           /\ draft' = [x \in Txns |-> draft'[x]]
           /\ \A x \in Txns : draft'[x] # None =>
                 x # t /\ draft'[x] = draft[x]
           /\ DrawnHoldsSeries'
           /\ DraftsFlagged'
           /\ BaseTypeOK'
<1>1. /\ draft'[t] = None
      /\ \A x \in Txns \ {t} : draft'[x] = draft[x]
      /\ draft' = [x \in Txns |-> draft'[x]]
  BY DEF Leave, IInv, PlanTables
<1>2. \A x \in Txns : draft'[x] # None => x # t /\ draft'[x] = draft[x]
  BY <1>1
<1>3. /\ series' \in [Campaigns -> Txns \cup {None}]
      /\ \A c \in Campaigns : series[c] # t => series'[c] = series[c]
  BY DEF Leave, IInv, PlanTables
<1>4. DrawnHoldsSeries'
  BY <1>2, <1>3 DEF IInv, DrawnHoldsSeries, PlanTables, DraftRecord
<1>5. DraftsFlagged'
  BY <1>2 DEF IInv, DraftsFlagged
<1>6. BaseTypeOK'
  BY DEF IInv, BaseTypeOK
<1> QED
  BY <1>1, <1>2, <1>3, <1>4, <1>5, <1>6

LEMMA RollBackStep ==
    ASSUME IInv, NEW t \in Txns, RollBack(t), UNCHANGED baseVars
    PROVE  IInv'
<1>1. /\ draft[t] # None /\ Leave(t)
      /\ UNCHANGED <<baselines, versions, baseRequest, layouts, experiments>>
  BY DEF RollBack, baseVars
<1>2. /\ series' \in [Campaigns -> Txns \cup {None}]
      /\ draft' = [x \in Txns |-> draft'[x]]
      /\ \A x \in Txns : draft'[x] # None => x # t /\ draft'[x] = draft[x]
      /\ DrawnHoldsSeries' /\ DraftsFlagged' /\ BaseTypeOK'
  BY <1>1, LeaveStep
<1>3. PlanTables'
  BY <1>1, <1>2 DEF IInv, PlanTables
<1>4. SeriesDense'
  BY <1>1, <1>2 DEF IInv, SeriesDense, NextVersion
<1>5. SourcesSeen'
  BY <1>1, <1>2 DEF IInv, SourcesSeen, SourceSeen, OwnOrShared
<1>6. GuessesAreFlagged'
  BY <1>1 DEF IInv, GuessesAreFlagged
<1> QED
  BY <1>2, <1>3, <1>4, <1>5, <1>6 DEF IInv

\* The plan takes the next version of its series, and nobody else has drawn
\* one there.
LEMMA InsertExperimentStep ==
    ASSUME IInv, NEW t \in Txns, InsertExperiment(t), UNCHANGED baseVars
    PROVE  IInv'
<1> DEFINE d == draft[t]
           c == d.campaign
           e == [version |-> d.version, creator |-> d.user,
                 source |-> d.source, recipe |-> d.recipe,
                 catalog |-> d.catalog, conditions |-> d.conditions]
           n == Cardinality(experiments[c])
<1>1. /\ d # None /\ d.conditions # <<>> /\ Leave(t)
      /\ experiments' = [experiments EXCEPT ![c] = @ \cup {e}]
      /\ UNCHANGED <<baselines, versions, baseRequest, layouts>>
  BY DEF InsertExperiment, baseVars
<1>2. DraftRecord(d) /\ c \in Campaigns
  BY <1>1 DEF IInv, PlanTables, DraftRecord
<1>3. /\ n \in Nat /\ NextVersion(c) = n + 1
      /\ {x.version : x \in experiments[c]} = 1..n
  BY <1>2, NextAfterDense DEF IInv, SeriesDense
<1>4. d.version = n + 1 /\ series[c] = t
  BY <1>1, <1>3 DEF IInv, DrawnHoldsSeries, SeriesDense
<1>5. /\ e.version = n + 1 /\ e.creator = d.user /\ e.source = d.source
      /\ e.recipe = d.recipe /\ e.catalog = d.catalog
      /\ e.conditions = d.conditions
  BY <1>4
<1>6. /\ series' \in [Campaigns -> Txns \cup {None}]
      /\ draft' = [x \in Txns |-> draft'[x]]
      /\ \A x \in Txns : draft'[x] # None => x # t /\ draft'[x] = draft[x]
      /\ DrawnHoldsSeries' /\ DraftsFlagged' /\ BaseTypeOK'
  BY <1>1, LeaveStep
<1>7. SourceSeen(d.user, d.source) /\ Flagged(layouts, d)
  BY <1>1 DEF IInv, SourcesSeen, DraftsFlagged
<1> HIDE DEF d, c, e, n
<1>8. /\ experiments'[c] = experiments[c] \cup {e}
      /\ \A b \in Campaigns \ {c} : experiments'[b] = experiments[b]
      /\ experiments' = [b \in Campaigns |-> experiments'[b]]
  BY <1>1, <1>2 DEF IInv, PlanTables
<1>9. IsFiniteSet(experiments[c])
  BY <1>2 DEF IInv, PlanTables
<1>10. PlanTables'
  <2>1. IsFiniteSet(experiments[c] \cup {e})
    BY <1>9, FS_AddElement
  <2> QED
    BY <1>1, <1>6, <1>8, <2>1 DEF IInv, PlanTables
<1>11. SeriesDense'
  <2>1. e \notin experiments[c]
    BY <1>3, <1>5
  <2>2. Cardinality(experiments'[c]) = n + 1
    BY <1>8, <1>9, <2>1, FS_AddElement DEF n
  <2>3. {x.version : x \in experiments'[c]} = 1..(n + 1)
    <3>1. {x.version : x \in experiments'[c]}
             = {x.version : x \in experiments[c]} \cup {n + 1}
      BY <1>5, <1>8
    <3> QED
      BY <1>3, <3>1
  <2>4. \A b \in Campaigns : {x.version : x \in experiments'[b]}
                                = 1..Cardinality(experiments'[b])
    BY <1>8, <2>2, <2>3 DEF IInv, SeriesDense
  <2>5. ASSUME NEW x \in Txns, draft'[x] # None
        PROVE  \/ draft'[x].version = 0
               \/ /\ draft'[x].campaign \in Campaigns \ {c}
                  /\ draft'[x].version = NextVersion(draft'[x].campaign)
    <3>1. /\ x # t /\ draft'[x] = draft[x] /\ DraftRecord(draft[x])
          /\ draft[x].campaign \in Campaigns
      BY <1>6, <2>5 DEF IInv, PlanTables, DraftRecord
    <3>2. CASE draft[x].campaign = c
      BY <1>4, <2>5, <3>1, <3>2 DEF IInv, DrawnHoldsSeries
    <3>3. CASE draft[x].campaign # c
      BY <2>5, <3>1, <3>3 DEF IInv, SeriesDense
    <3> QED
      BY <3>2, <3>3
  <2> QED
    BY <1>8, <2>4, <2>5 DEF SeriesDense, NextVersion
<1>12. SourcesSeen'
  <2>1. \A b \in Campaigns : \A x \in experiments'[b] :
           SourceSeen(x.creator, x.source)
    BY <1>5, <1>7, <1>8 DEF IInv, SourcesSeen
  <2>2. \A x \in Txns : draft'[x] # None =>
           SourceSeen(draft'[x].user, draft'[x].source)
    BY <1>6 DEF IInv, SourcesSeen
  <2> QED
    BY <1>1, <2>1, <2>2 DEF SourcesSeen, SourceSeen, OwnOrShared
<1>13. GuessesAreFlagged'
  <2>1. Flagged(layouts, e)
    BY <1>5, <1>7 DEF Flagged
  <2>2. \A b \in Campaigns : \A x \in experiments'[b] : Flagged(layouts, x)
    BY <1>8, <2>1, GuessesByPlan DEF IInv
  <2> QED
    BY <1>1, <2>2 DEF GuessesAreFlagged, Flagged
<1> QED
  BY <1>6, <1>10, <1>11, <1>12, <1>13 DEF IInv

-----------------------------------------------------------------------------
(* Invariance.                                                               *)

LEMMA InitInvariant == BaseInit /\ PlansInit => IInv
<1> SUFFICES ASSUME BaseInit, PlansInit PROVE IInv
  OBVIOUS
<1>1. BaseTypeOK
  BY BaseTypeInit
<1>2. \A c \in Campaigns : experiments[c] = {}
  BY DEF PlansInit
<1>3. Cardinality({}) = 0 /\ IsFiniteSet({})
  BY FS_EmptySet
<1>4. \A t \in Txns : draft[t] = None
  BY DEF PlansInit
<1>5. PlanTables
  BY <1>2, <1>3, <1>4 DEF PlansInit, PlanTables
<1>6. SeriesDense
  <2>1. \A c \in Campaigns : {e.version : e \in experiments[c]} = {}
    BY <1>2
  <2>2. 1..0 = {}
    OBVIOUS
  <2> QED
    BY <1>2, <1>3, <1>4, <2>1, <2>2 DEF SeriesDense
<1> QED
  BY <1>1, <1>2, <1>4, <1>5, <1>6
  DEF IInv, DrawnHoldsSeries, SourcesSeen, DraftsFlagged, GuessesAreFlagged

LEMMA StepInvariant ==
    ASSUME IInv, [NewPlansNext]_<<baseVars, planVars>>
    PROVE  IInv'
<1>1. CASE UNCHANGED baseVars /\ UNCHANGED planVars
  BY <1>1, CampaignStep DEF baseVars, planVars
<1>2. CASE (BaseRequests \/ BaseSteps) /\ UNCHANGED planVars
  BY <1>2, BaselineStep
<1>3. CASE PlansNext /\ UNCHANGED baseVars
  <2>1. ASSUME NEW u \in Users, NEW c \in Campaigns,
               \/ CreateCampaign(u, c)
               \/ \E status \in CampaignStatuses : UpdateCampaign(u, c, status)
        PROVE  IInv'
    BY <1>3, <2>1, CampaignStep DEF CreateCampaign, UpdateCampaign, baseVars
  <2>2. ASSUME NEW u \in Users, NEW c \in Campaigns, NEW t \in Txns,
               NEW source \in Sources(u), NEW r \in Recipes,
               BeginExperiment(t, u, c, source, r)
        PROVE  IInv'
    BY <1>3, <2>2, BeginExperimentStep
  <2>3. ASSUME NEW u \in Users, NEW row \in LayoutRows,
               CreateDeviceLayout(u, row)
        PROVE  IInv'
    BY <1>3, <2>3, LayoutStep
  <2>4. ASSUME NEW t \in Txns, DrawVersion(t) PROVE IInv'
    BY <1>3, <2>4, DrawVersionStep
  <2>5. ASSUME NEW t \in Txns, InsertExperiment(t) PROVE IInv'
    BY <1>3, <2>5, InsertExperimentStep
  <2>6. ASSUME NEW t \in Txns, RollBack(t) PROVE IInv'
    BY <1>3, <2>6, RollBackStep
  <2> QED
    BY <1>3, <2>1, <2>2, <2>3, <2>4, <2>5, <2>6 DEF PlansNext
<1> QED
  BY <1>1, <1>2, <1>3 DEF NewPlansNext

\* What the proofs rest on holds in every state of a plan being made.
THEOREM Invariance == NewPlansSpec => []IInv
<1>1. BaseInit /\ PlansInit => IInv
  BY InitInvariant
<1>2. IInv /\ [NewPlansNext]_<<baseVars, planVars>> => IInv'
  BY StepInvariant
<1> QED
  BY <1>1, <1>2, PTL DEF NewPlansSpec

\* The versions of a series have no gap and no repetition, and a transaction
\* that has drawn one still holds the next one when it inserts (add_experiment
\* under the advisory lock of the series).
THEOREM SeriesStaysDense == NewPlansSpec => []SeriesDense
<1>1. IInv => SeriesDense
  BY DEF IInv
<1> QED
  BY <1>1, Invariance, PTL

\* An unmarked condition has a layout of the recorded size that was chosen for
\* it or was the only one, and lost no adjustment, whatever layouts are entered
\* after (the legacy adapter).
THEOREM GuessesStayFlagged == NewPlansSpec => []GuessesAreFlagged
<1>1. IInv => GuessesAreFlagged
  BY DEF IInv
<1> QED
  BY <1>1, Invariance, PTL

\* The revision a plan names as its source exists and stays visible to the
\* plan's creator, whatever is promoted, revised or archived meanwhile, and the
\* queries that list, open, trace and use a baseline agree on what a student
\* may start from (add_experiment and the queries of repository/baseline.py).
THEOREM SourcesStayVisible == NewPlansSpec => []SourceStaysVisible
<1>1. ASSUME IInv PROVE SourceStaysVisible
  <2>1. \A c \in Campaigns : \A e \in experiments[c] :
           e.source # None =>
              /\ e.source[2] \in 1..Len(versions[e.source[1]])
              /\ OwnOrShared(e.creator, e.source[1])
    BY <1>1 DEF IInv, SourcesSeen, SourceSeen
  <2>2. ASSUME NEW u \in Users
        PROVE  /\ UsableBaselines(u) \subseteq ListedBaselines(u, FALSE)
               /\ UsableBaselines(u)
                     \subseteq OpenedBaselines(u) \cap TracedBaselines(u)
               /\ u \in Students =>
                     ListedBaselines(u, TRUE) \cup OpenedBaselines(u)
                        \cup TracedBaselines(u) \subseteq UsableBaselines(u)
    BY DEF UsableBaselines, ListedBaselines, OpenedBaselines, TracedBaselines
  <2> QED
    BY <2>1, <2>2 DEF SourceStaysVisible
<1>2. IInv => SourceStaysVisible
  BY <1>1
<1> QED
  BY <1>2, Invariance, PTL

-----------------------------------------------------------------------------
(* The types of the whole catalog: the bound on the versions of a series.    *)

\* Who is making a plan in a campaign.
Planning(c) == {t \in Txns : draft[t] # None /\ draft[t].campaign = c}

\* A plan is begun below the bound, so the plans of a campaign, made and being
\* made, never outgrow it by more than the transactions there are; the versions
\* alone do not say so, since they do not count who is still planning.
PlansBounded ==
    \A c \in Campaigns :
        Cardinality(experiments[c]) + Cardinality(Planning(c))
            <= MaxVersion + Cardinality(Txns)

PlanTypes ==
    /\ IInv
    /\ PlansBounded
    /\ campaigns \in [Campaigns -> CampaignStatuses \cup {None}]

\* The transactions of a campaign are counted, and at most all of them.
LEMMA PlanningCounted ==
    ASSUME NEW c
    PROVE  /\ IsFiniteSet(Planning(c))
           /\ Cardinality(Planning(c)) \in Nat
           /\ Cardinality(Txns) \in Nat
           /\ Cardinality(Planning(c)) <= Cardinality(Txns)
<1>1. Planning(c) \subseteq Txns
  BY DEF Planning
<1> QED
  BY <1>1, SeriesBounded, FS_Subset, FS_CardinalityType

LEMMA PlansBoundedInit == BaseInit /\ PlansInit => PlanTypes
<1> SUFFICES ASSUME BaseInit, PlansInit PROVE PlanTypes
  OBVIOUS
<1>1. \A c \in Campaigns : experiments[c] = {} /\ Planning(c) = {}
  BY DEF PlansInit, Planning
<1>2. Cardinality({}) = 0
  BY FS_EmptySet
<1>3. PlansBounded
  <2>1. Cardinality(Txns) \in Nat
    BY SeriesBounded, FS_CardinalityType
  <2>2. \A c \in Campaigns : /\ Cardinality(experiments[c]) = 0
                            /\ Cardinality(Planning(c)) = 0
    BY <1>1, <1>2
  <2>3. 0 + 0 <= MaxVersion + Cardinality(Txns)
    BY <2>1, SeriesBounded
  <2> QED
    BY <2>2, <2>3 DEF PlansBounded
<1>4. campaigns \in [Campaigns -> CampaignStatuses \cup {None}]
  BY DEF PlansInit
<1> QED
  BY <1>3, <1>4, InitInvariant DEF PlanTypes

\* Most steps leave the plans and the drafts alone.
LEMMA BoundKept ==
    ASSUME IInv, PlansBounded, UNCHANGED <<experiments, draft>>
    PROVE  PlansBounded'
<1>1. \A c : Planning(c)' = Planning(c)
  BY DEF Planning
<1> QED
  BY <1>1 DEF PlansBounded

\* A plan begins where there is still room for it and for everybody else.
LEMMA BoundOfBegin ==
    ASSUME IInv, PlansBounded, NEW t \in Txns, NEW u \in Users,
           NEW c \in Campaigns, NEW source \in Sources(u), NEW r \in Recipes,
           BeginExperiment(t, u, c, source, r)
    PROVE  PlansBounded'
<1>1. /\ experiments' = experiments
      /\ Cardinality(experiments[c]) < MaxVersion
      /\ draft'[t].campaign = c
      /\ \A x \in Txns \ {t} : draft'[x] = draft[x]
  BY DEF BeginExperiment, IInv, PlanTables
<1> SUFFICES ASSUME NEW b \in Campaigns
             PROVE  Cardinality(experiments[b]) + Cardinality(Planning(b)')
                        <= MaxVersion + Cardinality(Txns)
  BY <1>1 DEF PlansBounded
<1>2. Cardinality(experiments[b]) \in Nat
  BY FS_CardinalityType DEF IInv, PlanTables
<1>3. /\ Planning(b)' \subseteq Txns
      /\ Cardinality(Planning(b)') \in Nat
      /\ Cardinality(Txns) \in Nat
      /\ Cardinality(Planning(b)') <= Cardinality(Txns)
  <2>1. Planning(b)' \subseteq Txns
    BY DEF Planning
  <2> QED
    BY <2>1, SeriesBounded, FS_Subset, FS_CardinalityType
<1>4. CASE b = c
  BY <1>1, <1>2, <1>3, <1>4, SeriesBounded
<1>5. CASE b # c
  <2>1. Planning(b)' \subseteq Planning(b)
    BY <1>1, <1>5 DEF Planning
  <2>2. Cardinality(Planning(b)') <= Cardinality(Planning(b))
    BY <2>1, PlanningCounted, FS_Subset
  <2> QED
    BY <1>2, <1>3, <2>2, PlanningCounted, SeriesBounded DEF PlansBounded
<1> QED
  BY <1>4, <1>5

\* Who draws a version stays in his campaign.
LEMMA BoundOfDraw ==
    ASSUME IInv, PlansBounded, NEW t \in Txns, DrawVersion(t)
    PROVE  PlansBounded'
<1> DEFINE d == draft[t]
<1>1. /\ experiments' = experiments
      /\ \A x \in Txns \ {t} : draft'[x] = draft[x]
      /\ d # None /\ DraftRecord(d)
  BY DEF DrawVersion, IInv, PlanTables
<1>2. draft'[t].campaign = d.campaign
  <2>1. PICK n, l, k : draft' = [draft EXCEPT ![t].version = n,
                                              ![t].catalog = l,
                                              ![t].conditions = k]
    BY DEF DrawVersion
  <2>2. draft'[t] = WithVersion(d, n, l, k)
    BY <2>1 DEF WithVersion, IInv, PlanTables
  <2> HIDE DEF d
  <2>3. d = [user |-> d.user, campaign |-> d.campaign, source |-> d.source,
             recipe |-> d.recipe, version |-> d.version,
             catalog |-> d.catalog, conditions |-> d.conditions]
    BY <1>1 DEF DraftRecord
  <2>4. WithVersion(d, n, l, k).campaign = d.campaign
    BY <2>3 DEF WithVersion
  <2> QED
    BY <2>2, <2>4
<1>3. \A c : Planning(c)' \subseteq Planning(c)
  BY <1>1, <1>2 DEF Planning
<1> SUFFICES ASSUME NEW b \in Campaigns
             PROVE  Cardinality(experiments[b]) + Cardinality(Planning(b)')
                        <= MaxVersion + Cardinality(Txns)
  BY <1>1 DEF PlansBounded
<1>4. /\ Cardinality(experiments[b]) \in Nat
      /\ Cardinality(Planning(b)') \in Nat
      /\ Cardinality(Planning(b)') <= Cardinality(Planning(b))
  BY <1>3, PlanningCounted, FS_Subset, FS_CardinalityType DEF IInv, PlanTables
<1> QED
  BY <1>4, PlanningCounted, SeriesBounded DEF PlansBounded

\* Who leaves takes himself out of his campaign, with a plan or without.
LEMMA BoundOfLeave ==
    ASSUME IInv, PlansBounded, NEW t \in Txns, draft[t] # None, Leave(t),
           \/ experiments' = experiments
           \/ \E e : experiments' = [experiments EXCEPT
                                        ![draft[t].campaign] = @ \cup {e}]
    PROVE  PlansBounded'
<1>1. /\ draft'[t] = None
      /\ \A x \in Txns \ {t} : draft'[x] = draft[x]
  BY DEF Leave, IInv, PlanTables
<1>2. PICK c \in Campaigns : c = draft[t].campaign
  BY DEF IInv, PlanTables, DraftRecord
<1>3. /\ Planning(c)' = Planning(c) \ {t}
      /\ t \in Planning(c)
      /\ \A b \in Campaigns \ {c} : Planning(b)' = Planning(b)
  BY <1>1, <1>2 DEF Planning
<1>4. \A b \in Campaigns \ {c} : experiments'[b] = experiments[b]
  BY <1>2 DEF IInv, PlanTables
<1>5. \/ experiments'[c] = experiments[c]
      \/ \E e : experiments'[c] = experiments[c] \cup {e}
  BY <1>2 DEF IInv, PlanTables
<1>6. /\ Cardinality(experiments[c]) \in Nat
      /\ Cardinality(experiments'[c]) \in Nat
      /\ Cardinality(experiments'[c]) <= Cardinality(experiments[c]) + 1
  <2>1. IsFiniteSet(experiments[c])
    BY <1>2 DEF IInv, PlanTables
  <2>2. CASE experiments'[c] = experiments[c]
    BY <2>1, <2>2, FS_CardinalityType
  <2>3. ASSUME NEW e, experiments'[c] = experiments[c] \cup {e}
        PROVE  /\ Cardinality(experiments'[c]) \in Nat
               /\ Cardinality(experiments'[c])
                     <= Cardinality(experiments[c]) + 1
    <3>1. Cardinality(experiments[c]) \in Nat
      BY <2>1, FS_CardinalityType
    <3>2. \/ Cardinality(experiments[c] \cup {e})
                = Cardinality(experiments[c])
          \/ Cardinality(experiments[c] \cup {e})
                = Cardinality(experiments[c]) + 1
      BY <2>1, FS_AddElement
    <3> QED
      BY <2>3, <3>1, <3>2
  <2> QED
    BY <1>5, <2>1, <2>2, <2>3, FS_CardinalityType
<1>7. /\ Cardinality(Planning(c)) \in Nat
      /\ Cardinality(Planning(c)') = Cardinality(Planning(c)) - 1
  BY <1>3, PlanningCounted, FS_RemoveElement
<1>8. /\ Cardinality(experiments[c]) + Cardinality(Planning(c))
            <= MaxVersion + Cardinality(Txns)
      /\ MaxVersion \in Nat /\ Cardinality(Txns) \in Nat
  BY <1>2, SeriesBounded, FS_CardinalityType DEF PlansBounded
<1>9. Cardinality(experiments'[c]) + Cardinality(Planning(c)')
         <= MaxVersion + Cardinality(Txns)
  BY <1>6, <1>7, <1>8
<1> QED
  BY <1>3, <1>4, <1>9 DEF PlansBounded

LEMMA PlanTypesStep ==
    ASSUME PlanTypes, [NewPlansNext]_<<baseVars, planVars>>
    PROVE  PlanTypes'
<1> USE DEF PlanTypes
<1>1. IInv'
  BY StepInvariant
<1>2. ASSUME UNCHANGED planVars PROVE PlanTypes'
  BY <1>1, <1>2, BoundKept DEF planVars
<1>3. ASSUME PlansNext PROVE PlanTypes'
  <2>1. ASSUME NEW u \in Users, NEW c \in Campaigns,
               \/ CreateCampaign(u, c)
               \/ \E status \in CampaignStatuses : UpdateCampaign(u, c, status)
        PROVE  PlanTypes'
    <3>1. UNCHANGED <<experiments, draft>>
      BY <2>1 DEF CreateCampaign, UpdateCampaign
    <3>2. campaigns' \in [Campaigns -> CampaignStatuses \cup {None}]
      BY <2>1 DEF CreateCampaign, UpdateCampaign, CampaignStatuses
    <3> QED
      BY <1>1, <3>1, <3>2, BoundKept
  <2>2. ASSUME NEW u \in Users, NEW c \in Campaigns, NEW t \in Txns,
               NEW source \in Sources(u), NEW r \in Recipes,
               BeginExperiment(t, u, c, source, r)
        PROVE  PlanTypes'
    <3>1. campaigns' = campaigns
      BY <2>2 DEF BeginExperiment
    <3> QED
      BY <1>1, <2>2, <3>1, BoundOfBegin
  <2>3. ASSUME NEW u \in Users, NEW row \in LayoutRows,
               CreateDeviceLayout(u, row)
        PROVE  PlanTypes'
    BY <1>1, <2>3, BoundKept DEF CreateDeviceLayout
  <2>4. ASSUME NEW t \in Txns, DrawVersion(t) PROVE PlanTypes'
    <3>1. campaigns' = campaigns
      BY <2>4 DEF DrawVersion
    <3> QED
      BY <1>1, <2>4, <3>1, BoundOfDraw
  <2>5. ASSUME NEW t \in Txns, InsertExperiment(t) PROVE PlanTypes'
    <3>1. /\ campaigns' = campaigns /\ draft[t] # None /\ Leave(t)
          /\ \E e : experiments' = [experiments EXCEPT
                                       ![draft[t].campaign] = @ \cup {e}]
      BY <2>5 DEF InsertExperiment
    <3> QED
      BY <1>1, <3>1, BoundOfLeave
  <2>6. ASSUME NEW t \in Txns, RollBack(t) PROVE PlanTypes'
    <3>1. /\ campaigns' = campaigns /\ draft[t] # None /\ Leave(t)
          /\ experiments' = experiments
      BY <2>6 DEF RollBack
    <3> QED
      BY <1>1, <3>1, BoundOfLeave
  <2> QED
    BY <1>3, <2>1, <2>2, <2>3, <2>4, <2>5, <2>6 DEF PlansNext
<1> QED
  BY <1>2, <1>3 DEF NewPlansNext

\* The versions of a series are those of its plans, and these are counted.
LEMMA PlanTypesGive == PlanTypes => BaseTypeOK /\ PlansTypeOK
<1> SUFFICES ASSUME PlanTypes PROVE BaseTypeOK /\ PlansTypeOK
  OBVIOUS
<1> USE DEF PlanTypes
<1>1. ASSUME NEW c \in Campaigns, NEW e \in experiments[c]
      PROVE  e.version \in 1..(MaxVersion + Cardinality(Txns))
  <2>1. e.version \in 1..Cardinality(experiments[c])
    BY <1>1 DEF IInv, SeriesDense
  <2>2. Cardinality(experiments[c]) \in Nat
    BY <1>1, FS_CardinalityType DEF IInv, PlanTables
  <2>3. Cardinality(experiments[c]) <= MaxVersion + Cardinality(Txns)
    BY <1>1, <2>2, PlanningCounted, SeriesBounded DEF PlansBounded
  <2> QED
    BY <2>1, <2>2, <2>3, SeriesBounded, FS_CardinalityType
<1>2. \A t \in Txns : draft[t] # None =>
         draft[t].campaign \in Campaigns /\ draft[t].user \in Users
  BY DEF IInv, PlanTables, DraftRecord
<1> QED
  BY <1>1, <1>2 DEF IInv, PlanTables, PlansTypeOK

-----------------------------------------------------------------------------
(* The types of the import and of the four parts together.                   *)

LEMMA ImportTypeInit == ImportInit => ImportTypeOK
  BY RunsBounded DEF ImportInit, ImportTypeOK, Documents

\* An item is missed only while the run goes through the items, so none is
\* dropped while the layouts are read.
LEMMA ImportTypeStep ==
    ASSUME ImportTypeOK, Accounted, [ImportNext]_importVars
    PROVE  ImportTypeOK'
<1> USE DEF ImportTypeOK
<1>1. /\ document \subseteq Keys /\ LayoutKeys \subseteq Keys
      /\ \A k \in left : k # NoItem
  BY NoItemIsNoKey DEF Documents, Keys
<1>2. ASSUME NEW k \in Keys,
             \/ ImportLayout(k) \/ SkipItem(k) \/ MissItem(k)
             \/ SomebodyCreates(k)
      PROVE  ImportTypeOK'
  <2>1. CASE ImportLayout(k)
    BY <2>1 DEF ImportLayout, Accounted
  <2>2. CASE SkipItem(k)
    BY <2>2 DEF SkipItem
  <2>3. CASE MissItem(k)
    BY <2>3 DEF MissItem, Turn
  <2>4. CASE SomebodyCreates(k)
    BY <2>4 DEF SomebodyCreates
  <2> QED
    BY <1>2, <2>1, <2>2, <2>3, <2>4
<1>3. CASE StartImport
  <2>1. missing = NoItem
    BY <1>3 DEF StartImport, Accounted
  <2> QED
    BY <1>3, <2>1, RunsBounded DEF StartImport
<1>4. CASE CommitLayouts
  BY <1>1, <1>4 DEF CommitLayouts
<1>5. CASE CreateItem
  BY <1>1, <1>5 DEF CreateItem
<1>6. CASE ItemTaken \/ Killed
  BY <1>6 DEF ItemTaken, Killed, Stopped
<1>7. CASE FinishImport
  BY <1>7 DEF FinishImport
<1>8. CASE UNCHANGED importVars
  BY <1>8 DEF importVars
<1> QED
  BY <1>2, <1>3, <1>4, <1>5, <1>6, <1>7, <1>8 DEF ImportNext

CatalogTypes ==
    /\ PlanTypes
    /\ PresetTypeOK
    /\ ActiveIsReviewed
    /\ ImportTypeOK
    /\ Accounted

\* A step of the catalog is one of a part, and leaves the others as they are.
LEMMA CatalogTypesStep == CatalogTypes /\ [Next]_vars => CatalogTypes'
<1> SUFFICES ASSUME CatalogTypes, [Next]_vars PROVE CatalogTypes'
  OBVIOUS
<1>1. /\ [NewPlansNext]_<<baseVars, planVars>>
      /\ [PresetNext]_presetVars
      /\ [MaterialNext]_materialVars
      /\ [ImportNext]_importVars
  BY DEF Next, vars
<1> QED
  BY <1>1, PlanTypesStep, PresetTypeStep, ActiveIsReviewedStep, ImportTypeStep,
     AccountedStep
  DEF CatalogTypes

\* Every table and request of the catalog has its type: the current revision of
\* a baseline and of a preset is its last, an open request is about a row that
\* exists, the versions of a series stay within the plans begun below the
\* bound, and an import misses only an item that it still has to look at.
THEOREM CatalogTyped == Spec => []TypeOK
<1>1. Init => CatalogTypes
  BY PlansBoundedInit, PresetTypeInit, ActiveIsReviewedInit, ImportTypeInit,
     AccountedInit
  DEF Init, CatalogTypes
<1>2. CatalogTypes /\ [Next]_vars => CatalogTypes'
  BY CatalogTypesStep
<1>3. CatalogTypes => TypeOK
  BY PlanTypesGive DEF CatalogTypes, ActiveIsReviewed, TypeOK
<1> QED
  BY <1>1, <1>2, <1>3, PTL DEF Spec

=============================================================================
