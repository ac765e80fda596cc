---------------------------- MODULE CatalogImport ---------------------------
(* import-catalog (src/web/admin_cli.py): an operator brings the directory of *)
(* another deployment into this one, item by item, looking first whether the  *)
(* item is there.  The import reads nothing of a row but whether it exists,   *)
(* so a row is its key here: a layout and version, a material by category and *)
(* name, a supplier product of a material, a shared preset or baseline by     *)
(* name.  Rows are never deleted.                                             *)
(*                                                                            *)
(* The layouts are one transaction, every other item is its own.  The command *)
(* can be killed between two of them, or end on a unique index when somebody  *)
(* creates the item it just missed; the operator then runs it again.          *)
EXTENDS FiniteSets, Naturals

CONSTANTS
    LayoutKeys, MaterialKeys, ProductKeys, PresetKeys, BaselineKeys,
    Parent,   \* the material of each product
    NoItem,
    MaxRuns   \* bound: how often the command is started

ASSUME ProductsHaveMaterials == Parent \in [ProductKeys -> MaterialKeys]
ASSUME RunsBounded == MaxRuns \in Nat

Keys == UNION {LayoutKeys, MaterialKeys, ProductKeys, PresetKeys,
               BaselineKeys}
ASSUME NoItemIsNoKey == NoItem \notin Keys

VARIABLES
    rows,      \* keys of the rows that are committed
    document,  \* keys in the file, fixed by the first run
    written,   \* layouts inserted by the transaction that is open
    left,      \* items the running import has not looked at
    missing,   \* the item it looked for and did not find
    phase,     \* where the import is: "idle" before and between runs
    runs

importVars == <<rows, document, written, left, missing, phase, runs>>

\* What export-catalog can have written: a product comes with its material.
Documents == {d \in SUBSET Keys : \A p \in d \cap ProductKeys : Parent[p] \in d}

\* A deployment that already holds some of the directory.
ImportInit ==
    /\ rows \in Documents
    /\ document \in Documents
    /\ written = {}
    /\ left = {}
    /\ missing = NoItem
    /\ phase = "idle"
    /\ runs = 0

StartImport ==
    /\ phase = "idle"
    /\ runs < MaxRuns
    /\ phase' = "layouts"
    /\ left' = document
    /\ runs' = runs + 1
    /\ UNCHANGED <<rows, document, written, missing>>

\* A layout is inserted unless it exists, and committed with the others.  One
\* that somebody commits in between ends the run, like a kill.
ImportLayout(k) ==
    /\ phase = "layouts"
    /\ k \in left \cap LayoutKeys
    /\ written' = IF k \in rows THEN written ELSE written \cup {k}
    /\ left' = left \ {k}
    /\ UNCHANGED <<rows, document, missing, phase, runs>>

CommitLayouts ==
    /\ phase = "layouts"
    /\ left \cap LayoutKeys = {}
    /\ rows' = rows \cup written
    /\ written' = {}
    /\ phase' = "items"
    /\ UNCHANGED <<document, left, missing, runs>>

\* The order of the loops: materials, each followed by its products, then
\* presets, then baselines.
Turn(k) ==
    /\ k \in left
    /\ \/ k \in ProductKeys /\ Parent[k] \notin left
       \/ /\ ~ \E p \in left \cap ProductKeys : Parent[p] \notin left
          /\ \/ k \in MaterialKeys
             \/ k \in PresetKeys /\ left \cap MaterialKeys = {}
             \/ k \in BaselineKeys /\ left \subseteq BaselineKeys

\* Mutation: the products of a material that exists are not looked at.
DoneWithProducts(k) == {k} \cup {p \in ProductKeys : Parent[p] = k}
DoneWith(k) == {k}

\* The existence check reads in a transaction of its own.
SkipItem(k) ==
    /\ phase = "items"
    /\ missing = NoItem
    /\ Turn(k)
    /\ k \in rows
    /\ left' = left \ DoneWith(k)
    /\ UNCHANGED <<rows, document, written, missing, phase, runs>>

MissItem(k) ==
    /\ phase = "items"
    /\ missing = NoItem
    /\ Turn(k)
    /\ k \notin rows
    /\ missing' = k
    /\ UNCHANGED <<rows, document, written, left, phase, runs>>

CreateItem ==
    /\ missing # NoItem
    /\ missing \notin rows
    /\ rows' = rows \cup {missing}
    /\ left' = left \ {missing}
    /\ missing' = NoItem
    /\ UNCHANGED <<document, written, phase, runs>>

\* The command ends early: a unique index, or the process is killed.  What is
\* not committed is gone.
Stopped ==
    /\ written' = {}
    /\ left' = {}
    /\ missing' = NoItem
    /\ phase' = "idle"
    /\ UNCHANGED <<rows, document, runs>>

ItemTaken == missing \in rows /\ Stopped
Killed == phase \in {"layouts", "items"} /\ Stopped

FinishImport ==
    /\ phase = "items"
    /\ left = {}
    /\ phase' = "done"
    /\ UNCHANGED <<rows, document, written, left, missing, runs>>

\* A user of the deployment creates an item through the pages.
SomebodyCreates(k) ==
    /\ k \notin rows
    /\ k \in ProductKeys => Parent[k] \in rows
    /\ k \notin written
    /\ rows' = rows \cup {k}
    /\ UNCHANGED <<document, written, left, missing, phase, runs>>

ImportNext ==
    \/ StartImport
    \/ \E k \in Keys :
          \/ ImportLayout(k)
          \/ SkipItem(k)
          \/ MissItem(k)
          \/ SomebodyCreates(k)
    \/ CommitLayouts
    \/ CreateItem
    \/ ItemTaken
    \/ Killed
    \/ FinishImport

ImportSpec == ImportInit /\ [][ImportNext]_importVars

-----------------------------------------------------------------------------
(* Properties.                                                               *)

ImportTypeOK ==
    /\ rows \subseteq Keys
    /\ document \in Documents
    /\ written \subseteq LayoutKeys
    /\ left \subseteq document
    /\ missing \in left \cup {NoItem}
    /\ phase \in {"idle", "layouts", "items", "done"}
    /\ runs \in 0..MaxRuns

\* "products still need importing (a prior interrupted import, or products
\* added on the source after the first transfer)": an import that ends has
\* brought in every item of the file, whatever was there before, was created
\* meanwhile, or an earlier run left half done.
ImportComplete == phase = "done" => document \subseteq rows

=============================================================================
