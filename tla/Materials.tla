------------------------------ MODULE Materials -----------------------------
(* The material directory and its supplier products                           *)
(* (src/web/repository/material.py and the routes of routes/catalogs.py).     *)
(*                                                                            *)
(* Every handler reads the rows it decides on FOR UPDATE, so it is one step   *)
(* here: a statement that waited for a lock evaluates its rows again, and a   *)
(* product is locked together with its material.  Of a row its status, its    *)
(* author and its reviewer are kept.                                          *)
EXTENDS Actors

CONSTANTS
    Materials,  \* materials, by category and name
    Products,   \* products, by vendor and catalog number
    MaterialOf  \* the material of each product

VARIABLES
    materials,  \* rows of materials
    products    \* rows of material_products

materialVars == <<materials, products>>

MaterialStatuses == {"pending", "active", "inactive"}
MaterialRow ==
    [status: MaterialStatuses, author: Users, reviewer: Users \cup {None}]

ASSUME ProductsOfMaterials == MaterialOf \in [Products -> Materials]
ASSUME NoneIsNoMaterial == None \notin MaterialRow

MaterialInit ==
    /\ materials = [m \in Materials |-> None]
    /\ products = [p \in Products |-> None]

\* A new row: reviewed by its author if it starts active.
Entered(u, active) ==
    [status |-> IF active THEN "active" ELSE "pending", author |-> u,
     reviewer |-> IF active THEN u ELSE None]

\* What a review leaves of a row: any status may follow any other.
Reviewed(row, u, status) == [row EXCEPT !.status = status, !.reviewer = u]

\* A proposal of a student, or a record of the staff.
CreateMaterial(u, m) ==
    /\ materials[m] = None
    /\ materials' = [materials EXCEPT ![m] = Entered(u, u \in Staff)]
    /\ UNCHANGED products

\* The products of the material are left as they are.
UpdateMaterial(u, m, status) ==
    /\ u \in Staff
    /\ materials[m] # None
    /\ materials' = [materials EXCEPT ![m] = Reviewed(@, u, status)]
    /\ UNCHANGED products

MayAddProduct(u, m) ==
    \/ u \in Staff
    \/ materials[m].status = "active"
    \/ materials[m].status = "pending" /\ materials[m].author = u

\* Mutation: a product of an active material is active, whoever adds it.
ActiveWithMaterial(u, m) == materials[m].status = "active"
ActiveAtOnce(u, m) == u \in Staff /\ materials[m].status = "active"

CreateMaterialProduct(u, p) ==
    /\ materials[MaterialOf[p]] # None
    /\ MayAddProduct(u, MaterialOf[p])
    /\ products[p] = None
    /\ products' = [products EXCEPT
            ![p] = Entered(u, ActiveAtOnce(u, MaterialOf[p]))]
    /\ UNCHANGED materials

UpdateMaterialProduct(u, p, status) ==
    /\ u \in Staff
    /\ products[p] # None
    /\ status = "active" => materials[MaterialOf[p]].status = "active"
    /\ products' = [products EXCEPT ![p] = Reviewed(@, u, status)]
    /\ UNCHANGED materials

\* What list_materials shows of the rows of a table.
Shown(u, row) ==
    /\ row # None
    /\ \/ u \in Staff
       \/ row.status = "active"
       \/ row.status = "pending" /\ row.author = u

\* A product is shown under its material only.
ListedMaterials(u) == {m \in Materials : Shown(u, materials[m])}
ListedProducts(u) ==
    {p \in Products :
        MaterialOf[p] \in ListedMaterials(u) /\ Shown(u, products[p])}

\* What export-catalog writes: reviewed materials and their reviewed products.
ExportedMaterials ==
    {m \in Materials : materials[m] # None /\ materials[m].status = "active"}
ExportedProducts ==
    {p \in Products : /\ MaterialOf[p] \in ExportedMaterials
                      /\ products[p] # None
                      /\ products[p].status = "active"}

-----------------------------------------------------------------------------
MaterialNext ==
    \/ \E u \in Users, m \in Materials :
          \/ CreateMaterial(u, m)
          \/ \E status \in MaterialStatuses : UpdateMaterial(u, m, status)
    \/ \E u \in Users, p \in Products :
          \/ CreateMaterialProduct(u, p)
          \/ \E status \in MaterialStatuses :
                UpdateMaterialProduct(u, p, status)

MaterialSpec == MaterialInit /\ [][MaterialNext]_materialVars

-----------------------------------------------------------------------------
(* Properties.                                                               *)

MaterialTypeOK ==
    /\ materials \in [Materials -> MaterialRow \cup {None}]
    /\ products \in [Products -> MaterialRow \cup {None}]

Vouched(u, row) ==
    row.reviewer \in Staff \/ (row.status = "pending" /\ row.author = u)

\* "Return active catalog records plus a student's own pending proposals": what
\* a student finds in the directory is his own proposal or was reviewed by the
\* staff, a product together with the material it is shown under; and
\* export-catalog takes nothing that some student could not see.
PublicIsReviewed ==
    \A u \in Students :
        /\ \A m \in ListedMaterials(u) : Vouched(u, materials[m])
        /\ \A p \in ListedProducts(u) :
              /\ Vouched(u, products[p])
              /\ Vouched(u, materials[MaterialOf[p]])
        /\ ExportedMaterials \subseteq ListedMaterials(u)
        /\ ExportedProducts \subseteq ListedProducts(u)

=============================================================================
