----------------------------- MODULE Revisions ------------------------------
(* What a versioned catalog promises: a row is a chain of revisions that only *)
(* grows.  Its owner writes it while it is personal, curators once it is      *)
(* shared; it is shared once, from the revision that was current then, and    *)
(* nobody writes it after it was retired.  Baselines and LayerPresets         *)
(* implement this.                                                            *)
EXTENDS Naturals, Sequences

CONSTANTS
    Items,    \* rows of the catalog
    Authors,  \* users
    Curators, \* users who may revise a shared row
    Absent,   \* a row that was not created
    KeepsOrigin \* whether a shared row still names its owner, and the revision
                \* it was shared at

VARIABLE item \* each row: who wrote each revision, and where it was shared

Rows ==
    [owner: Authors \cup {Absent}, chain: Seq(Authors),
     scope: {"personal", "shared"}, at: Nat, status: {"open", "retired"}]

Chain(owner, by, scope) ==
    [owner |-> owner, chain |-> <<by>>, scope |-> scope, at |-> 0,
     status |-> "open"]

Init == item = [i \in Items |-> Absent]

\* A row begins personal to its author, or shared by someone of the staff.
Create(i, by) ==
    /\ item[i] = Absent
    /\ \/ item' = [item EXCEPT ![i] = Chain(by, by, "personal")]
       \/ item' = [item EXCEPT ![i] = Chain(Absent, by, "shared")]

Open(i) == item[i] # Absent /\ item[i].status = "open"

Revise(i, by) ==
    /\ Open(i)
    /\ IF item[i].scope = "shared" THEN by \in Curators
                                  ELSE by = item[i].owner
    /\ item' = [item EXCEPT ![i].chain = Append(@, by)]

\* The last revision is the one that becomes shared.
Shared(row) ==
    [owner |-> IF KeepsOrigin THEN row.owner ELSE Absent,
     chain |-> row.chain,
     scope |-> "shared",
     at |-> IF KeepsOrigin THEN Len(row.chain) ELSE 0,
     status |-> row.status]

Share(i) ==
    /\ Open(i)
    /\ item[i].scope = "personal"
    /\ item' = [item EXCEPT ![i] = Shared(@)]

Retire(i) ==
    /\ Open(i)
    /\ item' = [item EXCEPT ![i].status = "retired"]

Next ==
    \E i \in Items :
        \/ \E by \in Authors : Create(i, by) \/ Revise(i, by)
        \/ Share(i)
        \/ Retire(i)

Spec == Init /\ [][Next]_item

=============================================================================
