----------------------------- MODULE Baselines ------------------------------
(* Baseline recipes and their immutable revisions                             *)
(* (src/web/repository/baseline.py and the routes of routes/catalogs.py).     *)
(*                                                                            *)
(* A handler first looks at the row and then waits for its lock; another      *)
(* transaction may commit in between.  Both looks are kept: what the code     *)
(* decides after the wait it decides on the row as it is then, except where   *)
(* an action says otherwise.  Revisions are told apart by number and author;  *)
(* recipes, notes and audit rows are left out.                                *)
EXTENDS Actors, Integers, Sequences

CONSTANTS
    Bases,     \* ids of baselines
    BaseNames  \* names a baseline can have

VARIABLES
    baselines,    \* rows of baselines
    versions,     \* the author of each row of baseline_versions, in order
    baseRequest   \* what each transaction asked for, and the row it saw

baseVars == <<baselines, versions, baseRequest>>

BaselineRow ==
    [name: BaseNames, owner: Users \cup {None},
     scope: {"personal", "shared"}, status: {"active", "archived"},
     current: Nat \ {0},  \* number of the row current_version_id points to
     promoted: Nat]       \* the same of promoted_version_id, 0 for NULL
BaseRequest ==
    [kind: {"update", "promote", "archive"}, user: Users, base: Bases,
     name: BaseNames, seen: BaselineRow]

ASSUME NoneIsNoBaseline == None \notin BaselineRow \cup BaseRequest

BaseInit ==
    /\ baselines = [b \in Bases |-> None]
    /\ versions = [b \in Bases |-> <<>>]
    /\ baseRequest = [t \in Txns |-> None]

\* The unique indexes: one personal name for each owner, one shared name.
BaseNameFree(b, scope, owner, name) ==
    \A other \in Bases \ {b} : baselines[other] # None =>
        ~ /\ baselines[other].name = name
          /\ baselines[other].scope = scope
          /\ scope = "personal" => baselines[other].owner = owner

\* The role decides the scope.
SaveBaseline(u, b, name) ==
    LET scope == IF u \in Students THEN "personal" ELSE "shared"
        owner == IF scope = "personal" THEN u ELSE None
    IN /\ baselines[b] = None
       /\ BaseNameFree(b, scope, owner, name)
       /\ baselines' = [baselines EXCEPT ![b] =
            [name |-> name, owner |-> owner, scope |-> scope,
             status |-> "active", current |-> 1, promoted |-> 0]]
       /\ versions' = [versions EXCEPT ![b] = <<u>>]
       /\ UNCHANGED baseRequest

-----------------------------------------------------------------------------
(* The first look of a handler, as its route lets the user through.          *)

BeginBase(t, kind, u, b, name) ==
    /\ baseRequest[t] = None
    /\ baselines[b] # None
    /\ baseRequest' = [baseRequest EXCEPT ![t] =
            [kind |-> kind, user |-> u, base |-> b, name |-> name,
             seen |-> baselines[b]]]
    /\ UNCHANGED <<baselines, versions>>

BeginUpdateBaseline(t, u, b, name) ==
    /\ Len(versions[b]) < MaxRevisions
    /\ BeginBase(t, "update", u, b, name)

BeginPromoteBaseline(t, u, b) ==
    /\ u \in Staff
    /\ baselines[b] # None
    /\ BeginBase(t, "promote", u, b, baselines[b].name)

BeginArchiveBaseline(t, u, b) ==
    /\ u \in Administrators
    /\ baselines[b] # None
    /\ BeginBase(t, "archive", u, b, baselines[b].name)

Asks(t, kind) == baseRequest[t] # None /\ baseRequest[t].kind = kind
Answer(t) == baseRequest' = [baseRequest EXCEPT ![t] = None]

-----------------------------------------------------------------------------
(* The rest of the handler, once it has the lock of the row.                 *)

\* Mutation: permission is decided on the row as first seen.
MayUpdateAsSeen(t) ==
    LET row == baseRequest[t].seen
        u == baseRequest[t].user
    IN /\ IF row.scope = "personal" THEN row.owner = u
                                    ELSE u \in Administrators
       /\ row.status = "active"
MayUpdate(t) ==
    LET row == baselines[baseRequest[t].base]
        u == baseRequest[t].user
    IN /\ IF row.scope = "personal" THEN row.owner = u
                                    ELSE u \in Administrators
       /\ row.status = "active"

\* The next number follows the largest one, read after the lock.
UpdateBaseline(t) ==
    /\ Asks(t, "update")
    /\ MayUpdate(t)
    /\ LET b == baseRequest[t].base
           name == baseRequest[t].name
       IN /\ BaseNameFree(b, baselines[b].scope, baselines[b].owner, name)
          /\ versions' = [versions EXCEPT ![b] =
                            Append(@, baseRequest[t].user)]
          /\ baselines' = [baselines EXCEPT
                ![b].name = name,
                ![b].current = Len(versions[b]) + 1]
    /\ Answer(t)

\* The row is locked together with its current revision: a promotion that
\* waited for a new revision finds no row any more.
Joined(t) ==
    baselines[baseRequest[t].base].current = baseRequest[t].seen.current

Promotable(t) ==
    LET row == baselines[baseRequest[t].base]
    IN row.scope = "personal" /\ row.status = "active"

PromoteBaseline(t) ==
    /\ Asks(t, "promote")
    /\ Joined(t)
    /\ Promotable(t)
    /\ LET b == baseRequest[t].base
       IN /\ BaseNameFree(b, "shared", None, baselines[b].name)
          /\ baselines' = [baselines EXCEPT
                ![b].scope = "shared",
                ![b].promoted = baseRequest[t].seen.current]
    /\ Answer(t)
    /\ UNCHANGED versions

\* The status was read without a lock; archived again is still archived.
DeleteBaseline(t) ==
    /\ Asks(t, "archive")
    /\ baselines' = IF baseRequest[t].seen.status = "archived"
                    THEN baselines
                    ELSE [baselines EXCEPT
                            ![baseRequest[t].base].status = "archived"]
    /\ Answer(t)
    /\ UNCHANGED versions

\* Unknown, archived, not promotable, or a name that is taken.
RefuseBaseline(t) ==
    /\ baseRequest[t] # None
    /\ LET b == baseRequest[t].base
           row == baselines[b]
           name == baseRequest[t].name
       IN \/ /\ Asks(t, "update")
             /\ \/ ~MayUpdate(t)
                \/ ~BaseNameFree(b, row.scope, row.owner, name)
          \/ /\ Asks(t, "promote")
             /\ \/ ~Joined(t)
                \/ ~Promotable(t)
                \/ ~BaseNameFree(b, "shared", None, row.name)
    /\ Answer(t)
    /\ UNCHANGED <<baselines, versions>>

-----------------------------------------------------------------------------
(* Who sees a baseline: four queries that each write the rule down.          *)

OwnOrShared(u, b) ==
    baselines[b].scope = "shared" \/ baselines[b].owner = u

\* Staff may ask for the archived ones as well, students may not.
ListedBaselines(u, archived) ==
    {b \in Bases :
        /\ baselines[b] # None
        /\ u \in Students \/ ~archived => baselines[b].status = "active"
        /\ u \in Students => OwnOrShared(u, b)}

\* get_baseline
OpenedBaselines(u) ==
    {b \in Bases : /\ baselines[b] # None
                   /\ u \in Students => /\ baselines[b].status = "active"
                                        /\ OwnOrShared(u, b)}

\* list_baseline_versions
TracedBaselines(u) ==
    {b \in Bases : /\ baselines[b] # None
                   /\ u \in Students => /\ OwnOrShared(u, b)
                                        /\ baselines[b].status = "active"}

\* Mutation: a plan may start from anybody's baseline.
UsableByAnyone(u) == {b \in Bases : baselines[b] # None}

\* What a new plan or condition may start from.
UsableBaselines(u) ==
    {b \in Bases : /\ baselines[b] # None
                   /\ OwnOrShared(u, b)
                   /\ baselines[b].status = "active"}

-----------------------------------------------------------------------------
BaseRequests ==
    \/ \E u \in Users, b \in Bases, name \in BaseNames :
          \/ SaveBaseline(u, b, name)
          \/ \E t \in Txns : BeginUpdateBaseline(t, u, b, name)
    \/ \E t \in Txns, u \in Users, b \in Bases :
          \/ BeginPromoteBaseline(t, u, b)
          \/ BeginArchiveBaseline(t, u, b)

BaseSteps ==
    \E t \in Txns :
        \/ UpdateBaseline(t)
        \/ PromoteBaseline(t)
        \/ DeleteBaseline(t)
        \/ RefuseBaseline(t)

BaseSpec == BaseInit /\ [][BaseRequests \/ BaseSteps]_baseVars

-----------------------------------------------------------------------------
(* Properties.                                                               *)

BaseTypeOK ==
    /\ baselines \in [Bases -> BaselineRow \cup {None}]
    /\ versions \in [Bases -> Seq(Users)]
    /\ baseRequest \in [Txns -> BaseRequest \cup {None}]
    /\ \A b \in Bases : IF baselines[b] = None
                        THEN versions[b] = <<>>
                        ELSE baselines[b].current = Len(versions[b])
    /\ \A t \in Txns : baseRequest[t] # None =>
          baselines[baseRequest[t].base] # None

ItemOfBaseline ==
    [b \in Bases |->
        IF baselines[b] = None THEN None
        ELSE [owner |-> baselines[b].owner,
              chain |-> versions[b],
              scope |-> baselines[b].scope,
              at |-> baselines[b].promoted,
              status |-> IF baselines[b].status = "active" THEN "open"
                                                           ELSE "retired"]]

BaseRevisions == INSTANCE Revisions WITH
    Items <- Bases, Authors <- Users, Curators <- Administrators,
    Absent <- None, KeepsOrigin <- TRUE, item <- ItemOfBaseline

ASSUME NoneIsNoBaselineItem == None \notin BaseRevisions!Rows

\* "Baseline revisions are immutable audit records": under any overlap of
\* revisions, a promotion and an archiving, the chain only grows, its owner
\* never writes past the promoted revision, and no archived one is written.
BaselinesAreRevisions == BaseRevisions!Spec

=============================================================================
