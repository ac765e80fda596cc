------------------------------- MODULE Actors -------------------------------
(* The people and the requests that the catalog modules share.  Roles stay as *)
(* they are here: Accounts models how an administrator changes them.          *)
EXTENDS Naturals

CONSTANTS
    Students, Instructors, Administrators,  \* users, by role
    Txns,                                   \* transactions that can overlap
    MaxRevisions,  \* bound: no revision is asked for of a row that has as many
    None                                    \* SQL NULL, or no row

Users == Students \cup Instructors \cup Administrators

\* ROLE_RANK of an instructor or more.
Staff == Instructors \cup Administrators

ASSUME OneRoleEach ==
    /\ Students \cap Staff = {}
    /\ Instructors \cap Administrators = {}
ASSUME RevisionsBounded == MaxRevisions \in Nat
ASSUME NoneIsNobody == None \notin Users

=============================================================================
