----------------------------- MODULE ReviewGate -----------------------------
(* What the approval workflow promises, without its tables: a content is      *)
(* edited freely, an approval pins it, a release makes it permanent, and only *)
(* pinned content is ever fabricated.  PlanApproval implements this.          *)

CONSTANTS
    Contents,  \* what a plan may consist of
    NoContent  \* stands for no approval; not one of Contents

VARIABLES
    phase,     \* editing, reviewed, released or closed
    content,   \* the plan's conditions
    approved,  \* the content an instructor last approved
    fabricated \* contents that batches were made from

vars == <<phase, content, approved, fabricated>>

Phases == {"editing", "reviewed", "released", "closed"}

TypeOK ==
    /\ phase \in Phases
    /\ content \in Contents
    /\ approved \in Contents \cup {NoContent}
    /\ fabricated \subseteq Contents

Init ==
    /\ phase = "editing"
    /\ content \in Contents
    /\ approved = NoContent
    /\ fabricated = {}

\* An edit of an approved content takes the approval away with it.
Edit ==
    /\ phase \in {"editing", "reviewed"}
    /\ phase' = "editing"
    /\ content' \in Contents
    /\ UNCHANGED <<approved, fabricated>>

Approve ==
    /\ phase = "editing"
    /\ phase' = "reviewed"
    /\ approved' = content
    /\ UNCHANGED <<content, fabricated>>

Release ==
    /\ phase = "reviewed"
    /\ phase' = "released"
    /\ UNCHANGED <<content, approved, fabricated>>

Fabricate ==
    /\ phase = "released"
    /\ fabricated' = fabricated \cup {content}
    /\ UNCHANGED <<phase, content, approved>>

\* Completion, or cancellation in any phase.
Close ==
    /\ phase # "closed"
    /\ phase' = "closed"
    /\ UNCHANGED <<content, approved, fabricated>>

Next == Edit \/ Approve \/ Release \/ Fabricate \/ Close

Spec == Init /\ [][Next]_vars

-----------------------------------------------------------------------------
\* Whatever was fabricated is the one content an instructor approved.
FabricatedWasApproved == fabricated \subseteq {approved}

=============================================================================
