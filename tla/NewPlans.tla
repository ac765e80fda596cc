------------------------------ MODULE NewPlans ------------------------------
(* How an experiment plan comes to be: campaigns (repository/campaign.py),    *)
(* device layouts (services/catalog_service.py) and add_experiment            *)
(* (repository/experiment.py), on top of the baselines it may start from.     *)
(*                                                                            *)
(* add_experiment reads the campaign and the baseline without a lock, waits   *)
(* for the advisory lock of its series, draws a version, reads the layouts    *)
(* and inserts the plan with its conditions.  PlanApproval takes it from      *)
(* there.                                                                     *)
EXTENDS Baselines, LegacyAdapter

CONSTANTS
    Campaigns,   \* campaign codes
    Codes,       \* layout codes
    LayoutRows,  \* layouts an administrator may enter
    Recipes,     \* recipes that may be posted, with their condition plans
    CodeOrder,   \* the layout codes, in the order of the catalog
    MaxVersion   \* bound: a series with as many plans asks for no more

ASSUME LayoutsTyped ==
    LayoutRows \subseteq [code: Codes, version: Nat \ {0}, size: STRING]
ASSUME RecipesWellFormed ==
    \A r \in Recipes : r.groups \in Seq(RecipeGroup) /\ WellFormed(r.groups)
ASSUME CodesOrdered ==
    /\ IsFiniteSet(Codes)
    /\ CodeOrder \in [1..Cardinality(Codes) -> Codes]
ASSUME NoneIsNoTxn == None \notin Txns
ASSUME SeriesBounded == MaxVersion \in Nat /\ IsFiniteSet(Txns)

VARIABLES
    campaigns,    \* status of each row of campaigns
    layouts,      \* rows of device_layout_versions
    experiments,  \* plans of each campaign, with the layouts they read
    series,       \* holder of the advisory lock of each series
    draft         \* what each add_experiment has read so far

planVars == <<campaigns, layouts, experiments, series, draft>>

CampaignStatuses == {"active", "closed", "archived"}

PlansInit ==
    /\ campaigns = [c \in Campaigns |-> None]
    /\ layouts = {}
    /\ experiments = [c \in Campaigns |-> {}]
    /\ series = [c \in Campaigns |-> None]
    /\ draft = [t \in Txns |-> None]

CreateCampaign(u, c) ==
    /\ u \in Staff
    /\ campaigns[c] = None
    /\ campaigns' = [campaigns EXCEPT ![c] = "active"]
    /\ UNCHANGED <<layouts, experiments, series, draft>>

\* A closed campaign can be opened again.
UpdateCampaign(u, c, status) ==
    /\ u \in Staff
    /\ campaigns[c] # None
    /\ campaigns' = [campaigns EXCEPT ![c] = status]
    /\ UNCHANGED <<layouts, experiments, series, draft>>

\* Layouts are never edited: a version that exists is refused.
CreateDeviceLayout(u, row) ==
    /\ u \in Administrators
    /\ \A other \in layouts :
          <<other.code, other.version>> # <<row.code, row.version>>
    /\ layouts' = layouts \cup {row}
    /\ UNCHANGED <<campaigns, experiments, series, draft>>

LayoutVersions(code) == {l \in layouts : l.code = code}
NewestLayout(code) ==
    CHOOSE l \in LayoutVersions(code) :
        \A m \in LayoutVersions(code) : m.version <= l.version

\* The newest version of each code that has one, at the place of the code.
ListDeviceLayouts ==
    LET known == {i \in DOMAIN CodeOrder : LayoutVersions(CodeOrder[i]) # {}}
    IN [i \in known |-> NewestLayout(CodeOrder[i])]

-----------------------------------------------------------------------------
(* add_experiment                                                            *)

\* A source is a revision of a baseline.
Sources(u) ==
    {None} \cup UNION {{<<b, n>> : n \in 1..Len(versions[b])} :
                            b \in UsableBaselines(u)}

BeginExperiment(t, u, c, source, recipe) ==
    /\ draft[t] = None
    /\ Cardinality(experiments[c]) < MaxVersion
    /\ campaigns[c] = "active"
    /\ source \in Sources(u)
    /\ draft' = [draft EXCEPT ![t] =
            [user |-> u, campaign |-> c, source |-> source,
             recipe |-> recipe, version |-> 0, catalog |-> <<>>,
             conditions |-> <<>>]]
    /\ UNCHANGED <<campaigns, layouts, experiments, series>>

NextVersion(c) == Max({0} \cup {e.version : e \in experiments[c]}) + 1

\* Mutation: the version is drawn without the lock of the series.
SeriesIgnored(t) == TRUE
SeriesFree(t) == series[draft[t].campaign] = None

\* pg_advisory_xact_lock, the version, the layouts and the conditions.
DrawVersion(t) ==
    /\ draft[t] # None
    /\ draft[t].version = 0
    /\ SeriesFree(t)
    /\ LET c == draft[t].campaign
           r == draft[t].recipe
           catalog == ListDeviceLayouts
       IN /\ series' = [series EXCEPT ![c] = t]
          /\ draft' = [draft EXCEPT
                ![t].version = NextVersion(c),
                ![t].catalog = catalog,
                ![t].conditions =
                    Materialize(catalog, r.groups, r.size, r.plans)]
    /\ UNCHANGED <<campaigns, layouts, experiments>>

Leave(t) ==
    /\ series' = [c \in Campaigns |->
                    IF series[c] = t THEN None ELSE series[c]]
    /\ draft' = [draft EXCEPT ![t] = None]

InsertExperiment(t) ==
    /\ draft[t] # None
    /\ draft[t].conditions # <<>>
    /\ LET d == draft[t]
       IN experiments' = [experiments EXCEPT ![d.campaign] = @ \cup
            {[version |-> d.version, creator |-> d.user,
              source |-> d.source, recipe |-> d.recipe,
              catalog |-> d.catalog, conditions |-> d.conditions]}]
    /\ Leave(t)
    /\ UNCHANGED <<campaigns, layouts>>

\* A refused recipe, a lost connection, a restart.
RollBack(t) ==
    /\ draft[t] # None
    /\ Leave(t)
    /\ UNCHANGED <<campaigns, layouts, experiments>>

-----------------------------------------------------------------------------
PlansNext ==
    \/ \E u \in Users, c \in Campaigns :
          \/ CreateCampaign(u, c)
          \/ \E status \in CampaignStatuses : UpdateCampaign(u, c, status)
          \/ \E t \in Txns, source \in Sources(u), r \in Recipes :
                BeginExperiment(t, u, c, source, r)
    \/ \E u \in Users, row \in LayoutRows : CreateDeviceLayout(u, row)
    \/ \E t \in Txns : DrawVersion(t) \/ InsertExperiment(t) \/ RollBack(t)

\* The composition of what a plan is made from.  A transaction does one thing.
NewPlansNext ==
    /\ \/ PlansNext /\ UNCHANGED baseVars
       \/ (BaseRequests \/ BaseSteps) /\ UNCHANGED planVars
    /\ \A t \in Txns : baseRequest'[t] = None \/ draft'[t] = None

NewPlansSpec ==
    BaseInit /\ PlansInit /\ [][NewPlansNext]_<<baseVars, planVars>>

-----------------------------------------------------------------------------
(* Properties.                                                               *)

PlansTypeOK ==
    /\ campaigns \in [Campaigns -> CampaignStatuses \cup {None}]
    /\ layouts \subseteq LayoutRows
    /\ series \in [Campaigns -> Txns \cup {None}]
    /\ \A c \in Campaigns : \A e \in experiments[c] :
          e.version \in 1..(MaxVersion + Cardinality(Txns))
    /\ \A t \in Txns : draft[t] # None =>
          draft[t].campaign \in Campaigns /\ draft[t].user \in Users

\* The versions of a series have no gap and no repetition, and a transaction
\* that has drawn one still holds the next one when it inserts: however many
\* plan in the same campaign, and however many give up.
SeriesDense ==
    /\ \A c \in Campaigns :
          {e.version : e \in experiments[c]} = 1..Cardinality(experiments[c])
    /\ \A t \in Txns : draft[t] # None =>
          draft[t].version \in {0, NextVersion(draft[t].campaign)}

\* "A Personal baseline revision may only be invoked by its owner": the
\* revision a plan names as its source exists, and its creator may still see
\* it, whatever is promoted, revised or archived while the plan is made and
\* after.  And a plan can be started from what its author finds: the queries
\* that list, open, trace and use a baseline agree on it.
SourceStaysVisible ==
    /\ \A c \in Campaigns : \A e \in experiments[c] :
          e.source # None =>
              /\ e.source[2] \in 1..Len(versions[e.source[1]])
              /\ OwnOrShared(e.creator, e.source[1])
    /\ \A u \in Users :
          LET usable == UsableBaselines(u)
          IN /\ usable \subseteq ListedBaselines(u, FALSE)
             /\ usable \subseteq OpenedBaselines(u) \cap TracedBaselines(u)
             /\ u \in Students =>
                   ListedBaselines(u, TRUE) \cup OpenedBaselines(u)
                       \cup TracedBaselines(u) \subseteq usable

\* "Ambiguous historical facts are preserved as conservative defaults and
\* marked requires_manual_review": a condition that is not marked has a layout
\* of the recorded size that was chosen for it or was the only one, and lost no
\* adjustment.
GuessesAreFlagged ==
    \A c \in Campaigns : \A e \in experiments[c] :
        /\ Len(e.conditions) = Len(e.recipe.groups)
        /\ \A i \in DOMAIN e.conditions :
              LET k == e.conditions[i]
                  g == e.recipe.groups[i]
              IN ~k.review =>
                    /\ k.layout \in layouts
                    /\ k.layout.size = e.recipe.size
                    /\ PlansOf(e.recipe.plans, g) = {} =>
                          Cardinality(Matches(e.catalog, e.recipe.size)) = 1
                    /\ g.adjusted => k.recipe = g.id

=============================================================================
