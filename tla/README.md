# Formal model of the perovskite fabrication workflow

The program is a laboratory workflow server: FastAPI handlers call
asynchronous repository functions (`src/src/web/repository/`), which run SQL
against PostgreSQL through SQLAlchemy. Users plan an experiment as a set of
conditions, an instructor approves and releases the plan, a fabrication batch
freezes it, the batch is prepared and executed on a run sheet, and measured J-V
files are uploaded and assigned to the devices that were made.

All state is in the database. Every handler is one transaction
(`Database.begin`, `database.py:1222-1225`) at READ COMMITTED, PostgreSQL's
default, which nothing in the code changes. Everything that is hard about the
system follows from that: what a handler decides on is protected only by the
rows it has locked *before* it read them, and a plain SELECT, or a row that was
read in the same statement that waited for another row, may be out of date when
it is used.

## 1. Inventory

| Component | State | Operations | Hard behaviour |
|---|---|---|---|
| Plans, conditions, exceptions (`condition.py`, `experiment.py`) | `experiments.plan_status`, `experiment_conditions`, `condition_substrate_exceptions` | create, update, delete a condition; request and decide an exception; change the plan status | edits racing review; approvals that outlive the recipe; conditions read while waiting for a lock |
| Batches and run sheet (`batch.py`, `operations/batch_lifecycle.py`) | `fabrication_batches`, `solution_preparations`, their uses, `process_executions`, their members, `execution_deviations` | create, advance, complete; create, update, split, merge preparations and executions; record as planned; deviations | long sequences of splits and merges; completion with more or fewer substrates than planned |
| Results (`result.py`, `operations/result_assignment.py`) | `result_files`, assignments, laser marks of `fabrication_batch_substrates`, representative choices, `device_scan_stats` | upload, assign, assign again, set and clear a representative scan, shortfall deviations | two files that carry one laser mark; a cache derived from rows that another transaction changes |
| Row locks (all three) | PostgreSQL's row locks | the lock sequence of every handler | deadlock between handlers that lock in different orders |
| Accounts, sign-in, sessions (`identity.py`, `auth.py`, `auth_routes.py`) | `users`, `sessions` | sign in, sign out, clean up, create, update, reset | a sign-in is four transactions with password hashing in between; the role of a request is read before it acts; the last administrator |
| Campaigns, series versions (`campaign.py`, `experiment.py`) | `campaigns`, `experiments.series_version` | create, update a campaign; add an experiment | an advisory lock on the version; unlocked looks at the campaign and the baseline |
| Baselines and presets (`baseline.py`, `preset.py`) | a row and its immutable revisions | save, revise, promote, archive, deactivate | the row changes between the first look and its lock; permission depends on its scope |
| Materials and products (`material.py`) | two tables with a review status | propose, review, add a product | which rows a student finds, through two tables |
| Device layouts (`services/catalog_service.py`) | append-only versions | enter, list the newest | a plan reads the catalog while it grows |
| Conditions of a posted recipe (`services/legacy_adapter.py`) | none | recipe and plans to conditions | guesses that must be flagged |
| Import of a catalog (`admin_cli.py`) | none of its own | import, killed, run again | one transaction per item, each looked up before it is made |
| J-V parser and statistics (`jv_parser.py`) | `result_files.analysis`, `.metrics` | parse, upgrade, regroup, exclude, compare | ambiguous rows, older shapes, saves that overlap |
| Routes, middleware, models, frontend, exports, deployment | none of their own | request parsing, rendering | none that outlives a request |

How they interact: only through rows. A batch holds foreign keys to the plan
and its conditions (a condition that was frozen can no longer be deleted); a
result file belongs to a batch; the completion of a batch decides which
substrate rows a laser mark may be bound to; the recipe hash of a condition is
what an exception's approval is compared with. A new plan names a revision of a
baseline and copies the layouts of the catalog. A saved analysis assigns the
devices of a file (`ResultAssignment`) and groups their scans (`JvAnalysis`) in
the same transaction.

`PROJECT.json` lists the components with what is and is not modelled, and under
`hazards` each of the hard places at its line with the properties that watch it.

## 2. Modules

| Module | Models | Checked by |
|---|---|---|
| `ReviewGate` | what the approval workflow promises, without rows, locks or transactions | as `ImplementsReviewGate` |
| `PlanApproval` | one plan: conditions, exceptions, status machine, freezing | `MCPlanApproval`, `PlanApprovalProofs` |
| `BatchExecution` | the run sheet of one batch up to completion | `MCBatchExecution`, `BatchExecutionProofs` |
| `ResultAssignment` | the result files, laser marks and scan cache of one batch | `MCResultAssignment`, `ResultAssignmentProofs` |
| `RowLocks` | lock sequences of all handlers of the three above, with PostgreSQL's deadlock detector | `MCRowLocks`, `RowLocksProofs` |
| `Accounts` | users, sign-in, lockout, sessions, administration | `MCAccounts`, `AccountsProofs` |
| `Actors` | the roles and requests the catalog modules share | `MCCatalog` |
| `Revisions` | what a versioned catalog promises: a chain that only grows | as `BaselinesAreRevisions` and `PresetsAreRevisions` |
| `Baselines`, `LayerPresets` | the two versioned catalogs | `MCCatalog`, `CatalogProofs` |
| `Materials` | materials, products, review, directory and export | `MCCatalog`, `CatalogProofs` |
| `LegacyAdapter` | a posted recipe becomes conditions, as operators | within `NewPlans` |
| `NewPlans` | campaigns, layouts and `add_experiment`, composed with `Baselines` and `LegacyAdapter` | `MCCatalog`, `CatalogProofs` |
| `CatalogImport` | `import-catalog`, killed and run again, with users creating rows meanwhile | `MCCatalog`, `CatalogProofs` |
| `JvParser` | a J-V file to traces and devices, as operators | within `JvAnalysis` |
| `JvStatistics` | samples, summaries and tests of a grouping, as operators | within `JvAnalysis` |
| `JvAnalysis` | one file: parsed or inherited, then saved by overlapping saves | `MCJvAnalysis`, `JvAnalysisProofs` |
| `FoldLaws` | nothing of the code: what the folds that the J-V modules are written with compute, step by step | its lemmas are proved, and used by `JvAnalysisProofs` |

State and code, module by module:

| Module | Variable | In the code |
|---|---|---|
| `PlanApproval` | `planType`, `planStatus` | `experiments.plan_type`, `.plan_status` |
| | `cond`, `issued` | `experiment_conditions` and its id sequence |
| | `exc` | `condition_substrate_exceptions` |
| | `frozen` | `fabrication_batch_conditions` of each batch |
| | `txn` | what an open two-statement transaction has read |
| | `reviewed` | history: the content the last approval was given to |
| `BatchExecution` | `status`, `actual` | `fabrication_batches.status`, `actual_substrate_count` |
| | `prep`, `useOf` | `solution_preparations`, `solution_preparation_uses` |
| | `exec`, `members` | `process_executions`, `process_execution_members` |
| | `deviations` | `execution_deviations` |
| `ResultAssignment` | `batch`, `experiment`, `actual`, `shortfall` | statuses, counts, measurement-shortfall deviations |
| | `mark` | `fabrication_substrates.substrate_mark` |
| | `uploaded`, `assigned` | `result_files`, `result_device_assignments` |
| | `selection`, `stats` | `device_representative_scans`, `device_scan_stats` |
| | `applying`, `txn` | open transactions, with what they hold and have read |
| `RowLocks` | `phase`, `handler`, `todo`, `held` | an open transaction: its state, its handler, the locks it has still to take, the locks it has |
| `Accounts` | `users`, `sessions` | the tables |
| | `request` | what a sign-in or an admitted request has read |
| | `clock`, `resets` | the time; how many passwords were set |
| | `stamps`, `tries` | history: earlier `password_changed_at`; attempts since the account was released |
| `Baselines` | `baselines`, `versions`, `baseRequest` | `baselines`, the authors of `baseline_versions`, what an open transaction saw |
| `LayerPresets` | `presets`, `presetVersions`, `presetRequest` | the same of `layer_presets`, `layer_preset_versions` |
| `Materials` | `materials`, `products` | status, author and reviewer of `materials`, `material_products` |
| `NewPlans` | `campaigns`, `layouts`, `experiments` | `campaigns`, `device_layout_versions`, `experiments` with the conditions they began with |
| | `series`, `draft` | the advisory lock of a series; an open `add_experiment` |
| `CatalogImport` | `rows`, `document` | keys in the tables; keys in the file |
| | `written`, `left`, `missing`, `phase`, `runs` | the running command: its open transaction, what it has not looked at, what it just missed |
| `JvAnalysis` | `file`, `stored`, `cached` | the bytes; `result_files.analysis`; `result_files.metrics` |
| | `saving`, `latest` | open saves with the analysis they read; history: the choices of the last save |

Actions carry the names of the repository functions (`create_condition` is
`CreateCondition`); a function that takes two steps has a `Begin...` action for
the first. Definitions marked *mutation* are not part of the specification: each
is a plausible wrong version of the definition that follows it, which a run
must reject.

### ReviewGate and PlanApproval

`ReviewGate` has three variables: the content of a plan, its stage, and what
batches froze. Editing puts the plan back to the drawing board, an instructor
approves the content as it is, release and freezing need an approved content
and leave it alone. `PlanApproval` is the code: condition rows, exceptions with
the hash they were approved for, the seven plan statuses and
their transitions, foreign keys from frozen batches.
`ImplementsReviewGate` is the refinement, with the content a function of the
condition rows and the stage a function of the status.

A handler that locks the experiments row first and reads afterwards is one
action. Three handlers are not of that form and take two steps:
`update_condition` and `delete_condition` read the condition row in the
statement that *waits* for the experiments row, so they proceed with the row as
it was before the wait; `request_substrate_exception` locks nothing between its
SELECT and its INSERT. `txn` holds what an open transaction has read.

Recipe snapshots are their canonical hashes. Names, layouts, wording and audit
rows are left out. Ids of conditions are never reused (`issued`), as in a
database sequence.

### BatchExecution

The status machine of a batch, grouping by solution and by process identity at
creation, rows created by hand, splits, merges, recordings, deviations, and
completion, which stores actual counts, adds the extra substrates to every
execution that has a member of their condition, and closes the run sheet. Each
handler holds the batch row FOR UPDATE when it decides, so it is one action.
A solution and a process are identities (equal exactly when the canonical
hashes in the code are). `MaxCount` and `MaxDeviations` bound what users enter,
`BatchLimit` is the code's 99.

### ResultAssignment

`apply_result_assignment` locks experiment, batch and file in the documented
order but its writes become visible only at commit: it is two steps
(`BeginAssignment`, `CommitAssignment`), with a rollback. Setting or clearing a
representative scan locks neither: it is four steps (the file or slot is
pinned, the choice changes, the scans are read, the cache row is written),
each of which sees what has been committed by then. A file holds at most one
trace for each device and direction, and an efficiency that ranks it
(`Pce`).

A consequence the model makes visible: a laser mark, once bound to a
substrate, never moves, so an assignment that was saved can never be saved
again with the mark under another condition. The branches of the code that drop
devices or report them as reassigned are not reachable within one batch, and a
wrong binding cannot be corrected by assigning the file again. `DevicesStay` is
that property.

### RowLocks

Each handler is the set of lock sequences it may take (row, mode): `FOR UPDATE`,
which a DELETE takes too, the implicit lock of an UPDATE, and the `FOR KEY SHARE`
of a foreign-key check. A unique key that is entered counts as its row: a second
transaction that enters it waits for the first one's end. (A request of an
exception waits for its key with nothing held, so that wait is left out.) One row
stands for each table: the handlers of one plan and one batch, which is where they
can meet; only result files are two, because one refresh of the cache
(`RefreshScanStats`, `result.py:150-255`) deletes the selection and the cache row of
a direction and then inserts a row whose foreign key shares the file of the best
scan, which may be another one than the file that is assigned. What one statement
locks of a table, it is assumed to lock in the order of its scan. A transaction
requests, is granted or waits, and finishes; a set of transactions that wait for
one another is `Deadlocked`, and the database may abort one.

`NoDeadlock` is about two groups of handlers. Plan handlers, uploads and
assignments take experiment, condition, exception, batch in this order, and what
they take of the results, in whatever order, they take while they hold the row of
the batch FOR UPDATE. Handlers that edit a run sheet take its rows, then the batch,
then the experiment. Circles of waits do arise, and the database breaks them:
between the two groups (`locks_mixed`); between a decision on an exception, which
locks the exception first, and an edit of its condition; between a recording, a
deviation or a completion, which locks the batch first, and an edit of a
preparation or an execution; and among choices of scans, and between one and an assignment: a choice
holds selection and cache row and waits for a file, with no row of the batch held
that would keep the two apart.

### Accounts

`authenticate_credentials` reads the user, reserves an attempt, compares the
password and records the success; `create_session` locks the row and compares
`password_changed_at` with what was read first. Each of these is an action, so a
reset, a deactivation or another attempt can come between any two. An
administrator's request resolves its session first and writes later, with the
role it had then; `update_user` counts the administrators under an advisory
lock. An attempt reads the clock before it waits, so its lock may be over when it
is written: `tries`, the history that `LimitHolds` and `LockoutEarned` speak of,
is defined accordingly. Passwords are the number of the reset that set them.

### Revisions, Baselines, LayerPresets

`Revisions` is the promise: a row is a chain of authors; its owner extends it
while it is personal, curators once it is shared; it is shared once; and nobody
extends it after it was retired. Both catalogs implement it, a baseline with its
owner and its promoted revision kept (`KeepsOrigin`), a preset without. The
interesting part is the wait for a row. `update_baseline` locks by id and decides
afterwards; `promote_baseline` locks the row joined with its current revision, so
that a promotion that waited for a revision finds nothing; `delete_baseline`
locks nothing. A preset is found by a WHERE clause which PostgreSQL evaluates
again after the wait, and which alone keeps an owner from writing what has
become shared (`StillWritable`, whose mutant evaluates it once).

### Materials

Every handler locks what it decides on, and is one action. A material and its
products are reviewed apart; what a student finds depends on both. A material
may be withdrawn while its products stay active: `PublicIsReviewed` shows that
such products are hidden with it.

### NewPlans and LegacyAdapter

`add_experiment` looks at the campaign and the baseline without a lock
(`BeginExperiment`), waits for the advisory lock of its series, draws a version
and reads the catalog (`DrawVersion`), and inserts, or gives up. `NewPlans` is
composed with `Baselines`, so that a revision, a promotion or an archiving may
come between any two of these. `LegacyAdapter` computes the conditions; a
recipe's layers are told apart by the group they come from, so that "which group
does this condition take its layers from" stays visible. The catalog a plan reads
is a function on the places of the layout codes that have a layout, in the order
of the codes, and not a sequence without gaps: what the adapter takes from it (the
first layout, the first of a size, the one of a code) is the same, and whether a
layout was there when a plan read the catalog is then a matter of one place of
the function.

### CatalogImport

Rows are keys: the command asks only whether a row exists. The layouts are one
transaction and every other item its own. The command may be killed at any
moment, may end on a unique index when somebody creates the item it just missed,
and is run again.

### JvParser, JvStatistics, JvAnalysis

A file is its scan blocks and its trailing table. A label is a mark, a stem (the
sequence of its segments), a channel, a direction and a scan number; metrics are
a function from the names that were found. `JvParser` keeps every rule that
decides between sources of numbers: ambiguous rows, exact and suffix matches, the
order of sources, the representative scan and its ties, identity of a device, and
refusal. The stem leaves out the text in front of a parenthesis; where
such a label names no channel and its parenthesis does not end in a number, the
code takes the whole label for the name of the substrate (`jv_parser.py:180-190`,
`1200-1215`), and `Identity` the stem alone. `JvStatistics` is exact: means are sums, medians doubled, quartiles
fourfold, p-values fractions. `JvAnalysis` lets a file be parsed, or be found in
the shape of an earlier release (those shapes are external: only the code that
upgrades them is in the repository), and saved by transactions that have read it
before. A save names groups that exist; an upload or an inherited file starts
without one (`latest`). Filtering and sorting are folds over sequences (`Select`,
`Sorted`), sums are folds over the positions, so that proofs can follow them
element by element.

## 3. Runs

| Run | Question | Bounds |
|---|---|---|
| `plan_workflow` | do edits, deletions and requests that overlap with any plan command, and conditions that come and go around submission, release and two batches, leave what was reviewed, frozen and promised as it was? is the abstract workflow implemented? | 3 conditions (a comparative plan and one more), 1 exception, 2 batches, 2 hashes, counts on both sides of the minimum; 1 two-step transaction open beside any number of one-step handlers |
| `plan_request_count` | finding, see section 6 | counts below the minimum |
| `batch_solutions` | preparations under every sequence of creation, split, merge, recording, deviation, advance | 3 uses of 2 solutions, 3 preparations: a split of the larger one, or one made by hand |
| `batch_processes` | executions of two conditions sharing a process, up to completion with 0 to 2 substrates made; what of a run sheet is never written again, once its row, or its batch, is final | 2 conditions, 2 process steps, 3 executions |
| `batch_terminal` | finding | |
| `locks_bench` | does a transaction end, although some deadlock and others come and go that share a row it wants FOR UPDATE? do plan handlers and uploads, or edits of a run sheet, deadlock by themselves? | 3 transactions: two that could share a row in turns, and one that waits for it; six handlers: those that share a condition or an execution by a foreign key (`create_fabrication_batch`, `complete_batch`), those that want it FOR UPDATE (`delete_condition`, `decide_substrate_exception`, `update_process_execution`), and an upload; for all handlers there is the theorem |
| `locks_mixed` | finding | |
| `results_files` | files that share a mark, uploaded, assigned and assigned again in any order, with a choice of scans open | 2 files, 2 conditions, 2 marks, 1 open choice |
| `results_race` | finding | |
| `accounts` | sign-ins, resets, deactivations, demotions and the clock in every order: do sessions belong to the current password, does the limit hold, is a lockout earned, does an administrator remain? | 2 accounts, 2 requests, 1 token, limit 2, clock 0 to 2, 1 reset |
| `catalog` | are revisions immutable records, versions without gap, doubts flagged, a student's directory reviewed, and an import that ends complete? | 2 baselines, 2 presets, 1 campaign, 3 layouts of 2 codes, 3 recipes, 1 material with 2 products, 2 layouts, a material, a product and a preset to import; 2 requests, 2 revisions each, 2 runs of the import |
| `analysis` | are the statistics those of the scans and of the last save, is the adjustment the reference's, does no scan take an ambiguous row's numbers? | 400 tables of up to 3 rows over 7 kinds of row, 3 other files, 5 that are refused; 4 metrics; 2 saves, each excluding at most 1 device |

Bounds are the smallest at which the interesting case happens: a transaction that
waits and another that commits are needed for a stale read, three conditions for
a comparative plan to lose one and stay comparative, three executions for a split
after a merge, two administrators for both to be demoted, three rows of one name
for an ambiguity to be forgotten, two substrates on one side and three on the
other for p-values that differ. `MaxRevisions`, `MaxVersion`, `MaxRuns`,
`MaxCount`, `MaxDeviations`, `MaxTime`, `MaxResets`, `MaxExcluded` and `MaxTable`
stand in guards or in the inputs.

`MCCatalog` holds four parts that share no variable (plans with baselines,
presets, materials, import). Its `Next` moves one of them in a behaviour, while
the others stay in their initial states: no property relates two parts, so
nothing is lost, and the sum of the state spaces is explored instead of their
product. The import starts from every directory that can be there. `PlanBounds`
then keeps plans apart from one another: two plans that overlap start without a
baseline, and a plan that starts from one overlaps with a request on it.
`Bounds` of `MCJvAnalysis` parses every table but saves those of at most one row,
and lets two saves overlap on the file of three devices. All samples are small
enough for the exact permutation test, so the Monte Carlo branch, above 20,000
draws, is not reached.

Model values that the code treats alike are symmetric. `CHECK_DEADLOCK FALSE` is given where
the system really stops, or the bounds stop it: plans, batches and files come to
an end (completed, cancelled, assigned with nothing left to enter), the clock of
`Accounts` ends, an import is done. The runs of `RowLocks` never
stop, and are checked for that.

Fairness: only `RowLocks` has a liveness property, `EveryTransactionEnds`.
`FairSpec` assumes that a handler continues once its statement returned (weak
fairness of request and finish: nothing in a handler waits for a person), that a
waiter is eventually granted a row that is free again and again (strong
fairness: PostgreSQL queues waiters on the tuple lock), and that the deadlock
detector eventually acts on a persisting cycle (weak fairness: it runs after
`deadlock_timeout`). None of this keeps holders of KEY SHARE from overlapping
without end while a waiter for FOR UPDATE starves. The property says that they do
not overlap where they hold the batch or the experiments row meanwhile, and is
checked with three transactions on such handlers (`Bench` of `MCRowLocks`). It is not claimed where
the code has no such row: choices of scans share a file an assignment wants, and
requests of exceptions a condition that a deletion wants, and either can starve the
other side, in PostgreSQL as in the model.

Every property of every passing run has a mutant in `PROJECT.json`: a changed
guard, order or update in one definition, as a plausible bug would change it,
under which the same run finds the property violated.

## 4. Proofs

`PlanApprovalProofs`. The invariants the runs check are not inductive one by
one. `IInv` joins `TypeOK` with what they need from one another: foreign keys
hold (`ForeignKeys`), so that deleting a frozen condition is refused and an
exception has its condition; a plan with a batch is in a closed status
(`BatchedPlanIsClosed`) and a batch exists only after a review
(`BatchesAreReviewed`), so that an edit cannot touch frozen content; the content
of an approved plan is the reviewed one (`ContentIsReviewed`); what is frozen is
the plan's content (`FrozenIsPlan`); approvals are for the current hash
(`ApprovalIsCurrent`) and cover every low count (`LowCountsApproved`); and the
shape of a submitted plan (`SubmittedShape`). The proof has one lemma for each
action and in it one step for each conjunct the action can disturb. The crux is
the two-step edit: the condition row it read may be stale, but the decision to
invalidate approvals compares with the row that is written, and the plan is sent
back to draft in the same transaction. From `IInv` follow, for any number of
conditions, exceptions, batches, actors and open transactions: `TypeCorrect`,
`ApprovalGate`, `LowCountsStayApproved`, `FrozenForGood`, `NoStaleApproval`, `ReleaseIsForGood`,
`ShapeIsKept`, `OnlyApprovedFrozen`, and `Refinement`, that the detailed
specification implements `ReviewGate`. `ReleaseIsForGood` and the conjunct
`BatchedPlanIsClosed` are proved and are no property of a run of their own.
Assumptions: counts are positive, the owner is an actor, `None` is not a value;
TLC evaluates them in the runs.

`RowLocksProofs`. `OrderedLocksNeverDeadlock`: if there are a ranking of the rows
and a gate row such that every handler of a group takes its rows in increasing
rank, and rows behind the gate, which need no rank, last and while it holds the
gate FOR UPDATE, then no set of transactions of that group is ever deadlocked,
however many there are and whatever else runs. The invariant has two parts.
`Upward`: every lock such a transaction holds ranks below every row it still has to
take, or that row is behind the gate and the gate is held, or to be taken, before;
and whoever holds a row behind the gate holds the gate. `Exclusive`: no two
transactions hold locks that exclude one another. In a circle of waiters nobody
waits for a row behind the gate, because then he and the one he waits for would
both hold the gate; so each waits for one whose next row ranks higher, and ranks
are finite. `NoDeadlockWithinAnOrder` gives a ranking, with the batch as gate and
files, selections and cache rows behind it, to the plan and result handlers, and
another ranking, with nothing behind a gate, to the run-sheet handlers. The two
rankings contradict one another on experiment and batch, which is what the run
`locks_mixed` shows. Handlers that are in neither group, choices of scans among
them, may run beside either; nothing is claimed of circles they are part of.

`CatalogProofs`, for the four parts of `MCCatalog`. For any number of rows, users and requests, `Baselines` and
`LayerPresets` implement `Revisions`. The invariant is the type invariant of
each module, which already relates the tables: the current revision of a row is
the length of its chain, an open request is about a row that exists. Each writing
action has one effect on one row (`SaveEffect`, `UpdateEffect`, `PromoteEffect`,
`DeleteEffect`), and a row that is written is an item that is written
(`BaseItemWritten`, `PresetItemWritten`); every step then maps to one step of
`Revisions`, or to a stutter when a row that is retired already is retired again.
That the promotion of a baseline names the last revision is where the lock on the
joined current revision is needed: the guard says that the number read first is
still current, the invariant that the current one is the last. Assumption: `None`
is no row and no item.

Its second part is the directory and the import. `DirectoryIsReviewed`: no row of either table is active
without a reviewer of the staff (`ActiveIsReviewed`, which the type invariant
completes to an inductive one), and a student sees a row only when it is active
or his own; what is exported is active in both tables, hence listed.
`ImportIsComplete`: while the layouts are under way each item of the file is
still to be looked at, committed, or in the open transaction; afterwards it is
still to be looked at or committed, and an item that was missed is one that
still is to be looked at (`Accounted`). A kill falls back to the idle phase, of
which nothing is claimed.

Its third part is `NewPlans` composed with `Baselines`, for any number of plans
made at once. `SeriesDense` is inductive together with: a transaction that has
drawn a version holds the advisory lock of its series, and one that has not has
no conditions to insert (`DrawnHoldsSeries`). Hence no two transactions have
drawn in the same campaign, and the version that is inserted is one more than
the number of plans. `SourcesSeen` says, of plans and of open transactions, that
the source is a revision that exists and that its author may see; it survives
because no step of a baseline takes it away, changes its owner, makes it personal
again or shortens its chain (`BaselineKept`, from the effects of each handler in
the first part). With the agreement of the four queries this is
`SourcesStayVisible`. `GuessesStayFlagged` rests on a lemma about the adapter
(`MaterializeFlags`): an unmarked condition was planned in full, or its size has
exactly one layout in the catalog; and on layouts being only added
(`FlaggedGrows`). Assumptions: layouts are typed, recipes are what the validation
lets through, codes are finitely many and listed, `None` is no transaction.

`CatalogTyped`, its last theorem, is the type invariant of the whole composition.
That a version stays within its bound does not follow from the versions alone: an
`add_experiment` that has passed the guard on `MaxVersion` has not drawn yet, and
others draw before it. The invariant counts them (`PlansBounded`): the plans a
campaign has and those being made for it are at most `MaxVersion` and one more for
each transaction. What the import writes is typed by `Accounted`. Assumptions
beyond those of the parts: `MaxVersion` is a number and the transactions are
finitely many, as connections are (`SeriesBounded`).

`BatchExecutionProofs`. For any number of conditions, uses, steps, preparations,
executions and substrates. `IInv` is the conjunction of the eight properties that
the runs check and of two that they need: a row with a final status has its
actual values at any time, not only at completion (`FinalIsRecorded`), and counts
are entered by completion only (`CountedAtTheEnd`), so that the members that are
there before are the planned substrates and the ones completion adds are new.
The properties lean on one another. That a merge loses no work (`PlannedOnce`)
needs that the source exists and runs the same process (`MembersGrouped`); that a
deleted row leaves no use, member or deviation behind needs `UsesGrouped` and
`DeviationTargets`; that a batch stays populated after it was declared ready
(`ReadyIsPopulated`) needs that regrouping is a matter of drafts. Each handler has
a lemma; split and merge have lemmas of their own on what moving members does to
`RunsOf` and to the set of conditions an execution spans; completion has the
longest proof, as it adds members, records counts and settles rows in one step.
The theorems are the conjuncts, from `RunSheetTyped` to `DeviationsKeepTargets`.
`TerminalStaysForGood` proves the action property `TerminalForGood`, what is left
of the immutability that finding `batch_terminal` refutes for members: the rows
themselves are final, but for the mark that a split rewrites (`FinalRowsStay`);
past the draft the groups are (`GroupsStay`), completion alone adding members; and
a closed batch takes nothing but deviations (`ClosedStays`).
Assumptions: the recipes are typed, the ids finite and distinct, `None` is no
row and no count.

`ResultAssignmentProofs`. For any files, marks, conditions, channels, and any
number of transactions that choose scans beside the one that assigns. What makes
`MarkNamesOneSubstrate`, `Provenance` and `MeasuredWithinMade` inductive is what
the open assignment holds: everything it checked when it began is still true when
it commits, because the rows of the experiment, the batch and the file are locked
(`ApplyingChecked`), and counts are entered by completion only
(`CountedAtTheEnd`). The cache needs more, since choices are made without those
locks: unless a transaction is recorded as overtaken, what it has read of a device
is what is committed now (`AssignmentCurrent`, `ReadCurrent`). From these follows
`CacheDivergesByRaceOnly`: the overlap that the run `results_race` exhibits is
the only way in which the cache goes wrong. `Derived`, the ranking of the scans of
a device, is a choice from a set, and the proof needs that a best scan exists, by
well-founded induction on finite sets of files. `DevicesStay` is an action
property, proved from `IInv`: a mark that was bound is a known mark, and a known
mark is placed where it is. Assumptions: files have finitely many scans with
efficiencies in Nat, planned counts are within `MaxCount`, `None` and the name of
the assignment are told apart from everything else.

`AccountsProofs`. For any users, tokens, requests and settings. A sign-in holds
what it read over several transactions, so the invariant must say what is still
true of it: its `password_changed_at` is one the account has or has had, and if
it is the present one then so is the hash (`SignInsStand`); this is what makes the
comparison in `create_session` sufficient, and it depends on a
`password_changed_at` never being used twice. `LimitHolds` and `LockoutEarned` are
about a history, `tries`, and follow from what relates it to the row
(`AttemptsCounted`): while an account is not locked its count is the number of
attempts since it was released, and below the limit; a lock that stands was
reached by exactly the limit; a lock that is over counts nothing. That an attempt
which read the clock before it waited leaves this true needs that no request is
dated after now (`RequestsDated`). `OneAdministratorRemains` follows from the
count under the advisory lock. Assumptions: the settings are positive,
`administrator` is a role, `None` is no row and no number.

`FoldLaws`. The induction theorems of the library take an operator as a
parameter, which the provers cannot instantiate. Here induction is stated for sets
of numbers and of sequences (`NatSetInduction`, `SeqSetInduction`), from the
well-foundedness of the naturals, and with it the equations of a fold are proved
for any `Op` and `Base`: over a sequence it starts from `Base` and takes an
appended element last (`FoldedEmpty`, `FoldedAppend`); over a set it takes a chosen
element last (`GatheredUnfolds`), any one where the order makes no difference
(`GatheredLast`), and is then the fold along any sequence that lists the set
(`GatheredAlong`). `JvAnalysisProofs` instantiates the module once for each fold of
the model, with the fold's own step.

`JvAnalysisProofs`. For any files, metrics, groups, and any number of overlapping
saves.

- `SummaryRowsAreOwn` (property `SummaryRowsAgree`): by induction over the prefixes
  of a trailing table, a row that is kept is the only one of its name with
  numbers, and the name of every other is remembered as ambiguous (`KeptAlone`).
  It is the memory of ambiguous names that makes a third row of one name harmless.
- `AnalysesAreOK`: the inductive invariant `AnalysesOK`. The stored analysis, and
  the one that each open save has read, has one device for each label of the file,
  with all of its scans or, in older shapes, none; where it has scans, the numbers
  it shows are those of its best one, or in older shapes at least have one behind
  them (`StoredOK`, `SavesOK`); and what the last
  save chose is what is stored, groups, exclusions and statistics
  (`SavedAsChosen`). That no upgrade, upload or concurrent save separates them is
  what the next two theorems need.
- `AdjustedAsReference` (property `AdjustedIsReference`): the loop that sorts
  p-values and lowers each to the one after it gives what the definition of the
  step-up adjustment gives: the sorted order is a ranking (`OrderRanks`), the
  loop computes the least bound from a rank on (`LoweredIsLeast`), and fractions are
  compared by cross-multiplication, which is an order as their denominators are
  positive (`LeqOrder`).
- `StatisticsAreConserved` (property `StatisticsConserve`): the samples of a group
  are the numbers of a set of scans, each once (`Listed`), and stay so when devices
  are joined (`ListedJoin`); sums are then sums over scans, quartiles come in order
  (`QuartilesInOrder`), and the counts of the groups add up to the devices of the
  file (`DevicesCounted`).

Assumptions: a file is a sequence of blocks and a table, with directions as
the parser reads them (`jv_parser.py:1066-1081`) and whole numbers, which stand for
the decimals of the code (`FilesAssumption`); metrics are listed once and efficiency is one of them
(`MetricsAssumption`); groups are listed (`GroupsAssumption`); `None` is no source
(`NoneIsNoSource`). TLC evaluates them in the run.

Every invariant and every action property of the passing runs is the statement of
a theorem. Out of the prover's reach, and left to TLC, is liveness
(`EveryTransactionEnds`), with the ENABLED it rests on. No module declares a
RECURSIVE operator. What section 6 lists does not hold and is not proved.

## 5. Not modelled, and what comes next

Not modelled: splitting the text of a J-V file into cells, metrics computed from
a curve, the Monte Carlo branch of the permutation test, request parsing and
recipe normalisation, exports, plots and publication figures, middleware, the
listings and the pruning of audit rows, migrations, the browser frontend,
deployment, and the recipe and strategy library, whose validators and
converters handlers call on values the models take as validated. What these
keep, if anything, no other handler decides on; what they do is string, number
or file handling.

What would come next, in this order: the codes of preparations and executions,
numbered by row count (hazard at `batch.py:1894`), beside their ids; the suffix match of labels as a property of its own
(`jv_parser.py:379`); the Monte Carlo branch as a nondeterministic p-value; and the
splitting of text into cells.

## 6. Findings

Each is a run expected to end in a violation, with the quoted line in
`PROJECT.json`:

- `plan_request_count`: an exception for a count the condition no longer has
  passes approval and release.
- `batch_terminal`: a split takes members out of an execution that is already
  completed, failed or cancelled.
- `locks_mixed`: run-sheet handlers lock the batch before the experiment and
  deadlock with uploads, which follow the documented order.
- `results_race`: the scan cache differs from the assignments after a choice and
  an assignment overlapped.

## 7. Running

In this directory: `tlc -config PlanApproval_workflow.cfg MCPlanApproval` and so
on for each run of `PROJECT.json`; `tlapm` on each of `PlanApprovalProofs.tla`,
`RowLocksProofs.tla`, `BatchExecutionProofs.tla`, `ResultAssignmentProofs.tla`,
`AccountsProofs.tla`, `CatalogProofs.tla`, `FoldLaws.tla` and
`JvAnalysisProofs.tla` (the last takes about eight minutes).
