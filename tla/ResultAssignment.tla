--------------------------- MODULE ResultAssignment ---------------------------
(* Measured J-V files of one fabrication batch: upload, the assignment of the *)
(* names in a file to conditions and of laser marks to fabricated substrates, *)
(* and the cache that keeps one representative scan for each device and scan  *)
(* direction (src/web/repository/result.py, operations/result_assignment.py). *)
(*                                                                            *)
(* An assignment holds the rows of the experiment, the batch and the file     *)
(* FOR UPDATE; choosing a representative scan holds none of them.  Both run   *)
(* at READ COMMITTED: what a statement read may be out of date when a later   *)
(* statement of the same transaction writes.  An assignment is therefore two  *)
(* steps, a choice four.  What a transaction writes shows when it commits.    *)
EXTENDS Integers, FiniteSets, FiniteSetsExt, Functions

CONSTANTS
    Conditions,   \* frozen conditions of the batch
    Planned,      \* planned_substrate_count of each
    MaxCount,     \* bound: substrates made of one condition
    Channels,     \* device_ordinals of the device layout
    Directions,   \* scan directions
    Marks,        \* names shaped like a laser mark
    PlainNames,   \* other instrument names, such as Control-1
    Files,        \* ids of result_files, handed out in order
    Pce,          \* the scans of each file: <<name, channel, direction>> to
                  \* efficiency, 0 for a scan that is not valid
    Txns,         \* transactions that set or clear a representative scan
    None          \* SQL NULL, or the absence of a row

Names == Marks \cup PlainNames
Substrates == Conditions \X (1..MaxCount)
ConditionOf(s) == s[1]
Slots == Substrates \X Channels \X Directions

ASSUME FilesType ==
    /\ Files \subseteq Nat
    /\ MaxCount \in Nat
    /\ Planned \in [Conditions -> 1..MaxCount]
    /\ \A f \in Files :
         /\ IsFiniteSet(DOMAIN Pce[f])
         /\ DOMAIN Pce[f] # {}
         /\ DOMAIN Pce[f] \subseteq Names \X Nat \X Directions
         /\ \A k \in DOMAIN Pce[f] : Pce[f][k] \in Nat

VARIABLES
    batch,       \* fabrication_batches.status
    experiment,  \* experiments.status
    actual,      \* actual_substrate_count of each condition
    shortfall,   \* conditions with a measurement shortfall not superseded
    mark,        \* substrate_mark of each substrate
    uploaded,    \* rows of result_files
    assigned,    \* the assignment of each file
    selection,   \* device_representative_scans: the file chosen for a slot
    stats,       \* device_scan_stats
    applying,    \* the assignment in progress, which holds the row locks
    txn,         \* the transactions that set or clear a choice
    overlapped,  \* history: who read a device before another commit to it
    raced        \* history: devices last written by one of overlapped

history == <<overlapped, raced>>
vars == <<batch, experiment, actual, shortfall, mark, uploaded, assigned,
          selection, stats, applying, txn, history>>

NamesOf(f) == {k[1] : k \in DOMAIN Pce[f]}
MarksOf(f) == NamesOf(f) \cap Marks

Assignment(f) == [group: [NamesOf(f) -> Conditions],
                  place: [MarksOf(f) -> Substrates]]
StatsRow == [best: Files, count: Nat \ {0}]
Change == [op: {"set", "clear"}, slot: Slots, file: Files \cup {None},
           at: {"begun", "changed", "read"}, held: BOOLEAN,
           seen: [Directions -> Files \cup {None}],
           next: [Directions -> StatsRow \cup {None}]]

ASSUME NoneIsNoRow ==
    /\ None \notin Nat \cup Marks \cup StatsRow \cup Change
    /\ \A f \in Files : None \notin Assignment(f)
ASSUME AssignmentIsNoTxn == "assignment" \notin Txns

Init ==
    /\ batch = "in_progress"
    /\ experiment = "suggested"
    /\ actual = [c \in Conditions |-> None]
    /\ shortfall = {}
    /\ mark = [s \in Substrates |-> None]
    /\ uploaded = {}
    /\ assigned = [f \in Files |-> None]
    /\ selection = [k \in Slots |-> None]
    /\ stats = [k \in Slots |-> None]
    /\ applying = None
    /\ txn = [t \in Txns |-> None]
    /\ overlapped = {}
    /\ raced = {}

-----------------------------------------------------------------------------
(* Substrates.                                                               *)

\* Completion adds rows when more substrates were made than planned.
Made(c) == IF actual[c] # None /\ actual[c] > Planned[c]
           THEN actual[c] ELSE Planned[c]
RowsOf(c) == {s \in Substrates : ConditionOf(s) = c /\ s[2] <= Made(c)}
Blank(c) == {s \in RowsOf(c) : mark[s] = None}
FirstBlank(c, n) ==
    {s \in Blank(c) : Cardinality({r \in Blank(c) : r[2] < s[2]}) < n}

\* Mutation: marks of earlier uploads are not looked up.
MarksForgotten == {}
KnownMarks == Range(mark) \ {None}

-----------------------------------------------------------------------------
(* The cache.                                                                *)

\* The scan that file f, assigned as a says, has for slot k.
HasScan(f, a, k) ==
    \E n \in MarksOf(f) :
        /\ a.place[n] = k[1]
        /\ <<n, k[2], k[3]>> \in DOMAIN Pce[f]
        /\ Pce[f][<<n, k[2], k[3]>>] > 0
Efficiency(f, a, k) ==
    LET n == CHOOSE m \in MarksOf(f) : a.place[m] = k[1]
    IN Pce[f][<<n, k[2], k[3]>>]

\* The valid scans of a slot under assignments as.
Pool(as, k) == {f \in Files : as[f] # None /\ HasScan(f, as[f], k)}

\* The highest efficiency; the earlier file wins a tie.
Better(as, k, f, g) ==
    \/ Efficiency(f, as[f], k) > Efficiency(g, as[g], k)
    \/ Efficiency(f, as[f], k) = Efficiency(g, as[g], k) /\ f < g
Best(as, k) ==
    CHOOSE f \in Pool(as, k) : \A g \in Pool(as, k) \ {f} : Better(as, k, f, g)

\* Mutation: a row without a valid scan.
DerivedWithoutScan(as, choice, k) ==
    IF Pool(as, k) = {} THEN [best |-> None, count |-> 0]
    ELSE [best |-> IF choice \in Pool(as, k) THEN choice ELSE Best(as, k),
          count |-> Cardinality(Pool(as, k))]

\* The row of slot k that assignments as and a choice give; no row without a
\* valid scan.
Derived(as, choice, k) ==
    IF Pool(as, k) = {} THEN None
    ELSE [best  |-> IF choice \in Pool(as, k) THEN choice ELSE Best(as, k),
          count |-> Cardinality(Pool(as, k))]

Stale(as, choice, k) == choice # None /\ choice \notin Pool(as, k)

-----------------------------------------------------------------------------
(* Who read a device before another commit to it.                            *)

\* What the commit of `me' to devices ds means for the others, and for what
\* the devices now hold.
NoteCommit(me, ds, readers) ==
    /\ overlapped' = (overlapped \cup readers) \ {me}
    /\ raced' = IF me \in overlapped THEN raced \cup ds ELSE raced \ ds

NoteRollBack(me) ==
    /\ overlapped' = overlapped \ {me}
    /\ UNCHANGED raced

ReadersOf(ds) ==
    {t \in Txns : /\ txn[t] # None
                  /\ txn[t].at = "read"
                  /\ <<txn[t].slot[1], txn[t].slot[2]>> \in ds}

-----------------------------------------------------------------------------
(* Handlers that take the experiment or the batch row.                       *)

Unlocked == applying = None

AddResult(f) ==
    /\ Unlocked
    /\ batch \in {"in_progress", "completed"}
    /\ f \notin uploaded
    /\ \A g \in uploaded : g < f
    /\ uploaded' = uploaded \cup {f}
    /\ UNCHANGED <<batch, experiment, actual, shortfall, mark, assigned,
                   selection, stats, applying, txn, history>>

CompleteBatch(counts) ==
    /\ Unlocked
    /\ batch = "in_progress"
    /\ batch' = "completed"
    /\ actual' = counts
    /\ UNCHANGED <<experiment, shortfall, mark, uploaded, assigned, selection,
                   stats, applying, txn, history>>

CancelBatch ==
    /\ Unlocked
    /\ batch = "in_progress"
    /\ batch' = "cancelled"
    /\ UNCHANGED <<experiment, actual, shortfall, mark, uploaded, assigned,
                   selection, stats, applying, txn, history>>

RecordShortfall(c) ==
    /\ Unlocked
    /\ batch # "cancelled"
    /\ shortfall' = shortfall \cup {c}
    /\ UNCHANGED <<batch, experiment, actual, mark, uploaded, assigned,
                   selection, stats, applying, txn, history>>

\* A later deviation of another type supersedes the shortfall.
SupersedeShortfall(c) ==
    /\ Unlocked
    /\ batch # "cancelled"
    /\ c \in shortfall
    /\ shortfall' = shortfall \ {c}
    /\ UNCHANGED <<batch, experiment, actual, mark, uploaded, assigned,
                   selection, stats, applying, txn, history>>

-----------------------------------------------------------------------------
(* Assigning a file: apply_result_assignment.                                *)

\* Foreign keys: a choice of file f not yet committed holds its row FOR KEY
\* SHARE, and a choice not yet committed holds the row of its slot.
Pins(t, f) == txn[t] # None /\ txn[t].held /\ txn[t].file = f
Holds(t, k) == txn[t] # None /\ txn[t].held /\ txn[t].slot = k

\* Mutation: only a shorter file is compared with what was made.
CountsNotExceeded(f, group) ==
    \A c \in Range(group) :
        LET n == Cardinality({m \in NamesOf(f) : group[m] = c})
        IN /\ actual[c] # None
           /\ n < actual[c] => c \in shortfall

\* Every condition named was made, at least as often as the file names it,
\* and a shorter file needs a measurement shortfall on record.
CountsAgree(f, group) ==
    \A c \in Range(group) :
        LET n == Cardinality({m \in NamesOf(f) : group[m] = c})
        IN /\ actual[c] # None
           /\ n <= actual[c]
           /\ n < actual[c] => c \in shortfall

\* Mutation: a known mark is taken in whatever condition the file gives it.
MarksPlacedAnywhere(f, group, place) ==
    /\ \A m \in MarksOf(f) \cap KnownMarks : mark[place[m]] = m
    /\ \A c \in Conditions :
         LET new == {m \in MarksOf(f) \ KnownMarks : group[m] = c}
             blanks == FirstBlank(c, Cardinality(new))
         IN /\ Cardinality(blanks) = Cardinality(new)
            /\ {place[m] : m \in new} = blanks

\* A known mark stays on its substrate, which must be of the condition the
\* file gives it; new marks take the first blank substrates of theirs.
MarksPlaced(f, group, place) ==
    /\ \A m \in MarksOf(f) \cap KnownMarks :
         mark[place[m]] = m /\ ConditionOf(place[m]) = group[m]
    /\ \A c \in Conditions :
         LET new == {m \in MarksOf(f) \ KnownMarks : group[m] = c}
             blanks == FirstBlank(c, Cardinality(new))
         IN /\ Cardinality(blanks) = Cardinality(new)
            /\ {place[m] : m \in new} = blanks

\* A marked device is found by its channel; a plain name names no device.
ChannelsKnown(f) ==
    \A k \in DOMAIN Pce[f] : k[1] \in Marks => k[2] \in Channels

\* The locks are taken, the request is checked and the choices are read.
BeginAssignment(f, a) ==
    /\ Unlocked
    /\ f \in uploaded
    /\ \A t \in Txns : ~Pins(t, f)
    /\ CountsAgree(f, a.group)
    /\ MarksPlaced(f, a.group, a.place)
    /\ ChannelsKnown(f)
    /\ applying' = [file |-> f, to |-> a, seen |-> selection]
    /\ UNCHANGED <<batch, experiment, actual, shortfall, mark, uploaded,
                   assigned, selection, stats, txn, history>>

\* Slots of the devices that an assignment of file f names.
SlotsOf(a) == {k \in Slots : a # None /\ k[1] \in Range(a.place)}

\* Mutation: only the devices the file was assigned to before.
TouchedBefore(f, a) == SlotsOf(assigned[f])
Touched(f, a) == SlotsOf(assigned[f]) \cup SlotsOf(a)

NewAssigned == [assigned EXCEPT ![applying.file] = applying.to]

\* Marks and assignment are written, the cache of every device touched is
\* rebuilt from them and from the choices read, and stale choices go.
CommitAssignment ==
    /\ applying # None
    /\ LET f == applying.file
           place == applying.to.place
           touched == Touched(f, applying.to)
           drop == {k \in touched : Stale(NewAssigned, applying.seen[k], k)}
       IN /\ \A k \in drop, t \in Txns : ~Holds(t, k)
          /\ mark' = [s \in Substrates |->
                       IF \E m \in DOMAIN place : place[m] = s
                       THEN CHOOSE m \in DOMAIN place : place[m] = s
                       ELSE mark[s]]
          /\ selection' = [k \in Slots |->
                            IF k \in drop /\ selection[k] = applying.seen[k]
                            THEN None ELSE selection[k]]
          /\ stats' = [k \in Slots |->
                        IF k \in touched
                        THEN Derived(NewAssigned, applying.seen[k], k)
                        ELSE stats[k]]
    /\ assigned' = NewAssigned
    /\ experiment' = "completed"
    /\ applying' = None
    /\ LET ds == {<<k[1], k[2]>> : k \in Touched(applying.file, applying.to)}
       IN NoteCommit("assignment", ds, ReadersOf(ds))
    /\ UNCHANGED <<batch, actual, shortfall, uploaded, txn>>

\* A deadlock victim, or a unique key of the cache taken by a concurrent
\* choice.
RollBackAssignment ==
    /\ applying # None
    /\ applying' = None
    /\ NoteRollBack("assignment")
    /\ UNCHANGED <<batch, experiment, actual, shortfall, mark, uploaded,
                   assigned, selection, stats, txn>>

-----------------------------------------------------------------------------
(* The representative scan: set_representative_scan and                      *)
(* clear_representative_scan.                                                *)

Nothing == [x \in Directions |-> None]
Slot(k, x) == <<k[1], k[2], x>>

\* The file is checked to hold a valid scan of the slot.
BeginSet(t, k, f) ==
    /\ txn[t] = None
    /\ f \in Pool(assigned, k)
    /\ txn' = [txn EXCEPT ![t] =
                [op |-> "set", slot |-> k, file |-> f, at |-> "begun",
                 held |-> FALSE, seen |-> Nothing, next |-> Nothing]]
    /\ UNCHANGED <<batch, experiment, actual, shortfall, mark, uploaded,
                   assigned, selection, stats, applying, history>>

\* The old choice is deleted and the new one inserted, which waits for other
\* choices of the slot and for an assignment of the file.
ChangeSelection(t) ==
    /\ txn[t] # None
    /\ txn[t].at = "begun"
    /\ \A u \in Txns : ~Holds(u, txn[t].slot)
    /\ applying # None => applying.file # txn[t].file
    /\ txn' = [txn EXCEPT ![t].at = "changed", ![t].held = TRUE]
    /\ UNCHANGED <<batch, experiment, actual, shortfall, mark, uploaded,
                   assigned, selection, stats, applying, history>>

\* The choice is deleted, if there is one.
BeginClear(t, k) ==
    /\ txn[t] = None
    /\ k[1] \in RowsOf(ConditionOf(k[1]))
    /\ selection[k] # None => \A u \in Txns : ~Holds(u, k)
    /\ txn' = [txn EXCEPT ![t] =
                [op |-> "clear", slot |-> k, file |-> None, at |-> "changed",
                 held |-> selection[k] # None, seen |-> Nothing,
                 next |-> Nothing]]
    /\ UNCHANGED <<batch, experiment, actual, shortfall, mark, uploaded,
                   assigned, selection, stats, applying, history>>

\* The choice of slot k as t sees it: what it has changed itself, or what is
\* committed.
Visible(t, k) ==
    IF k = txn[t].slot /\ txn[t].held THEN txn[t].file ELSE selection[k]

\* Both directions of the device are rebuilt from what is committed now.
ReadScans(t) ==
    /\ txn[t] # None
    /\ txn[t].at = "changed"
    /\ LET at(x) == Slot(txn[t].slot, x)
       IN txn' = [txn EXCEPT
                   ![t].at = "read",
                   ![t].seen = [x \in Directions |-> Visible(t, at(x))],
                   ![t].next = [x \in Directions |->
                                  Derived(assigned, Visible(t, at(x)),
                                          at(x))]]
    /\ UNCHANGED <<batch, experiment, actual, shortfall, mark, uploaded,
                   assigned, selection, stats, applying, history>>

\* Whether t found its choice, or the committed one, no longer assigned.
Dropped(t, x) ==
    /\ txn[t].seen[x] # None
    /\ txn[t].next[x] # None => txn[t].next[x].best # txn[t].seen[x]

\* The cache rows are replaced and the transaction commits.  A row names its
\* file by a foreign key, so it waits for an assignment of that file.
WriteStats(t) ==
    /\ txn[t] # None
    /\ txn[t].at = "read"
    /\ LET k == txn[t].slot
           mine == {y \in Slots : y[1] = k[1] /\ y[2] = k[2]}
       IN /\ \A x \in Directions :
               txn[t].next[x] # None /\ applying # None =>
                   txn[t].next[x].best # applying.file
          /\ stats' = [y \in Slots |->
                        IF y \in mine THEN txn[t].next[y[3]] ELSE stats[y]]
          /\ selection' =
               [y \in Slots |->
                 IF y = k /\ txn[t].held
                 THEN IF Dropped(t, y[3]) THEN None ELSE txn[t].file
                 ELSE IF /\ y \in mine
                         /\ Dropped(t, y[3])
                         /\ selection[y] = txn[t].seen[y[3]]
                 THEN None ELSE selection[y]]
    /\ txn' = [txn EXCEPT ![t] = None]
    /\ LET d == <<txn[t].slot[1], txn[t].slot[2]>>
           touched == IF applying = None THEN {}
                      ELSE Touched(applying.file, applying.to)
       IN NoteCommit(t, {d},
            (ReadersOf({d}) \ {t})
              \cup {x \in {"assignment"} :
                      \E k \in touched : <<k[1], k[2]>> = d})
    /\ UNCHANGED <<batch, experiment, actual, shortfall, mark, uploaded,
                   assigned, applying>>

\* A unique key taken by a concurrent transaction, or a deadlock.
RollBackChange(t) ==
    /\ txn[t] # None
    /\ txn' = [txn EXCEPT ![t] = None]
    /\ NoteRollBack(t)
    /\ UNCHANGED <<batch, experiment, actual, shortfall, mark, uploaded,
                   assigned, selection, stats, applying>>

-----------------------------------------------------------------------------
Next ==
    \/ \E f \in Files : AddResult(f)
    \/ \E counts \in [Conditions -> 0..MaxCount] : CompleteBatch(counts)
    \/ CancelBatch
    \/ \E c \in Conditions : RecordShortfall(c) \/ SupersedeShortfall(c)
    \/ \E f \in Files : \E a \in Assignment(f) : BeginAssignment(f, a)
    \/ CommitAssignment
    \/ RollBackAssignment
    \/ \E t \in Txns :
         \/ \E k \in Slots, f \in Files : BeginSet(t, k, f)
         \/ \E k \in Slots : BeginClear(t, k)
         \/ ChangeSelection(t)
         \/ ReadScans(t)
         \/ WriteStats(t)
         \/ RollBackChange(t)

Spec == Init /\ [][Next]_vars

-----------------------------------------------------------------------------
TypeOK ==
    /\ batch \in {"in_progress", "completed", "cancelled"}
    /\ experiment \in {"suggested", "completed"}
    /\ actual \in [Conditions -> Nat \cup {None}]
    /\ shortfall \subseteq Conditions
    /\ mark \in [Substrates -> Marks \cup {None}]
    /\ uploaded \subseteq Files
    /\ \A f \in Files : assigned[f] \in Assignment(f) \cup {None}
    /\ selection \in [Slots -> Files \cup {None}]
    /\ \A k \in Slots : stats[k] \in StatsRow \cup {None}
    /\ applying # None => applying.to \in Assignment(applying.file)
    /\ \A t \in Txns : txn[t] \in Change \cup {None}
    /\ overlapped \subseteq Txns \cup {"assignment"}
    /\ raced \subseteq Substrates \X Channels

\* "Serialize laser-mark association on the parent batch row so two concurrent
\* uploads cannot bind the same physical glass mark to two database
\* substrates within one batch" (result.py).
MarkNamesOneSubstrate ==
    \A r, s \in Substrates : mark[r] = mark[s] /\ mark[r] # None => r = s

\* Every scan of a marked substrate is stored against the substrate that
\* bears the mark, in the condition the user gave it, whichever of the files
\* of the batch brought the mark first.
Provenance ==
    \A f \in Files : assigned[f] # None =>
        \A m \in MarksOf(f) :
            LET s == assigned[f].place[m]
            IN mark[s] = m /\ ConditionOf(s) = assigned[f].group[m]

\* A file never reports more substrates of a condition than were made.
MeasuredWithinMade ==
    \A f \in Files : assigned[f] # None =>
        \A c \in Range(assigned[f].group) :
            /\ actual[c] # None
            /\ Cardinality({m \in NamesOf(f) : assigned[f].group[m] = c})
                 <= actual[c]

\* An assignment may be saved again with other groups for its plain names,
\* but its scans never move from one physical device to another.
DevicesStay ==
    [][\A f \in Files :
        assigned[f] # None => assigned'[f] # None
                           /\ assigned'[f].place = assigned[f].place]_vars

\* "Rewritten in the caller's transaction so cache and assignments never
\* diverge" (_refresh_device_scan_stats): each row of the cache is what the
\* assignments and the choices give.
CacheMatches == \A k \in Slots : stats[k] = Derived(assigned, selection[k], k)

\* The cache diverges only where a transaction wrote back what it had read
\* before another one committed to the same device; any other sequence of
\* uploads, assignments and choices leaves it exact.
CacheDivergesByRaceOnly ==
    \A k \in Slots :
        <<k[1], k[2]>> \notin raced =>
            stats[k] = Derived(assigned, selection[k], k)

=============================================================================
