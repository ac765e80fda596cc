----------------------------- MODULE JvAnalysis -----------------------------
(* One J-V file from its upload to its saved analyses.  It is parsed once;    *)
(* then each save reads the stored analysis without a lock, regroups and      *)
(* excludes outside of any transaction, and writes the whole of it back, so   *)
(* that two saves may overlap.  An analysis may also have been stored by an   *)
(* earlier release, in an older shape.  Who may save, and what a save does to *)
(* marks and devices, is in ResultAssignment.                                 *)
EXTENDS JvStatistics

CONSTANTS Files,        \* the files that may be uploaded
          Groupings,    \* the ways substrates may be put into groups
          Txns,         \* saves in flight
          MaxExcluded   \* bound on the devices one save excludes

ASSUME MetricsAssumption ==
    /\ Metrics \in Seq(ToSet(Metrics)) /\ IsInjective(Metrics)
    /\ "pce" \in ToSet(Metrics)
ASSUME GroupsAssumption == Groups \in Seq(ToSet(Groups))

\* Numbers are whole, as the statistics are.
Measured(metrics) == \A m \in DOMAIN metrics : metrics[m] \in Int
ASSUME FilesAssumption ==
    \A f \in Files :
       /\ f.blocks \in Seq(ToSet(f.blocks)) /\ f.table \in Seq(ToSet(f.table))
       /\ \A b \in ToSet(f.blocks) :
             /\ TraceDirection(b) \in Directions
             /\ Measured(b.section) /\ Measured(b.info) /\ Measured(b.curve)
       /\ \A r \in ToSet(f.table) : Measured(r.metrics)
ASSUME ExcludedAssumption == MaxExcluded \in Nat

VARIABLES file,     \* the bytes uploaded
          stored,   \* result_files.analysis
          cached,   \* result_files.metrics
          saving,   \* what each save in flight has read and was given
          latest    \* the choices of the last save, for the properties

vars == <<file, stored, cached, saving, latest>>

GroupIds == {g.id : g \in ToSet(Groups)}

Init ==
    /\ file \in Files
    /\ stored = None
    /\ cached = None
    /\ saving = [t \in Txns |-> None]
    /\ latest = None

Analysis(version, devices) ==
    [version |-> version, devices |-> devices, statistics |-> None]

\* parse_jv_analysis under the upload route: a refused file leaves nothing.
Upload ==
    /\ stored = None
    /\ Accepts(file)
    /\ stored' = Analysis(7, Devices(file))
    /\ cached' = FlatMetrics(Devices(file))
    /\ latest' = None
    /\ UNCHANGED <<file, saving>>

\* The shapes of earlier releases: the first valid scan of each direction, or
\* one record for the whole device; with or without the scans themselves.
FirstOf(traces, direction) ==
    LET i == SelectInSeq(traces,
                LAMBDA t : Valid(t) /\ t.direction = direction)
    IN IF i = 0 THEN NoMetrics ELSE traces[i].metrics

FlatOf(traces) ==
    LET i == SelectInSeq(traces, Valid)
    IN IF i = 0 THEN NoMetrics ELSE traces[i].metrics

OldMetrics(version, traces) ==
    IF version = 6
    THEN [forward |-> FirstOf(traces, "forward"),
          reverse |-> FirstOf(traces, "reverse"),
          combined |-> NoMetrics, flat |-> NoMetrics]
    ELSE [forward |-> NoMetrics, reverse |-> NoMetrics,
          combined |-> NoMetrics, flat |-> FlatOf(traces)]

OldDevice(version, device, withTraces) ==
    [device EXCEPT !.metrics = OldMetrics(version, device.traces),
                   !.traces = IF withTraces THEN @ ELSE <<>>]

Inherit(version, withTraces) ==
    /\ stored = None
    /\ Accepts(file)
    /\ LET devices == {OldDevice(version, d, withTraces) : d \in Devices(file)}
       IN /\ stored' = Analysis(version, devices)
          /\ cached' = FlatMetrics(devices)
    /\ latest' = None
    /\ UNCHANGED <<file, saving>>

\* _normalize_legacy_analysis: the best scan where there are scans, what was
\* saved where there are none; a flat record remains, as a combined one.
Rebuilt(device, direction) ==
    LET best == Representative(device.traces, direction)
    IN IF Found(best) THEN best ELSE device.metrics[direction]

Upgraded(device) ==
    [device EXCEPT !.metrics =
        [forward |-> Rebuilt(device, "forward"),
         reverse |-> Rebuilt(device, "reverse"),
         combined |-> IF Found(@.flat) THEN @.flat ELSE @.combined,
         flat |-> NoMetrics]]

NormalizeLegacy(analysis) ==
    IF analysis.version \notin {5, 6} THEN analysis
    ELSE Analysis(7, {Upgraded(d) : d \in analysis.devices})

\* Mutation: a device once excluded keeps the mark on the next save.
RegroupedStill(device, choice) ==
    [device EXCEPT
        !.group = choice.group[device.substrate],
        !.excluded = @ \/ device.label \in choice.excluded]

Regrouped(device, choice) ==
    [device EXCEPT
        !.group = choice.group[device.substrate],
        !.excluded = device.label \in choice.excluded]

\* assign_substrates_to_groups: all devices of a substrate go to its group, and
\* the devices excluded are those of this save and no other.
AssignSubstrates(analysis, choice) ==
    LET devices == {Regrouped(d, choice) : d \in analysis.devices}
    IN [analysis EXCEPT !.devices = devices,
                        !.statistics = GroupStatistics(devices)]

\* save_result_analysis: every substrate is put into one of the groups, and
\* every excluded device is one of the analysis.
BeginSave(t, group, excluded) ==
    /\ saving[t] = None
    /\ stored # None
    /\ saving' = [saving EXCEPT ![t] =
            [read |-> NormalizeLegacy(stored),
             choice |-> [group |-> group, excluded |-> excluded]]]
    /\ UNCHANGED <<file, stored, cached, latest>>

\* apply_result_assignment: the analysis and the record of the list rows.
FinishSave(t) ==
    /\ saving[t] # None
    /\ LET saved == AssignSubstrates(saving[t].read, saving[t].choice)
       IN /\ stored' = saved
          /\ cached' = FlatMetrics(saved.devices)
    /\ latest' = saving[t].choice
    /\ saving' = [saving EXCEPT ![t] = None]
    /\ UNCHANGED file

\* A save that the transaction refuses leaves nothing.
RefuseSave(t) ==
    /\ saving[t] # None
    /\ saving' = [saving EXCEPT ![t] = None]
    /\ UNCHANGED <<file, stored, cached, latest>>

Save(t) ==
    \/ /\ stored # None
       /\ \E group \in Groupings :
             /\ DOMAIN group = Substrates(stored.devices)
             /\ \A s \in DOMAIN group : group[s] \in GroupIds
             /\ \E excluded \in SUBSET {d.label : d \in stored.devices} :
                   /\ Cardinality(excluded) <= MaxExcluded
                   /\ BeginSave(t, group, excluded)
    \/ FinishSave(t)
    \/ RefuseSave(t)

Next ==
    \/ Upload
    \/ \E version \in {5, 6}, withTraces \in BOOLEAN :
          Inherit(version, withTraces)
    \/ \E t \in Txns : Save(t)

Spec == Init /\ [][Next]_vars

-----------------------------------------------------------------------------

\* The scans of the file themselves, given as traces, by device.
ScansOf(traces, l) ==
    {i \in DOMAIN traces : DeviceLabel(traces[i].label) = l}

\* A scan's efficiency is no lower than another's; a scan without one is below
\* every scan with one.
AsHigh(trace, other) ==
    "pce" \in DOMAIN other.metrics =>
        /\ "pce" \in DOMAIN trace.metrics
        /\ other.metrics["pce"] <= trace.metrics["pce"]

\* The earliest of the scans of the highest efficiency, by comparing all.
BestScans(traces, l) ==
    LET valid == {i \in ScansOf(traces, l) : Valid(traces[i])}
        Rivals(i) == {j \in valid : traces[j].direction = traces[i].direction}
    IN {i \in valid : \A j \in Rivals(i) :
            /\ AsHigh(traces[i], traces[j])
            /\ AsHigh(traces[j], traces[i]) => i <= j}

IncludedScans(traces, g) ==
    LET included == {l \in DeviceLabels(file) :
                        /\ latest.group[Identity(l).substrate] = g
                        /\ l \notin latest.excluded}
    IN UNION {BestScans(traces, l) : l \in included}

WithScans == stored # None /\ \A d \in stored.devices : d.traces # <<>>

Agrees(summary, m, traces, scans) ==
    /\ summary.n = Cardinality(scans)
    /\ scans # {} =>
          /\ summary.sum =
                MapThenSumSet(LAMBDA i : traces[i].metrics[m], scans)
          /\ 4 * summary.minimum <= summary.q1
          /\ summary.q1 <= 2 * summary.median2
          /\ 2 * summary.median2 <= summary.q3
          /\ summary.q3 <= 4 * summary.maximum

\* However often, in whatever order and from whatever older shape a file is
\* saved, the statistics of a group are those of the last save's own groups and
\* exclusions: over the best scan of each direction of each device that is in
\* the group and not excluded, each counted once, no device lost (the comments
\* at jv_parser.py:1162 and :1275).
StatisticsConserve ==
    latest # None /\ WithScans =>
        LET traces == Traces(file)
            row == stored.statistics.groups
        IN /\ MapThenSumSet(LAMBDA g : row[g].devices, GroupIds)
                 = Cardinality(DeviceLabels(file))
           /\ \A g \in GroupIds :
                 LET best == IncludedScans(traces, g)
                 IN \A m \in ToSet(Metrics) :
                       Agrees(row[g].metrics[m], m, traces,
                          {i \in best : m \in DOMAIN traces[i].metrics})

\* The adjusted p-value of a metric is the least that any threshold at or above
\* its own would give: that p-value times the tests, over how many are as small.
AdjustedIsReference ==
    latest # None =>
        \A c \in stored.statistics.comparisons :
            LET tested == {m \in ToSet(Metrics) : c.p[m] # None}
                AsSmall(m) == {k \in tested : Leq(c.p[k], c.p[m])}
                At(m) == Fraction(c.p[m].num * Cardinality(tested),
                                  c.p[m].den * Cardinality(AsSmall(m)))
            IN \A m \in ToSet(Metrics) :
                  /\ m \notin tested => c.adjusted[m] = None
                  /\ m \in tested =>
                        LET above == {k \in tested : m \in AsSmall(k)}
                            a == c.adjusted[m]
                        IN /\ \A k \in above : Leq(a, At(k))
                           /\ \E k \in above : Leq(At(k), a)

Alone(j) ==
    \A k \in DOMAIN file.table :
        /\ Found(file.table[k].metrics)
        /\ RowKey(file.table[k]) = RowKey(file.table[j])
        => k = j

\* Two rows of the table under one name can not be told apart, and neither can
\* a third (the comment at jv_parser.py:323): no trace takes its numbers from
\* such a name, or from a row of the other direction or of another number.
SummaryRowsAgree ==
    stored # None => \A t \in ToSet(Traces(file)) :
        t.source = "summary" =>
            \E j \in DOMAIN file.table :
               /\ file.table[j].metrics = t.metrics
               /\ Alone(j)
               /\ file.table[j].direction = t.direction
               /\ \/ None \in {t.label.scan, file.table[j].scan}
                  \/ t.label.scan = file.table[j].scan
=============================================================================
