------------------------------ MODULE JvParser ------------------------------
(* What the parser makes of a J-V file (src/src/web/jv_parser.py): which      *)
(* numbers each scan is given, which scans are of one device, which of them   *)
(* stands for it, and which files are refused.  A file is its scan blocks and *)
(* its trailing table; text, columns and curves are reduced to what they say. *)
EXTENDS Integers, FiniteSets, Sequences, SequencesExt

CONSTANTS Metrics,  \* the sequence of metric names, "pce" among them
          None

ASSUME NoneIsNoSource == None # "summary"

Directions == {"forward", "reverse"}

\* A record of metrics has the names that were found; none found is no record.
NoMetrics == <<>>
Found(metrics) == DOMAIN metrics # {}

\* The elements of a sequence that are in S, in their order.
Select(seq, S) ==
    FoldLeft(LAMBDA kept, x : IF x \in S THEN Append(kept, x) ELSE kept,
             <<>>, seq)

\* The identity a trace and a row of the table share: without the laser mark
\* and the channel a label wraps around it.
CanonicalStem(named) == named.stem
NameLength(named) == Len(named.stem) + (IF named.mark = None THEN 0 ELSE 1)

\* _summary_table_metrics: the rows kept, and the names that occurred twice.
RowKey(row) == <<row.mark, row.stem, row.direction, row.scan>>

\* Mutation: the names that occurred twice are not remembered.
KeepRowAgain(kept, row) ==
    LET same == {r \in kept.rows : RowKey(r) = RowKey(row)}
    IN IF ~Found(row.metrics) THEN kept
       ELSE IF same # {}
            THEN [rows |-> kept.rows \ same,
                  ambiguous |-> kept.ambiguous \cup {RowKey(row)}]
            ELSE [kept EXCEPT !.rows = @ \cup {row}]

KeepRow(kept, row) ==
    LET same == {r \in kept.rows : RowKey(r) = RowKey(row)}
    IN IF ~Found(row.metrics) \/ RowKey(row) \in kept.ambiguous THEN kept
       ELSE IF same # {}
            THEN [rows |-> kept.rows \ same,
                  ambiguous |-> kept.ambiguous \cup {RowKey(row)}]
            ELSE [kept EXCEPT !.rows = @ \cup {row}]

SummaryRows(table) ==
    FoldLeft(KeepRow, [rows |-> {}, ambiguous |-> {}], table).rows

\* _match_summary_scan: the one row of that very name, or else the longest of
\* those whose name ends the trace's or is ended by it, if one is the longest.
ExactRows(label, rows) ==
    {r \in rows : /\ r.direction = label.direction /\ r.scan = label.scan
                  /\ CanonicalStem(r) = CanonicalStem(label)}

SuffixRows(label, rows) ==
    LET near == {r \in rows :
                    /\ r.direction = label.direction
                    /\ \/ IsSuffix(CanonicalStem(r), CanonicalStem(label))
                       \/ IsSuffix(CanonicalStem(label), CanonicalStem(r))}
        numbered == {r \in near : r.scan = label.scan}
    IN IF label.scan = None THEN near
       ELSE IF numbered # {} THEN numbered ELSE {r \in near : r.scan = None}

Longest(rows) ==
    {r \in rows : \A q \in rows : NameLength(q) <= NameLength(r)}

MatchSummaryScan(label, rows) ==
    LET exact == ExactRows(label, rows)
        near == Longest(SuffixRows(label, rows))
        One(S) == Cardinality(S) = 1
        Only(S) == (CHOOSE r \in S : TRUE).metrics
    IN IF label.direction = None THEN NoMetrics
       ELSE IF One(exact) THEN Only(exact)
       ELSE IF One(near) THEN Only(near) ELSE NoMetrics

\* The instrument's numbers come first: the table, the block's [Statistic]
\* section, its info rows; the curve is the last resort.
Reported(block, rows) ==
    LET Offer(source, metrics) == [source |-> source, metrics |-> metrics]
        offers == <<Offer("summary", MatchSummaryScan(block.label, rows)),
                    Offer("section", block.section),
                    Offer("info", block.info), Offer("curve", block.curve)>>
        first == SelectInSeq(offers, LAMBDA o : Found(o.metrics))
    IN IF first = 0 THEN Offer(None, NoMetrics) ELSE offers[first]

\* _device_label: the label without its direction and scan number.
DeviceLabel(label) == [label EXCEPT !.direction = None, !.scan = None]

\* _trace_direction: the label's word, or else the way the voltage moved.
TraceDirection(block) ==
    IF block.label.direction # None THEN block.label.direction
    ELSE block.sweep

\* _trace_record: a trace without metrics is not valid.
Trace(block, rows) ==
    LET reported == Reported(block, rows)
    IN [label |-> block.label, direction |-> TraceDirection(block),
        source |-> reported.source, metrics |-> reported.metrics]

Valid(trace) == Found(trace.metrics)

Traces(file) ==
    LET rows == SummaryRows(file.table)
    IN [i \in DOMAIN file.blocks |-> Trace(file.blocks[i], rows)]

\* The substrate and channel a label names: a laser mark with an explicit
\* channel, or the instrument's own name and suffix, or nothing.
Identity(label) ==
    IF label.mark # None /\ label.channel # None
    THEN [substrate |-> <<label.mark>>, channel |-> label.channel]
    ELSE IF label.wrapped /\ Len(label.stem) > 1
    THEN [substrate |-> Front(label.stem), channel |-> Last(label.stem)]
    ELSE [substrate |-> label.stem, channel |-> None]

\* _has_higher_pce: strictly; a tie or a scan without PCE keeps the earlier.
HasHigherPce(candidate, current) ==
    /\ "pce" \in DOMAIN candidate
    /\ "pce" \in DOMAIN current => candidate["pce"] > current["pce"]

Representative(traces, direction) ==
    LET Better(best, t) ==
            IF /\ Valid(t) /\ t.direction = direction
               /\ ~Found(best) \/ HasHigherPce(t.metrics, best)
            THEN t.metrics ELSE best
    IN FoldLeft(Better, NoMetrics, traces)

\* _device_record: both directions, neither pooled nor averaged.
Directional(traces) ==
    [forward |-> Representative(traces, "forward"),
     reverse |-> Representative(traces, "reverse"),
     combined |-> NoMetrics, flat |-> NoMetrics]

DeviceRecord(label, traces) ==
    [label |-> label, substrate |-> Identity(label).substrate,
     channel |-> Identity(label).channel, group |-> None,
     excluded |-> FALSE, metrics |-> Directional(traces),
     traces |-> traces]

DeviceLabels(file) ==
    {DeviceLabel(file.blocks[i].label) : i \in DOMAIN file.blocks}

Devices(file) ==
    LET traces == Traces(file)
        OfDevice(l) == {t \in ToSet(traces) : DeviceLabel(t.label) = l}
    IN {DeviceRecord(l, Select(traces, OfDevice(l))) : l \in DeviceLabels(file)}

\* _substrate_records: one row for each substrate a device names.
Substrates(devices) == {d.substrate : d \in devices}

\* _identity_from_filename and _parse_multi_device_analysis: a file of one
\* curve needs a mark and a channel in its name; an export needs a valid trace,
\* a substrate with its channel for each device, and no device twice.
AcceptsCurve(file) ==
    LET block == file.blocks[1]
    IN /\ block.label.mark # None /\ block.label.channel # None
       /\ Found(block.curve)

AcceptsExport(file) ==
    /\ \E i \in DOMAIN file.blocks : Valid(Traces(file)[i])
    /\ \A d \in Devices(file) : d.channel # None
    /\ \A d, e \in Devices(file) :
          <<d.substrate, d.channel>> = <<e.substrate, e.channel>> => d = e

Accepts(file) == IF file.export THEN AcceptsExport(file) ELSE AcceptsCurve(file)

\* _flat_metrics_from_analysis: what the list rows show, over the valid traces
\* of the devices not excluded.
ValidTraces(device) == SelectSeq(device.traces, Valid)

FlatMetrics(devices) ==
    LET counted == {d \in devices : ~d.excluded}
        valid == UNION {ToSet(ValidTraces(d)) : d \in counted}
        pces == {t.metrics["pce"] :
                    t \in {u \in valid : "pce" \in DOMAIN u.metrics}}
    IN [best |-> IF pces = {} THEN None ELSE Max(pces),
        traces |-> MapThenSumSet(LAMBDA d : Len(d.traces), counted),
        valid |-> MapThenSumSet(LAMBDA d : Len(ValidTraces(d)), counted),
        devices |-> Cardinality(counted)]
=============================================================================
