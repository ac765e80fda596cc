---------------------------- MODULE MCJvAnalysis ----------------------------
(* J-V files for TLC.  Names are short: a wrapped label is the instrument's   *)
(* own, stem "X-1" of substrate X, with or without a mark in front.           *)
EXTENDS JvAnalysis

CONSTANT MaxTable  \* bound on the rows of the trailing table

MCMetrics == <<"voc", "jsc", "ff", "pce">>
MCGroups ==
    <<[id |-> "c", kind |-> "control"], [id |-> "t", kind |-> "target"]>>

Named(mark, stem, direction, scan) ==
    [mark |-> mark, stem |-> stem, direction |-> direction, scan |-> scan]
Label(named, channel, wrapped) ==
    named @@ [channel |-> channel, wrapped |-> wrapped]
Row(named, metrics) == named @@ [metrics |-> metrics]

Numbers(v, j, f, p) == [voc |-> v, jsc |-> j, ff |-> f, pce |-> p]
OnlyVoc(v) == [voc |-> v]
All(n) == Numbers(n, n, n, n)

Block(label, section, info, curve) ==
    [label |-> label, sweep |-> "forward", section |-> section,
     info |-> info, curve |-> curve]
Curve(label, curve) == Block(label, NoMetrics, NoMetrics, curve)

Export(blocks, table) == [export |-> TRUE, blocks |-> blocks, table |-> table]
OneCurve(block) ==
    [export |-> FALSE, blocks |-> <<block>>, table |-> <<>>]

Marked(mark, channel, direction, scan) ==
    Label(Named(mark, <<mark>>, direction, scan), channel, FALSE)
Instrument(mark, substrate, direction, scan) ==
    Label(Named(mark, <<substrate, "1">>, direction, scan), None, TRUE)

\* Five substrates of one scan each: enough for tests of two against three
\* whose p-values differ between metrics, one of them missing a value.
Compared ==
    Export(<<Curve(Marked("A", "1", "forward", None), Numbers(1, 1, 1, 1)),
             Curve(Marked("B", "1", "forward", None), Numbers(2, 3, 1, 1)),
             Curve(Marked("C", "1", "forward", None), Numbers(3, 2, 1, 4)),
             Curve(Marked("D", "1", "forward", None), Numbers(4, 4, 1, 5)),
             Curve(Marked("E", "1", "forward", None),
                   [voc |-> 5, jsc |-> 1, pce |-> 5])>>, <<>>)

\* Two devices on one substrate, one of another.  The first has two scans up of
\* equal efficiency and one down that the instrument gave no efficiency, the
\* second a scan that failed.
Scanned ==
    Export(<<Curve(Marked("A", "1", "forward", "1"), Numbers(1, 1, 1, 3)),
             Curve(Marked("A", "1", "forward", "2"), Numbers(2, 2, 2, 3)),
             Block(Marked("A", "1", "reverse", "1"), OnlyVoc(1), All(9),
                   All(2)),
             Curve(Marked("A", "1", "reverse", "2"), All(1)),
             Curve(Marked("A", "2", "forward", "1"), NoMetrics),
             Block(Marked("B", "1", None, None), NoMetrics, All(2), All(5))>>,
           <<>>)

Refused ==
    {Export(<<Curve(Instrument("A", "X", "forward", "1"), All(1)),
              Curve(Instrument("B", "X", "forward", "1"), All(2))>>, <<>>),
     Export(<<Curve(Marked("A", None, "forward", "1"), All(1))>>, <<>>),
     Export(<<Curve(Marked("A", "1", "forward", "1"), NoMetrics)>>, <<>>),
     OneCurve(Curve(Marked("A", None, "forward", None), All(1))),
     OneCurve(Curve(Marked("A", "1", "forward", None), NoMetrics))}

\* Three scans of two instrument-named devices, the stem of one of which ends
\* the other's, under every table of rows up to the bound: with the mark,
\* without it or shortened, numbered or not, some of them twice or thrice.
Reports ==
    <<Curve(Instrument("A", "X", "forward", "1"), All(1)),
      Curve(Instrument("A", "X", "forward", "2"), All(2)),
      Curve(Label(Named(None, <<"Y", "X", "1">>, "reverse", None), None, TRUE),
            All(3))>>

Rows ==
    {Row(Named("A", <<"X", "1">>, "forward", "1"), All(4)),
     Row(Named(None, <<"X", "1">>, "forward", "1"), All(5)),
     Row(Named(None, <<"X", "1">>, "forward", None), All(6)),
     Row(Named(None, <<"1">>, "forward", "2"), OnlyVoc(7)),
     Row(Named(None, <<"X", "1">>, "reverse", None), All(8)),
     Row(Named(None, <<"Y", "X", "1">>, "reverse", "1"), All(9)),
     Row(Named(None, <<"Y", "X", "1">>, "reverse", None), NoMetrics)}

Tables == UNION {[1..n -> Rows] : n \in 0..MaxTable}

MCFiles ==
    {Compared, Scanned, OneCurve(Curve(Marked("A", "1", "forward", None),
                                       All(1)))}
    \cup Refused
    \cup {Export(Reports, table) : table \in Tables}

\* Bound: the five substrates are grouped as two against three, three against
\* two, and all in the control; those of the other files are opposed.
Split(substrates, controls) ==
    [s \in substrates |-> IF s \in controls THEN "c" ELSE "t"]
Five == {<<s>> : s \in {"A", "B", "C", "D", "E"}}
MCGroupings ==
    {Split(Five, controls) :
        controls \in {{<<"A">>, <<"B">>}, {<<"A">>, <<"C">>, <<"D">>}, Five}}
    \cup {Split({<<"A">>, <<"B">>}, {<<s>>}) : s \in {"A", "B"}}
    \cup {Split({<<"X">>, <<"Y", "X">>}, {<<"X">>})}

\* Bound: two saves overlap on the file of three devices as this release parsed
\* it; the files with more than one row in the table are parsed and not saved.
Bounds ==
    LET InFlight == Cardinality({t \in Txns : saving[t] # None})
        Older == /\ stored # None
                 /\ \/ stored.version # 7
                    \/ \E d \in stored.devices :
                          Found(d.metrics.combined) \/ d.traces = <<>>
    IN /\ Len(file.table) > 1 => InFlight = 0
       /\ file = Compared \/ Older => InFlight <= 1

Symmetry == Permutations(Txns)
=============================================================================
