---------------------------- MODULE JvStatistics ----------------------------
(* The statistics of a J-V analysis (src/src/web/jv_parser.py): samples and   *)
(* summaries per group, and each target compared with the control by an exact *)
(* permutation test, adjusted over the metrics.  Means are kept as sums,      *)
(* medians doubled and quartiles fourfold, so that all of it is in integers.  *)
EXTENDS JvParser

CONSTANT Groups  \* the batch conditions in order: [id, kind]

\* _device_metric_values: what a device contributes, one value per direction.
Sample(metrics, m) == IF m \in DOMAIN metrics THEN <<metrics[m]>> ELSE <<>>
DeviceValues(device, m) ==
    Sample(device.metrics.forward, m) \o Sample(device.metrics.reverse, m)

HasMetrics(device) ==
    \E d \in DOMAIN device.metrics : Found(device.metrics[d])

Assigned(devices, g) == {d \in devices : d.group = g}
Counted(devices, g) ==
    {d \in Assigned(devices, g) : HasMetrics(d) /\ ~d.excluded}

GroupValues(devices, g, m) ==
    FoldLeft(LAMBDA all, d : all \o DeviceValues(d, m), <<>>,
             SetToSeq(Counted(devices, g)))

Sum(values) == FoldLeft(LAMBDA sum, x : sum + x, 0, values)

\* sorted(), which leaves equals in their order: the rank of an element is how
\* many are not after it.
Rank(seq, i, Before(_, _)) ==
    Cardinality({j \in DOMAIN seq :
                    \/ Before(seq[j], seq[i])
                    \/ ~Before(seq[i], seq[j]) /\ j <= i})

Sorted(seq, Before(_, _)) ==
    [r \in DOMAIN seq |->
        seq[CHOOSE i \in DOMAIN seq : Rank(seq, i, Before) = r]]

\* _percentile: between the two nearest values, here four times the quartile.
Percentile(ordered, quarter) ==
    LET position == (Len(ordered) - 1) * quarter
        lower == position \div 4
        weight == position % 4
    IN IF weight = 0 THEN 4 * ordered[lower + 1]
       ELSE ordered[lower + 1] * (4 - weight) + ordered[lower + 2] * weight

Median2(ordered) ==
    LET n == Len(ordered)
    IN ordered[(n + 1) \div 2] + ordered[(n \div 2) + 1]

\* _descriptive_statistics
Describe(values) ==
    LET ordered == Sorted(values, LAMBDA a, b : a < b)
        n == Len(values)
    IN IF n = 0 THEN [n |-> 0]
       ELSE [n |-> n, sum |-> Sum(values), median2 |-> Median2(ordered),
             minimum |-> ordered[1], maximum |-> ordered[n],
             q1 |-> Percentile(ordered, 1), q3 |-> Percentile(ordered, 3),
             variance |-> n * Sum([i \in 1..n |-> values[i] * values[i]])
                            - Sum(values) * Sum(values)]

GroupRow(devices, group) ==
    [devices |-> Cardinality(Assigned(devices, group.id)),
     valid |-> Cardinality(Counted(devices, group.id)),
     excluded |->
        Cardinality({d \in Assigned(devices, group.id) : d.excluded}),
     metrics |-> [m \in ToSet(Metrics) |->
                    Describe(GroupValues(devices, group.id, m))]]

\* Fractions with a positive denominator.
Fraction(n, d) == [num |-> n, den |-> d]
Leq(p, q) == p.num * q.den <= q.num * p.den
Less(p, q) == ~Leq(q, p)
Least(p, q) == IF Leq(p, q) THEN p ELSE q
OneWhole == Fraction(1, 1)

\* _permutation_p_value: the share of the ways to draw as many values as the
\* control has whose means lie at least as far apart.
PermutationP(control, target) ==
    LET all == control \o target
        nc == Len(control)
        nt == Len(target)
        Gap(drawn) ==
            LET s == MapThenSumSet(LAMBDA i : all[i], drawn)
                gap == (Sum(all) - s) * nc - s * nt
            IN IF gap < 0 THEN -gap ELSE gap
        draws == kSubset(nc, 1..Len(all))
        extreme == {drawn \in draws : Gap(drawn) >= Gap(1..nc)}
    IN IF nc < 2 \/ nt < 2 THEN None
       ELSE Fraction(Cardinality(extreme), Cardinality(draws))

Tested(p) == Select(Metrics, {m \in ToSet(Metrics) : p[m] # None})

\* Mutation: each rank by itself, without the running minimum.
AdjustedAlone(p) ==
    LET ranked == Sorted(Tested(p), LAMBDA a, b : Less(p[a], p[b]))
        tests == Len(ranked)
        AtRank(r) == Fraction(p[ranked[r]].num * tests,
                              p[ranked[r]].den * r)
        RankOf(m) == CHOOSE r \in 1..tests : ranked[r] = m
    IN [m \in ToSet(Metrics) |->
            IF p[m] = None THEN None ELSE Least(OneWhole, AtRank(RankOf(m)))]

\* _add_benjamini_hochberg_adjustment: from the largest p-value down.
Adjusted(p) ==
    LET ranked == Sorted(Tested(p), LAMBDA a, b : Less(p[a], p[b]))
        tests == Len(ranked)
        running[r \in 1..(tests + 1)] ==
            IF r > tests THEN OneWhole
            ELSE Least(running[r + 1], Fraction(p[ranked[r]].num * tests,
                                                p[ranked[r]].den * r))
        RankOf(m) == CHOOSE r \in 1..tests : ranked[r] = m
    IN [m \in ToSet(Metrics) |->
            IF p[m] = None THEN None
            ELSE Least(OneWhole, running[RankOf(m)])]

OfKind(kind) == SelectSeq(Groups, LAMBDA g : g.kind = kind)

\* One target against the control, metric by metric.
Comparison(devices, control, target) ==
    LET c(m) == GroupValues(devices, control.id, m)
        t(m) == GroupValues(devices, target.id, m)
        p == [m \in ToSet(Metrics) |-> PermutationP(c(m), t(m))]
    IN [target |-> target.id, p |-> p, adjusted |-> Adjusted(p),
        difference |-> [m \in ToSet(Metrics) |->
            IF c(m) = <<>> \/ t(m) = <<>> THEN None
            ELSE Fraction(Sum(t(m)) * Len(c(m)) - Sum(c(m)) * Len(t(m)),
                          Len(c(m)) * Len(t(m)))]]

\* _group_statistics: without a control there are no comparisons.
GroupStatistics(devices) ==
    [groups |-> [g \in {h.id : h \in ToSet(Groups)} |->
                    GroupRow(devices, CHOOSE h \in ToSet(Groups) : h.id = g)],
     comparisons |->
        IF OfKind("control") = <<>> THEN {}
        ELSE {Comparison(devices, OfKind("control")[1], t) :
                 t \in ToSet(OfKind("target"))}]
=============================================================================
