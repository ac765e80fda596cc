-------------------------- MODULE JvAnalysisProofs --------------------------
(* Proofs about J-V files and their statistics, for any number of scans, rows *)
(* of the table, devices, groups and saves in flight.                         *)
EXTENDS JvAnalysis, FiniteSetTheorems, SequenceTheorems,
        FunctionTheorems, WellFoundedInduction, TLAPS

-----------------------------------------------------------------------------
(* The rows of the table that are kept.                                      *)

NoRows == [rows |-> {}, ambiguous |-> {}]
KeepNext(c, kept, row) == KeepRow(kept, row)
Keeping == INSTANCE FoldLaws WITH Op <- KeepNext, Base <- NoRows

LEMMA SummaryRowsFold ==
    \A table : SummaryRows(table) = Keeping!Folded(None, table).rows
  BY Zenon DEF SummaryRows, Keeping!Folded, FoldLeft, Keeping!FoldLeft,
     MapThenFoldSet, Keeping!MapThenFoldSet, Max, Keeping!Max, KeepNext, NoRows

\* The rows with numbers that go by a name.
Named(table, key) ==
    {i \in DOMAIN table : Found(table[i].metrics) /\ RowKey(table[i]) = key}

\* A kept row is the only one of its name; any other is remembered as ambiguous.
KeptAlone(table, kept) ==
    /\ kept = [rows |-> kept.rows, ambiguous |-> kept.ambiguous]
    /\ \A r \in kept.rows :
          /\ RowKey(r) \notin kept.ambiguous
          /\ \E i \in DOMAIN table :
                table[i] = r /\ Named(table, RowKey(r)) = {i}
    /\ \A i \in DOMAIN table :
          Found(table[i].metrics) =>
              table[i] \in kept.rows \/ RowKey(table[i]) \in kept.ambiguous

LEMMA NamedAppend ==
    ASSUME NEW S, NEW table \in Seq(S), NEW row \in S, NEW key
    PROVE  Named(Append(table, row), key) =
               Named(table, key)
               \cup (IF Found(row.metrics) /\ RowKey(row) = key
                     THEN {Len(table) + 1} ELSE {})
<1> DEFINE more == Append(table, row)
           last == Len(table) + 1
<1>1. /\ DOMAIN more = DOMAIN table \cup {last}
      /\ last \notin DOMAIN table
      /\ more[last] = row
      /\ \A i \in DOMAIN table : more[i] = table[i]
  OBVIOUS
<1> HIDE DEF more, last
<1> QED
  BY <1>1 DEF Named, more, last

LEMMA KeptAloneStep ==
    ASSUME NEW S, NEW table \in Seq(S), NEW row \in S, NEW kept,
           KeptAlone(table, kept)
    PROVE  KeptAlone(Append(table, row), KeepRow(kept, row))
<1> DEFINE more == Append(table, row)
           last == Len(table) + 1
           key == RowKey(row)
           same == {r \in kept.rows : RowKey(r) = key}
<1> SUFFICES KeptAlone(more, KeepRow(kept, row))
  OBVIOUS
<1>1. /\ DOMAIN more = DOMAIN table \cup {last}
      /\ last \notin DOMAIN table
      /\ more[last] = row
      /\ \A i \in DOMAIN table : more[i] = table[i]
  OBVIOUS
<1>2. \A k : Named(more, k) =
                Named(table, k)
                \cup (IF Found(row.metrics) /\ key = k THEN {last} ELSE {})
  BY NamedAppend
<1> HIDE DEF more, last
<1>3. \A r \in kept.rows : \A i \in DOMAIN table :
          /\ table[i] = r
          /\ Named(table, RowKey(r)) = {i}
          /\ ~Found(row.metrics) \/ RowKey(r) # key
          => more[i] = r /\ Named(more, RowKey(r)) = {i}
  BY <1>1, <1>2
<1>4. ASSUME ~Found(row.metrics) \/ key \in kept.ambiguous
      PROVE  KeptAlone(more, KeepRow(kept, row))
  <2>1. KeepRow(kept, row) = kept
    BY <1>4 DEF KeepRow
  <2>2. \A r \in kept.rows : ~Found(row.metrics) \/ RowKey(r) # key
    BY <1>4 DEF KeptAlone
  <2>3. \A r \in kept.rows :
           /\ RowKey(r) \notin kept.ambiguous
           /\ \E i \in DOMAIN more :
                 more[i] = r /\ Named(more, RowKey(r)) = {i}
    BY <1>1, <1>3, <2>2 DEF KeptAlone
  <2>4. \A i \in DOMAIN more :
           Found(more[i].metrics) =>
              more[i] \in kept.rows \/ RowKey(more[i]) \in kept.ambiguous
    BY <1>1, <1>4 DEF KeptAlone
  <2>5. kept = [rows |-> kept.rows, ambiguous |-> kept.ambiguous]
    BY DEF KeptAlone
  <2> QED
    BY <2>1, <2>3, <2>4, <2>5, Zenon DEF KeptAlone
<1>6. CASE Found(row.metrics) /\ key \notin kept.ambiguous /\ same # {}
  <2> DEFINE left == [rows |-> kept.rows \ same,
                      ambiguous |-> kept.ambiguous \cup {key}]
  <2>1. KeepRow(kept, row) = left
    BY <1>6 DEF KeepRow
  <2>2. \A r \in left.rows : r \in kept.rows /\ RowKey(r) # key
    OBVIOUS
  <2>3. \A r \in left.rows :
           /\ RowKey(r) \notin left.ambiguous
           /\ \E i \in DOMAIN more :
                 more[i] = r /\ Named(more, RowKey(r)) = {i}
    BY <1>1, <1>3, <2>2 DEF KeptAlone
  <2>4. ASSUME NEW i \in DOMAIN more, Found(more[i].metrics)
        PROVE  more[i] \in left.rows \/ RowKey(more[i]) \in left.ambiguous
    <3>1. CASE i = last
      BY <1>1, <3>1
    <3>2. CASE i \in DOMAIN table
      BY <1>1, <2>4, <3>2 DEF KeptAlone
    <3> QED
      BY <1>1, <3>1, <3>2
  <2>5. left = [rows |-> left.rows, ambiguous |-> left.ambiguous]
    OBVIOUS
  <2> HIDE DEF left
  <2> QED
    BY <2>1, <2>3, <2>4, <2>5, Zenon DEF KeptAlone
<1>7. CASE Found(row.metrics) /\ key \notin kept.ambiguous /\ same = {}
  <2> DEFINE left == [rows |-> kept.rows \cup {row},
                      ambiguous |-> kept.ambiguous]
  <2>1. KeepRow(kept, row) = left
    BY <1>7 DEF KeepRow, KeptAlone
  <2>2. \A r \in kept.rows : RowKey(r) # key
    BY <1>7
  <2>3. Named(table, key) = {}
    BY <1>7, <2>2 DEF KeptAlone, Named
  <2>4. Named(more, key) = {last}
    BY <1>2, <1>7, <2>3
  <2>5. \A r \in left.rows :
           /\ RowKey(r) \notin left.ambiguous
           /\ \E i \in DOMAIN more :
                 more[i] = r /\ Named(more, RowKey(r)) = {i}
    <3>1. \A r \in kept.rows :
             /\ RowKey(r) \notin left.ambiguous
             /\ \E i \in DOMAIN more :
                   more[i] = r /\ Named(more, RowKey(r)) = {i}
      BY <1>1, <1>3, <2>2 DEF KeptAlone
    <3> QED
      BY <1>1, <1>7, <2>4, <3>1
  <2>6. \A i \in DOMAIN more :
           Found(more[i].metrics) =>
              more[i] \in left.rows \/ RowKey(more[i]) \in left.ambiguous
    BY <1>1 DEF KeptAlone
  <2>7. left = [rows |-> left.rows, ambiguous |-> left.ambiguous]
    OBVIOUS
  <2> HIDE DEF left
  <2> QED
    BY <2>1, <2>5, <2>6, <2>7, Zenon DEF KeptAlone
<1> QED
  BY <1>4, <1>6, <1>7

LEMMA KeptAloneAlways ==
    ASSUME NEW S, NEW table \in Seq(S)
    PROVE  KeptAlone(table, Keeping!Folded(None, table))
<1> DEFINE L == {t \in Seq(S) : KeptAlone(t, Keeping!Folded(None, t))}
<1>1. <<>> \in L
  <2>1. Keeping!Folded(None, <<>>) = NoRows
    BY Keeping!FoldedEmpty
  <2>2. KeptAlone(<<>>, NoRows)
    BY DEF KeptAlone, NoRows
  <2> QED
    BY <2>1, <2>2
<1>2. ASSUME NEW t \in Seq(S), NEW row \in S, t \in L
      PROVE  Append(t, row) \in L
  <2>1. Keeping!Folded(None, Append(t, row))
            = KeepRow(Keeping!Folded(None, t), row)
    BY Keeping!FoldedAppend DEF KeepNext
  <2>2. KeptAlone(t, Keeping!Folded(None, t))
    BY <1>2
  <2> QED
    BY <2>1, <2>2, KeptAloneStep
<1> HIDE DEF L
<1>3. table \in L
  BY <1>1, <1>2, Keeping!SeqSetInduction
<1> QED
  BY <1>3 DEF L

\* A row the match takes numbers from is a row of the table, alone under its
\* name, of the label's direction, and of its number or one of them without.
LEMMA MatchedRow ==
    ASSUME NEW label, NEW rows, Found(MatchSummaryScan(label, rows))
    PROVE  \E r \in rows :
              /\ r.metrics = MatchSummaryScan(label, rows)
              /\ label.direction # None
              /\ r.direction = label.direction
              /\ None \in {label.scan, r.scan} \/ label.scan = r.scan
<1> DEFINE exact == ExactRows(label, rows)
           near == Longest(SuffixRows(label, rows))
           Only(S) == (CHOOSE r \in S : TRUE)
<1>1. ~Found(NoMetrics)
  BY DEF Found, NoMetrics
<1>2. \A S : Cardinality(S) = 1 => Only(S) \in S
  BY FS_EmptySet
<1>3. \A r \in exact :
         r \in rows /\ r.direction = label.direction /\ r.scan = label.scan
  BY DEF ExactRows
<1>4. \A r \in near :
         /\ r \in rows
         /\ r.direction = label.direction
         /\ None \in {label.scan, r.scan} \/ label.scan = r.scan
  BY DEF Longest, SuffixRows
<1>5. /\ label.direction # None
      /\ \/ /\ Cardinality(exact) = 1
            /\ MatchSummaryScan(label, rows) = Only(exact).metrics
         \/ /\ Cardinality(near) = 1
            /\ MatchSummaryScan(label, rows) = Only(near).metrics
  BY <1>1 DEF MatchSummaryScan
<1> HIDE DEF exact, near, Only
<1>6. CASE /\ Cardinality(exact) = 1
           /\ MatchSummaryScan(label, rows) = Only(exact).metrics
  <2>1. Only(exact) \in exact
    BY <1>2, <1>6
  <2>2. Only(exact) \in rows
    BY <1>3, <2>1
  <2> WITNESS Only(exact) \in rows
  <2> QED
    BY <2>1, <1>3, <1>5, <1>6
<1>7. CASE /\ Cardinality(near) = 1
           /\ MatchSummaryScan(label, rows) = Only(near).metrics
  <2>1. Only(near) \in near
    BY <1>2, <1>7
  <2>2. Only(near) \in rows
    BY <1>4, <2>1
  <2> WITNESS Only(near) \in rows
  <2> QED
    BY <2>1, <1>4, <1>5, <1>7
<1> QED
  BY <1>5, <1>6, <1>7

LEMMA SomeIsMin ==
    ASSUME NEW S \in SUBSET Nat, S # {}
    PROVE  Min(S) \in S /\ \A n \in S : Min(S) <= n
<1>1. PICK s \in S : TRUE
  OBVIOUS
<1>2. \E m \in S : \A k \in S : ~(<<k, m>> \in OpToRel(<, Nat))
  BY <1>1, NatLessThanWellFounded, WFMin
<1>3. PICK m \in S : \A k \in S : ~(k < m)
  BY <1>2 DEF OpToRel
<1>4. \A k \in S : m <= k
  BY <1>3
<1> QED
  BY <1>4 DEF Min

LEMMA ReportedRow ==
    ASSUME NEW block, NEW rows, Reported(block, rows).source = "summary"
    PROVE  /\ Found(MatchSummaryScan(block.label, rows))
           /\ Reported(block, rows).metrics
                 = MatchSummaryScan(block.label, rows)
<1> DEFINE Offer(source, metrics) == [source |-> source, metrics |-> metrics]
           matched == MatchSummaryScan(block.label, rows)
           offers == <<Offer("summary", matched),
                       Offer("section", block.section),
                       Offer("info", block.info),
                       Offer("curve", block.curve)>>
           found == {i \in 1..Len(offers) : Found(offers[i].metrics)}
           first == IF found # {} THEN Min(found) ELSE 0
<1>1. Reported(block, rows) =
          IF first = 0 THEN Offer(None, NoMetrics) ELSE offers[first]
  BY Zenon DEF Reported, SelectInSeq
<1>2. Len(offers) = 4
  OBVIOUS
<1>3. \A i \in 1..4 : offers[i].source = "summary" => i = 1
  OBVIOUS
<1>4. offers[1] = Offer("summary", matched)
  OBVIOUS
<1> HIDE DEF offers
<1>5. found \subseteq 1..4
  BY <1>2
<1>6. found # {} => Min(found) \in found
  <2>1. found \in SUBSET Nat
    BY <1>5
  <2> HIDE DEF found
  <2> QED
    BY <2>1, SomeIsMin
<1>7. first # 0 /\ Reported(block, rows) = offers[first]
  BY <1>1, NoneIsNoSource
<1>8. first \in found /\ first \in 1..4
  BY <1>5, <1>6, <1>7
<1>9. first = 1
  BY <1>3, <1>7, <1>8
<1> QED
  BY <1>4, <1>7, <1>8, <1>9

\* What is laid over a trace's label and direction leaves both as they are.
LEMMA TraceFields ==
    ASSUME NEW block, NEW rows
    PROVE  /\ Trace(block, rows).label = block.label
           /\ Trace(block, rows).direction = TraceDirection(block)
           /\ Trace(block, rows).source = Reported(block, rows).source
           /\ Trace(block, rows).metrics = Reported(block, rows).metrics
  BY DEF Trace

FileGiven == file \in Files

LEMMA FileStays == Spec => []FileGiven
<1>1. Init => FileGiven
  BY DEF Init, FileGiven
<1>2. FileGiven /\ [Next]_vars => FileGiven'
  BY DEF FileGiven, Next, Save, Upload, Inherit, BeginSave, FinishSave,
     RefuseSave, vars
<1> QED
  BY <1>1, <1>2, PTL DEF Spec

LEMMA SummaryTraces ==
    ASSUME NEW f \in Files, NEW t \in ToSet(Traces(f)), t.source = "summary"
    PROVE  \E j \in DOMAIN f.table :
              /\ f.table[j].metrics = t.metrics
              /\ \A k \in DOMAIN f.table :
                    /\ Found(f.table[k].metrics)
                    /\ RowKey(f.table[k]) = RowKey(f.table[j])
                    => k = j
              /\ f.table[j].direction = t.direction
              /\ \/ None \in {t.label.scan, f.table[j].scan}
                 \/ t.label.scan = f.table[j].scan
<1> DEFINE rows == SummaryRows(f.table)
           kept == Keeping!Folded(None, f.table)
<1>1. PICK i \in DOMAIN f.blocks : t = Trace(f.blocks[i], rows)
  BY DEF Traces, ToSet
<1> DEFINE block == f.blocks[i]
<1>2. /\ t.label = block.label
      /\ t.direction = TraceDirection(block)
      /\ t.source = Reported(block, rows).source
      /\ t.metrics = Reported(block, rows).metrics
  BY <1>1, TraceFields
<1>3. KeptAlone(f.table, kept)
  BY FilesAssumption, KeptAloneAlways
<1>4. rows = kept.rows
  BY SummaryRowsFold
<1> HIDE DEF rows, kept, block
<1>5. /\ Found(MatchSummaryScan(block.label, rows))
      /\ t.metrics = MatchSummaryScan(block.label, rows)
  BY <1>2, ReportedRow
<1>6. PICK r \in rows :
         /\ r.metrics = t.metrics
         /\ block.label.direction # None
         /\ r.direction = block.label.direction
         /\ None \in {block.label.scan, r.scan} \/ block.label.scan = r.scan
  BY <1>5, MatchedRow
<1>7. PICK j \in DOMAIN f.table :
         f.table[j] = r /\ Named(f.table, RowKey(r)) = {j}
  BY <1>3, <1>4 DEF KeptAlone
<1>8. t.direction = block.label.direction
  BY <1>2, <1>6 DEF TraceDirection
<1> QED
  BY <1>2, <1>6, <1>7, <1>8 DEF Named

\* No scan takes its numbers from a row of the table whose name another row has
\* too, of another direction or of another number, whatever the table.
THEOREM SummaryRowsAreOwn == Spec => []SummaryRowsAgree
<1>1. FileGiven => SummaryRowsAgree
  BY SummaryTraces, Zenon DEF FileGiven, SummaryRowsAgree, Alone
<1> QED
  BY <1>1, FileStays, PTL

-----------------------------------------------------------------------------
(* Selecting and sorting.                                                    *)

SelectNext(S, kept, x) == IF x \in S THEN Append(kept, x) ELSE kept
Selecting == INSTANCE FoldLaws WITH Op <- SelectNext, Base <- <<>>

LEMMA SelectFold == \A S, seq : Select(seq, S) = Selecting!Folded(S, seq)
  BY Zenon DEF Select, Selecting!Folded, FoldLeft, Selecting!FoldLeft,
     MapThenFoldSet, Selecting!MapThenFoldSet, Max, Selecting!Max, SelectNext

LEMMA SelectAppend ==
    ASSUME NEW S, NEW X, NEW seq \in Seq(X), NEW x \in X
    PROVE  Select(Append(seq, x), S) =
               IF x \in S THEN Append(Select(seq, S), x) ELSE Select(seq, S)
  BY SelectFold, Selecting!FoldedAppend DEF SelectNext

\* The elements selected are those of the set, none of them twice if none was.
LEMMA SelectElements ==
    ASSUME NEW S, NEW X, NEW seq \in Seq(X)
    PROVE  /\ Select(seq, S) \in Seq(X)
           /\ ToSet(Select(seq, S)) = ToSet(seq) \cap S
           /\ IsInjective(seq) => IsInjective(Select(seq, S))
<1> DEFINE Good(s) ==
             /\ Select(s, S) \in Seq(X)
             /\ ToSet(Select(s, S)) = ToSet(s) \cap S
             /\ IsInjective(s) => IsInjective(Select(s, S))
           L == {s \in Seq(X) : Good(s)}
<1>1. <<>> \in L
  <2>1. Select(<<>>, S) = <<>>
    BY SelectFold, Selecting!FoldedEmpty
  <2>2. ToSet(<<>>) = {}
    BY DEF ToSet
  <2>3. IsInjective(<<>>)
    BY DEF IsInjective
  <2>4. <<>> \in Seq(X)
    OBVIOUS
  <2>5. {} = {} \cap S
    OBVIOUS
  <2>6. Good(<<>>)
    BY <2>1, <2>2, <2>3, <2>4, <2>5, Zenon
  <2> QED
    BY <2>4, <2>6
<1>2. ASSUME NEW s \in Seq(X), NEW x \in X, s \in L
      PROVE  Append(s, x) \in L
  <2> DEFINE more == Append(s, x)
             got == Select(s, S)
  <2> SUFFICES Good(more)
    OBVIOUS
  <2>1. /\ DOMAIN more = 1..(Len(s) + 1) /\ DOMAIN s = 1..Len(s)
        /\ more[Len(s) + 1] = x /\ \A i \in DOMAIN s : more[i] = s[i]
        /\ more \in Seq(X) /\ Len(s) \in Nat
    OBVIOUS
  <2>2. Select(more, S) = IF x \in S THEN Append(got, x) ELSE got
    BY SelectAppend
  <2>3. Good(s)
    BY <1>2
  <2> HIDE DEF more, got
  <2>4. ToSet(more) = ToSet(s) \cup {x}
    BY <2>1 DEF ToSet
  <2>5. IsInjective(more) => IsInjective(s) /\ x \notin ToSet(s)
    BY <2>1 DEF IsInjective, ToSet
  <2>6. CASE x \notin S
    <3>1. Select(more, S) = Select(s, S)
      BY <2>2, <2>6 DEF got
    <3>2. ToSet(more) \cap S = ToSet(s) \cap S
      BY <2>4, <2>6
    <3>3. IsInjective(more) => IsInjective(Select(s, S))
      BY <2>3, <2>5
    <3> QED
      BY <2>3, <3>1, <3>2, <3>3
  <2>7. CASE x \in S
    <3> DEFINE next == Append(got, x)
    <3>1. got \in Seq(X) /\ ToSet(got) = ToSet(s) \cap S
      BY <2>3 DEF got
    <3>2. /\ DOMAIN next = 1..(Len(got) + 1) /\ DOMAIN got = 1..Len(got)
          /\ next[Len(got) + 1] = x
          /\ \A i \in DOMAIN got : next[i] = got[i]
          /\ next \in Seq(X) /\ Len(got) \in Nat
      BY <3>1
    <3> HIDE DEF next
    <3>3. ToSet(next) = ToSet(got) \cup {x}
      BY <3>2 DEF ToSet
    <3>4. IsInjective(got) /\ x \notin ToSet(got) => IsInjective(next)
      BY <3>2 DEF IsInjective, ToSet
    <3>5. Select(more, S) = next
      BY <2>2, <2>7 DEF next
    <3>6. IsInjective(more) => IsInjective(next)
      BY <2>3, <2>5, <3>1, <3>4 DEF got
    <3> QED
      BY <2>4, <2>7, <3>1, <3>2, <3>3, <3>5, <3>6
  <2> QED
    BY <2>6, <2>7
<1> HIDE DEF L
<1>3. seq \in L
  BY <1>1, <1>2, Selecting!SeqSetInduction
<1> QED
  BY <1>3 DEF L

RankIn(R, n, i) == Cardinality({j \in 1..n : <<j, i>> \in R})

\* Counted along a total order, every element has a place of its own, each
\* place is taken, and the places are in the order.
LEMMA OrderRanks ==
    ASSUME NEW n \in Nat, NEW R,
           \A i \in 1..n : <<i, i>> \in R,
           \A i, j \in 1..n : <<i, j>> \in R /\ <<j, i>> \in R => i = j,
           \A i, j \in 1..n : <<i, j>> \in R \/ <<j, i>> \in R,
           \A i, j, k \in 1..n :
              <<i, j>> \in R /\ <<j, k>> \in R => <<i, k>> \in R
    PROVE  /\ \A i \in 1..n : RankIn(R, n, i) \in 1..n
           /\ \A i, j \in 1..n :
                 RankIn(R, n, i) <= RankIn(R, n, j) <=> <<i, j>> \in R
           /\ \A r \in 1..n : \E i \in 1..n : RankIn(R, n, i) = r
<1> DEFINE Below(i) == {j \in 1..n : <<j, i>> \in R}
<1>1. IsFiniteSet(1..n) /\ Cardinality(1..n) = n
  BY FS_Interval
<1>2. \A i \in 1..n : /\ Below(i) \in SUBSET (1..n)
                       /\ i \in Below(i)
                       /\ RankIn(R, n, i) = Cardinality(Below(i))
  BY DEF RankIn
<1>3. \A i, j \in 1..n : <<i, j>> \in R => Below(i) \in SUBSET Below(j)
  OBVIOUS
<1>4. \A i, j \in 1..n :
         <<i, j>> \in R /\ i # j => j \notin Below(i)
  OBVIOUS
<1> HIDE DEF Below
<1>5. ASSUME NEW i \in 1..n
      PROVE  IsFiniteSet(Below(i)) /\ RankIn(R, n, i) \in 1..n
  <2>1. IsFiniteSet(Below(i)) /\ Cardinality(Below(i)) <= n
    BY <1>1, <1>2, FS_Subset
  <2>2. Cardinality(Below(i)) \in Nat /\ Cardinality(Below(i)) # 0
    BY <1>2, <2>1, FS_CardinalityType, FS_EmptySet
  <2> QED
    BY <1>2, <2>1, <2>2
<1>6. ASSUME NEW i \in 1..n, NEW j \in 1..n, <<i, j>> \in R
      PROVE  /\ RankIn(R, n, i) <= RankIn(R, n, j)
             /\ i # j => RankIn(R, n, i) # RankIn(R, n, j)
  <2>1. /\ Cardinality(Below(i)) <= Cardinality(Below(j))
        /\ Cardinality(Below(j)) = Cardinality(Below(i)) =>
              Below(j) = Below(i)
    BY <1>3, <1>5, <1>6, FS_Subset
  <2>2. i # j => Below(i) # Below(j)
    BY <1>2, <1>4, <1>6
  <2> QED
    BY <1>2, <2>1, <2>2
<1>7. \A i, j \in 1..n :
         RankIn(R, n, i) <= RankIn(R, n, j) <=> <<i, j>> \in R
  <2> SUFFICES ASSUME NEW i \in 1..n, NEW j \in 1..n
               PROVE  RankIn(R, n, i) <= RankIn(R, n, j) <=> <<i, j>> \in R
    OBVIOUS
  <2>1. <<i, j>> \in R => RankIn(R, n, i) <= RankIn(R, n, j)
    BY <1>6
  <2>2. /\ <<j, i>> \in R /\ i # j => /\ RankIn(R, n, j) <= RankIn(R, n, i)
                                      /\ RankIn(R, n, j) # RankIn(R, n, i)
    BY <1>6
  <2>3. RankIn(R, n, i) \in 1..n /\ RankIn(R, n, j) \in 1..n
    BY <1>5
  <2>4. i = j => <<i, j>> \in R
    OBVIOUS
  <2> QED
    BY <2>1, <2>2, <2>3, <2>4
<1>8. \A r \in 1..n : \E i \in 1..n : RankIn(R, n, i) = r
  <2> DEFINE f == [i \in 1..n |-> RankIn(R, n, i)]
  <2>1. f \in [1..n -> 1..n]
    BY <1>5
  <2>2. \A i, j \in 1..n : f[i] = f[j] => i = j
    <3>1. \A i, j \in 1..n :
             RankIn(R, n, i) = RankIn(R, n, j) => i = j
      BY <1>6
    <3> QED
      BY <3>1
  <2>3. \A i \in 1..n : f[i] = RankIn(R, n, i)
    OBVIOUS
  <2> HIDE DEF f
  <2>4. f \in Injection(1..n, 1..n)
    BY <2>1, <2>2, Fun_IsInj
  <2>5. f \in Surjection(1..n, 1..n)
    BY <1>1, <2>4, FS_Injection
  <2>6. \A r \in 1..n : \E i \in 1..n : f[i] = r
    BY <2>5, Fun_SurjectionProperties
  <2> QED
    BY <2>3, <2>6
<1> QED
  BY <1>5, <1>7, <1>8

-----------------------------------------------------------------------------
(* The adjustment of the p-values.                                           *)

\* A share: what a p-value is, as long as it is not None.
Frac == [num : Nat, den : Nat \ {0}]

LEMMA LeqOrder ==
    /\ \A x, y \in Frac : Leq(x, y) \/ Leq(y, x)
    /\ \A x, y, z \in Frac : Leq(x, y) /\ Leq(y, z) => Leq(x, z)
    /\ \A x, y \in Frac : /\ Least(x, y) \in {x, y}
                           /\ Leq(Least(x, y), x) /\ Leq(Least(x, y), y)
<1> USE DEF Frac, Leq, Least
<1>1. \A x, y \in Frac : Leq(x, y) \/ Leq(y, x)
  OBVIOUS
<1>2. ASSUME NEW x \in Frac, NEW y \in Frac, NEW z \in Frac,
             Leq(x, y), Leq(y, z)
      PROVE  Leq(x, z)
  <2> DEFINE a == x.num  b == x.den  c == y.num
             d == y.den  e == z.num  f == z.den
  <2>1. /\ a \in Nat /\ b \in Nat /\ c \in Nat /\ d \in Nat /\ e \in Nat
        /\ f \in Nat /\ b > 0 /\ d > 0 /\ f > 0
    OBVIOUS
  <2>2. a * d <= c * b /\ c * f <= e * d
    BY <1>2
  <2> HIDE DEF a, b, c, d, e, f
  <2>3. (a * d) * f <= (c * b) * f /\ (c * f) * b <= (e * d) * b
    BY <2>1, <2>2
  <2>4. (a * f) * d <= (e * b) * d
    BY <2>1, <2>3
  <2>5. a * f <= e * b
    BY <2>1, <2>4
  <2> QED
    BY <2>5 DEF a, b, c, d, e, f
<1> QED
  BY <1>1, <1>2

\* The p-values so far, from the largest rank down.
Lowered(A, n, g) ==
    g = [r \in 1..(n + 1) |->
            IF r > n THEN OneWhole ELSE Least(g[r + 1], A[r])]

LEMMA LoweredExists ==
    ASSUME NEW A, NEW n \in Nat
    PROVE  \E g : Lowered(A, n, g)
<1> DEFINE Part(k, g) ==
             g = [r \in (n + 1 - k)..(n + 1) |->
                    IF r > n THEN OneWhole ELSE Least(g[r + 1], A[r])]
           L == {k \in Nat : k <= n => \E g : Part(k, g)}
<1>1. 0 \in L
  <2> DEFINE g == [r \in (n + 1)..(n + 1) |-> OneWhole]
  <2>1. Part(0, g)
    OBVIOUS
  <2> QED
    BY <2>1
<1>2. ASSUME NEW k \in Nat, k \in L
      PROVE  k + 1 \in L
  <2> SUFFICES ASSUME k + 1 <= n
               PROVE  \E g : Part(k + 1, g)
    OBVIOUS
  <2>1. PICK g : Part(k, g)
    BY <1>2
  <2> DEFINE low == n - k
             D == (n + 1 - k)..(n + 1)
             h == [r \in low..(n + 1) |->
                     IF r = low THEN Least(g[low + 1], A[low]) ELSE g[r]]
  <2>2. /\ low \in Nat /\ low <= n /\ low + 1 \in D
        /\ low..(n + 1) = (n + 1 - (k + 1))..(n + 1)
        /\ \A r \in low..(n + 1) : r # low => r \in D
        /\ \A r \in D : r \in low..(n + 1) /\ r # low
        /\ \A r \in D : r <= n => r + 1 \in D
    OBVIOUS
  <2>3. \A r \in D : h[r] = g[r]
    BY <2>2
  <2>4. ASSUME NEW r \in low..(n + 1)
        PROVE  h[r] = IF r > n THEN OneWhole ELSE Least(h[r + 1], A[r])
    <3>1. CASE r = low
      <4>1. h[low] = Least(g[low + 1], A[low])
        BY <3>1
      <4>2. ~(low > n) /\ h[low + 1] = g[low + 1]
        BY <2>2, <2>3
      <4> HIDE DEF h
      <4> QED
        BY <3>1, <4>1, <4>2
    <3>2. CASE r # low
      <4>1. r \in D /\ h[r] = g[r]
        BY <2>2, <2>3, <3>2
      <4>2. g[r] = IF r > n THEN OneWhole ELSE Least(g[r + 1], A[r])
        BY <2>1, <4>1
      <4>3. r <= n => h[r + 1] = g[r + 1]
        BY <2>2, <2>3, <4>1
      <4> HIDE DEF h
      <4> QED
        BY <4>1, <4>2, <4>3
    <3> QED
      BY <3>1, <3>2
  <2> DEFINE F(r) == IF r > n THEN OneWhole ELSE Least(h[r + 1], A[r])
  <2>5. h = [r \in low..(n + 1) |-> h[r]]
    OBVIOUS
  <2>6. \A r \in low..(n + 1) : h[r] = F(r)
    BY <2>4
  <2> HIDE DEF h
  <2>7. [r \in low..(n + 1) |-> h[r]] = [r \in low..(n + 1) |-> F(r)]
    BY <2>6
  <2>8. Part(k + 1, h)
    BY <2>2, <2>5, <2>7
  <2> QED
    BY <2>8
<1> HIDE DEF L
<1>3. n \in L
  BY <1>1, <1>2, Selecting!NatSetInduction
<1>4. (n + 1) - n = 1
  OBVIOUS
<1> QED
  BY <1>3, <1>4 DEF L, Lowered

\* What is lowered from rank r is the least of one whole and the ranks from r.
LEMMA LoweredIsLeast ==
    ASSUME NEW n \in Nat, NEW A \in [1..n -> Frac], NEW g, Lowered(A, n, g),
           NEW r \in 1..(n + 1)
    PROVE  /\ g[r] \in Frac
           /\ Leq(g[r], OneWhole)
           /\ \A q \in r..n : Leq(g[r], A[q])
           /\ g[r] = OneWhole \/ \E q \in r..n : g[r] = A[q]
<1> DEFINE Right(q) ==
             /\ g[q] \in Frac
             /\ Leq(g[q], OneWhole)
             /\ \A s \in q..n : Leq(g[q], A[s])
             /\ g[q] = OneWhole \/ \E s \in q..n : g[q] = A[s]
           L == {k \in Nat : k <= n => Right(n + 1 - k)}
<1>1. OneWhole \in Frac /\ Leq(OneWhole, OneWhole)
  BY DEF OneWhole, Fraction, Frac, Leq
<1>2. 0 \in L
  <2>1. n + 1 - 0 = n + 1 /\ n + 1 \in 1..(n + 1) /\ n + 1 > n
    OBVIOUS
  <2>2. g[n + 1] = OneWhole
    BY <2>1 DEF Lowered
  <2>3. \A s : s \notin (n + 1)..n
    OBVIOUS
  <2>4. Right(n + 1)
    BY <1>1, <2>2, <2>3
  <2> QED
    BY <2>1, <2>4
<1>3. ASSUME NEW k \in Nat, k \in L
      PROVE  k + 1 \in L
  <2> SUFFICES ASSUME k + 1 <= n
               PROVE  Right(n + 1 - (k + 1))
    OBVIOUS
  <2> DEFINE q == n - k
  <2>1. /\ n + 1 - (k + 1) = q /\ n + 1 - k = q + 1
        /\ q \in 1..n /\ q \in 1..(n + 1) /\ ~(q > n)
    OBVIOUS
  <2>2. Right(q + 1)
    BY <1>3, <2>1
  <2>3. g[q] = Least(g[q + 1], A[q])
    BY <2>1 DEF Lowered
  <2>4. A[q] \in Frac
    BY <2>1
  <2>5. /\ g[q] \in {g[q + 1], A[q]}
        /\ Leq(g[q], g[q + 1]) /\ Leq(g[q], A[q])
        /\ g[q] \in Frac
    BY <2>2, <2>3, <2>4, LeqOrder
  <2>6. Leq(g[q], OneWhole)
    BY <1>1, <2>2, <2>5, LeqOrder
  <2>7. \A s \in q..n : s = q \/ s \in (q + 1)..n
    BY <2>1
  <2>8. \A s \in (q + 1)..n : s \in 1..n /\ s \in q..n
    BY <2>1
  <2>9. \A s \in q..n : Leq(g[q], A[s])
    BY <2>2, <2>5, <2>7, <2>8, LeqOrder
  <2>10. q \in q..n
    BY <2>1
  <2>11. g[q] = OneWhole \/ \E s \in q..n : g[q] = A[s]
    BY <2>2, <2>5, <2>8, <2>10
  <2> HIDE DEF q
  <2> QED
    BY <2>1, <2>5, <2>6, <2>9, <2>11
<1> HIDE DEF L
<1>4. n + 1 - r \in L
  BY <1>2, <1>3, Selecting!NatSetInduction
<1>5. n + 1 - r <= n /\ n + 1 - (n + 1 - r) = r
  OBVIOUS
<1> QED
  BY <1>4, <1>5 DEF L

WithP(p) == {m \in ToSet(Metrics) : p[m] # None}
RankedBy(p) == Sorted(Tested(p), LAMBDA a, b : Less(p[a], p[b]))

LEMMA TestedElements ==
    ASSUME NEW p
    PROVE  /\ Tested(p) \in Seq(WithP(p))
           /\ ToSet(Tested(p)) = WithP(p)
           /\ IsInjective(Tested(p))
<1>1. /\ Tested(p) \in Seq(ToSet(Metrics))
      /\ ToSet(Tested(p)) = ToSet(Metrics) \cap WithP(p)
      /\ IsInjective(Tested(p))
  BY MetricsAssumption, SelectElements DEF Tested, WithP
<1>2. ToSet(Tested(p)) = WithP(p)
  BY <1>1 DEF WithP
<1>3. Tested(p) \in Seq(WithP(p))
  BY <1>1, <1>2 DEF ToSet
<1> QED
  BY <1>1, <1>2, <1>3

\* Ranked, each metric that has a p-value comes once, from the least up.
LEMMA RankedElements ==
    ASSUME NEW p, \A m \in WithP(p) : p[m] \in Frac
    PROVE  LET n == Len(RankedBy(p))
               at(r) == RankedBy(p)[r]
           IN /\ n \in Nat
              /\ IsFiniteSet(WithP(p)) /\ Cardinality(WithP(p)) = n
              /\ \A r \in 1..n : at(r) \in WithP(p)
              /\ \A m \in WithP(p) : \E r \in 1..n : at(r) = m
              /\ \A r, q \in 1..n : at(r) = at(q) => r = q
              /\ \A r, q \in 1..n : r <= q => Leq(p[at(r)], p[at(q)])
<1> DEFINE T == WithP(p)
           t == Tested(p)
           n == Len(t)
           ranked == RankedBy(p)
           Before(j, i) == \/ Less(p[t[j]], p[t[i]])
                           \/ ~Less(p[t[i]], p[t[j]]) /\ j <= i
           R == {ji \in (1..n) \X (1..n) : Before(ji[1], ji[2])}
           PlaceOf(r) == CHOOSE i \in 1..n : RankIn(R, n, i) = r
           place == [r \in 1..n |-> PlaceOf(r)]
<1>1. /\ t \in Seq(T) /\ n \in Nat /\ DOMAIN t = 1..n
      /\ \A m \in T : \E i \in 1..n : t[i] = m
      /\ \A i, j \in 1..n : t[i] = t[j] => i = j
  BY TestedElements DEF ToSet, IsInjective
<1>2. \A i \in 1..n : p[t[i]] \in Frac
  BY <1>1
<1>3. \A j, i \in 1..n : <<j, i>> \in R <=> Before(j, i)
  OBVIOUS
<1>4. \A i, j \in 1..n : Before(i, j) => Leq(p[t[i]], p[t[j]])
  BY <1>2, LeqOrder DEF Less
<1>5. \A i \in 1..n : Before(i, i)
  BY <1>1, <1>2, LeqOrder DEF Less
<1>6. \A i, j \in 1..n : Before(i, j) /\ Before(j, i) => i = j
  BY <1>1, <1>2, LeqOrder DEF Less
<1>7. \A i, j \in 1..n : Before(i, j) \/ Before(j, i)
  BY <1>1, <1>2, LeqOrder DEF Less
<1>8. ASSUME NEW i \in 1..n, NEW j \in 1..n, NEW k \in 1..n,
             Before(i, j), Before(j, k)
      PROVE  Before(i, k)
  <2> DEFINE x == p[t[i]]  y == p[t[j]]  z == p[t[k]]
  <2>1. x \in Frac /\ y \in Frac /\ z \in Frac
    BY <1>2
  <2>2. \/ ~Leq(y, x)
        \/ Leq(x, y) /\ i <= j
    BY <1>8 DEF Less
  <2>3. \/ ~Leq(z, y)
        \/ Leq(y, z) /\ j <= k
    BY <1>8 DEF Less
  <2> HIDE DEF x, y, z
  <2>4. ~Leq(z, x) \/ (Leq(x, z) /\ i <= k)
    <3> SUFFICES ASSUME Leq(z, x)
                 PROVE  Leq(x, z) /\ i <= k
      OBVIOUS
    <3>1. Leq(z, y) => Leq(y, z) /\ j <= k
      BY <2>3
    <3>2. Leq(y, z) \/ Leq(z, y)
      BY <2>1, LeqOrder
    <3>3. Leq(y, x)
      BY <2>1, <3>1, <3>2, LeqOrder
    <3>4. Leq(x, y) /\ i <= j
      BY <2>2, <3>3
    <3>5. Leq(z, y)
      BY <2>1, <3>4, LeqOrder
    <3>6. Leq(x, z)
      BY <2>1, <3>1, <3>4, <3>5, LeqOrder
    <3>7. i <= k
      BY <1>1, <3>1, <3>4, <3>5
    <3> QED
      BY <3>6, <3>7
  <2> QED
    BY <2>4 DEF x, y, z, Less
<1>9. \A i \in 1..n :
         Rank(t, i, LAMBDA a, b : Less(p[a], p[b])) = RankIn(R, n, i)
  <2> TAKE i \in 1..n
  <2>1. {j \in DOMAIN t : Before(j, i)} = {j \in 1..n : <<j, i>> \in R}
    BY <1>1, <1>3
  <2> HIDE DEF R
  <2> QED
    BY <2>1, Zenon DEF Rank, RankIn
<1> HIDE DEF Before
<1>10. /\ \A i \in 1..n : <<i, i>> \in R
       /\ \A i, j \in 1..n : <<i, j>> \in R /\ <<j, i>> \in R => i = j
       /\ \A i, j \in 1..n : <<i, j>> \in R \/ <<j, i>> \in R
       /\ \A i, j, k \in 1..n :
             <<i, j>> \in R /\ <<j, k>> \in R => <<i, k>> \in R
  BY <1>3, <1>5, <1>6, <1>7, <1>8
<1> HIDE DEF R, t, n
<1>11. /\ \A i \in 1..n : RankIn(R, n, i) \in 1..n
       /\ \A i, j \in 1..n :
             RankIn(R, n, i) <= RankIn(R, n, j) <=> <<i, j>> \in R
       /\ \A r \in 1..n : \E i \in 1..n : RankIn(R, n, i) = r
  BY <1>1, <1>10, OrderRanks
<1>12. \A r \in 1..n : place[r] \in 1..n /\ RankIn(R, n, place[r]) = r
  BY <1>11
<1>13. ranked = [r \in 1..n |-> t[place[r]]]
  <2> DEFINE Chosen(r) ==
               CHOOSE i \in DOMAIN t :
                  Rank(t, i, LAMBDA a, b : Less(p[a], p[b])) = r
  <2>1. ranked = [r \in DOMAIN t |-> t[Chosen(r)]]
    BY Zenon DEF RankedBy, Sorted, t
  <2>2. \A r : Chosen(r) = PlaceOf(r)
    BY <1>1, <1>9
  <2> HIDE DEF Chosen, PlaceOf, ranked
  <2>3. \A r \in 1..n : Chosen(r) = place[r]
    BY <2>2
  <2> HIDE DEF place
  <2> QED
    BY <1>1, <2>1, <2>3
<1> HIDE DEF place, ranked
<1>14. /\ ranked \in Seq(T) /\ Len(ranked) = n
       /\ \A r \in 1..n : ranked[r] = t[place[r]] /\ ranked[r] \in T
  BY <1>1, <1>12, <1>13
<1>15. \A m \in T : \E r \in 1..n : ranked[r] = m
  <2> TAKE m \in T
  <2>1. PICK i \in 1..n : t[i] = m
    BY <1>1
  <2> DEFINE r == RankIn(R, n, i)
  <2>2. r \in 1..n
    BY <1>11
  <2>3. <<i, place[r]>> \in R /\ <<place[r], i>> \in R
    <3>1. place[r] \in 1..n /\ RankIn(R, n, place[r]) = r /\ r <= r
      BY <1>1, <1>12, <2>2
    <3> QED
      BY <1>11, <3>1
  <2>4. place[r] = i
    BY <1>10, <1>12, <2>2, <2>3
  <2> QED
    BY <1>14, <2>1, <2>2, <2>4
<1>16. \A r, q \in 1..n : ranked[r] = ranked[q] => r = q
  BY <1>1, <1>12, <1>14
<1>17. \A r, q \in 1..n : r <= q => Leq(p[ranked[r]], p[ranked[q]])
  <2> SUFFICES ASSUME NEW r \in 1..n, NEW q \in 1..n, r <= q
               PROVE  Leq(p[ranked[r]], p[ranked[q]])
    OBVIOUS
  <2>1. <<place[r], place[q]>> \in R
    BY <1>11, <1>12
  <2>2. Before(place[r], place[q])
    BY <1>3, <1>12, <2>1
  <2> QED
    BY <1>4, <1>12, <1>14, <2>2
<1>18. IsFiniteSet(T) /\ Cardinality(T) = n
  <2> DEFINE f == [r \in 1..n |-> ranked[r]]
  <2>1. f \in Bijection(1..n, T)
    <3>1. f \in [1..n -> T]
      BY <1>14
    <3>2. \A r, q \in 1..n : f[r] = f[q] => r = q
      BY <1>16
    <3>3. \A m \in T : \E r \in 1..n : f[r] = m
      BY <1>15
    <3> HIDE DEF f
    <3> QED
      BY <3>1, <3>2, <3>3, Fun_IsBij
  <2>2. ExistsBijection(1..n, T)
    BY <2>1 DEF ExistsBijection
  <2>3. IsFiniteSet(1..n) /\ Cardinality(1..n) = n
    BY <1>1, FS_Interval
  <2> QED
    BY <2>2, <2>3, FS_Bijection
<1> QED
  BY <1>1, <1>14, <1>15, <1>16, <1>17, <1>18 DEF ranked

LEMMA FracScaled ==
    ASSUME NEW x \in Frac, NEW y \in Frac, Leq(x, y), NEW n \in Nat,
           NEW r \in Nat \ {0}, NEW s \in Nat \ {0}, s <= r
    PROVE  Leq(Fraction(x.num * n, x.den * r), Fraction(y.num * n, y.den * s))
<1> DEFINE a == x.num  b == x.den  c == y.num  d == y.den
<1>1. /\ a \in Nat /\ b \in Nat /\ c \in Nat /\ d \in Nat
      /\ a * d <= c * b
  BY DEF Frac, Leq
<1> HIDE DEF a, b, c, d
<1>2. n * s \in Nat /\ n * s <= n * r /\ n * r \in Nat
  OBVIOUS
<1>3. (a * d) * (n * s) <= (c * b) * (n * s)
  BY <1>1, <1>2
<1>4. (c * b) * (n * s) <= (c * b) * (n * r)
  <2>1. c * b \in Nat
    BY <1>1
  <2> DEFINE u == c * b  v == n * s  w == n * r
  <2> HIDE DEF u, v, w
  <2>2. u \in Nat /\ v \in Nat /\ w \in Nat /\ v <= w
    BY <1>2, <2>1 DEF u, v, w
  <2>3. u * v <= u * w
    BY <2>2
  <2> QED
    BY <2>3 DEF u, v, w
<1>5. (a * d) * (n * s) <= (c * b) * (n * r)
  BY <1>1, <1>2, <1>3, <1>4
<1>6. (a * n) * (d * s) <= (c * n) * (b * r)
  BY <1>1, <1>5
<1> QED
  BY <1>6 DEF Leq, Fraction, a, b, c, d

LEMMA FracTyped ==
    ASSUME NEW x \in Frac, NEW n \in Nat, NEW r \in Nat \ {0}
    PROVE  Fraction(x.num * n, x.den * r) \in Frac
<1>1. x.num \in Nat /\ x.den \in Nat /\ x.den # 0
  BY DEF Frac
<1>2. x.num * n \in Nat /\ x.den * r \in Nat /\ x.den * r # 0
  BY <1>1
<1> QED
  BY <1>2 DEF Fraction, Frac

\* An adjusted p-value is lowered from the rank its metric has.
LEMMA AdjustedUnfolds ==
    ASSUME NEW p, \A m \in WithP(p) : p[m] \in Frac
    PROVE  LET n == Len(RankedBy(p))
               at(r) == RankedBy(p)[r]
               A == [r \in 1..n |-> Fraction(p[at(r)].num * n,
                                             p[at(r)].den * r)]
           IN /\ A \in [1..n -> Frac]
              /\ \E g :
                    /\ Lowered(A, n, g)
                    /\ \A m \in ToSet(Metrics) :
                          /\ m \notin WithP(p) => Adjusted(p)[m] = None
                          /\ \A r \in 1..n :
                                at(r) = m =>
                                   Adjusted(p)[m] = Least(OneWhole, g[r])
<1> DEFINE ranked == RankedBy(p)
           n == Len(ranked)
           F(r) == Fraction(p[ranked[r]].num * n, p[ranked[r]].den * r)
           A == [r \in 1..n |-> F(r)]
           Runs(g) == g = [r \in 1..(n + 1) |->
                             IF r > n THEN OneWhole ELSE Least(g[r + 1], F(r))]
           g == CHOOSE g : Runs(g)
           RankOf(m) == CHOOSE r \in 1..n : ranked[r] = m
<1>1. /\ n \in Nat
      /\ \A r \in 1..n : ranked[r] \in WithP(p)
      /\ \A r, q \in 1..n : ranked[r] = ranked[q] => r = q
  BY RankedElements
<1>2. Adjusted(p) = [m \in ToSet(Metrics) |->
                       IF p[m] = None THEN None
                       ELSE Least(OneWhole, g[RankOf(m)])]
  BY Zenon DEF Adjusted, RankedBy
<1> HIDE DEF ranked, n
<1>3. A \in [1..n -> Frac]
  <2>1. \A r \in 1..n : F(r) \in Frac
    BY <1>1, FracTyped
  <2> HIDE DEF F
  <2> QED
    BY <2>1
<1>4. Runs(g) /\ Lowered(A, n, g)
  <2>1. PICK h : Lowered(A, n, h)
    BY <1>1, LoweredExists
  <2> HIDE DEF F
  <2>2. \A r \in 1..(n + 1) : ~(r > n) => A[r] = F(r)
    BY <1>1
  <2> HIDE DEF A
  <2>3. \A f : Lowered(A, n, f) <=> Runs(f)
    <3> TAKE f
    <3> DEFINE G(r) == IF r > n THEN OneWhole ELSE Least(f[r + 1], F(r))
               H(r) == IF r > n THEN OneWhole ELSE Least(f[r + 1], A[r])
    <3>1. \A r \in 1..(n + 1) : G(r) = H(r)
      BY <2>2
    <3> HIDE DEF G, H
    <3>2. [r \in 1..(n + 1) |-> G(r)] = [r \in 1..(n + 1) |-> H(r)]
      BY <3>1
    <3> QED
      BY <3>2 DEF Lowered, G, H
  <2> HIDE DEF Runs
  <2>4. Runs(g)
    BY <2>1, <2>3
  <2> QED
    BY <2>3, <2>4
<1> HIDE DEF g
<1>5. \A r \in 1..n : RankOf(ranked[r]) = r
  BY <1>1
<1>6. ASSUME NEW m \in ToSet(Metrics)
      PROVE  /\ m \notin WithP(p) => Adjusted(p)[m] = None
             /\ \A r \in 1..n :
                   ranked[r] = m => Adjusted(p)[m] = Least(OneWhole, g[r])
  <2> HIDE DEF RankOf
  <2>1. m \notin WithP(p) => Adjusted(p)[m] = None
    BY <1>2 DEF WithP
  <2>2. ASSUME NEW r \in 1..n, ranked[r] = m
        PROVE  Adjusted(p)[m] = Least(OneWhole, g[r])
    <3>1. p[m] # None
      BY <1>1, <2>2 DEF WithP
    <3> QED
      BY <1>2, <1>5, <2>2, <3>1
  <2> QED
    BY <2>1, <2>2
<1> QED
  BY <1>3, <1>4, <1>6 DEF ranked, n

\* A prefix-closed set of ranks is the ranks up to its size.
LEMMA DownwardRanks ==
    ASSUME NEW n \in Nat, NEW Q \in SUBSET (1..n),
           \A q \in Q : \A r \in 1..n : r <= q => r \in Q
    PROVE  /\ IsFiniteSet(Q) /\ Cardinality(Q) \in Nat /\ Cardinality(Q) <= n
           /\ Q = 1..Cardinality(Q)
<1> DEFINE c == Cardinality(Q)
<1>1. IsFiniteSet(Q) /\ c \in Nat /\ c <= n
  <2>1. IsFiniteSet(1..n) /\ Cardinality(1..n) = n
    BY FS_Interval
  <2>2. IsFiniteSet(Q) /\ c <= n
    BY <2>1, FS_Subset
  <2> QED
    BY <2>2, FS_CardinalityType
<1>2. ASSUME NEW q \in Q
      PROVE  q <= c
  <2>1. 1..q \in SUBSET Q
    OBVIOUS
  <2>2. Cardinality(1..q) = q
    BY FS_Interval
  <2>3. q <= c
    BY <1>1, <2>1, <2>2, FS_Subset
  <2> QED
    BY <2>3
<1>3. ASSUME NEW r \in 1..c, r \notin Q
      PROVE  FALSE
  <2>1. r \in 1..n
    BY <1>1
  <2>2. \A q \in Q : q < r
    BY <1>3, <2>1
  <2>3. Q \in SUBSET (1..(r - 1))
    BY <2>2
  <2>4. IsFiniteSet(1..(r - 1)) /\ Cardinality(1..(r - 1)) = r - 1
    <3>1. 1 \in Int /\ r - 1 \in Int /\ r >= 1
      BY <1>1
    <3> QED
      BY <3>1, FS_Interval
  <2>5. c <= r - 1
    BY <2>3, <2>4, FS_Subset
  <2> QED
    BY <1>1, <2>1, <2>5
<1>4. \A q \in Q : q \in 1..c
  BY <1>1, <1>2
<1> QED
  BY <1>1, <1>3, <1>4

AsSmallAs(p, m) == {k \in WithP(p) : Leq(p[k], p[m])}

\* How many p-values are as small as a metric's: those of the ranks up to that
\* count, the metric's own rank among them.
LEMMA AsSmallRanks ==
    ASSUME NEW p, \A m \in WithP(p) : p[m] \in Frac, NEW k \in WithP(p)
    PROVE  LET n == Len(RankedBy(p))
               c == Cardinality(AsSmallAs(p, k))
           IN /\ c \in 1..n
              /\ \A r \in 1..n :
                    r <= c <=> Leq(p[RankedBy(p)[r]], p[k])
<1> DEFINE ranked == RankedBy(p)
           n == Len(ranked)
           S == AsSmallAs(p, k)
           Q == {r \in 1..n : Leq(p[ranked[r]], p[k])}
<1>1. /\ n \in Nat
      /\ \A r \in 1..n : ranked[r] \in WithP(p)
      /\ \A m \in WithP(p) : \E r \in 1..n : ranked[r] = m
      /\ \A r, q \in 1..n : ranked[r] = ranked[q] => r = q
      /\ \A r, q \in 1..n : r <= q => Leq(p[ranked[r]], p[ranked[q]])
  BY RankedElements
<1> HIDE DEF ranked, n
<1>2. \A q \in Q : \A r \in 1..n : r <= q => r \in Q
  BY <1>1, LeqOrder
<1>3. Q \in SUBSET (1..n)
  OBVIOUS
<1> HIDE DEF Q
<1>4. /\ IsFiniteSet(Q) /\ Cardinality(Q) \in Nat /\ Cardinality(Q) <= n
      /\ Q = 1..Cardinality(Q)
  BY <1>1, <1>2, <1>3, DownwardRanks
<1>5. Cardinality(S) = Cardinality(Q)
  <2> DEFINE f == [r \in Q |-> ranked[r]]
  <2>1. f \in [Q -> S]
    BY <1>1 DEF Q, AsSmallAs
  <2>2. \A r, q \in Q : f[r] = f[q] => r = q
    BY <1>1, <1>3
  <2>3. \A m \in S : \E r \in Q : f[r] = m
    BY <1>1 DEF Q, AsSmallAs
  <2> HIDE DEF f
  <2>4. f \in Bijection(Q, S)
    BY <2>1, <2>2, <2>3, Fun_IsBij
  <2>5. ExistsBijection(Q, S)
    BY <2>4 DEF ExistsBijection
  <2> QED
    BY <1>4, <2>5, FS_Bijection
<1>6. PICK r \in 1..n : ranked[r] = k
  BY <1>1
<1>7. r \in Q
  BY <1>6, LeqOrder DEF Q
<1>8. Cardinality(Q) \in 1..n
  BY <1>1, <1>4, <1>7
<1>9. \A q \in 1..n : q <= Cardinality(Q) <=> Leq(p[ranked[q]], p[k])
  BY <1>1, <1>4 DEF Q
<1> QED
  BY <1>5, <1>8, <1>9 DEF ranked, n

\* The adjusted p-value is the least that a threshold at or above gives.
LEMMA AdjustedIsLeast ==
    ASSUME NEW p,
           \A m \in WithP(p) : p[m] \in Frac /\ Leq(p[m], OneWhole),
           NEW m \in WithP(p)
    PROVE  LET At(k) == Fraction(p[k].num * Cardinality(WithP(p)),
                                 p[k].den * Cardinality(AsSmallAs(p, k)))
               above == {k \in WithP(p) : m \in AsSmallAs(p, k)}
           IN /\ \A k \in above : Leq(Adjusted(p)[m], At(k))
              /\ \E k \in above : Leq(At(k), Adjusted(p)[m])
<1> DEFINE ranked == RankedBy(p)
           n == Len(ranked)
           C(k) == Cardinality(AsSmallAs(p, k))
           At(k) == Fraction(p[k].num * n, p[k].den * C(k))
           A == [r \in 1..n |-> Fraction(p[ranked[r]].num * n,
                                         p[ranked[r]].den * r)]
           a == Adjusted(p)[m]
<1>1. /\ n \in Nat /\ Cardinality(WithP(p)) = n
      /\ \A r \in 1..n : ranked[r] \in WithP(p)
      /\ \A k \in WithP(p) : \E r \in 1..n : ranked[r] = k
      /\ \A r, q \in 1..n : r <= q => Leq(p[ranked[r]], p[ranked[q]])
  BY RankedElements
<1>2. A \in [1..n -> Frac]
  BY AdjustedUnfolds
<1>3. PICK g :
         /\ Lowered(A, n, g)
         /\ \A k \in ToSet(Metrics) :
               \A r \in 1..n :
                  ranked[r] = k => Adjusted(p)[k] = Least(OneWhole, g[r])
  <2>1. \E g :
           /\ Lowered(A, n, g)
           /\ \A k \in ToSet(Metrics) :
                 /\ k \notin WithP(p) => Adjusted(p)[k] = None
                 /\ \A r \in 1..n :
                       ranked[r] = k => Adjusted(p)[k] = Least(OneWhole, g[r])
    BY AdjustedUnfolds
  <2> QED
    BY <2>1
<1>4. \A k \in WithP(p) :
         /\ C(k) \in 1..n
         /\ \A r \in 1..n : r <= C(k) <=> Leq(p[ranked[r]], p[k])
  BY AsSmallRanks
<1> HIDE DEF ranked, n, C
<1>5. PICK r \in 1..n : ranked[r] = m
  BY <1>1
<1>6. /\ g[r] \in Frac
      /\ \A q \in r..n : Leq(g[r], A[q])
      /\ g[r] = OneWhole \/ \E q \in r..n : g[r] = A[q]
  <2>1. r \in 1..(n + 1)
    BY <1>1
  <2> HIDE DEF A
  <2> QED
    BY <1>1, <1>2, <1>3, <2>1, LoweredIsLeast
<1>7. a = Least(OneWhole, g[r])
  BY <1>3, <1>5 DEF WithP
<1>8. OneWhole \in Frac
  BY DEF OneWhole, Fraction, Frac
<1>9. /\ a \in Frac /\ Leq(a, g[r]) /\ Leq(a, OneWhole)
      /\ a = OneWhole \/ \E q \in r..n : a = A[q]
  BY <1>6, <1>7, <1>8, LeqOrder
<1>10. \A k \in WithP(p) : At(k) \in Frac
  BY <1>1, <1>4, FracTyped
<1>11. \A q \in 1..n :
          A[q] = Fraction(p[ranked[q]].num * n, p[ranked[q]].den * q)
  OBVIOUS
<1> HIDE DEF A, a
<1>12. ASSUME NEW k \in WithP(p), Leq(p[m], p[k])
       PROVE  Leq(a, At(k))
  <2> DEFINE c == C(k)
  <2>1. r <= c /\ c \in 1..n
    BY <1>4, <1>5, <1>12
  <2>2. Leq(p[ranked[c]], p[k])
    BY <1>4, <2>1
  <2> HIDE DEF c
  <2>3. c \in r..n /\ c \in Nat \ {0} /\ c <= c
    BY <1>1, <2>1
  <2>4. Leq(A[c], At(k))
    BY <1>1, <1>11, <2>1, <2>2, <2>3, FracScaled DEF c
  <2>5. A[c] \in Frac
    BY <1>2, <2>1
  <2>6. Leq(a, A[c])
    BY <1>6, <1>9, <2>3, <2>5, LeqOrder
  <2> QED
    BY <1>9, <1>10, <2>4, <2>5, <2>6, LeqOrder
<1>13. \E k \in WithP(p) : Leq(p[m], p[k]) /\ Leq(At(k), a)
  <2>1. CASE a = OneWhole
    <3> DEFINE k == ranked[n]
    <3>1. n \in 1..n /\ r <= n
      BY <1>1, <1>5
    <3>2. k \in WithP(p) /\ Leq(p[m], p[k])
      BY <1>1, <1>5, <3>1
    <3>3. C(k) \in 1..n /\ n <= C(k)
      BY <1>4, <3>1, <3>2, LeqOrder
    <3>4. C(k) = n
      BY <1>1, <3>3
    <3> HIDE DEF k
    <3>5. /\ p[k].num \in Nat /\ p[k].den \in Nat
          /\ p[k].num <= p[k].den
      BY <3>2 DEF Frac, Leq, OneWhole, Fraction
    <3>6. p[k].num * n <= p[k].den * n
      BY <1>1, <3>5
    <3>7. Leq(At(k), OneWhole)
      <4>1. At(k) = Fraction(p[k].num * n, p[k].den * n)
        BY <3>4
      <4>2. p[k].num * n \in Nat /\ p[k].den * n \in Nat
        BY <1>1, <3>5
      <4> QED
        BY <3>6, <4>1, <4>2 DEF Leq, OneWhole, Fraction
    <3> QED
      BY <2>1, <3>2, <3>7
  <2>2. ASSUME NEW q \in r..n, a = A[q]
        PROVE  \E k \in WithP(p) : Leq(p[m], p[k]) /\ Leq(At(k), a)
    <3> DEFINE k == ranked[q]
    <3>1. q \in 1..n /\ r <= q /\ q \in Nat \ {0}
      BY <1>1, <1>5
    <3>2. k \in WithP(p) /\ Leq(p[m], p[k])
      BY <1>1, <1>5, <3>1
    <3>3. C(k) \in 1..n /\ q <= C(k)
      BY <1>4, <3>1, <3>2, LeqOrder
    <3>4. A[q] = Fraction(p[k].num * n, p[k].den * q)
      BY <1>11, <3>1
    <3> HIDE DEF k
    <3>5. Leq(p[k], p[k]) /\ C(k) \in Nat \ {0}
      BY <1>1, <3>2, <3>3, LeqOrder
    <3>6. Leq(At(k), A[q])
      BY <1>1, <3>1, <3>2, <3>3, <3>4, <3>5, FracScaled
    <3> QED
      BY <2>2, <3>2, <3>6
  <2> QED
    BY <1>9, <2>1, <2>2
<1>14. \A k \in WithP(p) : m \in AsSmallAs(p, k) <=> Leq(p[m], p[k])
  BY DEF AsSmallAs
<1> QED
  BY <1>1, <1>12, <1>13, <1>14 DEF a, C

-----------------------------------------------------------------------------
(* The scan that stands for a device.                                        *)

BetterNext(direction, best, t) ==
    IF /\ Valid(t) /\ t.direction = direction
       /\ ~Found(best) \/ HasHigherPce(t.metrics, best)
    THEN t.metrics ELSE best
Choosing == INSTANCE FoldLaws WITH Op <- BetterNext, Base <- NoMetrics

LEMMA RepresentativeFold ==
    \A traces, direction :
       Representative(traces, direction) = Choosing!Folded(direction, traces)
  BY Zenon DEF Representative, Choosing!Folded, FoldLeft, Choosing!FoldLeft,
     MapThenFoldSet, Choosing!MapThenFoldSet, Max, Choosing!Max, BetterNext

\* The valid scans of a direction among those of a set, and the earliest of the
\* highest efficiency.
Rated(S, direction, t) ==
    {i \in DOMAIN t :
        t[i] \in S /\ Valid(t[i]) /\ t[i].direction = direction}
Tops(S, direction, t) ==
    {i \in Rated(S, direction, t) :
        \A j \in Rated(S, direction, t) :
           AsHigh(t[i], t[j]) /\ (AsHigh(t[j], t[i]) => i <= j)}

LEMMA AsHighOrder ==
    ASSUME NEW X, \A t \in X : Measured(t.metrics)
    PROVE  /\ \A t, u \in X : AsHigh(t, u) \/ AsHigh(u, t)
           /\ \A t \in X : AsHigh(t, t)
           /\ \A t, u, v \in X : AsHigh(t, u) /\ AsHigh(u, v) => AsHigh(t, v)
  BY DEF AsHigh, Measured

LEMMA HigherIsNotAsHigh ==
    ASSUME NEW t, NEW u, Measured(t.metrics), Measured(u.metrics)
    PROVE  HasHigherPce(t.metrics, u.metrics) <=> ~AsHigh(u, t)
  BY DEF HasHigherPce, AsHigh, Measured

\* What a fold over the scans selected has chosen so far.
Chosen(S, direction, t, best) ==
    \/ ~Found(best) /\ Rated(S, direction, t) = {}
    \/ /\ Found(best)
       /\ \E i \in DOMAIN t : best = t[i].metrics
                              /\ Tops(S, direction, t) = {i}

LEMMA ChosenStep ==
    ASSUME NEW X, \A t \in X : Measured(t.metrics),
           NEW t \in Seq(X), NEW u \in X, NEW S, NEW direction, NEW best,
           Chosen(S, direction, t, best)
    PROVE  Chosen(S, direction, Append(t, u),
                  IF u \in S THEN BetterNext(direction, best, u) ELSE best)
<1> DEFINE more == Append(t, u)
           last == Len(t) + 1
           old == Rated(S, direction, t)
           rated == Rated(S, direction, more)
           counts == u \in S /\ Valid(u) /\ u.direction = direction
           next == IF u \in S THEN BetterNext(direction, best, u) ELSE best
<1> SUFFICES Chosen(S, direction, more, next)
  OBVIOUS
<1>1. /\ DOMAIN more = DOMAIN t \cup {last}
      /\ last \notin DOMAIN t
      /\ more[last] = u
      /\ \A i \in DOMAIN t : more[i] = t[i] /\ t[i] \in X /\ i < last
      /\ DOMAIN t \subseteq Nat /\ last \in Nat
  OBVIOUS
<1>2. next = IF counts /\ (~Found(best) \/ HasHigherPce(u.metrics, best))
             THEN u.metrics ELSE best
  BY DEF BetterNext
<1> HIDE DEF more, last, next
<1>3. rated = IF counts THEN old \cup {last} ELSE old
  BY <1>1 DEF Rated
<1>4. old \subseteq DOMAIN t
  BY DEF Rated
<1>5. \A i \in old : more[i] = t[i]
  BY <1>1, <1>4
<1>6. Tops(S, direction, more) =
         {i \in rated : \A j \in rated :
             AsHigh(more[i], more[j]) /\ (AsHigh(more[j], more[i]) => i <= j)}
  BY DEF Tops
<1>7. Tops(S, direction, t) =
         {i \in old : \A j \in old :
             AsHigh(t[i], t[j]) /\ (AsHigh(t[j], t[i]) => i <= j)}
  BY DEF Tops
<1>8. counts => Found(u.metrics)
  BY DEF Valid
<1> HIDE DEF old, rated
<1>9. CASE ~counts
  <2>1. rated = old /\ next = best
    BY <1>2, <1>3, <1>9
  <2>2. Tops(S, direction, more) = Tops(S, direction, t)
    BY <1>5, <1>6, <1>7, <2>1
  <2> QED
    BY <1>1, <1>4, <1>5, <2>1, <2>2 DEF Chosen, rated, old
<1>10. CASE counts /\ ~Found(best)
  <2>1. old = {}
    BY <1>10 DEF Chosen, old
  <2>2. rated = {last} /\ next = u.metrics
    BY <1>2, <1>3, <1>10, <2>1
  <2>3. AsHigh(u, u) /\ last <= last
    BY <1>1, AsHighOrder
  <2>4. Tops(S, direction, more) = {last}
    BY <1>1, <1>6, <2>2, <2>3
  <2> QED
    BY <1>1, <1>8, <1>10, <2>2, <2>4 DEF Chosen
<1>11. CASE counts /\ Found(best)
  <2>1. PICK i \in DOMAIN t :
           best = t[i].metrics /\ Tops(S, direction, t) = {i}
    BY <1>11 DEF Chosen
  <2>2. /\ i \in old
        /\ \A j \in old : AsHigh(t[i], t[j]) /\ (AsHigh(t[j], t[i]) => i <= j)
    BY <1>7, <2>1
  <2>3. HasHigherPce(u.metrics, best) <=> ~AsHigh(t[i], u)
    BY <1>1, <2>1, HigherIsNotAsHigh
  <2>4. \A j \in old : t[j] \in X /\ j < last /\ j \in Nat
    BY <1>1, <1>4
  <2>5. rated = old \cup {last}
    BY <1>3, <1>11
  <2>6. AsHigh(u, u) /\ AsHigh(t[i], t[i]) /\ last <= last
    BY <1>1, AsHighOrder
  <2>7. CASE AsHigh(t[i], u)
    <3>1. next = best
      BY <1>2, <1>11, <2>3, <2>7
    <3>2. i \in Tops(S, direction, more)
      BY <1>1, <1>5, <1>6, <2>2, <2>4, <2>5, <2>7
    <3>3. last \notin Tops(S, direction, more)
      <4>1. ~(last <= i)
        BY <2>2, <2>4, <1>1
      <4> QED
        BY <1>1, <1>5, <1>6, <2>2, <2>5, <2>7, <4>1
    <3>4. \A j \in old : j \in Tops(S, direction, more) => j = i
      BY <1>5, <1>6, <1>7, <2>1, <2>5
    <3>5. Tops(S, direction, more) = {i}
      BY <1>6, <2>5, <3>2, <3>3, <3>4
    <3> QED
      BY <1>1, <1>11, <2>1, <3>1, <3>5 DEF Chosen
  <2>8. CASE ~AsHigh(t[i], u)
    <3>1. next = u.metrics
      BY <1>2, <1>11, <2>3, <2>8
    <3>2. AsHigh(u, t[i])
      BY <2>2, <2>4, <2>8, AsHighOrder
    <3>3. \A j \in old : AsHigh(u, t[j])
      BY <2>2, <2>4, <3>2, AsHighOrder
    <3>4. \A j \in old : ~AsHigh(t[j], u)
      BY <2>2, <2>4, <2>8, AsHighOrder
    <3>5. last \in Tops(S, direction, more)
      BY <1>1, <1>5, <1>6, <2>5, <2>6, <3>3, <3>4
    <3>6. \A j \in old : j \notin Tops(S, direction, more)
      BY <1>1, <1>5, <1>6, <2>5, <3>4
    <3>7. Tops(S, direction, more) = {last}
      BY <1>6, <2>5, <3>5, <3>6
    <3> QED
      BY <1>1, <1>8, <1>11, <3>1, <3>7 DEF Chosen
  <2> QED
    BY <2>7, <2>8
<1> QED
  BY <1>9, <1>10, <1>11

\* The scan that represents a direction is the earliest of the highest.
LEMMA RepresentativeIsTop ==
    ASSUME NEW X, \A t \in X : Measured(t.metrics),
           NEW traces \in Seq(X), NEW S, NEW direction
    PROVE  Chosen(S, direction, traces,
                  Representative(Select(traces, S), direction))
<1> DEFINE Good(t) ==
             Chosen(S, direction, t, Representative(Select(t, S), direction))
           L == {t \in Seq(X) : Good(t)}
<1>1. <<>> \in L
  <2>1. Select(<<>>, S) = <<>>
    BY SelectFold, Selecting!FoldedEmpty
  <2>2. Representative(<<>>, direction) = NoMetrics
    BY RepresentativeFold, Choosing!FoldedEmpty
  <2>3. ~Found(NoMetrics) /\ Rated(S, direction, <<>>) = {}
    BY DEF Found, NoMetrics, Rated
  <2>4. Chosen(S, direction, <<>>, NoMetrics)
    BY <2>3 DEF Chosen
  <2> QED
    BY <2>1, <2>2, <2>4
<1>2. ASSUME NEW t \in Seq(X), NEW u \in X, t \in L
      PROVE  Append(t, u) \in L
  <2> DEFINE best == Representative(Select(t, S), direction)
  <2>1. Chosen(S, direction, t, best)
    BY <1>2
  <2>2. Select(t, S) \in Seq(X)
    BY SelectElements
  <2>3. Select(Append(t, u), S) =
           IF u \in S THEN Append(Select(t, S), u) ELSE Select(t, S)
    BY SelectAppend
  <2>4. Representative(Append(Select(t, S), u), direction)
           = BetterNext(direction, best, u)
    BY <2>2, RepresentativeFold, Choosing!FoldedAppend
  <2>5. Representative(Select(Append(t, u), S), direction)
           = IF u \in S THEN BetterNext(direction, best, u) ELSE best
    BY <2>3, <2>4
  <2> HIDE DEF best
  <2>6. Good(Append(t, u))
    BY <2>1, <2>5, ChosenStep
  <2> QED
    BY <2>6
<1> HIDE DEF L
<1>3. traces \in L
  BY <1>1, <1>2, Choosing!SeqSetInduction
<1> QED
  BY <1>3 DEF L

-----------------------------------------------------------------------------
(* The scans of a file.                                                      *)

LEMMA ReportedMetrics ==
    ASSUME NEW block, NEW rows
    PROVE  Reported(block, rows).metrics \in
              {MatchSummaryScan(block.label, rows), block.section, block.info,
               block.curve, NoMetrics}
<1> DEFINE Offer(source, metrics) == [source |-> source, metrics |-> metrics]
           matched == MatchSummaryScan(block.label, rows)
           offers == <<Offer("summary", matched),
                       Offer("section", block.section),
                       Offer("info", block.info),
                       Offer("curve", block.curve)>>
           found == {i \in 1..Len(offers) : Found(offers[i].metrics)}
           first == IF found # {} THEN Min(found) ELSE 0
<1>1. Reported(block, rows) =
          IF first = 0 THEN Offer(None, NoMetrics) ELSE offers[first]
  BY Zenon DEF Reported, SelectInSeq
<1>2. Len(offers) = 4
  OBVIOUS
<1>3. \A i \in 1..4 :
         offers[i].metrics \in {matched, block.section, block.info, block.curve}
  OBVIOUS
<1> HIDE DEF offers
<1>4. found \subseteq 1..4
  BY <1>2
<1>5. found # {} => Min(found) \in found
  <2>1. found \in SUBSET Nat
    BY <1>4
  <2> HIDE DEF found
  <2> QED
    BY <2>1, SomeIsMin
<1>6. first # 0 => first \in 1..4
  BY <1>4, <1>5
<1> HIDE DEF first
<1> QED
  BY <1>1, <1>3, <1>6

\* The scans of a file are as many as its blocks, in whole numbers and one of
\* the two directions.
LEMMA TracesTyped ==
    ASSUME NEW f \in Files
    PROVE  /\ Traces(f) \in Seq(ToSet(Traces(f)))
           /\ DOMAIN Traces(f) = DOMAIN f.blocks
           /\ \A i \in DOMAIN f.blocks : Traces(f)[i].label = f.blocks[i].label
           /\ \A t \in ToSet(Traces(f)) :
                 Measured(t.metrics) /\ t.direction \in Directions
<1> DEFINE rows == SummaryRows(f.table)
           F(i) == Trace(f.blocks[i], rows)
           kept == Keeping!Folded(None, f.table)
<1>1. /\ f.blocks \in Seq(ToSet(f.blocks)) /\ f.table \in Seq(ToSet(f.table))
      /\ \A b \in ToSet(f.blocks) :
            /\ TraceDirection(b) \in Directions
            /\ Measured(b.section) /\ Measured(b.info) /\ Measured(b.curve)
      /\ \A r \in ToSet(f.table) : Measured(r.metrics)
  BY FilesAssumption
<1>2. Traces(f) = [i \in DOMAIN f.blocks |-> F(i)]
  BY Zenon DEF Traces
<1>3. \A i \in DOMAIN f.blocks : f.blocks[i] \in ToSet(f.blocks)
  BY DEF ToSet
<1>4. \A r \in rows : Measured(r.metrics)
  <2>1. KeptAlone(f.table, kept) /\ rows = kept.rows
    BY <1>1, KeptAloneAlways, SummaryRowsFold
  <2>2. \A r \in rows : \E i \in DOMAIN f.table : f.table[i] = r
    BY <2>1 DEF KeptAlone
  <2> HIDE DEF rows, kept
  <2> QED
    BY <1>1, <2>2 DEF ToSet
<1>5. Measured(NoMetrics)
  BY DEF Measured, NoMetrics
<1> HIDE DEF rows
<1>6. ASSUME NEW i \in DOMAIN f.blocks
      PROVE  /\ F(i).label = f.blocks[i].label
             /\ Measured(F(i).metrics) /\ F(i).direction \in Directions
  <2> DEFINE b == f.blocks[i]
  <2>1. /\ F(i).label = b.label
        /\ F(i).direction = TraceDirection(b)
        /\ F(i).metrics = Reported(b, rows).metrics
    BY TraceFields
  <2>2. Measured(MatchSummaryScan(b.label, rows))
    <3>1. CASE Found(MatchSummaryScan(b.label, rows))
      BY <1>4, <3>1, MatchedRow
    <3>2. CASE ~Found(MatchSummaryScan(b.label, rows))
      BY <3>2 DEF Found, Measured
    <3> QED
      BY <3>1, <3>2
  <2>3. b \in ToSet(f.blocks)
    BY <1>3
  <2> HIDE DEF F, b
  <2>4. Measured(F(i).metrics)
    BY <1>1, <1>5, <2>1, <2>2, <2>3, ReportedMetrics
  <2> QED
    BY <1>1, <2>1, <2>3, <2>4 DEF b
<1> HIDE DEF F
<1>7. DOMAIN f.blocks = 1..Len(f.blocks) /\ Len(f.blocks) \in Nat
  BY <1>1
<1>8. /\ DOMAIN Traces(f) = DOMAIN f.blocks
      /\ \A i \in DOMAIN f.blocks : Traces(f)[i] = F(i)
  BY <1>2
<1>9. Traces(f) \in Seq(ToSet(Traces(f)))
  <2> DEFINE T == ToSet(Traces(f))
             n == Len(f.blocks)
  <2>1. \A i \in 1..n : F(i) \in T
    BY <1>7, <1>8 DEF ToSet
  <2>2. Traces(f) = [i \in 1..n |-> F(i)]
    BY <1>2, <1>7
  <2> HIDE DEF T
  <2>3. Traces(f) \in Seq(T)
    BY <1>7, <2>1, <2>2
  <2> QED
    BY <2>3 DEF T
<1>10. \A t \in ToSet(Traces(f)) :
          Measured(t.metrics) /\ t.direction \in Directions
  BY <1>6, <1>8 DEF ToSet
<1> QED
  BY <1>6, <1>8, <1>9, <1>10

OfDevice(f, l) == {t \in ToSet(Traces(f)) : DeviceLabel(t.label) = l}
Own(f, l) == Select(Traces(f), OfDevice(f, l))

\* The numbers a device has for a direction are those of its best scan.
LEMMA RepresentativeOfDevice ==
    ASSUME NEW f \in Files, NEW l, NEW direction
    PROVE  Chosen(OfDevice(f, l), direction, Traces(f),
                  Representative(Own(f, l), direction))
  BY TracesTyped, RepresentativeIsTop DEF Own

\* The best scans of a device are those of its two directions.
LEMMA BestScansAreTops ==
    ASSUME NEW f \in Files, NEW l
    PROVE  BestScans(Traces(f), l) =
              UNION {Tops(OfDevice(f, l), x, Traces(f)) : x \in Directions}
<1> DEFINE T == Traces(f)
           valid == {i \in ScansOf(T, l) : Valid(T[i])}
           S == OfDevice(f, l)
<1>1. \A i \in DOMAIN T : T[i] \in ToSet(T) /\ T[i].direction \in Directions
  BY TracesTyped DEF ToSet
<1>2. \A i \in DOMAIN T : T[i] \in S <=> DeviceLabel(T[i].label) = l
  BY <1>1 DEF OfDevice
<1> HIDE DEF T, S
<1>3. \A x : Rated(S, x, T) = {i \in valid : T[i].direction = x}
  BY <1>2 DEF Rated, ScansOf
<1>4. BestScans(T, l) =
         {i \in valid :
            \A j \in {k \in valid : T[k].direction = T[i].direction} :
               AsHigh(T[i], T[j]) /\ (AsHigh(T[j], T[i]) => i <= j)}
  BY Zenon DEF BestScans
<1>5. \A i \in valid : T[i].direction \in Directions
  BY <1>1 DEF ScansOf
<1> HIDE DEF valid
<1>6. \A i : i \in BestScans(T, l)
             <=> i \in UNION {Tops(S, x, T) : x \in Directions}
  BY <1>3, <1>4, <1>5 DEF Tops
<1> QED
  BY <1>6 DEF T, S

-----------------------------------------------------------------------------
(* What a stored analysis is, of whatever release.                           *)

SameMetrics(a, b) == a = b \/ (~Found(a) /\ ~Found(b))

\* Where a device has its scans its numbers are those of the best of each
\* direction, or in an older shape found only where that is.
NumbersOK(version, metrics, traces) ==
    traces # <<>> =>
        \A x \in Directions :
           LET best == Representative(traces, x)
           IN IF version = 7 THEN SameMetrics(metrics[x], best)
              ELSE Found(metrics[x]) => Found(best)

\* A device has all the scans of its label or none.
DeviceOK(f, version, d) ==
    /\ d = [label |-> d.label, substrate |-> Identity(d.label).substrate,
            channel |-> d.channel, group |-> d.group, excluded |-> d.excluded,
            metrics |-> d.metrics, traces |-> d.traces]
    /\ d.label \in DeviceLabels(f)
    /\ d.excluded \in BOOLEAN
    /\ d.metrics = [forward |-> d.metrics.forward,
                    reverse |-> d.metrics.reverse,
                    combined |-> d.metrics.combined, flat |-> d.metrics.flat]
    /\ d.traces \in {<<>>, Own(f, d.label)}
    /\ NumbersOK(version, d.metrics, d.traces)

\* One device for each label of the file, and no other.
AnalysisOK(f, a) ==
    /\ a = [version |-> a.version, devices |-> a.devices,
            statistics |-> a.statistics]
    /\ a.version \in {5, 6, 7}
    /\ \A d \in a.devices : DeviceOK(f, a.version, d)
    /\ \A l \in DeviceLabels(f) : \E d \in a.devices : d.label = l
    /\ \A d, e \in a.devices : d.label = e.label => d = e

LEMMA DeviceFields ==
    ASSUME NEW f, NEW version, NEW d, NEW l \in DeviceLabels(f), NEW channel,
           NEW group, NEW excluded \in BOOLEAN, NEW metrics, NEW traces,
           d = [label |-> l, substrate |-> Identity(l).substrate,
                channel |-> channel, group |-> group, excluded |-> excluded,
                metrics |-> metrics, traces |-> traces],
           metrics = [forward |-> metrics.forward, reverse |-> metrics.reverse,
                      combined |-> metrics.combined, flat |-> metrics.flat],
           traces \in {<<>>, Own(f, l)},
           NumbersOK(version, metrics, traces)
    PROVE  DeviceOK(f, version, d) /\ d.label = l
<1>1. /\ d.label = l /\ d.channel = channel /\ d.group = group
      /\ d.excluded = excluded /\ d.metrics = metrics /\ d.traces = traces
  OBVIOUS
<1>2. /\ d = [label |-> d.label, substrate |-> Identity(d.label).substrate,
              channel |-> d.channel, group |-> d.group,
              excluded |-> d.excluded, metrics |-> d.metrics,
              traces |-> d.traces]
  BY <1>1
<1>3. /\ d.excluded \in BOOLEAN /\ d.label \in DeviceLabels(f)
      /\ d.traces \in {<<>>, Own(f, d.label)}
      /\ NumbersOK(version, d.metrics, d.traces)
      /\ d.metrics = [forward |-> d.metrics.forward,
                      reverse |-> d.metrics.reverse,
                      combined |-> d.metrics.combined, flat |-> d.metrics.flat]
  BY <1>1
<1> QED
  BY <1>1, <1>2, <1>3, Zenon DEF DeviceOK

LEMMA ParsedOK == \A f : AnalysisOK(f, Analysis(7, Devices(f)))
<1> TAKE f
<1> DEFINE D(l) == DeviceRecord(l, Own(f, l))
           a == Analysis(7, Devices(f))
<1>1. Devices(f) = {D(l) : l \in DeviceLabels(f)}
  BY Zenon DEF Devices, Own, OfDevice
<1>2. \A l \in DeviceLabels(f) : DeviceOK(f, 7, D(l)) /\ D(l).label = l
  <2> TAKE l \in DeviceLabels(f)
  <2> DEFINE own == Own(f, l)
  <2> DEFINE metrics == Directional(own)
  <2>1. D(l) = [label |-> l, substrate |-> Identity(l).substrate,
                channel |-> Identity(l).channel, group |-> None,
                excluded |-> FALSE, metrics |-> metrics, traces |-> own]
    BY Zenon DEF DeviceRecord
  <2>2. /\ metrics = [forward |-> metrics.forward,
                      reverse |-> metrics.reverse,
                      combined |-> metrics.combined, flat |-> metrics.flat]
        /\ NumbersOK(7, metrics, own)
    BY DEF Directions, SameMetrics, NumbersOK, Directional
  <2> HIDE DEF D, own, metrics
  <2>3. own \in {<<>>, Own(f, l)}
    BY DEF own
  <2> QED
    BY <2>1, <2>2, <2>3, DeviceFields
<1>3. /\ a.version = 7 /\ a.devices = {D(l) : l \in DeviceLabels(f)}
      /\ a = [version |-> a.version, devices |-> a.devices,
              statistics |-> a.statistics]
  BY <1>1 DEF Analysis
<1> HIDE DEF D, a
<1> QED
  BY <1>2, <1>3 DEF AnalysisOK, a

\* Rewriting each device under its own label keeps one for each.
LEMMA RewrittenOK ==
    ASSUME NEW f, NEW a, AnalysisOK(f, a), NEW F, NEW version \in {5, 6, 7},
           NEW statistics, NEW devices,
           devices = {F[d] : d \in a.devices},
           \A d \in a.devices :
              DeviceOK(f, version, F[d]) /\ F[d].label = d.label
    PROVE  AnalysisOK(f, [version |-> version, devices |-> devices,
                          statistics |-> statistics])
<1> DEFINE b == [version |-> version, devices |-> devices,
                 statistics |-> statistics]
<1>1. /\ b.version = version /\ b.devices = devices
      /\ b = [version |-> b.version, devices |-> b.devices,
              statistics |-> b.statistics]
  OBVIOUS
<1> HIDE DEF b
<1>2. \A d \in b.devices : DeviceOK(f, b.version, d)
  BY <1>1
<1>3. \A l \in DeviceLabels(f) : \E d \in b.devices : d.label = l
  BY <1>1 DEF AnalysisOK
<1>4. \A d, e \in b.devices : d.label = e.label => d = e
  BY <1>1 DEF AnalysisOK
<1> QED
  BY <1>1, <1>2, <1>3, <1>4 DEF AnalysisOK, b

\* A valid scan in a direction means that one is found for it.
LEMMA FirstIsFound ==
    ASSUME NEW f \in Files, NEW l, NEW x \in Directions,
           Found(FirstOf(Own(f, l), x))
    PROVE  Found(Representative(Own(f, l), x))
<1> DEFINE own == Own(f, l)
           T == Traces(f)
           found == {i \in 1..Len(own) :
                        Valid(own[i]) /\ own[i].direction = x}
           first == IF found # {} THEN Min(found) ELSE 0
<1>1. FirstOf(own, x) = IF first = 0 THEN NoMetrics ELSE own[first].metrics
  BY Zenon DEF FirstOf, SelectInSeq
<1>2. ~Found(NoMetrics)
  BY DEF Found, NoMetrics
<1>3. found # {}
  BY <1>1, <1>2
<1>4. PICK i \in 1..Len(own) : Valid(own[i]) /\ own[i].direction = x
  BY <1>3
<1>5. own \in Seq(ToSet(T)) /\ ToSet(own) = ToSet(T) \cap OfDevice(f, l)
  BY TracesTyped, SelectElements DEF Own
<1> HIDE DEF own, found, first
<1>6. own[i] \in ToSet(own)
  BY <1>4, <1>5 DEF ToSet
<1>7. PICK k \in DOMAIN T : T[k] = own[i] /\ T[k] \in OfDevice(f, l)
  BY <1>5, <1>6 DEF ToSet
<1>8. k \in Rated(OfDevice(f, l), x, T)
  BY <1>4, <1>7 DEF Rated
<1> QED
  BY <1>8, RepresentativeOfDevice DEF Chosen, own

LEMMA InheritedOK ==
    ASSUME NEW f \in Files, NEW version \in {5, 6}, NEW withTraces \in BOOLEAN
    PROVE  AnalysisOK(f, Analysis(version,
                            {OldDevice(version, d, withTraces) :
                                d \in Devices(f)}))
<1> DEFINE a == Analysis(7, Devices(f))
           F == [d \in Devices(f) |-> OldDevice(version, d, withTraces)]
<1>1. AnalysisOK(f, a) /\ a.devices = Devices(f)
  BY ParsedOK DEF Analysis
<1>2. \A d \in Devices(f) : F[d] = OldDevice(version, d, withTraces)
  OBVIOUS
<1> HIDE DEF F
<1>3. {OldDevice(version, d, withTraces) : d \in Devices(f)}
         = {F[d] : d \in Devices(f)}
  BY <1>2
<1>4. \A d \in Devices(f) :
         DeviceOK(f, version, F[d]) /\ F[d].label = d.label
  <2> TAKE d \in Devices(f)
  <2> DEFINE l == d.label
             own == Own(f, l)
             old == OldMetrics(version, own)
             traces == IF withTraces THEN own ELSE <<>>
  <2>1. /\ DeviceOK(f, 7, d) /\ d.traces = own
        /\ l \in DeviceLabels(f)
    <3>1. PICK k \in DeviceLabels(f) : d = DeviceRecord(k, Own(f, k))
      BY Zenon DEF Devices, Own, OfDevice
    <3>2. d.label = k /\ d.traces = Own(f, k)
      BY <3>1 DEF DeviceRecord
    <3>3. DeviceOK(f, 7, d)
      BY <1>1 DEF AnalysisOK, Analysis
    <3> QED
      BY <3>2, <3>3
  <2>2. F[d] = [label |-> l, substrate |-> Identity(l).substrate,
                channel |-> d.channel, group |-> d.group,
                excluded |-> d.excluded, metrics |-> old,
                traces |-> traces]
    <3>1. F[d] = [d EXCEPT !.metrics = old, !.traces = traces]
      BY <1>2, <2>1 DEF OldDevice
    <3>2. d = [label |-> l, substrate |-> Identity(l).substrate,
               channel |-> d.channel, group |-> d.group,
               excluded |-> d.excluded, metrics |-> d.metrics,
               traces |-> d.traces]
      BY <2>1 DEF DeviceOK
    <3> HIDE DEF old, traces, l
    <3> DEFINE e == [d EXCEPT !.metrics = old]
    <3>3. e = [label |-> l, substrate |-> Identity(l).substrate,
               channel |-> d.channel, group |-> d.group,
               excluded |-> d.excluded, metrics |-> old,
               traces |-> d.traces]
      BY <3>2
    <3>4. F[d] = [e EXCEPT !.traces = traces]
      BY <3>1
    <3> HIDE DEF e
    <3> QED
      BY <3>3, <3>4
  <2>3. /\ old = [forward |-> old.forward, reverse |-> old.reverse,
                  combined |-> old.combined, flat |-> old.flat]
        /\ Found(old.forward) => Found(FirstOf(own, "forward"))
        /\ Found(old.reverse) => Found(FirstOf(own, "reverse"))
    BY DEF OldMetrics, NoMetrics, Found
  <2>4. NumbersOK(version, old, traces)
    <3> HIDE DEF old, own
    <3> SUFFICES ASSUME NEW x \in Directions, traces # <<>>, Found(old[x])
                 PROVE  Found(Representative(own, x))
      BY DEF NumbersOK
    <3>1. Found(FirstOf(own, x))
      BY <2>3 DEF Directions
    <3> QED
      BY <3>1, FirstIsFound DEF own
  <2>5. d.excluded \in BOOLEAN
    BY <2>1 DEF DeviceOK
  <2>6. traces \in {<<>>, Own(f, l)}
    OBVIOUS
  <2> HIDE DEF l, own, old, traces
  <2>7. DeviceOK(f, version, F[d]) /\ F[d].label = l
    BY <2>1, <2>2, <2>3, <2>4, <2>5, <2>6, DeviceFields
  <2> QED
    BY <2>7 DEF l
<1> DEFINE devices == {OldDevice(version, d, withTraces) : d \in Devices(f)}
<1> HIDE DEF a
<1>5. devices = {F[d] : d \in a.devices} /\ version \in {5, 6, 7}
  BY <1>1, <1>3
<1> HIDE DEF devices
<1>6. \A d \in a.devices : DeviceOK(f, version, F[d]) /\ F[d].label = d.label
  BY <1>1, <1>4
<1>7. AnalysisOK(f, [version |-> version, devices |-> devices,
                     statistics |-> None])
  BY <1>1, <1>5, <1>6, RewrittenOK
<1> QED
  BY <1>7 DEF Analysis, devices

LEMMA NormalizedOK ==
    ASSUME NEW f, NEW a, AnalysisOK(f, a)
    PROVE  /\ AnalysisOK(f, NormalizeLegacy(a))
           /\ NormalizeLegacy(a).version = 7
<1>1. CASE a.version \notin {5, 6}
  <2>1. NormalizeLegacy(a) = a
    BY <1>1 DEF NormalizeLegacy
  <2>2. a.version = 7
    BY <1>1 DEF AnalysisOK
  <2> QED
    BY <2>1, <2>2
<1>2. CASE a.version \in {5, 6}
  <2> DEFINE F == [d \in a.devices |-> Upgraded(d)]
             devices == {Upgraded(d) : d \in a.devices}
  <2>1. NormalizeLegacy(a) = [version |-> 7, devices |-> devices,
                              statistics |-> None]
    BY <1>2 DEF NormalizeLegacy, Analysis
  <2>2. \A d \in a.devices : F[d] = Upgraded(d)
    OBVIOUS
  <2> HIDE DEF F
  <2>3. devices = {F[d] : d \in a.devices}
    BY <2>2
  <2> HIDE DEF devices
  <2>4. \A d \in a.devices : DeviceOK(f, 7, F[d]) /\ F[d].label = d.label
    <3> TAKE d \in a.devices
    <3> DEFINE l == d.label
               combined == IF Found(d.metrics.flat) THEN d.metrics.flat
                           ELSE d.metrics.combined
               metrics == [forward |-> Rebuilt(d, "forward"),
                           reverse |-> Rebuilt(d, "reverse"),
                           combined |-> combined, flat |-> NoMetrics]
    <3>1. /\ DeviceOK(f, a.version, d) /\ a.version # 7
      BY <1>2 DEF AnalysisOK
    <3>2. F[d] = [label |-> l, substrate |-> Identity(l).substrate,
                  channel |-> d.channel, group |-> d.group,
                  excluded |-> d.excluded,
                  metrics |-> metrics, traces |-> d.traces]
      <4>1. F[d] = [d EXCEPT !.metrics = metrics]
        BY <2>2 DEF Upgraded
      <4>2. d = [label |-> l, substrate |-> Identity(l).substrate,
                 channel |-> d.channel, group |-> d.group,
                 excluded |-> d.excluded, metrics |-> d.metrics,
                 traces |-> d.traces]
        BY <3>1 DEF DeviceOK
      <4> HIDE DEF metrics, l
      <4> QED
        BY <4>1, <4>2
    <3>3. NumbersOK(7, metrics, d.traces)
      <4> SUFFICES ASSUME d.traces # <<>>, NEW x \in Directions
                   PROVE  SameMetrics(metrics[x], Representative(d.traces, x))
        BY DEF NumbersOK
      <4>1. Found(d.metrics[x]) => Found(Representative(d.traces, x))
        BY <3>1 DEF DeviceOK, NumbersOK
      <4>2. metrics[x] = Rebuilt(d, x)
        BY DEF Directions
      <4> HIDE DEF metrics
      <4> QED
        BY <4>1, <4>2 DEF Rebuilt, SameMetrics
    <3>4. /\ l \in DeviceLabels(f) /\ d.excluded \in BOOLEAN
          /\ d.traces \in {<<>>, Own(f, l)}
      BY <3>1 DEF DeviceOK
    <3>5. metrics = [forward |-> metrics.forward, reverse |-> metrics.reverse,
                     combined |-> metrics.combined, flat |-> metrics.flat]
      OBVIOUS
    <3> HIDE DEF l, metrics
    <3>6. DeviceOK(f, 7, F[d]) /\ F[d].label = l
      BY <3>2, <3>3, <3>4, <3>5, DeviceFields
    <3> QED
      BY <3>6 DEF l
  <2>5. AnalysisOK(f, [version |-> 7, devices |-> devices,
                       statistics |-> None])
    BY <2>3, <2>4, RewrittenOK
  <2> QED
    BY <2>1, <2>5
<1> QED
  BY <1>1, <1>2

LEMMA AssignedOK ==
    ASSUME NEW f, NEW a, AnalysisOK(f, a), a.version = 7, NEW choice
    PROVE  LET saved == AssignSubstrates(a, choice)
           IN /\ AnalysisOK(f, saved) /\ saved.version = 7
              /\ saved.statistics = GroupStatistics(saved.devices)
              /\ \A e \in saved.devices :
                    /\ e.group = choice.group[e.substrate]
                    /\ e.excluded = (e.label \in choice.excluded)
                    /\ \E d \in a.devices : d.substrate = e.substrate
<1> DEFINE F == [d \in a.devices |-> Regrouped(d, choice)]
           devices == {Regrouped(d, choice) : d \in a.devices}
           statistics == GroupStatistics(devices)
           saved == AssignSubstrates(a, choice)
<1>1. a = [version |-> 7, devices |-> a.devices, statistics |-> a.statistics]
  BY DEF AnalysisOK
<1>2. saved = [a EXCEPT !.devices = devices, !.statistics = statistics]
  BY Zenon DEF AssignSubstrates
<1> HIDE DEF saved, statistics
<1>3. saved = [version |-> 7, devices |-> devices, statistics |-> statistics]
  BY <1>1, <1>2
<1>4. \A d \in a.devices : F[d] = Regrouped(d, choice)
  OBVIOUS
<1> HIDE DEF F
<1>5. devices = {F[d] : d \in a.devices}
  BY <1>4
<1> HIDE DEF devices
<1>6. ASSUME NEW d \in a.devices
      PROVE  /\ DeviceOK(f, 7, F[d]) /\ F[d].label = d.label
             /\ F[d].substrate = d.substrate
             /\ F[d].group = choice.group[F[d].substrate]
             /\ F[d].excluded = (F[d].label \in choice.excluded)
  <2> DEFINE l == d.label
             group == choice.group[d.substrate]
             excluded == d.label \in choice.excluded
  <2>1. DeviceOK(f, 7, d)
    BY DEF AnalysisOK
  <2>2. d = [label |-> l, substrate |-> Identity(l).substrate,
             channel |-> d.channel, group |-> d.group,
             excluded |-> d.excluded, metrics |-> d.metrics,
             traces |-> d.traces]
    BY <2>1 DEF DeviceOK
  <2>3. F[d] = [d EXCEPT !.group = group, !.excluded = excluded]
    BY <1>4 DEF Regrouped
  <2>4. excluded \in BOOLEAN
    OBVIOUS
  <2> HIDE DEF l, group, excluded
  <2> DEFINE e == [label |-> l, substrate |-> Identity(l).substrate,
                   channel |-> d.channel, group |-> group,
                   excluded |-> excluded, metrics |-> d.metrics,
                   traces |-> d.traces]
  <2>5. F[d] = e
    <3> DEFINE c == [d EXCEPT !.group = group]
    <3>1. c = [label |-> l, substrate |-> Identity(l).substrate,
               channel |-> d.channel, group |-> group,
               excluded |-> d.excluded, metrics |-> d.metrics,
               traces |-> d.traces]
      BY <2>2
    <3>2. F[d] = [c EXCEPT !.excluded = excluded]
      BY <2>3
    <3> HIDE DEF c
    <3> QED
      BY <3>1, <3>2
  <2>6. /\ e.label = l /\ e.substrate = d.substrate /\ e.group = group
        /\ e.excluded = excluded
    BY <2>2
  <2>7. /\ l \in DeviceLabels(f)
        /\ d.traces \in {<<>>, Own(f, l)}
        /\ NumbersOK(7, d.metrics, d.traces)
        /\ d.metrics = [forward |-> d.metrics.forward,
                        reverse |-> d.metrics.reverse,
                        combined |-> d.metrics.combined,
                        flat |-> d.metrics.flat]
    BY <2>1 DEF DeviceOK, l
  <2>8. DeviceOK(f, 7, e)
    BY <2>4, <2>7, DeviceFields
  <2> HIDE DEF e
  <2>9. F[d].excluded = (F[d].label \in choice.excluded)
    BY <2>5, <2>6, Zenon DEF l, excluded
  <2>10. F[d].group = choice.group[F[d].substrate]
    BY <2>5, <2>6 DEF group
  <2> QED
    BY <2>5, <2>6, <2>8, <2>9, <2>10 DEF l
<1>7. AnalysisOK(f, [version |-> 7, devices |-> devices,
                     statistics |-> statistics])
  BY <1>5, <1>6, RewrittenOK
<1>8. /\ saved.version = 7 /\ saved.devices = devices
      /\ saved.statistics = GroupStatistics(devices)
  BY <1>3 DEF statistics
<1>9. \A e \in devices :
         /\ e.group = choice.group[e.substrate]
         /\ e.excluded = (e.label \in choice.excluded)
         /\ \E d \in a.devices : d.substrate = e.substrate
  <2> TAKE e \in devices
  <2>1. PICK d \in a.devices : e = F[d]
    BY <1>5
  <2>2. e.excluded = (e.label \in choice.excluded)
    BY <1>6, <2>1, Zenon
  <2>3. e.group = choice.group[e.substrate] /\ d.substrate = e.substrate
    BY <1>6, <2>1
  <2> QED
    BY <2>2, <2>3, Zenon
<1>10. AnalysisOK(f, saved)
  BY <1>3, <1>7
<1> QED
  BY <1>8, <1>9, <1>10, Zenon DEF saved

StoredOK ==
    stored # None =>
        AnalysisOK(file, stored) /\ cached = FlatMetrics(stored.devices)

SaveOK(save) ==
    /\ AnalysisOK(file, save.read) /\ save.read.version = 7
    /\ \A d \in save.read.devices : save.choice.group[d.substrate] \in GroupIds

SavesOK ==
    /\ saving = [t \in Txns |-> saving[t]]
    /\ \A t \in Txns : saving[t] # None => SaveOK(saving[t])

\* What the last save chose is what is stored, with the statistics of it.
SavedAsChosen ==
    latest # None =>
        /\ AnalysisOK(file, stored) /\ stored.version = 7
        /\ stored.statistics = GroupStatistics(stored.devices)
        /\ \A d \in stored.devices :
              /\ d.group = latest.group[d.substrate] /\ d.group \in GroupIds
              /\ d.excluded = (d.label \in latest.excluded)

AnalysesOK == file \in Files /\ StoredOK /\ SavesOK /\ SavedAsChosen

LEMMA AnalysesOKInit == Init => AnalysesOK
  BY DEF Init, AnalysesOK, StoredOK, SavesOK, SavedAsChosen

\* A device has the substrate and the pixel of its label.
LEMMA DeviceIdentity ==
    ASSUME NEW f, NEW a, AnalysisOK(f, a), NEW d \in a.devices
    PROVE  /\ d.label \in DeviceLabels(f)
           /\ d.substrate = Identity(d.label).substrate
<1>1. DeviceOK(f, a.version, d)
  BY Zenon DEF AnalysisOK
<1> DEFINE l == d.label
           s == Identity(l).substrate
<1>2. d = [label |-> l, substrate |-> s,
           channel |-> d.channel, group |-> d.group, excluded |-> d.excluded,
           metrics |-> d.metrics, traces |-> d.traces]
  BY <1>1, Zenon DEF DeviceOK
<1> HIDE DEF l, s
<1>3. d.substrate = s
  BY <1>2
<1> QED
  BY <1>1, <1>3, Zenon DEF DeviceOK, l, s

\* A save covers the substrates of the devices it reads, in the older shape or
\* in the new one.
LEMMA SubstratesCovered ==
    ASSUME NEW f, NEW a, AnalysisOK(f, a), NEW b, AnalysisOK(f, b),
           NEW e \in b.devices
    PROVE  \E d \in a.devices : d.substrate = e.substrate
<1>1. e.label \in DeviceLabels(f) /\ e.substrate = Identity(e.label).substrate
  BY DeviceIdentity
<1>2. PICK d \in a.devices : d.label = e.label
  BY <1>1 DEF AnalysisOK
<1>3. d.substrate = Identity(d.label).substrate
  BY DeviceIdentity
<1> QED
  BY <1>1, <1>2, <1>3

LEMMA AnalysesOKUpload == AnalysesOK /\ Upload => AnalysesOK'
<1> SUFFICES ASSUME AnalysesOK, Upload
             PROVE  AnalysesOK'
  OBVIOUS
<1>1. file' = file /\ file \in Files /\ saving' = saving /\ latest' = None
  BY DEF AnalysesOK, Upload
<1>2. AnalysisOK(file, stored') /\ cached' = FlatMetrics(stored'.devices)
  BY ParsedOK DEF Upload, Analysis
<1>3. StoredOK'
  BY <1>1, <1>2 DEF StoredOK
<1>4. SavesOK'
  BY <1>1 DEF AnalysesOK, SavesOK, SaveOK
<1>5. SavedAsChosen'
  BY <1>1 DEF SavedAsChosen
<1> QED
  BY <1>1, <1>3, <1>4, <1>5 DEF AnalysesOK

LEMMA AnalysesOKInherit ==
    ASSUME NEW version \in {5, 6}, NEW withTraces \in BOOLEAN
    PROVE  AnalysesOK /\ Inherit(version, withTraces) => AnalysesOK'
<1> SUFFICES ASSUME AnalysesOK, Inherit(version, withTraces)
             PROVE  AnalysesOK'
  OBVIOUS
<1> DEFINE devices ==
             {OldDevice(version, d, withTraces) : d \in Devices(file)}
<1>1. file' = file /\ file \in Files /\ saving' = saving /\ latest' = None
  BY DEF AnalysesOK, Inherit
<1>2. stored' = Analysis(version, devices) /\ cached' = FlatMetrics(devices)
  BY Zenon DEF Inherit
<1>3. AnalysisOK(file, Analysis(version, devices))
  BY <1>1, InheritedOK
<1> HIDE DEF devices
<1>4. AnalysisOK(file, stored') /\ cached' = FlatMetrics(stored'.devices)
  BY <1>2, <1>3 DEF Analysis
<1>5. StoredOK'
  BY <1>1, <1>4 DEF StoredOK
<1>6. SavesOK'
  BY <1>1 DEF AnalysesOK, SavesOK, SaveOK
<1>7. SavedAsChosen'
  BY <1>1 DEF SavedAsChosen
<1> QED
  BY <1>1, <1>5, <1>6, <1>7 DEF AnalysesOK

LEMMA AnalysesOKBegin ==
    ASSUME NEW t \in Txns, NEW group, NEW excluded,
           DOMAIN group = Substrates(stored.devices),
           \A s \in DOMAIN group : group[s] \in GroupIds
    PROVE  AnalysesOK /\ BeginSave(t, group, excluded) => AnalysesOK'
<1> SUFFICES ASSUME AnalysesOK, BeginSave(t, group, excluded)
             PROVE  AnalysesOK'
  OBVIOUS
<1> DEFINE read == NormalizeLegacy(stored)
           choice == [group |-> group, excluded |-> excluded]
           save == [read |-> read, choice |-> choice]
<1>1. /\ file' = file /\ stored' = stored /\ cached' = cached
      /\ latest' = latest
      /\ saving' = [saving EXCEPT ![t] = save]
      /\ stored # None
  BY DEF BeginSave
<1>2. AnalysisOK(file, stored)
  BY <1>1 DEF AnalysesOK, StoredOK
<1>3. AnalysisOK(file, read) /\ read.version = 7
  BY <1>2, NormalizedOK
<1>4. save.read = read /\ save.choice.group = group
  OBVIOUS
<1> HIDE DEF read, save
<1>5. SaveOK(save)
  <2>1. \A d \in read.devices : group[d.substrate] \in GroupIds
    <3> TAKE d \in read.devices
    <3>1. PICK e \in stored.devices : e.substrate = d.substrate
      BY <1>2, <1>3, SubstratesCovered
    <3>2. d.substrate \in Substrates(stored.devices)
      BY <3>1 DEF Substrates
    <3> QED
      BY <3>2
  <2> QED
    BY <1>3, <1>4, <2>1 DEF SaveOK
<1>6. SavesOK'
  <2>1. saving = [r \in Txns |-> saving[r]]
    BY DEF AnalysesOK, SavesOK
  <2>2. \A r \in Txns : saving'[r] # None => SaveOK(saving'[r])
    <3>1. \A r \in Txns : saving'[r] = IF r = t THEN save ELSE saving[r]
      BY <1>1, <2>1
    <3> QED
      BY <1>5, <3>1 DEF AnalysesOK, SavesOK
  <2>3. saving' = [r \in Txns |-> saving'[r]]
    BY <1>1, <2>1
  <2>4. GroupIds' = GroupIds
    BY DEF GroupIds
  <2> QED
    BY <1>1, <2>2, <2>3, <2>4 DEF SavesOK, SaveOK
<1>7. StoredOK' /\ SavedAsChosen'
  BY <1>1 DEF AnalysesOK, StoredOK, SavedAsChosen
<1> QED
  BY <1>1, <1>6, <1>7 DEF AnalysesOK

LEMMA AnalysesOKFinish ==
    ASSUME NEW t \in Txns
    PROVE  AnalysesOK /\ FinishSave(t) => AnalysesOK'
<1> SUFFICES ASSUME AnalysesOK, FinishSave(t)
             PROVE  AnalysesOK'
  OBVIOUS
<1> DEFINE save == saving[t]
           saved == AssignSubstrates(save.read, save.choice)
<1>1. /\ file' = file /\ saving[t] # None
      /\ stored' = saved /\ cached' = FlatMetrics(saved.devices)
      /\ latest' = save.choice
      /\ saving' = [saving EXCEPT ![t] = None]
  BY Zenon DEF FinishSave
<1>2. SaveOK(save)
  BY <1>1 DEF AnalysesOK, SavesOK
<1>3. /\ AnalysisOK(file, saved) /\ saved.version = 7
      /\ saved.statistics = GroupStatistics(saved.devices)
      /\ \A e \in saved.devices :
            /\ e.group = save.choice.group[e.substrate]
            /\ e.excluded = (e.label \in save.choice.excluded)
            /\ \E d \in save.read.devices : d.substrate = e.substrate
  BY <1>2, AssignedOK DEF SaveOK
<1> HIDE DEF saved
<1>4. StoredOK'
  BY <1>1, <1>3 DEF StoredOK
<1>5. SavedAsChosen'
  <2>1. \A e \in saved.devices : save.choice.group[e.substrate] \in GroupIds
    BY <1>2, <1>3 DEF SaveOK
  <2>2. \A e \in saved.devices :
           e.group = save.choice.group[e.substrate] /\ e.group \in GroupIds
    BY <1>3, <2>1
  <2>3. \A e \in stored'.devices :
           e.group = latest'.group[e.substrate] /\ e.group \in GroupIds
    BY <1>1, <2>2
  <2>4. \A e \in stored'.devices : e.excluded = (e.label \in latest'.excluded)
    BY <1>1, <1>3, Zenon
  <2>5. AnalysisOK(file, stored') /\ stored'.version = 7
    BY <1>1, <1>3
  <2>6. stored'.statistics = GroupStatistics(stored'.devices)
    BY <1>1, <1>3
  <2> QED
    BY <1>1, <2>3, <2>4, <2>5, <2>6, Zenon DEF SavedAsChosen, GroupIds
<1>6. SavesOK'
  <2>1. saving = [r \in Txns |-> saving[r]]
    BY DEF AnalysesOK, SavesOK
  <2>2. \A r \in Txns : saving'[r] = IF r = t THEN None ELSE saving[r]
    BY <1>1, <2>1
  <2>3. saving' = [r \in Txns |-> saving'[r]]
    BY <1>1, <2>1
  <2>4. \A r \in Txns : saving'[r] # None => SaveOK(saving'[r])
    BY <2>2 DEF AnalysesOK, SavesOK
  <2>5. GroupIds' = GroupIds
    BY DEF GroupIds
  <2> QED
    BY <1>1, <2>3, <2>4, <2>5 DEF SavesOK, SaveOK
<1> QED
  BY <1>1, <1>4, <1>5, <1>6 DEF AnalysesOK

LEMMA AnalysesOKRefuse ==
    ASSUME NEW t \in Txns
    PROVE  AnalysesOK /\ RefuseSave(t) => AnalysesOK'
<1> SUFFICES ASSUME AnalysesOK, RefuseSave(t)
             PROVE  AnalysesOK'
  OBVIOUS
<1>1. /\ UNCHANGED <<file, stored, cached, latest>>
      /\ saving' = [saving EXCEPT ![t] = None]
  BY DEF RefuseSave
<1>2. SavesOK'
  <2>1. saving = [r \in Txns |-> saving[r]]
    BY DEF AnalysesOK, SavesOK
  <2>2. \A r \in Txns : saving'[r] = IF r = t THEN None ELSE saving[r]
    BY <1>1, <2>1
  <2>3. saving' = [r \in Txns |-> saving'[r]]
    BY <1>1, <2>1
  <2>4. \A r \in Txns : saving'[r] # None => SaveOK(saving'[r])
    BY <2>2 DEF AnalysesOK, SavesOK
  <2>5. GroupIds' = GroupIds
    BY DEF GroupIds
  <2> QED
    BY <1>1, <2>3, <2>4, <2>5 DEF SavesOK, SaveOK
<1>3. StoredOK' /\ SavedAsChosen'
  BY <1>1 DEF AnalysesOK, StoredOK, SavedAsChosen
<1> QED
  BY <1>1, <1>2, <1>3 DEF AnalysesOK

LEMMA AnalysesOKNext == AnalysesOK /\ [Next]_vars => AnalysesOK'
<1> SUFFICES ASSUME AnalysesOK, [Next]_vars
             PROVE  AnalysesOK'
  OBVIOUS
<1>1. CASE Upload
  BY <1>1, AnalysesOKUpload
<1>2. ASSUME NEW version \in {5, 6}, NEW withTraces \in BOOLEAN,
             Inherit(version, withTraces)
      PROVE  AnalysesOK'
  BY <1>2, AnalysesOKInherit
<1>3. ASSUME NEW t \in Txns, Save(t)
      PROVE  AnalysesOK'
  <2>1. ASSUME NEW group \in Groupings,
               DOMAIN group = Substrates(stored.devices),
               \A s \in DOMAIN group : group[s] \in GroupIds,
               NEW excluded, BeginSave(t, group, excluded)
        PROVE  AnalysesOK'
    BY <2>1, AnalysesOKBegin
  <2>2. CASE FinishSave(t)
    BY <2>2, AnalysesOKFinish
  <2>3. CASE RefuseSave(t)
    BY <2>3, AnalysesOKRefuse
  <2> QED
    BY <1>3, <2>1, <2>2, <2>3 DEF Save
<1>4. CASE UNCHANGED vars
  <2>1. UNCHANGED <<file, stored, cached, saving, latest>>
    BY <1>4 DEF vars
  <2> QED
    BY <2>1 DEF AnalysesOK, StoredOK, SavesOK, SaveOK, SavedAsChosen
<1> QED
  BY <1>1, <1>2, <1>3, <1>4 DEF Next

\* Whatever an upload parses, inherits or migrates and a save rewrites: the
\* devices of the stored analysis have the identity of a scan of the file, one
\* device per label, the numbers of their best scans, groups and exclusions as
\* the save in force chose them, and the flat record is the one of its devices.
THEOREM AnalysesAreOK == Spec => []AnalysesOK
  BY AnalysesOKInit, AnalysesOKNext, PTL DEF Spec

-----------------------------------------------------------------------------
(* The devices of an analysis in a row, and their values.                    *)

LEMMA SetInARow ==
    ASSUME NEW S, IsFiniteSet(S)
    PROVE  /\ SetToSeq(S) \in Seq(S) /\ Len(SetToSeq(S)) = Cardinality(S)
           /\ IsInjective(SetToSeq(S)) /\ ToSet(SetToSeq(S)) = S
<1> DEFINE n == Cardinality(S)
           s == SetToSeq(S)
<1>1. n \in Nat /\ ExistsBijection(1..n, S)
  BY FS_CardinalityType
<1>2. PICK f \in Bijection(1..n, S) : TRUE
  BY <1>1 DEF ExistsBijection
<1>3. /\ f \in [1..n -> S]
      /\ \A a, b \in 1..n : f[a] = f[b] => a = b
  BY <1>2, Fun_BijectionProperties
<1>4. IsInjective(f)
  BY <1>3 DEF IsInjective
<1>5. s \in [1..n -> S] /\ IsInjective(s)
  BY <1>3, <1>4 DEF SetToSeq
<1> HIDE DEF s
<1>6. \A a, b \in 1..n : s[a] = s[b] => a = b
  BY <1>5 DEF IsInjective
<1>7. s \in Seq(S) /\ Len(s) = n
  BY <1>1, <1>5
<1>8. IsFiniteSet(1..n) /\ Cardinality(1..n) = n
  BY <1>1, FS_Interval
<1>9. s \in Injection(1..n, S)
  BY <1>5, <1>6, Fun_IsInj
<1>10. s \in Surjection(1..n, S)
  BY <1>8, <1>9, FS_Injection
<1> HIDE DEF n
<1>11. ToSet(s) = S
  <2>1. \A x \in S : \E i \in 1..n : s[i] = x
    BY <1>10 DEF Surjection
  <2> QED
    BY <1>5, <2>1 DEF ToSet
<1> QED
  BY <1>5, <1>7, <1>11 DEF s, n

LEMMA LabelsFinite ==
    ASSUME NEW f \in Files
    PROVE  IsFiniteSet(DeviceLabels(f))
<1> DEFINE I == DOMAIN f.blocks
           g == [i \in I |-> DeviceLabel(f.blocks[i].label)]
<1>1. IsFiniteSet(I)
  <2>1. Len(f.blocks) \in Nat /\ I = 1..Len(f.blocks)
    BY FilesAssumption
  <2> QED
    BY <2>1, FS_Interval
<1>2. \A i \in I : g[i] = DeviceLabel(f.blocks[i].label)
  OBVIOUS
<1>3. g \in [I -> DeviceLabels(f)]
  BY DEF DeviceLabels
<1>4. \A l \in DeviceLabels(f) : \E i \in I : g[i] = l
  BY <1>2 DEF DeviceLabels
<1> HIDE DEF g
<1>5. g \in Surjection(I, DeviceLabels(f))
  BY <1>3, <1>4, Fun_IsSurj
<1> QED
  BY <1>1, <1>5, FS_Surjection

LEMMA DevicesFinite ==
    ASSUME NEW f \in Files, NEW a, AnalysisOK(f, a)
    PROVE  /\ IsFiniteSet(a.devices)
           /\ Cardinality(a.devices) = Cardinality(DeviceLabels(f))
<1> DEFINE L == DeviceLabels(f)
           g == [l \in L |-> CHOOSE d \in a.devices : d.label = l]
<1>1. \A l \in L : g[l] \in a.devices /\ g[l].label = l
  BY DEF AnalysisOK
<1>2. \A d \in a.devices : d.label \in L
  BY DeviceIdentity
<1>3. \A d, e \in a.devices : d.label = e.label => d = e
  BY DEF AnalysisOK
<1>4. g \in [L -> a.devices]
  BY <1>1
<1> HIDE DEF g
<1>5. \A d \in a.devices : \E l \in L : g[l] = d
  BY <1>1, <1>2, <1>3
<1>6. g \in Bijection(L, a.devices)
  BY <1>1, <1>4, <1>5, Fun_IsBij
<1>7. ExistsBijection(L, a.devices)
  BY <1>6 DEF ExistsBijection
<1> QED
  BY <1>7, LabelsFinite, FS_Bijection

JoinNext(m, all, d) == all \o DeviceValues(d, m)
Joining == INSTANCE FoldLaws WITH Op <- JoinNext, Base <- <<>>

LEMMA GroupValuesFold ==
    \A devices, g, m :
       GroupValues(devices, g, m)
          = Joining!Folded(m, SetToSeq(Counted(devices, g)))
  BY Zenon DEF GroupValues, Joining!Folded, FoldLeft, Joining!FoldLeft,
     MapThenFoldSet, Joining!MapThenFoldSet, Max, Joining!Max, JoinNext

LEMMA GroupValuesTyped ==
    ASSUME NEW devices, IsFiniteSet(devices), NEW V, NEW m,
           \A d \in devices : DeviceValues(d, m) \in Seq(V), NEW g
    PROVE  GroupValues(devices, g, m) \in Seq(V)
<1> DEFINE C == Counted(devices, g)
           L == {s \in Seq(C) : Joining!Folded(m, s) \in Seq(V)}
<1>1. C \in SUBSET devices
  BY DEF Counted, Assigned
<1>2. SetToSeq(C) \in Seq(C)
  BY <1>1, FS_Subset, SetInARow
<1> HIDE DEF C
<1>3. <<>> \in L
  <2>1. Joining!Folded(m, <<>>) = <<>>
    BY Joining!FoldedEmpty
  <2>2. <<>> \in Seq(C) /\ <<>> \in Seq(V)
    OBVIOUS
  <2> QED
    BY <2>1, <2>2
<1>4. ASSUME NEW s \in Seq(C), NEW d \in C, s \in L
      PROVE  Append(s, d) \in L
  <2>1. Joining!Folded(m, Append(s, d))
           = Joining!Folded(m, s) \o DeviceValues(d, m)
    BY Joining!FoldedAppend DEF JoinNext
  <2>2. DeviceValues(d, m) \in Seq(V) /\ Joining!Folded(m, s) \in Seq(V)
    BY <1>1, <1>4
  <2>3. Append(s, d) \in Seq(C)
    BY <1>4
  <2>4. Joining!Folded(m, s) \o DeviceValues(d, m) \in Seq(V)
    BY <2>2
  <2> QED
    BY <2>1, <2>3, <2>4, Zenon
<1> HIDE DEF L
<1>5. SetToSeq(C) \in L
  BY <1>2, <1>3, <1>4, Joining!SeqSetInduction
<1> QED
  BY <1>5, GroupValuesFold DEF C, L

\* A p-value is a share of the draws, one of which is the control's own.
LEMMA PermutationShare ==
    ASSUME NEW V, NEW control \in Seq(V), NEW target \in Seq(V),
           PermutationP(control, target) # None
    PROVE  /\ PermutationP(control, target) \in Frac
           /\ Leq(PermutationP(control, target), OneWhole)
<1> DEFINE all == control \o target
           nc == Len(control)
           nt == Len(target)
           Gap(drawn) ==
              LET s == MapThenSumSet(LAMBDA i : all[i], drawn)
                  gap == (Sum(all) - s) * nc - s * nt
              IN IF gap < 0 THEN -gap ELSE gap
           draws == kSubset(nc, 1..Len(all))
           extreme == {drawn \in draws : Gap(drawn) >= Gap(1..nc)}
           share == Fraction(Cardinality(extreme), Cardinality(draws))
<1>1. PermutationP(control, target)
         = IF nc < 2 \/ nt < 2 THEN None ELSE share
  BY Zenon DEF PermutationP
<1>2. nc \in Nat /\ nt \in Nat /\ Len(all) = nc + nt
  OBVIOUS
<1> HIDE DEF Gap, all
<1>3. IsFiniteSet(draws) /\ 1..nc \in draws
  <2>1. IsFiniteSet(1..Len(all)) /\ 1..nc \in SUBSET (1..Len(all))
    <3>1. Len(all) \in Int /\ 1 \in Int
      BY <1>2
    <3>2. 1..nc \in SUBSET (1..Len(all))
      BY <1>2
    <3> QED
      BY <3>1, <3>2, FS_Interval
  <2>2. IsFiniteSet(SUBSET (1..Len(all)))
    BY <2>1, FS_SUBSET
  <2>3. draws \in SUBSET (SUBSET (1..Len(all)))
    <3>1. \A drawn \in draws : drawn \in SUBSET (1..Len(all))
      BY DEF kSubset
    <3> HIDE DEF draws
    <3> QED
      BY <3>1
  <2>4. Cardinality(1..nc) = nc
    <3> HIDE DEF nc
    <3>1. nc \in Nat /\ nc \in Int /\ 1 \in Int
      BY <1>2
    <3> QED
      BY <3>1, FS_Interval
  <2>5. 1..nc \in draws
    BY <2>1, <2>4 DEF kSubset
  <2> HIDE DEF draws
  <2>6. IsFiniteSet(draws)
    BY <2>2, <2>3, FS_Subset
  <2> QED
    BY <2>5, <2>6
<1>4. extreme \in SUBSET draws
  OBVIOUS
<1> HIDE DEF draws, extreme
<1>5. /\ Cardinality(extreme) <= Cardinality(draws)
      /\ Cardinality(extreme) \in Nat /\ Cardinality(draws) \in Nat \ {0}
  <2>1. IsFiniteSet(extreme) /\ Cardinality(extreme) <= Cardinality(draws)
    BY <1>3, <1>4, FS_Subset
  <2>2. Cardinality(draws) # 0
    BY <1>3, FS_EmptySet
  <2> QED
    BY <1>3, <2>1, <2>2, FS_CardinalityType
<1> DEFINE e == Cardinality(extreme)
           d == Cardinality(draws)
<1> HIDE DEF e, d
<1>6. e \in Nat /\ d \in Nat \ {0} /\ e <= d
  BY <1>5 DEF e, d
<1>7. PermutationP(control, target) = [num |-> e, den |-> d]
  BY <1>1 DEF Fraction, e, d
<1> QED
  BY <1>6, <1>7 DEF Frac, Leq, OneWhole, Fraction

LEMMA ComparedShares ==
    ASSUME NEW f \in Files, NEW a, AnalysisOK(f, a), NEW control, NEW target
    PROVE  LET c == Comparison(a.devices, control, target)
           IN /\ c.adjusted = Adjusted(c.p)
              /\ \A m \in WithP(c.p) :
                    c.p[m] \in Frac /\ Leq(c.p[m], OneWhole)
<1> DEFINE D == a.devices
           c == Comparison(D, control, target)
           P(m) == PermutationP(GroupValues(D, control.id, m),
                                GroupValues(D, target.id, m))
           p == [m \in ToSet(Metrics) |-> P(m)]
<1>1. c.p = p /\ c.adjusted = Adjusted(p)
  BY DEF Comparison
<1>2. IsFiniteSet(D)
  BY DevicesFinite
<1>3. ASSUME NEW m \in ToSet(Metrics), P(m) # None
      PROVE  P(m) \in Frac /\ Leq(P(m), OneWhole)
  <2> DEFINE V == UNION {{d.metrics.forward[m], d.metrics.reverse[m]} : d \in D}
  <2>1. \A d \in D : DeviceValues(d, m) \in Seq(V)
    <3> TAKE d \in D
    <3>1. d.metrics.forward[m] \in V /\ d.metrics.reverse[m] \in V
      OBVIOUS
    <3> HIDE DEF V
    <3>2. /\ Sample(d.metrics.forward, m) \in Seq(V)
          /\ Sample(d.metrics.reverse, m) \in Seq(V)
      BY <3>1 DEF Sample
    <3> QED
      BY <3>2 DEF DeviceValues
  <2> HIDE DEF D, V
  <2>2. \A g : GroupValues(D, g, m) \in Seq(V)
    BY <1>2, <2>1, GroupValuesTyped
  <2> QED
    BY <1>3, <2>2, PermutationShare
<1> HIDE DEF c, P
<1>4. \A m \in WithP(p) : p[m] = P(m) /\ m \in ToSet(Metrics) /\ P(m) # None
  BY DEF WithP
<1>5. \A m \in WithP(p) : p[m] \in Frac /\ Leq(p[m], OneWhole)
  BY <1>3, <1>4
<1> HIDE DEF p
<1> QED
  BY <1>1, <1>5 DEF c

\* No save states an adjusted p-value that a threshold could beat or that none
\* would give, whatever the devices of the groups and the metrics.
THEOREM AdjustedAsReference == Spec => []AdjustedIsReference
<1>1. ASSUME AnalysesOK, latest # None,
             NEW c \in stored.statistics.comparisons
      PROVE  LET tested == {m \in ToSet(Metrics) : c.p[m] # None}
                 AsSmall(m) == {k \in tested : Leq(c.p[k], c.p[m])}
                 At(m) == Fraction(c.p[m].num * Cardinality(tested),
                                   c.p[m].den * Cardinality(AsSmall(m)))
             IN \A m \in ToSet(Metrics) :
                   /\ m \notin tested => c.adjusted[m] = None
                   /\ m \in tested =>
                         LET above == {k \in tested : m \in AsSmall(k)}
                             r == c.adjusted[m]
                         IN /\ \A k \in above : Leq(r, At(k))
                            /\ \E k \in above : Leq(At(k), r)
  <2> DEFINE p == c.p
             At(k) == Fraction(p[k].num * Cardinality(WithP(p)),
                               p[k].den * Cardinality(AsSmallAs(p, k)))
             Above(m) == {k \in WithP(p) : m \in AsSmallAs(p, k)}
  <2>1. /\ file \in Files /\ AnalysisOK(file, stored)
        /\ stored.statistics = GroupStatistics(stored.devices)
    BY <1>1 DEF AnalysesOK, SavedAsChosen
  <2>2. PICK control, target :
           c = Comparison(stored.devices, control, target)
    <3>1. c \in GroupStatistics(stored.devices).comparisons
      BY <1>1, <2>1
    <3>2. GroupStatistics(stored.devices).comparisons =
             IF OfKind("control") = <<>> THEN {}
             ELSE {Comparison(stored.devices, OfKind("control")[1], t) :
                      t \in ToSet(OfKind("target"))}
      BY DEF GroupStatistics
    <3> QED
      BY <3>1, <3>2
  <2>3. /\ c.adjusted = Adjusted(p)
        /\ \A m \in WithP(p) : p[m] \in Frac /\ Leq(p[m], OneWhole)
    BY <2>1, <2>2, ComparedShares
  <2> HIDE DEF p
  <2>4. ASSUME NEW m \in ToSet(Metrics), m \notin WithP(p)
        PROVE  Adjusted(p)[m] = None
    <3>1. \E g :
             /\ Lowered([r \in 1..Len(RankedBy(p)) |->
                           Fraction(p[RankedBy(p)[r]].num * Len(RankedBy(p)),
                                    p[RankedBy(p)[r]].den * r)],
                        Len(RankedBy(p)), g)
             /\ \A k \in ToSet(Metrics) :
                   /\ k \notin WithP(p) => Adjusted(p)[k] = None
                   /\ \A r \in 1..Len(RankedBy(p)) :
                         RankedBy(p)[r] = k =>
                            Adjusted(p)[k] = Least(OneWhole, g[r])
      BY <2>3, AdjustedUnfolds
    <3> QED
      BY <2>4, <3>1
  <2>5. ASSUME NEW m \in WithP(p)
        PROVE  /\ \A k \in Above(m) : Leq(Adjusted(p)[m], At(k))
               /\ \E k \in Above(m) : Leq(At(k), Adjusted(p)[m])
    BY <2>3, AdjustedIsLeast
  <2> QED
    BY <2>3, <2>4, <2>5, Zenon DEF WithP, AsSmallAs, p
<1>2. AnalysesOK => AdjustedIsReference
  BY <1>1, Zenon DEF AdjustedIsReference
<1> QED
  BY <1>2, AnalysesAreOK, PTL

-----------------------------------------------------------------------------
(* A sample in order.                                                        *)

Ascending(v) == Sorted(v, LAMBDA a, b : a < b)

\* Sorted, numbers are each number of the sample, from the least up.
LEMMA SortedInts ==
    ASSUME NEW v \in Seq(Int)
    PROVE  /\ Ascending(v) \in Seq(Int)
           /\ Len(Ascending(v)) = Len(v)
           /\ \A r, q \in 1..Len(v) :
                 r <= q => Ascending(v)[r] <= Ascending(v)[q]
<1> DEFINE n == Len(v)
           sorted == Ascending(v)
           Before(j, i) == \/ v[j] < v[i]
                           \/ ~(v[i] < v[j]) /\ j <= i
           R == {ji \in (1..n) \X (1..n) : Before(ji[1], ji[2])}
           PlaceOf(r) == CHOOSE i \in 1..n : RankIn(R, n, i) = r
           place == [r \in 1..n |-> PlaceOf(r)]
           RankOf(i) == Rank(v, i, LAMBDA a, b : a < b)
<1>1. n \in Nat /\ DOMAIN v = 1..n /\ \A i \in 1..n : v[i] \in Int
  OBVIOUS
<1>2. \A j, i \in 1..n : <<j, i>> \in R <=> Before(j, i)
  OBVIOUS
<1>3. \A i \in 1..n : RankOf(i) = RankIn(R, n, i)
  <2> TAKE i \in 1..n
  <2>1. {j \in DOMAIN v : Before(j, i)} = {j \in 1..n : <<j, i>> \in R}
    BY <1>1, <1>2
  <2> HIDE DEF R
  <2>2. RankOf(i) = Cardinality({j \in DOMAIN v : Before(j, i)})
    BY Zenon DEF Rank
  <2> QED
    BY <2>1, <2>2, Zenon DEF RankIn
<1>4. /\ \A i \in 1..n : Before(i, i)
      /\ \A i, j \in 1..n : Before(i, j) /\ Before(j, i) => i = j
      /\ \A i, j \in 1..n : Before(i, j) \/ Before(j, i)
      /\ \A i, j, k \in 1..n : Before(i, j) /\ Before(j, k) => Before(i, k)
      /\ \A i, j \in 1..n : Before(i, j) => v[i] <= v[j]
  <2> HIDE DEF n
  <2> QED
    BY <1>1
<1> HIDE DEF Before
<1>5. /\ \A i \in 1..n : <<i, i>> \in R
      /\ \A i, j \in 1..n : <<i, j>> \in R /\ <<j, i>> \in R => i = j
      /\ \A i, j \in 1..n : <<i, j>> \in R \/ <<j, i>> \in R
      /\ \A i, j, k \in 1..n :
            <<i, j>> \in R /\ <<j, k>> \in R => <<i, k>> \in R
  BY <1>2, <1>4
<1> HIDE DEF R, n, RankOf
<1>6. /\ \A i \in 1..n : RankIn(R, n, i) \in 1..n
      /\ \A i, j \in 1..n :
            RankIn(R, n, i) <= RankIn(R, n, j) <=> <<i, j>> \in R
      /\ \A r \in 1..n : \E i \in 1..n : RankIn(R, n, i) = r
  BY <1>1, <1>5, OrderRanks
<1>7. \A r \in 1..n : place[r] \in 1..n /\ RankIn(R, n, place[r]) = r
  BY <1>6
<1>8. sorted = [r \in 1..n |-> v[place[r]]]
  <2> DEFINE AtRank(r) == CHOOSE i \in DOMAIN v : RankOf(i) = r
  <2>1. sorted = [r \in DOMAIN v |-> v[AtRank(r)]]
    BY Zenon DEF Ascending, Sorted, RankOf
  <2>2. \A r : AtRank(r) = PlaceOf(r)
    BY <1>1, <1>3
  <2> HIDE DEF AtRank, PlaceOf, sorted
  <2>3. \A r \in 1..n : AtRank(r) = place[r]
    BY <2>2
  <2> HIDE DEF place
  <2> QED
    BY <1>1, <2>1, <2>3
<1> HIDE DEF place, sorted
<1>9. /\ sorted \in Seq(Int) /\ Len(sorted) = n
      /\ \A r \in 1..n : sorted[r] = v[place[r]]
  BY <1>1, <1>7, <1>8
<1>10. ASSUME NEW r \in 1..n, NEW q \in 1..n, r <= q
       PROVE  sorted[r] <= sorted[q]
  <2>1. <<place[r], place[q]>> \in R
    BY <1>6, <1>7, <1>10
  <2> QED
    BY <1>2, <1>4, <1>7, <1>9, <2>1
<1> QED
  BY <1>9, <1>10 DEF n, sorted

-----------------------------------------------------------------------------
(* Sums, and the quartiles of a sample.                                      *)

Weighed(o, lower, weight) ==
    IF weight = 0 THEN 4 * o[lower + 1]
    ELSE o[lower + 1] * (4 - weight) + o[lower + 2] * weight

\* The quartiles lie between the least and the largest, around the median.
LEMMA QuartilesInOrder ==
    ASSUME NEW n \in Nat \ {0}, NEW o \in Seq(Int), Len(o) = n,
           \A r, q \in 1..n : r <= q => o[r] <= o[q]
    PROVE  /\ 4 * o[1] <= Percentile(o, 1)
           /\ Percentile(o, 1) <= 2 * Median2(o)
           /\ 2 * Median2(o) <= Percentile(o, 3)
           /\ Percentile(o, 3) <= 4 * o[n]
<1> DEFINE a == (n - 1) \div 4
           w == (n - 1) % 4
<1>1. a \in Nat /\ w \in 0..3 /\ n = 4 * a + w + 1
  OBVIOUS
<1>2. \A r \in 1..n : o[r] \in Int
  OBVIOUS
<1>3. /\ Percentile(o, 1) = Weighed(o, ((n - 1) * 1) \div 4, ((n - 1) * 1) % 4)
      /\ Percentile(o, 3) = Weighed(o, ((n - 1) * 3) \div 4, ((n - 1) * 3) % 4)
      /\ Median2(o) = o[(n + 1) \div 2] + o[(n \div 2) + 1]
  BY DEF Percentile, Median2, Weighed
<1> HIDE DEF a, w
<1>4. CASE w = 0
  <2>1. /\ ((n - 1) * 1) \div 4 = a /\ ((n - 1) * 1) % 4 = 0
        /\ ((n - 1) * 3) \div 4 = 3 * a /\ ((n - 1) * 3) % 4 = 0
        /\ (n + 1) \div 2 = 2 * a + 1 /\ (n \div 2) + 1 = 2 * a + 1
    BY <1>1, <1>4
  <2>2. /\ Percentile(o, 1) = 4 * o[a + 1]
        /\ Percentile(o, 3) = 4 * o[3 * a + 1]
        /\ Median2(o) = o[2 * a + 1] + o[2 * a + 1]
    <3>1. Percentile(o, 1) = Weighed(o, a, 0)
      BY <1>3, <2>1
    <3>2. Percentile(o, 3) = Weighed(o, 3 * a, 0)
      BY <1>3, <2>1
    <3>3. Weighed(o, a, 0) = 4 * o[a + 1]
      BY <1>1 DEF Weighed
    <3>4. Weighed(o, 3 * a, 0) = 4 * o[3 * a + 1]
      BY <1>1 DEF Weighed
    <3> QED
      BY <1>3, <2>1, <3>1, <3>2, <3>3, <3>4
  <2>3. /\ 1 \in 1..n /\ n \in 1..n /\ a + 1 \in 1..n
        /\ 2 * a + 1 \in 1..n /\ 3 * a + 1 \in 1..n
    BY <1>1, <1>4
  <2>4. /\ o[1] <= o[a + 1] /\ o[a + 1] <= o[2 * a + 1]
        /\ o[2 * a + 1] <= o[3 * a + 1] /\ o[3 * a + 1] <= o[n]
    BY <1>1, <2>3
  <2>5. /\ o[1] \in Int
        /\ o[2 * a + 1] \in Int
        /\ o[3 * a + 1] \in Int
        /\ o[a + 1] \in Int
        /\ o[n] \in Int
    BY <1>2, <2>3
  <2> QED
    BY <2>2, <2>4, <2>5
<1>5. CASE w = 1
  <2>1. /\ ((n - 1) * 1) \div 4 = a /\ ((n - 1) * 1) % 4 = 1
        /\ ((n - 1) * 3) \div 4 = 3 * a /\ ((n - 1) * 3) % 4 = 3
        /\ (n + 1) \div 2 = 2 * a + 1 /\ (n \div 2) + 1 = 2 * a + 2
    BY <1>1, <1>5
  <2>2. /\ Percentile(o, 1) = o[a + 1] * 3 + o[a + 2] * 1
        /\ Percentile(o, 3) = o[3 * a + 1] * 1 + o[3 * a + 2] * 3
        /\ Median2(o) = o[2 * a + 1] + o[2 * a + 2]
    <3>1. Percentile(o, 1) = Weighed(o, a, 1)
      BY <1>3, <2>1
    <3>2. Percentile(o, 3) = Weighed(o, 3 * a, 3)
      BY <1>3, <2>1
    <3>3. Weighed(o, a, 1) = o[a + 1] * 3 + o[a + 2] * 1
      BY <1>1 DEF Weighed
    <3>4. Weighed(o, 3 * a, 3) = o[3 * a + 1] * 1 + o[3 * a + 2] * 3
      BY <1>1 DEF Weighed
    <3> QED
      BY <1>3, <2>1, <3>1, <3>2, <3>3, <3>4
  <2>3. /\ 1 \in 1..n /\ n \in 1..n /\ a + 1 \in 1..n /\ a + 2 \in 1..n
        /\ 2 * a + 1 \in 1..n /\ 2 * a + 2 \in 1..n
        /\ 3 * a + 1 \in 1..n /\ 3 * a + 2 \in 1..n
    BY <1>1, <1>5
  <2>4. /\ o[1] <= o[a + 1] /\ o[a + 1] <= o[a + 2]
        /\ o[a + 1] <= o[2 * a + 1] /\ o[a + 2] <= o[2 * a + 2]
        /\ o[2 * a + 1] <= o[2 * a + 2] /\ o[2 * a + 1] <= o[3 * a + 1]
        /\ o[2 * a + 2] <= o[3 * a + 2] /\ o[3 * a + 1] <= o[3 * a + 2]
        /\ o[3 * a + 2] <= o[n]
    BY <1>1, <2>3
  <2>5. /\ o[1] \in Int
        /\ o[2 * a + 1] \in Int
        /\ o[2 * a + 2] \in Int
        /\ o[3 * a + 1] \in Int
        /\ o[3 * a + 2] \in Int
        /\ o[a + 1] \in Int
        /\ o[a + 2] \in Int
        /\ o[n] \in Int
    BY <1>2, <2>3
  <2> DEFINE t == o[1]
             u == o[2 * a + 1]
             v == o[2 * a + 2]
             x == o[3 * a + 1]
             y == o[3 * a + 2]
             z == o[a + 1]
             k == o[a + 2]
             l == o[n]
             q1 == Percentile(o, 1)
             q3 == Percentile(o, 3)
             mid == Median2(o)
  <2>6. /\ t \in Int /\ u \in Int /\ v \in Int /\ x \in Int /\ y \in Int
        /\ z \in Int /\ k \in Int /\ l \in Int
        /\ q1 = z * 3 + k * 1 /\ q3 = x * 1 + y * 3 /\ mid = u + v
        /\ t <= z /\ z <= k /\ z <= u /\ k <= v
        /\ u <= v /\ u <= x /\ v <= y /\ x <= y
        /\ y <= l
    BY <2>2, <2>4, <2>5
  <2> HIDE DEF t, u, v, x, y, z, k, l, q1, q3, mid
  <2>7. 4 * t <= q1 /\ q1 <= 2 * mid /\ 2 * mid <= q3 /\ q3 <= 4 * l
    BY <2>6
  <2> QED
    BY <2>7 DEF t, l, q1, q3, mid
<1>6. CASE w = 2
  <2>1. /\ ((n - 1) * 1) \div 4 = a /\ ((n - 1) * 1) % 4 = 2
        /\ ((n - 1) * 3) \div 4 = 3 * a + 1 /\ ((n - 1) * 3) % 4 = 2
        /\ (n + 1) \div 2 = 2 * a + 2 /\ (n \div 2) + 1 = 2 * a + 2
    BY <1>1, <1>6
  <2>2. /\ Percentile(o, 1) = o[a + 1] * 2 + o[a + 2] * 2
        /\ Percentile(o, 3) = o[3 * a + 2] * 2 + o[3 * a + 3] * 2
        /\ Median2(o) = o[2 * a + 2] + o[2 * a + 2]
    <3>1. Percentile(o, 1) = Weighed(o, a, 2)
      BY <1>3, <2>1
    <3>2. Percentile(o, 3) = Weighed(o, 3 * a + 1, 2)
      BY <1>3, <2>1
    <3>3. Weighed(o, a, 2) = o[a + 1] * 2 + o[a + 2] * 2
      BY <1>1 DEF Weighed
    <3>4. Weighed(o, 3 * a + 1, 2) = o[3 * a + 2] * 2 + o[3 * a + 3] * 2
      <4>1. (3 * a + 1) + 1 = 3 * a + 2 /\ (3 * a + 1) + 2 = 3 * a + 3
        BY <1>1
      <4> QED
        BY <4>1 DEF Weighed
    <3> QED
      BY <1>3, <2>1, <3>1, <3>2, <3>3, <3>4
  <2>3. /\ 1 \in 1..n /\ n \in 1..n /\ a + 1 \in 1..n /\ a + 2 \in 1..n
        /\ 2 * a + 2 \in 1..n /\ 3 * a + 2 \in 1..n /\ 3 * a + 3 \in 1..n
    BY <1>1, <1>6
  <2>4. /\ o[1] <= o[a + 1] /\ o[a + 1] <= o[a + 2]
        /\ o[a + 2] <= o[2 * a + 2] /\ o[2 * a + 2] <= o[3 * a + 2]
        /\ o[3 * a + 2] <= o[3 * a + 3] /\ o[3 * a + 3] <= o[n]
    BY <1>1, <2>3
  <2>5. /\ o[1] \in Int
        /\ o[2 * a + 2] \in Int
        /\ o[3 * a + 2] \in Int
        /\ o[3 * a + 3] \in Int
        /\ o[a + 1] \in Int
        /\ o[a + 2] \in Int
        /\ o[n] \in Int
    BY <1>2, <2>3
  <2> DEFINE t == o[1]
             u == o[2 * a + 2]
             v == o[3 * a + 2]
             x == o[3 * a + 3]
             y == o[a + 1]
             z == o[a + 2]
             k == o[n]
             q1 == Percentile(o, 1)
             q3 == Percentile(o, 3)
             mid == Median2(o)
  <2>6. /\ t \in Int /\ u \in Int /\ v \in Int /\ x \in Int /\ y \in Int
        /\ z \in Int /\ k \in Int
        /\ q1 = y * 2 + z * 2 /\ q3 = v * 2 + x * 2 /\ mid = u + u
        /\ t <= y /\ y <= z /\ z <= u /\ u <= v
        /\ v <= x /\ x <= k
    BY <2>2, <2>4, <2>5
  <2> HIDE DEF t, u, v, x, y, z, k, q1, q3, mid
  <2>7. 4 * t <= q1 /\ q1 <= 2 * mid /\ 2 * mid <= q3 /\ q3 <= 4 * k
    BY <2>6
  <2> QED
    BY <2>7 DEF t, k, q1, q3, mid
<1>7. CASE w = 3
  <2>1. /\ ((n - 1) * 1) \div 4 = a /\ ((n - 1) * 1) % 4 = 3
        /\ ((n - 1) * 3) \div 4 = 3 * a + 2 /\ ((n - 1) * 3) % 4 = 1
        /\ (n + 1) \div 2 = 2 * a + 2 /\ (n \div 2) + 1 = 2 * a + 3
    BY <1>1, <1>7
  <2>2. /\ Percentile(o, 1) = o[a + 1] * 1 + o[a + 2] * 3
        /\ Percentile(o, 3) = o[3 * a + 3] * 3 + o[3 * a + 4] * 1
        /\ Median2(o) = o[2 * a + 2] + o[2 * a + 3]
    <3>1. Percentile(o, 1) = Weighed(o, a, 3)
      BY <1>3, <2>1
    <3>2. Percentile(o, 3) = Weighed(o, 3 * a + 2, 1)
      BY <1>3, <2>1
    <3>3. Weighed(o, a, 3) = o[a + 1] * 1 + o[a + 2] * 3
      BY <1>1 DEF Weighed
    <3>4. Weighed(o, 3 * a + 2, 1) = o[3 * a + 3] * 3 + o[3 * a + 4] * 1
      <4>1. (3 * a + 2) + 1 = 3 * a + 3 /\ (3 * a + 2) + 2 = 3 * a + 4
        BY <1>1
      <4> QED
        BY <4>1 DEF Weighed
    <3> QED
      BY <1>3, <2>1, <3>1, <3>2, <3>3, <3>4
  <2>3. /\ 1 \in 1..n /\ n \in 1..n /\ a + 1 \in 1..n /\ a + 2 \in 1..n
        /\ 2 * a + 2 \in 1..n /\ 2 * a + 3 \in 1..n
        /\ 3 * a + 3 \in 1..n /\ 3 * a + 4 \in 1..n
    BY <1>1, <1>7
  <2>4. /\ o[1] <= o[a + 1] /\ o[a + 1] <= o[a + 2]
        /\ o[a + 2] <= o[2 * a + 2] /\ o[2 * a + 2] <= o[2 * a + 3]
        /\ o[2 * a + 3] <= o[3 * a + 3] /\ o[3 * a + 3] <= o[3 * a + 4]
        /\ o[3 * a + 4] <= o[n]
    BY <1>1, <2>3
  <2>5. /\ o[1] \in Int
        /\ o[2 * a + 2] \in Int
        /\ o[2 * a + 3] \in Int
        /\ o[3 * a + 3] \in Int
        /\ o[3 * a + 4] \in Int
        /\ o[a + 1] \in Int
        /\ o[a + 2] \in Int
        /\ o[n] \in Int
    BY <1>2, <2>3
  <2> DEFINE t == o[1]
             u == o[2 * a + 2]
             v == o[2 * a + 3]
             x == o[3 * a + 3]
             y == o[3 * a + 4]
             z == o[a + 1]
             k == o[a + 2]
             l == o[n]
             q1 == Percentile(o, 1)
             q3 == Percentile(o, 3)
             mid == Median2(o)
  <2>6. /\ t \in Int /\ u \in Int /\ v \in Int /\ x \in Int /\ y \in Int
        /\ z \in Int /\ k \in Int /\ l \in Int
        /\ q1 = z * 1 + k * 3 /\ q3 = x * 3 + y * 1 /\ mid = u + v
        /\ t <= z /\ z <= k /\ k <= u /\ u <= v
        /\ v <= x /\ x <= y /\ y <= l
    BY <2>2, <2>4, <2>5
  <2> HIDE DEF t, u, v, x, y, z, k, l, q1, q3, mid
  <2>7. 4 * t <= q1 /\ q1 <= 2 * mid /\ 2 * mid <= q3 /\ q3 <= 4 * l
    BY <2>6
  <2> QED
    BY <2>7 DEF t, l, q1, q3, mid
<1> QED
  BY <1>1, <1>4, <1>5, <1>6, <1>7

AddNext(c, sofar, x) == sofar + x
Adding == INSTANCE FoldLaws WITH Op <- AddNext, Base <- 0

LEMMA SumFold == \A values : Sum(values) = Adding!Folded(None, values)
  BY Zenon DEF Sum, Adding!Folded, FoldLeft, Adding!FoldLeft,
     MapThenFoldSet, Adding!MapThenFoldSet, Max, Adding!Max, AddNext

CountNext(row, sofar, g) == row[g].devices + sofar
Counting == INSTANCE FoldLaws WITH Op <- CountNext, Base <- 0

LEMMA CountFold ==
    \A row, S : MapThenSumSet(LAMBDA g : row[g].devices, S)
                   = Counting!Gathered(row, S)
  BY Zenon DEF MapThenSumSet, Counting!Gathered, MapThenFoldSet,
     Counting!MapThenFoldSet, CountNext

ScanNext(c, sofar, i) == c[1][i].metrics[c[2]] + sofar
Scanning == INSTANCE FoldLaws WITH Op <- ScanNext, Base <- 0

LEMMA ScanFold ==
    \A t, m, S : MapThenSumSet(LAMBDA i : t[i].metrics[m], S)
                    = Scanning!Gathered(<<t, m>>, S)
  BY Zenon DEF MapThenSumSet, Scanning!Gathered, MapThenFoldSet,
     Scanning!MapThenFoldSet, ScanNext

LEMMA DescribedInOrder ==
    ASSUME NEW v \in Seq(Int)
    PROVE  /\ Describe(v).n = Len(v)
           /\ Len(v) # 0 =>
                /\ Describe(v).sum = Sum(v)
                /\ 4 * Describe(v).minimum <= Describe(v).q1
                /\ Describe(v).q1 <= 2 * Describe(v).median2
                /\ 2 * Describe(v).median2 <= Describe(v).q3
                /\ Describe(v).q3 <= 4 * Describe(v).maximum
<1> DEFINE n == Len(v)
           o == Ascending(v)
           spread == n * Sum([i \in 1..n |-> v[i] * v[i]]) - Sum(v) * Sum(v)
           all == [n |-> n, sum |-> Sum(v), median2 |-> Median2(o),
                   minimum |-> o[1], maximum |-> o[n],
                   q1 |-> Percentile(o, 1), q3 |-> Percentile(o, 3),
                   variance |-> spread]
<1>1. Describe(v) = IF n = 0 THEN [n |-> 0] ELSE all
  BY Zenon DEF Describe, Ascending
<1>2. n \in Nat
  OBVIOUS
<1> HIDE DEF n, spread
<1>3. n = Len(v)
  BY DEF n
<1>4. CASE n = 0
  BY <1>1, <1>3, <1>4
<1>5. CASE n # 0
  <2>1. /\ o \in Seq(Int) /\ Len(o) = n
        /\ \A r, q \in 1..n : r <= q => o[r] <= o[q]
    BY <1>3, SortedInts
  <2> HIDE DEF o
  <2>2. /\ 4 * o[1] <= Percentile(o, 1)
        /\ Percentile(o, 1) <= 2 * Median2(o)
        /\ 2 * Median2(o) <= Percentile(o, 3)
        /\ Percentile(o, 3) <= 4 * o[n]
    BY <1>2, <1>5, <2>1, QuartilesInOrder
  <2>3. /\ Describe(v).n = n /\ Describe(v).sum = Sum(v)
        /\ Describe(v).minimum = o[1] /\ Describe(v).maximum = o[n]
        /\ Describe(v).q1 = Percentile(o, 1)
        /\ Describe(v).q3 = Percentile(o, 3)
        /\ Describe(v).median2 = Median2(o)
    <3>1. Describe(v) = all
      BY <1>1, <1>5
    <3> QED
      BY <3>1
  <2> QED
    BY <1>3, <2>2, <2>3
<1> QED
  BY <1>4, <1>5

-----------------------------------------------------------------------------
(* Samples as the numbers of a set of scans, each taken once.                *)

\* The numbers of the scans S, in some order and each once.
NumbersOf(t, m, q) == [k \in DOMAIN q |-> t[q[k]].metrics[m]]
Listed(values, t, m, S) ==
    \E q \in Seq(S) :
       /\ \A i, j \in DOMAIN q : q[i] = q[j] => i = j
       /\ S = {q[i] : i \in DOMAIN q}
       /\ values = NumbersOf(t, m, q)

LEMMA ListedSum ==
    ASSUME NEW values, NEW t, NEW m, NEW S, Listed(values, t, m, S),
           \A i \in S : t[i].metrics[m] \in Int
    PROVE  /\ values \in Seq(Int)
           /\ IsFiniteSet(S) /\ Len(values) = Cardinality(S)
           /\ Sum(values) = Scanning!Gathered(<<t, m>>, S)
<1>1. PICK q \in Seq(S) :
         /\ \A i, j \in DOMAIN q : q[i] = q[j] => i = j
         /\ S = {q[i] : i \in DOMAIN q}
         /\ values = NumbersOf(t, m, q)
  BY DEF Listed
<1> DEFINE n == Len(q)
           c == <<t, m>>
<1>2. /\ n \in Nat /\ DOMAIN q = 1..n /\ q \in [1..n -> S]
      /\ \A i, j \in 1..n : q[i] = q[j] => i = j
  BY <1>1
<1>3. values \in Seq(Int) /\ Len(values) = n
  BY <1>1, <1>2 DEF NumbersOf
<1>4. IsFiniteSet(S) /\ Cardinality(S) = n
  <2>1. \A x \in S : \E i \in 1..n : q[i] = x
    BY <1>1, <1>2
  <2>2. q \in Bijection(1..n, S)
    BY <1>2, <2>1, Fun_IsBij
  <2>3. ExistsBijection(1..n, S)
    BY <2>2 DEF ExistsBijection
  <2> HIDE DEF n
  <2>4. n \in Int /\ 1 \in Int
    BY <1>2
  <2>5. IsFiniteSet(1..n) /\ Cardinality(1..n) = n
    BY <1>2, <2>4, FS_Interval
  <2> QED
    BY <2>3, <2>5, FS_Bijection
<1> HIDE DEF n
<1>5. c[1] = t /\ c[2] = m
  OBVIOUS
<1> HIDE DEF c
<1>6. \A i \in S : \A x : ScanNext(c, x, i) = t[i].metrics[m] + x
  BY <1>5 DEF ScanNext
<1>7. Scanning!Commutes(c, Int, S)
  BY <1>6 DEF Scanning!Commutes
<1>8. Scanning!Folded(c, q) = Scanning!Gathered(c, S)
  BY <1>1, <1>7, Scanning!GatheredAlong
<1> DEFINE Same(s) == /\ Scanning!Folded(c, s) \in Int
                      /\ Adding!Folded(None, NumbersOf(t, m, s))
                            = Scanning!Folded(c, s)
           L == {s \in Seq(S) : Same(s)}
<1>9. <<>> \in L
  <2>1. NumbersOf(t, m, <<>>) = <<>>
    BY DEF NumbersOf
  <2>2. Scanning!Folded(c, <<>>) = 0 /\ Adding!Folded(None, <<>>) = 0
    BY Scanning!FoldedEmpty, Adding!FoldedEmpty
  <2> QED
    BY <2>1, <2>2
<1>10. ASSUME NEW s \in Seq(S), NEW i \in S, s \in L
       PROVE  Append(s, i) \in L
  <2> DEFINE v == NumbersOf(t, m, s)
             x == t[i].metrics[m]
  <2>1. NumbersOf(t, m, Append(s, i)) = Append(v, x)
    BY DEF NumbersOf
  <2>2. v \in Seq(Int) /\ x \in Int
    BY DEF NumbersOf
  <2> HIDE DEF v, x
  <2>3. Adding!Folded(None, Append(v, x)) = Adding!Folded(None, v) + x
    BY <2>2, Adding!FoldedAppend DEF AddNext
  <2>4. Scanning!Folded(c, Append(s, i)) = x + Scanning!Folded(c, s)
    BY <1>6, Scanning!FoldedAppend DEF x
  <2>5. /\ Scanning!Folded(c, s) \in Int
        /\ Adding!Folded(None, v) = Scanning!Folded(c, s)
    BY <1>10 DEF v
  <2>6. Append(s, i) \in Seq(S)
    OBVIOUS
  <2>7. Same(Append(s, i))
    BY <2>1, <2>2, <2>3, <2>4, <2>5
  <2> HIDE DEF Same
  <2> QED
    BY <2>6, <2>7
<1> HIDE DEF L
<1>11. q \in L
  BY <1>1, <1>9, <1>10, Scanning!SeqSetInduction
<1>12. Sum(values) = Scanning!Gathered(c, S)
  BY <1>1, <1>8, <1>11, SumFold DEF L
<1> QED
  BY <1>3, <1>4, <1>12 DEF c, n

LEMMA ListedEmpty == \A t, m : Listed(<<>>, t, m, {})
<1> TAKE t, m
<1>1. <<>> \in Seq({}) /\ {<<>>[i] : i \in DOMAIN <<>>} = {}
  OBVIOUS
<1>2. NumbersOf(t, m, <<>>) = <<>>
  BY DEF NumbersOf
<1>3. \A i, j \in DOMAIN <<>> : <<>>[i] = <<>>[j] => i = j
  OBVIOUS
<1> QED
  BY <1>1, <1>2, <1>3 DEF Listed

LEMMA ListedOne ==
    ASSUME NEW t, NEW m, NEW i
    PROVE  Listed(<<t[i].metrics[m]>>, t, m, {i})
<1> DEFINE q == <<i>>
<1>1. q \in Seq({i}) /\ DOMAIN q = {1} /\ q[1] = i
  OBVIOUS
<1> HIDE DEF q
<1>2. NumbersOf(t, m, q) = <<t[i].metrics[m]>>
  <2>1. NumbersOf(t, m, q) = [k \in {1} |-> t[i].metrics[m]]
    BY <1>1 DEF NumbersOf
  <2> DEFINE x == t[i].metrics[m]
  <2> HIDE DEF x
  <2>2. [k \in {1} |-> x] = <<x>>
    OBVIOUS
  <2> QED
    BY <2>1, <2>2 DEF x
<1>3. {i} = {q[k] : k \in DOMAIN q}
  BY <1>1
<1> QED
  BY <1>1, <1>2, <1>3 DEF Listed

LEMMA ListedJoin ==
    ASSUME NEW t, NEW m, NEW v, NEW S, Listed(v, t, m, S),
           NEW w, NEW R, Listed(w, t, m, R), S \cap R = {}
    PROVE  Listed(v \o w, t, m, S \cup R)
<1>1. PICK q \in Seq(S) :
         /\ \A i, j \in DOMAIN q : q[i] = q[j] => i = j
         /\ S = {q[i] : i \in DOMAIN q}
         /\ v = NumbersOf(t, m, q)
  BY DEF Listed
<1>2. PICK r \in Seq(R) :
         /\ \A i, j \in DOMAIN r : r[i] = r[j] => i = j
         /\ R = {r[i] : i \in DOMAIN r}
         /\ w = NumbersOf(t, m, r)
  BY DEF Listed
<1> DEFINE b == q \o r
           n == Len(q)
           k == Len(r)
<1>3. /\ n \in Nat /\ k \in Nat /\ DOMAIN q = 1..n /\ DOMAIN r = 1..k
      /\ b \in Seq(S \cup R) /\ DOMAIN b = 1..(n + k)
      /\ \A i \in 1..n : b[i] = q[i] /\ q[i] \in S
      /\ \A i \in 1..(n + k) : ~(i <= n) =>
            /\ i - n \in 1..k /\ b[i] = r[i - n] /\ r[i - n] \in R
      /\ \A i \in 1..k : n + i \in 1..(n + k) /\ b[n + i] = r[i]
  <2>1. b \in Seq(S \cup R)
    <3>1. q \in Seq(S \cup R) /\ r \in Seq(S \cup R)
      OBVIOUS
    <3> QED
      BY <3>1
  <2> QED
    BY <2>1
<1> HIDE DEF b, n, k
<1>4. \A i, j \in DOMAIN b : b[i] = b[j] => i = j
  <2> TAKE i, j \in DOMAIN b
  <2>1. i \in Int /\ j \in Int /\ i \in 1..(n + k) /\ j \in 1..(n + k)
    BY <1>3
  <2>2. CASE i <= n /\ j <= n
    BY <1>1, <1>3, <2>1, <2>2
  <2>3. CASE ~(i <= n) /\ ~(j <= n)
    <3>1. b[i] = b[j] => i - n = j - n
      BY <1>2, <1>3, <2>1, <2>3
    <3> QED
      BY <1>3, <2>1, <3>1
  <2>4. CASE i <= n /\ ~(j <= n)
    <3>1. b[i] \in S /\ b[j] \in R
      BY <1>3, <2>1, <2>4
    <3> QED
      BY <3>1
  <2>5. CASE ~(i <= n) /\ j <= n
    <3>1. b[i] \in R /\ b[j] \in S
      BY <1>3, <2>1, <2>5
    <3> QED
      BY <3>1
  <2> QED
    BY <2>2, <2>3, <2>4, <2>5
<1>5. S \cup R = {b[i] : i \in DOMAIN b}
  <2>1. \A x \in S : \E i \in DOMAIN b : x = b[i]
    <3> TAKE x \in S
    <3>1. PICK i \in 1..n : x = q[i]
      BY <1>1, <1>3
    <3>2. i \in DOMAIN b /\ b[i] = q[i]
      BY <1>3
    <3> QED
      BY <3>1, <3>2
  <2>2. \A x \in R : \E i \in DOMAIN b : x = b[i]
    <3> TAKE x \in R
    <3>1. PICK i \in 1..k : x = r[i]
      BY <1>2, <1>3
    <3> QED
      BY <1>3, <3>1
  <2>3. \A i \in DOMAIN b : b[i] \in S \cup R
    BY <1>3
  <2> QED
    BY <2>1, <2>2, <2>3
<1>6. v \o w = NumbersOf(t, m, b)
  <2> DEFINE F(i) == t[i].metrics[m]
  <2>1. /\ v = [i \in 1..n |-> F(q[i])]
        /\ w = [i \in 1..k |-> F(r[i])]
        /\ NumbersOf(t, m, b) = [i \in 1..(n + k) |-> F(b[i])]
    BY <1>1, <1>2, <1>3 DEF NumbersOf
  <2> HIDE DEF F
  <2> DEFINE V == {F(x) : x \in S \cup R}
             J == [i \in 1..(n + k) |-> F(b[i])]
  <2>2. v \in Seq(V) /\ w \in Seq(V) /\ Len(v) = n /\ Len(w) = k
    BY <1>3, <2>1
  <2> HIDE DEF V
  <2>3. /\ v \o w \in Seq(V) /\ DOMAIN (v \o w) = 1..(n + k)
        /\ \A i \in 1..n : (v \o w)[i] = v[i]
        /\ \A i \in 1..(n + k) : ~(i <= n) => (v \o w)[i] = w[i - n]
    BY <1>3, <2>2
  <2>4. \A i \in 1..(n + k) : (v \o w)[i] = F(b[i])
    <3> TAKE i \in 1..(n + k)
    <3>1. CASE i <= n
      <4>1. i \in 1..n
        BY <1>3, <3>1
      <4> QED
        BY <1>3, <2>1, <2>3, <4>1
    <3>2. CASE ~(i <= n)
      <4>1. (v \o w)[i] = w[i - n] /\ i - n \in 1..k /\ b[i] = r[i - n]
        BY <1>3, <2>3, <3>2
      <4> QED
        BY <2>1, <4>1
    <3> QED
      BY <3>1, <3>2
  <2> DEFINE joined == v \o w
  <2>5. joined \in Seq(V) /\ DOMAIN joined = 1..(n + k)
    BY <2>3
  <2> HIDE DEF joined
  <2>6. joined = [i \in 1..(n + k) |-> joined[i]]
    BY <2>5
  <2>7. [i \in 1..(n + k) |-> joined[i]] = [i \in 1..(n + k) |-> F(b[i])]
    BY <2>4 DEF joined
  <2> QED
    BY <2>1, <2>6, <2>7 DEF joined
<1> QED
  BY <1>3, <1>4, <1>5, <1>6 DEF Listed

\* The scans that have a number for a metric.
Having(t, m, S) == {i \in S : m \in DOMAIN t[i].metrics}

\* What a device contributes for a direction is what its best scan has.
LEMMA DirectionListed ==
    ASSUME NEW f \in Files, NEW d, DeviceOK(f, 7, d), d.traces # <<>>,
           NEW x \in Directions, NEW m
    PROVE  Listed(Sample(d.metrics[x], m), Traces(f), m,
                  Having(Traces(f), m,
                         Tops(OfDevice(f, d.label), x, Traces(f))))
<1> DEFINE T == Traces(f)
           best == Representative(d.traces, x)
           tops == Tops(OfDevice(f, d.label), x, T)
           had == d.metrics[x]
<1>1. d.traces = Own(f, d.label) /\ NumbersOK(7, d.metrics, d.traces)
  BY Zenon DEF DeviceOK
<1>2. SameMetrics(had, best)
  BY <1>1 DEF NumbersOK
<1>3. Chosen(OfDevice(f, d.label), x, T, best)
  BY <1>1, RepresentativeOfDevice
<1> HIDE DEF T, best, had, tops
<1>4. CASE ~Found(best)
  <2>1. Rated(OfDevice(f, d.label), x, T) = {}
    BY <1>3, <1>4 DEF Chosen
  <2>2. tops = {}
    BY <2>1 DEF Tops, tops
  <2>3. ~Found(had)
    BY <1>2, <1>4 DEF SameMetrics
  <2>4. Sample(had, m) = <<>>
    BY <2>3 DEF Sample, Found
  <2>5. Having(T, m, tops) = {}
    BY <2>2 DEF Having
  <2>6. Listed(<<>>, T, m, {})
    BY ListedEmpty
  <2> QED
    BY <2>4, <2>5, <2>6 DEF T, had, tops
<1>5. CASE Found(best)
  <2>1. PICK i \in DOMAIN T : best = T[i].metrics /\ tops = {i}
    BY <1>3, <1>5 DEF Chosen, tops
  <2>2. had = T[i].metrics
    BY <1>2, <1>5, <2>1 DEF SameMetrics
  <2>3. CASE m \in DOMAIN T[i].metrics
    <3>1. Sample(had, m) = <<T[i].metrics[m]>>
      BY <2>2, <2>3 DEF Sample
    <3>2. Having(T, m, tops) = {i}
      BY <2>1, <2>3 DEF Having
    <3>3. Listed(<<T[i].metrics[m]>>, T, m, {i})
      BY ListedOne
    <3> QED
      BY <3>1, <3>2, <3>3 DEF T, had, tops
  <2>4. CASE m \notin DOMAIN T[i].metrics
    <3>1. Sample(had, m) = <<>>
      BY <2>2, <2>4 DEF Sample
    <3>2. Having(T, m, tops) = {}
      BY <2>1, <2>4 DEF Having
    <3>3. Listed(<<>>, T, m, {})
      BY ListedEmpty
    <3> QED
      BY <3>1, <3>2, <3>3 DEF T, had, tops
  <2> QED
    BY <2>3, <2>4
<1> QED
  BY <1>4, <1>5

\* A device contributes the numbers of its best scans, one for a direction.
LEMMA DeviceListed ==
    ASSUME NEW f \in Files, NEW d, DeviceOK(f, 7, d), d.traces # <<>>, NEW m
    PROVE  Listed(DeviceValues(d, m), Traces(f), m,
                  Having(Traces(f), m, BestScans(Traces(f), d.label)))
<1> DEFINE T == Traces(f)
           Of(x) == Tops(OfDevice(f, d.label), x, T)
           forward == Having(T, m, Of("forward"))
           reverse == Having(T, m, Of("reverse"))
<1>1. /\ Listed(Sample(d.metrics["forward"], m), T, m, forward)
      /\ Listed(Sample(d.metrics["reverse"], m), T, m, reverse)
  <2>1. "forward" \in Directions /\ "reverse" \in Directions
    BY DEF Directions
  <2> QED
    BY <2>1, DirectionListed
<1>2. DeviceValues(d, m) = Sample(d.metrics["forward"], m)
                              \o Sample(d.metrics["reverse"], m)
  BY DEF DeviceValues
<1>3. BestScans(T, d.label) = UNION {Of(x) : x \in Directions}
  BY BestScansAreTops
<1>4. \A x : \A i \in Of(x) : T[i].direction = x
  BY DEF Tops, Rated
<1> HIDE DEF T, Of
<1>5. forward \cap reverse = {}
  <2>1. \A i \in forward : T[i].direction = "forward"
    BY <1>4 DEF Having
  <2>2. \A i \in reverse : T[i].direction = "reverse"
    BY <1>4 DEF Having
  <2> QED
    BY <2>1, <2>2
<1>6. BestScans(T, d.label) = Of("forward") \cup Of("reverse")
  BY <1>3 DEF Directions
<1>7. Having(T, m, BestScans(T, d.label)) = forward \cup reverse
  BY <1>6 DEF Having
<1> HIDE DEF forward, reverse
<1> DEFINE v == Sample(d.metrics["forward"], m)
           w == Sample(d.metrics["reverse"], m)
<1> HIDE DEF v, w
<1>8. Listed(v, T, m, forward) /\ Listed(w, T, m, reverse)
  BY <1>1 DEF v, w
<1>9. Listed(v \o w, T, m, forward \cup reverse)
  BY <1>5, <1>8, ListedJoin
<1> QED
  BY <1>2, <1>7, <1>9 DEF T, v, w

\* The sample of a group has the numbers of the best scans of its devices.
LEMMA GroupListed ==
    ASSUME NEW f \in Files, NEW a, AnalysisOK(f, a), a.version = 7,
           \A d \in a.devices : d.traces # <<>>, NEW g, NEW m
    PROVE  Listed(GroupValues(a.devices, g, m), Traces(f), m,
                  Having(Traces(f), m,
                         UNION {BestScans(Traces(f), d.label) :
                                   d \in Counted(a.devices, g)}))
<1> DEFINE T == Traces(f)
           C == Counted(a.devices, g)
           Best(d) == BestScans(T, d.label)
           Scans(s) == Having(T, m, UNION {Best(s[i]) : i \in DOMAIN s})
           Once(s) == \A i, j \in DOMAIN s : s[i] = s[j] => i = j
           L == {s \in Seq(C) :
                    Once(s) => Listed(Joining!Folded(m, s), T, m, Scans(s))}
<1>1. C \in SUBSET a.devices
  BY DEF Counted, Assigned
<1>2. \A d \in C : Listed(DeviceValues(d, m), T, m, Having(T, m, Best(d)))
  <2>1. \A d \in a.devices : DeviceOK(f, 7, d)
    BY Zenon DEF AnalysisOK
  <2> QED
    BY <1>1, <2>1, DeviceListed
<1>3. \A d, e \in C : d # e => Best(d) \cap Best(e) = {}
  <2>1. \A d, e \in C : d.label = e.label => d = e
    BY <1>1 DEF AnalysisOK
  <2>2. \A d : \A i \in Best(d) : DeviceLabel(T[i].label) = d.label
    BY DEF BestScans, ScansOf
  <2> HIDE DEF Best
  <2> QED
    BY <2>1, <2>2
<1>4. /\ SetToSeq(C) \in Seq(C) /\ Once(SetToSeq(C))
      /\ {SetToSeq(C)[i] : i \in DOMAIN SetToSeq(C)} = C
  <2>1. IsFiniteSet(C)
    BY <1>1, DevicesFinite, FS_Subset
  <2> HIDE DEF C
  <2> QED
    BY <2>1, SetInARow DEF IsInjective, ToSet
<1>5. GroupValues(a.devices, g, m) = Joining!Folded(m, SetToSeq(C))
  BY GroupValuesFold
<1> HIDE DEF T, C, Best
<1>6. <<>> \in L
  <2>1. Joining!Folded(m, <<>>) = <<>>
    BY Joining!FoldedEmpty
  <2>2. Scans(<<>>) = {}
    BY DEF Having
  <2>3. Listed(<<>>, T, m, {})
    BY ListedEmpty
  <2> HIDE DEF Scans
  <2>4. <<>> \in Seq(C)
    OBVIOUS
  <2> QED
    BY <2>1, <2>2, <2>3, <2>4
<1>7. ASSUME NEW s \in Seq(C), NEW d \in C, s \in L
      PROVE  Append(s, d) \in L
  <2> DEFINE more == Append(s, d)
             v == Joining!Folded(m, s)
             w == DeviceValues(d, m)
  <2>1. /\ DOMAIN more = 1..(Len(s) + 1) /\ DOMAIN s = 1..Len(s)
        /\ more[Len(s) + 1] = d /\ \A i \in DOMAIN s : more[i] = s[i]
        /\ more \in Seq(C) /\ Len(s) \in Nat
        /\ \A i \in DOMAIN s : s[i] \in C
    OBVIOUS
  <2>2. Joining!Folded(m, more) = v \o w
    BY Joining!FoldedAppend DEF JoinNext
  <2> HIDE DEF more
  <2> SUFFICES ASSUME Once(more)
               PROVE  Listed(Joining!Folded(m, more), T, m, Scans(more))
    BY <2>1 DEF more
  <2>3. Once(s) /\ \A i \in DOMAIN s : s[i] # d
    BY <2>1
  <2>4. Listed(v, T, m, Scans(s))
    BY <1>7, <2>3
  <2>5. Scans(s) \cap Having(T, m, Best(d)) = {}
    <3>1. \A i \in DOMAIN s : Best(s[i]) \cap Best(d) = {}
      BY <1>3, <2>1, <2>3
    <3> QED
      BY <3>1 DEF Having
  <2>6. Scans(more) = Scans(s) \cup Having(T, m, Best(d))
    <3>1. {Best(more[i]) : i \in DOMAIN more}
             = {Best(s[i]) : i \in DOMAIN s} \cup {Best(d)}
      BY <2>1
    <3> QED
      BY <3>1 DEF Having
  <2>7. Listed(w, T, m, Having(T, m, Best(d)))
    BY <1>2
  <2> DEFINE S == Scans(s)
             R == Having(T, m, Best(d))
  <2> HIDE DEF S, R, v, w
  <2>8. Listed(v \o w, T, m, S \cup R)
    <3>1. Listed(v, T, m, S) /\ Listed(w, T, m, R) /\ S \cap R = {}
      BY <2>4, <2>5, <2>7 DEF S, R
    <3> QED
      BY <3>1, ListedJoin
  <2> QED
    BY <2>2, <2>6, <2>8 DEF S, R
<1> HIDE DEF L
<1>8. SetToSeq(C) \in L
  BY <1>4, <1>6, <1>7, Joining!SeqSetInduction
<1> DEFINE all == SetToSeq(C)
<1> HIDE DEF all
<1>9. Listed(Joining!Folded(m, all), T, m, Scans(all))
  BY <1>4, <1>8 DEF L, all
<1>10. {Best(all[i]) : i \in DOMAIN all} = {Best(d) : d \in C}
  <2>1. {all[i] : i \in DOMAIN all} = C
    BY <1>4 DEF all
  <2> QED
    BY <2>1
<1> QED
  BY <1>5, <1>9, <1>10 DEF T, C, Best, all

-----------------------------------------------------------------------------
(* The statistics of the last save.                                          *)

LEMMA GroupIdsFinite == IsFiniteSet(GroupIds)
<1> DEFINE I == DOMAIN Groups
           g == [i \in I |-> Groups[i].id]
<1>1. IsFiniteSet(I)
  <2>1. Len(Groups) \in Nat /\ I = 1..Len(Groups)
    BY GroupsAssumption
  <2> QED
    BY <2>1, FS_Interval
<1>2. \A i \in I : g[i] = Groups[i].id
  OBVIOUS
<1>3. g \in [I -> GroupIds]
  BY DEF GroupIds, ToSet
<1>4. \A x \in GroupIds : \E i \in I : g[i] = x
  BY <1>2 DEF GroupIds, ToSet
<1> HIDE DEF g
<1>5. g \in Surjection(I, GroupIds)
  BY <1>3, <1>4, Fun_IsSurj
<1> QED
  BY <1>1, <1>5, FS_Surjection

\* Each device is counted in one group.
LEMMA DevicesCounted ==
    ASSUME NEW D, IsFiniteSet(D), \A d \in D : d.group \in GroupIds,
           NEW row,
           \A g \in GroupIds : row[g].devices = Cardinality(Assigned(D, g))
    PROVE  Counting!Gathered(row, GroupIds) = Cardinality(D)
<1> DEFINE G == GroupIds
           all == SetToSeq(G)
           Once(s) == \A i, j \in DOMAIN s : s[i] = s[j] => i = j
           In(s) == {d \in D : \E i \in DOMAIN s : d.group = s[i]}
           L == {s \in Seq(G) :
                    Once(s) => Counting!Folded(row, s) = Cardinality(In(s))}
<1>1. /\ all \in Seq(G) /\ Once(all) /\ {all[i] : i \in DOMAIN all} = G
  BY GroupIdsFinite, SetInARow DEF IsInjective, ToSet
<1>2. \A g \in G : /\ IsFiniteSet(Assigned(D, g))
                   /\ Cardinality(Assigned(D, g)) \in Nat
  <2>1. \A g \in G : Assigned(D, g) \in SUBSET D
    BY DEF Assigned
  <2> QED
    BY <2>1, FS_Subset, FS_CardinalityType
<1>3. Counting!Commutes(row, Nat, G)
  BY <1>2 DEF Counting!Commutes, CountNext
<1> HIDE DEF G, all
<1>4. Counting!Folded(row, all) = Counting!Gathered(row, G)
  BY <1>1, <1>3, Counting!GatheredAlong
<1>5. <<>> \in L
  <2>1. Counting!Folded(row, <<>>) = 0
    BY Counting!FoldedEmpty
  <2>2. In(<<>>) = {}
    OBVIOUS
  <2> HIDE DEF In
  <2>3. <<>> \in Seq(G)
    OBVIOUS
  <2> QED
    BY <2>1, <2>2, <2>3, FS_EmptySet
<1>6. ASSUME NEW s \in Seq(G), NEW g \in G, s \in L
      PROVE  Append(s, g) \in L
  <2> DEFINE more == Append(s, g)
             old == In(s)
             new == Assigned(D, g)
  <2>1. /\ DOMAIN more = 1..(Len(s) + 1) /\ DOMAIN s = 1..Len(s)
        /\ more[Len(s) + 1] = g /\ \A i \in DOMAIN s : more[i] = s[i]
        /\ more \in Seq(G) /\ Len(s) \in Nat
    OBVIOUS
  <2>2. Counting!Folded(row, more) = row[g].devices + Counting!Folded(row, s)
    BY Counting!FoldedAppend DEF CountNext
  <2> HIDE DEF more
  <2> SUFFICES ASSUME Once(more)
               PROVE  Counting!Folded(row, more) = Cardinality(In(more))
    BY <2>1 DEF more
  <2>3. Once(s) /\ \A i \in DOMAIN s : s[i] # g
    BY <2>1
  <2>4. In(more) = old \cup new /\ old \cap new = {}
    <3>1. \A d \in D : (\E i \in DOMAIN more : d.group = more[i])
                          <=> d.group = g \/ \E i \in DOMAIN s : d.group = s[i]
      BY <2>1
    <3> QED
      BY <2>3, <3>1 DEF Assigned
  <2>5. Counting!Folded(row, s) = Cardinality(old)
    BY <1>6, <2>3
  <2>6. old \in SUBSET D
    OBVIOUS
  <2> HIDE DEF old, new, In
  <2>7. IsFiniteSet(old) /\ IsFiniteSet(new)
    BY <1>2, <2>6, FS_Subset DEF new
  <2>8. Cardinality(old \cup new) = Cardinality(old) + Cardinality(new)
    <3>1. /\ Cardinality(old) \in Nat /\ Cardinality(new) \in Nat
          /\ Cardinality(old \cap new) = 0
      BY <2>4, <2>7, FS_CardinalityType, FS_EmptySet
    <3>2. Cardinality(old \cup new) = Cardinality(old) + Cardinality(new)
                                         - Cardinality(old \cap new)
      BY <2>7, FS_Union
    <3> QED
      BY <3>1, <3>2
  <2>9. row[g].devices = Cardinality(new)
    BY DEF new, G
  <2>10. Cardinality(old) \in Nat /\ Cardinality(new) \in Nat
    BY <2>7, FS_CardinalityType
  <2> QED
    BY <2>2, <2>4, <2>5, <2>8, <2>9, <2>10
<1> HIDE DEF L
<1>7. all \in L
  BY <1>1, <1>5, <1>6, Counting!SeqSetInduction
<1>8. In(all) = D
  <2>1. \A d \in D : \E i \in DOMAIN all : d.group = all[i]
    BY <1>1 DEF G
  <2> QED
    BY <2>1
<1> QED
  BY <1>1, <1>4, <1>7, <1>8 DEF L, G

LEMMA RowOfGroup ==
    ASSUME NEW D, NEW g \in GroupIds
    PROVE  LET row == GroupStatistics(D).groups[g]
           IN /\ row.devices = Cardinality(Assigned(D, g))
              /\ \A m \in ToSet(Metrics) :
                    row.metrics[m] = Describe(GroupValues(D, g, m))
<1> DEFINE h == CHOOSE k \in ToSet(Groups) : k.id = g
           row == GroupStatistics(D).groups[g]
<1>1. h.id = g
  BY DEF GroupIds
<1>2. row = GroupRow(D, h)
  BY DEF GroupStatistics, GroupIds
<1> HIDE DEF h, row
<1>3. /\ row.devices = Cardinality(Assigned(D, h.id))
      /\ row.metrics = [m \in ToSet(Metrics) |->
                           Describe(GroupValues(D, h.id, m))]
  BY <1>2 DEF GroupRow
<1>4. \A m \in ToSet(Metrics) :
         row.metrics[m] = Describe(GroupValues(D, g, m))
  BY <1>1, <1>3
<1> QED
  BY <1>1, <1>3, <1>4 DEF row

\* A device without numbers has no best scan, so the devices counted are those
\* of the save's groups and exclusions.
LEMMA CountedAreIncluded ==
    ASSUME AnalysesOK, latest # None, WithScans, NEW g \in GroupIds
    PROVE  UNION {BestScans(Traces(file), d.label) :
                     d \in Counted(stored.devices, g)}
              = IncludedScans(Traces(file), g)
<1> DEFINE T == Traces(file)
           D == stored.devices
           included == {l \in DeviceLabels(file) :
                          /\ latest.group[Identity(l).substrate] = g
                          /\ l \notin latest.excluded}
<1>1. /\ file \in Files /\ AnalysisOK(file, stored) /\ stored.version = 7
      /\ \A d \in D : /\ d.group = latest.group[d.substrate]
                      /\ d.excluded = (d.label \in latest.excluded)
  BY Zenon DEF AnalysesOK, SavedAsChosen
<1>2. \A d \in D : d.label \in DeviceLabels(file)
                   /\ d.substrate = Identity(d.label).substrate
  BY <1>1, DeviceIdentity
<1>3. IncludedScans(T, g) = UNION {BestScans(T, l) : l \in included}
  BY Zenon DEF IncludedScans
<1>4. \A d \in Counted(D, g) : d \in D /\ d.group = g /\ ~d.excluded
  BY DEF Counted, Assigned
<1>5. \A d \in Counted(D, g) : d.label \in included
  BY <1>1, <1>2, <1>4
<1>6. ASSUME NEW d \in D, d.label \in included
      PROVE  d \in Counted(D, g) \/ BestScans(T, d.label) = {}
  <2>1. d.group = g /\ ~d.excluded
    BY <1>1, <1>2, <1>6
  <2>2. CASE HasMetrics(d)
    BY <2>1, <2>2 DEF Counted, Assigned
  <2>3. CASE ~HasMetrics(d)
    <3>1. DeviceOK(file, 7, d) /\ d.traces # <<>>
      <4>1. DeviceOK(file, 7, d)
        BY <1>1, Zenon DEF AnalysisOK
      <4> QED
        BY <4>1 DEF WithScans
    <3>2. /\ d.traces = Own(file, d.label)
          /\ NumbersOK(7, d.metrics, d.traces)
          /\ d.metrics = [forward |-> d.metrics.forward,
                          reverse |-> d.metrics.reverse,
                          combined |-> d.metrics.combined,
                          flat |-> d.metrics.flat]
      BY <3>1, Zenon DEF DeviceOK
    <3> DEFINE M == d.metrics
               Of(x) == Tops(OfDevice(file, d.label), x, T)
               best(x) == Representative(d.traces, x)
    <3>3. DOMAIN M = {"forward", "reverse", "combined", "flat"}
      BY <3>2
    <3>4. \A x \in Directions : ~Found(M[x])
      BY <2>3, <3>3 DEF HasMetrics, Directions
    <3>5. \A x \in Directions : SameMetrics(M[x], best(x))
      <4> TAKE x \in Directions
      <4> QED
        BY <3>1, <3>2 DEF NumbersOK
    <3>6. \A x \in Directions :
             Chosen(OfDevice(file, d.label), x, T, best(x))
      BY <1>1, <3>2, RepresentativeOfDevice
    <3> HIDE DEF M, best, T
    <3>7. \A x \in Directions : ~Found(best(x))
      BY <3>4, <3>5 DEF SameMetrics
    <3>8. \A x \in Directions : Of(x) = {}
      BY <3>6, <3>7 DEF Chosen, Tops
    <3>9. BestScans(T, d.label) = UNION {Of(x) : x \in Directions}
      BY <1>1, BestScansAreTops DEF T
    <3> HIDE DEF Of
    <3>10. BestScans(T, d.label) = {}
      BY <3>8, <3>9
    <3> QED
      BY <3>10
  <2> QED
    BY <2>2, <2>3
<1>7. \A l \in included : \E d \in D : d.label = l
  BY <1>1 DEF AnalysisOK
<1> DEFINE Best(l) == BestScans(T, l)
           C == Counted(D, g)
<1> HIDE DEF Best, included, C
<1>8. UNION {Best(d.label) : d \in C} = UNION {Best(l) : l \in included}
  <2>1. \A i : (\E d \in C : i \in Best(d.label))
                  => \E l \in included : i \in Best(l)
    BY <1>5 DEF C
  <2>2. \A i : (\E l \in included : i \in Best(l))
                  => \E d \in C : i \in Best(d.label)
    BY <1>6, <1>7 DEF C, Best
  <2> QED
    BY <2>1, <2>2
<1> QED
  BY <1>3, <1>8 DEF Best, C

LEMMA SampleAgrees ==
    ASSUME AnalysesOK, latest # None, WithScans,
           NEW g \in GroupIds, NEW m \in ToSet(Metrics)
    PROVE  Agrees(stored.statistics.groups[g].metrics[m], m, Traces(file),
                  {i \in IncludedScans(Traces(file), g) :
                      m \in DOMAIN Traces(file)[i].metrics})
<1> DEFINE T == Traces(file)
           values == GroupValues(stored.devices, g, m)
           scans == Having(T, m, IncludedScans(T, g))
           summary == stored.statistics.groups[g].metrics[m]
<1>1. /\ file \in Files /\ AnalysisOK(file, stored) /\ stored.version = 7
      /\ stored.statistics = GroupStatistics(stored.devices)
      /\ \A d \in stored.devices : d.traces # <<>>
  BY Zenon DEF AnalysesOK, SavedAsChosen, WithScans
<1>2. Listed(values, T, m, scans)
  BY <1>1, GroupListed, CountedAreIncluded
<1>3. \A i \in scans : i \in DOMAIN T
  BY DEF Having, IncludedScans, BestScans, ScansOf
<1>4. \A i \in scans : T[i].metrics[m] \in Int
  <2>1. \A i \in DOMAIN T : Measured(T[i].metrics)
    BY <1>1, TracesTyped DEF ToSet
  <2> QED
    BY <1>3, <2>1 DEF Having, Measured
<1>5. summary = Describe(values)
  BY <1>1, RowOfGroup
<1> HIDE DEF T, values, summary
<1>6. /\ values \in Seq(Int)
      /\ IsFiniteSet(scans) /\ Len(values) = Cardinality(scans)
      /\ Sum(values) = MapThenSumSet(LAMBDA i : T[i].metrics[m], scans)
  <2> HIDE DEF scans
  <2>1. /\ values \in Seq(Int)
        /\ IsFiniteSet(scans) /\ Len(values) = Cardinality(scans)
        /\ Sum(values) = Scanning!Gathered(<<T, m>>, scans)
    BY <1>2, <1>4, ListedSum
  <2>2. MapThenSumSet(LAMBDA i : T[i].metrics[m], scans)
           = Scanning!Gathered(<<T, m>>, scans)
    BY ScanFold, Zenon
  <2> QED
    BY <2>1, <2>2, Zenon
<1>7. scans # {} => Len(values) # 0
  <2> HIDE DEF scans
  <2> QED
    BY <1>6, FS_EmptySet
<1>8. scans = {i \in IncludedScans(T, g) : m \in DOMAIN T[i].metrics}
  BY DEF Having
<1> HIDE DEF scans
<1>9. /\ summary.n = Cardinality(scans)
      /\ scans # {} =>
            /\ summary.sum = Sum(values)
            /\ 4 * summary.minimum <= summary.q1
            /\ summary.q1 <= 2 * summary.median2
            /\ 2 * summary.median2 <= summary.q3
            /\ summary.q3 <= 4 * summary.maximum
  BY <1>5, <1>6, <1>7, DescribedInOrder
<1>10. Agrees(summary, m, T, scans)
  BY <1>6, <1>9, Zenon DEF Agrees
<1> QED
  BY <1>8, <1>10 DEF T, summary

\* However often and from whatever older shape a file is saved, each device is
\* counted in one group, and the numbers of a group are those of the best scans
\* of the devices that the last save put into it and did not exclude.
THEOREM StatisticsAreConserved == Spec => []StatisticsConserve
<1>1. ASSUME AnalysesOK, latest # None, WithScans
      PROVE  LET traces == Traces(file)
                 row == stored.statistics.groups
             IN /\ MapThenSumSet(LAMBDA g : row[g].devices, GroupIds)
                      = Cardinality(DeviceLabels(file))
                /\ \A g \in GroupIds :
                      LET best == IncludedScans(traces, g)
                      IN \A m \in ToSet(Metrics) :
                            Agrees(row[g].metrics[m], m, traces,
                               {i \in best : m \in DOMAIN traces[i].metrics})
  <2> DEFINE row == stored.statistics.groups
  <2>1. /\ file \in Files /\ AnalysisOK(file, stored)
        /\ stored.statistics = GroupStatistics(stored.devices)
        /\ \A d \in stored.devices : d.group \in GroupIds
    BY <1>1, Zenon DEF AnalysesOK, SavedAsChosen
  <2>2. \A g \in GroupIds :
           row[g].devices = Cardinality(Assigned(stored.devices, g))
    BY <2>1, RowOfGroup
  <2>3. /\ IsFiniteSet(stored.devices)
        /\ Cardinality(stored.devices) = Cardinality(DeviceLabels(file))
    BY <2>1, DevicesFinite
  <2> HIDE DEF row
  <2>4. Counting!Gathered(row, GroupIds) = Cardinality(stored.devices)
    BY <2>1, <2>2, <2>3, DevicesCounted
  <2>5. MapThenSumSet(LAMBDA g : row[g].devices, GroupIds)
           = Cardinality(DeviceLabels(file))
    BY <2>3, <2>4, CountFold, Zenon
  <2> QED
    BY <1>1, <2>5, SampleAgrees, Zenon DEF row
<1>2. AnalysesOK => StatisticsConserve
  BY <1>1, Zenon DEF StatisticsConserve
<1> QED
  BY <1>2, AnalysesAreOK, PTL

=============================================================================
