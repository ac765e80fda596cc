------------------------ MODULE ResultAssignmentProofs ------------------------
(* Proofs about measured files, laser marks and the cache of representative   *)
(* scans, for any number of conditions, substrates, files, marks, channels    *)
(* and transactions.                                                          *)
EXTENDS ResultAssignment, FiniteSetTheorems, WellFoundedInduction, TLAPS

-----------------------------------------------------------------------------
(* The inductive invariant.                                                  *)

\* The tables are functions, so that writing one row leaves the others.
Tables ==
    /\ assigned = [f \in Files |-> assigned[f]]
    /\ stats = [k \in Slots |-> stats[k]]
    /\ txn = [t \in Txns |-> txn[t]]

\* Only an uploaded file is assigned.
UploadedFirst ==
    /\ IsFiniteSet(uploaded)
    /\ \A f \in Files : assigned[f] # None => f \in uploaded

\* Counts are entered by completion only.
CountedAtTheEnd ==
    batch # "completed" => \A c \in Conditions : actual[c] = None

\* What an assignment checked under the row locks is still true when it commits.
ApplyingChecked ==
    applying # None =>
        /\ applying.file \in uploaded
        /\ applying.seen \in [Slots -> Files \cup {None}]
        /\ CountsAgree(applying.file, applying.to.group)
        /\ MarksPlaced(applying.file, applying.to.group, applying.to.place)

\* Unless another commit to one of its devices came between, an assignment has
\* read the choices that are committed now,
AssignmentCurrent ==
    applying # None /\ "assignment" \notin overlapped =>
        \A k \in Touched(applying.file, applying.to) :
            applying.seen[k] = selection[k]

\* and a transaction about to write the cache of its device has derived it from
\* the choices and the assignments there are now.
ReadCurrent ==
    \A t \in Txns :
        txn[t] # None /\ txn[t].at = "read" /\ t \notin overlapped =>
        \A x \in Directions :
            LET k == Slot(txn[t].slot, x)
            IN  /\ txn[t].seen[x] = Visible(t, k)
                /\ txn[t].next[x] = Derived(assigned, Visible(t, k), k)

IInv ==
    /\ TypeOK
    /\ Tables
    /\ UploadedFirst
    /\ CountedAtTheEnd
    /\ ApplyingChecked
    /\ MarkNamesOneSubstrate
    /\ Provenance
    /\ MeasuredWithinMade
    /\ AssignmentCurrent
    /\ ReadCurrent
    /\ CacheDivergesByRaceOnly

-----------------------------------------------------------------------------
(* Files and their scans.                                                    *)

LEMMA FileNames ==
    ASSUME NEW f \in Files
    PROVE  /\ IsFiniteSet(NamesOf(f))
           /\ NamesOf(f) # {}
           /\ IsFiniteSet(MarksOf(f))
           /\ MarksOf(f) \subseteq NamesOf(f)
           /\ MarksOf(f) \subseteq Marks
<1> DEFINE name == [k \in DOMAIN Pce[f] |-> k[1]]
<1>1. name \in Surjection(DOMAIN Pce[f], NamesOf(f))
  BY DEF Surjection, NamesOf
<1>2. IsFiniteSet(NamesOf(f))
  BY <1>1, FilesType, FS_Surjection
<1>3. NamesOf(f) # {}
  BY FilesType DEF NamesOf
<1>4. MarksOf(f) \subseteq NamesOf(f) /\ MarksOf(f) \subseteq Marks
  BY DEF MarksOf
<1> QED
  BY <1>2, <1>3, <1>4, FS_Subset

\* A scan is of a device that the assignment names.
LEMMA ScanIsTouched ==
    ASSUME NEW f \in Files, NEW a \in Assignment(f), NEW k \in Slots,
           HasScan(f, a, k)
    PROVE  k \in SlotsOf(a)
<1>1. a # None /\ a.place \in [MarksOf(f) -> Substrates]
  BY NoneIsNoRow DEF Assignment
<1>2. k[1] \in Range(a.place)
  BY <1>1 DEF HasScan, Range
<1> QED
  BY <1>1, <1>2 DEF SlotsOf

\* All slots of a device are touched together.
LEMMA DeviceIsTouched ==
    ASSUME NEW a, NEW k \in Slots, NEW l \in Slots, l[1] = k[1],
           k \in SlotsOf(a)
    PROVE  l \in SlotsOf(a)
  BY DEF SlotsOf

\* The row of a slot depends on the files that have a scan for it and on
\* nothing else.
LEMMA DerivedFrame ==
    ASSUME NEW as, NEW bs, NEW k \in Slots, NEW choice,
           \A f \in Files :
              \/ as[f] = bs[f]
              \/ /\ as[f] # None => ~HasScan(f, as[f], k)
                 /\ bs[f] # None => ~HasScan(f, bs[f], k)
    PROVE  Derived(as, choice, k) = Derived(bs, choice, k)
<1>1. Pool(as, k) = Pool(bs, k)
  BY DEF Pool
<1>2. \A f \in Pool(as, k) : as[f] = bs[f]
  BY DEF Pool
<1>3. \A f, g \in Pool(as, k) : Better(as, k, f, g) <=> Better(bs, k, f, g)
  BY <1>2 DEF Better
<1>4. Best(as, k) = Best(bs, k)
  BY <1>1, <1>3 DEF Best
<1> QED
  BY <1>1, <1>4 DEF Derived

\* The order of the scans of a slot: the highest efficiency, the earlier file.
LEMMA PoolHasBest ==
    ASSUME NEW as, NEW k \in Slots, IsFiniteSet(Pool(as, k)),
           Pool(as, k) # {},
           \A f \in Pool(as, k) : Efficiency(f, as[f], k) \in Nat
    PROVE  Best(as, k) \in Pool(as, k)
<1> DEFINE P == Pool(as, k)
           eff == [f \in P |-> Efficiency(f, as[f], k)]
           Above(f) == {g \in P : \/ eff[g] > eff[f]
                                  \/ eff[g] = eff[f] /\ g < f}
           T == {Above(f) : f \in P}
<1>1. \A f \in P : f \in Nat /\ eff[f] \in Nat
  BY FilesType DEF Pool
<1>2. \A f, g \in P : Better(as, k, f, g) <=>
                         eff[f] > eff[g] \/ (eff[f] = eff[g] /\ f < g)
  BY DEF Better
<1>3. T \subseteq FiniteSubsetsOf(P) /\ T # {}
  <2>1. \A U \in SUBSET P : IsFiniteSet(U)
    BY FS_Subset
  <2>2. \A f \in P : Above(f) \in SUBSET P
    OBVIOUS
  <2> QED
    BY <2>1, <2>2 DEF FiniteSubsetsOf
<1>4. PICK U \in T : \A V \in T : ~(<<V, U>> \in StrictSubsetOrdering(P))
  <2> HIDE DEF T, P
  <2> QED
    BY <1>3, FS_StrictSubsetOrderingWellFounded, WFMin
<1>5. PICK f \in P : U = Above(f)
  OBVIOUS
<1> HIDE DEF P, eff
<1>6. ASSUME NEW g \in P \ {f}
      PROVE  eff[f] > eff[g] \/ (eff[f] = eff[g] /\ f < g)
  <2> SUFFICES ASSUME ~(eff[f] > eff[g] \/ (eff[f] = eff[g] /\ f < g))
               PROVE  FALSE
    OBVIOUS
  <2>1. /\ f \in P /\ g \in P /\ f # g
        /\ eff[g] > eff[f] \/ (eff[g] = eff[f] /\ g < f)
    BY <1>1, <1>5
  <2>2. Above(g) \subseteq Above(f)
    <3> SUFFICES ASSUME NEW h \in P,
                        eff[h] > eff[g] \/ (eff[h] = eff[g] /\ h < g)
                 PROVE  eff[h] > eff[f] \/ (eff[h] = eff[f] /\ h < f)
      OBVIOUS
    <3> QED
      BY <1>1, <2>1
  <2>3. g \in Above(f) /\ g \notin Above(g)
    BY <1>1, <2>1
  <2>4. <<Above(g), Above(f)>> \in StrictSubsetOrdering(P)
    BY <2>2, <2>3 DEF StrictSubsetOrdering
  <2> QED
    BY <1>4, <1>5, <2>1, <2>4
<1>7. \A g \in P \ {f} : Better(as, k, f, g)
  BY <1>2, <1>5, <1>6
<1> QED
  BY <1>5, <1>7 DEF Best, P

\* Rows of the cache have their type when each file places its marks on
\* different substrates.
LEMMA DerivedType ==
    ASSUME NEW as, NEW choice, NEW k \in Slots,
           NEW U, IsFiniteSet(U), \A f \in Files : as[f] # None => f \in U,
           \A f \in Files : as[f] # None =>
              \A m, n \in MarksOf(f) :
                 as[f].place[m] = as[f].place[n] => m = n
    PROVE  /\ Derived(as, choice, k) \in StatsRow \cup {None}
           /\ choice \in Pool(as, k) =>
                 /\ Derived(as, choice, k) # None
                 /\ Derived(as, choice, k).best = choice
<1>1. CASE Pool(as, k) = {}
  BY <1>1 DEF Derived
<1>2. CASE Pool(as, k) # {}
  <2>1. Pool(as, k) \subseteq U /\ Pool(as, k) \subseteq Files
    BY DEF Pool
  <2>2. /\ IsFiniteSet(Pool(as, k))
        /\ Cardinality(Pool(as, k)) \in Nat
        /\ Cardinality(Pool(as, k)) # 0
    BY <1>2, <2>1, FS_Subset, FS_CardinalityType, FS_EmptySet
  <2>3. ASSUME NEW f \in Pool(as, k)
        PROVE  Efficiency(f, as[f], k) \in Nat
    <3>1. f \in Files /\ as[f] # None /\ HasScan(f, as[f], k)
      BY DEF Pool
    <3>2. PICK n \in MarksOf(f) : /\ as[f].place[n] = k[1]
                                  /\ <<n, k[2], k[3]>> \in DOMAIN Pce[f]
      BY <3>1 DEF HasScan
    <3>3. n = CHOOSE m \in MarksOf(f) : as[f].place[m] = k[1]
      BY <3>1, <3>2
    <3>4. Efficiency(f, as[f], k) = Pce[f][<<n, k[2], k[3]>>]
      BY <3>3 DEF Efficiency
    <3> QED
      BY <3>1, <3>2, <3>4, FilesType
  <2>4. Best(as, k) \in Pool(as, k)
    BY <1>2, <2>2, <2>3, PoolHasBest
  <2>5. (IF choice \in Pool(as, k) THEN choice ELSE Best(as, k)) \in Files
    BY <2>1, <2>4
  <2>6. Derived(as, choice, k) \in StatsRow
    BY <1>2, <2>2, <2>5 DEF Derived, StatsRow
  <2>7. choice \in Pool(as, k) => Derived(as, choice, k).best = choice
    BY <1>2 DEF Derived
  <2> QED
    BY <2>6, <2>7, NoneIsNoRow
<1> QED
  BY <1>1, <1>2

\* A choice that no longer has a scan counts as none.
LEMMA StaleIsNoChoice ==
    ASSUME NEW as, NEW k, NEW choice, choice \notin Pool(as, k)
    PROVE  Derived(as, choice, k) = Derived(as, None, k)
<1>1. None \notin Pool(as, k)
  BY NoneIsNoRow, FilesType DEF Pool
<1> QED
  BY <1>1 DEF Derived

-----------------------------------------------------------------------------
(* Marks.                                                                    *)

\* What the check of the marks means: each goes to a substrate of its own, of
\* the condition the file gives it, which bears that mark or none.
LEMMA PlacedMarks ==
    ASSUME TypeOK, NEW f \in Files, NEW a \in Assignment(f),
           MarksPlaced(f, a.group, a.place)
    PROVE  /\ \A m \in MarksOf(f) :
                 /\ a.place[m] \in Substrates
                 /\ ConditionOf(a.place[m]) = a.group[m]
                 /\ mark[a.place[m]] = IF m \in KnownMarks THEN m ELSE None
           /\ \A m, n \in MarksOf(f) : a.place[m] = a.place[n] => m = n
<1> DEFINE new(c) == {m \in MarksOf(f) \ KnownMarks : a.group[m] = c}
           blanks(c) == FirstBlank(c, Cardinality(new(c)))
<1>1. /\ a.group \in [NamesOf(f) -> Conditions]
      /\ a.place \in [MarksOf(f) -> Substrates]
  BY DEF Assignment
<1>2. \A c \in Conditions : /\ Cardinality(blanks(c)) = Cardinality(new(c))
                            /\ {a.place[m] : m \in new(c)} = blanks(c)
  BY DEF MarksPlaced
<1>3. \A m \in MarksOf(f) \cap KnownMarks :
         mark[a.place[m]] = m /\ ConditionOf(a.place[m]) = a.group[m]
  BY DEF MarksPlaced
<1>4. \A c \in Conditions : \A s \in blanks(c) :
         ConditionOf(s) = c /\ mark[s] = None
  BY DEF FirstBlank, Blank, RowsOf
<1>5. ASSUME NEW c \in Conditions, NEW m \in new(c), NEW n \in new(c),
             a.place[m] = a.place[n]
      PROVE  m = n
  <2> DEFINE place == [o \in new(c) |-> a.place[o]]
  <2>1. place \in Surjection(new(c), blanks(c))
    BY <1>2 DEF Surjection
  <2>2. IsFiniteSet(new(c))
    BY FileNames, FS_Subset
  <2>3. place \in Injection(new(c), blanks(c))
    <3> HIDE DEF place, new, blanks
    <3> QED
      BY <1>2, <2>1, <2>2, FS_SurjSameCardinalityImpliesInj
  <2> QED
    BY <1>5, <2>3 DEF Injection, IsInjective
<1>6. \A m \in MarksOf(f) : a.group[m] \in Conditions
  BY <1>1, FileNames
<1>7. ASSUME NEW m \in MarksOf(f), m \notin KnownMarks
      PROVE  /\ m \in new(a.group[m])
             /\ ConditionOf(a.place[m]) = a.group[m]
             /\ mark[a.place[m]] = None
  <2>1. m \in new(a.group[m])
    BY <1>7
  <2>2. a.place[m] \in blanks(a.group[m])
    BY <1>2, <1>6, <2>1
  <2> HIDE DEF new, blanks
  <2> QED
    BY <1>4, <1>6, <2>1, <2>2
<1>8. \A m \in MarksOf(f) :
         /\ a.place[m] \in Substrates
         /\ ConditionOf(a.place[m]) = a.group[m]
         /\ mark[a.place[m]] = IF m \in KnownMarks THEN m ELSE None
  <2> HIDE DEF new, blanks
  <2> QED
    BY <1>1, <1>3, <1>7
<1>9. ASSUME NEW m \in MarksOf(f), NEW n \in MarksOf(f),
             a.place[m] = a.place[n]
      PROVE  m = n
  <2>1. None \notin MarksOf(f)
    BY FileNames, NoneIsNoRow
  <2>2. CASE m \in KnownMarks \/ n \in KnownMarks
    BY <1>8, <1>9, <2>1, <2>2
  <2>3. CASE m \notin KnownMarks /\ n \notin KnownMarks
    <3>1. a.group[m] = a.group[n]
      BY <1>8, <1>9
    <3>2. m \in new(a.group[m]) /\ n \in new(a.group[m])
      BY <1>7, <2>3, <3>1
    <3> HIDE DEF new
    <3> QED
      BY <1>5, <1>6, <1>9, <3>2
  <2> QED
    BY <2>2, <2>3
<1> QED
  BY <1>8, <1>9

\* The files assigned so far place their marks one to one.
LEMMA AssignedMarks ==
    ASSUME Provenance, NEW f \in Files, assigned[f] # None,
           NEW m \in MarksOf(f), NEW n \in MarksOf(f),
           assigned[f].place[m] = assigned[f].place[n]
    PROVE  m = n
  BY DEF Provenance

\* The blank rows depend on the marks and the counts.
LEMMA RowsFrame ==
    ASSUME UNCHANGED <<mark, actual>>
    PROVE  /\ KnownMarks' = KnownMarks
           /\ \A c, n : FirstBlank(c, n)' = FirstBlank(c, n)
<1>1. KnownMarks' = KnownMarks
  BY DEF KnownMarks
<1>2. \A c : RowsOf(c)' = RowsOf(c)
  BY DEF RowsOf, Made
<1>3. \A c : Blank(c)' = Blank(c)
  BY <1>2 DEF Blank
<1>4. \A c, n : FirstBlank(c, n)' = FirstBlank(c, n)
  BY <1>3 DEF FirstBlank
<1> QED
  BY <1>1, <1>4

-----------------------------------------------------------------------------
(* Handlers that take the experiment or the batch row.                       *)

\* They run while no assignment is under way, and write neither marks nor
\* assignments nor the cache.
LEMMA HandlerStep ==
    ASSUME IInv, Unlocked,
           batch' \in {"in_progress", "completed", "cancelled"},
           actual' \in [Conditions -> Nat \cup {None}],
           shortfall' \subseteq Conditions,
           uploaded' \subseteq Files,
           UploadedFirst', CountedAtTheEnd', MeasuredWithinMade',
           UNCHANGED <<experiment, mark, assigned, selection, stats, applying,
                       txn, history>>
    PROVE  IInv'
<1>1. applying' = None /\ UNCHANGED <<overlapped, raced>>
  BY DEF Unlocked, history
<1>2. TypeOK'
  BY <1>1 DEF IInv, TypeOK
<1>3. Tables' /\ ApplyingChecked' /\ AssignmentCurrent'
  BY <1>1 DEF IInv, Tables, ApplyingChecked, AssignmentCurrent
<1>4. MarkNamesOneSubstrate' /\ Provenance'
  BY DEF IInv, MarkNamesOneSubstrate, Provenance
<1>5. ReadCurrent'
  BY <1>1 DEF IInv, ReadCurrent, Visible
<1>6. CacheDivergesByRaceOnly'
  BY <1>1 DEF IInv, CacheDivergesByRaceOnly
<1> QED
  BY <1>2, <1>3, <1>4, <1>5, <1>6 DEF IInv

LEMMA AddResultStep ==
    ASSUME IInv, NEW f \in Files, AddResult(f)
    PROVE  IInv'
<1>1. UploadedFirst'
  BY FS_AddElement DEF IInv, UploadedFirst, AddResult
<1>2. CountedAtTheEnd' /\ MeasuredWithinMade'
  BY DEF IInv, CountedAtTheEnd, MeasuredWithinMade, AddResult
<1> QED
  BY <1>1, <1>2, HandlerStep DEF IInv, TypeOK, AddResult

\* Nothing is assigned before the counts are entered.
LEMMA CompleteStep ==
    ASSUME IInv, NEW counts \in [Conditions -> 0..MaxCount],
           CompleteBatch(counts)
    PROVE  IInv'
<1>1. \A c \in Conditions : actual[c] = None
  BY DEF IInv, CountedAtTheEnd, CompleteBatch
<1>2. \A f \in Files : assigned[f] = None
  <2> SUFFICES ASSUME NEW f \in Files, assigned[f] # None PROVE FALSE
    OBVIOUS
  <2>1. assigned[f].group \in [NamesOf(f) -> Conditions]
    BY DEF IInv, TypeOK, Assignment
  <2>2. PICK n \in NamesOf(f) : TRUE
    BY FileNames
  <2>3. assigned[f].group[n] \in Range(assigned[f].group)
    BY <2>1 DEF Range
  <2>4. assigned[f].group[n] \in Conditions
    BY <2>1
  <2> QED
    BY <1>1, <2>3, <2>4 DEF IInv, MeasuredWithinMade
<1>3. UploadedFirst' /\ CountedAtTheEnd'
  BY DEF IInv, UploadedFirst, CountedAtTheEnd, CompleteBatch
<1>4. MeasuredWithinMade'
  BY <1>2 DEF MeasuredWithinMade, CompleteBatch
<1>5. counts \in [Conditions -> Nat \cup {None}]
  BY FilesType
<1> QED
  BY <1>3, <1>4, <1>5, HandlerStep DEF IInv, TypeOK, CompleteBatch

LEMMA CancelStep ==
    ASSUME IInv, CancelBatch
    PROVE  IInv'
<1>1. UploadedFirst' /\ CountedAtTheEnd' /\ MeasuredWithinMade'
  BY DEF IInv, UploadedFirst, CountedAtTheEnd, MeasuredWithinMade, CancelBatch
<1> QED
  BY <1>1, HandlerStep DEF IInv, TypeOK, CancelBatch

LEMMA ShortfallStep ==
    ASSUME IInv, NEW c \in Conditions,
           RecordShortfall(c) \/ SupersedeShortfall(c)
    PROVE  IInv'
<1>1. UploadedFirst' /\ CountedAtTheEnd' /\ MeasuredWithinMade'
  BY DEF IInv, UploadedFirst, CountedAtTheEnd, MeasuredWithinMade,
         RecordShortfall, SupersedeShortfall
<1> QED
  BY <1>1, HandlerStep
  DEF IInv, TypeOK, RecordShortfall, SupersedeShortfall

-----------------------------------------------------------------------------
(* An assignment begins and rolls back.                                      *)

LEMMA BeginAssignmentStep ==
    ASSUME IInv, NEW f \in Files, NEW a \in Assignment(f),
           BeginAssignment(f, a)
    PROVE  IInv'
<1>1. /\ applying' = [file |-> f, to |-> a, seen |-> selection]
      /\ UNCHANGED <<batch, experiment, actual, shortfall, mark, uploaded,
                     assigned, selection, stats, txn, overlapped, raced>>
  BY DEF BeginAssignment, history
<1>2. /\ applying'.file = f
      /\ applying'.to = a
      /\ applying'.seen = selection
  BY <1>1
<1>3. TypeOK'
  BY <1>1, <1>2 DEF IInv, TypeOK
<1>4. Tables' /\ UploadedFirst' /\ CountedAtTheEnd'
  BY <1>1 DEF IInv, Tables, UploadedFirst, CountedAtTheEnd
<1>5. ApplyingChecked'
  <2>1. f \in uploaded /\ CountsAgree(f, a.group)
        /\ MarksPlaced(f, a.group, a.place)
    BY DEF BeginAssignment
  <2>2. CountsAgree(f, a.group)'
    BY <1>1, <2>1 DEF CountsAgree
  <2>3. MarksPlaced(f, a.group, a.place)'
    BY <1>1, <2>1, RowsFrame DEF MarksPlaced
  <2>4. selection \in [Slots -> Files \cup {None}]
    BY DEF IInv, TypeOK
  <2> QED
    BY <1>1, <1>2, <2>1, <2>2, <2>3, <2>4 DEF ApplyingChecked
<1>6. AssignmentCurrent'
  BY <1>1, <1>2 DEF AssignmentCurrent
<1>7. MarkNamesOneSubstrate' /\ Provenance' /\ MeasuredWithinMade'
  BY <1>1 DEF IInv, MarkNamesOneSubstrate, Provenance, MeasuredWithinMade
<1>8. ReadCurrent'
  BY <1>1 DEF IInv, ReadCurrent, Visible
<1>9. CacheDivergesByRaceOnly'
  BY <1>1 DEF IInv, CacheDivergesByRaceOnly
<1> QED
  BY <1>3, <1>4, <1>5, <1>6, <1>7, <1>8, <1>9 DEF IInv

LEMMA RollBackAssignmentStep ==
    ASSUME IInv, RollBackAssignment
    PROVE  IInv'
<1>1. /\ applying' = None
      /\ overlapped' = overlapped \ {"assignment"}
      /\ UNCHANGED <<batch, experiment, actual, shortfall, mark, uploaded,
                     assigned, selection, stats, txn, raced>>
  BY DEF RollBackAssignment, NoteRollBack
<1>2. TypeOK'
  BY <1>1 DEF IInv, TypeOK
<1>3. /\ Tables' /\ UploadedFirst' /\ CountedAtTheEnd'
      /\ ApplyingChecked' /\ AssignmentCurrent'
  BY <1>1 DEF IInv, Tables, UploadedFirst, CountedAtTheEnd, ApplyingChecked,
              AssignmentCurrent
<1>4. MarkNamesOneSubstrate' /\ Provenance' /\ MeasuredWithinMade'
  BY <1>1 DEF IInv, MarkNamesOneSubstrate, Provenance, MeasuredWithinMade
<1>5. ReadCurrent'
  <2>1. \A t \in Txns : t \notin overlapped' => t \notin overlapped
    BY <1>1, AssignmentIsNoTxn
  <2> QED
    BY <1>1, <2>1 DEF IInv, ReadCurrent, Visible
<1>6. CacheDivergesByRaceOnly'
  BY <1>1 DEF IInv, CacheDivergesByRaceOnly
<1> QED
  BY <1>2, <1>3, <1>4, <1>5, <1>6 DEF IInv

LEMMA StutterStep ==
    ASSUME IInv, UNCHANGED vars
    PROVE  IInv'
<1>1. UNCHANGED <<batch, experiment, actual, shortfall, mark, uploaded,
                  assigned, selection, stats, applying, txn, overlapped,
                  raced>>
  BY DEF vars, history
<1>2. TypeOK' /\ Tables' /\ UploadedFirst' /\ CountedAtTheEnd'
  BY <1>1 DEF IInv, TypeOK, Tables, UploadedFirst, CountedAtTheEnd
<1>3. ApplyingChecked'
  BY <1>1, RowsFrame DEF IInv, ApplyingChecked, CountsAgree, MarksPlaced
<1>4. MarkNamesOneSubstrate' /\ Provenance' /\ MeasuredWithinMade'
  BY <1>1 DEF IInv, MarkNamesOneSubstrate, Provenance, MeasuredWithinMade
<1>5. AssignmentCurrent' /\ ReadCurrent' /\ CacheDivergesByRaceOnly'
  BY <1>1 DEF IInv, AssignmentCurrent, Touched, ReadCurrent, Visible,
              CacheDivergesByRaceOnly
<1> QED
  BY <1>2, <1>3, <1>4, <1>5 DEF IInv

-----------------------------------------------------------------------------
(* A transaction that sets or clears a choice, until it writes.              *)

\* The choice of slot k as a transaction with row r sees it.
ChoiceOf(r, k) == IF k = r.slot /\ r.held THEN r.file ELSE selection[k]

\* Whether row r holds what there is now for its device.
RowCurrent(r) ==
    \A x \in Directions :
        /\ r.seen[x] = ChoiceOf(r, Slot(r.slot, x))
        /\ r.next[x] = Derived(assigned, ChoiceOf(r, Slot(r.slot, x)),
                               Slot(r.slot, x))

LEMMA ReadCurrentRows ==
    ReadCurrent <=>
        \A t \in Txns :
            txn[t] # None /\ txn[t].at = "read" /\ t \notin overlapped =>
                RowCurrent(txn[t])
  BY DEF ReadCurrent, RowCurrent, Visible, ChoiceOf

\* It changes only its own row, and may leave the record of who was overtaken.
LEMMA TxnStep ==
    ASSUME IInv, NEW t \in Txns, NEW row \in Change \cup {None},
           txn' = [txn EXCEPT ![t] = row],
           overlapped' = overlapped \/ overlapped' = overlapped \ {t},
           UNCHANGED <<batch, experiment, actual, shortfall, mark, uploaded,
                       assigned, selection, stats, applying, raced>>,
           row # None /\ row.at = "read" => RowCurrent(row)
    PROVE  IInv'
<1>1. /\ txn'[t] = row
      /\ \A u \in Txns \ {t} : txn'[u] = txn[u]
      /\ txn' = [u \in Txns |-> txn'[u]]
  BY DEF IInv, Tables
<1>2. TypeOK'
  BY <1>1 DEF IInv, TypeOK
<1>3. Tables' /\ UploadedFirst' /\ CountedAtTheEnd'
  BY <1>1 DEF IInv, Tables, UploadedFirst, CountedAtTheEnd
<1>4. ApplyingChecked'
  BY RowsFrame DEF IInv, ApplyingChecked, CountsAgree, MarksPlaced
<1>5. AssignmentCurrent'
  BY AssignmentIsNoTxn DEF IInv, AssignmentCurrent, Touched
<1>6. MarkNamesOneSubstrate' /\ Provenance' /\ MeasuredWithinMade'
  BY DEF IInv, MarkNamesOneSubstrate, Provenance, MeasuredWithinMade
<1>7. ReadCurrent'
  <2>1. \A r : RowCurrent(r)' <=> RowCurrent(r)
    BY DEF RowCurrent, ChoiceOf
  <2>2. \A u \in Txns :
           txn[u] # None /\ txn[u].at = "read" /\ u \notin overlapped =>
               RowCurrent(txn[u])
    BY ReadCurrentRows DEF IInv
  <2> SUFFICES ASSUME NEW u \in Txns, txn'[u] # None, txn'[u].at = "read",
                      u \notin overlapped'
               PROVE  RowCurrent(txn'[u])
    BY <1>1, <2>1 DEF ReadCurrent, RowCurrent, Visible, ChoiceOf
  <2> QED
    BY <1>1, <2>2
<1>8. CacheDivergesByRaceOnly'
  BY DEF IInv, CacheDivergesByRaceOnly
<1> QED
  BY <1>2, <1>3, <1>4, <1>5, <1>6, <1>7, <1>8 DEF IInv

\* A transaction begins with nothing read.
LEMMA NothingTyped ==
    /\ Nothing \in [Directions -> Files \cup {None}]
    /\ Nothing \in [Directions -> StatsRow \cup {None}]
  BY DEF Nothing

LEMMA BeginSetStep ==
    ASSUME IInv, NEW t \in Txns, NEW k \in Slots, NEW f \in Files,
           BeginSet(t, k, f)
    PROVE  IInv'
<1> DEFINE row == [op |-> "set", slot |-> k, file |-> f, at |-> "begun",
                   held |-> FALSE, seen |-> Nothing, next |-> Nothing]
<1>1. row \in Change
  BY NothingTyped DEF Change
<1>2. row.at = "begun"
  OBVIOUS
<1>3. /\ txn' = [txn EXCEPT ![t] = row]
      /\ UNCHANGED <<batch, experiment, actual, shortfall, mark, uploaded,
                     assigned, selection, stats, applying, overlapped, raced>>
  BY DEF BeginSet, history
<1> HIDE DEF row
<1> QED
  BY <1>1, <1>2, <1>3, TxnStep

LEMMA BeginClearStep ==
    ASSUME IInv, NEW t \in Txns, NEW k \in Slots, BeginClear(t, k)
    PROVE  IInv'
<1> DEFINE h == selection[k] # None
           row == [op |-> "clear", slot |-> k, file |-> None,
                   at |-> "changed", held |-> h, seen |-> Nothing,
                   next |-> Nothing]
<1>1. h \in BOOLEAN
  OBVIOUS
<1>2. /\ txn' = [txn EXCEPT ![t] = row]
      /\ UNCHANGED <<batch, experiment, actual, shortfall, mark, uploaded,
                     assigned, selection, stats, applying, overlapped, raced>>
  BY DEF BeginClear, history
<1> HIDE DEF h
<1>3. row \in Change
  BY <1>1, NothingTyped, Zenon DEF Change
<1>4. row.at = "changed"
  OBVIOUS
<1> HIDE DEF row
<1> QED
  BY <1>2, <1>3, <1>4, TxnStep

LEMMA ChangeSelectionStep ==
    ASSUME IInv, NEW t \in Txns, ChangeSelection(t)
    PROVE  IInv'
<1> DEFINE row == [txn[t] EXCEPT !.at = "changed", !.held = TRUE]
<1>1. txn[t] \in Change
  BY DEF IInv, TypeOK, ChangeSelection
<1>2. row \in Change /\ row.at = "changed"
  BY <1>1 DEF Change
<1>3. txn' = [txn EXCEPT ![t] = row]
  BY DEF ChangeSelection
<1>4. UNCHANGED <<batch, experiment, actual, shortfall, mark, uploaded,
                  assigned, selection, stats, applying, overlapped, raced>>
  BY DEF ChangeSelection, history
<1> HIDE DEF row
<1> QED
  BY <1>2, <1>3, <1>4, TxnStep

LEMMA RollBackChangeStep ==
    ASSUME IInv, NEW t \in Txns, RollBackChange(t)
    PROVE  IInv'
<1>1. /\ txn' = [txn EXCEPT ![t] = None]
      /\ overlapped' = overlapped \ {t}
      /\ UNCHANGED <<batch, experiment, actual, shortfall, mark, uploaded,
                     assigned, selection, stats, applying, raced>>
  BY DEF RollBackChange, NoteRollBack
<1> QED
  BY <1>1, TxnStep

\* What a transaction reads is what there is.
LEMMA ReadScansStep ==
    ASSUME IInv, NEW t \in Txns, ReadScans(t)
    PROVE  IInv'
<1> DEFINE k(x) == Slot(txn[t].slot, x)
           seen == [x \in Directions |-> ChoiceOf(txn[t], k(x))]
           next == [x \in Directions |->
                      Derived(assigned, ChoiceOf(txn[t], k(x)), k(x))]
           row == [txn[t] EXCEPT !.at = "read", !.seen = seen, !.next = next]
<1>1. txn[t] \in Change
  BY DEF IInv, TypeOK, ReadScans
<1>2. txn[t].slot \in Slots /\ txn[t].file \in Files \cup {None}
  BY <1>1 DEF Change
<1>3. \A x \in Directions : k(x) \in Slots
  BY <1>2 DEF Slot, Slots
<1>4. seen \in [Directions -> Files \cup {None}]
  BY <1>2, <1>3 DEF IInv, TypeOK, ChoiceOf
<1>5. next \in [Directions -> StatsRow \cup {None}]
  <2> HIDE DEF k
  <2>1. IsFiniteSet(uploaded) /\ \A f \in Files :
           assigned[f] # None => f \in uploaded
    BY DEF IInv, UploadedFirst
  <2>2. \A f \in Files : assigned[f] # None =>
           \A m, n \in MarksOf(f) :
              assigned[f].place[m] = assigned[f].place[n] => m = n
    BY AssignedMarks DEF IInv
  <2>3. \A x \in Directions :
           Derived(assigned, ChoiceOf(txn[t], k(x)), k(x))
              \in StatsRow \cup {None}
    BY <1>3, <2>1, <2>2, DerivedType
  <2> QED
    BY <2>3
<1>6. /\ txn' = [txn EXCEPT ![t] = row]
      /\ UNCHANGED <<batch, experiment, actual, shortfall, mark, uploaded,
                     assigned, selection, stats, applying, overlapped, raced>>
  BY DEF ReadScans, history, Visible, ChoiceOf
<1>7. row \in Change
  <2> HIDE DEF seen, next
  <2> QED
    BY <1>1, <1>4, <1>5 DEF Change
<1>8. /\ row.slot = txn[t].slot /\ row.held = txn[t].held
      /\ row.file = txn[t].file /\ row.seen = seen /\ row.next = next
  <2> HIDE DEF seen, next
  <2> QED
    BY <1>1 DEF Change
<1>9. RowCurrent(row)
  <2> HIDE DEF row
  <2> QED
    BY <1>8 DEF RowCurrent, ChoiceOf
<1> HIDE DEF row
<1> QED
  BY <1>6, <1>7, <1>9, TxnStep

-----------------------------------------------------------------------------
(* A transaction writes the cache of its device.                             *)

\* A slot is its substrate, channel and direction.
LEMMA SlotParts ==
    ASSUME NEW y \in Slots
    PROVE  /\ y[1] \in Substrates /\ y[2] \in Channels /\ y[3] \in Directions
           /\ \A k \in Slots : k[1] = y[1] /\ k[2] = y[2] => Slot(k, y[3]) = y
  BY DEF Slots, Slot

\* What the transaction leaves as the choice of a slot it has derived from
\* what there is gives the row it writes.
LEMMA WrittenIsDerived ==
    ASSUME IInv, NEW t \in Txns, NEW y \in Slots, txn[t] \in Change,
           y[1] = txn[t].slot[1], y[2] = txn[t].slot[2],
           RowCurrent(txn[t])
    PROVE  txn[t].next[y[3]] =
             Derived(assigned,
                     IF Dropped(t, y[3]) THEN None ELSE ChoiceOf(txn[t], y), y)
<1> DEFINE x == y[3]
           choice == ChoiceOf(txn[t], y)
<1>1. x \in Directions /\ Slot(txn[t].slot, x) = y
  BY SlotParts DEF Change
<1>2. txn[t].seen[x] = choice /\ txn[t].next[x] = Derived(assigned, choice, y)
  BY <1>1 DEF RowCurrent
<1>3. Dropped(t, x) => choice \notin Pool(assigned, y)
  <2>1. IsFiniteSet(uploaded) /\ \A f \in Files :
           assigned[f] # None => f \in uploaded
    BY DEF IInv, UploadedFirst
  <2>2. \A f \in Files : assigned[f] # None =>
           \A m, n \in MarksOf(f) :
              assigned[f].place[m] = assigned[f].place[n] => m = n
    BY AssignedMarks DEF IInv
  <2> HIDE DEF choice, x
  <2>3. choice \in Pool(assigned, y) =>
           /\ Derived(assigned, choice, y) # None
           /\ Derived(assigned, choice, y).best = choice
    BY <2>1, <2>2, DerivedType
  <2> QED
    BY <1>2, <2>3 DEF Dropped
<1> HIDE DEF choice, x
<1>4. Dropped(t, x) => Derived(assigned, choice, y)
                         = Derived(assigned, None, y)
  BY <1>3, StaleIsNoChoice
<1>5. CASE Dropped(t, x)
  BY <1>2, <1>4, <1>5 DEF x, choice
<1>6. CASE ~Dropped(t, x)
  BY <1>2, <1>6 DEF x, choice
<1> QED
  BY <1>5, <1>6

LEMMA WriteStatsStep ==
    ASSUME IInv, NEW t \in Txns, WriteStats(t)
    PROVE  IInv'
<1> DEFINE r == txn[t]
           k == r.slot
           mine == {y \in Slots : y[1] = k[1] /\ y[2] = k[2]}
           d == <<k[1], k[2]>>
           touched == IF applying = None THEN {}
                      ELSE Touched(applying.file, applying.to)
           readers == (ReadersOf({d}) \ {t})
                        \cup {x \in {"assignment"} :
                                \E y \in touched : <<y[1], y[2]>> = d}
<1>1. /\ stats' = [y \in Slots |->
                    IF y \in mine THEN r.next[y[3]] ELSE stats[y]]
      /\ selection' =
           [y \in Slots |->
             IF y = k /\ r.held
             THEN IF Dropped(t, y[3]) THEN None ELSE r.file
             ELSE IF /\ y \in mine
                     /\ Dropped(t, y[3])
                     /\ selection[y] = r.seen[y[3]]
             THEN None ELSE selection[y]]
      /\ txn' = [txn EXCEPT ![t] = None]
      /\ overlapped' = (overlapped \cup readers) \ {t}
      /\ raced' = IF t \in overlapped THEN raced \cup {d} ELSE raced \ {d}
      /\ UNCHANGED <<batch, experiment, actual, shortfall, mark, uploaded,
                     assigned, applying>>
  BY DEF WriteStats, NoteCommit
<1>2. r \in Change /\ r.at = "read"
  BY DEF IInv, TypeOK, WriteStats
<1>3. /\ k \in Slots /\ d \in Substrates \X Channels
      /\ r.file \in Files \cup {None}
      /\ r.next \in [Directions -> StatsRow \cup {None}]
  BY <1>2, SlotParts DEF Change
<1>4. readers \subseteq Txns \cup {"assignment"}
  BY DEF ReadersOf
<1>5. /\ txn'[t] = None
      /\ \A u \in Txns \ {t} : txn'[u] = txn[u]
      /\ txn' = [u \in Txns |-> txn'[u]]
  BY <1>1 DEF IInv, Tables
<1> HIDE DEF r, k, d, readers
<1>6. \A y \in Slots : y \notin mine =>
         stats'[y] = stats[y] /\ selection'[y] = selection[y]
  BY <1>1, <1>3
<1>7. TypeOK'
  <2>1. selection' \in [Slots -> Files \cup {None}]
    BY <1>1, <1>3 DEF IInv, TypeOK
  <2>2. \A y \in Slots : stats'[y] \in StatsRow \cup {None}
    BY <1>1, <1>3, SlotParts DEF IInv, TypeOK
  <2>3. /\ overlapped' \subseteq Txns \cup {"assignment"}
        /\ raced' \subseteq Substrates \X Channels
    BY <1>1, <1>3, <1>4 DEF IInv, TypeOK
  <2> QED
    BY <1>1, <1>5, <2>1, <2>2, <2>3 DEF IInv, TypeOK
<1>8. Tables' /\ UploadedFirst' /\ CountedAtTheEnd'
  BY <1>1, <1>5 DEF IInv, Tables, UploadedFirst, CountedAtTheEnd
<1>9. ApplyingChecked'
  BY <1>1, RowsFrame DEF IInv, ApplyingChecked, CountsAgree, MarksPlaced
<1>10. MarkNamesOneSubstrate' /\ Provenance' /\ MeasuredWithinMade'
  BY <1>1 DEF IInv, MarkNamesOneSubstrate, Provenance, MeasuredWithinMade
<1>11. AssignmentCurrent'
  <2> SUFFICES ASSUME applying # None, "assignment" \notin overlapped',
                      NEW y \in Touched(applying.file, applying.to)
               PROVE  applying.seen[y] = selection'[y]
    BY <1>1 DEF AssignmentCurrent, Touched
  <2>1. "assignment" \notin overlapped /\ "assignment" \notin readers
    BY <1>1, AssignmentIsNoTxn
  <2>2. y \notin mine
    BY <2>1 DEF readers, d
  <2>3. y \in Slots
    BY DEF Touched, SlotsOf
  <2> QED
    BY <1>6, <2>1, <2>2, <2>3 DEF IInv, AssignmentCurrent
<1>12. ReadCurrent'
  <2> SUFFICES ASSUME NEW u \in Txns, txn'[u] # None, txn'[u].at = "read",
                      u \notin overlapped'
               PROVE  RowCurrent(txn[u])'
    BY DEF ReadCurrent, RowCurrent, Visible, ChoiceOf
  <2>1. u # t /\ txn'[u] = txn[u] /\ txn[u] \in Change
    BY <1>5 DEF IInv, TypeOK
  <2>2. u \notin overlapped /\ u \notin readers
    BY <1>1, <2>1
  <2>3. RowCurrent(txn[u])
    BY <2>1, <2>2, ReadCurrentRows DEF IInv
  <2>4. \A x \in Directions : /\ Slot(txn[u].slot, x) \in Slots
                              /\ Slot(txn[u].slot, x) \notin mine
    <3>1. txn[u].slot \in Slots
      BY <2>1 DEF Change
    <3>2. <<txn[u].slot[1], txn[u].slot[2]>> # d
      BY <2>1, <2>2 DEF readers, ReadersOf
    <3> QED
      BY <3>1, <3>2 DEF Slot, Slots, d
  <2>5. \A x \in Directions : selection'[Slot(txn[u].slot, x)]
                                = selection[Slot(txn[u].slot, x)]
    BY <1>6, <2>4
  <2>6. PICK row : row = txn[u]
    OBVIOUS
  <2>7. \A x \in Directions :
           ChoiceOf(row, Slot(row.slot, x))' = ChoiceOf(row, Slot(row.slot, x))
    BY <2>5, <2>6 DEF ChoiceOf
  <2>8. RowCurrent(row)'
    BY <1>1, <2>3, <2>6, <2>7 DEF RowCurrent
  <2> QED
    BY <2>1, <2>6, <2>8 DEF RowCurrent, ChoiceOf
<1>13. CacheDivergesByRaceOnly'
  <2> SUFFICES ASSUME NEW y \in Slots, <<y[1], y[2]>> \notin raced'
               PROVE  stats'[y] = Derived(assigned, selection'[y], y)
    BY <1>1 DEF CacheDivergesByRaceOnly
  <2>1. CASE y \notin mine
    <3>1. <<y[1], y[2]>> # d
      BY <2>1 DEF d
    <3> QED
      BY <1>1, <1>6, <2>1, <3>1 DEF IInv, CacheDivergesByRaceOnly
  <2>2. CASE y \in mine
    <3>1. <<y[1], y[2]>> = d
      BY <2>2 DEF d
    <3>2. t \notin overlapped
      BY <1>1, <3>1
    <3>3. RowCurrent(r)
      BY <1>2, <3>2, ReadCurrentRows, NoneIsNoRow DEF IInv, r
    <3>4. y[3] \in Directions /\ Slot(k, y[3]) = y
      BY <1>3, <2>2, SlotParts
    <3>5. r.seen[y[3]] = ChoiceOf(r, y)
      BY <3>3, <3>4 DEF RowCurrent, k
    <3>6. r.next[y[3]] = Derived(assigned,
             IF Dropped(t, y[3]) THEN None ELSE ChoiceOf(r, y), y)
      BY <1>2, <2>2, <3>3, WrittenIsDerived DEF r, k
    <3>7. selection'[y] = IF Dropped(t, y[3]) THEN None ELSE ChoiceOf(r, y)
      BY <1>1, <2>2, <3>5 DEF ChoiceOf, k
    <3>8. stats'[y] = r.next[y[3]]
      BY <1>1, <2>2
    <3> QED
      BY <3>6, <3>7, <3>8
  <2> QED
    BY <2>1, <2>2
<1> QED
  BY <1>7, <1>8, <1>9, <1>10, <1>11, <1>12, <1>13 DEF IInv

-----------------------------------------------------------------------------
(* An assignment commits.                                                    *)

\* What is assigned is a checked assignment of an uploaded file.
LEMMA CommitChecked ==
    ASSUME IInv, applying # None
    PROVE  /\ applying.file \in uploaded
           /\ applying.file \in Files
           /\ applying.to \in Assignment(applying.file)
           /\ applying.seen \in [Slots -> Files \cup {None}]
           /\ CountsAgree(applying.file, applying.to.group)
           /\ MarksPlaced(applying.file, applying.to.group, applying.to.place)
  BY DEF IInv, ApplyingChecked, TypeOK

\* Only the assignment of the file is replaced.
LEMMA NewAssignedRows ==
    ASSUME IInv, applying # None
    PROVE  /\ NewAssigned[applying.file] = applying.to
           /\ \A g \in Files : g # applying.file =>
                 NewAssigned[g] = assigned[g]
           /\ NewAssigned = [g \in Files |-> NewAssigned[g]]
  BY CommitChecked DEF IInv, Tables, NewAssigned

\* Marks are written where there were none, or again where they were.
LEMMA MarksWritten ==
    ASSUME IInv, CommitAssignment
    PROVE  LET f == applying.file
               place == applying.to.place
           IN  /\ mark' \in [Substrates -> Marks \cup {None}]
               /\ \A m \in MarksOf(f) : mark'[place[m]] = m
               /\ \A s \in Substrates :
                     (\A m \in MarksOf(f) : place[m] # s) => mark'[s] = mark[s]
               /\ \A s \in Substrates : mark[s] # None => mark'[s] = mark[s]
<1> DEFINE f == applying.file
           a == applying.to
           place == a.place
<1>1. /\ applying # None
      /\ mark' = [s \in Substrates |->
                   IF \E m \in DOMAIN place : place[m] = s
                   THEN CHOOSE m \in DOMAIN place : place[m] = s
                   ELSE mark[s]]
  BY DEF CommitAssignment
<1>2. /\ f \in Files /\ a \in Assignment(f)
      /\ MarksPlaced(f, a.group, a.place)
  BY <1>1, CommitChecked
<1>3. place \in [MarksOf(f) -> Substrates] /\ DOMAIN place = MarksOf(f)
  BY <1>2 DEF Assignment
<1> HIDE DEF f, a, place
<1>4. /\ \A m \in MarksOf(f) :
            mark[place[m]] = IF m \in KnownMarks THEN m ELSE None
      /\ \A m, n \in MarksOf(f) : place[m] = place[n] => m = n
  <2>1. TypeOK
    BY DEF IInv
  <2> QED
    BY <1>2, <2>1, PlacedMarks DEF place
<1>5. \A m \in MarksOf(f) : mark'[place[m]] = m
  <2> TAKE m \in MarksOf(f)
  <2>1. place[m] \in Substrates
    BY <1>3
  <2>2. m = CHOOSE n \in DOMAIN place : place[n] = place[m]
    BY <1>3, <1>4
  <2> QED
    BY <1>1, <1>3, <2>1, <2>2
<1>6. \A s \in Substrates :
         (\A m \in MarksOf(f) : place[m] # s) => mark'[s] = mark[s]
  BY <1>1, <1>3
<1>7. \A s \in Substrates : mark[s] # None => mark'[s] = mark[s]
  BY <1>4, <1>5, <1>6
<1>8. mark' \in [Substrates -> Marks \cup {None}]
  <2>1. \A s \in Substrates : mark'[s] \in Marks \cup {None}
    BY <1>2, <1>5, <1>6, FileNames DEF IInv, TypeOK
  <2> QED
    BY <1>1, <2>1
<1> QED
  BY <1>5, <1>6, <1>7, <1>8 DEF f, a, place

\* A mark still names one substrate, and no file loses its marks.
LEMMA CommitMarks ==
    ASSUME IInv, CommitAssignment
    PROVE  MarkNamesOneSubstrate' /\ Provenance'
<1> DEFINE f == applying.file
           a == applying.to
<1>1. applying # None /\ assigned' = NewAssigned
  BY DEF CommitAssignment
<1>2. /\ f \in Files /\ a \in Assignment(f)
      /\ MarksPlaced(f, a.group, a.place)
  BY <1>1, CommitChecked
<1>3. /\ \A m \in MarksOf(f) : mark'[a.place[m]] = m
      /\ \A s \in Substrates :
            (\A m \in MarksOf(f) : a.place[m] # s) => mark'[s] = mark[s]
      /\ \A s \in Substrates : mark[s] # None => mark'[s] = mark[s]
  BY MarksWritten
<1>4. assigned'[f] = a /\ \A g \in Files : g # f => assigned'[g] = assigned[g]
  BY <1>1, NewAssignedRows
<1> HIDE DEF f, a
<1>5. \A m \in MarksOf(f) :
         /\ a.place[m] \in Substrates
         /\ ConditionOf(a.place[m]) = a.group[m]
         /\ mark[a.place[m]] = IF m \in KnownMarks THEN m ELSE None
  <2>1. TypeOK
    BY DEF IInv
  <2> QED
    BY <1>2, <2>1, PlacedMarks
<1>6. MarkNamesOneSubstrate'
  <2> SUFFICES ASSUME NEW r \in Substrates, NEW s \in Substrates,
                      mark'[r] = mark'[s], mark'[r] # None
               PROVE  r = s
    BY DEF MarkNamesOneSubstrate
  <2>1. ASSUME NEW m \in MarksOf(f), NEW p \in Substrates, mark'[p] = m
        PROVE  p = a.place[m]
    <3>1. CASE \E n \in MarksOf(f) : a.place[n] = p
      BY <1>3, <2>1, <3>1
    <3>2. CASE \A n \in MarksOf(f) : a.place[n] # p
      <4>1. mark[p] = m
        BY <1>3, <2>1, <3>2
      <4>2. m # None
        BY <1>2, FileNames, NoneIsNoRow
      <4>3. m \in KnownMarks
        BY <4>1, <4>2 DEF IInv, TypeOK, KnownMarks, Range
      <4>4. mark[a.place[m]] = m
        BY <1>5, <4>3
      <4> QED
        BY <1>5, <4>1, <4>2, <4>4 DEF IInv, MarkNamesOneSubstrate
    <3> QED
      BY <3>1, <3>2
  <2>2. CASE mark'[r] \in MarksOf(f)
    BY <2>1, <2>2
  <2>3. CASE mark'[r] \notin MarksOf(f)
    <3>1. mark'[r] = mark[r] /\ mark'[s] = mark[s]
      BY <1>3, <2>3
    <3> QED
      BY <3>1 DEF IInv, MarkNamesOneSubstrate
  <2> QED
    BY <2>2, <2>3
<1>7. Provenance'
  <2> SUFFICES ASSUME NEW g \in Files, assigned'[g] # None,
                      NEW m \in MarksOf(g)
               PROVE  /\ mark'[assigned'[g].place[m]] = m
                      /\ ConditionOf(assigned'[g].place[m])
                           = assigned'[g].group[m]
    BY DEF Provenance
  <2>1. CASE g = f
    BY <1>3, <1>4, <1>5, <2>1
  <2>2. CASE g # f
    <3>1. assigned'[g] = assigned[g] /\ assigned[g] \in Assignment(g)
      BY <1>4, <2>2 DEF IInv, TypeOK
    <3>2. assigned[g].place[m] \in Substrates
      BY <3>1 DEF Assignment
    <3>3. /\ mark[assigned[g].place[m]] = m
          /\ ConditionOf(assigned[g].place[m]) = assigned[g].group[m]
      BY <3>1 DEF IInv, Provenance
    <3>4. m # None
      BY FileNames, NoneIsNoRow
    <3> QED
      BY <1>3, <3>1, <3>2, <3>3, <3>4
  <2> QED
    BY <2>1, <2>2
<1> QED
  BY <1>6, <1>7

\* Slots of devices that the file named neither before nor after keep their
\* row.
LEMMA UntouchedKeepRow ==
    ASSUME IInv, applying # None, NEW y \in Slots, NEW choice,
           y \notin Touched(applying.file, applying.to)
    PROVE  Derived(NewAssigned, choice, y) = Derived(assigned, choice, y)
<1> DEFINE f == applying.file
<1>1. f \in Files /\ applying.to \in Assignment(f)
  BY CommitChecked
<1>2. ~HasScan(f, applying.to, y)
  BY <1>1, ScanIsTouched DEF Touched
<1>3. assigned[f] # None => ~HasScan(f, assigned[f], y)
  BY <1>1, ScanIsTouched DEF IInv, TypeOK, Touched
<1>4. \A g \in Files :
         \/ NewAssigned[g] = assigned[g]
         \/ /\ NewAssigned[g] # None => ~HasScan(g, NewAssigned[g], y)
            /\ assigned[g] # None => ~HasScan(g, assigned[g], y)
  BY <1>2, <1>3, NewAssignedRows
<1> QED
  BY <1>4, DerivedFrame

\* The commit leaves the cache of every device exact, unless it was overtaken,
\* and overtakes whoever has read one of its devices.
LEMMA CommitAssignmentStep ==
    ASSUME IInv, CommitAssignment
    PROVE  IInv'
<1> DEFINE f == applying.file
           a == applying.to
           seen == applying.seen
           touched == Touched(f, a)
           drop == {y \in touched : Stale(NewAssigned, seen[y], y)}
           ds == {<<y[1], y[2]>> : y \in touched}
           readers == ReadersOf(ds)
<1>1. /\ applying # None
      /\ selection' = [y \in Slots |->
                        IF y \in drop /\ selection[y] = seen[y]
                        THEN None ELSE selection[y]]
      /\ stats' = [y \in Slots |->
                    IF y \in touched THEN Derived(NewAssigned, seen[y], y)
                    ELSE stats[y]]
      /\ assigned' = NewAssigned
      /\ experiment' = "completed"
      /\ applying' = None
      /\ overlapped' = (overlapped \cup readers) \ {"assignment"}
      /\ raced' = IF "assignment" \in overlapped THEN raced \cup ds
                  ELSE raced \ ds
      /\ UNCHANGED <<batch, actual, shortfall, uploaded, txn>>
  BY DEF CommitAssignment, NoteCommit
<1>2. /\ f \in uploaded /\ f \in Files /\ a \in Assignment(f)
      /\ seen \in [Slots -> Files \cup {None}]
      /\ CountsAgree(f, a.group)
      /\ MarksPlaced(f, a.group, a.place)
  BY <1>1, CommitChecked
<1>3. /\ assigned'[f] = a
      /\ \A g \in Files : g # f => assigned'[g] = assigned[g]
      /\ assigned' = [g \in Files |-> assigned'[g]]
  BY <1>1, NewAssignedRows
<1>4. \A y \in Slots : \A choice : y \notin touched =>
         Derived(NewAssigned, choice, y) = Derived(assigned, choice, y)
  BY <1>1, UntouchedKeepRow
<1>5. mark' \in [Substrates -> Marks \cup {None}]
  BY MarksWritten
<1>6. touched \subseteq Slots
  BY DEF Touched, SlotsOf
<1>7. \A y \in Slots : y \in touched <=> <<y[1], y[2]>> \in ds
  <2> SUFFICES ASSUME NEW y \in Slots, NEW z \in touched,
                      <<y[1], y[2]>> = <<z[1], z[2]>>
               PROVE  y \in touched
    OBVIOUS
  <2> QED
    BY <1>6, DeviceIsTouched DEF Touched
<1>8. UploadedFirst'
  BY <1>1, <1>2, <1>3 DEF IInv, UploadedFirst
<1>9. \A g \in Files : assigned'[g] # None =>
         \A m, n \in MarksOf(g) :
            assigned'[g].place[m] = assigned'[g].place[n] => m = n
  BY CommitMarks DEF Provenance
<1> HIDE DEF f, a, seen, touched, ds, readers
<1>10. \A y \in Slots : y \notin touched =>
          stats'[y] = stats[y] /\ selection'[y] = selection[y]
  BY <1>1
<1>11. TypeOK'
  <2>1. \A y \in Slots : stats'[y] \in StatsRow \cup {None}
    <3> TAKE y \in Slots
    <3>1. IsFiniteSet(uploaded) /\ \A g \in Files :
             NewAssigned[g] # None => g \in uploaded
      BY <1>1, <1>8 DEF UploadedFirst
    <3>2. \A g \in Files : NewAssigned[g] # None =>
             \A m, n \in MarksOf(g) :
                NewAssigned[g].place[m] = NewAssigned[g].place[n] => m = n
      BY <1>1, <1>9
    <3>3. Derived(NewAssigned, seen[y], y) \in StatsRow \cup {None}
      BY <3>1, <3>2, DerivedType
    <3> QED
      BY <1>1, <3>3 DEF IInv, TypeOK
  <2>2. selection' \in [Slots -> Files \cup {None}]
    BY <1>1 DEF IInv, TypeOK
  <2>3. \A g \in Files : assigned'[g] \in Assignment(g) \cup {None}
    BY <1>2, <1>3 DEF IInv, TypeOK
  <2>4. overlapped' \subseteq Txns \cup {"assignment"}
    BY <1>1 DEF IInv, TypeOK, readers, ReadersOf
  <2>5. raced' \subseteq Substrates \X Channels
    <3>1. ds \subseteq Substrates \X Channels
      BY <1>6, SlotParts DEF ds
    <3> QED
      BY <1>1, <3>1 DEF IInv, TypeOK
  <2> QED
    BY <1>1, <1>5, <2>1, <2>2, <2>3, <2>4, <2>5 DEF IInv, TypeOK
<1>12. Tables' /\ CountedAtTheEnd' /\ ApplyingChecked' /\ AssignmentCurrent'
  BY <1>1, <1>3 DEF IInv, Tables, CountedAtTheEnd, ApplyingChecked,
                    AssignmentCurrent
<1>13. MarkNamesOneSubstrate' /\ Provenance'
  BY CommitMarks
<1>14. MeasuredWithinMade'
  <2> SUFFICES ASSUME NEW g \in Files, assigned'[g] # None,
                      NEW c \in Range(assigned'[g].group)
               PROVE  /\ actual[c] # None
                      /\ Cardinality({m \in NamesOf(g) :
                                        assigned'[g].group[m] = c})
                           <= actual[c]
    BY <1>1 DEF MeasuredWithinMade
  <2>1. CASE g = f
    BY <1>2, <1>3, <2>1 DEF CountsAgree
  <2>2. CASE g # f
    BY <1>3, <2>2 DEF IInv, MeasuredWithinMade
  <2> QED
    BY <2>1, <2>2
<1>15. ReadCurrent'
  <2> SUFFICES ASSUME NEW u \in Txns, txn[u] # None, txn[u].at = "read",
                      u \notin overlapped'
               PROVE  RowCurrent(txn[u])'
    BY <1>1 DEF ReadCurrent, RowCurrent, Visible, ChoiceOf
  <2>1. txn[u] \in Change
    BY DEF IInv, TypeOK
  <2>2. u \notin overlapped /\ u \notin readers
    BY <1>1, AssignmentIsNoTxn
  <2>3. RowCurrent(txn[u])
    BY <2>2, ReadCurrentRows DEF IInv
  <2>4. \A x \in Directions : /\ Slot(txn[u].slot, x) \in Slots
                              /\ Slot(txn[u].slot, x) \notin touched
    <3>1. txn[u].slot \in Slots
      BY <2>1 DEF Change
    <3>2. <<txn[u].slot[1], txn[u].slot[2]>> \notin ds
      BY <2>2 DEF readers, ReadersOf
    <3> QED
      BY <1>7, <3>1, <3>2 DEF Slot, Slots
  <2>5. PICK row : row = txn[u]
    OBVIOUS
  <2>6. \A x \in Directions :
           /\ ChoiceOf(row, Slot(row.slot, x))'
                = ChoiceOf(row, Slot(row.slot, x))
           /\ \A choice : Derived(assigned', choice, Slot(row.slot, x))
                            = Derived(assigned, choice, Slot(row.slot, x))
    <3>1. \A x \in Directions : selection'[Slot(row.slot, x)]
                                  = selection[Slot(row.slot, x)]
      BY <1>10, <2>4, <2>5
    <3>2. \A x \in Directions : \A choice :
             Derived(NewAssigned, choice, Slot(row.slot, x))
               = Derived(assigned, choice, Slot(row.slot, x))
      BY <1>4, <2>4, <2>5
    <3> QED
      BY <1>1, <3>1, <3>2 DEF ChoiceOf
  <2>7. RowCurrent(row)'
    BY <2>3, <2>5, <2>6 DEF RowCurrent
  <2> QED
    BY <1>1, <2>5, <2>7 DEF RowCurrent, ChoiceOf
<1>16. CacheDivergesByRaceOnly'
  <2> SUFFICES ASSUME NEW y \in Slots, <<y[1], y[2]>> \notin raced'
               PROVE  stats'[y] = Derived(NewAssigned, selection'[y], y)
    BY <1>1 DEF CacheDivergesByRaceOnly
  <2>1. CASE y \notin touched
    <3>1. <<y[1], y[2]>> \notin raced
      BY <1>1, <1>7, <2>1
    <3>2. stats[y] = Derived(assigned, selection[y], y)
      BY <3>1 DEF IInv, CacheDivergesByRaceOnly
    <3> QED
      BY <1>4, <1>10, <2>1, <3>2
  <2>2. CASE y \in touched
    <3>1. "assignment" \notin overlapped
      BY <1>1, <1>7, <2>2
    <3>2. seen[y] = selection[y]
      BY <1>1, <2>2, <3>1 DEF IInv, AssignmentCurrent, touched, f, a, seen
    <3>3. stats'[y] = Derived(NewAssigned, selection[y], y)
      BY <1>1, <2>2, <3>2
    <3>4. CASE Stale(NewAssigned, selection[y], y)
      <4>1. selection'[y] = None
        BY <1>1, <2>2, <3>2, <3>4
      <4> QED
        BY <3>3, <3>4, <4>1, StaleIsNoChoice DEF Stale
    <3>5. CASE ~Stale(NewAssigned, selection[y], y)
      <4>1. selection'[y] = selection[y]
        BY <1>1, <3>2, <3>5
      <4> QED
        BY <3>3, <4>1
    <3> QED
      BY <3>4, <3>5
  <2> QED
    BY <2>1, <2>2
<1> QED
  BY <1>8, <1>11, <1>12, <1>13, <1>14, <1>15, <1>16 DEF IInv

-----------------------------------------------------------------------------
(* The theorems.                                                             *)

LEMMA InitStep == Init => IInv
<1> SUFFICES ASSUME Init PROVE IInv
  OBVIOUS
<1>1. TypeOK /\ Tables
  BY DEF Init, TypeOK, Tables
<1>2. UploadedFirst
  BY FS_EmptySet DEF Init, UploadedFirst
<1>3. CountedAtTheEnd /\ ApplyingChecked /\ AssignmentCurrent
  BY DEF Init, CountedAtTheEnd, ApplyingChecked, AssignmentCurrent
<1>4. MarkNamesOneSubstrate /\ Provenance /\ MeasuredWithinMade
  BY DEF Init, MarkNamesOneSubstrate, Provenance, MeasuredWithinMade
<1>5. ReadCurrent
  BY DEF Init, ReadCurrent
<1>6. CacheDivergesByRaceOnly
  <2> SUFFICES ASSUME NEW k \in Slots
               PROVE  stats[k] = Derived(assigned, selection[k], k)
    BY DEF CacheDivergesByRaceOnly
  <2>1. Pool(assigned, k) = {}
    BY DEF Init, Pool
  <2> QED
    BY <2>1 DEF Init, Derived
<1> QED
  BY <1>1, <1>2, <1>3, <1>4, <1>5, <1>6 DEF IInv

LEMMA NextStep == IInv /\ [Next]_vars => IInv'
<1> SUFFICES ASSUME IInv, [Next]_vars PROVE IInv'
  OBVIOUS
<1>1. ASSUME NEW f \in Files, AddResult(f) PROVE IInv'
  BY <1>1, AddResultStep
<1>2. ASSUME NEW counts \in [Conditions -> 0..MaxCount],
             CompleteBatch(counts)
      PROVE  IInv'
  BY <1>2, CompleteStep
<1>3. CASE CancelBatch
  BY <1>3, CancelStep
<1>4. ASSUME NEW c \in Conditions, RecordShortfall(c) \/ SupersedeShortfall(c)
      PROVE  IInv'
  BY <1>4, ShortfallStep
<1>5. ASSUME NEW f \in Files, NEW a \in Assignment(f), BeginAssignment(f, a)
      PROVE  IInv'
  BY <1>5, BeginAssignmentStep
<1>6. CASE CommitAssignment
  BY <1>6, CommitAssignmentStep
<1>7. CASE RollBackAssignment
  BY <1>7, RollBackAssignmentStep
<1>8. ASSUME NEW t \in Txns,
             \/ \E k \in Slots, f \in Files : BeginSet(t, k, f)
             \/ \E k \in Slots : BeginClear(t, k)
             \/ ChangeSelection(t)
             \/ ReadScans(t)
             \/ WriteStats(t)
             \/ RollBackChange(t)
      PROVE  IInv'
  BY <1>8, BeginSetStep, BeginClearStep, ChangeSelectionStep, ReadScansStep,
     WriteStatsStep, RollBackChangeStep
<1>9. CASE UNCHANGED vars
  BY <1>9, StutterStep
<1> QED
  BY <1>1, <1>2, <1>3, <1>4, <1>5, <1>6, <1>7, <1>8, <1>9 DEF Next

\* The inductive invariant holds of every state of every run.
THEOREM Invariance == Spec => []IInv
  BY InitStep, NextStep, PTL DEF Spec

\* Every table and every row in progress has its type
\* (result.py, result_assignment.py).
THEOREM ResultsTyped == Spec => []TypeOK
<1>1. IInv => TypeOK
  BY DEF IInv
<1> QED
  BY Invariance, <1>1, PTL

\* A laser mark is bound to one substrate of the batch, however many files
\* bring it (apply_result_assignment).
THEOREM MarksStayUnique == Spec => []MarkNamesOneSubstrate
<1>1. IInv => MarkNamesOneSubstrate
  BY DEF IInv
<1> QED
  BY Invariance, <1>1, PTL

\* The scans of a marked substrate are stored against the substrate that
\* bears the mark, in the condition they were given (apply_result_assignment).
THEOREM ScansKeepProvenance == Spec => []Provenance
<1>1. IInv => Provenance
  BY DEF IInv
<1> QED
  BY Invariance, <1>1, PTL

\* No assigned file reports more substrates of a condition than completion
\* counted (the counts that apply_result_assignment enforces).
THEOREM NoMoreThanMade == Spec => []MeasuredWithinMade
<1>1. IInv => MeasuredWithinMade
  BY DEF IInv
<1> QED
  BY Invariance, <1>1, PTL

\* Where no transaction wrote back what another had overtaken, the cache is
\* what the assignments and the choices give (_refresh_device_scan_stats).
THEOREM CacheExactWithoutRace == Spec => []CacheDivergesByRaceOnly
<1>1. IInv => CacheDivergesByRaceOnly
  BY DEF IInv
<1> QED
  BY Invariance, <1>1, PTL

\* Only the commit of an assignment writes the assignments.
LEMMA AssignedByCommit ==
    ASSUME [Next]_vars, assigned' # assigned
    PROVE  CommitAssignment
  BY DEF Next, vars, AddResult, CompleteBatch, CancelBatch, RecordShortfall,
         SupersedeShortfall, BeginAssignment, RollBackAssignment, BeginSet,
         BeginClear, ChangeSelection, ReadScans, WriteStats, RollBackChange

\* A file assigned again keeps every marked device where it was: its marks are
\* known by then, and a known mark is placed on the substrate that bears it.
THEOREM AssignedDevicesStay == Spec => DevicesStay
<1>1. ASSUME IInv, [Next]_vars, NEW g \in Files, assigned[g] # None
      PROVE  assigned'[g] # None /\ assigned'[g].place = assigned[g].place
  <2>1. CASE assigned' = assigned
    BY <1>1, <2>1
  <2>2. CASE assigned' # assigned
    <3> DEFINE f == applying.file
               a == applying.to
    <3>1. CommitAssignment /\ applying # None /\ assigned' = NewAssigned
      BY <1>1, <2>2, AssignedByCommit DEF CommitAssignment
    <3>2. /\ f \in Files /\ a \in Assignment(f)
          /\ MarksPlaced(f, a.group, a.place)
      BY <1>1, <3>1, CommitChecked
    <3>3. assigned'[f] = a /\ \A h \in Files : h # f =>
             assigned'[h] = assigned[h]
      BY <1>1, <3>1, NewAssignedRows
    <3> HIDE DEF f, a
    <3>4. CASE g # f
      BY <1>1, <3>3, <3>4
    <3>5. CASE g = f
      <4>1. assigned[f] \in Assignment(f)
        BY <1>1, <3>5 DEF IInv, TypeOK
      <4>2. /\ a.place \in [MarksOf(f) -> Substrates]
            /\ assigned[f].place \in [MarksOf(f) -> Substrates]
        BY <3>2, <4>1 DEF Assignment
      <4>3. ASSUME NEW m \in MarksOf(f)
            PROVE  a.place[m] = assigned[f].place[m]
        <5>1. mark[assigned[f].place[m]] = m
          BY <1>1, <3>5 DEF IInv, Provenance
        <5>2. m # None
          BY <3>2, FileNames, NoneIsNoRow
        <5>3. m \in KnownMarks
          BY <1>1, <4>2, <5>1, <5>2 DEF IInv, TypeOK, KnownMarks, Range
        <5>4. mark[a.place[m]] = m
          BY <3>2, <5>3 DEF MarksPlaced
        <5> QED
          BY <1>1, <4>2, <5>1, <5>2, <5>4 DEF IInv, MarkNamesOneSubstrate
      <4>4. a.place = assigned[f].place
        BY <4>2, <4>3
      <4>5. a # None
        BY <3>2, NoneIsNoRow
      <4> QED
        BY <3>3, <3>5, <4>4, <4>5
    <3> QED
      BY <3>4, <3>5
  <2> QED
    BY <2>1, <2>2
<1>2. IInv /\ [Next]_vars =>
        [\A f \in Files :
            assigned[f] # None => assigned'[f] # None
                               /\ assigned'[f].place = assigned[f].place]_vars
  BY <1>1
<1>3. Spec => [][\A f \in Files :
            assigned[f] # None => assigned'[f] # None
                               /\ assigned'[f].place = assigned[f].place]_vars
  BY Invariance, <1>2, PTL DEF Spec
<1> QED
  BY <1>3 DEF DevicesStay

=============================================================================
