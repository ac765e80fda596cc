--------------------------- MODULE RowLocksProofs ---------------------------
(* For any set of transactions and any mix of handlers: type correctness of   *)
(* the lock table, and freedom from deadlock of every mix that respects a     *)
(* lock order.                                                                *)
EXTENDS RowLocks, SequenceTheorems, TLAPS

-----------------------------------------------------------------------------
(* The lock programs.                                                         *)

LEMMA LockType ==
    ASSUME NEW r \in Rows
    PROVE  /\ ForUpdate(r) \in Lock
           /\ NoKeyUpdate(r) \in Lock
           /\ KeyShare(r) \in Lock
BY DEF ForUpdate, NoKeyUpdate, KeyShare, Lock, Modes

LEMMA ThenParts ==
    ASSUME NEW P, NEW Q
    PROVE  \A x \in Then(P, Q) : \E p \in P, q \in Q : x = p \o q
BY DEF Then

LEMMA ThenType ==
    ASSUME NEW S, NEW P \in SUBSET Seq(S), NEW Q \in SUBSET Seq(S)
    PROVE  Then(P, Q) \in SUBSET Seq(S)
<1>1. \A p \in P, q \in Q : p \o q \in Seq(S)
  <2>. SUFFICES ASSUME NEW p \in P, NEW q \in Q
                PROVE  p \o q \in Seq(S)
    OBVIOUS
  <2>. p \in Seq(S) /\ q \in Seq(S)
    OBVIOUS
  <2>. QED OBVIOUS
<1>2. \A x \in Then(P, Q) : \E p \in P, q \in Q : x = p \o q
  BY ThenParts
<1>3. \A x \in Then(P, Q) : x \in Seq(S)
  BY <1>1, <1>2
<1>. QED BY <1>3

LEMMA OptionalType ==
    ASSUME NEW S, NEW l \in S
    PROVE  Optional(l) \in SUBSET Seq(S)
BY DEF Optional

LEMMA PlanProgramsType ==
    /\ CreateCondition \in SUBSET Seq(Lock)
    /\ UpdateCondition \in SUBSET Seq(Lock)
    /\ DeleteCondition \in SUBSET Seq(Lock)
    /\ UpdatePlanStatus \in SUBSET Seq(Lock)
    /\ RequestException \in SUBSET Seq(Lock)
    /\ DecideException \in SUBSET Seq(Lock)
    /\ CreateFabricationBatch \in SUBSET Seq(Lock)
<1>. /\ ForUpdate("experiment") \in Lock
     /\ ForUpdate("condition") \in Lock
     /\ ForUpdate("exception") \in Lock
     /\ NoKeyUpdate("condition") \in Lock
     /\ NoKeyUpdate("exception") \in Lock
     /\ KeyShare("condition") \in Lock
  BY LockType DEF Rows
<1>1. CreateCondition \in SUBSET Seq(Lock)
  BY DEF CreateCondition
<1>2. UpdateCondition \in SUBSET Seq(Lock)
  BY DEF UpdateCondition
<1>3. DeleteCondition \in SUBSET Seq(Lock)
  BY DEF DeleteCondition
<1>4. UpdatePlanStatus \in SUBSET Seq(Lock)
  BY DEF UpdatePlanStatus
<1>5. RequestException \in SUBSET Seq(Lock)
  BY DEF RequestException
<1>6. DecideException \in SUBSET Seq(Lock)
  BY DEF DecideException
<1>7. CreateFabricationBatch \in SUBSET Seq(Lock)
  BY DEF CreateFabricationBatch
<1>. QED BY <1>1, <1>2, <1>3, <1>4, <1>5, <1>6, <1>7

LEMMA BatchForActorType == BatchForActor \in Seq(Lock)
BY LockType DEF BatchForActor, Rows

LEMMA BenchProgramsType ==
    /\ CreatePreparation \in SUBSET Seq(Lock)
    /\ UpdatePreparation \in SUBSET Seq(Lock)
    /\ SplitPreparation \in SUBSET Seq(Lock)
    /\ MergePreparations \in SUBSET Seq(Lock)
    /\ CreateExecution \in SUBSET Seq(Lock)
    /\ UpdateExecution \in SUBSET Seq(Lock)
    /\ SplitExecution \in SUBSET Seq(Lock)
    /\ MergeExecutions \in SUBSET Seq(Lock)
    /\ RecordAsPlanned \in SUBSET Seq(Lock)
    /\ CreateDeviation \in SUBSET Seq(Lock)
    /\ AdvanceBatch \in SUBSET Seq(Lock)
    /\ CompleteBatch \in SUBSET Seq(Lock)
<1>1. /\ ForUpdate("preparation") \in Lock
      /\ ForUpdate("execution") \in Lock
      /\ ForUpdate("batch") \in Lock
      /\ KeyShare("preparation") \in Lock
      /\ KeyShare("execution") \in Lock
  BY LockType DEF Rows
<1>2. /\ <<ForUpdate("preparation")>> \o BatchForActor \in Seq(Lock)
      /\ <<ForUpdate("execution")>> \o BatchForActor \in Seq(Lock)
      /\ <<ForUpdate("batch")>> \in Seq(Lock)
  BY <1>1, BatchForActorType
<1>3. /\ CreatePreparation \in SUBSET Seq(Lock)
      /\ CreateExecution \in SUBSET Seq(Lock)
      /\ {BatchForActor} \in SUBSET Seq(Lock)
  BY BatchForActorType DEF CreatePreparation, CreateExecution
<1>4. /\ UpdatePreparation \in SUBSET Seq(Lock)
      /\ SplitPreparation \in SUBSET Seq(Lock)
      /\ MergePreparations \in SUBSET Seq(Lock)
  BY <1>2 DEF UpdatePreparation, SplitPreparation, MergePreparations
<1>5. /\ UpdateExecution \in SUBSET Seq(Lock)
      /\ SplitExecution \in SUBSET Seq(Lock)
      /\ MergeExecutions \in SUBSET Seq(Lock)
  BY <1>2 DEF UpdateExecution, SplitExecution, MergeExecutions
<1>6. /\ Optional(ForUpdate("preparation")) \in SUBSET Seq(Lock)
      /\ Optional(ForUpdate("execution")) \in SUBSET Seq(Lock)
      /\ Optional(KeyShare("preparation")) \in SUBSET Seq(Lock)
      /\ Optional(KeyShare("execution")) \in SUBSET Seq(Lock)
  BY <1>1, OptionalType
<1>7. RecordAsPlanned \in SUBSET Seq(Lock)
  BY <1>3, <1>6, ThenType DEF RecordAsPlanned
<1>8. CreateDeviation \in SUBSET Seq(Lock)
  BY <1>3, <1>6, ThenType DEF CreateDeviation
<1>9. AdvanceBatch \in SUBSET Seq(Lock)
  BY <1>2 DEF AdvanceBatch
<1>10. CompleteBatch \in SUBSET Seq(Lock)
  <2>. {<<ForUpdate("batch")>>} \in SUBSET Seq(Lock)
    BY <1>2
  <2>. QED BY <1>6, ThenType DEF CompleteBatch
<1>. QED BY <1>3, <1>4, <1>5, <1>7, <1>8, <1>9, <1>10

\* The cache of a device is refreshed with locks on the results alone.
LEMMA RefreshType ==
    RefreshScanStats \in SUBSET Seq({l \in Lock : l.row \in BatchResults})
<1>. DEFINE S == {l \in Lock : l.row \in BatchResults}
            Stale == Optional(ForUpdate("selection"))
            Best == {<<>>} \cup {<<KeyShare(f)>> : f \in Files}
            Stats == {<<ForUpdate("stats")>>}
<1>1. \A r \in BatchResults : ForUpdate(r) \in S /\ KeyShare(r) \in S
  BY LockType DEF BatchResults, Rows, ForUpdate, KeyShare
<1>2. /\ ForUpdate("selection") \in S /\ ForUpdate("stats") \in S
      /\ \A f \in Files : KeyShare(f) \in S
  BY <1>1 DEF BatchResults
<1>3. RefreshScanStats =
         Stale \cup Then(Then(Stale, Then(Stats, Best)), Then(Stale, Best))
  BY DEF RefreshScanStats
<1>. HIDE DEF S
<1>4. Stale \in SUBSET Seq(S)
  BY <1>2, OptionalType
<1>5. Best \in SUBSET Seq(S) /\ Stats \in SUBSET Seq(S)
  <2>1. /\ \A f \in Files : <<KeyShare(f)>> \in Seq(S)
        /\ <<ForUpdate("stats")>> \in Seq(S)
    BY <1>2
  <2>2. <<>> \in Seq(S)
    OBVIOUS
  <2>. QED BY <2>1, <2>2
<1>. HIDE DEF Stale, Best, Stats
<1>6. Then(Stale, Then(Stats, Best)) \in SUBSET Seq(S)
  BY <1>4, <1>5, ThenType
<1>7. Then(Stale, Best) \in SUBSET Seq(S)
  BY <1>4, <1>5, ThenType
<1>8. Then(Then(Stale, Then(Stats, Best)), Then(Stale, Best))
         \in SUBSET Seq(S)
  BY <1>6, <1>7, ThenType
<1>. QED BY <1>3, <1>4, <1>8 DEF S

LEMMA ResultProgramsType ==
    /\ AddResult \in SUBSET Seq(Lock)
    /\ ApplyResultAssignment \in SUBSET Seq(Lock)
    /\ SetRepresentativeScan \in SUBSET Seq(Lock)
    /\ ClearRepresentativeScan \in SUBSET Seq(Lock)
<1>1. /\ ForUpdate("experiment") \in Lock
      /\ ForUpdate("batch") \in Lock
      /\ ForUpdate("selection") \in Lock
      /\ \A f \in Files : ForUpdate(f) \in Lock /\ KeyShare(f) \in Lock
  BY LockType DEF Rows
<1>2. RefreshScanStats \in SUBSET Seq(Lock)
  <2>. DEFINE S == {l \in Lock : l.row \in BatchResults}
  <2>1. S \in SUBSET Lock
    OBVIOUS
  <2>2. RefreshScanStats \in SUBSET Seq(S)
    BY RefreshType
  <2>. HIDE DEF S
  <2>3. \A p \in Seq(S) : p \in Seq(Lock)
    BY <2>1
  <2>. QED BY <2>2, <2>3
<1>3. AddResult \in SUBSET Seq(Lock)
  BY <1>1 DEF AddResult
<1>4. ApplyResultAssignment \in SUBSET Seq(Lock)
  <2>. {<<ForUpdate("experiment"), ForUpdate("batch"), ForUpdate(f)>> :
            f \in Files} \in SUBSET Seq(Lock)
    BY <1>1
  <2>. QED BY <1>2, ThenType DEF ApplyResultAssignment
<1>5. SetRepresentativeScan \in SUBSET Seq(Lock)
  <2>1. \A f \in Files : <<ForUpdate("selection"), KeyShare(f)>> \in Seq(Lock)
    BY <1>1
  <2>. {<<ForUpdate("selection"), KeyShare(f)>> : f \in Files}
          \in SUBSET Seq(Lock)
    BY <2>1
  <2>. QED BY <1>2, ThenType DEF SetRepresentativeScan
<1>6. ClearRepresentativeScan \in SUBSET Seq(Lock)
  BY <1>1, <1>2, OptionalType, ThenType DEF ClearRepresentativeScan
<1>. QED BY <1>3, <1>4, <1>5, <1>6

LEMMA ProgramsType ==
    ASSUME NEW h \in Handlers
    PROVE  Programs[h] \in SUBSET Seq(Lock)
<1>. h \in DOMAIN Programs
  BY HandlersExist
<1>. QED
  BY PlanProgramsType, BenchProgramsType, ResultProgramsType DEF Programs

-----------------------------------------------------------------------------
(* Type correctness.                                                          *)

LEMMA InitType == Init => TypeOK
BY DEF Init, TypeOK

LEMMA HeadTail ==
    ASSUME NEW s \in Seq(Lock), s # <<>>
    PROVE  /\ Head(s) \in Lock
           /\ Tail(s) \in Seq(Lock)
OBVIOUS

LEMMA LeaveType == ASSUME TypeOK, NEW t \in Txns, Leave(t) PROVE TypeOK'
BY DEF TypeOK, Leave

LEMMA TypeStep == TypeOK /\ [Next]_vars => TypeOK'
<1>. SUFFICES ASSUME TypeOK, [Next]_vars
              PROVE  TypeOK'
  OBVIOUS
<1>1. ASSUME NEW t \in Txns, NEW h \in Handlers, NEW p \in Programs[h],
             Begin(t, h, p)
      PROVE  TypeOK'
  <2>. p \in Seq(Lock)
    BY ProgramsType
  <2>. QED BY <1>1 DEF TypeOK, Begin
<1>2. ASSUME NEW t \in Txns, Request(t)
      PROVE  TypeOK'
  BY <1>2 DEF TypeOK, Request
<1>3. ASSUME NEW t \in Txns, Grant(t)
      PROVE  TypeOK'
  <2>. /\ Head(todo[t]) \in Lock
       /\ Tail(todo[t]) \in Seq(Lock)
    BY <1>3, HeadTail DEF TypeOK, Grant
  <2>. QED BY <1>3 DEF TypeOK, Grant
<1>4. ASSUME NEW t \in Txns, Finish(t) \/ Abort(t)
      PROVE  TypeOK'
  BY <1>4, LeaveType DEF Finish, Abort
<1>5. CASE UNCHANGED vars
  BY <1>5 DEF TypeOK, vars
<1>. QED BY <1>1, <1>2, <1>3, <1>4, <1>5 DEF Next

\* The lock table is well formed in every reachable state: a transaction that
\* waits has a lock to wait for, one that ended holds none.
THEOREM TypeCorrect == Spec => []TypeOK
BY InitType, TypeStep, PTL DEF Spec

-----------------------------------------------------------------------------
(* Deadlock freedom.  What a transaction has still to lock lies above         *)
(* everything it holds, or behind the gate, which it holds then; so in a set  *)
(* of transactions that wait for one another nobody waits behind the gate,    *)
(* and the lock waited for would have no highest rank.                        *)

Ranks == 1 .. 10

Upward(H, rank, gate, behind) ==
    \A t \in Txns : handler[t] \in H =>
        /\ \A l \in held[t] : l.row \in behind => ForUpdate(gate) \in held[t]
        /\ \A j \in DOMAIN todo[t] :
              MayFollow(held[t] \cup Before(todo[t], j), todo[t][j],
                        rank, gate, behind)

LEMMA BeforeFirst == \A p : DOMAIN p \subseteq Nat \ {0} => Before(p, 1) = {}
BY DEF Before

LEMMA BeforeTail ==
    ASSUME NEW s \in Seq(Lock), s # <<>>, NEW j \in DOMAIN Tail(s)
    PROVE  /\ j + 1 \in DOMAIN s
           /\ Tail(s)[j] = s[j + 1]
           /\ {Head(s)} \cup Before(Tail(s), j) = Before(s, j + 1)
<1>1. /\ 1 \in DOMAIN s /\ Head(s) = s[1]
      /\ DOMAIN s = 1 .. Len(s) /\ DOMAIN Tail(s) = 1 .. (Len(s) - 1)
      /\ Len(s) \in Nat
      /\ \A i \in DOMAIN Tail(s) : Tail(s)[i] = s[i + 1]
  OBVIOUS
<1>2. j + 1 \in DOMAIN s /\ Tail(s)[j] = s[j + 1] /\ j \in Nat \ {0}
  BY <1>1
<1>3. Before(Tail(s), j) = {s[i + 1] : i \in {k \in DOMAIN Tail(s) : k < j}}
  BY <1>1 DEF Before
<1>4. ASSUME NEW l \in Before(s, j + 1)
      PROVE  l \in {Head(s)} \cup Before(Tail(s), j)
  <2>1. PICK k \in DOMAIN s : k < j + 1 /\ l = s[k]
    BY DEF Before
  <2>2. CASE k = 1
    BY <1>1, <2>1, <2>2
  <2>3. CASE k # 1
    <3>1. k - 1 \in DOMAIN Tail(s) /\ k - 1 < j /\ (k - 1) + 1 = k
      BY <1>1, <1>2, <2>1, <2>3
    <3>. QED BY <1>3, <2>1, <3>1
  <2>. QED BY <2>2, <2>3
<1>5. Head(s) \in Before(s, j + 1)
  BY <1>1, <1>2 DEF Before
<1>6. ASSUME NEW l \in Before(Tail(s), j)
      PROVE  l \in Before(s, j + 1)
  <2>1. PICK i \in DOMAIN Tail(s) : i < j /\ l = s[i + 1]
    BY <1>3
  <2>2. i + 1 \in DOMAIN s /\ i + 1 < j + 1
    BY <1>1, <1>2, <2>1
  <2>. QED BY <2>1, <2>2 DEF Before
<1>. QED BY <1>2, <1>4, <1>5, <1>6

LEMMA InitUpward ==
    ASSUME NEW H, NEW rank, NEW gate, NEW behind, Init
    PROVE  Upward(H, rank, gate, behind)
<1>1. \A t \in Txns : todo[t] = <<>> /\ held[t] = {}
  BY DEF Init
<1>2. DOMAIN <<>> = {}
  OBVIOUS
<1>. QED BY <1>1, <1>2 DEF Upward

LEMMA UpwardStep ==
    ASSUME NEW H, NEW rank, NEW gate, NEW behind,
           RespectsOrder(H, rank, gate, behind),
           TypeOK, Upward(H, rank, gate, behind), [Next]_vars
    PROVE  Upward(H, rank, gate, behind)'
<1>. DEFINE Follows(before, l) == MayFollow(before, l, rank, gate, behind)
<1>1. ASSUME NEW t \in Txns, NEW h \in Handlers, NEW p \in Programs[h],
             Begin(t, h, p)
      PROVE  Upward(H, rank, gate, behind)'
  <2>. SUFFICES ASSUME NEW u \in Txns, handler'[u] \in H
                PROVE  /\ \A l \in held'[u] :
                             l.row \in behind => ForUpdate(gate) \in held'[u]
                       /\ \A j \in DOMAIN todo'[u] :
                             Follows(held'[u] \cup Before(todo'[u], j),
                                     todo'[u][j])
    BY DEF Upward
  <2>1. CASE u # t
    <3>. /\ handler'[u] = handler[u] /\ todo'[u] = todo[u]
         /\ held'[u] = held[u]
      BY <1>1, <2>1 DEF TypeOK, Begin
    <3>. QED BY DEF Upward
  <2>2. CASE u = t
    <3>1. handler'[u] = h /\ todo'[u] = p /\ held'[u] = {}
      BY <1>1, <2>2 DEF TypeOK, Begin
    <3>2. \A j \in DOMAIN p : Follows(Before(p, j), p[j])
      BY <3>1 DEF RespectsOrder, Ordered
    <3>. HIDE DEF Follows
    <3>. QED BY <3>1, <3>2
  <2>. QED BY <2>1, <2>2
<1>2. ASSUME NEW t \in Txns, Request(t)
      PROVE  Upward(H, rank, gate, behind)'
  BY <1>2 DEF Request, Upward
<1>3. ASSUME NEW t \in Txns, Grant(t)
      PROVE  Upward(H, rank, gate, behind)'
  <2>. DEFINE s == todo[t]
  <2>1. s \in Seq(Lock) /\ s # <<>>
    BY <1>3 DEF TypeOK, Grant
  <2>2. /\ 1 \in DOMAIN s /\ Head(s) = s[1]
        /\ DOMAIN s \subseteq Nat \ {0}
    BY <2>1
  <2>. SUFFICES ASSUME NEW u \in Txns, handler'[u] \in H
                PROVE  /\ \A l \in held'[u] :
                             l.row \in behind => ForUpdate(gate) \in held'[u]
                       /\ \A j \in DOMAIN todo'[u] :
                             Follows(held'[u] \cup Before(todo'[u], j),
                                     todo'[u][j])
    BY DEF Upward
  <2>4. CASE u # t
    <3>. /\ handler'[u] = handler[u] /\ todo'[u] = todo[u]
         /\ held'[u] = held[u]
      BY <1>3, <2>4 DEF TypeOK, Grant
    <3>. QED BY DEF Upward
  <2>5. CASE u = t
    <3>1. todo'[u] = Tail(s) /\ held'[u] = held[t] \cup {Head(s)}
      BY <1>3, <2>5 DEF TypeOK, Grant
    <3>2. /\ \A l \in held[t] : l.row \in behind => ForUpdate(gate) \in held[t]
          /\ \A j \in DOMAIN s : Follows(held[t] \cup Before(s, j), s[j])
      <4>. handler[t] \in H
        BY <1>3, <2>5 DEF Grant
      <4>. QED BY DEF Upward
    <3>3. Head(s).row \in behind => ForUpdate(gate) \in held[t]
      BY <2>2, <3>2, BeforeFirst DEF MayFollow
    <3>4. ASSUME NEW j \in DOMAIN Tail(s)
          PROVE  Follows((held[t] \cup {Head(s)}) \cup Before(Tail(s), j),
                         Tail(s)[j])
      <4>1. /\ j + 1 \in DOMAIN s /\ Tail(s)[j] = s[j + 1]
            /\ {Head(s)} \cup Before(Tail(s), j) = Before(s, j + 1)
        BY <2>1, BeforeTail
      <4>2. (held[t] \cup {Head(s)}) \cup Before(Tail(s), j)
               = held[t] \cup Before(s, j + 1)
        BY <4>1
      <4>. HIDE DEF Follows, s
      <4>. QED BY <3>2, <4>1, <4>2
    <3>. HIDE DEF Follows, s
    <3>. QED BY <3>1, <3>2, <3>3, <3>4
  <2>. QED BY <2>4, <2>5
<1>4. ASSUME NEW t \in Txns, Leave(t)
      PROVE  Upward(H, rank, gate, behind)'
  <2>1. /\ todo'[t] = <<>> /\ held'[t] = {}
        /\ \A u \in Txns : u # t => /\ handler'[u] = handler[u]
                                    /\ todo'[u] = todo[u]
                                    /\ held'[u] = held[u]
    BY <1>4 DEF TypeOK, Leave
  <2>2. DOMAIN <<>> = {}
    OBVIOUS
  <2>. QED BY <2>1, <2>2 DEF Upward
<1>5. CASE UNCHANGED vars
  BY <1>5 DEF Upward, vars
<1>. QED BY <1>1, <1>2, <1>3, <1>4, <1>5 DEF Next, Finish, Abort

\* No two transactions hold locks that exclude one another.
Exclusive ==
    \A t, u \in Txns : t # u =>
        \A k \in held[t], l \in held[u] : ~Conflict(k, l)

LEMMA ConflictSymmetric == \A k, l : Conflict(k, l) <=> Conflict(l, k)
BY DEF Conflict, ModesConflict

LEMMA ExclusiveStep ==
    ASSUME TypeOK, Exclusive, [Next]_vars
    PROVE  Exclusive'
<1>1. ASSUME NEW t \in Txns, NEW h \in Handlers, NEW p \in Programs[h],
             Begin(t, h, p)
      PROVE  Exclusive'
  BY <1>1 DEF Begin, Exclusive
<1>2. ASSUME NEW t \in Txns, Request(t)
      PROVE  Exclusive'
  BY <1>2 DEF Request, Exclusive
<1>3. ASSUME NEW t \in Txns, Grant(t)
      PROVE  Exclusive'
  <2>1. /\ held'[t] = held[t] \cup {Head(todo[t])}
        /\ \A u \in Txns : u # t => held'[u] = held[u]
    BY <1>3 DEF TypeOK, Grant
  <2>2. \A u \in Txns : u # t =>
           \A l \in held[u] : ~Conflict(l, Head(todo[t]))
    BY <1>3 DEF Grant, WaitsFor
  <2>. SUFFICES ASSUME NEW u \in Txns, NEW v \in Txns, u # v,
                       NEW k \in held'[u], NEW l \in held'[v]
                PROVE  ~Conflict(k, l)
    BY DEF Exclusive
  <2>3. CASE u = t
    BY <2>1, <2>2, <2>3, ConflictSymmetric DEF Exclusive
  <2>4. CASE v = t
    BY <2>1, <2>2, <2>4 DEF Exclusive
  <2>5. CASE u # t /\ v # t
    BY <2>1, <2>5 DEF Exclusive
  <2>. QED BY <2>3, <2>4, <2>5
<1>4. ASSUME NEW t \in Txns, Leave(t)
      PROVE  Exclusive'
  <2>. /\ held'[t] = {}
       /\ \A u \in Txns : u # t => held'[u] = held[u]
    BY <1>4 DEF TypeOK, Leave
  <2>. QED BY DEF Exclusive
<1>5. CASE UNCHANGED vars
  BY <1>5 DEF Exclusive, vars
<1>. QED BY <1>1, <1>2, <1>3, <1>4, <1>5 DEF Next, Finish, Abort

\* A set of ranks in which every rank has a higher one is empty.
LEMMA NoEndlessClimb ==
    ASSUME NEW S \in SUBSET Ranks, \A x \in S : \E y \in S : x < y
    PROVE  S = {}
BY DEF Ranks

LEMMA UpwardHasNoDeadlock ==
    ASSUME NEW H, NEW gate, NEW behind, NEW rank \in [Rows \ behind -> Ranks],
           TypeOK, Exclusive, Upward(H, rank, gate, behind)
    PROVE  DeadlockFree(H)
<1>. SUFFICES ASSUME NEW D \in SUBSET Txns, \A t \in D : handler[t] \in H,
                     Deadlocked(D)
              PROVE  FALSE
  BY DEF DeadlockFree
<1>. DEFINE Next1(t) == Head(todo[t])
            Wanted(t) == rank[Next1(t).row]
<1>1. ASSUME NEW t \in D
      PROVE  /\ Next1(t) \in Lock
             /\ MayFollow(held[t], Next1(t), rank, gate, behind)
  <2>1. todo[t] \in Seq(Lock) /\ todo[t] # <<>>
    BY DEF Deadlocked, WaitsFor, TypeOK
  <2>2. /\ 1 \in DOMAIN todo[t] /\ Next1(t) = todo[t][1]
        /\ DOMAIN todo[t] \subseteq Nat \ {0}
    BY <2>1
  <2>3. held[t] \cup Before(todo[t], 1) = held[t]
    BY <2>2, BeforeFirst
  <2>4. MayFollow(held[t] \cup Before(todo[t], 1), todo[t][1],
                  rank, gate, behind)
    BY <2>2 DEF Upward
  <2>. QED BY <2>1, <2>2, <2>3, <2>4, HeadTail
<1>2. ASSUME NEW t \in D
      PROVE  \E u \in D : u # t /\ \E l \in held[u] : Conflict(l, Next1(t))
  BY DEF Deadlocked, WaitsFor
<1>. HIDE DEF Next1
<1>3. ASSUME NEW t \in D
      PROVE  Next1(t).row \notin behind
  <2>. SUFFICES ASSUME Next1(t).row \in behind
                PROVE  FALSE
    OBVIOUS
  <2>1. PICK u \in D : u # t /\ \E l \in held[u] : Conflict(l, Next1(t))
    BY <1>2
  <2>2. PICK l \in held[u] : l.row = Next1(t).row
    BY <2>1 DEF Conflict
  <2>3. ForUpdate(gate) \in held[t]
    BY <1>1 DEF MayFollow
  <2>4. ForUpdate(gate) \in held[u]
    BY <2>2 DEF Upward
  <2>5. Conflict(ForUpdate(gate), ForUpdate(gate))
    BY DEF Conflict, ModesConflict, ForUpdate
  <2>. QED BY <2>1, <2>3, <2>4, <2>5 DEF Exclusive
<1>4. \A t \in D : Wanted(t) \in Ranks
  BY <1>1, <1>3 DEF Lock
<1>5. \A t \in D : \E u \in D : Wanted(t) < Wanted(u)
  <2>. SUFFICES ASSUME NEW t \in D
                PROVE  \E u \in D : Wanted(t) < Wanted(u)
    OBVIOUS
  <2>1. PICK u \in D : \E l \in held[u] : Conflict(l, Next1(t))
    BY <1>2
  <2>2. PICK l \in held[u] : l.row = Next1(t).row
    BY <2>1 DEF Conflict
  <2>3. rank[l.row] < rank[Next1(u).row]
    BY <1>1, <1>3 DEF MayFollow
  <2>. QED BY <2>2, <2>3
<1>. DEFINE S == {Wanted(t) : t \in D}
<1>6. S \in SUBSET Ranks
  BY <1>4
<1>7. \A x \in S : \E y \in S : x < y
  BY <1>5
<1>8. S # {}
  BY DEF Deadlocked
<1>. HIDE DEF S
<1>. QED BY <1>6, <1>7, <1>8, NoEndlessClimb

LEMMA InitExclusive == Init => Exclusive
BY DEF Init, Exclusive

\* Handlers that take their rows in one order, whatever that order is, and the
\* rows they take in no order only while they hold the gate, never wait for one
\* another in a circle, however many of their transactions run and whatever
\* other handlers run beside them.
THEOREM OrderedLocksNeverDeadlock ==
    ASSUME NEW H, NEW gate, NEW behind, NEW rank \in [Rows \ behind -> Ranks],
           RespectsOrder(H, rank, gate, behind)
    PROVE  Spec => []DeadlockFree(H)
<1>. DEFINE IInv == TypeOK /\ Exclusive /\ Upward(H, rank, gate, behind)
<1>1. Init => IInv
  BY InitType, InitExclusive, InitUpward
<1>2. IInv /\ [Next]_vars => IInv'
  BY TypeStep, ExclusiveStep, UpwardStep
<1>3. IInv => DeadlockFree(H)
  BY UpwardHasNoDeadlock
<1>. QED BY <1>1, <1>2, <1>3, PTL DEF Spec

-----------------------------------------------------------------------------
(* The two orders of the code.                                                *)

LEMMA Ordered1 ==
    ASSUME NEW rank, NEW gate, NEW behind, NEW a, a.row \notin behind
    PROVE  Ordered(<<a>>, rank, gate, behind)
BY DEF Ordered, MayFollow, Before

LEMMA Ordered2 ==
    ASSUME NEW rank, NEW gate, NEW behind, NEW a, NEW b,
           a.row \notin behind, b.row \notin behind,
           rank[a.row] < rank[b.row]
    PROVE  Ordered(<<a, b>>, rank, gate, behind)
BY DEF Ordered, MayFollow, Before

LEMMA Ordered3 ==
    ASSUME NEW rank, NEW gate, NEW behind, NEW a, NEW b, NEW c,
           a.row \notin behind, b.row \notin behind, c.row \notin behind,
           rank[a.row] < rank[b.row], rank[b.row] < rank[c.row],
           rank[a.row] < rank[c.row]
    PROVE  Ordered(<<a, b, c>>, rank, gate, behind)
BY DEF Ordered, MayFollow, Before

\* Past the gate every order will do.
LEMMA OrderedBehind ==
    ASSUME NEW rank, NEW gate, NEW behind,
           NEW S, \A l \in S : l.row \in behind,
           NEW T, S \subseteq T,
           NEW a \in T, NEW b \in T, NEW c \in S, NEW q \in Seq(S),
           a.row \notin behind, b.row \notin behind,
           rank[a.row] < rank[b.row], b = ForUpdate(gate)
    PROVE  Ordered(<<a, b, c>> \o q, rank, gate, behind)
<1>. DEFINE s == <<a, b, c>>
            p == s \o q
<1>1. s \in Seq(T) /\ Len(s) = 3 /\ s[1] = a /\ s[2] = b /\ s[3] = c
  OBVIOUS
<1>2. q \in Seq(T)
  OBVIOUS
<1>. HIDE DEF s
<1>3. /\ DOMAIN p = 1 .. (3 + Len(q)) /\ Len(q) \in Nat
      /\ \A i \in 1 .. 3 : p[i] = s[i]
      /\ \A i \in 4 .. (3 + Len(q)) : p[i] = q[i - 3]
  <2>. HIDE DEF p
  <2>1. /\ Len(p) = Len(s) + Len(q) /\ p \in Seq(T)
        /\ \A i \in 1 .. (Len(s) + Len(q)) :
              p[i] = IF i <= Len(s) THEN s[i] ELSE q[i - Len(s)]
    BY <1>1, <1>2, ConcatProperties DEF p
  <2>2. \A i \in 1 .. (3 + Len(q)) : p[i] = IF i <= 3 THEN s[i] ELSE q[i - 3]
    BY <1>1, <2>1
  <2>3. Len(q) \in Nat
    BY <1>2
  <2>4. DOMAIN p = 1 .. (3 + Len(q))
    BY <1>1, <2>1
  <2>5. \A i \in 1 .. 3 : p[i] = s[i]
    BY <2>2, <2>3
  <2>6. \A i \in 4 .. (3 + Len(q)) : p[i] = q[i - 3]
    BY <2>2, <2>3
  <2>. QED BY <2>3, <2>4, <2>5, <2>6
<1>. HIDE DEF p
<1>4. p[1] = a /\ p[2] = b /\ p[3] = c
  BY <1>1, <1>3
<1>5. \A j \in DOMAIN p : j >= 3 => p[j].row \in behind
  <2>. SUFFICES ASSUME NEW j \in DOMAIN p, j >= 3
                PROVE  p[j] \in S
    OBVIOUS
  <2>1. CASE j = 3
    BY <1>4, <2>1
  <2>2. CASE j # 3
    <3>. j - 3 \in 1 .. Len(q) /\ p[j] = q[j - 3]
      BY <1>3, <2>2
    <3>. QED OBVIOUS
  <2>. QED BY <2>1, <2>2
<1>. SUFFICES ASSUME NEW j \in DOMAIN p
              PROVE  MayFollow(Before(p, j), p[j], rank, gate, behind)
  BY DEF Ordered, p, s
<1>6. CASE j = 1
  <2>. Before(p, j) = {}
    BY <1>3, <1>6 DEF Before
  <2>. QED BY <1>4, <1>6 DEF MayFollow
<1>7. CASE j = 2
  <2>. \A k \in Before(p, j) : k = a
    BY <1>3, <1>4, <1>7 DEF Before
  <2>. QED BY <1>4, <1>7 DEF MayFollow
<1>8. CASE j >= 3
  <2>. b \in Before(p, j)
    BY <1>3, <1>4, <1>8 DEF Before
  <2>. QED BY <1>5, <1>8 DEF MayFollow
<1>. QED BY <1>3, <1>6, <1>7, <1>8

LEMMA PlanAndResultsRankType ==
    PlanAndResultsRank \in [Rows \ BatchResults -> Ranks]
<1>1. Rows \ BatchResults =
         {"experiment", "condition", "exception", "batch", "preparation",
          "execution"}
  BY DEF Rows, BatchResults, Files
<1>. QED BY <1>1 DEF PlanAndResultsRank, Ranks

LEMMA RunSheetRankType == RunSheetRank \in [Rows \ {} -> Ranks]
<1>1. Rows \ {} =
         {"experiment", "condition", "exception", "batch", "preparation",
          "execution", "selection", "stats", "file", "other_file"}
  BY DEF Rows, Files
<1>. QED BY <1>1 DEF RunSheetRank, Ranks

LEMMA RowOf ==
    \A r : /\ ForUpdate(r).row = r
            /\ NoKeyUpdate(r).row = r
            /\ KeyShare(r).row = r
BY DEF ForUpdate, NoKeyUpdate, KeyShare

LEMMA PlanAndResultsOrdered ==
    RespectsOrder(PlanAndResults, PlanAndResultsRank, "batch", BatchResults)
<1>. DEFINE R == PlanAndResultsRank
            InOrder(p) == Ordered(p, R, "batch", BatchResults)
<1>1. /\ R["experiment"] = 1 /\ R["condition"] = 2 /\ R["exception"] = 3
      /\ R["batch"] = 4
  BY DEF PlanAndResultsRank
<1>2. /\ "experiment" \notin BatchResults /\ "condition" \notin BatchResults
      /\ "exception" \notin BatchResults /\ "batch" \notin BatchResults
      /\ Files \subseteq BatchResults
  BY DEF BatchResults, Files
<1>. HIDE DEF R
<1>3. \A p \in CreateCondition \cup UpdatePlanStatus : InOrder(p)
  BY <1>2, RowOf, Ordered1 DEF CreateCondition, UpdatePlanStatus
<1>4. \A p \in RequestException \cup AdvanceBatch : InOrder(p)
  BY <1>2, RowOf, Ordered1 DEF RequestException, AdvanceBatch
<1>5. \A p \in UpdateCondition : InOrder(p)
  BY <1>1, <1>2, RowOf, Ordered2, Ordered3 DEF UpdateCondition
<1>6. \A p \in DeleteCondition : InOrder(p)
  BY <1>1, <1>2, RowOf, Ordered2, Ordered3 DEF DeleteCondition
<1>7. \A p \in CreateFabricationBatch : InOrder(p)
  BY <1>1, <1>2, RowOf, Ordered2 DEF CreateFabricationBatch
<1>8. \A p \in AddResult : InOrder(p)
  BY <1>1, <1>2, RowOf, Ordered2 DEF AddResult
<1>9. \A p \in ApplyResultAssignment : InOrder(p)
  <2>. DEFINE S == {l \in Lock : l.row \in BatchResults}
              E == ForUpdate("experiment")
              B == ForUpdate("batch")
  <2>1. /\ E \in Lock /\ B \in Lock
        /\ \A f \in Files : ForUpdate(f) \in S
    BY <1>2, LockType, RowOf DEF Rows
  <2>2. S \subseteq Lock /\ \A l \in S : l.row \in BatchResults
    OBVIOUS
  <2>3. \A q \in RefreshScanStats : q \in Seq(S)
    BY RefreshType
  <2>4. \A p \in ApplyResultAssignment :
           \E f \in Files, q \in RefreshScanStats :
              p = <<E, B, ForUpdate(f)>> \o q
    <3>. DEFINE Locked(f) == <<E, B, ForUpdate(f)>>
    <3>1. ApplyResultAssignment =
             Then({Locked(f) : f \in Files}, RefreshScanStats)
      BY DEF ApplyResultAssignment
    <3>. HIDE DEF Locked
    <3>2. ASSUME NEW p \in ApplyResultAssignment
          PROVE  \E f \in Files, q \in RefreshScanStats : p = Locked(f) \o q
      <4>1. PICK o \in {Locked(f) : f \in Files}, q \in RefreshScanStats :
                    p = o \o q
        <5>. DEFINE Locks == {Locked(f) : f \in Files}
        <5>. HIDE DEF Locks
        <5>1. \E o \in Locks, q \in RefreshScanStats : p = o \o q
          BY <3>1, ThenParts DEF Locks
        <5>. QED BY <5>1 DEF Locks
      <4>2. PICK f \in Files : o = Locked(f)
        OBVIOUS
      <4>. QED BY <4>1, <4>2
    <3>. QED BY <3>2 DEF Locked
  <2>5. E.row = "experiment" /\ B.row = "batch"
    BY RowOf
  <2>6. B = ForUpdate("batch")
    OBVIOUS
  <2>. HIDE DEF S, E, B
  <2>7. ASSUME NEW f \in Files, NEW q \in RefreshScanStats
        PROVE  InOrder(<<E, B, ForUpdate(f)>> \o q)
    <3>. DEFINE c == ForUpdate(f)
    <3>1. c \in S /\ q \in Seq(S)
      BY <2>1, <2>3
    <3>2. /\ E.row \notin BatchResults /\ B.row \notin BatchResults
          /\ R[E.row] < R[B.row]
      BY <1>1, <1>2, <2>5
    <3>. HIDE DEF c
    <3>3. InOrder(<<E, B, c>> \o q)
      BY <2>1, <2>2, <2>6, <3>1, <3>2, OrderedBehind
    <3>. QED BY <3>3 DEF c
  <2>. HIDE DEF InOrder
  <2>. QED BY <2>4, <2>7
<1>. HIDE DEF InOrder
<1>10. \A h \in PlanAndResults : \A p \in Programs[h] : InOrder(p)
  BY <1>3, <1>4, <1>5, <1>6, <1>7, <1>8, <1>9 DEF PlanAndResults, Programs
<1>. QED
  BY <1>10 DEF RespectsOrder, InOrder, R

LEMMA Prefixed ==
    ASSUME NEW a \in Lock, NEW b \in Lock, NEW c \in Lock
    PROVE  <<a>> \o <<b, c>> = <<a, b, c>>
<1>. DEFINE s == <<a>> \o <<b, c>>
            u == <<a, b, c>>
<1>1. s \in Seq(Lock) /\ u \in Seq(Lock)
  OBVIOUS
<1>2. Len(s) = 3 /\ Len(u) = 3
  OBVIOUS
<1>3. \A i \in 1 .. 3 : s[i] = u[i]
  OBVIOUS
<1>4. s = u
  <2>. HIDE DEF s, u
  <2>. QED BY <1>1, <1>2, <1>3
<1>. QED BY <1>4

LEMMA RunSheetOrdered == RespectsOrder(RunSheet, RunSheetRank, "batch", {})
<1>. DEFINE R == RunSheetRank
            InOrder(p) == Ordered(p, R, "batch", {})
            E == ForUpdate("experiment")
            B == ForUpdate("batch")
            P == ForUpdate("preparation")
            X == ForUpdate("execution")
<1>1. /\ R["preparation"] = 1 /\ R["execution"] = 2 /\ R["batch"] = 3
      /\ R["experiment"] = 4
  BY DEF RunSheetRank
<1>2. /\ E.row = "experiment" /\ B.row = "batch"
      /\ P.row = "preparation" /\ X.row = "execution"
  BY DEF ForUpdate
<1>3. BatchForActor = <<B, E>>
  BY DEF BatchForActor
<1>. E \in Lock /\ B \in Lock /\ P \in Lock /\ X \in Lock
  BY LockType DEF Rows
<1>. HIDE DEF R, E, B, P, X
<1>4. /\ <<P>> \o BatchForActor = <<P, B, E>>
      /\ <<X>> \o BatchForActor = <<X, B, E>>
  BY <1>3, Prefixed
<1>5. /\ InOrder(<<B>>)
      /\ InOrder(<<E>>)
      /\ InOrder(BatchForActor)
      /\ InOrder(<<P>> \o BatchForActor)
      /\ InOrder(<<X>> \o BatchForActor)
  <2>1. InOrder(<<B>>) /\ InOrder(<<E>>)
    BY Ordered1
  <2>2. InOrder(<<B, E>>)
    BY <1>1, <1>2, Ordered2
  <2>3. InOrder(<<P, B, E>>)
    BY <1>1, <1>2, Ordered3
  <2>4. InOrder(<<X, B, E>>)
    BY <1>1, <1>2, Ordered3
  <2>. HIDE DEF InOrder
  <2>. QED BY <1>3, <1>4, <2>1, <2>2, <2>3, <2>4
<1>. HIDE DEF InOrder
<1>6. \A p \in UNION {CreatePreparation, UpdatePreparation, SplitPreparation,
                       MergePreparations} : InOrder(p)
  BY <1>5 DEF CreatePreparation, UpdatePreparation, SplitPreparation,
              MergePreparations, P
<1>7. \A p \in UNION {CreateExecution, UpdateExecution, SplitExecution,
                       MergeExecutions} : InOrder(p)
  BY <1>5 DEF CreateExecution, UpdateExecution, SplitExecution,
              MergeExecutions, X
<1>8. \A p \in UpdatePlanStatus \cup AdvanceBatch : InOrder(p)
  BY <1>5 DEF UpdatePlanStatus, AdvanceBatch, E, B
<1>9. \A h \in RunSheet : \A p \in Programs[h] : InOrder(p)
  BY <1>6, <1>7, <1>8 DEF RunSheet, Programs
<1>. QED
  BY <1>9 DEF RespectsOrder, InOrder, R

\* The plan handlers, uploads and assignments never deadlock among themselves,
\* however many run: the claim of apply_result_assignment, for the handlers it
\* can be made of.  The cache rows and the files their foreign keys share come
\* in no order there, but behind the row of the batch.  Nor do the handlers that
\* edit the run sheet of a batch deadlock: they take the rows of plan and batch
\* in the opposite order.  Of the choice of a scan, which locks the results with
\* no batch row held, neither is claimed.
THEOREM NoDeadlockWithinAnOrder == Spec => []NoDeadlock
<1>. DEFINE IInv == /\ TypeOK
                    /\ Exclusive
                    /\ Upward(PlanAndResults, PlanAndResultsRank, "batch",
                              BatchResults)
                    /\ Upward(RunSheet, RunSheetRank, "batch", {})
<1>1. Init => IInv
  BY InitType, InitExclusive, InitUpward
<1>2. IInv /\ [Next]_vars => IInv'
  BY TypeStep, ExclusiveStep, UpwardStep, PlanAndResultsOrdered,
     RunSheetOrdered
<1>3. IInv => NoDeadlock
  BY UpwardHasNoDeadlock, PlanAndResultsRankType, RunSheetRankType
     DEF NoDeadlock
<1>. QED BY <1>1, <1>2, <1>3, PTL DEF Spec

=============================================================================
