------------------------------ MODULE FoldLaws ------------------------------
(* The defining equations of FoldLeft and of a fold over a set, for whatever  *)
(* is folded: Op takes a parameter, what the elements before have given, and  *)
(* the next element.  A module that folds takes an instance of this one for   *)
(* each of its folds.                                                         *)
EXTENDS Integers, Sequences, SequencesExt, WellFoundedInduction,
        FiniteSetTheorems, SequenceTheorems, TLAPS

CONSTANTS Op(_, _, _), Base

Folded(c, seq) == FoldLeft(LAMBDA sofar, x : Op(c, sofar, x), Base, seq)

-----------------------------------------------------------------------------

\* Induction over the naturals, for a set of them instead of a predicate.
LEMMA NatSetInduction ==
    ASSUME NEW S, 0 \in S, \A n \in Nat : n \in S => n + 1 \in S
    PROVE  Nat \subseteq S
<1> SUFFICES ASSUME NEW bad \in Nat, bad \notin S
             PROVE  FALSE
  OBVIOUS
<1> DEFINE Bad == {n \in Nat : n \notin S}
<1>1. \E m \in Bad : \A k \in Bad : ~(<<k, m>> \in OpToRel(<, Nat))
  BY NatLessThanWellFounded, WFMin, bad \in Bad
<1>2. PICK m \in Bad : \A k \in Bad : ~(k < m)
  BY <1>1 DEF OpToRel
<1>3. m # 0 /\ m - 1 \in Nat
  OBVIOUS
<1>4. m - 1 \notin Bad
  BY <1>2, <1>3
<1> QED
  BY <1>3, <1>4

\* Induction over the sequences of a set's elements.
LEMMA SeqSetInduction ==
    ASSUME NEW X, NEW S, <<>> \in S,
           \A s \in Seq(X), x \in X : s \in S => Append(s, x) \in S
    PROVE  Seq(X) \subseteq S
<1> DEFINE L == {n \in Nat : \A s \in Seq(X) : Len(s) = n => s \in S}
<1>1. 0 \in L
  <2>1. \A s \in Seq(X) : Len(s) = 0 => s = <<>>
    OBVIOUS
  <2> QED
    BY <2>1
<1>2. ASSUME NEW n \in Nat, n \in L
      PROVE  n + 1 \in L
  <2> SUFFICES ASSUME NEW s \in Seq(X), Len(s) = n + 1
               PROVE  s \in S
    OBVIOUS
  <2> DEFINE front == SubSeq(s, 1, n)
             last == s[n + 1]
  <2>1. front \in Seq(X) /\ Len(front) = n /\ last \in X
    OBVIOUS
  <2>2. s = Append(front, last)
    OBVIOUS
  <2> HIDE DEF front, last
  <2>3. front \in S
    BY <1>2, <2>1
  <2> QED
    BY <2>1, <2>2, <2>3
<1> HIDE DEF L
<1>3. \A s \in Seq(X) : Len(s) \in L
  BY <1>1, <1>2, NatSetInduction
<1> QED
  BY <1>3 DEF L

LEMMA TopIsMax ==
    ASSUME NEW n \in Nat, NEW s \in SUBSET (1..n), n \in s
    PROVE  Max(s) = n
<1>1. \A y \in s : y \in Nat /\ n >= y
  OBVIOUS
<1>2. \A x \in s : (\A y \in s : x >= y) => x = n
  BY <1>1
<1> QED
  BY <1>1, <1>2 DEF Max

\* The function FoldLeft computes with: what each set of positions gives.
Given(c, seq, D, g) ==
    g = [s \in SUBSET D |->
            IF s = {} THEN Base
            ELSE Op(c, g[s \ {Max(s)}], seq[Max(s)])]

LEMMA FoldedByGiven ==
    ASSUME NEW c, NEW seq
    PROVE  Folded(c, seq)
               = (CHOOSE g : Given(c, seq, DOMAIN seq, g))[DOMAIN seq]
  BY Zenon DEF Folded, FoldLeft, MapThenFoldSet, Given

LEMMA GivenExtends ==
    ASSUME NEW c, NEW seq, NEW n \in Nat, NEW g, Given(c, seq, 1..n, g)
    PROVE  \E h : Given(c, seq, 1..(n + 1), h)
<1> DEFINE top == n + 1
           h == [s \in SUBSET (1..top) |->
                    IF top \in s THEN Op(c, g[s \ {top}], seq[top]) ELSE g[s]]
<1>1. \A s \in SUBSET (1..top) : top \notin s => s \in SUBSET (1..n)
  OBVIOUS
<1>2. \A s \in SUBSET (1..n) : h[s] = g[s]
  <2>1. \A s \in SUBSET (1..n) : s \in SUBSET (1..top) /\ top \notin s
    OBVIOUS
  <2> QED
    BY <2>1
<1>3. ASSUME NEW s \in SUBSET (1..top)
      PROVE  h[s] = IF s = {} THEN Base
                    ELSE Op(c, h[s \ {Max(s)}], seq[Max(s)])
  <2>1. CASE top \in s
    <3>1. Max(s) = top
      BY <2>1, TopIsMax
    <3>2. s \ {top} \in SUBSET (1..n)
      OBVIOUS
    <3>3. h[s \ {top}] = g[s \ {top}]
      BY <3>2, <1>2
    <3>4. h[s] = Op(c, g[s \ {top}], seq[top])
      BY <2>1
    <3> QED
      BY <2>1, <3>1, <3>3, <3>4
  <2>2. CASE top \notin s
    <3>1. s \in SUBSET (1..n) /\ h[s] = g[s]
      BY <2>2, <1>1, <1>2
    <3>2. g[s] = IF s = {} THEN Base
                 ELSE Op(c, g[s \ {Max(s)}], seq[Max(s)])
      BY <3>1 DEF Given
    <3>3. s \ {Max(s)} \in SUBSET (1..n)
      BY <3>1
    <3>4. h[s \ {Max(s)}] = g[s \ {Max(s)}]
      BY <3>3, <1>2
    <3> QED
      BY <3>1, <3>2, <3>4
  <2> QED
    BY <2>1, <2>2
<1>4. Given(c, seq, 1..top, h)
  <2> DEFINE F(s) == IF s = {} THEN Base
                     ELSE Op(c, h[s \ {Max(s)}], seq[Max(s)])
  <2>1. h = [s \in SUBSET (1..top) |-> h[s]]
    OBVIOUS
  <2>2. \A s \in SUBSET (1..top) : h[s] = F(s)
    BY <1>3
  <2> HIDE DEF h
  <2>3. [s \in SUBSET (1..top) |-> h[s]] = [s \in SUBSET (1..top) |-> F(s)]
    BY <2>2
  <2> QED
    BY <2>1, <2>3 DEF Given
<1> QED
  BY <1>4

LEMMA GivenExists ==
    ASSUME NEW c, NEW seq, NEW n \in Nat
    PROVE  \E g : Given(c, seq, 1..n, g)
<1> DEFINE S == {k \in Nat : \E g : Given(c, seq, 1..k, g)}
<1>1. 0 \in S
  <2> DEFINE g == [s \in SUBSET (1..0) |-> Base]
  <2>1. \A s \in SUBSET (1..0) : s = {}
    OBVIOUS
  <2>2. Given(c, seq, 1..0, g)
    BY <2>1 DEF Given
  <2> QED
    BY <2>2
<1>2. \A k \in Nat : k \in S => k + 1 \in S
  BY GivenExtends
<1> HIDE DEF S
<1>3. n \in S
  BY <1>1, <1>2, NatSetInduction
<1> QED
  BY <1>3 DEF S

\* What the first elements give, in order.
Running(c, seq, acc) ==
    /\ acc[0] = Base
    /\ \A i \in 1..Len(seq) : acc[i] = Op(c, acc[i - 1], seq[i])

LEMMA FoldedRuns ==
    ASSUME NEW c, NEW X, NEW seq \in Seq(X)
    PROVE  \E acc : Running(c, seq, acc) /\ Folded(c, seq) = acc[Len(seq)]
<1> DEFINE g == CHOOSE g : Given(c, seq, 1..Len(seq), g)
           acc == [i \in 0..Len(seq) |-> g[1..i]]
<1>1. Len(seq) \in Nat /\ DOMAIN seq = 1..Len(seq)
  OBVIOUS
<1>2. Given(c, seq, 1..Len(seq), g)
  BY <1>1, GivenExists
<1>3. Folded(c, seq) = g[1..Len(seq)]
  BY <1>1, FoldedByGiven
<1> HIDE DEF g
<1>4. acc[0] = Base
  <2>1. 1..0 = {} /\ {} \in SUBSET (1..Len(seq))
    OBVIOUS
  <2> QED
    BY <2>1, <1>2 DEF Given
<1>5. ASSUME NEW i \in 1..Len(seq)
      PROVE  acc[i] = Op(c, acc[i - 1], seq[i])
  <2>1. /\ 1..i \in SUBSET (1..Len(seq))
        /\ i \in 1..i
        /\ 1..i # {}
        /\ (1..i) \ {i} = 1..(i - 1)
        /\ i \in Nat
    <3>1. i \in Nat /\ i >= 1 /\ i <= Len(seq) /\ Len(seq) \in Nat
      BY <1>1
    <3>2. \A k : k \in (1..i) \ {i} <=> k \in 1..(i - 1)
      BY <3>1
    <3>3. (1..i) \ {i} = 1..(i - 1)
      BY <3>2
    <3>4. \A k \in 1..i : k \in 1..Len(seq)
      BY <3>1
    <3>5. i \in 1..i
      BY <3>1
    <3> HIDE DEF acc
    <3> QED
      BY <3>1, <3>3, <3>4, <3>5, Zenon
  <2>2. Max(1..i) = i
    BY <2>1, TopIsMax
  <2>3. g[1..i] = Op(c, g[1..(i - 1)], seq[i])
    BY <2>1, <2>2, <1>2 DEF Given
  <2> QED
    BY <2>3
<1>6. Running(c, seq, acc)
  BY <1>4, <1>5 DEF Running
<1> QED
  BY <1>1, <1>3, <1>6

LEMMA RunningAgree ==
    ASSUME NEW c, NEW s, NEW t, NEW n \in Nat, NEW a, NEW b,
           n <= Len(s), n <= Len(t), Len(s) \in Nat, Len(t) \in Nat,
           \A i \in 1..n : s[i] = t[i],
           Running(c, s, a), Running(c, t, b)
    PROVE  a[n] = b[n]
<1> DEFINE S == {k \in Nat : k <= n => a[k] = b[k]}
<1>1. 0 \in S
  BY DEF Running
<1>2. ASSUME NEW k \in Nat, k \in S
      PROVE  k + 1 \in S
  <2> SUFFICES ASSUME k + 1 <= n
               PROVE  a[k + 1] = b[k + 1]
    OBVIOUS
  <2>1. a[k] = b[k]
    BY <1>2
  <2>2. k + 1 \in 1..Len(s) /\ k + 1 \in 1..Len(t) /\ k + 1 \in 1..n
    OBVIOUS
  <2>3. (k + 1) - 1 = k
    OBVIOUS
  <2> QED
    BY <2>1, <2>2, <2>3 DEF Running
<1> HIDE DEF S
<1>3. n \in S
  BY <1>1, <1>2, NatSetInduction
<1> QED
  BY <1>3 DEF S

-----------------------------------------------------------------------------

\* Nothing folded leaves the base, and an element more is one step more.
LEMMA FoldedEmpty == \A c : Folded(c, <<>>) = Base
<1> TAKE c
<1>1. <<>> \in Seq({}) /\ Len(<<>>) = 0
  OBVIOUS
<1> QED
  BY <1>1, FoldedRuns DEF Running

LEMMA FoldedAppend ==
    ASSUME NEW c, NEW X, NEW seq \in Seq(X), NEW x \in X
    PROVE  Folded(c, Append(seq, x)) = Op(c, Folded(c, seq), x)
<1> DEFINE more == Append(seq, x)
           n == Len(seq)
<1>1. /\ more \in Seq(X) /\ Len(more) = n + 1 /\ more[n + 1] = x
      /\ \A i \in 1..n : seq[i] = more[i]
      /\ n \in Nat
  OBVIOUS
<1> HIDE DEF more
<1>2. PICK a : Running(c, seq, a) /\ Folded(c, seq) = a[n]
  BY FoldedRuns
<1>3. PICK b : Running(c, more, b) /\ Folded(c, more) = b[n + 1]
  BY <1>1, FoldedRuns
<1>4. a[n] = b[n]
  BY <1>1, <1>2, <1>3, RunningAgree
<1>5. b[n + 1] = Op(c, b[(n + 1) - 1], more[n + 1])
  BY <1>1, <1>3 DEF Running
<1>6. (n + 1) - 1 = n
  BY <1>1
<1> QED
  BY <1>1, <1>2, <1>3, <1>4, <1>5, <1>6 DEF more

-----------------------------------------------------------------------------
(* The same over a set, whose elements are taken in no particular order.     *)

Gathered(c, S) ==
    MapThenFoldSet(LAMBDA x, y : Op(c, y, x), Base, LAMBDA x : x,
                   LAMBDA s : CHOOSE x \in s : TRUE, S)

Taken(s) == CHOOSE x \in s : TRUE

Collected(c, D, g) ==
    g = [s \in SUBSET D |->
            IF s = {} THEN Base ELSE Op(c, g[s \ {Taken(s)}], Taken(s))]

LEMMA GatheredByCollected ==
    ASSUME NEW c, NEW S
    PROVE  Gathered(c, S) = (CHOOSE g : Collected(c, S, g))[S]
  BY Zenon DEF Gathered, MapThenFoldSet, Collected, Taken

LEMMA TakenLeft ==
    ASSUME NEW s, IsFiniteSet(s), s # {}
    PROVE  /\ Taken(s) \in s /\ IsFiniteSet(s \ {Taken(s)})
           /\ Cardinality(s) \in Nat \ {0}
           /\ Cardinality(s \ {Taken(s)}) = Cardinality(s) - 1
<1>1. Taken(s) \in s
  BY DEF Taken
<1>2. Cardinality(s) \in Nat /\ Cardinality(s) # 0
  BY FS_CardinalityType, FS_EmptySet
<1> QED
  BY <1>1, <1>2, FS_RemoveElement

LEMMA CollectedExists ==
    ASSUME NEW c, NEW D, IsFiniteSet(D)
    PROVE  \E g : Collected(c, D, g)
<1> DEFINE At(g, s) ==
             g[s] = IF s = {} THEN Base ELSE Op(c, g[s \ {Taken(s)}], Taken(s))
           UpTo(n, g) ==
             /\ DOMAIN g = SUBSET D
             /\ g = [s \in SUBSET D |-> g[s]]
             /\ \A s \in SUBSET D : Cardinality(s) <= n => At(g, s)
           L == {n \in Nat : \E g : UpTo(n, g)}
<1>1. \A s \in SUBSET D : IsFiniteSet(s) /\ Cardinality(s) \in Nat
  BY FS_Subset, FS_CardinalityType
<1>2. 0 \in L
  <2> DEFINE g == [s \in SUBSET D |-> Base]
  <2>1. \A s \in SUBSET D : Cardinality(s) <= 0 => s = {}
    BY <1>1, FS_EmptySet
  <2>2. UpTo(0, g)
    BY <2>1
  <2> QED
    BY <2>2
<1>3. ASSUME NEW n \in Nat, n \in L
      PROVE  n + 1 \in L
  <2>1. PICK g : UpTo(n, g)
    BY <1>3
  <2> DEFINE h == [s \in SUBSET D |->
                     IF Cardinality(s) = n + 1
                     THEN Op(c, g[s \ {Taken(s)}], Taken(s)) ELSE g[s]]
  <2>2. \A s \in SUBSET D : Cardinality(s) <= n => h[s] = g[s]
    BY <1>1
  <2>3. \A s \in SUBSET D :
           Cardinality(s) = n + 1 =>
              h[s] = Op(c, g[s \ {Taken(s)}], Taken(s))
    OBVIOUS
  <2>4. DOMAIN h = SUBSET D /\ h = [s \in SUBSET D |-> h[s]]
    OBVIOUS
  <2> HIDE DEF h
  <2>5. ASSUME NEW s \in SUBSET D, Cardinality(s) <= n + 1
        PROVE  At(h, s)
    <3>1. CASE s = {}
      <4>1. Cardinality(s) <= n
        BY <3>1, FS_EmptySet
      <4>2. At(g, s) /\ h[s] = g[s]
        BY <2>1, <2>2, <4>1
      <4> QED
        BY <3>1, <4>2
    <3>2. CASE s # {}
      <4> DEFINE less == s \ {Taken(s)}
      <4>1. /\ less \in SUBSET D /\ Cardinality(s) \in Nat \ {0}
            /\ Cardinality(less) = Cardinality(s) - 1
        BY <1>1, <3>2, TakenLeft
      <4> HIDE DEF less
      <4>2. Cardinality(less) <= n
        BY <2>5, <4>1
      <4>3. h[less] = g[less]
        BY <2>2, <4>1, <4>2
      <4>4. h[s] = Op(c, g[less], Taken(s))
        <5>1. CASE Cardinality(s) = n + 1
          BY <2>3, <5>1 DEF less
        <5>2. CASE Cardinality(s) # n + 1
          <6>1. Cardinality(s) <= n
            BY <2>5, <4>1, <5>2
          <6>2. At(g, s)
            BY <2>1, <6>1
          <6> QED
            BY <2>2, <3>2, <6>1, <6>2 DEF less
        <5> QED
          BY <5>1, <5>2
      <4> QED
        BY <3>2, <4>3, <4>4 DEF less
    <3> QED
      BY <3>1, <3>2
  <2> HIDE DEF At
  <2>6. UpTo(n + 1, h)
    BY <2>4, <2>5
  <2> HIDE DEF UpTo
  <2>7. \E f : UpTo(n + 1, f)
    BY <2>6
  <2> QED
    BY <2>7
<1> HIDE DEF L
<1>4. Cardinality(D) \in L
  BY <1>1, <1>2, <1>3, NatSetInduction
<1>5. PICK g : UpTo(Cardinality(D), g)
  BY <1>4 DEF L
<1>6. \A s \in SUBSET D : At(g, s)
  BY <1>5, FS_Subset
<1>7. Collected(c, D, g)
  <2> DEFINE F(s) == IF s = {} THEN Base
                     ELSE Op(c, g[s \ {Taken(s)}], Taken(s))
  <2>1. \A s \in SUBSET D : g[s] = F(s)
    BY <1>6
  <2> HIDE DEF F
  <2>2. [s \in SUBSET D |-> g[s]] = [s \in SUBSET D |-> F(s)]
    BY <2>1
  <2> QED
    BY <1>5, <2>2 DEF Collected, F
<1> QED
  BY <1>7

LEMMA CollectedAgree ==
    ASSUME NEW c, NEW D, IsFiniteSet(D), NEW E \in SUBSET D, NEW g, NEW h,
           Collected(c, D, g), Collected(c, E, h)
    PROVE  \A s \in SUBSET E : g[s] = h[s]
<1> DEFINE L == {n \in Nat :
                    \A s \in SUBSET E : Cardinality(s) = n => g[s] = h[s]}
<1>1. \A s \in SUBSET E : /\ IsFiniteSet(s) /\ Cardinality(s) \in Nat
                          /\ s \in SUBSET D
  BY FS_Subset, FS_CardinalityType
<1>2. \A s \in SUBSET E :
         /\ g[s] = IF s = {} THEN Base
                   ELSE Op(c, g[s \ {Taken(s)}], Taken(s))
         /\ h[s] = IF s = {} THEN Base
                   ELSE Op(c, h[s \ {Taken(s)}], Taken(s))
  BY <1>1 DEF Collected
<1>3. 0 \in L
  <2>1. \A s \in SUBSET E : Cardinality(s) = 0 => s = {}
    BY <1>1, FS_EmptySet
  <2> QED
    BY <1>2, <2>1
<1>4. ASSUME NEW n \in Nat, n \in L
      PROVE  n + 1 \in L
  <2> SUFFICES ASSUME NEW s \in SUBSET E, Cardinality(s) = n + 1
               PROVE  g[s] = h[s]
    OBVIOUS
  <2>1. s # {}
    BY FS_EmptySet
  <2>2. /\ s \ {Taken(s)} \in SUBSET E
        /\ Cardinality(s \ {Taken(s)}) = n
    BY <1>1, <2>1, TakenLeft
  <2>3. g[s \ {Taken(s)}] = h[s \ {Taken(s)}]
    BY <1>4, <2>2
  <2> QED
    BY <1>2, <2>1, <2>3
<1> HIDE DEF L
<1>5. \A s \in SUBSET E : Cardinality(s) \in L
  BY <1>1, <1>3, <1>4, NatSetInduction
<1> QED
  BY <1>5 DEF L

LEMMA GatheredUnfolds ==
    ASSUME NEW c, NEW S, IsFiniteSet(S)
    PROVE  Gathered(c, S) =
              IF S = {} THEN Base
              ELSE Op(c, Gathered(c, S \ {Taken(S)}), Taken(S))
<1> DEFINE T == S \ {Taken(S)}
           g == CHOOSE g : Collected(c, S, g)
           h == CHOOSE h : Collected(c, T, h)
<1>1. IsFiniteSet(T) /\ T \in SUBSET S
  BY FS_RemoveElement
<1>2. Collected(c, S, g)
  BY CollectedExists
<1>3. Collected(c, T, h)
  BY <1>1, CollectedExists
<1>4. Gathered(c, S) = g[S] /\ Gathered(c, T) = h[T]
  BY GatheredByCollected
<1> HIDE DEF g, h
<1>5. g[T] = h[T]
  BY <1>1, <1>2, <1>3, CollectedAgree
<1>6. g[S] = IF S = {} THEN Base ELSE Op(c, g[S \ {Taken(S)}], Taken(S))
  BY <1>2 DEF Collected
<1> QED
  BY <1>4, <1>5, <1>6

LEMMA GatheredEmpty == \A c : Gathered(c, {}) = Base
  BY FS_EmptySet, GatheredUnfolds

\* Where the order makes no difference any element may be the last.
Commutes(c, V, X) ==
    /\ Base \in V
    /\ \A v \in V, x \in X : Op(c, v, x) \in V
    /\ \A v \in V, x \in X, y \in X :
          Op(c, Op(c, v, x), y) = Op(c, Op(c, v, y), x)

LEMMA GatheredLast ==
    ASSUME NEW c, NEW V, NEW X, Commutes(c, V, X),
           NEW S \in SUBSET X, IsFiniteSet(S)
    PROVE  /\ Gathered(c, S) \in V
           /\ \A y \in S : Gathered(c, S) = Op(c, Gathered(c, S \ {y}), y)
<1> DEFINE Good(T) ==
             /\ Gathered(c, T) \in V
             /\ \A y \in T : Gathered(c, T) = Op(c, Gathered(c, T \ {y}), y)
           L == {n \in Nat : \A T \in SUBSET X :
                    IsFiniteSet(T) /\ Cardinality(T) <= n => Good(T)}
<1>1. 0 \in L
  <2>1. Good({})
    BY GatheredEmpty DEF Commutes
  <2>2. \A T : IsFiniteSet(T) /\ Cardinality(T) <= 0 => T = {}
    BY FS_EmptySet, FS_CardinalityType
  <2> QED
    BY <2>1, <2>2
<1>2. ASSUME NEW n \in Nat, n \in L
      PROVE  n + 1 \in L
  <2> SUFFICES ASSUME NEW T \in SUBSET X, IsFiniteSet(T),
                      Cardinality(T) = n + 1
               PROVE  Good(T)
    BY <1>2, FS_CardinalityType
  <2> DEFINE z == Taken(T)
             G(U) == Gathered(c, U)
  <2>1. T # {}
    BY FS_EmptySet
  <2>2. z \in T /\ z \in X
    BY <2>1, TakenLeft
  <2>3. G(T) = Op(c, G(T \ {z}), z)
    BY <2>1, GatheredUnfolds
  <2>4. \A y \in T : /\ T \ {y} \in SUBSET X /\ IsFiniteSet(T \ {y})
                      /\ Cardinality(T \ {y}) = n
    <3> TAKE y \in T
    <3>1. T \ {y} \in SUBSET X
      OBVIOUS
    <3>2. /\ IsFiniteSet(T \ {y})
          /\ Cardinality(T \ {y}) = Cardinality(T) - 1
      BY FS_RemoveElement
    <3> QED
      BY <3>1, <3>2
  <2> HIDE DEF z
  <2>5. \A y \in T : Good(T \ {y})
    BY <1>2, <2>4
  <2>6. G(T) \in V
    BY <2>2, <2>3, <2>5 DEF Commutes
  <2>7. ASSUME NEW y \in T
        PROVE  G(T) = Op(c, G(T \ {y}), y)
    <3>1. CASE y = z
      BY <2>3, <3>1
    <3>2. CASE y # z
      <4> DEFINE rest == (T \ {z}) \ {y}
      <4>1. rest = (T \ {y}) \ {z} /\ y \in T \ {z} /\ z \in T \ {y}
        BY <2>2, <3>2
      <4>2. G(T \ {z}) = Op(c, G(rest), y)
        BY <2>2, <2>5, <4>1
      <4>3. G(T \ {y}) = Op(c, G(rest), z)
        BY <2>5, <4>1
      <4>4. G(rest) \in V
        <5>1. IsFiniteSet(T \ {z}) /\ Cardinality(T \ {z}) = n
          BY <2>2, <2>4
        <5>2. rest \in SUBSET (T \ {z}) /\ rest \in SUBSET X
          OBVIOUS
        <5> HIDE DEF rest
        <5>3. IsFiniteSet(rest) /\ Cardinality(rest) <= n
          BY <5>1, <5>2, FS_Subset
        <5> QED
          BY <1>2, <5>2, <5>3
      <4> HIDE DEF rest, G
      <4>5. Op(c, Op(c, G(rest), y), z) = Op(c, Op(c, G(rest), z), y)
        BY <2>2, <4>4 DEF Commutes
      <4> QED
        BY <2>3, <4>2, <4>3, <4>5
    <3> QED
      BY <3>1, <3>2
  <2> QED
    BY <2>6, <2>7
<1> HIDE DEF L
<1>3. Cardinality(S) \in L
  BY <1>1, <1>2, NatSetInduction, FS_CardinalityType
<1>4. Cardinality(S) <= Cardinality(S)
  BY FS_CardinalityType
<1> QED
  BY <1>3, <1>4 DEF L

\* In a row or in no order, each element once gives the same.
LEMMA GatheredAlong ==
    ASSUME NEW c, NEW V, NEW X, Commutes(c, V, X),
           NEW seq \in Seq(X),
           \A i, j \in DOMAIN seq : seq[i] = seq[j] => i = j
    PROVE  Folded(c, seq) = Gathered(c, {seq[i] : i \in DOMAIN seq})
<1> DEFINE In(s) == {s[i] : i \in DOMAIN s}
           Once(s) == \A i, j \in DOMAIN s : s[i] = s[j] => i = j
           Good(s) == /\ IsFiniteSet(In(s))
                      /\ Once(s) => Folded(c, s) = Gathered(c, In(s))
           L == {s \in Seq(X) : Good(s)}
<1>1. <<>> \in L
  <2>1. In(<<>>) = {} /\ IsFiniteSet({})
    BY FS_EmptySet
  <2> HIDE DEF In, Once
  <2>2. Folded(c, <<>>) = Base /\ Gathered(c, {}) = Base
    BY FoldedEmpty, GatheredEmpty
  <2>3. Good(<<>>)
    BY <2>1, <2>2
  <2>4. <<>> \in Seq(X)
    OBVIOUS
  <2> HIDE DEF Good
  <2> QED
    BY <2>3, <2>4
<1>2. ASSUME NEW s \in Seq(X), NEW x \in X, s \in L
      PROVE  Append(s, x) \in L
  <2> DEFINE more == Append(s, x)
  <2>1. /\ DOMAIN more = 1..(Len(s) + 1) /\ DOMAIN s = 1..Len(s)
        /\ more[Len(s) + 1] = x /\ \A i \in DOMAIN s : more[i] = s[i]
        /\ more \in Seq(X) /\ Len(s) \in Nat
    OBVIOUS
  <2>2. Folded(c, more) = Op(c, Folded(c, s), x)
    BY FoldedAppend
  <2> HIDE DEF more
  <2>3. In(more) = In(s) \cup {x} /\ In(s) \in SUBSET X
    BY <2>1
  <2>4. Once(more) => Once(s) /\ x \notin In(s)
    BY <2>1
  <2> HIDE DEF In, Once
  <2>5. IsFiniteSet(In(s)) /\ IsFiniteSet(In(more))
    BY <1>2, <2>3, FS_AddElement
  <2>6. ASSUME Once(more)
        PROVE  Folded(c, more) = Gathered(c, In(more))
    <3>1. In(more) \ {x} = In(s)
      BY <2>3, <2>4, <2>6
    <3>2. x \in In(more) /\ In(more) \in SUBSET X
      BY <2>3
    <3>3. Gathered(c, In(more)) = Op(c, Gathered(c, In(more) \ {x}), x)
      BY <2>5, <3>2, GatheredLast
    <3>4. Folded(c, s) = Gathered(c, In(s))
      BY <1>2, <2>4, <2>6
    <3> QED
      BY <2>2, <3>1, <3>3, <3>4
  <2> QED
    BY <2>1, <2>5, <2>6 DEF more
<1> HIDE DEF L
<1>3. seq \in L
  BY <1>1, <1>2, SeqSetInduction
<1> QED
  BY <1>3 DEF L
=============================================================================
