--------------------------- MODULE ExposerProofs ---------------------------
(***************************************************************************)
(* Proofs about ExposerServer, for any number of requests, any rules and   *)
(* any capacity of the histogram: the durations are a sliding window and   *)
(* its quantiles stand at their ranks, the counters add up, a metrics page *)
(* is consistent, nothing runs that is not granted, and to its clients the *)
(* exposer is the service the hub is to the exposer.                       *)
(***************************************************************************)
EXTENDS ExposerServer, SequenceTheorems, FiniteSetTheorems, WellFoundedInduction, TLAPS

-----------------------------------------------------------------------------
(* The ring buffer of durations implements the sliding window, for every     *)
(* capacity.                                                                 *)

\* Observing keeps the position inside the buffer.
LEMMA ObserveType ==
    ASSUME HistogramTypeOK, NEW d \in Durations, Observe(d)
    PROVE  HistogramTypeOK'
<1>1. pos' \in Slots /\ buf' \in [Slots -> Nat]
  BY HistogramAssumption DEF HistogramTypeOK, Observe, Slots
<1>2. full' \in BOOLEAN
  BY Zenon DEF HistogramTypeOK, Observe
<1> QED  BY <1>1, <1>2 DEF HistogramTypeOK

\* Before the buffer has wrapped around, the observation is appended.
LEMMA ObserveAppends ==
    ASSUME HistogramTypeOK, NEW d \in Durations, Observe(d), ~full
    PROVE  Len(Recent) < MaxSize /\ Recent' = Append(Recent, d)
<1>1. Len(Recent) = pos /\ pos < MaxSize
  BY HistogramAssumption DEF HistogramTypeOK, Recent, Slots
<1>2. CASE pos + 1 < MaxSize
  BY <1>1, <1>2, HistogramAssumption DEF HistogramTypeOK, Recent, Slots, Observe
<1>3. CASE pos + 1 >= MaxSize
  <2>1. pos' = 0 /\ full' /\ pos + 1 = MaxSize
    BY <1>1, <1>3, HistogramAssumption DEF HistogramTypeOK, Slots, Observe
  <2>2. Recent' = [i \in 1 .. MaxSize |-> buf'[i - 1]]
    BY <2>1, HistogramAssumption DEF Recent
  <2>3. \A i \in 1 .. MaxSize : buf'[i - 1] = IF i = MaxSize THEN d ELSE buf[i - 1]
    BY <2>1, HistogramAssumption DEF Observe, HistogramTypeOK, Slots
  <2>4. Append(Recent, d) = [i \in 1 .. MaxSize |-> IF i = MaxSize THEN d ELSE buf[i - 1]]
    BY <2>1, HistogramAssumption DEF Recent, HistogramTypeOK, Slots
  <2> QED  BY <1>1, <2>2, <2>3, <2>4
<1> QED  BY <1>2, <1>3, HistogramAssumption DEF HistogramTypeOK, Slots

\* Append after Tail moves every element one place to the front.
LEMMA AppendTail ==
    ASSUME NEW n \in Nat \ {0}, NEW f \in [1 .. n -> Nat], NEW d \in Nat
    PROVE  Append(Tail(f), d) = [i \in 1 .. n |-> IF i = n THEN d ELSE f[i + 1]]
<1>1. f \in Seq(Nat) /\ Len(f) = n
  OBVIOUS
<1>2. Tail(f) \in Seq(Nat) /\ Len(Tail(f)) = n - 1 /\ \A i \in 1 .. n - 1 : Tail(f)[i] = f[i + 1]
  BY <1>1
<1> DEFINE g == Append(Tail(f), d)
<1>3. /\ g \in Seq(Nat)
      /\ Len(g) = n
      /\ \A i \in 1 .. n - 1 : g[i] = Tail(f)[i]
      /\ g[n] = d
  BY <1>2, AppendProperties
<1>4. \A i \in 1 .. n : g[i] = IF i = n THEN d ELSE f[i + 1]
  BY <1>2, <1>3
<1> HIDE DEF g
<1>5. g \in [1 .. n -> Nat]
  BY <1>3, LenProperties
<1>6. g = [i \in 1 .. n |-> IF i = n THEN d ELSE f[i + 1]]
  BY <1>4, <1>5
<1> QED  BY <1>6 DEF g

\* Afterwards it takes the place of the oldest one.
LEMMA ObserveReplaces ==
    ASSUME HistogramTypeOK, NEW d \in Durations, Observe(d), full
    PROVE  Len(Recent) = MaxSize /\ Recent' = Append(Tail(Recent), d)
<1> DEFINE Old(i) == IF pos + i <= MaxSize THEN buf[pos + i - 1] ELSE buf[pos + i - 1 - MaxSize]
           New(i) == IF i = MaxSize THEN d ELSE Old(i + 1)
<1>1. Recent = [i \in 1 .. MaxSize |-> Old(i)]
  BY DEF Recent
<1>2. Len(Recent) = MaxSize
  BY <1>1, HistogramAssumption
<1>3. Append(Tail(Recent), d) = [i \in 1 .. MaxSize |-> New(i)]
  <2>1. Recent \in [1 .. MaxSize -> Nat]
    BY <1>1, HistogramAssumption DEF HistogramTypeOK, Slots
  <2>2. Append(Tail(Recent), d) = [i \in 1 .. MaxSize |-> IF i = MaxSize THEN d ELSE Recent[i + 1]]
    <3> HIDE DEF New
    <3>1. d \in Nat /\ MaxSize \in Nat \ {0}
      BY HistogramAssumption
    <3> QED  BY <2>1, <3>1, AppendTail
  <2>3. \A i \in 1 .. MaxSize : i # MaxSize => Recent[i + 1] = Old(i + 1)
    BY <1>1, HistogramAssumption
  <2> HIDE DEF Old
  <2> QED  BY <2>2, <2>3
<1>4. full' /\ pos' = IF pos + 1 >= MaxSize THEN 0 ELSE pos + 1
  BY DEF Observe
<1>5. \A k \in Slots : buf'[k] = IF k = pos THEN d ELSE buf[k]
  BY DEF Observe, HistogramTypeOK
<1>6. Recent' = [i \in 1 .. MaxSize |-> IF pos' + i <= MaxSize THEN buf'[pos' + i - 1]
                                         ELSE buf'[pos' + i - 1 - MaxSize]]
  BY <1>4 DEF Recent
<1>7. ASSUME NEW i \in 1 .. MaxSize
      PROVE  New(i) = IF pos' + i <= MaxSize THEN buf'[pos' + i - 1]
                      ELSE buf'[pos' + i - 1 - MaxSize]
  <2>1. pos \in Nat /\ pos < MaxSize
    BY HistogramAssumption DEF HistogramTypeOK, Slots
  <2>2. CASE pos + 1 >= MaxSize
    BY <1>4, <1>5, <2>1, <2>2, HistogramAssumption DEF Slots
  <2>3. CASE pos + 1 < MaxSize
    BY <1>4, <1>5, <2>1, <2>3, HistogramAssumption DEF Slots
  <2> QED  BY <2>1, <2>2, <2>3, HistogramAssumption
<1> HIDE DEF New
<1> QED  BY <1>2, <1>3, <1>6, <1>7

\* The shape of a histogram, for every capacity.
THEOREM HistogramType == HistogramSpec => []HistogramTypeOK
<1>1. HistogramInit => HistogramTypeOK
  <2> SUFFICES ASSUME HistogramInit  PROVE HistogramTypeOK
    OBVIOUS
  <2>1. pos \in Slots /\ buf \in [Slots -> Nat]
    BY HistogramAssumption DEF HistogramInit, Slots
  <2> QED  BY <2>1 DEF HistogramInit, HistogramTypeOK
<1>2. HistogramTypeOK /\ [\E d \in Durations : Observe(d)]_histogramVars => HistogramTypeOK'
  <2>1. CASE UNCHANGED histogramVars
    BY <2>1 DEF histogramVars, HistogramTypeOK
  <2> QED  BY <2>1, ObserveType
<1> QED  BY <1>1, <1>2, PTL DEF HistogramSpec

\* An observation of the histogram is one of the window.
LEMMA ObserveRemembers ==
    ASSUME HistogramTypeOK, NEW d \in Durations, Observe(d)
    PROVE  Window!Remember(d)
BY ObserveAppends, ObserveReplaces DEF Window!Remember, HistogramTypeOK

\* An empty histogram is an empty window.
LEMMA InitiallyEmpty == HistogramInit => Recent = <<>>
BY HistogramAssumption DEF HistogramInit, Recent

\* What the metrics page computes its quantiles from is exactly the latest
\* MaxSize durations: Observe neither loses one early nor keeps one too long.
THEOREM HistogramExact == HistogramSpec => WindowExact
<1>1. HistogramTypeOK /\ [\E d \in Durations : Observe(d)]_histogramVars
      => [\E d \in Durations : Window!Remember(d)]_Recent
  <2>1. CASE UNCHANGED histogramVars
    BY <2>1 DEF histogramVars, Recent
  <2> QED  BY <2>1, ObserveRemembers
<1> QED  BY <1>1, InitiallyEmpty, HistogramType, PTL DEF HistogramSpec, WindowExact, Window!WindowSpec

-----------------------------------------------------------------------------
(* The quantiles, for every capacity. Sorted chooses a permutation: that there *)
(* is one to choose is an induction over the values, which is done by the      *)
(* least number of places that could not be filled.                            *)

\* Every set of naturals that is not empty has a least element: induction, as
\* the search for a least counterexample.
LEMMA LeastNatural ==
    ASSUME NEW S \in SUBSET Nat, S # {}
    PROVE  \E n \in S : \A m \in S : n <= m
<1> DEFINE R == {p \in Nat \X Nat : p[1] < p[2]}
<1>1. R = OpToRel(<, Nat)
  BY Zenon DEF OpToRel
<1>2. IsWellFoundedOn(R, Nat)
  BY <1>1, NatLessThanWellFounded
<1>3. \A m, n \in Nat : m < n => <<m, n>> \in R
  OBVIOUS
<1> HIDE DEF R
<1>4. PICK n \in S : \A m \in S : ~(<<m, n>> \in R)
  BY <1>2, WFMin
<1>5. ASSUME NEW m \in S PROVE n <= m
  <2>1. ~(m < n)
    BY <1>3, <1>4
  <2> QED  BY <2>1
<1> QED  BY <1>5

\* p lists k places of values in ascending order of what is there, and what it
\* leaves out is no smaller: selection sort after k rounds.
Selects(p, values, n, k) ==
    /\ p \in Injection(1 .. k, 1 .. n)
    /\ \A i, j \in 1 .. k : i <= j => values[p[i]] <= values[p[j]]
    /\ \A i \in 1 .. k, x \in 1 .. n : (\A j \in 1 .. k : p[j] # x) => values[p[i]] <= values[x]

LEMMA SelectsOneMore ==
    ASSUME NEW n \in Nat, NEW values \in [1 .. n -> Nat], NEW k \in Nat, k < n,
           NEW p, Selects(p, values, n, k)
    PROVE  \E q : Selects(q, values, n, k + 1)
<1> DEFINE left == {x \in 1 .. n : \A j \in 1 .. k : p[j] # x}
<1>1. p \in [1 .. k -> 1 .. n] /\ \A i, j \in 1 .. k : p[i] = p[j] => i = j
  BY DEF Selects, Injection, IsInjective
<1>2. left # {}
  <2> SUFFICES ASSUME left = {} PROVE FALSE
    OBVIOUS
  <2>1. p \in Surjection(1 .. k, 1 .. n)
    BY <1>1 DEF Surjection
  <2>2. IsFiniteSet(1 .. k) /\ Cardinality(1 .. k) = k
    BY FS_Interval
  <2>3. Cardinality(1 .. n) = n
    BY FS_Interval
  <2> QED  BY <2>1, <2>2, <2>3, FS_Surjection
<1>3. PICK x \in left : \A y \in left : values[x] <= values[y]
  <2> DEFINE found == {values[y] : y \in left}
  <2>1. found \in SUBSET Nat /\ found # {}
    BY <1>2
  <2> HIDE DEF found
  <2>2. PICK v \in found : \A w \in found : v <= w
    BY <2>1, LeastNatural
  <2> QED  BY <2>2 DEF found
<1> DEFINE q == [i \in 1 .. (k + 1) |-> IF i = k + 1 THEN x ELSE p[i]]
<1>4. q[k + 1] = x /\ \A i \in 1 .. k : q[i] = p[i]
  OBVIOUS
<1>5. q \in [1 .. (k + 1) -> 1 .. n]
  BY <1>1
<1> HIDE DEF q
<1>6. \A i \in 1 .. (k + 1) : i \in 1 .. k \/ i = k + 1
  OBVIOUS
<1>7. q \in Injection(1 .. (k + 1), 1 .. n)
  BY <1>1, <1>4, <1>5, <1>6 DEF Injection, IsInjective
<1>8. \A i \in 1 .. k : values[p[i]] <= values[x]
  BY DEF Selects
<1>9. ASSUME NEW i \in 1 .. (k + 1), NEW j \in 1 .. (k + 1), i <= j
      PROVE  values[q[i]] <= values[q[j]]
  <2>1. CASE j \in 1 .. k
    <3>1. i \in 1 .. k
      BY <1>9, <2>1
    <3> QED  BY <1>4, <2>1, <3>1, <1>9 DEF Selects
  <2>2. CASE j = k + 1 /\ i \in 1 .. k
    BY <1>4, <1>8, <2>2
  <2>3. CASE j = k + 1 /\ i = k + 1
    <3>1. values[x] \in Nat
      OBVIOUS
    <3> QED  BY <1>4, <2>3, <3>1
  <2> QED  BY <1>6, <2>1, <2>2, <2>3
<1>10. ASSUME NEW i \in 1 .. (k + 1), NEW y \in 1 .. n, \A j \in 1 .. (k + 1) : q[j] # y
       PROVE  values[q[i]] <= values[y]
  <2>1. \A j \in 1 .. k : p[j] # y
    BY <1>4, <1>10
  <2> QED  BY <1>3, <1>4, <1>6, <2>1 DEF Selects
<1> QED  BY <1>7, <1>9, <1>10 DEF Selects

\* A list of naturals can be sorted.
LEMMA Sortable ==
    ASSUME NEW n \in Nat, NEW values \in [1 .. n -> Nat]
    PROVE  \E p \in Bijection(1 .. n, 1 .. n) :
              \A i, j \in 1 .. n : i <= j => values[p[i]] <= values[p[j]]
<1> DEFINE Bad == {k \in 0 .. n : ~\E p : Selects(p, values, n, k)}
<1>1. 0 \notin Bad
  <2> DEFINE p == [i \in 1 .. 0 |-> 1]
  <2>1. Selects(p, values, n, 0)
    BY DEF Selects, Injection, IsInjective
  <2> QED  BY <2>1
<1>2. n \notin Bad
  <2> SUFFICES ASSUME Bad # {} PROVE FALSE
    OBVIOUS
  <2>1. PICK k \in Bad : \A m \in Bad : k <= m
    <3>1. Bad \in SUBSET Nat
      OBVIOUS
    <3> HIDE DEF Bad
    <3> QED  BY <3>1, LeastNatural
  <2>2. k \in 1 .. n
    BY <1>1
  <2>3. k - 1 \in Nat /\ k - 1 < n /\ k - 1 \notin Bad /\ k - 1 \in 0 .. n
    BY <2>1, <2>2
  <2>4. PICK p : Selects(p, values, n, k - 1)
    BY <2>3
  <2>5. \E q : Selects(q, values, n, (k - 1) + 1)
    BY <2>3, <2>4, SelectsOneMore
  <2>6. (k - 1) + 1 = k
    OBVIOUS
  <2> QED  BY <2>1, <2>5, <2>6
<1>3. PICK p : Selects(p, values, n, n)
  BY <1>2
<1>4. p \in Surjection(1 .. n, 1 .. n)
  <2>1. IsFiniteSet(1 .. n)
    BY FS_Interval
  <2> QED  BY <1>3, <2>1, FS_Injection DEF Selects
<1> QED  BY <1>3, <1>4 DEF Selects, Bijection

\* value stands at the place index, counted from 0, of the sorted values of recent.
Divides(value, recent, index) ==
    /\ Cardinality({i \in DOMAIN recent : recent[i] <= value}) >= index + 1
    /\ Cardinality({i \in DOMAIN recent : recent[i] >= value}) >= Len(recent) - index

\* value is where hundredths / 100 of recent, or less, is smaller, and more is no greater.
HasRank(value, recent, hundredths) ==
    /\ 100 * Cardinality({i \in DOMAIN recent : recent[i] < value}) <= hundredths
    /\ hundredths < 100 * Cardinality({i \in DOMAIN recent : recent[i] <= value})

\* To stand at an index that is cut off is to have the rank it is computed from.
LEMMA DividesAtShare ==
    ASSUME NEW n \in Nat \ {0}, NEW recent \in [1 .. n -> Nat], NEW value \in Nat,
           NEW percent \in 0 .. 100,
           Divides(value, recent, ((n - 1) * percent) \div 100)
    PROVE  HasRank(value, recent, (n - 1) * percent)
<1> DEFINE x == (n - 1) * percent
           index == x \div 100
           less == {i \in 1 .. n : recent[i] < value}
           low == {i \in 1 .. n : recent[i] <= value}
           high == {i \in 1 .. n : recent[i] >= value}
<1>1. DOMAIN recent = 1 .. n /\ Len(recent) = n
  OBVIOUS
<1>2. Cardinality(low) >= index + 1 /\ Cardinality(high) >= n - index
  BY <1>1, Zenon DEF Divides
<1>3. x \in Nat
  OBVIOUS
<1>4. IsFiniteSet(1 .. n) /\ Cardinality(1 .. n) = n
  BY FS_Interval
<1>5. IsFiniteSet(less) /\ IsFiniteSet(low) /\ IsFiniteSet(high)
  BY <1>4, FS_Subset
<1>6. Cardinality(less) \in Nat /\ Cardinality(low) \in Nat /\ Cardinality(high) \in Nat
  BY <1>5, FS_CardinalityType
<1>7. Cardinality(less) + Cardinality(high) = n
  <2>1. less \union high = 1 .. n /\ less \intersect high = {}
    OBVIOUS
  <2> HIDE DEF less, high
  <2>2. Cardinality(less \union high) =
            Cardinality(less) + Cardinality(high) - Cardinality(less \intersect high)
    BY <1>5, FS_Union
  <2>3. Cardinality({}) = 0
    BY FS_EmptySet
  <2>4. n = Cardinality(less) + Cardinality(high) - 0
    BY <1>4, <2>1, <2>2, <2>3, Zenon
  <2> QED  BY <1>6, <2>4
<1> HIDE DEF x, less, low, high
<1>8. index \in Nat /\ 100 * index <= x /\ x < 100 * (index + 1)
  BY <1>3
<1> HIDE DEF index
<1>9. Cardinality(less) <= index
  BY <1>2, <1>6, <1>7, <1>8
<1>10. 100 * Cardinality(less) <= x /\ x < 100 * Cardinality(low)
  BY <1>2, <1>3, <1>6, <1>8, <1>9
<1> QED  BY <1>1, <1>10 DEF HasRank, x, less, low

\* What stands at a rank of the sorted values divides them there, in whatever
\* order they are looked at.
LEMMA AtRank ==
    ASSUME NEW n \in Nat, NEW values \in [1 .. n -> Nat], NEW recent \in [1 .. n -> Nat],
           NEW place \in Injection(1 .. n, 1 .. n),
           \A i \in 1 .. n : recent[place[i]] = values[i],
           NEW index \in 0 .. (n - 1), NEW value, value = Sorted(values)[1 + index]
    PROVE  Divides(value, recent, index)
<1>1. DOMAIN values = 1 .. n
  OBVIOUS
<1>2. PICK p \in Bijection(1 .. n, 1 .. n) :
          /\ \A i, j \in 1 .. n : i <= j => values[p[i]] <= values[p[j]]
          /\ Sorted(values) = [i \in 1 .. n |-> values[p[i]]]
  BY <1>1, Sortable DEF Sorted
<1> DEFINE low == {i \in 1 .. n : recent[i] <= value}
           high == {i \in 1 .. n : recent[i] >= value}
           at == [j \in 1 .. n |-> place[p[j]]]
<1>3. 1 + index \in 1 .. n /\ value = values[p[1 + index]]
  BY <1>2
<1>4. p \in [1 .. n -> 1 .. n] /\ \A i, j \in 1 .. n : p[i] = p[j] => i = j
  BY DEF Bijection, Injection, IsInjective
<1>5. place \in [1 .. n -> 1 .. n] /\ \A i, j \in 1 .. n : place[i] = place[j] => i = j
  BY DEF Injection, IsInjective
<1>6. /\ at \in [1 .. n -> 1 .. n]
      /\ \A i, j \in 1 .. n : at[i] = at[j] => i = j
      /\ \A i \in 1 .. n : recent[at[i]] = values[p[i]]
  BY <1>4, <1>5
<1>7. IsFiniteSet(1 .. n)
  BY FS_Interval
<1> HIDE DEF at
<1>8. /\ \A j \in 1 .. n : j <= 1 + index => recent[at[j]] <= value
      /\ \A j \in 1 .. n : 1 + index <= j => value <= recent[at[j]]
  <2>1. ASSUME NEW j \in 1 .. n, j <= 1 + index PROVE recent[at[j]] <= value
    <3>1. values[p[j]] <= values[p[1 + index]]
      BY <1>2, <1>3, <2>1
    <3> QED  BY <1>3, <1>6, <3>1
  <2>2. ASSUME NEW j \in 1 .. n, 1 + index <= j PROVE value <= recent[at[j]]
    <3>1. values[p[1 + index]] <= values[p[j]]
      BY <1>2, <1>3, <2>2
    <3> QED  BY <1>3, <1>6, <3>1
  <2> QED  BY <2>1, <2>2
<1>9. IsFiniteSet(low) /\ IsFiniteSet(high)
  BY <1>7, FS_Subset
<1>10. Cardinality(low) >= index + 1
  <2> DEFINE f == [j \in 1 .. (index + 1) |-> at[j]]
  <2>1. \A j \in 1 .. (index + 1) : j \in 1 .. n /\ j <= 1 + index
    BY <1>3
  <2>2. \A j \in 1 .. (index + 1) : at[j] \in low
    BY <1>6, <1>8, <2>1
  <2> HIDE DEF low
  <2>3. f \in Injection(1 .. (index + 1), low)
    BY <1>6, <2>1, <2>2 DEF Injection, IsInjective
  <2>4. Cardinality(1 .. (index + 1)) = index + 1
    BY FS_Interval
  <2>5. Cardinality(low) \in Nat
    BY <1>9, FS_CardinalityType
  <2> QED  BY <1>9, <2>3, <2>4, <2>5, FS_Injection
<1>11. Cardinality(high) >= n - index
  <2> DEFINE f == [j \in (index + 1) .. n |-> at[j]]
  <2>1. \A j \in (index + 1) .. n : j \in 1 .. n /\ 1 + index <= j
    OBVIOUS
  <2>2. \A j \in (index + 1) .. n : at[j] \in high
    BY <1>6, <1>8, <2>1
  <2> HIDE DEF high
  <2>3. f \in Injection((index + 1) .. n, high)
    BY <1>6, <2>1, <2>2 DEF Injection, IsInjective
  <2>4. Cardinality((index + 1) .. n) = n - index
    BY FS_Interval
  <2>5. Cardinality(high) \in Nat
    BY <1>9, FS_CardinalityType
  <2> QED  BY <1>9, <2>3, <2>4, <2>5, FS_Injection
<1>12. DOMAIN recent = 1 .. n /\ Len(recent) = n
  OBVIOUS
<1> QED  BY <1>10, <1>11, <1>12 DEF Divides

\* The buffer holds the recent observations, from the position on and around.
LEMMA SnapshotRotates ==
    ASSUME HistogramTypeOK
    PROVE  \E n \in Nat : \E place \in Injection(1 .. n, 1 .. n) :
              /\ Snapshot \in [1 .. n -> Nat]
              /\ Recent \in [1 .. n -> Nat]
              /\ \A i \in 1 .. n : Recent[place[i]] = Snapshot[i]
<1> DEFINE n == IF full THEN MaxSize ELSE pos
           place == [i \in 1 .. n |-> IF ~full THEN i
                                    ELSE IF pos < i THEN i - pos ELSE (i - pos) + MaxSize]
<1>1. n \in Nat /\ n <= MaxSize /\ pos \in Nat /\ pos < MaxSize /\ MaxSize \in Nat
  BY HistogramAssumption DEF HistogramTypeOK, Slots
<1>2. Snapshot \in [1 .. n -> Nat] /\ \A i \in 1 .. n : Snapshot[i] = buf[i - 1]
  <2>1. \A i \in 1 .. n : i - 1 \in Slots
    BY <1>1 DEF Slots
  <2> QED  BY <2>1 DEF Snapshot, HistogramTypeOK
<1> DEFINE Old(i) == IF ~full THEN buf[i - 1]
                     ELSE IF pos + i <= MaxSize THEN buf[pos + i - 1]
                     ELSE buf[pos + i - 1 - MaxSize]
<1>3. Recent = [i \in 1 .. n |-> Old(i)]
  BY DEF Recent
<1>4. Recent \in [1 .. n -> Nat]
  <2>1. \A j \in 0 .. (MaxSize - 1) : buf[j] \in Nat
    BY DEF HistogramTypeOK, Slots
  <2>2. ASSUME NEW i \in 1 .. n PROVE Old(i) \in Nat
    <3>1. CASE ~full
      BY <1>1, <2>1, <3>1
    <3>2. CASE full /\ pos + i <= MaxSize
      BY <1>1, <2>1, <3>2
    <3>3. CASE full /\ ~(pos + i <= MaxSize)
      BY <1>1, <2>1, <3>3
    <3> QED  BY <3>1, <3>2, <3>3
  <2> HIDE DEF Old
  <2> QED  BY <1>3, <2>2
<1>5. place \in Injection(1 .. n, 1 .. n)
  BY <1>1 DEF Injection, IsInjective
<1>6. \A i \in 1 .. n : Recent[place[i]] = Snapshot[i]
  <2>1. ASSUME NEW i \in 1 .. n PROVE Recent[place[i]] = Snapshot[i]
    <3>1. CASE ~full
      BY <1>2, <1>3, <3>1
    <3>2. CASE full /\ pos < i
      <4>1. place[i] = i - pos /\ i - pos \in 1 .. n /\ i <= MaxSize
        BY <1>1, <3>2
      <4>2. Old(i - pos) = buf[i - 1]
        BY <1>1, <3>2, <4>1
      <4> HIDE DEF Old, place
      <4>3. Recent[i - pos] = Old(i - pos)
        BY <1>3, <4>1
      <4> QED  BY <1>2, <4>1, <4>2, <4>3
    <3>3. CASE full /\ ~(pos < i)
      <4> DEFINE j == (i - pos) + MaxSize
      <4>1. place[i] = j /\ j \in 1 .. n /\ ~(pos + j <= MaxSize)
        BY <1>1, <3>3
      <4>2. Old(j) = buf[i - 1]
        BY <1>1, <3>3, <4>1
      <4> HIDE DEF Old, place, j
      <4>3. Recent[j] = Old(j)
        BY <1>3, <4>1
      <4> QED  BY <1>2, <4>1, <4>2, <4>3
    <3> QED  BY <3>1, <3>2, <3>3
  <2> QED  BY <2>1
<1> QED  BY <1>1, <1>2, <1>4, <1>5, <1>6

\* Whatever the buffer holds, a quantile divides the recent observations at its rank.
LEMMA QuantilesRanked ==
    ASSUME HistogramTypeOK
    PROVE  QuantileRank
<1>1. PICK n \in Nat : \E place \in Injection(1 .. n, 1 .. n) :
          /\ Snapshot \in [1 .. n -> Nat]
          /\ Recent \in [1 .. n -> Nat]
          /\ \A i \in 1 .. n : Recent[place[i]] = Snapshot[i]
  BY SnapshotRotates
<1>2. DOMAIN Recent = 1 .. n /\ Len(Recent) = n /\ Len(Snapshot) = n
  BY <1>1
<1>3. ASSUME NEW rank \in 0 .. (n - 1), NEW v, v = Sorted(Snapshot)[1 + rank]
      PROVE  Divides(v, Recent, rank)
  <2>1. PICK place \in Injection(1 .. n, 1 .. n) :
            \A i \in 1 .. n : Recent[place[i]] = Snapshot[i]
    BY <1>1
  <2>2. Snapshot \in [1 .. n -> Nat] /\ Recent \in [1 .. n -> Nat]
    BY <1>1
  <2> QED  BY <1>3, <2>1, <2>2, AtRank
<1> SUFFICES ASSUME NEW percent \in Shares, Recent # <<>>
             PROVE  HasRank(Quantile(percent), Recent, (Len(Recent) - 1) * percent)
  BY Zenon DEF QuantileRank, HasRank
<1> DEFINE index == ((Len(Recent) - 1) * percent) \div 100
<1>4. n > 0 /\ Snapshot # <<>>
  BY <1>1
<1>5. index \in 0 .. (n - 1)
  <2>1. percent \in Nat /\ percent <= 100
    BY HistogramAssumption
  <2> QED  BY <1>2, <1>4, <2>1
<1>6. Quantile(percent) = Sorted(Snapshot)[1 + index]
  BY <1>2, <1>4, Zenon DEF Quantile, QuantileIndex
<1> DEFINE value == Quantile(percent)
<1> HIDE DEF index, value
<1>7. value = Sorted(Snapshot)[1 + index]
  BY <1>6, Zenon DEF index, value
<1>8. Divides(value, Recent, index)
  BY <1>3, <1>5, <1>7, Zenon
<1>9. percent \in 0 .. 100
  BY HistogramAssumption
<1>10. Divides(value, Recent, ((n - 1) * percent) \div 100)
  BY <1>2, <1>8 DEF index
<1>11. n \in Nat \ {0} /\ value \in Nat
  <2>1. Snapshot \in [1 .. n -> Nat]
    BY <1>1
  <2>2. PICK p \in Bijection(1 .. n, 1 .. n) : Sorted(Snapshot) = [i \in 1 .. n |-> Snapshot[p[i]]]
    BY <2>1, Sortable DEF Sorted
  <2>3. 1 + index \in 1 .. n
    BY <1>4, <1>5
  <2> QED  BY <1>4, <1>7, <2>1, <2>2, <2>3 DEF Bijection, Injection
<1>12. HasRank(value, Recent, (n - 1) * percent)
  <2>1. Recent \in [1 .. n -> Nat]
    BY <1>1
  <2> QED  BY <1>9, <1>10, <1>11, <2>1, DividesAtShare
<1> QED  BY <1>2, <1>12 DEF value

-----------------------------------------------------------------------------
(* The exposer *)

HubStates == {"new", "open", "refused", "answered", "failed"}

Shape ==
    /\ HistogramTypeOK
    /\ rpc \in [Requests -> HandlerStates]
    /\ want \in [Requests -> {{}} \union {{w} : w \in Wants}]
    /\ asked \subseteq Requests
    /\ reply \in [Requests -> Replies]
    /\ hubStatus \in [Requests -> HubStates]
    /\ runs \in [Requests -> {0, 1}]
    /\ counter \in [Counters -> Nat]
    /\ life \in {"up", "exited"}

\* How the two sides of one request hang together: the hub knows nothing of a
\* request it was not asked, an answer has been run, and what the exposer has
\* taken for an answer is one.
Consistent(r) ==
    /\ rpc[r] \in {"new", "admitted", "refused", "bad"} => r \notin asked
    /\ r \notin asked => hubStatus[r] = "new"
    /\ hubStatus[r] \in {"new", "refused"} => runs[r] = 0
    /\ hubStatus[r] = "answered" => runs[r] = 1
    /\ reply[r] = "answered" => hubStatus[r] = "answered"
    /\ rpc[r] \in {"returned", "done"} => reply[r] # "none"
    /\ hubStatus[r] \in {"open", "answered", "failed"} => want[r] \subseteq Granted(exposer)

SidesInv == \A r \in Requests : Consistent(r)

\* A page is read in the order of Export, and what it shows was true of each
\* counter when it was read; the counters only grow.
PageInv ==
    /\ DOMAIN page \in {{}, {"success"}, {"success", "failed"}, {"success", "failed", "requests"}}
    /\ \A c \in DOMAIN page : page[c] \in Nat
    /\ \A c \in DOMAIN page \ {"requests"} : page[c] <= counter[c]
    /\ life = "exited" => DOMAIN page = {} /\ counter = NoCounts
    /\ PageConsistent

Inv == Shape /\ SidesInv /\ RequestsAccounted /\ PageInv

-----------------------------------------------------------------------------
(* The rules *)

\* A rule that matches is one that grants the pair.
LEMMA AuthorizedIsGranted ==
    ASSUME NEW label \in Labels, NEW op \in Ops, AuthorizeOperation(exposer, label, op)
    PROVE  <<label, op>> \in Granted(exposer)
<1>1. PICK k \in DOMAIN permissions[exposer] :
          /\ permissions[exposer][k].label \in {label, "*"}
          /\ containsOrWildcard(permissions[exposer][k].operations, op)
  BY DEF AuthorizeOperation
<1>2. label \in All({permissions[exposer][k].label}, Labels)
  BY <1>1 DEF All
<1>3. op \in All(permissions[exposer][k].operations, Ops)
  BY <1>1 DEF All, containsOrWildcard
<1>4. <<label, op>> \in RuleGrants(permissions[exposer][k])
  BY <1>2, <1>3 DEF RuleGrants
<1> QED  BY <1>4 DEF Granted, AuthorizeOperation

\* The converse: what the rules grant, one of them authorizes.
LEMMA GrantedIsAuthorized ==
    ASSUME NEW label \in Labels, NEW op \in Ops, <<label, op>> \in Granted(exposer)
    PROVE  AuthorizeOperation(exposer, label, op)
<1>1. exposer \in DOMAIN permissions
  BY DEF Granted
<1>2. PICK k \in DOMAIN permissions[exposer] : <<label, op>> \in RuleGrants(permissions[exposer][k])
  BY <1>1 DEF Granted
<1>3. permissions[exposer][k].label \in {label, "*"}
  BY <1>2 DEF RuleGrants, All
<1>4. containsOrWildcard(permissions[exposer][k].operations, op)
  BY <1>2 DEF RuleGrants, All, containsOrWildcard
<1> QED  BY <1>1, <1>3, <1>4 DEF AuthorizeOperation

\* AuthorizeOperation (auth.go:69) decides exactly by what the rules stand for
\* together: neither their order nor the early return matters, and "*" means all
\* labels or all operations.
THEOREM AuthorizedExactly ==
    \A label \in Labels, op \in Ops :
        AuthorizeOperation(exposer, label, op) <=> <<label, op>> \in Granted(exposer)
BY AuthorizedIsGranted, GrantedIsAuthorized

\* A query the hub takes on asks for what is granted.
LEMMA AuthorizedWant ==
    ASSUME Shape, NEW r \in Requests, Authorized(r)
    PROVE  want[r] \subseteq Granted(exposer)
<1>1. PICK w \in want[r] : AuthorizeOperation(exposer, w[1], w[2])
  BY DEF Authorized
<1>2. want[r] = {w} /\ w \in Wants
  BY <1>1 DEF Shape
<1>3. w \in Labels \X Ops
  BY <1>2, ExposerAssumption
<1>4. w = <<w[1], w[2]>> /\ w[1] \in Labels /\ w[2] \in Ops
  BY <1>3
<1>5. <<w[1], w[2]>> \in Granted(exposer)
  BY <1>1, <1>4, AuthorizedIsGranted
<1> QED  BY <1>2, <1>4, <1>5

-----------------------------------------------------------------------------
(* The steps *)

\* What a step does to the histogram.
LEMMA HistogramStep ==
    ASSUME HistogramTypeOK, Next
    PROVE  [\E d \in Durations : Observe(d)]_histogramVars
BY DEF Next, Handler, HubSteps, TurnAway, Admit, BadRequest, AskHub, HubAnswers, HubReturnsStatus,
       CallFails, CallReturns, Conclude, CutOff, HubAccepts, HubRefuses, HubFails, SourceRuns,
       HubConcludes, AtHub, Scrape, Exit, histogramVars

LEMMA HistogramKept ==
    ASSUME HistogramTypeOK, Next
    PROVE  HistogramTypeOK'
<1>1. CASE UNCHANGED histogramVars
  BY <1>1 DEF histogramVars, HistogramTypeOK
<1> QED  BY <1>1, HistogramStep, ObserveType

\* The steps of the hub change one request's place at the hub.
LEMMA HubShape ==
    ASSUME Shape, NEW r \in Requests, HubSteps(r)
    PROVE  /\ hubStatus' \in [Requests -> HubStates]
           /\ runs' \in [Requests -> {0, 1}]
           /\ UNCHANGED <<handling, counter, page, life, histogramVars>>
<1>1. CASE HubAccepts(r)
  BY <1>1 DEF Shape, HubAccepts, AtHub, Hub!Accept, Hub!Conclude, HubStates
<1>2. CASE HubRefuses(r)
  BY <1>2 DEF Shape, HubRefuses, AtHub, Hub!Refuse, Hub!Conclude, HubStates
<1>3. CASE HubFails(r)
  BY <1>3 DEF Shape, HubFails, AtHub, Hub!Fail, Hub!Conclude, HubStates
<1>4. CASE SourceRuns(r)
  BY <1>4 DEF Shape, SourceRuns, AtHub, Hub!Run, HubStates
<1>5. CASE HubConcludes(r)
  BY <1>5 DEF Shape, HubConcludes, AtHub, Hub!Answer, Hub!Conclude, HubStates
<1> QED  BY <1>1, <1>2, <1>3, <1>4, <1>5 DEF HubSteps

LEMMA ShapeKept ==
    ASSUME Shape, Next
    PROVE  Shape'
<1>0. HistogramTypeOK'
  BY HistogramKept DEF Shape
<1> USE DEF Shape, Move, Inc, hubSide, handling, HandlerStates, Counters
<1>1. ASSUME NEW r \in Requests, TurnAway(r)  PROVE Shape'
  BY <1>0, <1>1 DEF TurnAway
<1>2. ASSUME NEW r \in Requests, NEW w \in Wants, Admit(r, w)  PROVE Shape'
  BY <1>0, <1>2 DEF Admit
<1>3. ASSUME NEW r \in Requests, BadRequest(r)  PROVE Shape'
  BY <1>0, <1>3 DEF BadRequest
<1>4. ASSUME NEW r \in Requests, AskHub(r)  PROVE Shape'
  BY <1>0, <1>4 DEF AskHub
<1>5. ASSUME NEW r \in Requests, HubAnswers(r) \/ HubReturnsStatus(r) \/ CallFails(r)
      PROVE  Shape'
  <2>1. PICK result \in Replies : CallReturns(r, result)
    BY <1>5 DEF HubAnswers, HubReturnsStatus, CallFails, Replies
  <2> QED  BY <1>0, <2>1 DEF CallReturns, Replies
<1>6. ASSUME NEW r \in Requests, Conclude(r)  PROVE Shape'
  <2>1. PICK c \in Counters : counter' = [counter EXCEPT ![c] = @ + 1]
    BY <1>6 DEF Conclude
  <2> QED  BY <1>0, <1>6, <2>1 DEF Conclude
<1>7. ASSUME NEW r \in Requests, CutOff(r)  PROVE Shape'
  BY <1>0, <1>7 DEF CutOff, Replies
<1>8. ASSUME NEW r \in Requests, HubSteps(r)  PROVE Shape'
  BY <1>0, <1>8, HubShape
<1>9. ASSUME Scrape  PROVE Shape'
  BY <1>0, <1>9 DEF Scrape
<1>10. ASSUME Exit  PROVE Shape'
  BY <1>0, <1>10 DEF Exit, NoCounts
<1> QED  BY <1>1, <1>2, <1>3, <1>4, <1>5, <1>6, <1>7, <1>8, <1>9, <1>10
         DEF Next, Handler

\* A step of one request leaves the others as they are.
LEMMA SidesKept ==
    ASSUME Shape, SidesInv, Next
    PROVE  SidesInv'
<1> USE DEF Shape, SidesInv, Consistent, Move, hubSide, handling
<1>1. ASSUME NEW r \in Requests, TurnAway(r)  PROVE SidesInv'
  BY <1>1 DEF TurnAway
<1>2. ASSUME NEW r \in Requests, NEW w \in Wants, Admit(r, w)  PROVE SidesInv'
  BY <1>2 DEF Admit
<1>3. ASSUME NEW r \in Requests, BadRequest(r)  PROVE SidesInv'
  BY <1>3 DEF BadRequest
<1>4. ASSUME NEW r \in Requests, AskHub(r)  PROVE SidesInv'
  BY <1>4 DEF AskHub
<1>5. ASSUME NEW r \in Requests, HubAnswers(r)  PROVE SidesInv'
  BY <1>5 DEF HubAnswers, CallReturns
<1>6. ASSUME NEW r \in Requests, HubReturnsStatus(r) \/ CallFails(r)  PROVE SidesInv'
  BY <1>6 DEF HubReturnsStatus, CallFails, CallReturns
<1>7. ASSUME NEW r \in Requests, Conclude(r)  PROVE SidesInv'
  BY <1>7 DEF Conclude
<1>8. ASSUME NEW r \in Requests, CutOff(r)  PROVE SidesInv'
  BY <1>8 DEF CutOff, UnderWay
<1>9. ASSUME NEW r \in Requests, HubAccepts(r)  PROVE SidesInv'
  <2>1. want[r] \subseteq Granted(exposer)
    BY <1>9, AuthorizedWant DEF HubAccepts
  <2> QED  BY <1>9, <2>1 DEF HubAccepts, AtHub, Hub!Accept, Hub!Conclude
<1>10. ASSUME NEW r \in Requests, HubRefuses(r)  PROVE SidesInv'
  BY <1>10 DEF HubRefuses, AtHub, Hub!Refuse, Hub!Conclude
<1>11. ASSUME NEW r \in Requests, HubFails(r)  PROVE SidesInv'
  BY <1>11 DEF HubFails, AtHub, Hub!Fail, Hub!Conclude
<1>12. ASSUME NEW r \in Requests, SourceRuns(r)  PROVE SidesInv'
  BY <1>12 DEF SourceRuns, AtHub, Hub!Run
<1>13. ASSUME NEW r \in Requests, HubConcludes(r)  PROVE SidesInv'
  BY <1>13 DEF HubConcludes, AtHub, Hub!Answer, Hub!Conclude
<1>14. ASSUME Scrape \/ Exit  PROVE SidesInv'
  BY <1>14 DEF Scrape, Exit
<1> QED  BY <1>1, <1>2, <1>3, <1>4, <1>5, <1>6, <1>7, <1>8, <1>9, <1>10, <1>11, <1>12, <1>13, <1>14
         DEF Next, Handler, HubSteps

-----------------------------------------------------------------------------
(* The counters *)

Admitted == {r \in Requests : rpc[r] \notin {"new", "refused"}}
Concluded(result) == {r \in Requests : rpc[r] = "done" /\ reply[r] = result}

\* RequestsAccounted in terms of the three sets.
LEMMA AccountedBySets ==
    RequestsAccounted <=>
        (life = "up" => /\ counter["requests"] = Cardinality(Admitted)
                        /\ counter["success"] = Cardinality(Concluded("answered"))
                        /\ counter["failed"] = Cardinality(Concluded("failed")))
BY DEF RequestsAccounted, Admitted, Concluded

\* Requests are concluded in one way, after they have been admitted.
LEMMA ConcludedAdmitted ==
    /\ IsFiniteSet(Admitted)
    /\ \A result : IsFiniteSet(Concluded(result)) /\ Cardinality(Concluded(result)) \in Nat
    /\ Cardinality(Admitted) \in Nat
    /\ Cardinality(Concluded("answered")) + Cardinality(Concluded("failed")) <= Cardinality(Admitted)
    /\ Cardinality(Admitted) <= Cardinality(Requests)
<1> DEFINE answered == Concluded("answered")
           failed == Concluded("failed")
<1>1. /\ Admitted \subseteq Requests
      /\ \A result : Concluded(result) \subseteq Admitted
      /\ answered \intersect failed = {}
  BY DEF Admitted, Concluded
<1>2. IsFiniteSet(Requests)
  BY ExposerAssumption
<1>3. IsFiniteSet(Admitted) /\ Cardinality(Admitted) <= Cardinality(Requests)
  BY <1>1, <1>2, FS_Subset
<1>4. \A result : IsFiniteSet(Concluded(result)) /\ Cardinality(Concluded(result)) \in Nat
  BY <1>1, <1>3, FS_Subset, FS_CardinalityType
<1>5. Cardinality(answered) + Cardinality(failed) <= Cardinality(Admitted)
  <2>1. IsFiniteSet(answered) /\ IsFiniteSet(failed)
    BY <1>4
  <2>2. answered \union failed \subseteq Admitted
    BY <1>1
  <2>3. Cardinality(answered) \in Nat /\ Cardinality(failed) \in Nat
    BY <1>4
  <2> HIDE DEF answered, failed
  <2>4. Cardinality(answered \union failed) = Cardinality(answered) + Cardinality(failed) - 0
    <3>1. Cardinality(answered \union failed) =
              Cardinality(answered) + Cardinality(failed) - Cardinality(answered \intersect failed)
      BY <2>1, FS_Union
    <3> QED  BY <1>1, <3>1, FS_EmptySet, Zenon
  <2>5. Cardinality(answered \union failed) <= Cardinality(Admitted)
    BY <1>3, <2>2, FS_Subset
  <2> QED  BY <2>3, <2>4, <2>5
<1> QED  BY <1>3, <1>4, <1>5, FS_CardinalityType

LEMMA AccountedKept ==
    ASSUME Shape, SidesInv, RequestsAccounted, Next
    PROVE  RequestsAccounted'
<1> DEFINE Same == UNCHANGED <<Admitted, Concluded("answered"), Concluded("failed"), counter, life>>
<1>1. \/ Same
      \/ life' = "exited"
      \/ \E r \in Requests, w \in Wants : Admit(r, w)
      \/ \E r \in Requests : Conclude(r)
  <2> USE DEF Shape, Move, handling, Admitted, Concluded
  <2>1. ASSUME NEW r \in Requests, TurnAway(r) \/ BadRequest(r) \/ AskHub(r)
        PROVE  Same
    BY <2>1 DEF TurnAway, BadRequest, AskHub
  <2>2. ASSUME NEW r \in Requests, HubAnswers(r) \/ HubReturnsStatus(r) \/ CallFails(r)
        PROVE  Same
    <3>1. PICK result : CallReturns(r, result)
      BY <2>2 DEF HubAnswers, HubReturnsStatus, CallFails
    <3> QED  BY <3>1 DEF CallReturns
  <2>3. ASSUME NEW r \in Requests, HubSteps(r)
        PROVE  Same
    BY <2>3, HubShape
  <2>4. ASSUME Scrape  PROVE Same
    BY <2>4 DEF Scrape
  <2>5. ASSUME Exit \/ \E r \in Requests : CutOff(r)  PROVE life' = "exited"
    BY <2>5 DEF Exit, CutOff
  <2> QED  BY <2>1, <2>2, <2>3, <2>4, <2>5 DEF Next, Handler
<1>2. CASE Same
  BY <1>2, AccountedBySets DEF RequestsAccounted, Admitted, Concluded
<1>3. CASE life' = "exited"
  BY <1>3 DEF RequestsAccounted
<1>4. ASSUME NEW r \in Requests, NEW w \in Wants, Admit(r, w)  PROVE RequestsAccounted'
  <2>1. Admitted' = Admitted \union {r} /\ r \notin Admitted
        /\ UNCHANGED <<Concluded("answered"), Concluded("failed")>>
    BY <1>4 DEF Admit, Move, Shape, Admitted, Concluded
  <2>2. Cardinality(Admitted') = Cardinality(Admitted) + 1
    BY <2>1, ConcludedAdmitted, FS_AddElement
  <2>3. /\ counter'["requests"] = counter["requests"] + 1
        /\ counter'["success"] = counter["success"] /\ counter'["failed"] = counter["failed"]
        /\ life = "up" /\ life' = life
    BY <1>4 DEF Admit, Move, Inc, Shape, Counters
  <2> QED  BY <2>1, <2>2, <2>3 DEF RequestsAccounted, Admitted, Concluded
<1>5. ASSUME NEW r \in Requests, Conclude(r)  PROVE RequestsAccounted'
  <2>1. reply[r] \in {"answered", "failed"}
    BY <1>5 DEF Conclude, Move, Shape, SidesInv, Consistent, Replies
  <2>2. /\ Concluded(reply[r])' = Concluded(reply[r]) \union {r}
        /\ r \notin Concluded(reply[r])
        /\ Admitted' = Admitted
        /\ \A result \in {"answered", "failed"} \ {reply[r]} :
              Concluded(result)' = Concluded(result)
    BY <1>5 DEF Conclude, Move, Shape, Admitted, Concluded
  <2>3. Cardinality(Concluded(reply[r])') = Cardinality(Concluded(reply[r])) + 1
    BY <2>2, ConcludedAdmitted, FS_AddElement
  <2>4. CASE reply[r] = "answered"
    <3>1. /\ counter'["requests"] = counter["requests"]
          /\ counter'["success"] = counter["success"] + 1
          /\ counter'["failed"] = counter["failed"]
          /\ life = "up" /\ life' = life
          /\ UNCHANGED reply
      BY <1>5, <2>4 DEF Conclude, Move, Inc, Shape, Counters
    <3> QED  BY <2>2, <2>3, <2>4, <3>1 DEF RequestsAccounted, Admitted, Concluded
  <2>5. CASE reply[r] = "failed"
    <3>1. /\ counter'["requests"] = counter["requests"]
          /\ counter'["success"] = counter["success"]
          /\ counter'["failed"] = counter["failed"] + 1
          /\ life = "up" /\ life' = life
          /\ UNCHANGED reply
      BY <1>5, <2>5 DEF Conclude, Move, Inc, Shape, Counters
    <3> QED  BY <2>2, <2>3, <2>5, <3>1 DEF RequestsAccounted, Admitted, Concluded
  <2> QED  BY <2>1, <2>4, <2>5
<1> QED  BY <1>1, <1>2, <1>3, <1>4, <1>5

-----------------------------------------------------------------------------
(* The metrics page *)

AllRead == {"success", "failed", "requests"}

LEMMA ExportOrderReadsAll == {ExportOrder[k] : k \in DOMAIN ExportOrder} = AllRead
<1>1. DOMAIN ExportOrder = {1, 2, 3}
  BY DEF ExportOrder
<1>2. ExportOrder[1] = "success" /\ ExportOrder[2] = "failed" /\ ExportOrder[3] = "requests"
  BY DEF ExportOrder
<1> QED  BY <1>1, <1>2 DEF AllRead

\* Which counter comes next on a page.
LEMMA NextOnPage ==
    /\ ExportOrder[1 + Cardinality({})] = "success"
    /\ ExportOrder[1 + Cardinality({"success"})] = "failed"
    /\ ExportOrder[1 + Cardinality({"success", "failed"})] = "requests"
<1>1. Cardinality({}) = 0
  BY FS_EmptySet
<1>2. Cardinality({"success"}) = 1 /\ IsFiniteSet({"success"})
  BY FS_Singleton
<1>3. Cardinality({"success"} \union {"failed"}) = 2
  BY <1>2, FS_AddElement
<1>4. {"success"} \union {"failed"} = {"success", "failed"}
  OBVIOUS
<1> QED  BY <1>1, <1>2, <1>3, <1>4 DEF ExportOrder

\* No more requests have ended than begun.
LEMMA EndedAtMostBegun ==
    ASSUME Shape, RequestsAccounted, life = "up"
    PROVE  counter["success"] + counter["failed"] <= counter["requests"]
BY AccountedBySets, ConcludedAdmitted

LEMMA PageKept ==
    ASSUME Inv, Next
    PROVE  PageInv'
<1> DEFINE Grows == \A c \in Counters : counter[c] <= counter'[c] /\ counter'[c] \in Nat
<1>1. \/ UNCHANGED <<page, life>> /\ Grows /\ (life = "exited" => counter' = counter)
      \/ Scrape
      \/ Exit
  <2> USE DEF Inv, Shape, Move, handling
  <2>1. ASSUME NEW r \in Requests,
               TurnAway(r) \/ BadRequest(r) \/ AskHub(r) \/ CutOff(r)
        PROVE  UNCHANGED <<page, life, counter>>
    BY <2>1 DEF TurnAway, BadRequest, AskHub, CutOff
  <2>2. ASSUME NEW r \in Requests, HubAnswers(r) \/ HubReturnsStatus(r) \/ CallFails(r)
        PROVE  UNCHANGED <<page, life, counter>>
    <3>1. PICK result : CallReturns(r, result)
      BY <2>2 DEF HubAnswers, HubReturnsStatus, CallFails
    <3> QED  BY <3>1 DEF CallReturns
  <2>3. ASSUME NEW r \in Requests, HubSteps(r)  PROVE UNCHANGED <<page, life, counter>>
    BY <2>3, HubShape
  <2>4. UNCHANGED counter => Grows
    OBVIOUS
  <2>5. ASSUME NEW r \in Requests, Conclude(r) \/ \E w \in Wants : Admit(r, w)
        PROVE  UNCHANGED <<page, life>> /\ life = "up" /\ Grows
    <3>1. PICK c \in Counters : counter' = [counter EXCEPT ![c] = @ + 1]
      BY <2>5 DEF Conclude, Admit, Inc, Counters
    <3>2. Grows
      BY <3>1
    <3> QED  BY <2>5, <3>2 DEF Conclude, Admit
  <2> HIDE DEF Grows
  <2> QED  BY <2>1, <2>2, <2>3, <2>4, <2>5 DEF Next, Handler
<1>2. CASE UNCHANGED <<page, life>> /\ Grows /\ (life = "exited" => counter' = counter)
  BY <1>2 DEF Inv, PageInv, PageConsistent, Shape, Counters
<1>3. CASE Exit
  <2>1. DOMAIN page' = {} /\ counter' = NoCounts
    BY <1>3 DEF Exit, EmptyMap
  <2> QED  BY <2>1 DEF PageInv, PageConsistent
<1>4. CASE Scrape
  <2>1. life = "up" /\ UNCHANGED <<life, counter>>
    BY <1>4 DEF Scrape
  <2>2. CASE DOMAIN page = AllRead
    <3>1. DOMAIN page' = {}
      BY <1>4, <2>2, ExportOrderReadsAll DEF Scrape, EmptyMap
    <3> QED  BY <2>1, <3>1 DEF PageInv, PageConsistent
  <2>3. CASE DOMAIN page # AllRead
    <3> DEFINE c == ExportOrder[1 + Cardinality(DOMAIN page)]
    <3>1. page' = Put(page, c, counter[c])
      BY <1>4, <2>3, ExportOrderReadsAll DEF Scrape
    <3>2. \/ DOMAIN page = {} /\ c = "success"
          \/ DOMAIN page = {"success"} /\ c = "failed"
          \/ DOMAIN page = {"success", "failed"} /\ c = "requests"
      BY <2>3, NextOnPage DEF Inv, PageInv, AllRead
    <3> HIDE DEF c
    <3>3. /\ DOMAIN page' = DOMAIN page \union {c}
          /\ page'[c] = counter[c]
          /\ \A d \in DOMAIN page : page'[d] = page[d]
      BY <3>1, <3>2 DEF Put
    <3>4. counter["success"] + counter["failed"] <= counter["requests"]
      BY <2>1, EndedAtMostBegun DEF Inv
    <3>5. DOMAIN page' \in {{"success"}, {"success", "failed"}, {"success", "failed", "requests"}}
      BY <3>2, <3>3
    <3>6. \A d \in DOMAIN page' : page'[d] \in Nat /\ (d # "requests" => page'[d] <= counter'[d])
      BY <2>1, <3>2, <3>3 DEF Inv, PageInv, Shape, Counters
    <3>7. PageConsistent'
      <4>1. CASE c # "requests"
        BY <3>2, <3>3, <4>1 DEF PageConsistent
      <4>2. CASE c = "requests"
        <5>1. page["success"] <= counter["success"] /\ page["failed"] <= counter["failed"]
          BY <3>2, <4>2 DEF Inv, PageInv
        <5>2. page["success"] \in Nat /\ page["failed"] \in Nat
          BY <3>2, <4>2 DEF Inv, PageInv
        <5>3. counter \in [Counters -> Nat]
          BY DEF Inv, Shape
        <5>4. page["success"] + page["failed"] <= counter["requests"]
          BY <3>4, <5>1, <5>2, <5>3 DEF Counters
        <5>5. page'["success"] = page["success"] /\ page'["failed"] = page["failed"]
              /\ page'["requests"] = counter["requests"]
          BY <3>2, <3>3, <4>2
        <5> QED  BY <5>4, <5>5 DEF PageConsistent
      <4> QED  BY <4>1, <4>2
    <3> QED  BY <2>1, <3>5, <3>6, <3>7 DEF PageInv
  <2> QED  BY <2>2, <2>3
<1> QED  BY <1>1, <1>2, <1>3, <1>4

-----------------------------------------------------------------------------
(* The theorems *)

LEMMA InitInv == Init => Inv
<1> SUFFICES ASSUME Init  PROVE Inv
  OBVIOUS
<1>1. HistogramTypeOK
  <2>1. pos \in Slots /\ buf \in [Slots -> Nat]
    BY HistogramAssumption DEF Init, HistogramInit, Slots
  <2> QED  BY <2>1 DEF Init, HistogramInit, HistogramTypeOK
<1>2. Shape
  BY <1>1 DEF Init, Shape, HandlerStates, Replies, HubStates, NoCounts, Hub!ServiceInit
<1>3. SidesInv
  BY DEF Init, SidesInv, Consistent, Hub!ServiceInit
<1>4. Admitted = {} /\ Concluded("answered") = {} /\ Concluded("failed") = {}
  BY DEF Init, Admitted, Concluded
<1>5. RequestsAccounted
  BY <1>4, FS_EmptySet, AccountedBySets DEF Init, NoCounts, Counters
<1>6. PageInv
  <2>1. DOMAIN page = {} /\ life = "up"
    BY DEF Init, EmptyMap
  <2> QED  BY <2>1 DEF PageInv, PageConsistent
<1> QED  BY <1>2, <1>3, <1>5, <1>6 DEF Inv

LEMMA StepInv == Inv /\ [Next]_vars => Inv'
<1>1. ASSUME Inv, UNCHANGED vars  PROVE Inv'
  BY <1>1 DEF Inv, Shape, SidesInv, Consistent, RequestsAccounted, PageInv, PageConsistent, vars,
              handling, hubSide, histogramVars, HistogramTypeOK
<1>2. ASSUME Inv, Next  PROVE Inv'
  BY <1>2, ShapeKept, SidesKept, AccountedKept, PageKept DEF Inv
<1> QED  BY <1>1, <1>2

\* The invariant holds in every state of every exposer.
THEOREM ExposerInvariant == Spec => []Inv
BY InitInv, StepInv, PTL DEF Spec

\* The shape of the state, with counters that never exceed the number of requests.
THEOREM ExposerType == Spec => []ExposerTypeOK
<1>1. Inv => ExposerTypeOK
  <2> SUFFICES ASSUME Inv  PROVE ExposerTypeOK
    OBVIOUS
  <2>1. \A r \in Requests : want[r] \subseteq Wants /\ Cardinality(want[r]) <= 1
    <3>1. \A r \in Requests : want[r] = {} \/ \E w \in Wants : want[r] = {w}
      BY DEF Inv, Shape
    <3>2. Cardinality({}) = 0 /\ \A w \in Wants : Cardinality({w}) = 1
      BY FS_EmptySet, FS_Singleton
    <3> QED  BY <3>1, <3>2
  <2>2. counter \in [Counters -> 0 .. Cardinality(Requests)]
    <3>1. Cardinality(Requests) \in Nat
      BY ExposerAssumption, FS_CardinalityType
    <3>2. CASE life = "up"
      BY <3>1, <3>2, AccountedBySets, ConcludedAdmitted DEF Inv, Shape, Counters
    <3>3. CASE life = "exited"
      BY <3>1, <3>3 DEF Inv, PageInv, NoCounts, Counters
    <3> QED  BY <3>2, <3>3 DEF Inv, Shape
  <2>3. DOMAIN page \subseteq Counters
    BY DEF Inv, PageInv, Counters
  <2> QED  BY <2>1, <2>2, <2>3 DEF Inv, Shape, ExposerTypeOK
<1> QED  BY <1>1, ExposerInvariant, PTL

\* The counters of the exposer (server.go:277, 330, 360) add up, whatever is under way.
THEOREM ExposerAccounted == Spec => []RequestsAccounted
<1>1. Inv => RequestsAccounted
  BY DEF Inv
<1> QED  BY <1>1, ExposerInvariant, PTL

\* A metrics page (metrics.go:198), read without a lock, shows no more requests
\* ended than begun.
THEOREM ExposerPage == Spec => []PageConsistent
<1>1. Inv => PageConsistent
  BY DEF Inv, PageInv
<1> QED  BY <1>1, ExposerInvariant, PTL

\* Nothing runs for the exposer that the rules of the hub (auth.go:69) do not grant.
THEOREM ExposerOnlyGranted == Spec => []OnlyGranted
<1>1. Inv => OnlyGranted
  BY DEF Inv, Shape, SidesInv, Consistent, OnlyGranted, HubStates
<1> QED  BY <1>1, ExposerInvariant, PTL

\* What the handlers of all requests observe together fills the histogram as a
\* window on the latest durations.
THEOREM ExposerWindow == Spec => WindowExact
<1>1. Init => HistogramInit
  BY DEF Init
<1>2. Inv /\ [Next]_vars => [\E d \in Durations : Observe(d)]_histogramVars
  BY HistogramStep DEF Inv, Shape, vars
<1>3. Spec => HistogramSpec
  BY <1>1, <1>2, ExposerInvariant, PTL DEF Spec, HistogramSpec
<1> QED  BY <1>3, HistogramExact

\* The quantiles of the query durations on the metrics page (metrics.go:97-124)
\* stand at their ranks in the observations that are remembered, for every capacity.
THEOREM ExposerQuantiles == Spec => []QuantileRank
<1>1. Inv => HistogramTypeOK
  BY DEF Inv, Shape
<1>2. Inv => QuantileRank
  BY <1>1, QuantilesRanked
<1> QED  BY <1>2, ExposerInvariant, PTL

-----------------------------------------------------------------------------
(* To its clients, the exposer is the service. *)

Status == [r \in Requests |-> Known(r)]

\* A step that touches one request changes what one client knows.
LEMMA OneKnows ==
    ASSUME NEW r \in Requests, NEW v, Known(r)' = v,
           \A q \in Requests \ {r} : rpc'[q] = rpc[q] /\ reply'[q] = reply[q]
    PROVE  Status' = [Status EXCEPT ![r] = v]
<1>1. ASSUME NEW q \in Requests \ {r}  PROVE Known(q)' = Known(q)
  <2>1. rpc'[q] = rpc[q] /\ reply'[q] = reply[q]
    OBVIOUS
  <2> QED  BY <2>1 DEF Known, UnderWay
<1> QED  BY <1>1 DEF Status

\* A step that changes no handler's place or reply changes what nobody knows.
LEMMA NobodyKnows == UNCHANGED <<rpc, reply>> => UNCHANGED Status
BY DEF Status, Known

\* A request whose call has not returned looks the same before and after.
LEMMA StillOpen ==
    ASSUME Shape, NEW r \in Requests, NEW to \in UnderWay, rpc[r] \in UnderWay,
           rpc' = [rpc EXCEPT ![r] = to],
           \A q \in Requests \ {r} : reply'[q] = reply[q]
    PROVE  UNCHANGED Status
<1>1. \A q \in Requests : Known(q)' = Known(q)
  BY DEF Shape, Known, UnderWay
<1> QED  BY <1>1 DEF Status

\* Every step of the exposer is one of the service, or none.
LEMMA StepServes ==
    ASSUME Inv, Next
    PROVE  (\E r \in Requests : Client!Accept(r) \/ Client!Refuse(r) \/ Client!Answer(r)
                                \/ Client!Fail(r) \/ Client!Run(r))
           \/ UNCHANGED <<Status, runs>>
<1> USE DEF Inv, Shape, Move, hubSide, handling
<1> DEFINE Served == \E r \in Requests : \/ Client!Accept(r) \/ Client!Refuse(r) \/ Client!Answer(r)
                                         \/ Client!Fail(r) \/ Client!Run(r)
<1>1. ASSUME NEW r \in Requests, TurnAway(r)  PROVE Client!Refuse(r)
  <2>1. Known(r) = "new" /\ Known(r)' = "refused"
    BY <1>1 DEF TurnAway, Known, UnderWay
  <2>2. Status' = [Status EXCEPT ![r] = "refused"]
    BY <1>1, <2>1, OneKnows DEF TurnAway
  <2>3. runs[r] = 0 /\ UNCHANGED runs
    BY <1>1 DEF TurnAway, SidesInv, Consistent
  <2> QED  BY <2>1, <2>2, <2>3 DEF Client!Refuse, Client!Conclude, Status
<1>2. ASSUME NEW r \in Requests, NEW w \in Wants, Admit(r, w)  PROVE Client!Accept(r)
  <2>1. Known(r) = "new" /\ Known(r)' = "open"
    BY <1>2 DEF Admit, Known, UnderWay
  <2>2. Status' = [Status EXCEPT ![r] = "open"] /\ UNCHANGED runs
    BY <1>2, <2>1, OneKnows DEF Admit
  <2> QED  BY <2>1, <2>2 DEF Client!Accept, Client!Conclude, Status
<1>3. ASSUME NEW r \in Requests, BadRequest(r)  PROVE Client!Refuse(r)
  <2>1. Known(r) = "open" /\ Known(r)' = "refused"
    BY <1>3 DEF BadRequest, Known, UnderWay
  <2>2. Status' = [Status EXCEPT ![r] = "refused"]
    BY <1>3, <2>1, OneKnows DEF BadRequest
  <2>3. runs[r] = 0 /\ UNCHANGED runs
    BY <1>3 DEF BadRequest, SidesInv, Consistent
  <2> QED  BY <2>1, <2>2, <2>3 DEF Client!Refuse, Client!Conclude, Status
<1>4. ASSUME NEW r \in Requests, AskHub(r)  PROVE UNCHANGED <<Status, runs>>
  BY <1>4, StillOpen DEF AskHub, UnderWay
<1>5. ASSUME NEW r \in Requests, HubAnswers(r) \/ HubReturnsStatus(r) \/ CallFails(r)
      PROVE  UNCHANGED <<Status, runs>>
  <2>1. PICK result : CallReturns(r, result)
    BY <1>5 DEF HubAnswers, HubReturnsStatus, CallFails
  <2>2. /\ rpc[r] \in UnderWay /\ rpc' = [rpc EXCEPT ![r] = "returned"] /\ UNCHANGED runs
        /\ \A q \in Requests \ {r} : reply'[q] = reply[q]
    BY <2>1 DEF CallReturns, UnderWay
  <2> QED  BY <2>2, StillOpen DEF UnderWay
<1>6. ASSUME NEW r \in Requests, Conclude(r)  PROVE Client!Answer(r) \/ Client!Fail(r)
  <2>1. Known(r) = "open" /\ UNCHANGED <<reply, runs>>
    BY <1>6 DEF Conclude, Known, UnderWay
  <2>2. CASE reply[r] = "failed"
    <3>1. Known(r)' = "failed"
      BY <1>6, <2>2 DEF Conclude, Known, UnderWay
    <3>2. Status' = [Status EXCEPT ![r] = "failed"]
      BY <1>6, <3>1, OneKnows DEF Conclude
    <3> QED  BY <2>1, <3>2 DEF Client!Fail, Client!Conclude, Status
  <2>3. CASE reply[r] # "failed"
    <3>1. Known(r)' = "answered"
      BY <1>6, <2>3 DEF Conclude, Known, UnderWay
    <3>2. Status' = [Status EXCEPT ![r] = "answered"]
      BY <1>6, <3>1, OneKnows DEF Conclude
    <3>3. runs[r] = 1
      BY <1>6, <2>3 DEF Conclude, SidesInv, Consistent, Replies
    <3> QED  BY <2>1, <3>2, <3>3 DEF Client!Answer, Client!Conclude, Status
  <2> QED  BY <2>2, <2>3
<1>7. ASSUME NEW r \in Requests, CutOff(r)  PROVE Client!Fail(r)
  <2>1. Known(r) = "open" /\ Known(r)' = "failed"
    BY <1>7 DEF CutOff, Known, UnderWay
  <2>2. Status' = [Status EXCEPT ![r] = "failed"] /\ UNCHANGED runs
    BY <1>7, <2>1, OneKnows DEF CutOff
  <2> QED  BY <2>1, <2>2 DEF Client!Fail, Client!Conclude, Status
<1>8. ASSUME NEW r \in Requests, HubAccepts(r) \/ HubRefuses(r) \/ HubFails(r) \/ HubConcludes(r)
      PROVE  UNCHANGED <<Status, runs>>
  BY <1>8, NobodyKnows DEF HubAccepts, HubRefuses, HubFails, HubConcludes, AtHub, Hub!Accept,
                           Hub!Refuse, Hub!Fail, Hub!Answer, Hub!Conclude
<1>9. ASSUME NEW r \in Requests, SourceRuns(r)  PROVE Client!Run(r)
  <2>1. UNCHANGED Status
    BY <1>9, NobodyKnows DEF SourceRuns, AtHub
  <2>2. runs[r] = 0 /\ runs' = [runs EXCEPT ![r] = 1] /\ r \in asked /\ hubStatus[r] # "answered"
    BY <1>9 DEF SourceRuns, AtHub, Hub!Run
  <2>3. Known(r) \in {"open", "failed"}
    BY <2>2 DEF Known, UnderWay, SidesInv, Consistent, HandlerStates, Replies
  <2> QED  BY <2>1, <2>2, <2>3 DEF Client!Run, Status
<1>10. ASSUME Scrape \/ Exit  PROVE UNCHANGED <<Status, runs>>
  BY <1>10, NobodyKnows DEF Scrape, Exit
<1> QED  BY <1>1, <1>2, <1>3, <1>4, <1>5, <1>6, <1>7, <1>8, <1>9, <1>10 DEF Next, Handler, HubSteps

\* For any number of requests: whatever call fails and whenever the exposer stops,
\* an operation runs at most once for a request (server.go:324), never for one
\* that is refused, and always for one that is answered.
THEOREM ExposerServes == Spec => ImplementsService
<1>1. Init => Client!ServiceInit
  <2>1. Init => \A r \in Requests : Known(r) = "new"
    <3> SUFFICES ASSUME Init, NEW r \in Requests  PROVE Known(r) = "new"
      OBVIOUS
    <3>1. rpc[r] = "new"
      BY DEF Init
    <3> QED  BY <3>1 DEF Known, UnderWay
  <2> QED  BY <2>1 DEF Init, Hub!ServiceInit, Client!ServiceInit
<1>2. Inv /\ [Next]_vars => [Client!ServiceNext]_(Client!serviceVars)
  <2>1. ASSUME Inv, Next  PROVE Client!ServiceNext \/ UNCHANGED Client!serviceVars
    BY <2>1, StepServes DEF Client!ServiceNext, Client!serviceVars, Status
  <2>2. ASSUME UNCHANGED vars  PROVE UNCHANGED Client!serviceVars
    <3>1. UNCHANGED Status /\ UNCHANGED runs
      BY <2>2, NobodyKnows DEF vars, handling, hubSide
    <3> QED  BY <3>1 DEF Client!serviceVars, Status
  <2> QED  BY <2>1, <2>2
<1> QED  BY <1>1, <1>2, ExposerInvariant, PTL DEF Spec, ImplementsService, Client!ServiceSpec

=============================================================================
