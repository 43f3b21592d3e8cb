--------------------------- MODULE ListingProofs ---------------------------
(***************************************************************************)
(* Proofs about Listing, for any table, any sort keys, any limits and any  *)
(* number of writes and failures.  They rest on facts about Rank: where a  *)
(* user can stand in a sorted order, and how a write changes it.           *)
(***************************************************************************)
EXTENDS Listing, FiniteSetTheorems, SequenceTheorems, TLAPS

\* The number of users of T whose key is at most k.
UpTo(T, k) == Cardinality({u \in DOMAIN T : T[u] <= k})

LEMMA TableType ==
    ASSUME NEW T \in Tables
    PROVE  /\ IsFiniteSet(DOMAIN T)
           /\ Cardinality(DOMAIN T) \in Nat
           /\ DOMAIN T \subseteq Users
           /\ T \in [DOMAIN T -> Int]
<1>1. DOMAIN T \in SUBSET Users /\ T \in [DOMAIN T -> Keys]
  BY DEF Tables
<1>2. IsFiniteSet(DOMAIN T)
  BY <1>1, FS_Subset, ListingAssumption
<1>3. \A u \in DOMAIN T : T[u] \in Int
  BY <1>1, ListingAssumption
<1>. QED
  BY <1>1, <1>2, <1>3, FS_CardinalityType

LEMMA RankType ==
    ASSUME NEW T \in Tables, NEW k
    PROVE  /\ IsFiniteSet({u \in DOMAIN T : T[u] < k})
           /\ IsFiniteSet({u \in DOMAIN T : T[u] <= k})
           /\ Rank(T, k) \in Nat
           /\ UpTo(T, k) \in Nat
           /\ UpTo(T, k) <= Cardinality(DOMAIN T)
<1>1. IsFiniteSet(DOMAIN T)
  BY TableType
<1>2. /\ {u \in DOMAIN T : T[u] < k} \in SUBSET DOMAIN T
      /\ {u \in DOMAIN T : T[u] <= k} \in SUBSET DOMAIN T
  OBVIOUS
<1>3. /\ IsFiniteSet({u \in DOMAIN T : T[u] < k})
      /\ IsFiniteSet({u \in DOMAIN T : T[u] <= k})
      /\ Cardinality({u \in DOMAIN T : T[u] <= k}) <= Cardinality(DOMAIN T)
  BY <1>1, <1>2, FS_Subset
<1>. QED
  BY <1>3, FS_CardinalityType DEF Rank, UpTo

\* Those up to a key are those before it and those that have it.
LEMMA KeyShared ==
    ASSUME NEW T \in Tables, NEW k \in Int
    PROVE  LET C == {u \in DOMAIN T : T[u] = k}
           IN  IsFiniteSet(C) /\ UpTo(T, k) = Rank(T, k) + Cardinality(C)
<1>. DEFINE C == {u \in DOMAIN T : T[u] = k}
            B == {u \in DOMAIN T : T[u] < k}
            A == {u \in DOMAIN T : T[u] <= k}
<1>1. T \in [DOMAIN T -> Int] /\ IsFiniteSet(DOMAIN T)
  BY TableType
<1>2. IsFiniteSet(C)
  <2>1. C \in SUBSET DOMAIN T
    OBVIOUS
  <2>. QED
    BY <1>1, <2>1, FS_Subset
<1>3. IsFiniteSet(B)
  BY RankType
<1>4. A = B \union C
  <2>1. \A u \in DOMAIN T : T[u] <= k <=> (T[u] < k \/ T[u] = k)
    BY <1>1
  <2>. QED
    BY <2>1
<1>5. B \intersect C = {}
  BY <1>1
<1>6. Cardinality(B \union C) = Cardinality(B) + Cardinality(C) - Cardinality(B \intersect C)
  BY <1>2, <1>3, FS_Union
<1>7. Cardinality(B \union C) = Cardinality(B) + Cardinality(C)
  <2>1. Cardinality(B) \in Nat /\ Cardinality(C) \in Nat /\ Cardinality({}) = 0
    BY <1>2, <1>3, FS_CardinalityType, FS_EmptySet
  <2>2. Cardinality(B \union C) = Cardinality(B) + Cardinality(C) - 0
    BY <1>5, <1>6, <2>1
  <2>. HIDE DEF B, C
  <2>. QED
    BY <2>1, <2>2
<1>. QED
  BY <1>2, <1>4, <1>7 DEF Rank, UpTo

\* A larger key has all of a smaller one before it.
LEMMA RankIncreases ==
    ASSUME NEW T \in Tables, NEW k \in Int, NEW l \in Int, k < l
    PROVE  Rank(T, k) <= Rank(T, l) /\ UpTo(T, k) <= Rank(T, l)
<1>. DEFINE L == {u \in DOMAIN T : T[u] < l}
<1>1. IsFiniteSet(L)
  BY RankType
<1>2. \A u \in DOMAIN T : T[u] \in Int
  BY TableType
<1>3. /\ {u \in DOMAIN T : T[u] < k} \in SUBSET L
      /\ {u \in DOMAIN T : T[u] <= k} \in SUBSET L
  BY <1>2
<1>. QED
  BY <1>1, <1>3, FS_Subset DEF Rank, UpTo

\* A user adds at least one to those up to its key, and just one if it has the
\* key to itself.
LEMMA RankOfUser ==
    ASSUME NEW T \in Tables, NEW u \in DOMAIN T
    PROVE  /\ Rank(T, T[u]) + 1 <= UpTo(T, T[u])
           /\ u \notin Tied(T) => UpTo(T, T[u]) = Rank(T, T[u]) + 1
<1>. DEFINE k == T[u]
            C == {v \in DOMAIN T : T[v] = k}
<1>1. k \in Int
  BY TableType
<1>2. IsFiniteSet(C) /\ UpTo(T, k) = Rank(T, k) + Cardinality(C)
  BY <1>1, KeyShared
<1>3. Cardinality(C) \in Nat /\ Cardinality(C) # 0
  BY <1>2, FS_CardinalityType, FS_EmptySet, u \in C
<1>4. ASSUME u \notin Tied(T)
      PROVE  Cardinality(C) = 1
  <2>1. C = {u}
    BY <1>4 DEF Tied
  <2>. QED
    BY <2>1, FS_Singleton
<1>5. Rank(T, k) \in Nat
  BY RankType
<1>. QED
  BY <1>2, <1>3, <1>4, <1>5

-----------------------------------------------------------------------------
(* Sorted orders and pages *)

\* In a sorted order a user stands behind all with a smaller key and among those
\* up to its own.
LEMMA SortedPlace ==
    ASSUME NEW T \in Tables, NEW s \in Sorted(T), NEW i \in 1..Cardinality(DOMAIN T)
    PROVE  /\ s[i] \in DOMAIN T
           /\ Rank(T, T[s[i]]) < i
           /\ i <= UpTo(T, T[s[i]])
<1>. DEFINE n == Cardinality(DOMAIN T)
            k == T[s[i]]
            Before == {u \in DOMAIN T : T[u] < k}
            Until == {u \in DOMAIN T : T[u] <= k}
<1>1. /\ n \in Nat /\ T \in [DOMAIN T -> Int]
  BY TableType
<1>2. /\ s \in [1..n -> DOMAIN T] /\ DOMAIN s = 1..n
      /\ \A u \in DOMAIN T : \E j \in 1..n : s[j] = u
      /\ \A j, l \in 1..n : s[j] = s[l] => j = l
  BY DEF Sorted, Bijection, Injection, Surjection, IsInjective
<1>3. \A j, l \in 1..n : j < l => T[s[j]] <= T[s[l]]
  BY <1>2 DEF Sorted
<1>4. k \in Int
  BY <1>1, <1>2
<1>5. IsFiniteSet(Before) /\ IsFiniteSet(Until) /\ Rank(T, k) \in Nat /\ UpTo(T, k) \in Nat
  BY RankType
<1>6. Rank(T, k) < i
  <2>. DEFINE f == [u \in Before |-> CHOOSE j \in 1..n : s[j] = u]
  <2>1. \A u \in Before : f[u] \in 1..n /\ s[f[u]] = u
    BY <1>2
  <2>2. \A u \in Before : f[u] \in 1..(i - 1)
    <3>. SUFFICES ASSUME NEW u \in Before
                  PROVE  f[u] \in 1..(i - 1)
      OBVIOUS
    <3>1. f[u] \in 1..n /\ s[f[u]] = u /\ T[s[f[u]]] < k
      BY <2>1
    <3>2. ~(i < f[u])
      BY <3>1, <1>3, <1>1, <1>2, <1>4
    <3>3. f[u] # i
      BY <3>1, <1>4
    <3>. QED
      BY <3>1, <3>2, <3>3, <1>1
  <2>3. f \in Injection(Before, 1..(i - 1))
    <3>1. f \in [Before -> 1..(i - 1)]
      BY <2>2
    <3>2. \A u, v \in Before : f[u] = f[v] => u = v
      BY <2>1
    <3>. QED
      BY <3>1, <3>2 DEF Injection, IsInjective
  <2>4. IsFiniteSet(1..(i - 1)) /\ Cardinality(1..(i - 1)) = i - 1
    BY <1>1, FS_Interval
  <2>5. Cardinality(Before) <= i - 1
    BY <2>3, <2>4, FS_Injection
  <2>. QED
    BY <2>5, <1>1, <1>5 DEF Rank
<1>7. i <= UpTo(T, k)
  <2>. DEFINE g == [j \in 1..i |-> s[j]]
  <2>1. \A j \in 1..i : j \in 1..n /\ s[j] \in Until
    <3>. SUFFICES ASSUME NEW j \in 1..i
                  PROVE  j \in 1..n /\ s[j] \in Until
      OBVIOUS
    <3>1. j \in 1..n /\ s[j] \in DOMAIN T
      BY <1>1, <1>2
    <3>2. CASE j = i
      BY <3>1, <3>2, <1>4
    <3>3. CASE j # i
      <4>1. j < i
        BY <3>3
      <4>. QED
        BY <3>1, <4>1, <1>3
    <3>. QED
      BY <3>2, <3>3
  <2>2. g \in Injection(1..i, Until)
    <3>1. g \in [1..i -> Until]
      BY <2>1
    <3>2. \A j, l \in 1..i : g[j] = g[l] => j = l
      BY <2>1, <1>2
    <3>. QED
      BY <3>1, <3>2 DEF Injection, IsInjective
  <2>3. IsFiniteSet(1..i) /\ Cardinality(1..i) = i
    <3>1. i \in Int /\ 1 \in Int /\ ~(1 > i) /\ i - 1 + 1 = i
      BY <1>1
    <3>. QED
      BY <3>1, FS_Interval
  <2>4. Cardinality(1..i) <= Cardinality(Until)
    BY <2>2, <1>5, FS_Injection
  <2>. QED
    BY <2>3, <2>4 DEF UpTo
<1>. QED
  BY <1>2, <1>6, <1>7

\* A page is what stands at the places behind its offset.
LEMMA PageProperties ==
    ASSUME NEW S, NEW s \in Seq(S), NEW from \in Nat, NEW size \in Nat
    PROVE  /\ Page(s, from, size) \in Seq(S)
           /\ Len(Page(s, from, size)) <= size
           /\ \A i \in 1..Len(Page(s, from, size)) :
                 from + i \in 1..Len(s) /\ Page(s, from, size)[i] = s[from + i]
<1>. DEFINE last == Smaller(from + size, Len(s))
            P == SubSeq(s, from + 1, last)
<1>1. Len(s) \in Nat /\ \A i \in 1..Len(s) : s[i] \in S
  BY LenProperties, ElementOfSeq
<1>2. last \in Nat /\ last <= Len(s) /\ last <= from + size
  BY <1>1 DEF Smaller
<1>3. \A i \in (from + 1)..last : s[i] \in S
  BY <1>1, <1>2
<1>4. /\ P \in Seq(S)
      /\ Len(P) = IF from + 1 <= last THEN last - (from + 1) + 1 ELSE 0
      /\ \A i \in 1..(last - (from + 1) + 1) : P[i] = s[(from + 1) + i - 1]
  BY <1>2, <1>3, SubSeqProperties
<1>5. Len(P) <= size
  BY <1>2, <1>4
<1>6. ASSUME NEW i \in 1..Len(P)
      PROVE  from + i \in 1..Len(s) /\ P[i] = s[from + i]
  <2>1. from + 1 <= last /\ Len(P) = last - from
    BY <1>2, <1>4
  <2>2. i \in 1..(last - (from + 1) + 1) /\ (from + 1) + i - 1 = from + i
    BY <2>1, <1>2
  <2>3. P[i] = s[from + i]
    BY <2>2, <1>4
  <2>. QED
    BY <2>1, <2>3, <1>1, <1>2
<1>. QED
  BY <1>4, <1>5, <1>6 DEF Page

-----------------------------------------------------------------------------
(* The invariant *)

InPage == {users[i] : i \in DOMAIN users}

RankIn(u) == Rank(table, table[u])

\* The steady users before the offset have been received; those before the end
\* of the page in hand have been received or are in that page.
ReadFromFront ==
    ~pulled =>
        \A u \in present \ unsteady :
            /\ u \in DOMAIN table
            /\ RankIn(u) < offset => u \in Received
            /\ RankIn(u) < ReadUpTo => u \in Received \union InPage

\* A page that ends the listing leaves no steady user out.
LastPage ==
    ~pulled =>
        /\ stage = "counted" /\ ~hasMore => present \ unsteady \subseteq Received \union InPage
        /\ stage = "over" => present \ unsteady \subseteq Received

\* A steady user that has been received still stands before the offset, and one
\* that is in the page in hand before its end.
ReadStaysBehind ==
    ~pushed =>
        /\ \A u \in Received \ unsteady : u \in DOMAIN table /\ RankIn(u) < offset
        /\ \A u \in InPage \ unsteady :
              u \in DOMAIN table /\ RankIn(u) < ReadUpTo /\ u \notin Received

\* A steady user is in the list, and in the page in hand, at most once.
ReadOnce ==
    ~pushed =>
        /\ \A i, j \in DOMAIN list : list[i] = list[j] /\ i # j => list[i] \in unsteady
        /\ \A i, j \in DOMAIN users : users[i] = users[j] /\ i # j => users[i] \in unsteady

\* User u may stand at place i of a sorted order of the table.
FitsAt(u, i) ==
    u \in DOMAIN table /\ RankIn(u) < i /\ i <= UpTo(table, table[u])

\* In a table nobody has written to the list goes on like a sorted order, though
\* not like one and the same.
ListSorted ==
    writes = 0 =>
        /\ \A i \in DOMAIN list : FitsAt(list[i], i)
        /\ \A i \in DOMAIN users : FitsAt(users[i], offset + i)
        /\ stage = "counted" => totalCount = Cardinality(DOMAIN table)
        /\ stage = "over" => Cardinality(DOMAIN table) <= offset

PageInHand == stage \in {"idle", "sent", "over"} => users = <<>>

ListingInv ==
    /\ ListingTypeOK
    /\ PageInHand
    /\ Tied(table) \subseteq unsteady
    /\ present \ unsteady \subseteq DOMAIN table
    /\ ReadFromFront
    /\ LastPage
    /\ ReadStaysBehind
    /\ ReadOnce
    /\ ListSorted

\* What the type invariant says of sequences and numbers.
LEMMA ListTypes ==
    ASSUME ListingTypeOK
    PROVE  /\ offset \in Nat /\ Len(users) \in Nat
           /\ ReadUpTo \in Nat /\ offset <= ReadUpTo
           /\ DOMAIN list = 1..offset
           /\ DOMAIN users = 1..Len(users)
           /\ \A u : RankIn(u) \in Nat /\ UpTo(table, table[u]) \in Nat
<1>1. list \in Seq(Users) /\ users \in Seq(Users) /\ table \in Tables
  BY DEF ListingTypeOK
<1>2. /\ Len(list) \in Nat /\ DOMAIN list = 1..Len(list)
      /\ Len(users) \in Nat /\ DOMAIN users = 1..Len(users)
  BY <1>1, LenProperties
<1>3. \A u : RankIn(u) \in Nat /\ UpTo(table, table[u]) \in Nat
  BY <1>1, RankType DEF RankIn
<1>. QED
  BY <1>2, <1>3 DEF offset, ReadUpTo

LEMMA LimitType ==
    ASSUME NEW l \in Int
    PROVE  Limit(l) \in Nat /\ 0 < Limit(l) /\ Limit(l) <= MaxLimit
BY ListingAssumption DEF Limit

LEMMA EmptyPage == <<>> \in Seq(Users) /\ Len(<<>>) = 0 /\ DOMAIN <<>> = {}
BY EmptySeq

LEMMA ListingInitInv == Init => ListingInv
<1> SUFFICES ASSUME Init
             PROVE  ListingInv
  OBVIOUS
<1>1. /\ list = <<>> /\ users = <<>> /\ table \in Tables
      /\ present = DOMAIN table /\ unsteady = Tied(table) /\ stage = "idle"
      /\ ~pushed /\ ~pulled /\ writes = 0
  BY DEF Init
<1>2. offset = 0 /\ ReadUpTo = 0 /\ Received = {} /\ InPage = {} /\ DOMAIN list = {} /\ DOMAIN users = {}
  BY <1>1, EmptyPage DEF offset, ReadUpTo, Received, InPage
<1>3. ListingTypeOK
  <2>1. DOMAIN table \in SUBSET Users /\ Tied(table) \in SUBSET Users
    BY <1>1, TableType DEF Tied
  <2>2. /\ totalCount \in Nat /\ Len(users) <= MaxLimit
        /\ writes \in 0..MaxWrites /\ failures \in 0..MaxFailures
    BY <1>1, EmptyPage, ListingAssumption DEF Init
  <2>3. /\ list \in Seq(Users) /\ users \in Seq(Users)
        /\ stage \in Stages /\ limit \in Limits \union {0}
        /\ pushed \in BOOLEAN /\ pulled \in BOOLEAN
    BY EmptyPage DEF Init, Stages
  <2>. QED
    BY <1>1, <2>1, <2>2, <2>3 DEF ListingTypeOK
<1>4. \A u : RankIn(u) \in Nat
  BY <1>3, ListTypes
<1>5. ReadFromFront
  BY <1>1, <1>2, <1>4 DEF ReadFromFront
<1>6. PageInHand /\ LastPage
  BY <1>1 DEF PageInHand, LastPage
<1>7. ReadStaysBehind /\ ReadOnce
  BY <1>2 DEF ReadStaysBehind, ReadOnce
<1>8. ListSorted
  BY <1>1, <1>2 DEF ListSorted
<1>. QED
  BY <1>1, <1>3, <1>5, <1>6, <1>7, <1>8 DEF ListingInv

-----------------------------------------------------------------------------
(* The steps of the request *)

LEMMA RequestKeepsInv ==
    ASSUME ListingInv, Request
    PROVE  ListingInv'
<1>1. /\ stage = "idle" /\ stage' = "sent" /\ limit' \in Limits
      /\ UNCHANGED <<table, users, totalCount, list, present, unsteady, pushed, pulled,
                     writes, failures>>
  BY DEF Request, historyVars
<1>2. /\ offset' = offset /\ ReadUpTo' = ReadUpTo /\ Received' = Received /\ InPage' = InPage
      /\ \A u : RankIn(u)' = RankIn(u) /\ \A i : FitsAt(u, i)' = FitsAt(u, i)
  BY <1>1 DEF offset, ReadUpTo, Received, InPage, RankIn, FitsAt
<1>3. ListingTypeOK'
  BY <1>1 DEF ListingInv, ListingTypeOK, Stages
<1>4. PageInHand' /\ LastPage' /\ ListSorted'
  BY <1>1, <1>2 DEF ListingInv, PageInHand, LastPage, ListSorted
<1>5. ReadFromFront' /\ ReadStaysBehind' /\ ReadOnce'
  BY <1>1, <1>2 DEF ListingInv, ReadFromFront, ReadStaysBehind, ReadOnce
<1>6. (Tied(table) \subseteq unsteady)' /\ (present \ unsteady \subseteq DOMAIN table)'
  BY <1>1 DEF ListingInv
<1>. QED
  BY <1>3, <1>4, <1>5, <1>6 DEF ListingInv

\* What a page holds fits its places, and a user with a key of its own stands at
\* its rank.
LEMMA PageFits ==
    ASSUME ListingTypeOK, NEW s \in Sorted(table), NEW size \in Nat
    PROVE  LET P == Page(s, offset, size)
           IN  /\ P \in Seq(Users) /\ Len(P) <= size /\ Len(P) \in Nat /\ DOMAIN P = 1..Len(P)
               /\ \A i \in DOMAIN P : FitsAt(P[i], offset + i)
               /\ \A i \in DOMAIN P : P[i] \notin Tied(table) => RankIn(P[i]) = offset + i - 1
               /\ \A u \in DOMAIN table \ Tied(table) :
                     offset <= RankIn(u) /\ RankIn(u) < offset + Len(P)
                        => \E i \in DOMAIN P : P[i] = u
<1>. DEFINE P == Page(s, offset, size)
            n == Cardinality(DOMAIN table)
<1>1. /\ table \in Tables /\ offset \in Nat /\ n \in Nat /\ DOMAIN table \subseteq Users
      /\ \A u : RankIn(u) \in Nat /\ UpTo(table, table[u]) \in Nat
  BY ListTypes, TableType DEF ListingTypeOK
<1>2. /\ s \in [1..n -> DOMAIN table] /\ DOMAIN s = 1..n
      /\ \A u \in DOMAIN table : \E j \in 1..n : s[j] = u
  BY DEF Sorted, Bijection, Injection, Surjection
<1>3. s \in Seq(Users) /\ Len(s) = n
  <2>1. s \in [1..n -> Users]
    BY <1>1, <1>2
  <2>2. s \in Seq(Users)
    BY <2>1, <1>1, SeqDef
  <2>3. Len(s) \in Nat /\ DOMAIN s = 1..Len(s)
    BY <2>2, LenProperties
  <2>. QED
    BY <2>2, <2>3, <1>1, <1>2
<1>4. /\ P \in Seq(Users) /\ Len(P) <= size
      /\ \A i \in 1..Len(P) : offset + i \in 1..n /\ P[i] = s[offset + i]
  BY <1>1, <1>3, PageProperties
<1>5. Len(P) \in Nat /\ DOMAIN P = 1..Len(P)
  BY <1>4, LenProperties
<1>6. \A i \in DOMAIN P : FitsAt(P[i], offset + i)
  BY <1>1, <1>4, <1>5, SortedPlace DEF FitsAt, RankIn
<1>7. ASSUME NEW u \in DOMAIN table \ Tied(table), NEW j, j \in Nat, FitsAt(u, j)
      PROVE  RankIn(u) = j - 1
  <2>1. UpTo(table, table[u]) = RankIn(u) + 1
    BY <1>1, <1>7, RankOfUser DEF RankIn
  <2>. QED
    BY <2>1, <1>1, <1>7 DEF FitsAt
<1>8. \A i \in DOMAIN P : P[i] \notin Tied(table) => RankIn(P[i]) = offset + i - 1
  <2>. SUFFICES ASSUME NEW i \in DOMAIN P, P[i] \notin Tied(table)
                PROVE  RankIn(P[i]) = offset + i - 1
    OBVIOUS
  <2>1. offset + i \in Nat
    BY <1>1, <1>5
  <2>2. FitsAt(P[i], offset + i) /\ P[i] \in DOMAIN table
    BY <1>6 DEF FitsAt
  <2>3. RankIn(P[i]) = (offset + i) - 1
    BY <2>1, <2>2, <1>7
  <2>4. (offset + i) - 1 = offset + i - 1
    BY <1>1, <1>5
  <2>. QED
    BY <2>3, <2>4
<1>9. ASSUME NEW u \in DOMAIN table \ Tied(table), offset <= RankIn(u), RankIn(u) < offset + Len(P)
      PROVE  \E i \in DOMAIN P : P[i] = u
  <2>1. PICK j \in 1..n : s[j] = u
    BY <1>2
  <2>2. FitsAt(u, j) /\ j \in Nat
    BY <1>1, <2>1, SortedPlace DEF FitsAt, RankIn
  <2>3. RankIn(u) = j - 1
    BY <2>2, <1>7
  <2>4. j - offset \in DOMAIN P /\ offset + (j - offset) = j
    BY <2>2, <2>3, <1>1, <1>5, <1>9
  <2>. QED
    BY <2>1, <2>4, <1>4, <1>5
<1>. QED
  BY <1>4, <1>5, <1>6, <1>8, <1>9

LEMMA SelectPageKeepsInv ==
    ASSUME ListingInv, SelectPage
    PROVE  ListingInv'
<1>1. PICK s \in Sorted(table) : users' = Page(s, offset, Limit(limit))
  BY DEF SelectPage
<1>. DEFINE size == Limit(limit)
            P == Page(s, offset, size)
<1>2. /\ stage = "sent" /\ stage' = "selected" /\ users' = P
      /\ UNCHANGED <<table, limit, totalCount, list, present, unsteady, pushed, pulled,
                     writes, failures>>
  BY <1>1 DEF SelectPage, historyVars
<1>3. /\ ListingTypeOK /\ users = <<>> /\ offset \in Nat
      /\ Tied(table) \subseteq unsteady /\ present \ unsteady \subseteq DOMAIN table
      /\ \A u : RankIn(u) \in Nat
  BY <1>2, ListTypes DEF ListingInv, PageInHand
<1>4. size \in Nat /\ size <= MaxLimit
  BY <1>3, ListingAssumption, LimitType DEF ListingTypeOK
<1>5. /\ P \in Seq(Users) /\ Len(P) <= size /\ Len(P) \in Nat /\ DOMAIN P = 1..Len(P)
      /\ \A i \in DOMAIN P : FitsAt(P[i], offset + i)
      /\ \A i \in DOMAIN P : P[i] \notin Tied(table) => RankIn(P[i]) = offset + i - 1
      /\ \A u \in DOMAIN table \ Tied(table) :
            offset <= RankIn(u) /\ RankIn(u) < offset + Len(P) => \E i \in DOMAIN P : P[i] = u
  BY <1>3, <1>4, PageFits
<1>. HIDE DEF P, size
<1>6. /\ offset' = offset /\ ReadUpTo' = offset + Len(P) /\ Received' = Received
      /\ InPage' = {P[i] : i \in DOMAIN P}
      /\ \A u : RankIn(u)' = RankIn(u) /\ \A i : FitsAt(u, i)' = FitsAt(u, i)
  BY <1>2 DEF offset, ReadUpTo, Received, InPage, RankIn, FitsAt
<1>7. ListingTypeOK'
  <2>1. Len(P) <= MaxLimit
    BY <1>4, <1>5, ListingAssumption
  <2>. QED
    BY <1>2, <1>3, <1>5, <2>1 DEF ListingTypeOK, Stages
<1>8. ReadFromFront'
  <2>. SUFFICES ASSUME ~pulled, NEW u \in present \ unsteady
                PROVE  /\ u \in DOMAIN table
                       /\ RankIn(u) < offset => u \in Received
                       /\ RankIn(u) < offset + Len(P) => u \in Received \union {P[i] : i \in DOMAIN P}
    BY <1>2, <1>6 DEF ReadFromFront
  <2>1. u \in DOMAIN table /\ u \notin Tied(table) /\ (RankIn(u) < offset => u \in Received)
    BY <1>3 DEF ListingInv, ReadFromFront
  <2>2. CASE RankIn(u) < offset
    BY <2>1, <2>2
  <2>3. CASE offset <= RankIn(u)
    BY <2>1, <2>3, <1>3, <1>5
  <2>. QED
    BY <2>2, <2>3, <1>3
<1>9. ReadStaysBehind'
  <2>. SUFFICES ASSUME ~pushed
                PROVE  /\ \A u \in Received \ unsteady : u \in DOMAIN table /\ RankIn(u) < offset
                       /\ \A i \in DOMAIN P : P[i] \notin unsteady =>
                             P[i] \in DOMAIN table /\ RankIn(P[i]) < offset + Len(P) /\ P[i] \notin Received
    BY <1>2, <1>6 DEF ReadStaysBehind
  <2>1. \A u \in Received \ unsteady : u \in DOMAIN table /\ RankIn(u) < offset
    BY DEF ListingInv, ReadStaysBehind
  <2>2. ASSUME NEW i \in DOMAIN P, P[i] \notin unsteady
        PROVE  P[i] \in DOMAIN table /\ RankIn(P[i]) < offset + Len(P) /\ P[i] \notin Received
    <3>1. P[i] \in DOMAIN table /\ RankIn(P[i]) = offset + i - 1
      BY <2>2, <1>3, <1>5 DEF FitsAt
    <3>2. i \in 1..Len(P)
      BY <1>5
    <3>3. RankIn(P[i]) < offset + Len(P) /\ ~(RankIn(P[i]) < offset)
      BY <3>1, <3>2, <1>3, <1>5
    <3>. QED
      BY <2>1, <2>2, <3>1, <3>3
  <2>. QED
    BY <2>1, <2>2
<1>10. ReadOnce'
  <2>. SUFFICES ASSUME ~pushed, NEW i \in DOMAIN P, NEW j \in DOMAIN P, P[i] = P[j], P[i] \notin unsteady
                PROVE  i = j
    BY <1>2 DEF ListingInv, ReadOnce
  <2>1. RankIn(P[i]) = offset + i - 1 /\ RankIn(P[j]) = offset + j - 1
    BY <1>3, <1>5
  <2>. QED
    BY <2>1, <1>3, <1>5
<1>11. ListSorted'
  <2>1. writes = 0 => \A i \in DOMAIN list : FitsAt(list[i], i)
    BY DEF ListingInv, ListSorted
  <2>. QED
    BY <2>1, <1>2, <1>5, <1>6 DEF ListSorted
<1>12. /\ PageInHand' /\ LastPage'
       /\ (Tied(table) \subseteq unsteady)' /\ (present \ unsteady \subseteq DOMAIN table)'
  BY <1>2, <1>3 DEF PageInHand, LastPage
<1>. QED
  BY <1>7, <1>8, <1>9, <1>10, <1>11, <1>12 DEF ListingInv

\* The total tells whether anybody stands behind the page.
LEMMA CountUsersKeepsInv ==
    ASSUME ListingInv, CountUsers
    PROVE  ListingInv'
<1>1. /\ stage = "selected" /\ stage' = "counted" /\ totalCount' = Cardinality(DOMAIN table)
      /\ UNCHANGED <<table, limit, users, list, present, unsteady, pushed, pulled,
                     writes, failures>>
  BY DEF CountUsers, historyVars
<1>2. /\ ListingTypeOK /\ ReadUpTo \in Nat /\ table \in Tables
      /\ Cardinality(DOMAIN table) \in Nat /\ \A u : RankIn(u) \in Nat
      /\ present \ unsteady \subseteq DOMAIN table
  BY ListTypes, TableType DEF ListingInv, ListingTypeOK
<1>3. /\ offset' = offset /\ ReadUpTo' = ReadUpTo /\ Received' = Received /\ InPage' = InPage
      /\ \A u : RankIn(u)' = RankIn(u) /\ \A i : FitsAt(u, i)' = FitsAt(u, i)
  BY <1>1 DEF offset, ReadUpTo, Received, InPage, RankIn, FitsAt
<1>4. ListingTypeOK'
  BY <1>1, <1>2 DEF ListingTypeOK, Stages
<1>5. LastPage'
  <2>. SUFFICES ASSUME ~pulled, ~hasMore', NEW u \in present \ unsteady
                PROVE  u \in Received \union InPage
    BY <1>1, <1>3 DEF LastPage
  <2>1. Cardinality(DOMAIN table) <= ReadUpTo
    BY <1>1, <1>2 DEF hasMore, ReadUpTo, offset
  <2>2. RankIn(u) + 1 <= UpTo(table, table[u]) /\ UpTo(table, table[u]) <= Cardinality(DOMAIN table)
    BY <1>2, RankOfUser, RankType DEF RankIn
  <2>3. UpTo(table, table[u]) \in Nat
    BY <1>2, RankType
  <2>4. RankIn(u) < ReadUpTo
    BY <2>1, <2>2, <2>3, <1>2
  <2>. QED
    BY <2>4 DEF ListingInv, ReadFromFront
<1>6. ListSorted'
  BY <1>1, <1>3 DEF ListingInv, ListSorted
<1>7. PageInHand' /\ ReadFromFront' /\ ReadStaysBehind' /\ ReadOnce'
  BY <1>1, <1>3 DEF ListingInv, PageInHand, ReadFromFront, ReadStaysBehind, ReadOnce
<1>8. (Tied(table) \subseteq unsteady)' /\ (present \ unsteady \subseteq DOMAIN table)'
  BY <1>1 DEF ListingInv
<1>. QED
  BY <1>4, <1>5, <1>6, <1>7, <1>8 DEF ListingInv

\* What the list is after a page has been added to it.
LEMMA ListAfterPage ==
    ASSUME ListingTypeOK, list' = list \o users
    PROVE  /\ list' \in Seq(Users) /\ offset' = ReadUpTo
           /\ \A i \in DOMAIN list' :
                 \/ i \in DOMAIN list /\ list'[i] = list[i]
                 \/ i - offset \in DOMAIN users /\ list'[i] = users[i - offset]
                    /\ offset + (i - offset) = i
           /\ Received' = Received \union InPage
<1>1. list \in Seq(Users) /\ users \in Seq(Users)
  BY DEF ListingTypeOK
<1>2. /\ list' \in Seq(Users) /\ Len(list') = offset + Len(users)
      /\ \A i \in 1..(offset + Len(users)) :
            list'[i] = IF i <= offset THEN list[i] ELSE users[i - offset]
  BY <1>1, ConcatProperties DEF offset
<1>3. /\ offset \in Nat /\ Len(users) \in Nat
      /\ DOMAIN list = 1..offset /\ DOMAIN users = 1..Len(users)
      /\ DOMAIN list' = 1..(offset + Len(users))
  BY <1>2, ListTypes, LenProperties
<1>4. ASSUME NEW i \in DOMAIN list'
      PROVE  \/ i \in DOMAIN list /\ list'[i] = list[i]
             \/ i - offset \in DOMAIN users /\ list'[i] = users[i - offset]
                /\ offset + (i - offset) = i
  <2>1. CASE i <= offset
    BY <2>1, <1>2, <1>3
  <2>2. CASE ~(i <= offset)
    BY <2>2, <1>2, <1>3
  <2>. QED
    BY <2>1, <2>2
<1>5. Received' = Received \union InPage
  <2>1. Received' = {list'[i] : i \in DOMAIN list'}
    BY DEF Received
  <2>2. \A i \in DOMAIN list' : list'[i] \in Received \union InPage
    BY <1>4 DEF Received, InPage
  <2>3. \A i \in DOMAIN list : i \in DOMAIN list' /\ list'[i] = list[i]
    BY <1>2, <1>3
  <2>4. \A i \in DOMAIN users : offset + i \in DOMAIN list' /\ list'[offset + i] = users[i]
    BY <1>2, <1>3
  <2>5. Received \subseteq Received' /\ InPage \subseteq Received'
    BY <2>1, <2>3, <2>4 DEF Received, InPage
  <2>. QED
    BY <2>1, <2>2, <2>5
<1>6. offset' = ReadUpTo
  BY <1>2 DEF offset, ReadUpTo
<1>. QED
  BY <1>2, <1>4, <1>5, <1>6

LEMMA RespondKeepsInv ==
    ASSUME ListingInv, Respond
    PROVE  ListingInv'
<1>1. /\ stage = "counted" /\ stage' = IF hasMore THEN "idle" ELSE "over"
      /\ list' = list \o users /\ users' = <<>>
      /\ UNCHANGED <<table, limit, totalCount, present, unsteady, pushed, pulled, writes, failures>>
  BY DEF Respond, historyVars
<1>2. /\ ListingTypeOK /\ ReadUpTo \in Nat /\ offset <= ReadUpTo /\ offset \in Nat
      /\ \A u : RankIn(u) \in Nat
  BY ListTypes DEF ListingInv
<1>3. /\ list' \in Seq(Users) /\ offset' = ReadUpTo /\ Received' = Received \union InPage
      /\ \A i \in DOMAIN list' :
            \/ i \in DOMAIN list /\ list'[i] = list[i]
            \/ i - offset \in DOMAIN users /\ list'[i] = users[i - offset]
               /\ offset + (i - offset) = i
  BY <1>1, <1>2, ListAfterPage
<1>4. /\ ReadUpTo' = ReadUpTo /\ InPage' = {} /\ DOMAIN users' = {}
      /\ \A u : RankIn(u)' = RankIn(u) /\ \A i : FitsAt(u, i)' = FitsAt(u, i)
  <2>1. ReadUpTo' = offset' + 0
    BY <1>1, EmptyPage DEF ReadUpTo
  <2>2. InPage' = {} /\ DOMAIN users' = {}
    BY <1>1, EmptyPage DEF InPage
  <2>3. \A u : RankIn(u)' = RankIn(u) /\ \A i : FitsAt(u, i)' = FitsAt(u, i)
    BY <1>1 DEF RankIn, FitsAt
  <2>. QED
    BY <1>2, <1>3, <2>1, <2>2, <2>3
<1>5. ListingTypeOK'
  <2>1. users' \in Seq(Users) /\ (Len(users) <= MaxLimit)'
    BY <1>1, EmptyPage, ListingAssumption
  <2>. QED
    BY <1>1, <1>2, <1>3, <2>1 DEF ListingTypeOK, Stages
<1>6. ReadFromFront'
  BY <1>1, <1>3, <1>4 DEF ListingInv, ReadFromFront
<1>7. LastPage'
  BY <1>1, <1>3 DEF ListingInv, LastPage
<1>8. ReadStaysBehind'
  <2>. SUFFICES ASSUME ~pushed, NEW u \in (Received \union InPage) \ unsteady
                PROVE  u \in DOMAIN table /\ RankIn(u) < ReadUpTo
    BY <1>1, <1>3, <1>4 DEF ReadStaysBehind
  <2>. QED
    BY <1>2 DEF ListingInv, ReadStaysBehind
<1>9. ReadOnce'
  <2>. SUFFICES ASSUME ~pushed, NEW i \in DOMAIN list', NEW j \in DOMAIN list',
                       list'[i] = list'[j], list'[i] \notin unsteady
                PROVE  i = j
    BY <1>1, <1>4 DEF ReadOnce
  <2>1. ASSUME NEW k \in DOMAIN list, NEW l \in DOMAIN users, list[k] = users[l], list[k] \notin unsteady
        PROVE  FALSE
    <3>1. users[l] \in Received /\ users[l] \in InPage \ unsteady
      BY <2>1 DEF Received, InPage
    <3>. QED
      BY <3>1 DEF ListingInv, ReadStaysBehind
  <2>2. \A k, l \in DOMAIN list : list[k] = list[l] /\ list[k] \notin unsteady => k = l
    BY DEF ListingInv, ReadOnce
  <2>3. \A k, l \in DOMAIN users : users[k] = users[l] /\ users[k] \notin unsteady => k = l
    BY DEF ListingInv, ReadOnce
  <2>4. CASE i \in DOMAIN list /\ list'[i] = list[i]
    BY <1>3, <2>1, <2>2, <2>4
  <2>5. CASE i - offset \in DOMAIN users /\ list'[i] = users[i - offset] /\ offset + (i - offset) = i
    <3>1. CASE j \in DOMAIN list /\ list'[j] = list[j]
      BY <2>1, <2>5, <3>1
    <3>2. CASE j - offset \in DOMAIN users /\ list'[j] = users[j - offset] /\ offset + (j - offset) = j
      <4>1. i - offset = j - offset
        BY <2>3, <2>5, <3>2
      <4>. QED
        BY <4>1, <2>5, <3>2
    <3>. QED
      BY <1>3, <3>1, <3>2
  <2>. QED
    BY <1>3, <2>4, <2>5
<1>10. ListSorted'
  <2>. SUFFICES ASSUME writes = 0
                PROVE  /\ \A i \in DOMAIN list' : FitsAt(list'[i], i)
                       /\ ~hasMore => Cardinality(DOMAIN table) <= ReadUpTo
    BY <1>1, <1>3, <1>4 DEF ListSorted
  <2>1. /\ \A i \in DOMAIN list : FitsAt(list[i], i)
        /\ \A i \in DOMAIN users : FitsAt(users[i], offset + i)
        /\ totalCount = Cardinality(DOMAIN table)
    BY <1>1 DEF ListingInv, ListSorted
  <2>2. \A i \in DOMAIN list' : FitsAt(list'[i], i)
    BY <1>3, <2>1
  <2>3. totalCount \in Nat
    BY <1>2 DEF ListingTypeOK
  <2>4. ~hasMore => totalCount <= ReadUpTo
    BY <2>3, <1>2 DEF hasMore, ReadUpTo
  <2>. QED
    BY <2>1, <2>2, <2>4
<1>11. /\ PageInHand'
       /\ (Tied(table) \subseteq unsteady)' /\ (present \ unsteady \subseteq DOMAIN table)'
  BY <1>1 DEF ListingInv, PageInHand
<1>. QED
  BY <1>5, <1>6, <1>7, <1>8, <1>9, <1>10, <1>11 DEF ListingInv

\* A failed request takes the page back; the offset stays.
LEMMA FailKeepsInv ==
    ASSUME ListingInv, Fail
    PROVE  ListingInv'
<1>1. /\ stage' = "idle" /\ users' = <<>> /\ failures' = failures + 1 /\ failures < MaxFailures
      /\ UNCHANGED <<table, limit, totalCount, list, present, unsteady, pushed, pulled, writes>>
  BY DEF Fail, historyVars
<1>2. ListingTypeOK /\ offset \in Nat /\ ReadUpTo \in Nat /\ offset <= ReadUpTo
  BY ListTypes DEF ListingInv
<1>3. /\ offset' = offset /\ ReadUpTo' = offset /\ Received' = Received
      /\ InPage' = {} /\ DOMAIN users' = {}
      /\ \A u : RankIn(u)' = RankIn(u) /\ \A i : FitsAt(u, i)' = FitsAt(u, i)
  <2>1. offset' = offset /\ ReadUpTo' = offset' + 0
    BY <1>1, EmptyPage DEF ReadUpTo, offset
  <2>2. InPage' = {} /\ DOMAIN users' = {} /\ Received' = Received
    BY <1>1, EmptyPage DEF InPage, Received
  <2>3. \A u : RankIn(u)' = RankIn(u) /\ \A i : FitsAt(u, i)' = FitsAt(u, i)
    BY <1>1 DEF RankIn, FitsAt
  <2>. QED
    BY <1>2, <2>1, <2>2, <2>3
<1>4. ListingTypeOK'
  <2>1. users' \in Seq(Users) /\ (Len(users) <= MaxLimit)'
    BY <1>1, EmptyPage, ListingAssumption
  <2>2. failures' \in 0..MaxFailures /\ stage' \in Stages
    BY <1>1, <1>2, ListingAssumption DEF ListingTypeOK, Stages
  <2>. QED
    BY <1>1, <1>2, <2>1, <2>2 DEF ListingTypeOK
<1>5. ReadFromFront'
  BY <1>1, <1>3 DEF ListingInv, ReadFromFront
<1>6. ReadStaysBehind' /\ ReadOnce'
  BY <1>1, <1>3 DEF ListingInv, ReadStaysBehind, ReadOnce
<1>7. ListSorted'
  BY <1>1, <1>3 DEF ListingInv, ListSorted
<1>8. /\ PageInHand' /\ LastPage'
      /\ (Tied(table) \subseteq unsteady)' /\ (present \ unsteady \subseteq DOMAIN table)'
  BY <1>1 DEF ListingInv, PageInHand, LastPage
<1>. QED
  BY <1>4, <1>5, <1>6, <1>7, <1>8 DEF ListingInv

-----------------------------------------------------------------------------
(* The writes *)

With(T, u, k) == [v \in DOMAIN T \union {u} |-> IF v = u THEN k ELSE T[v]]
Without(T, u) == [v \in DOMAIN T \ {u} |-> T[v]]

\* A user added moves those with a larger key, by one.
LEMMA RankWith ==
    ASSUME NEW T \in Tables, NEW u \in Users, u \notin DOMAIN T, NEW k \in Keys, NEW l \in Int
    PROVE  /\ With(T, u, k) \in Tables
           /\ Rank(With(T, u, k), l) = IF k < l THEN Rank(T, l) + 1 ELSE Rank(T, l)
<1>. DEFINE W == With(T, u, k)
            B == {v \in DOMAIN T : T[v] < l}
<1>1. W \in Tables
  <2>1. DOMAIN T \union {u} \in SUBSET Users /\ T \in [DOMAIN T -> Keys]
    BY DEF Tables
  <2>2. W \in [DOMAIN T \union {u} -> Keys]
    BY <2>1 DEF With
  <2>. QED
    BY <2>1, <2>2 DEF Tables
<1>2. IsFiniteSet(B) /\ u \notin B
  BY RankType
<1>3. /\ DOMAIN W = DOMAIN T \union {u} /\ W[u] = k
      /\ \A v \in DOMAIN T : W[v] = T[v]
  BY DEF With
<1>. HIDE DEF W
<1>4. CASE k < l
  <2>1. {v \in DOMAIN W : W[v] < l} = B \union {u}
    BY <1>3, <1>4
  <2>2. Cardinality(B \union {u}) = Cardinality(B) + 1
    BY <1>2, FS_AddElement
  <2>. QED
    BY <1>1, <1>4, <2>1, <2>2 DEF Rank, W
<1>5. CASE ~(k < l)
  <2>1. {v \in DOMAIN W : W[v] < l} = B
    BY <1>3, <1>5
  <2>. QED
    BY <1>1, <1>5, <2>1 DEF Rank, W
<1>. QED
  BY <1>4, <1>5

LEMMA RankWithout ==
    ASSUME NEW T \in Tables, NEW u \in DOMAIN T, NEW l \in Int
    PROVE  /\ Without(T, u) \in Tables
           /\ Rank(Without(T, u), l) = IF T[u] < l THEN Rank(T, l) - 1 ELSE Rank(T, l)
<1>. DEFINE W == Without(T, u)
            B == {v \in DOMAIN T : T[v] < l}
<1>1. W \in Tables
  <2>1. DOMAIN T \ {u} \in SUBSET Users /\ T \in [DOMAIN T -> Keys]
    BY DEF Tables
  <2>2. W \in [DOMAIN T \ {u} -> Keys]
    BY <2>1 DEF Without
  <2>. QED
    BY <2>1, <2>2 DEF Tables
<1>2. IsFiniteSet(B)
  BY RankType
<1>3. /\ DOMAIN W = DOMAIN T \ {u}
      /\ \A v \in DOMAIN T \ {u} : W[v] = T[v]
  BY DEF Without
<1>. HIDE DEF W
<1>4. {v \in DOMAIN W : W[v] < l} = B \ {u}
  BY <1>3
<1>5. Cardinality(B \ {u}) = IF u \in B THEN Cardinality(B) - 1 ELSE Cardinality(B)
  BY <1>2, FS_RemoveElement
<1>. QED
  BY <1>1, <1>4, <1>5 DEF Rank, W

\* A write keeps the invariant if it brings no steady user back across the end of
\* what was read unless it pulls, and none forward across it unless it pushes.
LEMMA WriteKeepsInv ==
    ASSUME ListingInv, Write,
           table' \in Tables, unsteady' \in SUBSET Users, pushed' \in BOOLEAN, pulled' \in BOOLEAN,
           unsteady \subseteq unsteady', Tied(table') \subseteq unsteady',
           pushed => pushed', pulled => pulled',
           \A u \in DOMAIN table \ unsteady' : u \in DOMAIN table' /\ table'[u] = table[u],
           \A u \in DOMAIN table \ unsteady' :
              ~pulled' /\ Rank(table', table[u]) < ReadUpTo => RankIn(u) <= Rank(table', table[u]),
           \A u \in DOMAIN table \ unsteady' :
              ~pushed' /\ RankIn(u) < ReadUpTo => Rank(table', table[u]) <= RankIn(u)
    PROVE  ListingInv'
<1>1. /\ writes < MaxWrites /\ writes' = writes + 1
      /\ UNCHANGED <<stage, limit, users, totalCount, list, present, failures>>
  BY DEF Write, requestVars
<1>2. /\ ListingTypeOK /\ offset \in Nat /\ ReadUpTo \in Nat /\ offset <= ReadUpTo
      /\ \A u : RankIn(u) \in Nat
      /\ present \ unsteady \subseteq DOMAIN table
  BY ListTypes DEF ListingInv
<1>3. \A k : Rank(table', k) \in Nat
  BY RankType
<1>4. offset' = offset /\ ReadUpTo' = ReadUpTo /\ Received' = Received /\ InPage' = InPage
  BY <1>1 DEF offset, ReadUpTo, Received, InPage
<1>5. \A u \in DOMAIN table \ unsteady' : RankIn(u)' = Rank(table', table[u])
  BY DEF RankIn
<1>6. ListingTypeOK'
  <2>1. writes' \in 0..MaxWrites
    BY <1>1, <1>2, ListingAssumption DEF ListingTypeOK
  <2>. QED
    BY <1>1, <1>2, <2>1 DEF ListingTypeOK
<1>7. (present \ unsteady \subseteq DOMAIN table)'
  BY <1>1, <1>2
<1>8. ReadFromFront'
  <2>. SUFFICES ASSUME ~pulled', NEW u \in present \ unsteady'
                PROVE  /\ Rank(table', table[u]) < offset => u \in Received
                       /\ Rank(table', table[u]) < ReadUpTo => u \in Received \union InPage
    BY <1>1, <1>2, <1>4, <1>5, <1>7 DEF ReadFromFront
  <2>1. /\ u \in DOMAIN table
        /\ RankIn(u) < offset => u \in Received
        /\ RankIn(u) < ReadUpTo => u \in Received \union InPage
    BY <1>2 DEF ListingInv, ReadFromFront
  <2>2. Rank(table', table[u]) < ReadUpTo => RankIn(u) <= Rank(table', table[u])
    BY <2>1
  <2>. QED
    BY <1>2, <1>3, <2>1, <2>2
<1>9. ReadStaysBehind'
  <2>. SUFFICES ASSUME ~pushed'
                PROVE  /\ \A u \in Received \ unsteady' :
                             u \in DOMAIN table /\ Rank(table', table[u]) < offset
                       /\ \A u \in InPage \ unsteady' :
                             u \in DOMAIN table /\ Rank(table', table[u]) < ReadUpTo /\ u \notin Received
    BY <1>4, <1>5 DEF ReadStaysBehind
  <2>1. /\ \A u \in Received \ unsteady : u \in DOMAIN table /\ RankIn(u) < offset
        /\ \A u \in InPage \ unsteady :
              u \in DOMAIN table /\ RankIn(u) < ReadUpTo /\ u \notin Received
    BY DEF ListingInv, ReadStaysBehind
  <2>2. ASSUME NEW u \in DOMAIN table \ unsteady', RankIn(u) < ReadUpTo
        PROVE  Rank(table', table[u]) <= RankIn(u)
    BY <2>2
  <2>3. ASSUME NEW u \in Received \ unsteady'
        PROVE  u \in DOMAIN table /\ Rank(table', table[u]) < offset
    <3>1. u \in DOMAIN table /\ RankIn(u) < offset
      BY <2>1
    <3>. QED
      BY <3>1, <2>2, <1>2, <1>3
  <2>4. ASSUME NEW u \in InPage \ unsteady'
        PROVE  u \in DOMAIN table /\ Rank(table', table[u]) < ReadUpTo /\ u \notin Received
    <3>1. u \in DOMAIN table /\ RankIn(u) < ReadUpTo /\ u \notin Received
      BY <2>1
    <3>. QED
      BY <3>1, <2>2, <1>2, <1>3
  <2>. QED
    BY <2>3, <2>4
<1>10. ReadOnce'
  BY <1>1 DEF ListingInv, ReadOnce
<1>11. LastPage'
  BY <1>1, <1>4 DEF ListingInv, LastPage, hasMore
<1>12. ListSorted'
  BY <1>1, <1>2 DEF ListSorted, ListingTypeOK
<1>13. PageInHand' /\ (Tied(table) \subseteq unsteady)'
  BY <1>1 DEF ListingInv, PageInHand
<1>. QED
  BY <1>6, <1>7, <1>8, <1>9, <1>10, <1>11, <1>12, <1>13 DEF ListingInv

LEMMA AddUserKeepsInv ==
    ASSUME ListingInv, NEW w \in Users, NEW k \in Keys, AddUser(w, k)
    PROVE  ListingInv'
<1>1. /\ Write /\ w \notin DOMAIN table /\ table' = With(table, w, k)
      /\ unsteady' = unsteady \union Tied(table') /\ pulled' = pulled
      /\ pushed' = (pushed \/ Rank(table, k) < ReadUpTo)
  BY DEF AddUser, With
<1>2. /\ ListingTypeOK /\ table \in Tables /\ k \in Int /\ ReadUpTo \in Nat
      /\ \A u : RankIn(u) \in Nat
  BY ListTypes, ListingAssumption DEF ListingInv, ListingTypeOK
<1>3. /\ \A u \in DOMAIN table : table[u] \in Int
      /\ \A l \in Int : Rank(table, l) \in Nat
  BY <1>2, TableType, RankType
<1>4. /\ table' \in Tables
      /\ \A l \in Int : Rank(table', l) = IF k < l THEN Rank(table, l) + 1 ELSE Rank(table, l)
  BY <1>1, <1>2, RankWith
<1>5. unsteady' \in SUBSET Users /\ pushed' \in BOOLEAN /\ pulled' \in BOOLEAN
  <2>1. Tied(table') \subseteq Users
    BY <1>4, TableType DEF Tied
  <2>. QED
    BY <1>1, <1>2, <2>1 DEF ListingTypeOK
<1>6. \A u \in DOMAIN table : u \in DOMAIN table' /\ table'[u] = table[u]
  BY <1>1 DEF With
<1>7. \A u \in DOMAIN table : RankIn(u) <= Rank(table', table[u])
  BY <1>3, <1>4 DEF RankIn
<1>8. ASSUME NEW u \in DOMAIN table, ~pushed', RankIn(u) < ReadUpTo
      PROVE  Rank(table', table[u]) <= RankIn(u)
  <2>1. ~(Rank(table, k) < ReadUpTo)
    BY <1>1, <1>8
  <2>2. ~(k < table[u])
    BY <2>1, <1>2, <1>3, <1>8, RankIncreases DEF RankIn
  <2>. QED
    BY <2>2, <1>3, <1>4 DEF RankIn
<1>. QED
  BY <1>1, <1>4, <1>5, <1>6, <1>7, <1>8, WriteKeepsInv

\* Among the steady users, those behind one that leaves come forward by one.
LEMMA RankAfterLeaving ==
    ASSUME ListingTypeOK, NEW w \in DOMAIN table, NEW u \in DOMAIN table,
           ~(Rank(table, table[w]) < ReadUpTo)
    PROVE  \/ RankIn(u) <= Rank(Without(table, w), table[u])
           \/ ReadUpTo <= Rank(Without(table, w), table[u])
<1>1. /\ table \in Tables /\ ReadUpTo \in Nat /\ RankIn(u) \in Nat /\ Rank(table, table[w]) \in Nat
      /\ table[u] \in Int /\ table[w] \in Int
  BY ListTypes, TableType, RankType DEF ListingTypeOK
<1>2. Rank(Without(table, w), table[u]) = IF table[w] < table[u] THEN RankIn(u) - 1 ELSE RankIn(u)
  BY <1>1, RankWithout DEF RankIn
<1>3. CASE table[w] < table[u]
  <2>1. UpTo(table, table[w]) <= RankIn(u) /\ Rank(table, table[w]) + 1 <= UpTo(table, table[w])
    BY <1>1, <1>3, RankIncreases, RankOfUser DEF RankIn
  <2>2. UpTo(table, table[w]) \in Nat
    BY <1>1, RankType
  <2>. QED
    BY <1>1, <1>2, <1>3, <2>1, <2>2
<1>4. CASE ~(table[w] < table[u])
  BY <1>1, <1>2, <1>4
<1>. QED
  BY <1>3, <1>4

LEMMA RemoveUserKeepsInv ==
    ASSUME ListingInv, NEW w \in Users, RemoveUser(w)
    PROVE  ListingInv'
<1>1. /\ Write /\ w \in DOMAIN table /\ table' = Without(table, w)
      /\ unsteady' = unsteady \union {w} /\ pushed' = pushed
      /\ pulled' = (pulled \/ Rank(table, table[w]) < ReadUpTo)
  BY DEF RemoveUser, Without
<1>2. /\ ListingTypeOK /\ table \in Tables /\ ReadUpTo \in Nat
      /\ \A u : RankIn(u) \in Nat
  BY ListTypes DEF ListingInv, ListingTypeOK
<1>3. /\ \A u \in DOMAIN table : table[u] \in Int
      /\ \A l \in Int : Rank(table, l) \in Nat
  BY <1>2, TableType, RankType
<1>4. /\ table' \in Tables
      /\ \A l \in Int : Rank(table', l) = IF table[w] < l THEN Rank(table, l) - 1 ELSE Rank(table, l)
  <2>1. 0 \in Int
    OBVIOUS
  <2>. QED
    BY <1>1, <1>2, <2>1, RankWithout
<1>5. unsteady' \in SUBSET Users /\ pushed' \in BOOLEAN /\ pulled' \in BOOLEAN
  BY <1>1, <1>2 DEF ListingTypeOK
<1>6. /\ DOMAIN table' = DOMAIN table \ {w}
      /\ \A u \in DOMAIN table \ {w} : table'[u] = table[u]
  BY <1>1 DEF Without
<1>7. Tied(table') \subseteq unsteady'
  <2>1. Tied(table') \subseteq Tied(table)
    BY <1>6 DEF Tied
  <2>. QED
    BY <1>1, <2>1 DEF ListingInv
<1>8. ASSUME NEW u \in DOMAIN table, ~pulled', Rank(table', table[u]) < ReadUpTo
      PROVE  RankIn(u) <= Rank(table', table[u])
  <2>1. Rank(table', table[u]) \in Nat
    BY <1>3, <1>4, RankType
  <2>2. ~(Rank(table, table[w]) < ReadUpTo)
    BY <1>1, <1>8
  <2>3. RankIn(u) <= Rank(table', table[u]) \/ ReadUpTo <= Rank(table', table[u])
    BY <1>1, <1>2, <2>2, RankAfterLeaving
  <2>. QED
    BY <1>2, <1>8, <2>1, <2>3
<1>9. \A u \in DOMAIN table : Rank(table', table[u]) <= RankIn(u)
  BY <1>3, <1>4 DEF RankIn
<1>10. \A u \in DOMAIN table \ unsteady' : u \in DOMAIN table' /\ table'[u] = table[u]
  BY <1>1, <1>6
<1>. QED
  BY <1>1, <1>4, <1>5, <1>7, <1>8, <1>9, <1>10, WriteKeepsInv

\* A user that moves leaves its place and is added at another.
LEMMA MoveUserKeepsInv ==
    ASSUME ListingInv, NEW w \in Users, NEW k \in Keys, MoveUser(w, k)
    PROVE  ListingInv'
<1>. DEFINE W == Without(table, w)
<1>1. /\ Write /\ w \in DOMAIN table /\ table' = [table EXCEPT ![w] = k]
      /\ unsteady' = unsteady \union {w} \union Tied(table')
      /\ pushed' = (pushed \/ Rank(table', k) < ReadUpTo)
      /\ pulled' = (pulled \/ Rank(table, table[w]) < ReadUpTo)
  BY DEF MoveUser
<1>2. /\ ListingTypeOK /\ table \in Tables /\ k \in Int /\ ReadUpTo \in Nat
      /\ \A u : RankIn(u) \in Nat
  BY ListTypes, ListingAssumption DEF ListingInv, ListingTypeOK
<1>3. /\ \A u \in DOMAIN table : table[u] \in Int
      /\ \A l \in Int : Rank(table, l) \in Nat
  BY <1>2, TableType, RankType
<1>4. /\ W \in Tables /\ w \notin DOMAIN W
      /\ \A l \in Int : Rank(W, l) = IF table[w] < l THEN Rank(table, l) - 1 ELSE Rank(table, l)
  <2>1. W \in Tables
    BY <1>1, <1>2, <1>3, RankWithout
  <2>2. \A l \in Int : Rank(W, l) = IF table[w] < l THEN Rank(table, l) - 1 ELSE Rank(table, l)
    BY <1>1, <1>2, RankWithout
  <2>3. w \notin DOMAIN W
    BY DEF Without
  <2>. QED
    BY <2>1, <2>2, <2>3
<1>5. table' = With(W, w, k)
  BY <1>1 DEF With, Without
<1>. HIDE DEF W
<1>6. /\ table' \in Tables
      /\ \A l \in Int : Rank(table', l) = IF k < l THEN Rank(W, l) + 1 ELSE Rank(W, l)
  BY <1>2, <1>4, <1>5, RankWith
<1>7. \A l \in Int : Rank(W, l) \in Nat /\ Rank(table', l) \in Nat /\ Rank(W, l) <= Rank(table, l)
  <2>1. \A l \in Int : Rank(W, l) \in Nat /\ Rank(table', l) \in Nat
    BY <1>4, <1>6, RankType
  <2>2. \A l \in Int : Rank(W, l) <= Rank(table, l)
    BY <1>3, <1>4
  <2>. QED
    BY <2>1, <2>2
<1>8. unsteady' \in SUBSET Users /\ pushed' \in BOOLEAN /\ pulled' \in BOOLEAN
  <2>1. Tied(table') \subseteq Users
    BY <1>6, TableType DEF Tied
  <2>. QED
    BY <1>1, <1>2, <2>1 DEF ListingTypeOK
<1>9. \A u \in DOMAIN table \ unsteady' : u \in DOMAIN table' /\ table'[u] = table[u]
  BY <1>1
<1>10. ASSUME NEW u \in DOMAIN table, ~pulled', Rank(table', table[u]) < ReadUpTo
       PROVE  RankIn(u) <= Rank(table', table[u])
  <2>1. ~(Rank(table, table[w]) < ReadUpTo)
    BY <1>1, <1>10
  <2>2. RankIn(u) <= Rank(W, table[u]) \/ ReadUpTo <= Rank(W, table[u])
    BY <1>1, <1>2, <2>1, RankAfterLeaving DEF W
  <2>3. Rank(W, table[u]) <= Rank(table', table[u])
    BY <1>3, <1>6, <1>7
  <2>. QED
    BY <1>2, <1>3, <1>7, <1>10, <2>2, <2>3
<1>11. ASSUME NEW u \in DOMAIN table, ~pushed', RankIn(u) < ReadUpTo
       PROVE  Rank(table', table[u]) <= RankIn(u)
  <2>1. ~(Rank(W, k) < ReadUpTo)
    <3>1. Rank(table', k) = Rank(W, k)
      BY <1>2, <1>6
    <3>. QED
      BY <1>1, <1>11, <3>1
  <2>2. Rank(W, table[u]) <= RankIn(u)
    BY <1>3, <1>7 DEF RankIn
  <2>3. ~(k < table[u])
    BY <1>2, <1>3, <1>4, <1>7, <1>11, <2>1, <2>2, RankIncreases
  <2>. QED
    BY <1>3, <1>6, <2>2, <2>3
<1>. QED
  BY <1>1, <1>6, <1>8, <1>9, <1>10, <1>11, WriteKeepsInv

-----------------------------------------------------------------------------

LEMMA ListingStepInv == ListingInv /\ [Next]_vars => ListingInv'
<1>1. ASSUME ListingInv, UNCHANGED vars
      PROVE  ListingInv'
  <2>1. UNCHANGED <<table, stage, limit, users, totalCount, list, present, unsteady, pushed,
                    pulled, writes, failures>>
    BY <1>1 DEF vars, requestVars, historyVars
  <2>2. /\ offset' = offset /\ ReadUpTo' = ReadUpTo /\ Received' = Received /\ InPage' = InPage
        /\ \A u : RankIn(u)' = RankIn(u) /\ \A i : FitsAt(u, i)' = FitsAt(u, i)
    BY <2>1 DEF offset, ReadUpTo, Received, InPage, RankIn, FitsAt
  <2>3. ListingTypeOK' /\ PageInHand' /\ LastPage' /\ ListSorted'
    BY <1>1, <2>1, <2>2 DEF ListingInv, ListingTypeOK, PageInHand, LastPage, hasMore, ListSorted
  <2>4. ReadFromFront' /\ ReadStaysBehind' /\ ReadOnce'
    BY <1>1, <2>1, <2>2 DEF ListingInv, ReadFromFront, ReadStaysBehind, ReadOnce
  <2>. QED
    BY <1>1, <2>1, <2>3, <2>4 DEF ListingInv
<1>2. ASSUME ListingInv, Next
      PROVE  ListingInv'
  BY <1>2, RequestKeepsInv, SelectPageKeepsInv, CountUsersKeepsInv, RespondKeepsInv,
     FailKeepsInv, AddUserKeepsInv, MoveUserKeepsInv, RemoveUserKeepsInv DEF Next
<1>. QED
  BY <1>1, <1>2

\* The invariant holds in every state of every listing.
THEOREM ListingInvariant == Spec => []ListingInv
BY ListingInitInv, ListingStepInv, PTL DEF Spec

\* The state has its type, and no page is longer than MaxLimit (postgres.go:128).
THEOREM ListingType == Spec => []ListingTypeOK
<1>1. ListingInv => ListingTypeOK
  BY DEF ListingInv
<1>. QED
  BY <1>1, ListingInvariant, PTL

\* Reading the page and the total in two statements (postgres.go:188, 240) loses
\* no user that stays in its place and has a sort key of its own, however many
\* pages, writers and failures there are, unless one in front leaves its place.
THEOREM ListingNothingMissed == Spec => []NothingMissed
<1>1. ListingInv => NothingMissed
  BY DEF ListingInv, LastPage, NothingMissed
<1>. QED
  BY <1>1, ListingInvariant, PTL

\* Paging by offset (postgres.go:187) repeats such a user only when another is
\* pushed in before it.
THEOREM ListingNothingRepeated == Spec => []NothingRepeated
<1>1. ListingInv => NothingRepeated
  BY DEF ListingInv, ReadOnce, NothingRepeated, ReceivedTwice
<1>. QED
  BY <1>1, ListingInvariant, PTL

\* The users of a key fill as many places of the list as there are users, so one
\* of them that is missed leaves two places to another.
LEMMA MissedForRepeated == ListingInv => TiesTradePlaces
<1>. SUFFICES ASSUME ListingInv, stage = "over", writes = 0, NEW u \in DOMAIN table \ Received
              PROVE  \E v \in ReceivedTwice : table[v] = table[u]
  BY DEF TiesTradePlaces
<1>. DEFINE k == table[u]
            C == {v \in DOMAIN table : table[v] = k}
            Places == (Rank(table, k) + 1)..UpTo(table, k)
            f == [i \in Places |-> list[i]]
<1>1. /\ ListingTypeOK /\ table \in Tables /\ k \in Int /\ \A v \in DOMAIN table : table[v] \in Int
      /\ offset \in Nat /\ DOMAIN list = 1..offset
      /\ \A i \in DOMAIN list : FitsAt(list[i], i)
      /\ UpTo(table, k) <= offset
  <2>1. ListingTypeOK /\ table \in Tables
    BY DEF ListingInv, ListingTypeOK
  <2>2. /\ offset \in Nat /\ DOMAIN list = 1..offset
        /\ k \in Int /\ \A v \in DOMAIN table : table[v] \in Int
    BY <2>1, ListTypes, TableType
  <2>3. (\A i \in DOMAIN list : FitsAt(list[i], i)) /\ Cardinality(DOMAIN table) <= offset
    BY DEF ListingInv, ListSorted
  <2>4. /\ UpTo(table, k) <= Cardinality(DOMAIN table) /\ UpTo(table, k) \in Nat
        /\ Cardinality(DOMAIN table) \in Nat
    BY <2>1, RankType, TableType
  <2>. QED
    BY <2>1, <2>2, <2>3, <2>4
<1>2. /\ Rank(table, k) \in Nat /\ UpTo(table, k) \in Nat
      /\ \A l : Rank(table, l) \in Nat /\ UpTo(table, l) \in Nat
  BY <1>1, RankType
<1>3. ASSUME NEW i \in Places
      PROVE  i \in DOMAIN list /\ list[i] \in C \ {u}
  <2>1. i \in DOMAIN list /\ i \in Nat /\ Rank(table, k) < i /\ i <= UpTo(table, k)
    BY <1>1, <1>2
  <2>2. /\ list[i] \in DOMAIN table
        /\ Rank(table, table[list[i]]) < i /\ i <= UpTo(table, table[list[i]])
    BY <1>1, <2>1 DEF FitsAt, RankIn
  <2>3. ~(table[list[i]] < k)
    BY <1>1, <1>2, <2>1, <2>2, RankIncreases
  <2>4. ~(k < table[list[i]])
    BY <1>1, <1>2, <2>1, <2>2, RankIncreases
  <2>5. list[i] # u
    BY <2>1 DEF Received
  <2>. QED
    BY <1>1, <2>1, <2>2, <2>3, <2>4, <2>5
<1>4. IsFiniteSet(C) /\ UpTo(table, k) = Rank(table, k) + Cardinality(C)
  BY <1>1, KeyShared
<1>5. /\ IsFiniteSet(C \ {u}) /\ Cardinality(C \ {u}) = Cardinality(C) - 1
      /\ Cardinality(C) \in Nat /\ Cardinality(C) # 0
  BY <1>4, FS_RemoveElement, FS_CardinalityType, FS_EmptySet, u \in C
<1>6. IsFiniteSet(Places) /\ Cardinality(Places) = Cardinality(C)
  <2>1. /\ Rank(table, k) + 1 \in Int /\ UpTo(table, k) \in Int
        /\ ~(Rank(table, k) + 1 > UpTo(table, k))
        /\ UpTo(table, k) - (Rank(table, k) + 1) + 1 = Cardinality(C)
    BY <1>2, <1>4, <1>5
  <2>. QED
    BY <2>1, FS_Interval
<1>7. f \in [Places -> C \ {u}]
  BY <1>3
<1>8. Cardinality(C \ {u}) < Cardinality(Places)
  BY <1>5, <1>6
<1>9. PICK i \in Places, j \in Places : i # j /\ f[i] = f[j]
  <2>. HIDE DEF f, Places, C
  <2>. QED
    BY <1>5, <1>6, <1>7, <1>8, FS_PigeonHole
<1>10. list[i] = list[j] /\ list[i] \in ReceivedTwice /\ list[i] \in C
  BY <1>3, <1>9 DEF ReceivedTwice, Received
<1>. QED
  BY <1>10

\* A listing of a table nobody writes to misses a user only in favour of one with
\* the same key (postgres.go:181), whatever orders the statements return.
THEOREM ListingTiesTradePlaces == Spec => []TiesTradePlaces
BY MissedForRepeated, ListingInvariant, PTL

=============================================================================
