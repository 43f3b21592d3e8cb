---------------------------- MODULE RouterProofs ----------------------------
(***************************************************************************)
(* The router's maps are well formed and its label index agrees with its   *)
(* table of sources, for any number of sources, labels and operations.     *)
(***************************************************************************)
EXTENDS Router, SequenceTheorems, WellFoundedInduction, TLAPS

\* What an assignment to a key of a map does.
LEMMA PutProperties ==
    ASSUME NEW m, NEW k, NEW v
    PROVE  /\ DOMAIN Put(m, k, v) = DOMAIN m \union {k}
           /\ Put(m, k, v)[k] = v
           /\ \A x \in DOMAIN m : x # k => Put(m, k, v)[x] = m[x]
  BY DEF Put

\* What deleting a key of a map does.
LEMMA DeleteProperties ==
    ASSUME NEW m, NEW k
    PROVE  /\ DOMAIN Delete(m, k) = DOMAIN m \ {k}
           /\ \A x \in DOMAIN m \ {k} : Delete(m, k)[x] = m[x]
  BY DEF Delete, Restrict

\* What it takes for s with e at its end, or without its element k, to be a list
\* without repetitions of the elements expected.
Extends(S, s, e) ==
    /\ Append(s, e) \in Seq(S)
    /\ Append(s, e) # <<>>
    /\ IsInjective(Append(s, e))
    /\ \A x : (\E i \in DOMAIN Append(s, e) : Append(s, e)[i] = x)
                <=> (x = e \/ \E i \in DOMAIN s : s[i] = x)

CutsOut(S, s, k) ==
    /\ RemoveAt(s, k) \in Seq(S)
    /\ IsInjective(RemoveAt(s, k))
    /\ \A x : (\E i \in DOMAIN RemoveAt(s, k) : RemoveAt(s, k)[i] = x)
                <=> (x # s[k] /\ \E i \in DOMAIN s : s[i] = x)

\* Appending a new element to a list without repetitions.
LEMMA AppendNew ==
    ASSUME NEW S, NEW s \in Seq(S), IsInjective(s), NEW e \in S,
           \A i \in DOMAIN s : s[i] # e
    PROVE  Extends(S, s, e)
<1> DEFINE t == Append(s, e)
<1>1. /\ Len(s) \in Nat
      /\ DOMAIN s = 1..Len(s)
  OBVIOUS
<1>2. /\ t \in Seq(S)
      /\ Len(t) = Len(s) + 1
      /\ DOMAIN t = 1..(Len(s) + 1)
      /\ \A i \in 1..Len(s) : t[i] = s[i]
      /\ t[Len(s) + 1] = e
  OBVIOUS
<1>3. t # <<>>
  BY <1>1, <1>2
<1>4. IsInjective(t)
  <2> SUFFICES ASSUME NEW a \in DOMAIN t, NEW b \in DOMAIN t, t[a] = t[b]
               PROVE  a = b
    BY DEF IsInjective
  <2> HIDE DEF t
  <2>1. CASE a \in 1..Len(s) /\ b \in 1..Len(s)
    BY <1>1, <1>2, <2>1 DEF IsInjective
  <2>2. CASE a = Len(s) + 1 \/ b = Len(s) + 1
    BY <1>1, <1>2, <2>2
  <2> QED BY <1>1, <1>2, <2>1, <2>2
<1>5. ASSUME NEW x
      PROVE  (\E i \in DOMAIN t : t[i] = x)
               <=> (x = e \/ \E i \in DOMAIN s : s[i] = x)
  <2> HIDE DEF t
  <2> QED BY <1>1, <1>2
<1> QED BY <1>2, <1>3, <1>4, <1>5 DEF Extends

\* Cutting one element out of a list without repetitions.
LEMMA RemoveAtProperties ==
    ASSUME NEW S, NEW s \in Seq(S), IsInjective(s), NEW k \in DOMAIN s
    PROVE  CutsOut(S, s, k)
<1> DEFINE r == RemoveAt(s, k)
<1>1. /\ Len(s) \in Nat
      /\ DOMAIN s = 1..Len(s)
      /\ k \in 1..Len(s)
      /\ \A i \in 1..Len(s) : s[i] \in S
  OBVIOUS
<1>2. /\ r \in Seq(S)
      /\ Len(r) = Len(s) - 1
      /\ DOMAIN r = 1..(Len(s) - 1)
      /\ \A i \in 1..(Len(s) - 1) : r[i] = IF i < k THEN s[i] ELSE s[i + 1]
  <2> DEFINE a == SubSeq(s, 1, k - 1)
             b == SubSeq(s, k + 1, Len(s))
  <2>1. /\ a \in Seq(S) /\ Len(a) = k - 1
        /\ \A i \in 1..(k - 1) : a[i] = s[i]
    BY <1>1, SubSeqProperties
  <2>2. /\ b \in Seq(S) /\ Len(b) = Len(s) - k
        /\ \A i \in 1..(Len(s) - k) : b[i] = s[k + i]
    <3>1. /\ SubSeq(s, k + 1, Len(s)) \in Seq(S)
          /\ Len(SubSeq(s, k + 1, Len(s))) =
                IF k + 1 <= Len(s) THEN Len(s) - (k + 1) + 1 ELSE 0
          /\ \A i \in 1..(Len(s) - (k + 1) + 1) :
                SubSeq(s, k + 1, Len(s))[i] = s[(k + 1) + i - 1]
      BY <1>1, SubSeqProperties
    <3>2. Len(s) - (k + 1) + 1 = Len(s) - k
      BY <1>1
    <3>3. ASSUME NEW i \in 1..(Len(s) - k) PROVE b[i] = s[k + i]
      <4>1. (k + 1) + i - 1 = k + i
        BY <1>1
      <4> QED BY <3>1, <3>2, <4>1
    <3>4. Len(b) = Len(s) - k
      BY <1>1, <3>1
    <3> QED BY <3>1, <3>3, <3>4
  <2>3. r = a \o b
    BY DEF RemoveAt
  <2> HIDE DEF a, b, r
  <2>4. /\ r \in Seq(S)
        /\ Len(r) = Len(a) + Len(b)
        /\ \A i \in 1..(Len(a) + Len(b)) :
              r[i] = IF i <= Len(a) THEN a[i] ELSE b[i - Len(a)]
    BY <2>1, <2>2, <2>3, ConcatProperties
  <2>5. Len(r) = Len(s) - 1 /\ DOMAIN r = 1..(Len(s) - 1)
    BY <1>1, <2>1, <2>2, <2>4
  <2>6. ASSUME NEW i \in 1..(Len(s) - 1)
        PROVE  r[i] = IF i < k THEN s[i] ELSE s[i + 1]
    <3>1. CASE i < k
      BY <1>1, <2>1, <2>2, <2>4, <3>1
    <3>2. CASE ~(i < k)
      <4>1. r[i] = b[i - (k - 1)]
        BY <1>1, <2>1, <2>2, <2>4, <3>2
      <4>2. i - (k - 1) \in 1..(Len(s) - k) /\ k + (i - (k - 1)) = i + 1
        BY <1>1, <3>2
      <4> QED BY <2>2, <3>2, <4>1, <4>2
    <3> QED BY <3>1, <3>2
  <2> QED BY <2>4, <2>5, <2>6
<1>3. IsInjective(r)
  <2> DEFINE at(i) == IF i < k THEN i ELSE i + 1
  <2>1. \A i \in DOMAIN r : at(i) \in DOMAIN s /\ r[i] = s[at(i)]
    BY <1>1, <1>2
  <2>2. \A i, j \in DOMAIN r : at(i) = at(j) => i = j
    BY <1>1, <1>2
  <2> HIDE DEF at, r
  <2> QED BY <2>1, <2>2 DEF IsInjective
<1>4. ASSUME NEW x, x # s[k], NEW j \in DOMAIN s, s[j] = x
      PROVE  \E i \in DOMAIN r : r[i] = x
  <2>1. CASE j < k
    BY <1>1, <1>2, <1>4, <2>1
  <2>2. CASE j > k
    <3>1. j - 1 \in DOMAIN r /\ r[j - 1] = s[j]
      BY <1>1, <1>2, <1>4, <2>2
    <3> QED BY <3>1, <1>4
  <2> QED BY <1>1, <1>4, <2>1, <2>2
<1>5. ASSUME NEW i \in DOMAIN r
      PROVE  r[i] # s[k] /\ \E j \in DOMAIN s : s[j] = r[i]
  BY <1>1, <1>2, <1>5 DEF IsInjective
<1>6. ASSUME NEW x
      PROVE  (\E i \in DOMAIN r : r[i] = x) <=> (x # s[k] /\ \E i \in DOMAIN s : s[i] = x)
  <2> HIDE DEF r
  <2> QED BY <1>4, <1>5
<1> QED BY <1>2, <1>3, <1>6 DEF CutsOut

\* The loop of UnregisterSource cuts out the name it looks for.
LEMMA RemoveFirstIsRemoveAt ==
    ASSUME NEW S, NEW s \in Seq(S), IsInjective(s), NEW k \in DOMAIN s
    PROVE  RemoveFirst(s, s[k]) = RemoveAt(s, k)
<1> DEFINE I == {i \in 1..Len(s) : s[i] = s[k]}
<1>1. I = {k}
  BY DEF IsInjective
<1>2. Min(I) = k
  BY <1>1 DEF Min
<1>3. SelectInSeq(s, LAMBDA v : v = s[k]) = k
  BY <1>1, <1>2 DEF SelectInSeq
<1> QED BY <1>3 DEF RemoveFirst

\* Every set of naturals that is not empty has a least element: induction, as
\* the search for a least counterexample.
LEMMA LeastElement ==
    ASSUME NEW S \in SUBSET Nat, S # {}
    PROVE  \E n \in S : \A m \in S : n <= m
<1> DEFINE R == {p \in Nat \X Nat : p[1] < p[2]}
<1>1. R = OpToRel(<, Nat)
  BY Zenon DEF OpToRel
<1>2. IsWellFoundedOn(R, Nat)
  BY <1>1, NatLessThanWellFounded
<1>3. \A m, n \in Nat : m < n => <<m, n>> \in R
  OBVIOUS
<1> HIDE DEF R
<1>4. PICK n \in S : \A m \in S : ~(<<m, n>> \in R)
  BY <1>2, WFMin
<1>5. ASSUME NEW m \in S PROVE n <= m
  <2>1. ~(m < n)
    BY <1>3, <1>4
  <2> QED BY <2>1
<1> QED BY <1>5

\* f[i] is what the loop of SelectSource has collected after the first i names
\* of the list s, for i up to n.
Collects(f, s, T, n) ==
    \A i \in 0..n :
        f[i] = IF i = 0 THEN <<>>
               ELSE IF s[i] \in T THEN Append(f[i - 1], s[i]) ELSE f[i - 1]

\* The recursive definition of Among has a solution, and Among is its last element.
LEMMA AmongDefined ==
    ASSUME NEW S, NEW s \in Seq(S), NEW T
    PROVE  \E f : Collects(f, s, T, Len(s)) /\ Among(s, T) = f[Len(s)]
<1> DEFINE Good(n) == \E f \in [0..n -> Seq(S)] : Collects(f, s, T, n)
           Bad == {n \in 0..Len(s) : ~Good(n)}
<1>1. Good(0)
  <2> DEFINE f == [i \in 0..0 |-> <<>>]
  <2>1. f \in [0..0 -> Seq(S)]
    OBVIOUS
  <2>2. Collects(f, s, T, 0)
    BY DEF Collects
  <2> QED BY <2>1, <2>2
<1>2. ASSUME NEW n \in 1..Len(s), Good(n - 1)
      PROVE  Good(n)
  <2>1. PICK f \in [0..(n - 1) -> Seq(S)] : Collects(f, s, T, n - 1)
    BY <1>2
  <2> DEFINE last == IF s[n] \in T THEN Append(f[n - 1], s[n]) ELSE f[n - 1]
             g == [i \in 0..n |-> IF i = n THEN last ELSE f[i]]
  <2>2. last \in Seq(S)
    <3>1. f[n - 1] \in Seq(S) /\ s[n] \in S
      OBVIOUS
    <3> QED BY <3>1
  <2>3. /\ g \in [0..n -> Seq(S)]
        /\ g[n] = last
        /\ \A i \in 0..(n - 1) : g[i] = f[i]
    <3> HIDE DEF last
    <3>1. \A i \in 0..n : i # n => i \in 0..(n - 1)
      OBVIOUS
    <3> QED BY <2>2, <3>1
  <2>4. ASSUME NEW i \in 0..n
        PROVE  g[i] = IF i = 0 THEN <<>>
                      ELSE IF s[i] \in T THEN Append(g[i - 1], s[i]) ELSE g[i - 1]
    <3>1. i # 0 => i - 1 \in 0..(n - 1)
      OBVIOUS
    <3> HIDE DEF g
    <3>2. CASE i = n
      BY <2>3, <3>1, <3>2
    <3>3. CASE i # n
      <4>1. i \in 0..(n - 1)
        BY <3>3
      <4>2. f[i] = IF i = 0 THEN <<>>
                   ELSE IF s[i] \in T THEN Append(f[i - 1], s[i]) ELSE f[i - 1]
        BY <2>1, <4>1 DEF Collects
      <4> QED BY <2>3, <3>1, <4>1, <4>2
    <3> QED BY <3>2, <3>3
  <2> HIDE DEF g
  <2> QED BY <2>3, <2>4 DEF Collects
<1>3. Good(Len(s))
  <2> HIDE DEF Good
  <2> SUFFICES ASSUME Bad # {} PROVE FALSE
    OBVIOUS
  <2>1. PICK n \in Bad : \A m \in Bad : n <= m
    <3>1. Bad \in SUBSET Nat
      OBVIOUS
    <3> HIDE DEF Bad
    <3> QED BY <3>1, LeastElement
  <2>2. n \in 1..Len(s) /\ ~Good(n)
    BY <1>1
  <2>3. n - 1 \in 0..Len(s) /\ n - 1 \notin Bad
    BY <2>1, <2>2
  <2> QED BY <1>2, <2>2, <2>3
<1>4. PICK f \in [0..Len(s) -> Seq(S)] : Collects(f, s, T, Len(s))
  BY <1>3
<1> DEFINE Loop(g) == [i \in 0..Len(s) |->
                         IF i = 0 THEN <<>>
                         ELSE IF s[i] \in T THEN Append(g[i - 1], s[i]) ELSE g[i - 1]]
           upTo == CHOOSE g : g = Loop(g)
<1>5. f = Loop(f)
  BY <1>4 DEF Collects
<1>6. upTo = Loop(upTo)
  BY <1>5
<1>7. Among(s, T) = upTo[Len(s)]
  BY DEF Among
<1> HIDE DEF upTo
<1>8. Collects(upTo, s, T, Len(s))
  BY <1>6 DEF Collects
<1> QED BY <1>7, <1>8

\* What r is when it lists the elements of s in T, each once.
Sifts(S, s, T, r) ==
    /\ r \in Seq(S)
    /\ IsInjective(r)
    /\ \A x : (\E i \in DOMAIN r : r[i] = x) <=> (x \in T /\ \E i \in DOMAIN s : s[i] = x)

\* Among keeps the elements of a set, each of them once where each is there once.
LEMMA AmongProperties ==
    ASSUME NEW S, NEW s \in Seq(S), IsInjective(s), NEW T
    PROVE  Sifts(S, s, T, Among(s, T))
<1>1. PICK f : Collects(f, s, T, Len(s)) /\ Among(s, T) = f[Len(s)]
  BY AmongDefined
<1> DEFINE Good(n) == /\ f[n] \in Seq(S)
                      /\ IsInjective(f[n])
                      /\ \A x : (\E i \in DOMAIN f[n] : f[n][i] = x)
                                  <=> (x \in T /\ \E i \in 1..n : s[i] = x)
           Bad == {n \in 0..Len(s) : ~Good(n)}
<1>2. Good(0)
  <2>1. f[0] = <<>>
    BY <1>1 DEF Collects
  <2> QED BY <2>1 DEF IsInjective
<1>3. ASSUME NEW n \in 1..Len(s), Good(n - 1)
      PROVE  Good(n)
  <2>1. f[n] = IF s[n] \in T THEN Append(f[n - 1], s[n]) ELSE f[n - 1]
    BY <1>1 DEF Collects
  <2>2. s[n] \in S /\ \A i \in 1..(n - 1) : s[i] # s[n]
    BY DEF IsInjective
  <2>3. \A x : (\E i \in 1..n : s[i] = x) <=> (x = s[n] \/ \E i \in 1..(n - 1) : s[i] = x)
    OBVIOUS
  <2>4. CASE s[n] \in T
    <3>1. Extends(S, f[n - 1], s[n])
      <4>1. \A i \in DOMAIN f[n - 1] : f[n - 1][i] # s[n]
        BY <1>3, <2>2
      <4> QED BY <1>3, <2>2, <4>1, AppendNew
    <3> QED BY <1>3, <2>1, <2>3, <2>4, <3>1 DEF Extends
  <2>5. CASE s[n] \notin T
    BY <1>3, <2>1, <2>3, <2>5
  <2> QED BY <2>4, <2>5
<1>4. Good(Len(s))
  <2> HIDE DEF Good
  <2> SUFFICES ASSUME Bad # {} PROVE FALSE
    OBVIOUS
  <2>1. PICK n \in Bad : \A m \in Bad : n <= m
    <3>1. Bad \in SUBSET Nat
      OBVIOUS
    <3> HIDE DEF Bad
    <3> QED BY <3>1, LeastElement
  <2>2. n \in 1..Len(s) /\ ~Good(n)
    BY <1>2
  <2>3. n - 1 \in 0..Len(s) /\ n - 1 \notin Bad
    BY <2>1, <2>2
  <2> QED BY <1>3, <2>2, <2>3
<1> QED BY <1>1, <1>4 DEF Sifts

-----------------------------------------------------------------------------

\* The three invariants need each other: UnregisterSource cuts the right name
\* out of the right list only because the index agrees with the table.
RouterInv == RouterTypeOK /\ LabelIndex /\ HealthMatchesFailures

LEMMA RouterInitInv == RouterInit => RouterInv
  BY RobinAssumption
     DEF RouterInit, RouterInv, RouterTypeOK, LabelIndex, HealthMatchesFailures,
         EmptyMap

LEMMA RegisterInv ==
    ASSUME RouterInv, NEW name \in Names, NEW label \in Labels, NEW ops \in SUBSET Ops,
           RegisterSource(name, label, ops)
    PROVE  RouterInv'
<1> USE DEF RouterInv
<1> DEFINE list == Listed(label)
           conn == [label |-> label, operations |-> ops, healthy |-> TRUE, failures |-> 0]
<1>1. /\ list \in Seq(Names)
      /\ IsInjective(list)
      /\ \A i \in DOMAIN list : list[i] \in DOMAIN sources /\ sources[list[i]].label = label
  BY DEF RouterTypeOK, LabelIndex, Listed, IsInjective
<1>2. name \notin DOMAIN sources
  BY DEF RegisterSource, Registered
<1>3. /\ Append(list, name) \in Seq(Names)
      /\ Append(list, name) # <<>>
      /\ IsInjective(Append(list, name))
      /\ \A x : (\E i \in DOMAIN Append(list, name) : Append(list, name)[i] = x)
                  <=> (x = name \/ \E i \in DOMAIN list : list[i] = x)
  <2>1. \A i \in DOMAIN list : list[i] # name
    BY <1>1, <1>2
  <2> HIDE DEF list
  <2>2. Extends(Names, list, name)
    BY ONLY <1>1, <2>1, name \in Names, AppendNew
  <2> QED BY ONLY <2>2 DEF Extends
<1>4. /\ DOMAIN sources' = DOMAIN sources \union {name}
      /\ sources'[name] = conn
      /\ \A n \in DOMAIN sources : sources'[n] = sources[n]
  BY <1>2 DEF RegisterSource, Put
<1>5. /\ DOMAIN labels' = DOMAIN labels \union {label}
      /\ labels'[label] = Append(list, name)
      /\ \A l \in DOMAIN labels : l # label => labels'[l] = labels[l]
  BY DEF RegisterSource, Put
<1>6. /\ DOMAIN robin' = DOMAIN labels'
      /\ \A l \in DOMAIN robin' : robin'[l] \in 0..(RobinCycle - 1)
  BY <1>5, RobinAssumption DEF RegisterSource, Put, LabelIndex, RouterTypeOK
<1>7. RouterTypeOK'
  <2>1. conn \in SourceConnection
    BY DEF SourceConnection, FailureThreshold
  <2> QED BY <1>3, <1>4, <1>5, <1>6, <2>1 DEF RouterTypeOK
<1>8. LabelIndex'
  <2> HIDE DEF list
  <2>1. \A l \in DOMAIN labels' : labels'[l] # <<>> /\ IsInjective(labels'[l])
    BY <1>3, <1>5 DEF LabelIndex
  <2>2. ASSUME NEW l \in DOMAIN labels', NEW i \in DOMAIN labels'[l]
        PROVE  labels'[l][i] \in DOMAIN sources' /\ sources'[labels'[l][i]].label = l
    <3>1. CASE l = label
      <4>1. labels'[l][i] = name \/ \E j \in DOMAIN list : list[j] = labels'[l][i]
        BY <1>3, <1>5, <3>1
      <4> QED BY <1>1, <1>4, <3>1, <4>1
    <3>2. CASE l # label
      <4>1. /\ l \in DOMAIN labels /\ labels'[l] = labels[l]
            /\ labels[l][i] \in DOMAIN sources
            /\ sources[labels[l][i]].label = l
        BY <1>5, <3>2 DEF LabelIndex
      <4> QED BY <1>4, <4>1
    <3> QED BY <3>1, <3>2
  <2>3. ASSUME NEW n \in DOMAIN sources'
        PROVE  /\ sources'[n].label \in DOMAIN labels'
               /\ \E i \in DOMAIN labels'[sources'[n].label] :
                     labels'[sources'[n].label][i] = n
    <3>1. CASE n = name
      BY <1>3, <1>4, <1>5, <3>1
    <3>2. CASE n # name
      <4>1. /\ n \in DOMAIN sources /\ sources'[n] = sources[n]
            /\ sources[n].label \in DOMAIN labels
            /\ \E i \in DOMAIN labels[sources[n].label] : labels[sources[n].label][i] = n
        BY <1>4, <3>2 DEF LabelIndex
      <4>2. CASE sources[n].label = label
        <5>1. \E i \in DOMAIN list : list[i] = n
          BY <4>1, <4>2 DEF list, Listed
        <5> QED BY <1>3, <1>5, <4>1, <4>2, <5>1
      <4>3. CASE sources[n].label # label
        BY <1>5, <4>1, <4>3
      <4> QED BY <4>2, <4>3
    <3> QED BY <3>1, <3>2
  <2> QED BY <1>6, <2>1, <2>2, <2>3 DEF LabelIndex
<1>9. HealthMatchesFailures'
  BY <1>4 DEF HealthMatchesFailures, FailureThreshold
<1> QED BY <1>7, <1>8, <1>9

LEMMA UnregisterInv ==
    ASSUME RouterInv, NEW name \in Names, UnregisterSource(name)
    PROVE  RouterInv'
<1> USE DEF RouterInv
<1> DEFINE label == sources[name].label
           rest == Remaining(name)
<1>1. CASE ~Registered(name)
  BY <1>1 DEF UnregisterSource, UnregisterPresent, routerVars, RouterTypeOK, LabelIndex,
              HealthMatchesFailures
<1>2. ASSUME UnregisterPresent(name)
      PROVE  RouterInv'
  <2>1. /\ name \in DOMAIN sources
        /\ label \in DOMAIN labels
        /\ labels[label] \in Seq(Names)
        /\ IsInjective(labels[label])
    BY <1>2 DEF UnregisterPresent, Registered, RouterTypeOK, LabelIndex
  <2>2. PICK k \in DOMAIN labels[label] : labels[label][k] = name
    BY <2>1 DEF LabelIndex
  <2>3. rest = RemoveAt(labels[label], k)
    <3>1. rest = RemoveFirst(labels[label], labels[label][k])
      BY <2>1, <2>2 DEF Remaining, Listed
    <3> HIDE DEF label, rest
    <3> QED BY <2>1, <3>1, RemoveFirstIsRemoveAt
  <2>4. /\ rest \in Seq(Names)
        /\ IsInjective(rest)
        /\ \A x : (\E i \in DOMAIN rest : rest[i] = x)
                    <=> (x # name /\ \E i \in DOMAIN labels[label] : labels[label][i] = x)
    <3> HIDE DEF label, rest
    <3>1. CutsOut(Names, labels[label], k)
      BY ONLY <2>1, k \in DOMAIN labels[label], RemoveAtProperties
    <3> QED BY <2>2, <2>3, <3>1 DEF CutsOut
  <2>5. /\ DOMAIN sources' = DOMAIN sources \ {name}
        /\ \A n \in DOMAIN sources' : sources'[n] = sources[n]
    BY <1>2, DeleteProperties DEF UnregisterPresent
  <2>6. \A n \in DOMAIN sources' : sources[n].label = label => rest # <<>>
    <3>1. ASSUME NEW n \in DOMAIN sources', sources[n].label = label
          PROVE  \E i \in DOMAIN labels[label] : labels[label][i] = n
      BY <2>5, <3>1 DEF LabelIndex
    <3> HIDE DEF label, rest
    <3>2. ASSUME NEW n \in DOMAIN sources', sources[n].label = label
          PROVE  rest # <<>>
      <4>1. \E i \in DOMAIN rest : rest[i] = n
        BY <2>4, <2>5, <3>1, <3>2
      <4> QED BY <4>1
    <3> QED BY <3>2
  <2>7. CASE rest = <<>>
    <3>1. /\ DOMAIN labels' = DOMAIN labels \ {label}
          /\ \A l \in DOMAIN labels' : labels'[l] = labels[l]
          /\ DOMAIN robin' = DOMAIN robin \ {label}
          /\ \A l \in DOMAIN robin' : robin'[l] = robin[l]
      <4>1. labels' = Delete(labels, label) /\ robin' = Delete(robin, label)
        BY <1>2, <2>7 DEF UnregisterPresent
      <4> HIDE DEF label, rest
      <4> QED BY <4>1 DEF Delete, Restrict
    <3>2. RouterTypeOK'
      BY <2>5, <3>1 DEF RouterTypeOK
    <3>3. \A l \in DOMAIN labels' : \A i \in DOMAIN labels'[l] :
              labels'[l][i] \in DOMAIN sources' /\ sources'[labels'[l][i]].label = l
      BY <2>5, <3>1 DEF LabelIndex
    <3>4. \A n \in DOMAIN sources' :
              /\ sources'[n].label \in DOMAIN labels'
              /\ \E i \in DOMAIN labels'[sources'[n].label] :
                    labels'[sources'[n].label][i] = n
      BY <2>5, <2>6, <2>7, <3>1 DEF LabelIndex
    <3>5. LabelIndex'
      BY <3>1, <3>3, <3>4 DEF LabelIndex
    <3>6. HealthMatchesFailures'
      BY <2>5 DEF HealthMatchesFailures
    <3> QED BY <3>2, <3>5, <3>6
  <2>8. CASE rest # <<>>
    <3>1. /\ DOMAIN labels' = DOMAIN labels
          /\ labels'[label] = rest
          /\ \A l \in DOMAIN labels : l # label => labels'[l] = labels[l]
          /\ robin' = robin
      <4>1. labels' = Put(labels, label, rest) /\ robin' = robin
        BY <1>2, <2>8 DEF UnregisterPresent
      <4> HIDE DEF label, rest
      <4> QED BY <2>1, <4>1 DEF Put
    <3> HIDE DEF label, rest
    <3>2. RouterTypeOK'
      BY <2>4, <2>5, <3>1 DEF RouterTypeOK
    <3>3. ASSUME NEW l \in DOMAIN labels', NEW i \in DOMAIN labels'[l]
          PROVE  labels'[l][i] \in DOMAIN sources' /\ sources'[labels'[l][i]].label = l
      <4>1. CASE l = label
        <5>1. /\ labels'[l][i] # name
              /\ \E j \in DOMAIN labels[label] : labels[label][j] = labels'[l][i]
          BY <2>4, <3>1, <4>1
        <5> QED BY <2>1, <2>5, <4>1, <5>1 DEF LabelIndex
      <4>2. CASE l # label
        <5>1. /\ l \in DOMAIN labels /\ labels'[l] = labels[l]
              /\ labels[l][i] \in DOMAIN sources
              /\ sources[labels[l][i]].label = l
          BY <3>1, <4>2 DEF LabelIndex
        <5>2. labels[l][i] # name
          BY <4>2, <5>1 DEF label
        <5> QED BY <2>5, <5>1, <5>2
      <4> QED BY <4>1, <4>2
    <3>4. ASSUME NEW n \in DOMAIN sources'
          PROVE  /\ sources'[n].label \in DOMAIN labels'
                 /\ \E i \in DOMAIN labels'[sources'[n].label] :
                       labels'[sources'[n].label][i] = n
      <4>1. /\ n \in DOMAIN sources /\ n # name /\ sources'[n] = sources[n]
            /\ sources[n].label \in DOMAIN labels
            /\ \E i \in DOMAIN labels[sources[n].label] : labels[sources[n].label][i] = n
        BY <2>5 DEF LabelIndex
      <4> QED BY <2>4, <3>1, <4>1
    <3>5. LabelIndex'
      <4>1. \A l \in DOMAIN labels' : labels'[l] # <<>> /\ IsInjective(labels'[l])
        BY <2>4, <2>8, <3>1 DEF LabelIndex
      <4>2. DOMAIN labels' = DOMAIN robin'
        BY <3>1 DEF LabelIndex
      <4> QED BY <3>3, <3>4, <4>1, <4>2 DEF LabelIndex
    <3>6. HealthMatchesFailures'
      BY <2>5 DEF HealthMatchesFailures
    <3> QED BY <3>2, <3>5, <3>6
  <2> QED BY <2>7, <2>8
<1> QED BY <1>1, <1>2 DEF UnregisterSource

LEMMA MarkInv ==
    ASSUME RouterInv, NEW name \in Names, MarkHealthy(name) \/ MarkUnhealthy(name)
    PROVE  RouterInv'
<1> USE DEF RouterInv
<1>1. /\ DOMAIN sources' = DOMAIN sources
      /\ UNCHANGED <<labels, robin>>
      /\ \A n \in DOMAIN sources :
            /\ sources'[n] \in SourceConnection
            /\ sources'[n].label = sources[n].label
            /\ sources'[n].healthy <=> sources'[n].failures < FailureThreshold
  <2>1. CASE ~Registered(name)
    BY <2>1 DEF MarkHealthy, MarkUnhealthy, RouterTypeOK, HealthMatchesFailures
  <2>2. CASE Registered(name) /\ MarkHealthy(name)
    <3>1. sources' = [sources EXCEPT ![name].healthy = TRUE, ![name].failures = 0]
      BY <2>2 DEF MarkHealthy
    <3>2. /\ sources'[name].healthy
          /\ sources'[name].failures = 0
          /\ sources'[name].label = sources[name].label
          /\ sources'[name] \in SourceConnection
      <4>1. name \in DOMAIN sources /\ sources[name] \in SourceConnection
        BY <2>2 DEF Registered, RouterTypeOK
      <4>2. sources'[name] = [sources[name] EXCEPT !.healthy = TRUE, !.failures = 0]
        BY <3>1, <4>1
      <4>3. /\ sources'[name].failures = 0
            /\ sources'[name].label = sources[name].label
            /\ sources'[name].healthy
        BY <4>1, <4>2 DEF SourceConnection
      <4>4. \A c \in SourceConnection : \A b \in BOOLEAN, f \in 0..3 :
                [c EXCEPT !.healthy = b, !.failures = f] \in SourceConnection
        BY DEF SourceConnection, FailureThreshold
      <4>5. 0 \in 0..3
        OBVIOUS
      <4>6. sources'[name] \in SourceConnection
        BY <4>1, <4>2, <4>4, <4>5
      <4> QED BY <4>3, <4>6
    <3>3. sources'[name].healthy <=> sources'[name].failures < FailureThreshold
      BY <3>2 DEF FailureThreshold
    <3> QED BY <2>2, <3>1, <3>2, <3>3 DEF MarkHealthy, RouterTypeOK, HealthMatchesFailures
  <2>3. CASE Registered(name) /\ MarkUnhealthy(name)
    <3>1. /\ sources[name].failures \in 0..3
          /\ sources[name].healthy <=> sources[name].failures < 3
          /\ Failures(name) \in 0..3
          /\ Failures(name) = IF sources[name].failures = 3 THEN 3
                              ELSE sources[name].failures + 1
      BY <2>3 DEF Registered, RouterTypeOK, SourceConnection, HealthMatchesFailures,
                  FailureThreshold, Failures
    <3>2. sources' = [sources EXCEPT
                        ![name].failures = Failures(name),
                        ![name].healthy = IF Failures(name) >= 3 THEN FALSE ELSE @]
      BY <2>3 DEF MarkUnhealthy, FailureThreshold
    <3>3. /\ sources'[name].failures = Failures(name)
          /\ Failures(name) >= 3 => sources'[name].healthy = FALSE
          /\ ~(Failures(name) >= 3) => sources'[name].healthy = sources[name].healthy
          /\ sources'[name].label = sources[name].label
          /\ sources'[name] \in SourceConnection
      BY <2>3, <3>1, <3>2 DEF Registered, RouterTypeOK, SourceConnection, FailureThreshold
    <3>4. sources'[name].healthy <=> sources'[name].failures < FailureThreshold
      BY <3>1, <3>3 DEF FailureThreshold
    <3> QED BY <2>3, <3>2, <3>3, <3>4
            DEF MarkUnhealthy, RouterTypeOK, HealthMatchesFailures, FailureThreshold
  <2> QED BY <2>1, <2>2, <2>3
<1>2. RouterTypeOK'
  BY <1>1 DEF RouterTypeOK
<1>3. LabelIndex'
  BY <1>1 DEF LabelIndex
<1>4. HealthMatchesFailures'
  BY <1>1 DEF HealthMatchesFailures
<1> QED BY <1>2, <1>3, <1>4

LEMMA SelectInv ==
    ASSUME RouterInv, NEW label \in Labels, NEW op \in Ops, SelectSource(label, op)
    PROVE  RouterInv'
<1> USE DEF RouterInv
<1>1. /\ UNCHANGED <<sources, labels>>
      /\ DOMAIN robin' = DOMAIN robin
      /\ \A l \in DOMAIN robin : l # label => robin'[l] = robin[l]
      /\ label \in DOMAIN robin => robin'[label] = (robin[label] + 1) % RobinCycle
  BY DEF SelectSource
<1>2. label \in DOMAIN robin => robin'[label] \in 0..(RobinCycle - 1)
  <2>1. label \in DOMAIN robin => robin[label] + 1 \in Nat
    BY RobinAssumption DEF RouterTypeOK
  <2>2. \A x \in Nat : x % RobinCycle \in 0..(RobinCycle - 1)
    BY RobinAssumption
  <2> QED BY <1>1, <2>1, <2>2
<1>3. RouterTypeOK'
  BY <1>1, <1>2 DEF RouterTypeOK
<1>4. LabelIndex' /\ HealthMatchesFailures'
  BY <1>1 DEF LabelIndex, HealthMatchesFailures
<1> QED BY <1>3, <1>4

\* SelectSource returns a registered source of the label, in good health.
LEMMA SelectedRegistered ==
    ASSUME RouterInv, NEW label \in Labels, NEW op \in Ops,
           HealthySources(label, op) # <<>>
    PROVE  /\ Selected(label, op) \in DOMAIN sources
           /\ sources[Selected(label, op)].label = label
           /\ Healthy(Selected(label, op))
           /\ op \in sources[Selected(label, op)].operations
<1> DEFINE list == Listed(label)
           able == {n \in ToSet(list) : sources[n].healthy /\ op \in sources[n].operations}
           found == HealthySources(label, op)
<1>1. /\ list \in Seq(Names)
      /\ IsInjective(list)
      /\ label \in DOMAIN robin
      /\ \A i \in DOMAIN list : list[i] \in DOMAIN sources /\ sources[list[i]].label = label
  <2>1. CASE label \in DOMAIN labels
    BY <2>1 DEF RouterInv, RouterTypeOK, LabelIndex, Listed
  <2>2. CASE label \notin DOMAIN labels
    <3>1. list = <<>>
      BY <2>2 DEF Listed
    <3>2. found = <<>>
      <4>1. IsInjective(<<>>) /\ <<>> \in Seq(Names)
        BY DEF IsInjective
      <4>2. found = Among(<<>>, able)
        BY <3>1 DEF HealthySources
      <4> HIDE DEF able, found
      <4>3. Sifts(Names, <<>>, able, found)
        BY <4>1, <4>2, AmongProperties
      <4>4. found \in Seq(Names) /\ \A i \in DOMAIN found : FALSE
        BY <4>3 DEF Sifts
      <4> QED BY <4>4
    <3> QED BY <3>2
  <2> QED BY <2>1, <2>2
<1>2. found = Among(list, able)
  BY DEF HealthySources
<1> HIDE DEF list, able, found
<1>3. /\ found \in Seq(Names)
      /\ \A i \in DOMAIN found : found[i] \in able /\ \E j \in DOMAIN list : list[j] = found[i]
  <2>1. Sifts(Names, list, able, found)
    BY <1>1, <1>2, AmongProperties
  <2> QED BY <2>1 DEF Sifts
<1>4. Len(found) \in Nat \ {0} /\ DOMAIN found = 1..Len(found)
  BY <1>3 DEF found
<1>5. robin[label] \in Nat
  BY <1>1, RobinAssumption DEF RouterInv, RouterTypeOK
<1>6. (robin[label] % Len(found)) + 1 \in DOMAIN found
  <2>1. \A r \in Nat, k \in Nat \ {0} : (r % k) + 1 \in 1..k
    OBVIOUS
  <2> QED BY <1>4, <1>5, <2>1
<1>7. Selected(label, op) = found[(robin[label] % Len(found)) + 1]
  BY DEF Selected, found
<1> QED BY <1>1, <1>3, <1>6, <1>7 DEF able, Healthy, Registered

\* The router's invariant holds in every state its methods can reach.
THEOREM RouterInvariant == RouterSpec => []RouterInv
<1>1. RouterInit => RouterInv
  BY RouterInitInv
<1>2. RouterInv /\ [RouterNext]_routerVars => RouterInv'
  <2> SUFFICES ASSUME RouterInv, [RouterNext]_routerVars PROVE RouterInv'
    OBVIOUS
  <2>1. ASSUME NEW name \in Names, NEW label \in Labels, NEW ops \in SUBSET Ops,
               RegisterSource(name, label, ops)
        PROVE  RouterInv'
    BY <2>1, RegisterInv
  <2>2. ASSUME NEW name \in Names, UnregisterSource(name)
        PROVE  RouterInv'
    BY <2>2, UnregisterInv
  <2>3. ASSUME NEW name \in Names, MarkHealthy(name) \/ MarkUnhealthy(name)
        PROVE  RouterInv'
    BY <2>3, MarkInv
  <2>4. ASSUME NEW label \in Labels, NEW op \in Ops, SelectSource(label, op)
        PROVE  RouterInv'
    BY <2>4, SelectInv
  <2>5. CASE UNCHANGED routerVars
    BY <2>5 DEF routerVars, RouterInv, RouterTypeOK, LabelIndex, HealthMatchesFailures
  <2> QED BY <2>1, <2>2, <2>3, <2>4, <2>5 DEF RouterNext
<1> QED BY <1>1, <1>2, PTL DEF RouterSpec

\* The label index always agrees with the table of sources, so SelectSource never
\* dereferences a source that is gone.
THEOREM RouterLabelIndex == RouterSpec => []LabelIndex
  BY RouterInvariant, PTL DEF RouterInv

\* A source is marked healthy exactly while fewer than three failures in a row of it
\* are counted.
THEOREM RouterHealth == RouterSpec => []HealthMatchesFailures
  BY RouterInvariant, PTL DEF RouterInv

=============================================================================
