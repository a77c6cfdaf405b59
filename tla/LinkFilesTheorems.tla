-------------------------- MODULE LinkFilesTheorems --------------------------
(***************************************************************************)
(* Lemmas on sorted link files, binary search, call stacks and sorting,    *)
(* cited by the proofs about the programs that use them.                   *)
(***************************************************************************)
EXTENDS LinkFiles, SequenceTheorems, FunctionTheorems, FiniteSetTheorems, WellFoundedInduction, TLAPS

(* Every non-empty set of naturals has a least element.                    *)
LEMMA LeastElement ==
  ASSUME NEW T, T \subseteq Nat, T # {}
  PROVE  \E m \in T : \A k \in T : m <= k
<1>1. IsWellFoundedOn(OpToRel(<, Nat), Nat)
  BY NatLessThanWellFounded
<1>2. PICK m \in T : \A k \in T : ~ (<<k, m>> \in OpToRel(<, Nat))
  BY <1>1, WFMin
<1>3. \A k \in T : ~ (k < m)
  BY <1>2 DEF OpToRel
<1>4. QED
  BY <1>3

(* A partitioned array has a partition point: std::lower_bound returns a   *)
(* position, and splits the array there.                                   *)
LEMMA PartitionPointSplits ==
  ASSUME NEW len \in Nat, NEW below,
         \A i, j \in 1..len : i < j /\ j \in below => i \in below
  PROVE  /\ PartitionPoint(len, below) \in 1..(len + 1)
         /\ \A j \in 1..len : j \in below <=> j < PartitionPoint(len, below)
<1> DEFINE T == {p \in 1..(len + 1) : p = len + 1 \/ p \notin below}
<1>1. T \subseteq Nat /\ T # {}
  OBVIOUS
<1>2. PICK m \in T : \A k \in T : m <= k
  BY <1>1, LeastElement
<1>3. \A j \in 1..len : j \in below <=> j < m
  BY <1>2
<1>4. \E p \in 1..(len + 1) : \A j \in 1..len : j \in below <=> j < p
  BY <1>2, <1>3
<1>5. QED
  BY <1>4 DEF PartitionPoint

(* The pointer with which dfs and dominate start on the links out of a     *)
(* node: everything before it belongs to smaller nodes.                    *)
LEMMA LinkLowerBoundSplits ==
  ASSUME NEW S, S \subseteq Nat, NEW file \in Seq(Links(S)), StrictlySorted(file),
         NEW v \in S
  PROVE  LET p == LinkLowerBound(file, [src |-> v, dst |-> 0])
         IN  /\ p \in 1..(Len(file) + 1)
             /\ \A j \in 1..Len(file) : file[j].src < v <=> j < p
<1> DEFINE key == [src |-> v, dst |-> 0]
           below == {j \in 1..Len(file) : LinkLess(file[j], key)}
<1>1. \A j \in 1..Len(file) : file[j].src \in Nat /\ file[j].dst \in Nat
  <2>1. \A j \in 1..Len(file) : file[j] \in Links(S)
    BY ElementOfSeq
  <2>2. QED
    BY <2>1 DEF Links
<1>2. \A j \in 1..Len(file) : j \in below <=> file[j].src < v
  BY <1>1 DEF LinkLess
<1>3. \A i, j \in 1..Len(file) : i < j => file[i].src <= file[j].src
  BY <1>1 DEF StrictlySorted, LinkLess
<1> HIDE DEF below
<1>4. ASSUME NEW i \in 1..Len(file), NEW j \in 1..Len(file), i < j, j \in below
      PROVE  i \in below
  <2>1. file[i].src <= file[j].src /\ file[j].src < v
    BY <1>2, <1>3, <1>4
  <2>2. file[i].src < v
    <3>1. file[i].src \in Nat /\ file[j].src \in Nat /\ v \in Nat
      BY <1>1
    <3>2. QED
      BY <2>1, <3>1
  <2>3. QED
    BY <1>2, <2>2
<1>5. Len(file) \in Nat
  OBVIOUS
<1>6. /\ PartitionPoint(Len(file), below) \in 1..(Len(file) + 1)
      /\ \A j \in 1..Len(file) : j \in below <=> j < PartitionPoint(Len(file), below)
  BY <1>4, <1>5, PartitionPointSplits
<1>7. LinkLowerBound(file, key) = PartitionPoint(Len(file), below)
  BY DEF LinkLowerBound, below
<1>8. QED
  BY <1>2, <1>6, <1>7

(* Popping the last element of a non-empty sequence keeps the others.      *)
LEMMA PopProperties ==
  ASSUME NEW S, NEW s \in Seq(S), s # << >>
  PROVE  /\ Pop(s) \in Seq(S)
         /\ Len(Pop(s)) = Len(s) - 1
         /\ \A k \in 1..(Len(s) - 1) : Pop(s)[k] = s[k]
<1>1. Len(s) \in Nat /\ Len(s) > 0
  BY EmptySeq
<1>2. DOMAIN Pop(s) = 1..(Len(s) - 1) /\ Pop(s) \in Seq(S)
  BY <1>1 DEF Pop
<1>3. Len(Pop(s)) = Len(s) - 1
  BY <1>1, <1>2
<1>4. \A k \in 1..(Len(s) - 1) : Pop(s)[k] = s[k]
  BY <1>1 DEF Pop
<1>5. QED
  BY <1>2, <1>3, <1>4

------------------------------------------------------------------------------
(* Sorting *)

(* The elements of a finite set, listed in a strict order of them: each at *)
(* the place that the number of those below it gives.                      *)
LEMMA Enumerated ==
  ASSUME NEW S, IsFiniteSet(S), NEW below \in [S -> SUBSET S],
         \A x \in S : x \notin below[x],
         \A x, y \in S : x # y => x \in below[y] \/ y \in below[x],
         \A x \in S : \A y \in below[x] : below[y] \subseteq below[x],
         NEW p, p = [k \in 1..Cardinality(S) |-> p[k]],
         \A k \in 1..Cardinality(S) : \A x \in S :
           Cardinality(below[x]) = k - 1 => p[k] \in S /\ Cardinality(below[p[k]]) = k - 1
  PROVE  /\ p \in Bijection(1..Cardinality(S), S)
         /\ \A i, j \in 1..Cardinality(S) : i < j => p[i] \in below[p[j]]
<1> DEFINE size == Cardinality(S)
           rank == [x \in S |-> Cardinality(below[x]) + 1]
<1>1. size \in Nat
  BY FS_CardinalityType
<1>2. \A x \in S : IsFiniteSet(below[x]) /\ Cardinality(below[x]) \in Nat
  <2>1. \A x \in S : IsFiniteSet(below[x])
    BY FS_Subset
  <2>2. QED
    BY <2>1, FS_CardinalityType
<1>3. ASSUME NEW x \in S PROVE Cardinality(below[x]) + 1 \in 1..size
  <2>1. below[x] \in SUBSET S /\ below[x] # S
    OBVIOUS
  <2>2. Cardinality(below[x]) <= size /\ Cardinality(below[x]) # size
    BY <2>1, FS_Subset
  <2>3. QED
    BY <1>1, <1>2, <2>2
<1>4. ASSUME NEW x \in S, NEW y \in below[x]
      PROVE  y \in S /\ Cardinality(below[y]) < Cardinality(below[x])
  <2>1. y \in S /\ below[y] \in SUBSET below[x] /\ y \notin below[y]
    OBVIOUS
  <2>2. below[y] # below[x] /\ IsFiniteSet(below[x])
    BY <1>2, <2>1
  <2>3. /\ Cardinality(below[y]) <= Cardinality(below[x])
        /\ Cardinality(below[x]) # Cardinality(below[y])
    BY <2>1, <2>2, FS_Subset
  <2>4. QED
    BY <1>2, <2>1, <2>3
<1> HIDE DEF size
<1>5. rank \in [S -> 1..size]
  BY <1>3
<1>6. \A x, y \in S : y \in below[x] => rank[y] < rank[x]
  BY <1>2, <1>4
<1>7. \A x \in S : rank[x] \in 1..size
  BY <1>5
<1>8. \A x \in S : rank[x] = Cardinality(below[x]) + 1
  OBVIOUS
<1> HIDE DEF rank
<1>9. \A x, y \in S : rank[x] = rank[y] => x = y
  BY <1>1, <1>6, <1>7
<1>10. rank \in Injection(S, 1..size)
  BY <1>5, <1>9, Fun_IsInj
<1>11. IsFiniteSet(1..size) /\ Cardinality(1..size) = size /\ size = Cardinality(S)
  BY <1>1, FS_Interval DEF size
<1>12. rank \in Surjection(S, 1..size)
  BY <1>10, <1>11, FS_Injection
<1>13. ASSUME NEW k \in 1..size
       PROVE  p[k] \in S /\ rank[p[k]] = k
  <2>1. PICK x \in S : rank[x] = k
    BY <1>12 DEF Surjection
  <2>2. Cardinality(below[x]) = k - 1
    BY <1>2, <1>8, <2>1
  <2>3. p[k] \in S /\ Cardinality(below[p[k]]) = k - 1
    BY <2>1, <2>2 DEF size
  <2>4. QED
    BY <1>8, <2>3
<1>14. p \in Bijection(1..size, S)
  <2>1. p \in [1..size -> S]
    BY <1>13 DEF size
  <2>2. \A x \in S : p[rank[x]] = x
    BY <1>7, <1>9, <1>13
  <2>3. \A i, j \in 1..size : p[i] = p[j] => i = j
    BY <1>13
  <2>4. QED
    BY <1>7, <2>1, <2>2, <2>3, Fun_IsBij
<1>15. ASSUME NEW i \in 1..size, NEW j \in 1..size, i < j
       PROVE  p[i] \in below[p[j]]
  <2>1. p[i] \in S /\ p[j] \in S /\ rank[p[i]] = i /\ rank[p[j]] = j
    BY <1>13
  <2>2. rank[p[i]] < rank[p[j]]
    BY <1>15, <2>1
  <2>3. p[i] # p[j] /\ p[j] \notin below[p[i]]
    BY <1>1, <1>6, <1>7, <2>1, <2>2
  <2>4. QED
    BY <2>1, <2>3
<1>16. QED
  BY <1>14, <1>15 DEF size

(* Hence there is a list of them in that order.                            *)
LEMMA Ranking ==
  ASSUME NEW S, IsFiniteSet(S), NEW below \in [S -> SUBSET S],
         \A x \in S : x \notin below[x],
         \A x, y \in S : x # y => x \in below[y] \/ y \in below[x],
         \A x \in S : \A y \in below[x] : below[y] \subseteq below[x]
  PROVE  \E p \in Bijection(1..Cardinality(S), S) :
           \A i, j \in 1..Cardinality(S) : i < j => p[i] \in below[p[j]]
<1> DEFINE p == [k \in 1..Cardinality(S) |-> CHOOSE x \in S : Cardinality(below[x]) = k - 1]
<1>1. \A k \in 1..Cardinality(S) : \A x \in S :
        Cardinality(below[x]) = k - 1 => p[k] \in S /\ Cardinality(below[p[k]]) = k - 1
  OBVIOUS
<1>2. p = [k \in 1..Cardinality(S) |-> p[k]]
  OBVIOUS
<1> HIDE DEF p
<1>3. /\ p \in Bijection(1..Cardinality(S), S)
      /\ \A i, j \in 1..Cardinality(S) : i < j => p[i] \in below[p[j]]
  BY <1>1, <1>2, Enumerated
<1>4. QED
  BY <1>3

(* The elements of a file.                                                 *)
LEMMA RangeOfFile ==
  ASSUME NEW S, NEW file \in Seq(S)
  PROVE  /\ Range(file) = {file[i] : i \in 1..Len(file)}
         /\ Range(file) \subseteq S
         /\ IsFiniteSet(Range(file))
<1>1. Len(file) \in Nat /\ DOMAIN file = 1..Len(file) /\ \A i \in 1..Len(file) : file[i] \in S
  BY LenProperties, ElementOfSeq
<1>2. Range(file) = {file[i] : i \in 1..Len(file)}
  BY <1>1 DEF Range
<1>3. IsFiniteSet(Range(file))
  <2>1. file \in [1..Len(file) -> S]
    BY <1>1, LenProperties
  <2>2. file \in Surjection(1..Len(file), Range(file))
    BY <2>1, Fun_RangeProperties
  <2>3. IsFiniteSet(1..Len(file))
    <3>1. 1 \in Int /\ Len(file) \in Int
      BY <1>1
    <3>2. QED
      BY <3>1, FS_Interval
  <2>4. QED
    BY <2>2, <2>3, FS_Surjection
<1>4. QED
  BY <1>1, <1>2, <1>3

LEMMA LinksOfFile ==
  ASSUME NEW S, NEW file \in Seq(Links(S))
  PROVE  /\ LinksOf(file) = Range(file)
         /\ LinksOf(file) \subseteq Links(S)
         /\ IsFiniteSet(LinksOf(file))
<1>1. /\ Range(file) = {file[i] : i \in 1..Len(file)}
      /\ Range(file) \subseteq Links(S)
      /\ IsFiniteSet(Range(file))
  BY RangeOfFile
<1>2. LinksOf(file) = Range(file)
  BY <1>1 DEF LinksOf
<1>3. QED
  BY <1>1, <1>2

(* sort keeps the links of a file, and orders them.                        *)
LEMMA LinksSorted ==
  ASSUME NEW S, S \subseteq Nat, NEW file \in Seq(Links(S))
  PROVE  /\ SortedLinks(file) \in Seq(Links(S))
         /\ LinksOf(SortedLinks(file)) = LinksOf(file)
         /\ StrictlySorted(SortedLinks(file))
<1> DEFINE L == LinksOf(file)
           size == Cardinality(L)
           below == [e \in L |-> {f \in L : LinkLess(f, e)}]
           rank(e) == Cardinality({f \in L : LinkLess(f, e)})
           p == [k \in 1..size |-> CHOOSE e \in L : rank(e) = k - 1]
<1>1. IsFiniteSet(L) /\ L \subseteq Links(S) /\ size \in Nat
  BY LinksOfFile, FS_CardinalityType
<1>2. \A e \in L : e = [src |-> e.src, dst |-> e.dst] /\ e.src \in Nat /\ e.dst \in Nat
  BY <1>1 DEF Links
<1> HIDE DEF L
<1>3. below \in [L -> SUBSET L]
  OBVIOUS
<1>4. \A e \in L : e \notin below[e]
  BY <1>2 DEF LinkLess
<1>5. \A e, f \in L : e # f => e \in below[f] \/ f \in below[e]
  BY <1>2 DEF LinkLess
<1>6. \A e \in L : \A f \in below[e] : below[f] \subseteq below[e]
  BY <1>2 DEF LinkLess
<1>7. \A e, f \in L : e \in below[f] => LinkLess(e, f)
  OBVIOUS
<1>8. /\ SortedLinks(file) = p
      /\ p = [k \in 1..size |-> p[k]]
      /\ \A k \in 1..size : \A e \in L :
           Cardinality(below[e]) = k - 1 => p[k] \in L /\ Cardinality(below[p[k]]) = k - 1
  <2>1. \A e \in L : rank(e) = Cardinality(below[e])
    OBVIOUS
  <2>2. SortedLinks(file) = p
    BY DEF SortedLinks, L
  <2> HIDE DEF rank, below
  <2>3. \A k \in 1..size : \A e \in L : rank(e) = k - 1 => p[k] \in L /\ rank(p[k]) = k - 1
    OBVIOUS
  <2>4. QED
    BY <2>1, <2>2, <2>3
<1> HIDE DEF below, p
<1>9. p \in Bijection(1..size, L) /\ \A i, j \in 1..size : i < j => p[i] \in below[p[j]]
  BY <1>1, <1>3, <1>4, <1>5, <1>6, <1>8, Enumerated
<1> HIDE DEF size
<1>10. p \in [1..size -> L] /\ \A e \in L : \E k \in 1..size : p[k] = e
  BY <1>9 DEF Bijection, Injection, Surjection
<1>11. p \in Seq(Links(S)) /\ Len(p) = size
  <2>1. p \in [1..size -> Links(S)]
    BY <1>1, <1>10
  <2>2. QED
    BY <1>1, <2>1
<1>12. LinksOf(p) = L
  BY <1>10, <1>11 DEF LinksOf
<1>13. StrictlySorted(p)
  <2>1. \A i, j \in 1..size : i < j => LinkLess(p[i], p[j])
    BY <1>7, <1>9, <1>10
  <2>2. QED
    BY <1>11, <2>1 DEF StrictlySorted
<1>14. QED
  BY <1>8, <1>11, <1>12, <1>13 DEF L

(* Sorting changes nothing in a file that is sorted.                       *)
LEMMA SortedAlready ==
  ASSUME NEW S, S \subseteq Nat, NEW file \in Seq(Links(S)), StrictlySorted(file)
  PROVE  SortedLinks(file) = file
<1> DEFINE L == LinksOf(file)
           len == Len(file)
           rank(e) == Cardinality({f \in L : LinkLess(f, e)})
<1>1. /\ len \in Nat
      /\ \A k \in 1..len : file[k] \in L /\ file[k].src \in Nat /\ file[k].dst \in Nat
  <2>1. \A k \in 1..len : file[k] \in Links(S)
    BY ElementOfSeq
  <2>2. QED
    BY <2>1, LenProperties DEF Links, LinksOf
<1>2. \A i, j \in 1..len : LinkLess(file[i], file[j]) <=> i < j
  BY <1>1 DEF StrictlySorted, LinkLess
<1>3. \A i, j \in 1..len : file[i] = file[j] => i = j
  <2>1. \A i \in 1..len : ~ LinkLess(file[i], file[i])
    BY <1>1, <1>2
  <2>2. QED
    BY <1>1, <1>2, <2>1
<1>4. ASSUME NEW k \in 0..len
      PROVE  Cardinality({file[i] : i \in 1..k}) = k
  <2> DEFINE first == {file[i] : i \in 1..k}
             at == [i \in 1..k |-> file[i]]
  <2>1. at \in Bijection(1..k, first)
    <3>1. at \in [1..k -> first]
      OBVIOUS
    <3>2. \A i, j \in 1..k : at[i] = at[j] => i = j
      BY <1>1, <1>3
    <3>3. \A e \in first : \E i \in 1..k : at[i] = e
      OBVIOUS
    <3> HIDE DEF at, first
    <3>4. QED
      BY <3>1, <3>2, <3>3, Fun_IsBij
  <2>2. ExistsBijection(1..k, first)
    BY <2>1 DEF ExistsBijection
  <2>3. IsFiniteSet(1..k) /\ Cardinality(1..k) = k
    <3>1. 1 \in Int /\ k \in Int /\ k \in Nat
      BY <1>1
    <3>2. /\ IsFiniteSet(1..k)
          /\ Cardinality(1..k) = IF 1 > k THEN 0 ELSE k - 1 + 1
      BY <3>1, FS_Interval
    <3>3. QED
      BY <3>1, <3>2
  <2> HIDE DEF first
  <2>4. Cardinality(first) = k
    BY <2>2, <2>3, FS_Bijection
  <2>5. QED
    BY <2>4 DEF first
<1>5. Cardinality(L) = len
  BY <1>1, <1>4 DEF LinksOf
<1>6. ASSUME NEW k \in 1..len
      PROVE  {f \in L : LinkLess(f, file[k])} = {file[i] : i \in 1..(k - 1)}
  <2>1. L = {file[i] : i \in 1..len}
    BY DEF LinksOf
  <2>2. \A i \in 1..len : LinkLess(file[i], file[k]) <=> i \in 1..(k - 1)
    BY <1>1, <1>2
  <2>3. \A i \in 1..(k - 1) : i \in 1..len
    BY <1>1
  <2>4. QED
    BY <2>1, <2>2, <2>3
<1>7. ASSUME NEW k \in 1..len PROVE rank(file[k]) = k - 1
  <2>1. k - 1 \in 0..len
    BY <1>1
  <2>2. QED
    BY <1>4, <1>6, <2>1
<1> HIDE DEF rank
<1>8. ASSUME NEW k \in 1..len
      PROVE  (CHOOSE e \in L : rank(e) = k - 1) = file[k]
  <2>1. \A e \in L : rank(e) = k - 1 => e = file[k]
    <3>1. SUFFICES ASSUME NEW i \in 1..len, rank(file[i]) = k - 1 PROVE file[i] = file[k]
      BY DEF LinksOf
    <3>2. i - 1 = k - 1
      BY <1>7, <3>1
    <3>3. i = k
      BY <1>1, <3>2
    <3>4. QED
      BY <3>3
  <2>2. file[k] \in L /\ rank(file[k]) = k - 1
    BY <1>1, <1>7
  <2>3. QED
    BY <2>1, <2>2
<1>9. SortedLinks(file) = [k \in 1..len |-> CHOOSE e \in L : rank(e) = k - 1]
  BY <1>5 DEF SortedLinks, rank
<1>10. file = [k \in 1..len |-> file[k]]
  BY LenProperties
<1>11. QED
  BY <1>8, <1>9, <1>10

==============================================================================
