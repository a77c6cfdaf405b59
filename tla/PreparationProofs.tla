-------------------------- MODULE PreparationProofs --------------------------
(***************************************************************************)
(* What the first half of fhat.sh hands to dfs, dominate and retain, on    *)
(* every dump, with every column cut off anywhere and either orphan flag:  *)
(* sorted links between rows, a size in each row that belongs there, and a *)
(* graph in which the same instances are reached.                          *)
(*                                                                         *)
(* The proof follows the files: each is described by the ones it was made  *)
(* from, and the properties are those of the last description.             *)
(***************************************************************************)
EXTENDS Preparation, LinkFilesTheorems

NumRows == Len(instancesSorted)

(* What translate and sortcolumns search.                                  *)
KeysInOrder == instancesSorted = SortedKeys(instances)

(* What parse left on the disk.                                            *)
Input ==
  /\ instances \in Seq(Nat)
  /\ instances # << >> => instances[1] = 0
  /\ instancesSize \in Seq(Nat)
  /\ references \in Seq(Links(Nat))
  /\ orphansToZero \in BOOLEAN

(* A row has the size of a record with its key, as soon as there was one.  *)
Aligned ==
  /\ recordsSorted \in 0..Len(instances)
  /\ recordsSorted <= Len(instancesSize)
  /\ NumRows > 0
  /\ sizeSorted \in [1..NumRows -> Nat]
  /\ \A k \in 1..recordsSorted : \A row \in 1..NumRows :
       instances[k] = instancesSorted[row] =>
         \E m \in 1..recordsSorted :
           instances[m] = instances[k] /\ sizeSorted[row] = instancesSize[m]

(* What an identifier becomes.                                             *)
Packs(position, id) ==
  \/ position \in 0..(NumRows - 1) /\ instancesSorted[position + 1] = id
  \/ orphansToZero /\ position = 0 /\ id \notin Ids

PackedSoFar ==
  /\ packed \in Seq(Nat)
  /\ Len(packed) <= Len(stream)
  /\ \A i \in 1..Len(packed) : Packs(packed[i], stream[i])

ColumnsDone == Aligned /\ recordsSorted = Len(instances)

(* What translate reads.                                                   *)
StreamIs == stream = Flattened(SortedLinks(references))

PrepInv ==
  /\ Input
  /\ command \in {"sort instances", "sortcolumns", "translate", "prepared"}
  /\ command = "sort instances" \/ KeysInOrder
  /\ command = "sortcolumns" => /\ pc = "start" => recordsSorted = 0
                                /\ pc = "sorting" => Aligned
                                /\ pc = "done" => ColumnsDone
  /\ command \in {"translate", "prepared"} => ColumnsDone /\ StreamIs /\ PackedSoFar
  /\ command = "translate" /\ pc = "done" => Len(packed) = Len(stream)
  /\ command = "prepared" => Len(packed) = Len(stream) /\ packedSorted = SortedLinks(PackedLinks)

------------------------------------------------------------------------------
(* Columns *)

(* The sorted keys are those of the column, each once.                     *)
LEMMA KeysSorted ==
  ASSUME NEW column \in Seq(Nat)
  PROVE  /\ SortedKeys(column) \in Seq(Nat)
         /\ Range(SortedKeys(column)) = Range(column)
         /\ Len(SortedKeys(column)) <= Len(column)
         /\ \A i, j \in 1..Len(SortedKeys(column)) : i < j => SortedKeys(column)[i] < SortedKeys(column)[j]
<1> DEFINE K == Range(column)
           size == Cardinality(K)
           below == [key \in K |-> {other \in K : other < key}]
           rank(key) == Cardinality({other \in K : other < key})
           p == [row \in 1..size |-> CHOOSE key \in K : rank(key) = row - 1]
<1>1. IsFiniteSet(K) /\ K \subseteq Nat /\ size \in Nat
  BY RangeOfFile, FS_CardinalityType
<1>2. below \in [K -> SUBSET K] /\ \A x \in K : x \notin below[x]
  BY <1>1
<1>3. \A x, y \in K : x # y => x \in below[y] \/ y \in below[x]
  BY <1>1
<1>4. \A x \in K : \A y \in below[x] : below[y] \subseteq below[x]
  BY <1>1
<1>5. \A x, y \in K : x \in below[y] => x < y
  OBVIOUS
<1>6. /\ SortedKeys(column) = p
      /\ p = [row \in 1..size |-> p[row]]
      /\ \A row \in 1..size : \A key \in K :
           Cardinality(below[key]) = row - 1 => p[row] \in K /\ Cardinality(below[p[row]]) = row - 1
  <2>1. \A key \in K : rank(key) = Cardinality(below[key])
    OBVIOUS
  <2>2. SortedKeys(column) = p
    BY DEF SortedKeys
  <2> HIDE DEF rank, below, K
  <2>3. \A row \in 1..size : \A key \in K : rank(key) = row - 1 => p[row] \in K /\ rank(p[row]) = row - 1
    OBVIOUS
  <2>4. QED
    BY <2>1, <2>2, <2>3
<1> HIDE DEF below, p, K
<1>7. p \in Bijection(1..size, K) /\ \A i, j \in 1..size : i < j => p[i] \in below[p[j]]
  <2> HIDE DEF rank
  <2>1. IsFiniteSet(K)
    BY <1>1
  <2>2. \A row \in 1..size : \A key \in K :
          Cardinality(below[key]) = row - 1 => p[row] \in K /\ Cardinality(below[p[row]]) = row - 1
    BY <1>6
  <2>3. below \in [K -> SUBSET K]
    BY <1>2
  <2>4. \A x \in K : x \notin below[x]
    BY <1>2
  <2>5. p = [row \in 1..size |-> p[row]]
    BY <1>6
  <2>6. QED
    BY <2>1, <2>2, <2>3, <2>4, <2>5, <1>3, <1>4, Enumerated
<1> HIDE DEF size
<1>8. p \in [1..size -> K] /\ \A key \in K : \E row \in 1..size : p[row] = key
  BY <1>7 DEF Bijection, Injection, Surjection
<1>9. p \in Seq(Nat) /\ Len(p) = size
  <2>1. p \in [1..size -> Nat]
    BY <1>1, <1>8
  <2>2. QED
    BY <1>1, <2>1
<1>10. Range(p) = K
  <2>1. Range(p) = {p[i] : i \in 1..size}
    BY <1>9, RangeOfFile
  <2>2. QED
    BY <1>8, <2>1
<1>11. \A i, j \in 1..size : i < j => p[i] < p[j]
  BY <1>5, <1>7, <1>8
<1>12. size <= Len(column)
  <2>1. Len(column) \in Nat /\ column \in [1..Len(column) -> Nat]
    BY LenProperties
  <2>2. column \in Surjection(1..Len(column), K)
    BY <2>1, Fun_RangeProperties DEF K
  <2>3. IsFiniteSet(1..Len(column)) /\ Cardinality(1..Len(column)) = Len(column)
    <3>1. 1 \in Int /\ Len(column) \in Int
      BY <2>1
    <3>2. /\ IsFiniteSet(1..Len(column))
          /\ Cardinality(1..Len(column)) = IF 1 > Len(column) THEN 0 ELSE Len(column) - 1 + 1
      BY <3>1, FS_Interval
    <3>3. QED
      BY <2>1, <3>2
  <2>4. QED
    BY <2>2, <2>3, FS_Surjection DEF size
<1>13. QED
  BY <1>6, <1>9, <1>10, <1>11, <1>12 DEF K

(* lower_bound finds a key that is there, and its place if it is not.      *)
LEMMA KeyFound ==
  ASSUME NEW keys \in Seq(Nat), NEW key \in Nat,
         \A i, j \in 1..Len(keys) : i < j => keys[i] < keys[j]
  PROVE  /\ KeyLowerBound(keys, key) \in 1..(Len(keys) + 1)
         /\ key \in Range(keys) =>
              KeyLowerBound(keys, key) <= Len(keys) /\ keys[KeyLowerBound(keys, key)] = key
<1> DEFINE below == {j \in 1..Len(keys) : keys[j] < key}
           p == KeyLowerBound(keys, key)
<1>1. Len(keys) \in Nat /\ \A i \in 1..Len(keys) : keys[i] \in Nat
  BY LenProperties, ElementOfSeq
<1>2. \A i, j \in 1..Len(keys) : i < j /\ j \in below => i \in below
  BY <1>1
<1>3. \A j \in 1..Len(keys) : j \in below <=> keys[j] < key
  OBVIOUS
<1>4. p = PartitionPoint(Len(keys), below)
  BY DEF KeyLowerBound
<1> HIDE DEF below, p
<1>5. p \in 1..(Len(keys) + 1) /\ \A j \in 1..Len(keys) : j \in below <=> j < p
  BY <1>1, <1>2, <1>4, PartitionPointSplits
<1>6. ASSUME key \in Range(keys) PROVE p <= Len(keys) /\ keys[p] = key
  <2>1. PICK j \in 1..Len(keys) : keys[j] = key
    BY <1>6, RangeOfFile
  <2>2. ~ (j < p)
    BY <1>1, <1>3, <1>5, <2>1
  <2>3. p \in 1..Len(keys) /\ (p = j \/ p < j)
    BY <1>1, <1>5, <2>1, <2>2
  <2>4. ~ (keys[p] < key)
    BY <1>3, <1>5, <2>3
  <2>5. QED
    BY <1>1, <2>1, <2>3, <2>4
<1>7. QED
  BY <1>5, <1>6 DEF p

(* The rows of the sorted keys.                                            *)
LEMMA Rows ==
  ASSUME Input, KeysInOrder
  PROVE  /\ instancesSorted \in Seq(Nat)
         /\ NumRows \in Nat /\ NumRows <= Len(instances)
         /\ \A i \in 1..NumRows : instancesSorted[i] \in Nat /\ instancesSorted[i] \in Ids
         /\ \A id \in Ids : \E i \in 1..NumRows : instancesSorted[i] = id
         /\ \A i, j \in 1..NumRows : i < j => instancesSorted[i] < instancesSorted[j]
         /\ \A i, j \in 1..NumRows : instancesSorted[i] = instancesSorted[j] => i = j
         /\ NumRows > 0 => instancesSorted[1] = 0 /\ 0 \in Ids
<1>1. instances \in Seq(Nat) /\ instancesSorted = SortedKeys(instances)
  BY DEF Input, KeysInOrder
<1>2. /\ instancesSorted \in Seq(Nat)
      /\ Range(instancesSorted) = Ids
      /\ NumRows <= Len(instances) /\ NumRows \in Nat
      /\ \A i, j \in 1..NumRows : i < j => instancesSorted[i] < instancesSorted[j]
  BY <1>1, KeysSorted, LenProperties DEF Ids, NumRows
<1>3. Ids = {instancesSorted[i] : i \in 1..NumRows}
  BY <1>2, RangeOfFile DEF NumRows
<1>4. \A i \in 1..NumRows : instancesSorted[i] \in Nat
  BY <1>2, ElementOfSeq DEF NumRows
<1>5. ASSUME NEW i \in 1..NumRows, NEW j \in 1..NumRows, instancesSorted[i] = instancesSorted[j]
      PROVE  i = j
  <2>1. ~ (i < j) /\ ~ (j < i)
    <3>1. ~ (instancesSorted[i] < instancesSorted[j]) /\ ~ (instancesSorted[j] < instancesSorted[i])
      BY <1>4, <1>5
    <3>2. QED
      BY <1>2, <3>1
  <2>2. QED
    BY <1>2, <2>1
<1>6. NumRows \in Nat /\ NumRows <= Len(instances) /\ Len(instances) \in Nat
  BY <1>1, <1>2, LenProperties
<1>7. ASSUME NumRows > 0 PROVE instancesSorted[1] = 0 /\ 0 \in Ids
  <2>1. 1 \in 1..NumRows /\ 1 \in 1..Len(instances) /\ Len(instances) # 0
    BY <1>6, <1>7
  <2>2. instances[1] = 0
    <3>1. instances # << >>
      BY <2>1, EmptySeq
    <3>2. QED
      BY <3>1 DEF Input
  <2>3. 0 \in Ids
    <3>1. Ids = {instances[i] : i \in 1..Len(instances)}
      BY <1>1, RangeOfFile DEF Ids
    <3>2. QED
      BY <2>1, <2>2, <3>1
  <2>4. PICK i \in 1..NumRows : instancesSorted[i] = 0
    BY <1>3, <2>3
  <2>5. ~ (1 < i)
    <3>1. instancesSorted[1] \in Nat
      BY <1>4, <2>1
    <3>2. ~ (instancesSorted[1] < instancesSorted[i])
      BY <2>4, <3>1
    <3>3. QED
      BY <1>2, <2>1, <3>2
  <2>6. i = 1
    BY <1>6, <2>5
  <2>7. QED
    BY <2>3, <2>4, <2>6
<1>8. QED
  BY <1>2, <1>3, <1>4, <1>5, <1>7

(* A column that is cut off keeps its beginning.                           *)
LEMMA Cut ==
  ASSUME NEW S, NEW column \in Seq(S), NEW part \in Written(column)
  PROVE  part \in Seq(S) /\ (part # << >> => column # << >> /\ part[1] = column[1])
<1>1. CASE part = column
  BY <1>1
<1>2. CASE part # column
  <2>1. PICK len \in 0..Len(column) : part = SubSeq(column, 1, len)
    BY <1>2 DEF Written, Prefixes
  <2>2. Len(column) \in Nat /\ len \in Nat
    BY LenProperties
  <2>3. part \in Seq(S) /\ Len(part) = len /\ \A i \in 1..len : part[i] = column[i]
    BY <2>1, <2>2
  <2>4. ASSUME part # << >> PROVE column # << >> /\ part[1] = column[1]
    <3>1. len # 0
      BY <2>3, <2>4, EmptySeq
    <3>2. QED
      BY <2>2, <2>3, <3>1, EmptySeq
  <2>5. QED
    BY <2>3, <2>4
<1>3. QED
  BY <1>1, <1>2

(* Two nodes a link, and back.                                             *)
LEMMA StreamOfLinks ==
  ASSUME NEW file \in Seq(Links(Nat))
  PROVE  /\ Flattened(file) \in Seq(Nat)
         /\ Len(Flattened(file)) = 2 * Len(file)
         /\ \A k \in 1..Len(file) : /\ Flattened(file)[2 * k - 1] = file[k].src
                                    /\ Flattened(file)[2 * k] = file[k].dst
<1> DEFINE nodes == 1..(2 * Len(file))
<1>1. Len(file) \in Nat /\ \A k \in 1..Len(file) : file[k].src \in Nat /\ file[k].dst \in Nat
  <2>1. \A k \in 1..Len(file) : file[k] \in Links(Nat)
    BY ElementOfSeq
  <2>2. QED
    BY <2>1, LenProperties DEF Links
<1>2. \A i \in nodes : (i + 1) \div 2 \in 1..Len(file)
  BY <1>1
<1>3. Flattened(file) = [i \in nodes |-> IF i % 2 = 1 THEN file[(i + 1) \div 2].src
                                                    ELSE file[(i + 1) \div 2].dst]
  BY DEF Flattened
<1>4. Flattened(file) \in [nodes -> Nat]
  BY <1>1, <1>2, <1>3
<1>5. 2 * Len(file) \in Nat
  BY <1>1
<1>6. Flattened(file) \in Seq(Nat) /\ Len(Flattened(file)) = 2 * Len(file)
  BY <1>4, <1>5
<1>7. ASSUME NEW k \in 1..Len(file)
      PROVE  Flattened(file)[2 * k - 1] = file[k].src /\ Flattened(file)[2 * k] = file[k].dst
  <2>1. /\ 2 * k - 1 \in nodes /\ (2 * k - 1) % 2 = 1 /\ (2 * k - 1 + 1) \div 2 = k
        /\ 2 * k \in nodes /\ (2 * k) % 2 = 0 /\ (2 * k + 1) \div 2 = k
    BY <1>1
  <2>2. QED
    BY <1>3, <2>1
<1>8. QED
  BY <1>6, <1>7

------------------------------------------------------------------------------
(* The commands *)

(* Writing the row of the next key keeps the others aligned: its row is    *)
(* the only one with this key.                                             *)
LEMMA RecordSorted ==
  ASSUME Input, KeysInOrder, Aligned, C!SortRecord
  PROVE  Aligned'
<1> DEFINE r == recordsSorted + 1
           row0 == C!Row
<1>1. /\ instancesSorted' = instancesSorted /\ instances' = instances
      /\ instancesSize' = instancesSize /\ recordsSorted' = r
      /\ recordsSorted < Len(instances) /\ recordsSorted < Len(instancesSize)
      /\ row0 \in 1..NumRows /\ instancesSorted[row0] = instances[r]
      /\ sizeSorted' = [sizeSorted EXCEPT ![row0] = instancesSize[r]]
  BY DEF C!SortRecord, C!Files, C!More, C!HasValue, C!Key, C!ValueOf, NumRows
<1>2. /\ Len(instances) \in Nat /\ Len(instancesSize) \in Nat
      /\ \A k \in 1..Len(instancesSize) : instancesSize[k] \in Nat
  BY LenProperties, ElementOfSeq DEF Input
<1> HIDE DEF row0
<1>3. /\ recordsSorted \in 0..Len(instances) /\ NumRows > 0
      /\ sizeSorted \in [1..NumRows -> Nat] /\ NumRows' = NumRows
  BY <1>1 DEF Aligned, NumRows
<1>4. r \in 1..Len(instances) /\ r <= Len(instancesSize) /\ instancesSize[r] \in Nat
  BY <1>1, <1>2, <1>3
<1>5. sizeSorted' \in [1..NumRows -> Nat] /\ sizeSorted'[row0] = instancesSize[r]
      /\ \A row \in 1..NumRows : row # row0 => sizeSorted'[row] = sizeSorted[row]
  BY <1>1, <1>3, <1>4
<1>6. ASSUME NEW k \in 1..r, NEW row \in 1..NumRows, instances[k] = instancesSorted[row]
      PROVE  \E m \in 1..r : instances[m] = instances[k] /\ sizeSorted'[row] = instancesSize[m]
  <2>1. CASE row = row0
    <3>1. r \in 1..r
      BY <1>2, <1>4
    <3>2. QED
      BY <1>1, <1>5, <1>6, <2>1, <3>1
  <2>2. CASE row # row0
    <3>1. k # r
      BY <1>1, <1>6, <2>2, Rows
    <3>2. k \in 1..recordsSorted
      BY <1>2, <1>3, <3>1
    <3>3. PICK m \in 1..recordsSorted : instances[m] = instances[k] /\ sizeSorted[row] = instancesSize[m]
      BY <1>6, <3>2 DEF Aligned
    <3>4. m \in 1..r
      BY <1>2, <1>3
    <3>5. QED
      BY <1>5, <2>2, <3>3, <3>4
  <2>3. QED
    BY <2>1, <2>2
<1>7. QED
  BY <1>1, <1>3, <1>4, <1>5, <1>6 DEF Aligned

(* The nodes translate reads.                                              *)
LEMMA StreamNodes ==
  ASSUME Input, StreamIs
  PROVE  /\ SortedLinks(references) \in Seq(Links(Nat))
         /\ stream \in Seq(Nat)
         /\ Len(stream) = 2 * Len(SortedLinks(references))
         /\ \A k \in 1..Len(SortedLinks(references)) :
              /\ stream[2 * k - 1] = SortedLinks(references)[k].src
              /\ stream[2 * k] = SortedLinks(references)[k].dst
<1>1. SortedLinks(references) \in Seq(Links(Nat))
  <2>1. references \in Seq(Links(Nat))
    BY DEF Input
  <2>2. QED
    BY <2>1, LinksSorted
<1>2. QED
  BY <1>1, StreamOfLinks DEF StreamIs

(* The next node is packed to its row, or to the root if it has none.      *)
LEMMA NodePacked ==
  ASSUME Input, KeysInOrder, StreamIs, PackedSoFar, instances' = instances,
         T!TranslateNode \/ T!TurnOrphan
  PROVE  PackedSoFar'
<1> DEFINE k == Len(packed) + 1
           position == T!Position
<1>1. /\ orphansToZero' = orphansToZero /\ instancesSorted' = instancesSorted /\ stream' = stream
      /\ Len(packed) < Len(stream)
      /\ position = KeyLowerBound(instancesSorted, stream[k])
      /\ position <= Len(instancesSorted)
  <2>1. \A column, key : T!KeyLowerBound(column, key) = KeyLowerBound(column, key)
    BY DEF T!KeyLowerBound, KeyLowerBound, T!PartitionPoint, PartitionPoint
  <2>2. position = T!KeyLowerBound(instancesSorted, stream[k])
    BY DEF T!Position, T!Node
  <2> HIDE DEF position
  <2>3. /\ orphansToZero' = orphansToZero /\ instancesSorted' = instancesSorted /\ stream' = stream
        /\ Len(packed) < Len(stream)
        /\ T!Position <= Len(instancesSorted)
    BY DEF T!TranslateNode, T!TurnOrphan, T!Files, T!More, T!InColumn
  <2>4. QED
    BY <2>1, <2>2, <2>3 DEF position
<1>2. /\ Len(packed) \in Nat /\ Len(stream) \in Nat /\ packed \in Seq(Nat)
      /\ \A i \in 1..Len(packed) : packed[i] \in Nat
      /\ \A i \in 1..Len(stream) : stream[i] \in Nat
  BY StreamNodes, LenProperties, ElementOfSeq DEF PackedSoFar
<1>3. k \in 1..Len(stream) /\ stream[k] \in Nat
  BY <1>1, <1>2
<1>4. /\ position \in 1..NumRows /\ NumRows \in Nat
      /\ stream[k] \in Ids => instancesSorted[position] = stream[k]
  <2>1. /\ instancesSorted \in Seq(Nat)
        /\ \A i, j \in 1..Len(instancesSorted) : i < j => instancesSorted[i] < instancesSorted[j]
        /\ NumRows \in Nat /\ NumRows = Len(instancesSorted)
    BY Rows DEF NumRows
  <2>2. Ids = Range(instancesSorted)
    BY KeysSorted DEF KeysInOrder, Ids, Input
  <2>3. /\ KeyLowerBound(instancesSorted, stream[k]) \in 1..(Len(instancesSorted) + 1)
        /\ stream[k] \in Range(instancesSorted) =>
              instancesSorted[KeyLowerBound(instancesSorted, stream[k])] = stream[k]
    BY <1>3, <2>1, KeyFound
  <2> HIDE DEF position
  <2>4. QED
    BY <1>1, <2>1, <2>2, <2>3
<1>5. \E q \in Nat : packed' = Append(packed, q) /\ Packs(q, stream[k])
  <2>1. CASE T!TranslateNode
    <3>1. /\ packed' = Append(packed, position - 1)
          /\ instancesSorted[position] = stream[k]
      BY <2>1 DEF T!TranslateNode, T!PositionOf, T!Position, T!Node, T!IsOrphan
    <3> HIDE DEF position, k
    <3>2. position - 1 \in 0..(NumRows - 1) /\ position - 1 + 1 = position
      BY <1>4
    <3>3. Packs(position - 1, stream[k]) /\ position - 1 \in Nat
      BY <3>1, <3>2 DEF Packs
    <3>4. QED
      BY <3>1, <3>3
  <2>2. CASE T!TurnOrphan
    <3>1. packed' = Append(packed, 0) /\ orphansToZero /\ instancesSorted[position] # stream[k]
      BY <2>2 DEF T!TurnOrphan, T!Node, T!IsOrphan
    <3> HIDE DEF position, k
    <3>2. stream[k] \notin Ids
      BY <1>4, <3>1
    <3>3. Packs(0, stream[k])
      BY <3>1, <3>2 DEF Packs
    <3>4. QED
      BY <3>1, <3>3
  <2>3. QED
    BY <2>1, <2>2
<1>6. PICK q \in Nat : packed' = Append(packed, q) /\ Packs(q, stream[k])
  BY <1>5
<1>7. /\ packed' \in Seq(Nat) /\ Len(packed') = k /\ packed'[k] = q
      /\ \A i \in 1..Len(packed) : packed'[i] = packed[i]
  BY <1>2, <1>6
<1>8. \A i \in 1..k : Packs(packed'[i], stream[i])
  <2>1. \A i \in 1..k : i = k \/ i \in 1..Len(packed)
    BY <1>2
  <2> HIDE DEF k
  <2>2. QED
    BY <1>6, <1>7, <2>1 DEF PackedSoFar
<1>9. \A position1, id : Packs(position1, id)' <=> Packs(position1, id)
  BY <1>1 DEF Packs, NumRows, Ids
<1> HIDE DEF k
<1>10. k <= Len(stream)
  BY <1>3, <1>2
<1>11. QED
  BY <1>1, <1>7, <1>8, <1>9, <1>10 DEF PackedSoFar

(* What a command does not write keeps its description.                    *)
LEMMA Untouched ==
  /\ UNCHANGED parseVars => Input' = Input
  /\ UNCHANGED <<parseVars, instancesSorted>> => KeysInOrder' = KeysInOrder
  /\ UNCHANGED <<parseVars, columnVars>> => Aligned' = Aligned /\ ColumnsDone' = ColumnsDone
  /\ UNCHANGED <<parseVars, stream>> => StreamIs' = StreamIs
  /\ UNCHANGED <<parseVars, instancesSorted, stream, packed>> => PackedSoFar' = PackedSoFar
<1>1. UNCHANGED parseVars => Input' = Input
  BY DEF parseVars, Input
<1>2. UNCHANGED <<parseVars, instancesSorted>> => KeysInOrder' = KeysInOrder
  BY DEF parseVars, KeysInOrder
<1>3. UNCHANGED <<parseVars, columnVars>> => Aligned' = Aligned /\ ColumnsDone' = ColumnsDone
  BY DEF parseVars, columnVars, Aligned, ColumnsDone, NumRows
<1>4. UNCHANGED <<parseVars, stream>> => StreamIs' = StreamIs
  BY DEF parseVars, StreamIs
<1>5. UNCHANGED <<parseVars, instancesSorted, stream, packed>> => PackedSoFar' = PackedSoFar
  BY DEF parseVars, PackedSoFar, Packs, NumRows, Ids
<1>6. QED
  BY <1>1, <1>2, <1>3, <1>4, <1>5

(* What parse leaves is of the right kind, wherever it was cut off.        *)
LEMMA InitInput == Init => Input
<1> SUFFICES ASSUME Init PROVE Input
  OBVIOUS
<1>1. PICK dump \in Dumps : /\ instances \in Written(dump.ids)
                            /\ instancesSize \in Written(dump.sizes)
                            /\ references \in Written(dump.references)
  BY DEF Init
<1>2. /\ dump.ids \in Seq(Nat) /\ dump.ids[1] = 0
      /\ dump.sizes \in [1..Len(dump.ids) -> Nat]
      /\ dump.references \in Seq(Links(Nat))
  BY DumpsAssumption
<1>3. dump.sizes \in Seq(Nat)
  <2>1. Len(dump.ids) \in Nat
    BY <1>2, LenProperties
  <2>2. \A len \in Nat : \A f \in [1..len -> Nat] : f \in Seq(Nat)
    OBVIOUS
  <2>3. QED
    BY <1>2, <2>1, <2>2
<1>4. instances \in Seq(Nat) /\ (instances # << >> => instances[1] = 0)
  BY <1>1, <1>2, Cut
<1>5. instancesSize \in Seq(Nat) /\ references \in Seq(Links(Nat))
  BY <1>1, <1>2, <1>3, Cut
<1>6. orphansToZero \in BOOLEAN
  BY DotsAssumption DEF Init
<1>7. QED
  BY <1>4, <1>5, <1>6 DEF Input

(* The fresh output is aligned with no records.                            *)
LEMMA ColumnMapped ==
  ASSUME Input, KeysInOrder, recordsSorted = 0, C!MapColumn
  PROVE  pc' = "sorting" => Aligned'
<1>1. SUFFICES ASSUME pc' = "sorting" PROVE Aligned'
  OBVIOUS
<1>2. /\ instancesSorted' = instancesSorted /\ instances' = instances
      /\ instancesSize' = instancesSize /\ recordsSorted' = 0
      /\ instancesSorted # << >> /\ sizeSorted' = [j \in 1..NumRows |-> 0]
  BY <1>1 DEF C!MapColumn, C!Files, NumRows
<1>3. NumRows \in Nat /\ NumRows # 0 /\ NumRows' = NumRows
  <2>1. NumRows' = NumRows
    BY <1>2 DEF NumRows
  <2>2. instancesSorted \in Seq(Nat)
    BY Rows
  <2>3. QED
    BY <1>2, <2>1, <2>2, EmptySeq, LenProperties DEF NumRows
<1>4. Len(instances) \in Nat /\ Len(instancesSize) \in Nat
  BY LenProperties DEF Input
<1>5. 1..recordsSorted' = {}
  BY <1>2
<1>6. QED
  BY <1>2, <1>3, <1>4, <1>5 DEF Aligned

(* Each command finds its input as described, and leaves its output so.   *)
THEOREM PrepInvariance == Spec => []PrepInv
<1>1. Init => PrepInv
  BY InitInput DEF Init, PrepInv
<1>2. PrepInv /\ [Next]_vars => PrepInv'
  <2> SUFFICES ASSUME PrepInv, [Next]_vars PROVE PrepInv'
    OBVIOUS
  <2>1. CASE SortInstances
    <3>1. Input' /\ KeysInOrder' /\ command' = "sortcolumns" /\ pc' = "start" /\ recordsSorted' = 0
      BY <2>1, Untouched DEF SortInstances, PrepInv, parseVars, C!Load, KeysInOrder
    <3>2. QED
      BY <3>1 DEF PrepInv
  <2>2. CASE RunSortColumns
    <3>1. /\ command = "sortcolumns" /\ command' = "sortcolumns"
          /\ Input /\ Input' /\ KeysInOrder /\ UNCHANGED parseVars
      BY <2>2, Untouched DEF RunSortColumns, PrepInv, sortVars
    <3>2. KeysInOrder'
      <4>1. instancesSorted' = instancesSorted
        BY <2>2 DEF RunSortColumns, C!Next, C!MapColumn, C!SortRecord, C!Crash, C!Finish, C!Files
      <4>2. QED
        BY <3>1, <4>1, Untouched
    <3>3. /\ pc' = "start" => recordsSorted' = 0
          /\ pc' = "sorting" => Aligned'
          /\ pc' = "done" => ColumnsDone'
      <4>1. CASE C!MapColumn
        <5>1. recordsSorted = 0 /\ pc' \in {"sorting", "abort"}
          BY <3>1, <4>1 DEF PrepInv, C!MapColumn
        <5>2. QED
          BY <3>1, <4>1, <5>1, ColumnMapped
      <4>2. CASE C!SortRecord
        <5>1. Aligned /\ pc' = "sorting"
          BY <3>1, <4>2 DEF PrepInv, C!SortRecord
        <5>2. QED
          BY <3>1, <4>2, <5>1, RecordSorted
      <4>3. CASE C!Crash
        BY <4>3 DEF C!Crash
      <4>4. CASE C!Finish
        <5>1. Aligned /\ pc' = "done" /\ ~ (recordsSorted < Len(instances)) /\ UNCHANGED columnVars
          BY <3>1, <4>4 DEF PrepInv, C!Finish, C!More, C!Files, columnVars
        <5>2. recordsSorted = Len(instances)
          <6>1. Len(instances) \in Nat
            BY <3>1, LenProperties DEF Input
          <6>2. QED
            BY <5>1, <6>1 DEF Aligned
        <5>3. ColumnsDone'
          BY <3>1, <5>1, <5>2, Untouched DEF ColumnsDone
        <5>4. QED
          BY <5>1, <5>3
      <4>5. QED
        BY <2>2, <4>1, <4>2, <4>3, <4>4 DEF RunSortColumns, C!Next
    <3>4. QED
      BY <3>1, <3>2, <3>3 DEF PrepInv
  <2>3. CASE SortReferences
    <3>1. /\ command' = "translate" /\ pc' = "start" /\ packed' = << >>
          /\ UNCHANGED <<parseVars, columnVars>>
          /\ Input /\ KeysInOrder /\ ColumnsDone
          /\ stream' = Flattened(SortedLinks(references))
      BY <2>3 DEF SortReferences, PrepInv, T!Load
    <3>2. Input' /\ KeysInOrder' /\ ColumnsDone'
      <4>1. instancesSorted' = instancesSorted
        BY <3>1 DEF columnVars
      <4>2. QED
        BY <3>1, <4>1, Untouched
    <3>3. StreamIs' /\ PackedSoFar'
      <4>1. StreamIs'
        BY <3>1 DEF StreamIs, parseVars
      <4>2. Flattened(SortedLinks(references)) \in Seq(Nat)
        BY <3>1, LinksSorted, StreamOfLinks DEF Input
      <4>3. /\ stream' \in Seq(Nat) /\ Len(stream') \in Nat
            /\ packed' \in Seq(Nat) /\ Len(packed') = 0
        BY <3>1, <4>2, EmptySeq, LenProperties
      <4>4. QED
        BY <4>1, <4>3 DEF PackedSoFar
    <3>4. QED
      BY <3>1, <3>2, <3>3 DEF PrepInv
  <2>4. CASE RunTranslate
    <3>1. /\ command = "translate" /\ command' = "translate"
          /\ UNCHANGED <<parseVars, columnVars>> /\ UNCHANGED stream
          /\ Input /\ KeysInOrder /\ ColumnsDone /\ StreamIs /\ PackedSoFar
          /\ pc = "done" => Len(packed) = Len(stream)
      BY <2>4 DEF RunTranslate, PrepInv, sortVars, T!Next, T!Open, T!TranslateNode, T!TurnOrphan,
                  T!Refuse, T!Finish, T!Files
    <3>2. Input' /\ KeysInOrder' /\ ColumnsDone' /\ StreamIs'
      <4>1. instancesSorted' = instancesSorted
        BY <3>1 DEF columnVars
      <4>2. QED
        BY <3>1, <4>1, Untouched
    <3>3. PackedSoFar' /\ (pc' = "done" => Len(packed') = Len(stream'))
      <4>1. CASE T!TranslateNode \/ T!TurnOrphan
        <5>1. instances' = instances /\ pc' = "translating"
          BY <3>1, <4>1 DEF parseVars, T!TranslateNode, T!TurnOrphan
        <5>2. PackedSoFar'
          BY <3>1, <4>1, <5>1, NodePacked
        <5>3. QED
          BY <5>1, <5>2
      <4>2. CASE T!Open \/ T!Refuse \/ T!Finish
        <5>1. packed' = packed
          BY <4>2 DEF T!Open, T!Refuse, T!Finish
        <5>2. PackedSoFar'
          <6>1. instancesSorted' = instancesSorted
            BY <3>1 DEF columnVars
          <6>2. QED
            BY <3>1, <5>1, <6>1, Untouched
        <5>3. ASSUME pc' = "done" PROVE Len(packed') = Len(stream')
          <6>1. T!Finish
            BY <4>2, <5>3 DEF T!Open, T!Refuse
          <6>2. ~ (Len(packed) < Len(stream))
            BY <6>1 DEF T!Finish, T!More
          <6>3. Len(packed) <= Len(stream) /\ Len(packed) \in Nat /\ Len(stream) \in Nat
            BY <3>1, StreamNodes, LenProperties DEF PackedSoFar
          <6>4. Len(packed) = Len(stream)
            BY <6>2, <6>3
          <6>5. QED
            BY <3>1, <5>1, <6>4
        <5>4. QED
          BY <5>2, <5>3
      <4>3. QED
        BY <2>4, <4>1, <4>2 DEF RunTranslate, T!Next
    <3>4. QED
      BY <3>1, <3>2, <3>3 DEF PrepInv
  <2>5. CASE SortPacked
    <3>1. /\ command = "translate" /\ pc = "done" /\ command' = "prepared"
          /\ UNCHANGED <<parseVars, columnVars>> /\ UNCHANGED <<stream, packed>>
          /\ packedSorted' = SortedLinks(PackedLinks)
          /\ Input /\ KeysInOrder /\ ColumnsDone /\ StreamIs /\ PackedSoFar
          /\ Len(packed) = Len(stream)
      BY <2>5 DEF SortPacked, PrepInv, Resorted, translateVars
    <3>2. Input' /\ KeysInOrder' /\ ColumnsDone' /\ StreamIs' /\ PackedSoFar'
      <4>1. instancesSorted' = instancesSorted
        BY <3>1 DEF columnVars
      <4>2. QED
        BY <3>1, <4>1, Untouched
    <3>3. packedSorted' = SortedLinks(PackedLinks)' /\ Len(packed') = Len(stream')
      BY <3>1 DEF PackedLinks
    <3>4. QED
      BY <3>1, <3>2, <3>3 DEF PrepInv
  <2>6. CASE UNCHANGED vars
    <3>1. UNCHANGED <<parseVars, columnVars>> /\ UNCHANGED <<instancesSorted, stream, packed, packedSorted>>
          /\ UNCHANGED <<command, pc, recordsSorted>>
      BY <2>6 DEF vars, sortVars, columnVars, translateVars
    <3>2. /\ Input' = Input /\ KeysInOrder' = KeysInOrder /\ Aligned' = Aligned
          /\ ColumnsDone' = ColumnsDone /\ StreamIs' = StreamIs /\ PackedSoFar' = PackedSoFar
      BY <3>1, Untouched
    <3>3. SortedLinks(PackedLinks)' = SortedLinks(PackedLinks)
      BY <3>1 DEF PackedLinks
    <3>4. QED
      BY <3>1, <3>2, <3>3 DEF PrepInv
  <2>7. QED
    BY <2>1, <2>2, <2>3, <2>4, <2>5, <2>6 DEF Next
<1>3. QED
  BY <1>1, <1>2, PTL DEF Spec

------------------------------------------------------------------------------
(* What is handed over *)

(* A node and a row belong together in one way only.                       *)
LEMMA PackedOnce ==
  ASSUME Input, KeysInOrder, NumRows > 0, NEW q, NEW id, Packs(q, id)
  PROVE  /\ q \in 0..(NumRows - 1)
         /\ id \in Ids => instancesSorted[q + 1] = id
         /\ id \notin Ids => q = 0
         /\ \A other : Packs(other, id) => other = q
<1>1. NumRows \in Nat /\ \A i \in 1..NumRows : instancesSorted[i] \in Ids
  BY Rows
<1>2. q \in 0..(NumRows - 1)
  BY <1>1 DEF Packs
<1>3. id \in Ids => instancesSorted[q + 1] = id
  BY DEF Packs
<1>4. ASSUME id \notin Ids, NEW other, Packs(other, id) PROVE other = 0
  <2>1. CASE other \in 0..(NumRows - 1) /\ instancesSorted[other + 1] = id
    <3>1. other + 1 \in 1..NumRows
      BY <1>1, <2>1
    <3>2. QED
      BY <1>1, <1>4, <2>1, <3>1
  <2>2. QED
    BY <1>4, <2>1 DEF Packs
<1>5. ASSUME id \in Ids, NEW other, Packs(other, id) PROVE other = q
  <2>1. /\ other \in 0..(NumRows - 1) /\ instancesSorted[other + 1] = id
        /\ q \in 0..(NumRows - 1) /\ instancesSorted[q + 1] = id
    BY <1>5 DEF Packs
  <2>2. other + 1 \in 1..NumRows /\ q + 1 \in 1..NumRows
    BY <1>1, <2>1
  <2>3. other + 1 = q + 1
    BY <2>1, <2>2, Rows
  <2>4. QED
    BY <1>1, <2>1, <2>3
<1>6. QED
  BY <1>2, <1>3, <1>4, <1>5

(* The packed links are the sorted ones, link by link.                     *)
LEMMA LinksPacked ==
  ASSUME PrepInv, Prepared
  PROVE  LET F == SortedLinks(references) IN
         /\ Input /\ KeysInOrder /\ ColumnsDone /\ NumRows \in Nat /\ NumRows > 0
         /\ PackedLinks \in Seq(Links(0..(NumRows - 1)))
         /\ Len(PackedLinks) = Len(F)
         /\ \A k \in 1..Len(F) : /\ F[k].src \in Nat /\ F[k].dst \in Nat
                                /\ Packs(PackedLinks[k].src, F[k].src)
                                /\ Packs(PackedLinks[k].dst, F[k].dst)
         /\ LinksOf(F) = LinksOf(references) /\ StrictlySorted(F)
         /\ packedSorted = SortedLinks(PackedLinks)
         /\ packedSorted \in Seq(Links(0..(NumRows - 1)))
         /\ LinksOf(packedSorted) = LinksOf(PackedLinks)
         /\ StrictlySorted(packedSorted)
<1> DEFINE F == SortedLinks(references)
<1>1. /\ Input /\ KeysInOrder /\ ColumnsDone /\ StreamIs /\ PackedSoFar
      /\ Len(packed) = Len(stream) /\ packedSorted = SortedLinks(PackedLinks)
  BY DEF PrepInv, Prepared
<1>2. NumRows \in Nat /\ NumRows > 0
  BY <1>1, Rows DEF ColumnsDone, Aligned
<1>3. F \in Seq(Links(Nat)) /\ LinksOf(F) = LinksOf(references) /\ StrictlySorted(F)
  BY <1>1, LinksSorted DEF Input
<1>4. /\ Len(F) \in Nat
      /\ \A k \in 1..Len(F) : F[k].src \in Nat /\ F[k].dst \in Nat
  <2>1. \A k \in 1..Len(F) : F[k] \in Links(Nat)
    BY <1>3, ElementOfSeq
  <2> HIDE DEF F
  <2>2. QED
    BY <1>3, <2>1, LenProperties DEF Links
<1>5. /\ Len(stream) = 2 * Len(F)
      /\ \A k \in 1..Len(F) : stream[2 * k - 1] = F[k].src /\ stream[2 * k] = F[k].dst
  BY <1>1, StreamNodes
<1> HIDE DEF F
<1>6. /\ Len(packed) \div 2 = Len(F)
      /\ \A k \in 1..Len(F) : 2 * k - 1 \in 1..Len(packed) /\ 2 * k \in 1..Len(packed)
  BY <1>1, <1>4, <1>5
<1>7. PackedLinks = [k \in 1..Len(F) |-> [src |-> packed[2 * k - 1], dst |-> packed[2 * k]]]
  BY <1>6 DEF PackedLinks
<1>8. \A k \in 1..Len(F) : /\ Packs(packed[2 * k - 1], F[k].src)
                           /\ Packs(packed[2 * k], F[k].dst)
  BY <1>1, <1>5, <1>6 DEF PackedSoFar
<1>9. \A q, id : Packs(q, id) => q \in 0..(NumRows - 1)
  BY <1>1, <1>2, PackedOnce
<1>10. PackedLinks \in [1..Len(F) -> Links(0..(NumRows - 1))]
  BY <1>7, <1>8, <1>9 DEF Links
<1>11. PackedLinks \in Seq(Links(0..(NumRows - 1))) /\ Len(PackedLinks) = Len(F)
  BY <1>4, <1>10
<1>12. \A k \in 1..Len(F) : /\ Packs(PackedLinks[k].src, F[k].src)
                            /\ Packs(PackedLinks[k].dst, F[k].dst)
  BY <1>7, <1>8
<1>13. 0..(NumRows - 1) \subseteq Nat
  BY <1>2
<1>14. /\ SortedLinks(PackedLinks) \in Seq(Links(0..(NumRows - 1)))
       /\ LinksOf(SortedLinks(PackedLinks)) = LinksOf(PackedLinks)
       /\ StrictlySorted(SortedLinks(PackedLinks))
  BY <1>11, <1>13, LinksSorted
<1>15. QED
  BY <1>1, <1>2, <1>3, <1>4, <1>11, <1>12, <1>14 DEF F

(* A reference has its packed link, and a packed link its reference.       *)
LEMMA LinkByLink ==
  ASSUME PrepInv, Prepared
  PROVE  /\ \A e \in LinksOf(references) : \E f \in LinksOf(packedSorted) :
              Packs(f.src, e.src) /\ Packs(f.dst, e.dst)
         /\ \A f \in LinksOf(packedSorted) : \E e \in LinksOf(references) :
              Packs(f.src, e.src) /\ Packs(f.dst, e.dst)
<1> DEFINE F == SortedLinks(references)
<1>1. /\ Len(PackedLinks) = Len(F)
      /\ \A k \in 1..Len(F) : /\ Packs(PackedLinks[k].src, F[k].src)
                             /\ Packs(PackedLinks[k].dst, F[k].dst)
      /\ LinksOf(F) = LinksOf(references)
      /\ LinksOf(packedSorted) = LinksOf(PackedLinks)
  BY LinksPacked
<1> HIDE DEF F
<1>2. /\ LinksOf(references) = {F[k] : k \in 1..Len(F)}
      /\ LinksOf(packedSorted) = {PackedLinks[k] : k \in 1..Len(F)}
  BY <1>1 DEF LinksOf
<1>3. QED
  BY <1>1, <1>2

(* With no orphans turned into 0, packing keeps the order of the links.    *)
LEMMA OrderKept ==
  ASSUME PrepInv, Prepared, ~ orphansToZero
  PROVE  packedSorted = PackedLinks
<1> DEFINE F == SortedLinks(references)
<1>1. /\ Input /\ KeysInOrder /\ NumRows \in Nat /\ NumRows > 0
      /\ PackedLinks \in Seq(Links(0..(NumRows - 1)))
      /\ Len(PackedLinks) = Len(F)
      /\ \A k \in 1..Len(F) : /\ F[k].src \in Nat /\ F[k].dst \in Nat
                             /\ Packs(PackedLinks[k].src, F[k].src)
                             /\ Packs(PackedLinks[k].dst, F[k].dst)
      /\ StrictlySorted(F)
      /\ packedSorted = SortedLinks(PackedLinks)
  BY LinksPacked
<1> HIDE DEF F
<1>2. \A q, id : Packs(q, id) => q \in 0..(NumRows - 1) /\ instancesSorted[q + 1] = id
  BY DEF Packs
<1>3. ASSUME NEW q, NEW r, NEW a \in Nat, NEW b \in Nat, Packs(q, a), Packs(r, b), a < b
      PROVE  q < r
  <2>1. /\ q \in 0..(NumRows - 1) /\ instancesSorted[q + 1] = a
        /\ r \in 0..(NumRows - 1) /\ instancesSorted[r + 1] = b
    BY <1>2, <1>3
  <2>2. q + 1 \in 1..NumRows /\ r + 1 \in 1..NumRows
    BY <1>1, <2>1
  <2>3. ~ (r + 1 < q + 1) /\ q + 1 # r + 1
    <3>1. ~ (b < a) /\ a # b
      BY <1>3
    <3>2. QED
      BY <1>1, <2>1, <2>2, <3>1, Rows
  <2>4. QED
    BY <1>1, <2>1, <2>3
<1>4. ASSUME NEW i \in 1..Len(F), NEW j \in 1..Len(F), i < j
      PROVE  LinkLess(PackedLinks[i], PackedLinks[j])
  <2>1. /\ Packs(PackedLinks[i].src, F[i].src) /\ Packs(PackedLinks[j].src, F[j].src)
        /\ Packs(PackedLinks[i].dst, F[i].dst) /\ Packs(PackedLinks[j].dst, F[j].dst)
        /\ F[i].src \in Nat /\ F[j].src \in Nat /\ F[i].dst \in Nat /\ F[j].dst \in Nat
    BY <1>1
  <2>2. CASE F[i].src < F[j].src
    BY <1>3, <2>1, <2>2 DEF LinkLess
  <2>3. CASE F[i].src = F[j].src /\ F[i].dst < F[j].dst
    <3>1. PackedLinks[i].src = PackedLinks[j].src
      BY <1>1, <2>1, <2>3, PackedOnce
    <3>2. QED
      BY <1>3, <2>1, <2>3, <3>1 DEF LinkLess
  <2>4. QED
    BY <1>1, <1>4, <2>2, <2>3 DEF StrictlySorted, LinkLess
<1>5. StrictlySorted(PackedLinks)
  BY <1>1, <1>4 DEF StrictlySorted
<1>6. 0..(NumRows - 1) \subseteq Nat
  BY <1>1
<1>7. QED
  BY <1>1, <1>5, <1>6, SortedAlready

------------------------------------------------------------------------------
(* The properties *)

(* Whatever was parsed, and whatever was cut off: when the preparation     *)
(* succeeds, its files are what dfs, dominate and retain assert or take    *)
(* for granted, and with the orphan flag 0 the last sort changes nothing.  *)
THEOREM FitsAlways == Spec => []FitsAnalysis
<1>1. PrepInv => FitsAnalysis
  <2> SUFFICES ASSUME PrepInv, Prepared
               PROVE  /\ packedSorted \in Seq(Links(0..(Len(instancesSorted) - 1)))
                      /\ StrictlySorted(packedSorted)
                      /\ instancesSorted[1] = 0
                      /\ Len(sizeSorted) = Len(instancesSorted)
                      /\ Len(instancesSorted) <= Len(instances)
                      /\ ~ orphansToZero => packedSorted = PackedLinks
    BY DEF FitsAnalysis
  <2>1. /\ Input /\ KeysInOrder /\ ColumnsDone /\ NumRows \in Nat /\ NumRows > 0
        /\ packedSorted \in Seq(Links(0..(NumRows - 1)))
        /\ StrictlySorted(packedSorted)
    BY LinksPacked
  <2>2. instancesSorted[1] = 0 /\ NumRows <= Len(instances)
    BY <2>1, Rows
  <2>3. Len(sizeSorted) = NumRows
    <3>1. sizeSorted \in [1..NumRows -> Nat]
      BY <2>1 DEF ColumnsDone, Aligned
    <3>2. QED
      BY <2>1, <3>1
  <2>4. ~ orphansToZero => packedSorted = PackedLinks
    BY OrderKept
  <2>5. QED
    BY <2>1, <2>2, <2>3, <2>4 DEF NumRows
<1>2. QED
  BY <1>1, PrepInvariance, PTL

(* Keys and sizes stay together although they are sorted apart.            *)
THEOREM AlignedAlways == Spec => []ColumnsAligned
<1>1. PrepInv => ColumnsAligned
  <2> SUFFICES ASSUME PrepInv, Prepared, NEW row \in 1..NumRows
               PROVE  \E k \in DOMAIN instances \intersect DOMAIN instancesSize :
                        instances[k] = instancesSorted[row] /\ sizeSorted[row] = instancesSize[k]
    BY DEF ColumnsAligned, NumRows
  <2>1. Input /\ KeysInOrder /\ ColumnsDone
    BY LinksPacked
  <2>2. /\ recordsSorted = Len(instances) /\ Len(instances) \in Nat
        /\ recordsSorted <= Len(instancesSize) /\ Len(instancesSize) \in Nat
        /\ DOMAIN instances = 1..Len(instances) /\ DOMAIN instancesSize = 1..Len(instancesSize)
    BY <2>1, LenProperties DEF Input, ColumnsDone, Aligned
  <2>3. instancesSorted[row] \in Ids
    BY <2>1, Rows
  <2>4. PICK k \in 1..recordsSorted : instances[k] = instancesSorted[row]
    BY <2>2, <2>3 DEF Ids, Range
  <2>5. PICK m \in 1..recordsSorted : instances[m] = instances[k] /\ sizeSorted[row] = instancesSize[m]
    BY <2>1, <2>4 DEF ColumnsDone, Aligned
  <2>6. m \in DOMAIN instances /\ m \in DOMAIN instancesSize
    BY <2>2
  <2>7. QED
    BY <2>4, <2>5, <2>6
<1>2. QED
  BY <1>1, PrepInvariance, PTL

(* Nothing that is alive is lost: a set of rows that packed references do  *)
(* not leave comes from a set of identifiers that references do not leave. *)
THEOREM ReachableAlways == Spec => []ReachableKept
<1>1. PrepInv => ReachableKept
  <2> SUFFICES ASSUME PrepInv, Prepared, NEW row \in 1..NumRows, WasReached(row)
               PROVE  IsReached(row)
    BY DEF ReachableKept, NumRows
  <2>1. /\ Input /\ KeysInOrder /\ NumRows \in Nat /\ NumRows > 0
        /\ instancesSorted[1] = 0 /\ 0 \in Ids
        /\ \A i \in 1..NumRows : instancesSorted[i] \in Ids
    BY LinksPacked, Rows
  <2> SUFFICES ASSUME NEW R \in SUBSET (0..(NumRows - 1)), 0 \in R, Closed(R, LinksOf(packedSorted))
               PROVE  row - 1 \in R
    <3>1. row - 1 \in 0..(NumRows - 1)
      BY <2>1
    <3>2. QED
      BY <3>1 DEF IsReached, Reachable, NumRows
  <2> DEFINE S == {id \in AllIds : \E q \in R : Packs(q, id)}
  <2>2. 0 \in S
    <3>1. Packs(0, 0)
      BY <2>1 DEF Packs
    <3>2. QED
      BY <2>1, <3>1 DEF AllIds
  <2>3. Closed(S, LinksOf(references))
    <3> SUFFICES ASSUME NEW e \in LinksOf(references), e.src \in S PROVE e.dst \in S
      BY DEF Closed
    <3>1. PICK q \in R : Packs(q, e.src)
      OBVIOUS
    <3>2. PICK f \in LinksOf(packedSorted) : Packs(f.src, e.src) /\ Packs(f.dst, e.dst)
      BY LinkByLink
    <3>3. f.src = q
      BY <2>1, <3>1, <3>2, PackedOnce
    <3>4. f.dst \in R
      BY <3>1, <3>2, <3>3 DEF Closed
    <3>5. e.dst \in AllIds
      BY DEF AllIds
    <3>6. QED
      BY <3>2, <3>4, <3>5
  <2>4. instancesSorted[row] \in S
    <3>1. S \in SUBSET AllIds
      OBVIOUS
    <3> HIDE DEF S
    <3>2. QED
      BY <2>2, <2>3, <3>1 DEF WasReached, Reachable
  <2>5. PICK q \in R : Packs(q, instancesSorted[row])
    BY <2>4
  <2>6. Packs(row - 1, instancesSorted[row])
    <3>1. row - 1 \in 0..(NumRows - 1) /\ row - 1 + 1 = row
      BY <2>1
    <3>2. QED
      BY <3>1 DEF Packs
  <2>7. row - 1 = q
    BY <2>1, <2>5, <2>6, PackedOnce
  <2>8. QED
    BY <2>7
<1>2. QED
  BY <1>1, PrepInvariance, PTL

(* And nothing comes alive: as long as every referrer is an instance, a    *)
(* set of identifiers that references do not leave has rows that packed    *)
(* references do not leave, orphans being the root.                        *)
THEOREM GarbageAlways == Spec => []GarbageStaysGarbage
<1>1. PrepInv => GarbageStaysGarbage
  <2> SUFFICES ASSUME PrepInv, Prepared, \A e \in LinksOf(references) : e.src \in Ids,
                      NEW row \in 1..NumRows, IsReached(row)
               PROVE  WasReached(row)
    BY DEF GarbageStaysGarbage, NumRows
  <2>1. /\ Input /\ KeysInOrder /\ NumRows \in Nat /\ NumRows > 0
        /\ instancesSorted[1] = 0 /\ 0 \in Ids
        /\ \A i \in 1..NumRows : instancesSorted[i] \in Ids
    BY LinksPacked, Rows
  <2> SUFFICES ASSUME NEW S \in SUBSET AllIds, 0 \in S, Closed(S, LinksOf(references))
               PROVE  instancesSorted[row] \in S
    <3>1. instancesSorted[row] \in AllIds
      BY <2>1 DEF AllIds
    <3>2. QED
      BY <3>1 DEF WasReached, Reachable
  <2> DEFINE R == {q \in 0..(NumRows - 1) : instancesSorted[q + 1] \in S}
  <2>2. 0 \in R
    BY <2>1
  <2>3. Closed(R, LinksOf(packedSorted))
    <3> SUFFICES ASSUME NEW f \in LinksOf(packedSorted), f.src \in R PROVE f.dst \in R
      BY DEF Closed
    <3>1. PICK e \in LinksOf(references) : Packs(f.src, e.src) /\ Packs(f.dst, e.dst)
      BY LinkByLink
    <3>2. instancesSorted[f.src + 1] = e.src
      BY <2>1, <3>1, PackedOnce
    <3>3. e.src \in S
      BY <3>2
    <3>4. e.dst \in S
      BY <3>3 DEF Closed
    <3>5. f.dst \in 0..(NumRows - 1) /\ (f.dst = 0 \/ instancesSorted[f.dst + 1] = e.dst)
      BY <2>1, <3>1, PackedOnce
    <3>6. QED
      BY <2>2, <3>4, <3>5
  <2>4. row - 1 \in R
    <3>1. R \in SUBSET (0..(NumRows - 1))
      OBVIOUS
    <3> HIDE DEF R
    <3>2. QED
      BY <2>2, <2>3, <3>1 DEF IsReached, Reachable, NumRows
  <2>5. row - 1 + 1 = row
    BY <2>1
  <2>6. QED
    BY <2>4, <2>5
<1>2. QED
  BY <1>1, PrepInvariance, PTL

==============================================================================
