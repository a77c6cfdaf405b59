-------------------------- MODULE ExternalSortProofs --------------------------
(***************************************************************************)
(* sort is correct on every input, with every size of the buffer and       *)
(* however the runs are cut by a full disk: the merge never goes back, and *)
(* an output without losses holds every record of the input.               *)
(*                                                                         *)
(* Where lost records are noticed, the code compares counters.  The proof  *)
(* reads each counter as the size of a set of places <<run, position>>:    *)
(* the places merged are among the places written, and a subset of the     *)
(* same size is the set itself.                                            *)
(***************************************************************************)
EXTENDS ExternalSort, LinkFilesTheorems, TLAPS

Increasing(file) == \A i, j \in 1..Len(file) : i < j => file[i] < file[j]

(* The places of the records in a number of runs.                          *)
Places(files) == {t \in (1..Len(files)) \X Nat : t[2] \in 1..Len(files[t[1]])}

(* The places of the records that the merge has taken from the runs.       *)
Taken == {t \in Places(tempFiles) : t[1] \in runs => t[2] < next[t[1]]}

RecordAt(t) == tempFiles[t[1]][t[2]]

Typed ==
  /\ input \in Seq(Records)
  /\ diskFills \in BOOLEAN
  /\ itemsRead \in 0..Len(input)
  /\ tempFiles \in Seq(Seq(Records))
  /\ out \in Seq(Records)
  /\ last \subseteq Records
  /\ pc \in {"read", "direct", "open", "merge", "done", "abort"}

(* The temporary files, next to the runs as they would be on a disk with   *)
(* room: full is what the counter of written records has counted.          *)
CutFrom(full) ==
  /\ full \in Seq(Seq(Records))
  /\ Len(full) = Len(tempFiles)
  /\ \A r \in 1..Len(full) :
       /\ Increasing(full[r])
       /\ Len(tempFiles[r]) <= Len(full[r])
       /\ ~ diskFills => Len(tempFiles[r]) = Len(full[r])
       /\ \A i \in 1..Len(tempFiles[r]) : tempFiles[r][i] = full[r][i]
  /\ {input[i] : i \in 1..itemsRead} = UNION {Range(full[r]) : r \in 1..Len(full)}
  /\ IsFiniteSet(Places(full))
  /\ itemsWrittenToRuns = Cardinality(Places(full))

RunsWritten == \E full : CutFrom(full)

(* The short circuit has written the records before ptr.                   *)
Directly ==
  /\ buffer \in Seq(Records)
  /\ Range(buffer) = Range(input)
  /\ \A i, j \in 1..Len(buffer) : i < j => buffer[i] <= buffer[j]
  /\ ptr \in 1..(Len(buffer) + 1)
  /\ Range(out) = {buffer[i] : i \in 1..(ptr - 1)}
  /\ Increasing(out)

(* The merge has written what it has taken, unless a write was lost.       *)
Merging ==
  /\ runs \subseteq 1..Len(tempFiles)
  /\ next \in [1..Len(tempFiles) -> Nat \ {0}]
  /\ \A r \in runs : next[r] \in 1..Len(tempFiles[r])
  /\ itemsMerged = Cardinality(Taken)
  /\ ~ lost => Range(out) = {RecordAt(t) : t \in Taken} /\ last \subseteq Range(out)
  /\ ~ diskFills => ~ lost
  /\ Increasing(out)
  /\ \A x \in Range(out) : \E l \in last : x <= l
  /\ last = {} \/ \E l \in Records : last = {l}

(* Before the merge nothing is taken and nothing written.                  *)
Fresh ==
  /\ itemsMerged = 0
  /\ last = {}
  /\ out = << >>
  /\ ~ lost

SortInv ==
  /\ Typed
  /\ pc # "merge" => runs = {}
  /\ pc \in {"read", "open"} => Fresh
  /\ pc \in {"read", "open", "merge"} => RunsWritten
  /\ pc \in {"open", "merge"} => itemsRead = Len(input)
  /\ pc = "read" => ptr = 1
  /\ pc = "direct" => Directly
  /\ pc = "merge" => Merging
  /\ MergeAscends
  /\ LostRunsAreNoticed

------------------------------------------------------------------------------
(* Sorting *)

(* A run holds what was in the buffer, in increasing order.                *)
LEMMA RunProperties ==
  ASSUME NEW chunk \in Seq(Records)
  PROVE  /\ Run(chunk) \in Seq(Records)
         /\ Range(Run(chunk)) = Range(chunk)
         /\ \A i, j \in 1..Len(Run(chunk)) : i < j => Run(chunk)[i] < Run(chunk)[j]
<1> DEFINE S == Range(chunk)
           size == Cardinality(S)
           below == [x \in S |-> {y \in S : y < x}]
           Good(run) == \A i, j \in DOMAIN run : i < j => run[i] < run[j]
<1>1. S \subseteq Records /\ S \subseteq Int /\ IsFiniteSet(S) /\ size \in Nat
  BY RangeOfFile, SortAssumption, FS_CardinalityType
<1>2. \E p \in [1..size -> S] : Good(p)
  <2>1. /\ \A x \in S : x \notin below[x]
        /\ \A x, y \in S : x # y => x \in below[y] \/ y \in below[x]
        /\ \A x \in S : \A y \in below[x] : below[y] \subseteq below[x]
    BY <1>1
  <2>2. below \in [S -> SUBSET S]
    OBVIOUS
  <2>3. \E p \in Bijection(1..size, S) : \A i, j \in 1..size : i < j => p[i] \in below[p[j]]
    <3> HIDE DEF below, S
    <3>1. QED
      BY <1>1, <2>1, <2>2, Ranking
  <2>4. PICK p \in Bijection(1..size, S) : \A i, j \in 1..size : i < j => p[i] \in below[p[j]]
    BY <2>3
  <2>5. p \in [1..size -> S] /\ DOMAIN p = 1..size
    BY Fun_BijectionProperties
  <2>6. Good(p)
    BY <2>4, <2>5
  <2>7. QED
    BY <2>5, <2>6
<1> DEFINE run == Run(chunk)
<1>3. run \in [1..size -> S] /\ Good(run)
  BY <1>2 DEF Run
<1> HIDE DEF run, S
<1>4. Len(run) = size /\ DOMAIN run = 1..size /\ run \in Seq(Records) /\ run \in Seq(S)
  <2>1. run \in Seq(S)
    BY <1>1, <1>3
  <2>2. run \in [1..size -> Records]
    BY <1>1, <1>3
  <2>3. QED
    BY <1>1, <1>3, <2>1, <2>2
<1>5. \A i, j \in 1..size : i < j => run[i] < run[j]
  BY <1>3, <1>4
<1>6. run \in Injection(1..size, S)
  <2>1. \A i, j \in 1..size : run[i] = run[j] => i = j
    <3>1. \A i \in 1..size : run[i] \in Int
      BY <1>1, <1>3
    <3>2. QED
      BY <1>1, <1>5, <3>1
  <2>2. QED
    BY <1>3, <2>1, Fun_IsInj
<1>7. Range(run) = S
  <2>1. Cardinality(1..size) = Cardinality(S)
    BY <1>1, FS_Interval
  <2>2. run \in Surjection(1..size, S)
    BY <1>1, <1>6, <2>1, FS_Injection
  <2>3. QED
    BY <2>2, Fun_SurjectionProperties
<1>8. QED
  BY <1>4, <1>5, <1>7 DEF run, S

(* std::sort permutes the buffer into an ascending one.                    *)
LEMMA SortedProperties ==
  ASSUME NEW chunk \in Seq(Records)
  PROVE  /\ Sorted(chunk) \in Seq(Records)
         /\ Len(Sorted(chunk)) = Len(chunk)
         /\ Range(Sorted(chunk)) = Range(chunk)
         /\ \A i, j \in 1..Len(chunk) : i < j => Sorted(chunk)[i] <= Sorted(chunk)[j]
<1> DEFINE len == Len(chunk)
           S == 1..len
           below == [i \in S |-> {j \in S : chunk[j] < chunk[i] \/ (chunk[j] = chunk[i] /\ j < i)}]
           Good(p) == \A i, j \in DOMAIN chunk : i < j => chunk[p[i]] <= chunk[p[j]]
<1>1. len \in Nat /\ DOMAIN chunk = S /\ \A i \in S : chunk[i] \in Records /\ chunk[i] \in Int
  BY LenProperties, ElementOfSeq, SortAssumption
<1>2. IsFiniteSet(S) /\ Cardinality(S) = len
  BY <1>1, FS_Interval
<1>3. \E p \in Bijection(S, S) : Good(p)
  <2>1. below \in [S -> SUBSET S]
    OBVIOUS
  <2>2. /\ \A i \in S : i \notin below[i]
        /\ \A i, j \in S : i # j => i \in below[j] \/ j \in below[i]
    BY <1>1
  <2>3. \A i \in S : \A j \in below[i] : below[j] \subseteq below[i]
    BY <1>1
  <2>4. \A i, j \in S : i \in below[j] => chunk[i] <= chunk[j]
    BY <1>1
  <2> HIDE DEF below, S
  <2>5. PICK p \in Bijection(1..Cardinality(S), S) :
          \A i, j \in 1..Cardinality(S) : i < j => p[i] \in below[p[j]]
    BY <1>2, <2>1, <2>2, <2>3, Ranking
  <2>6. p \in Bijection(S, S) /\ \A i, j \in S : i < j => p[i] \in below[p[j]]
    BY <1>2, <2>5 DEF S
  <2>7. p \in [S -> S]
    BY <2>6, Fun_BijectionProperties
  <2>8. Good(p)
    BY <1>1, <2>4, <2>6, <2>7
  <2>9. QED
    BY <2>6, <2>8
<1> DEFINE order == CHOOSE p \in Bijection(DOMAIN chunk, DOMAIN chunk) : Good(p)
<1>4. order \in Bijection(S, S) /\ \A i, j \in S : i < j => chunk[order[i]] <= chunk[order[j]]
  BY <1>1, <1>3
<1>5. Sorted(chunk) = [i \in DOMAIN chunk |-> chunk[order[i]]]
  BY DEF Sorted
<1> HIDE DEF order, S, Good
<1>6. order \in [S -> S] /\ \A t \in S : \E s \in S : order[s] = t
  BY <1>4, Fun_BijectionProperties
<1> DEFINE sorted == [i \in S |-> chunk[order[i]]]
<1>7. Sorted(chunk) = sorted
  BY <1>1, <1>5
<1>8. sorted \in Seq(Records) /\ Len(sorted) = len
  <2>1. sorted \in [1..len -> Records]
    BY <1>1, <1>6 DEF S
  <2>2. QED
    BY <1>1, <2>1
<1>9. \A i \in S : sorted[i] = chunk[order[i]] /\ order[i] \in S
  BY <1>6
<1> HIDE DEF sorted
<1>10. Range(sorted) = Range(chunk)
  <2>1. Range(sorted) = {sorted[i] : i \in S} /\ Range(chunk) = {chunk[i] : i \in S}
    BY <1>8, RangeOfFile DEF S
  <2>2. QED
    BY <1>6, <1>9, <2>1
<1>11. \A i, j \in S : i < j => sorted[i] <= sorted[j]
  BY <1>1, <1>4, <1>9
<1>12. QED
  BY <1>7, <1>8, <1>10, <1>11 DEF S

------------------------------------------------------------------------------
(* Files and places *)

LEMMA AppendToRange ==
  ASSUME NEW S, NEW file \in Seq(S), NEW e \in S
  PROVE  Range(Append(file, e)) = Range(file) \cup {e}
<1> DEFINE file2 == Append(file, e)
<1>1. /\ file2 \in Seq(S)
      /\ Len(file2) = Len(file) + 1
      /\ \A i \in 1..Len(file) : file2[i] = file[i]
      /\ file2[Len(file) + 1] = e
  BY AppendProperties
<1>2. Len(file) \in Nat
  BY LenProperties
<1> HIDE DEF file2
<1>3. Range(file2) = {file2[i] : i \in 1..(Len(file) + 1)} /\ Range(file) = {file[i] : i \in 1..Len(file)}
  BY <1>1, RangeOfFile
<1>4. 1..(Len(file) + 1) = (1..Len(file)) \cup {Len(file) + 1}
  BY <1>2
<1>5. Range(file2) = Range(file) \cup {e}
  BY <1>1, <1>3, <1>4
<1>6. QED
  BY <1>5 DEF file2

LEMMA AppendToIncreasing ==
  ASSUME NEW file \in Seq(Records), NEW e \in Records, Increasing(file),
         \A x \in Range(file) : x < e
  PROVE  Increasing(Append(file, e))
<1> DEFINE file2 == Append(file, e)
<1>1. /\ Len(file2) = Len(file) + 1
      /\ \A i \in 1..Len(file) : file2[i] = file[i]
      /\ file2[Len(file) + 1] = e
  BY AppendProperties
<1>2. Len(file) \in Nat /\ \A i \in 1..Len(file) : file[i] \in Range(file)
  BY LenProperties, RangeOfFile
<1> HIDE DEF file2
<1>3. ASSUME NEW i \in 1..Len(file2), NEW j \in 1..Len(file2), i < j
      PROVE  file2[i] < file2[j]
  <2>1. i \in 1..Len(file) /\ (j \in 1..Len(file) \/ j = Len(file) + 1)
    BY <1>1, <1>2, <1>3
  <2>2. CASE j \in 1..Len(file)
    BY <1>1, <1>3, <2>1, <2>2 DEF Increasing
  <2>3. CASE j = Len(file) + 1
    BY <1>1, <1>2, <2>1, <2>3
  <2>4. QED
    BY <2>1, <2>2, <2>3
<1>4. Increasing(file2)
  BY <1>3 DEF Increasing
<1>5. QED
  BY <1>4 DEF file2

(* What the buffer is filled with.                                         *)
LEMMA ChunkProperties ==
  ASSUME Typed
  PROVE  /\ Chunk \in Seq(Records)
         /\ itemsRead + Len(Chunk) \in 0..Len(input)
         /\ FoundEOF => itemsRead + Len(Chunk) = Len(input)
         /\ {input[i] : i \in 1..(itemsRead + Len(Chunk))}
            = {input[i] : i \in 1..itemsRead} \cup Range(Chunk)
<1> DEFINE left == Len(input) - itemsRead
           size == IF left < Capacity THEN left ELSE Capacity
<1>1. /\ Len(input) \in Nat /\ itemsRead \in Nat /\ itemsRead <= Len(input) /\ Capacity \in Nat
      /\ \A i \in 1..Len(input) : input[i] \in Records
  BY LenProperties, ElementOfSeq, SortAssumption DEF Typed
<1>2. size \in Nat /\ itemsRead + size <= Len(input) /\ (FoundEOF => itemsRead + size = Len(input))
  BY <1>1 DEF FoundEOF
<1>3. Chunk = SubSeq(input, itemsRead + 1, itemsRead + size)
  BY DEF Chunk
<1> HIDE DEF size
<1>4. /\ Chunk \in Seq(Records)
      /\ Len(Chunk) = size
      /\ \A i \in 1..size : Chunk[i] = input[itemsRead + i]
  <2>1. \A i \in (itemsRead + 1)..(itemsRead + size) : input[i] \in Records
    BY <1>1, <1>2
  <2>2. itemsRead + 1 \in Int /\ itemsRead + size \in Int
    BY <1>1, <1>2
  <2>3. QED
    BY <1>1, <1>2, <1>3, <2>1, <2>2, SubSeqProperties
<1>5. Range(Chunk) = {Chunk[i] : i \in 1..size}
  BY <1>4, RangeOfFile
<1>6. {input[i] : i \in 1..(itemsRead + size)} = {input[i] : i \in 1..itemsRead} \cup Range(Chunk)
  <2>1. ASSUME NEW i \in 1..(itemsRead + size)
        PROVE  input[i] \in {input[k] : k \in 1..itemsRead} \cup Range(Chunk)
    <3>1. CASE i <= itemsRead
      BY <1>1, <3>1
    <3>2. CASE i > itemsRead
      <4>1. i - itemsRead \in 1..size /\ itemsRead + (i - itemsRead) = i
        BY <1>1, <1>2, <3>2
      <4>2. QED
        BY <1>4, <1>5, <4>1
    <3>3. QED
      BY <1>1, <3>1, <3>2
  <2>2. ASSUME NEW i \in 1..size PROVE Chunk[i] \in {input[k] : k \in 1..(itemsRead + size)}
    BY <1>1, <1>2, <1>4
  <2>3. 1..itemsRead \subseteq 1..(itemsRead + size)
    BY <1>1, <1>2
  <2>4. QED
    BY <1>5, <2>1, <2>2, <2>3
<1>7. QED
  BY <1>1, <1>2, <1>4, <1>6

(* What survives of a file when it is closed is its beginning.             *)
LEMMA ClosedProperties ==
  ASSUME NEW file \in Seq(Records), NEW kept \in Closed(file)
  PROVE  /\ kept \in Seq(Records)
         /\ Len(kept) <= Len(file)
         /\ ~ diskFills => kept = file
         /\ \A i \in 1..Len(kept) : kept[i] = file[i]
<1>1. CASE diskFills
  <2>1. PICK k \in 0..Len(file) : kept = SubSeq(file, 1, k)
    BY <1>1 DEF Closed
  <2>2. Len(file) \in Nat /\ \A i \in 1..Len(file) : file[i] \in Records
    BY LenProperties, ElementOfSeq
  <2>3. /\ kept \in Seq(Records) /\ Len(kept) = k
        /\ \A i \in 1..k : kept[i] = file[i]
    <3>1. 1 \in Int /\ k \in Int /\ \A i \in 1..k : file[i] \in Records
      BY <2>2
    <3>2. QED
      BY <2>1, <2>2, <3>1, SubSeqProperties
  <2>4. QED
    BY <1>1, <2>2, <2>3
<1>2. CASE ~ diskFills
  <2>1. kept = file /\ Len(file) \in Nat
    BY <1>2, LenProperties DEF Closed
  <2>2. QED
    BY <2>1
<1>3. QED
  BY <1>1, <1>2

(* One more run has as many more places as it has records.                 *)
LEMMA PlacesOfOneMore ==
  ASSUME NEW files \in Seq(Seq(Records)), NEW run \in Seq(Records), IsFiniteSet(Places(files))
  PROVE  /\ IsFiniteSet(Places(Append(files, run)))
         /\ Cardinality(Places(Append(files, run))) = Cardinality(Places(files)) + Len(run)
<1> DEFINE files2 == Append(files, run)
           n == Len(files)
           new == {<<n + 1, i>> : i \in 1..Len(run)}
           at == [i \in 1..Len(run) |-> <<n + 1, i>>]
<1>1. /\ Len(files2) = n + 1
      /\ \A r \in 1..n : files2[r] = files[r]
      /\ files2[n + 1] = run
  BY AppendProperties
<1>2. n \in Nat /\ Len(run) \in Nat
  BY LenProperties
<1>3. Places(files2) = Places(files) \cup new
  <2> HIDE DEF files2
  <2>1. ASSUME NEW t \in Places(files2) PROVE t \in Places(files) \cup new
    <3>1. /\ t \in (1..(n + 1)) \X Nat /\ t[2] \in 1..Len(files2[t[1]])
          /\ t = <<t[1], t[2]>>
      BY <1>1, <2>1 DEF Places
    <3>2. CASE t[1] = n + 1
      BY <1>1, <3>1, <3>2
    <3>3. CASE t[1] \in 1..n
      BY <1>1, <3>1, <3>3 DEF Places
    <3>4. QED
      BY <1>2, <3>1, <3>2, <3>3
  <2>2. ASSUME NEW t \in Places(files) PROVE t \in Places(files2)
    BY <1>1, <1>2 DEF Places
  <2>3. ASSUME NEW i \in 1..Len(run) PROVE <<n + 1, i>> \in Places(files2)
    BY <1>1, <1>2 DEF Places
  <2>4. QED
    BY <2>1, <2>2, <2>3
<1>4. IsFiniteSet(new) /\ Cardinality(new) = Len(run)
  <2>1. at \in Bijection(1..Len(run), new)
    <3>1. at \in [1..Len(run) -> new]
      OBVIOUS
    <3>2. \A i, j \in 1..Len(run) : at[i] = at[j] => i = j
      OBVIOUS
    <3>3. \A t \in new : \E i \in 1..Len(run) : at[i] = t
      OBVIOUS
    <3> HIDE DEF at, new
    <3>4. QED
      BY <3>1, <3>2, <3>3, Fun_IsBij
  <2>2. ExistsBijection(1..Len(run), new)
    BY <2>1 DEF ExistsBijection
  <2>3. IsFiniteSet(1..Len(run)) /\ Cardinality(1..Len(run)) = Len(run)
    <3>1. 1 \in Int /\ Len(run) \in Int
      BY <1>2
    <3>2. /\ IsFiniteSet(1..Len(run))
          /\ Cardinality(1..Len(run)) = IF 1 > Len(run) THEN 0 ELSE Len(run) - 1 + 1
      BY <3>1, FS_Interval
    <3>3. QED
      BY <1>2, <3>2
  <2> HIDE DEF new
  <2>4. QED
    BY <2>2, <2>3, FS_Bijection
<1>5. Places(files) \cap new = {}
  BY <1>2 DEF Places
<1>6. Cardinality(Places(files) \cap new) = 0 /\ Cardinality(Places(files)) \in Nat
  BY <1>5, FS_EmptySet, FS_CardinalityType
<1> HIDE DEF new
<1>7. /\ IsFiniteSet(Places(files) \cup new)
      /\ Cardinality(Places(files) \cup new)
         = Cardinality(Places(files)) + Cardinality(new) - Cardinality(Places(files) \cap new)
  BY <1>4, FS_Union
<1>8. QED
  BY <1>2, <1>3, <1>4, <1>6, <1>7

------------------------------------------------------------------------------
(* The steps *)

LEMMA SortInvInit == Init => SortInv
<1> SUFFICES ASSUME Init PROVE SortInv
  OBVIOUS
<1>1. /\ << >> \in Seq(Records) /\ << >> \in Seq(Seq(Records)) /\ Len(<< >>) = 0
      /\ input \in Seq(Records) /\ Len(input) \in Nat
  BY EmptySeq, SortAssumption, LenProperties DEF Init
<1>2. Typed
  BY <1>1 DEF Init, Typed
<1>3. CutFrom(<< >>)
  <2>1. Places(<< >>) = {} /\ IsFiniteSet({}) /\ Cardinality({}) = 0
    BY <1>1, FS_EmptySet DEF Places
  <2>2. \A r : r \notin 1..Len(<< >>)
    BY <1>1
  <2>3. {input[i] : i \in 1..itemsRead} = {}
    BY DEF Init
  <2>4. QED
    BY <1>1, <2>1, <2>2, <2>3 DEF CutFrom, Init
<1>4. QED
  BY <1>2, <1>3 DEF Init, SortInv, Fresh, RunsWritten, MergeAscends, LostRunsAreNoticed

LEMMA FitsInMemoryKeeps ==
  ASSUME SortInv, FitsInMemory
  PROVE  SortInv'
<1>1. /\ Typed /\ pc = "read" /\ pc' = "direct" /\ runs = {} /\ Fresh /\ ptr = 1
      /\ FoundEOF /\ tempFiles = << >> /\ RunsWritten
      /\ itemsRead' = itemsRead + Len(Chunk)
      /\ buffer' = Sorted(Chunk)
      /\ UNCHANGED <<input, diskFills, ptr, tempFiles, itemsWrittenToRuns, mergeVars, out, lost>>
  BY DEF FitsInMemory, SortInv
<1>2. /\ Chunk \in Seq(Records)
      /\ itemsRead + Len(Chunk) = Len(input) /\ itemsRead + Len(Chunk) \in 0..Len(input)
      /\ {input[i] : i \in 1..Len(input)} = {input[i] : i \in 1..itemsRead} \cup Range(Chunk)
  BY <1>1, ChunkProperties
<1>3. {input[i] : i \in 1..itemsRead} = {}
  <2>1. PICK full : CutFrom(full)
    BY <1>1 DEF RunsWritten
  <2>2. Len(full) = 0
    BY <1>1, <2>1, EmptySeq DEF CutFrom
  <2>3. \A r : r \notin 1..Len(full)
    BY <2>2
  <2>4. QED
    BY <2>1, <2>3 DEF CutFrom
<1>4. Range(input) = Range(Chunk)
  BY <1>1, <1>2, <1>3, RangeOfFile DEF Typed
<1>5. /\ buffer' \in Seq(Records)
      /\ Len(buffer') = Len(Chunk)
      /\ Range(buffer') = Range(Chunk)
      /\ \A i, j \in 1..Len(Chunk) : i < j => buffer'[i] <= buffer'[j]
  BY <1>1, <1>2, SortedProperties
<1>6. Directly'
  <2>1. Len(buffer') \in Nat
    BY <1>5, LenProperties
  <2>2. out' = << >> /\ ptr' = 1 /\ Range(<< >>) = {} /\ Len(<< >>) = 0
    BY <1>1, EmptySeq DEF Fresh, Range
  <2>3. {buffer'[i] : i \in 1..(1 - 1)} = {}
    OBVIOUS
  <2>4. QED
    BY <1>1, <1>4, <1>5, <2>1, <2>2, <2>3 DEF Directly, Increasing
<1>7. Typed'
  BY <1>1, <1>2 DEF Typed, mergeVars
<1>8. QED
  BY <1>1, <1>6, <1>7 DEF SortInv, MergeAscends, LostRunsAreNoticed, mergeVars

LEMMA WriteRunKeeps ==
  ASSUME SortInv, WriteRun
  PROVE  SortInv'
<1>1. PICK run : run = Run(Chunk)
  OBVIOUS
<1>2. /\ Typed /\ pc = "read" /\ pc' \in {"open", "read"} /\ (pc' = "open" => FoundEOF)
      /\ runs = {} /\ Fresh /\ RunsWritten /\ ptr = 1
      /\ itemsRead' = itemsRead + Len(Chunk)
      /\ itemsWrittenToRuns' = itemsWrittenToRuns + Len(run)
      /\ UNCHANGED <<input, diskFills, directVars, mergeVars, out, lost>>
  BY <1>1 DEF WriteRun, SortInv
<1>3. PICK file \in Closed(run) : tempFiles' = Append(tempFiles, file)
  BY <1>1 DEF WriteRun
<1>4. /\ Chunk \in Seq(Records)
      /\ itemsRead + Len(Chunk) \in 0..Len(input)
      /\ FoundEOF => itemsRead + Len(Chunk) = Len(input)
      /\ {input[i] : i \in 1..(itemsRead + Len(Chunk))}
         = {input[i] : i \in 1..itemsRead} \cup Range(Chunk)
  BY <1>2, ChunkProperties
<1>5. run \in Seq(Records) /\ Range(run) = Range(Chunk) /\ Increasing(run)
  BY <1>1, <1>4, RunProperties DEF Increasing
<1>6. /\ file \in Seq(Records)
      /\ Len(file) <= Len(run)
      /\ ~ diskFills => file = run
      /\ \A i \in 1..Len(file) : file[i] = run[i]
  BY <1>5, ClosedProperties
<1>7. /\ tempFiles' \in Seq(Seq(Records))
      /\ Len(tempFiles') = Len(tempFiles) + 1
      /\ \A r \in 1..Len(tempFiles) : tempFiles'[r] = tempFiles[r]
      /\ tempFiles'[Len(tempFiles) + 1] = file
  BY <1>2, <1>3, <1>6, AppendProperties DEF Typed
<1>8. PICK full : CutFrom(full)
  BY <1>2 DEF RunsWritten
<1>9. PICK full2 : full2 = Append(full, run)
  OBVIOUS
<1> DEFINE m == Len(full)
<1>10. /\ full \in Seq(Seq(Records)) /\ m = Len(tempFiles) /\ m \in Nat
       /\ full2 \in Seq(Seq(Records))
       /\ Len(full2) = m + 1
       /\ \A r \in 1..m : full2[r] = full[r]
       /\ full2[m + 1] = run
  BY <1>5, <1>8, <1>9, AppendProperties, LenProperties DEF CutFrom
<1>11. IsFiniteSet(Places(full2)) /\ itemsWrittenToRuns' = Cardinality(Places(full2))
  BY <1>2, <1>5, <1>8, <1>9, <1>10, PlacesOfOneMore DEF CutFrom
<1> HIDE DEF m
<1>12. ASSUME NEW r \in 1..Len(full2)
       PROVE  /\ Increasing(full2[r])
              /\ Len(tempFiles'[r]) <= Len(full2[r])
              /\ ~ diskFills => Len(tempFiles'[r]) = Len(full2[r])
              /\ \A i \in 1..Len(tempFiles'[r]) : tempFiles'[r][i] = full2[r][i]
  <2>1. CASE r = m + 1
    BY <1>5, <1>6, <1>7, <1>10, <2>1
  <2>2. CASE r \in 1..m
    BY <1>7, <1>8, <1>10, <2>2 DEF CutFrom, m
  <2>3. QED
    BY <1>10, <2>1, <2>2
<1>13. {input[i] : i \in 1..itemsRead'} = UNION {Range(full2[r]) : r \in 1..Len(full2)}
  <2>1. 1..Len(full2) = (1..m) \cup {m + 1}
    BY <1>10
  <2>2. UNION {Range(full2[r]) : r \in 1..Len(full2)}
        = (UNION {Range(full[r]) : r \in 1..m}) \cup Range(run)
    <3>1. \A r \in 1..m : Range(full2[r]) = Range(full[r])
      BY <1>10
    <3>2. Range(full2[m + 1]) = Range(run)
      BY <1>10
    <3>3. \A x : x \in UNION {Range(full2[r]) : r \in 1..Len(full2)}
                 <=> x \in (UNION {Range(full[r]) : r \in 1..m}) \cup Range(run)
      BY <2>1, <3>1, <3>2, Zenon
    <3>4. QED
      BY <3>3
  <2>3. {input[i] : i \in 1..itemsRead} = UNION {Range(full[r]) : r \in 1..m}
    BY <1>8 DEF CutFrom, m
  <2>4. QED
    BY <1>2, <1>4, <1>5, <2>2, <2>3
<1>14. RunsWritten'
  <2>1. Len(full2) = Len(tempFiles')
    BY <1>7, <1>10
  <2>2. CutFrom(full2)'
    BY <1>2, <1>10, <1>11, <1>12, <1>13, <2>1 DEF CutFrom
  <2>3. QED
    BY <2>2 DEF RunsWritten
<1>15. Typed'
  BY <1>2, <1>4, <1>7 DEF Typed, mergeVars
<1>16. QED
  BY <1>2, <1>4, <1>14, <1>15
     DEF SortInv, MergeAscends, LostRunsAreNoticed, Fresh, mergeVars, directVars

(* The record at ptr, if it is new, is the next one to be written.         *)
LEMMA DirectWritesSmallest ==
  ASSUME Typed, Directly, ptr <= Len(buffer), IsNew
  PROVE  /\ buffer[ptr] \in Range(input)
         /\ \A x \in Range(out) : x < buffer[ptr]
         /\ \A x \in Range(input) \ Range(out) : buffer[ptr] <= x
<1>1. /\ buffer \in Seq(Records) /\ Len(buffer) \in Nat /\ ptr \in 1..Len(buffer)
      /\ \A i, j \in 1..Len(buffer) : i < j => buffer[i] <= buffer[j]
  BY LenProperties DEF Directly
<1>2. \A i \in 1..Len(buffer) : buffer[i] \in Int
  BY <1>1, ElementOfSeq, SortAssumption
<1>3. /\ Range(out) = {buffer[i] : i \in 1..(ptr - 1)}
      /\ Range(input) = {buffer[i] : i \in 1..Len(buffer)}
  BY <1>1, RangeOfFile DEF Directly
<1>4. ASSUME NEW i \in 1..(ptr - 1) PROVE buffer[i] < buffer[ptr]
  <2>1. ptr # 1 /\ ptr - 1 \in 1..Len(buffer) /\ i \in 1..Len(buffer)
    BY <1>1
  <2>2. buffer[ptr - 1] < buffer[ptr]
    BY <2>1 DEF IsNew
  <2>3. buffer[i] <= buffer[ptr - 1]
    BY <1>1, <1>2, <2>1
  <2>4. QED
    BY <1>1, <1>2, <2>1, <2>2, <2>3
<1>5. ASSUME NEW x \in Range(input) \ Range(out) PROVE buffer[ptr] <= x
  <2>1. PICK i \in 1..Len(buffer) : x = buffer[i]
    BY <1>3
  <2>2. i \notin 1..(ptr - 1)
    BY <1>3, <2>1
  <2>3. i = ptr \/ ptr < i
    BY <1>1, <2>2
  <2>4. QED
    BY <1>1, <1>2, <2>1, <2>3
<1>6. QED
  BY <1>1, <1>3, <1>4, <1>5

LEMMA WriteDirectKeeps ==
  ASSUME SortInv, WriteDirect
  PROVE  SortInv'
<1>1. /\ Typed /\ pc = "direct" /\ pc' = "direct" /\ runs = {} /\ Directly
      /\ ptr <= Len(buffer) /\ ptr' = ptr + 1
      /\ out' = IF IsNew THEN Append(out, buffer[ptr]) ELSE out
      /\ UNCHANGED <<input, diskFills, readVars, buffer, mergeVars, lost>>
  BY DEF WriteDirect, SortInv
<1>2. /\ Len(buffer) \in Nat /\ ptr \in 1..Len(buffer)
      /\ \A i \in 1..Len(buffer) : buffer[i] \in Records /\ buffer[i] \in Int
  <2>1. buffer \in Seq(Records) /\ ptr \in 1..(Len(buffer) + 1) /\ Len(buffer) \in Nat
    BY <1>1, LenProperties DEF Directly
  <2>2. \A i \in 1..Len(buffer) : buffer[i] \in Records
    BY <2>1, ElementOfSeq
  <2>3. ptr <= Len(buffer)
    BY <1>1
  <2>4. ptr \in 1..Len(buffer)
    BY <2>1, <2>3
  <2>5. QED
    BY <2>1, <2>2, <2>4, SortAssumption
<1>3. {buffer[i] : i \in 1..ptr} = {buffer[i] : i \in 1..(ptr - 1)} \cup {buffer[ptr]}
  <2>1. 1..ptr = (1..(ptr - 1)) \cup {ptr}
    BY <1>2
  <2>2. QED
    BY <2>1
<1>4. out \in Seq(Records) /\ Increasing(out) /\ Range(out) = {buffer[i] : i \in 1..(ptr - 1)}
  BY <1>1 DEF Directly, Typed
<1>5. out' \in Seq(Records) /\ Increasing(out') /\ Range(out') = {buffer[i] : i \in 1..ptr}
  <2>1. CASE IsNew
    <3>1. \A x \in Range(out) : x < buffer[ptr]
      BY <1>1, <2>1, DirectWritesSmallest
    <3>2. out' = Append(out, buffer[ptr]) /\ buffer[ptr] \in Records
      BY <1>1, <1>2, <2>1
    <3>3. out' \in Seq(Records)
      BY <1>4, <3>2, AppendProperties
    <3>4. Increasing(Append(out, buffer[ptr]))
      BY <1>4, <3>1, <3>2, AppendToIncreasing
    <3>5. Range(out') = Range(out) \cup {buffer[ptr]}
      BY <1>4, <3>2, AppendToRange
    <3>6. Increasing(out')
      BY <3>2, <3>4 DEF Increasing
    <3>7. QED
      BY <1>3, <1>4, <3>3, <3>5, <3>6
  <2>2. CASE ~ IsNew
    <3>1. ptr # 1 /\ ~ (buffer[ptr - 1] < buffer[ptr])
      BY <2>2 DEF IsNew
    <3>2. ptr - 1 \in 1..Len(buffer)
      BY <1>2, <3>1
    <3>3. buffer[ptr - 1] <= buffer[ptr]
      BY <1>1, <1>2, <3>2 DEF Directly
    <3>4. buffer[ptr] = buffer[ptr - 1] /\ ptr - 1 \in 1..(ptr - 1)
      BY <1>2, <3>1, <3>2, <3>3
    <3>5. buffer[ptr] \in {buffer[i] : i \in 1..(ptr - 1)}
      BY <3>4
    <3>6. QED
      BY <1>1, <1>3, <1>4, <2>2, <3>5
  <2>3. QED
    BY <2>1, <2>2
<1>6. Directly'
  <2>1. ptr' \in 1..(Len(buffer) + 1) /\ ptr' - 1 = ptr
    BY <1>1, <1>2
  <2>2. QED
    BY <1>1, <1>5, <2>1 DEF Directly
<1>7. QED
  BY <1>1, <1>5, <1>6
     DEF SortInv, Typed, MergeAscends, LostRunsAreNoticed, Increasing, readVars, mergeVars

(* The output file is closed: either it is whole, or the loss is recorded. *)
LEMMA OutputClosed ==
  ASSUME Typed, CloseOutput
  PROVE  out' \in Seq(Records) /\ (~ lost' => out' = out /\ ~ lost)
BY ClosedProperties DEF Typed, CloseOutput

LEMMA FinishDirectKeeps ==
  ASSUME SortInv, FinishDirect
  PROVE  SortInv'
<1>1. /\ Typed /\ pc = "direct" /\ pc' = "done" /\ runs = {} /\ Directly
      /\ ptr > Len(buffer) /\ CloseOutput
      /\ UNCHANGED <<input, diskFills, readVars, directVars, mergeVars>>
  BY DEF FinishDirect, SortInv
<1>2. ptr - 1 = Len(buffer)
  BY <1>1, LenProperties DEF Directly
<1>3. Range(out) = Range(input) /\ Increasing(out)
  BY <1>1, <1>2, RangeOfFile DEF Directly
<1>4. out' \in Seq(Records) /\ (~ lost' => out' = out)
  BY <1>1, OutputClosed
<1>5. LostRunsAreNoticed'
  BY <1>1, <1>3, <1>4 DEF LostRunsAreNoticed, Increasing
<1>6. QED
  BY <1>1, <1>4, <1>5 DEF SortInv, Typed, MergeAscends, readVars, mergeVars

(* The runs, as they are on disk.                                          *)
LEMMA RunsOnDisk ==
  ASSUME Typed, NEW full, CutFrom(full)
  PROVE  /\ \A r \in 1..Len(tempFiles) : Increasing(tempFiles[r])
         /\ \A t \in Places(tempFiles) : t \in Places(full) /\ RecordAt(t) = full[t[1]][t[2]]
         /\ IsFiniteSet(Places(tempFiles))
<1>1. ASSUME NEW r \in 1..Len(tempFiles)
      PROVE  /\ Len(tempFiles[r]) \in Nat /\ Len(full[r]) \in Nat /\ Increasing(full[r])
             /\ Len(tempFiles[r]) <= Len(full[r])
             /\ \A i \in 1..Len(tempFiles[r]) : tempFiles[r][i] = full[r][i]
  <2>1. r \in 1..Len(full) /\ full \in Seq(Seq(Records)) /\ tempFiles \in Seq(Seq(Records))
    BY DEF CutFrom, Typed
  <2>2. full[r] \in Seq(Records) /\ tempFiles[r] \in Seq(Records)
    BY <2>1, ElementOfSeq
  <2>3. QED
    BY <2>1, <2>2, LenProperties DEF CutFrom
<1>2. \A r \in 1..Len(tempFiles) : 1..Len(tempFiles[r]) \subseteq 1..Len(full[r])
  BY <1>1
<1>3. \A r \in 1..Len(tempFiles) : Increasing(tempFiles[r])
  BY <1>1, <1>2 DEF Increasing
<1>4. \A t \in Places(tempFiles) : t \in Places(full) /\ RecordAt(t) = full[t[1]][t[2]]
  BY <1>1, <1>2 DEF Places, RecordAt, CutFrom
<1>5. IsFiniteSet(Places(tempFiles))
  BY <1>4, FS_Subset DEF CutFrom
<1>6. QED
  BY <1>3, <1>4, <1>5

(* They hold records of the input, and all of them if no run was cut.      *)
LEMMA RecordsOnDisk ==
  ASSUME Typed, itemsRead = Len(input), NEW full, CutFrom(full)
  PROVE  /\ {RecordAt(t) : t \in Places(tempFiles)} \subseteq Range(input)
         /\ Places(tempFiles) = Places(full) => {RecordAt(t) : t \in Places(tempFiles)} = Range(input)
<1>1. \A t \in Places(tempFiles) : t \in Places(full) /\ RecordAt(t) = full[t[1]][t[2]]
  BY RunsOnDisk
<1>2. \A r \in 1..Len(full) : /\ Len(full[r]) \in Nat
                             /\ Range(full[r]) = {full[r][i] : i \in 1..Len(full[r])}
  <2>1. \A r \in 1..Len(full) : full[r] \in Seq(Records)
    BY ElementOfSeq DEF CutFrom
  <2>2. QED
    BY <2>1, LenProperties, RangeOfFile
<1>3. Range(input) = UNION {Range(full[r]) : r \in 1..Len(full)}
  BY RangeOfFile DEF Typed, CutFrom
<1>4. ASSUME NEW t \in Places(tempFiles) PROVE RecordAt(t) \in Range(input)
  <2>1. t \in Places(full) /\ RecordAt(t) = full[t[1]][t[2]]
    BY <1>1
  <2>2. t[1] \in 1..Len(full) /\ t[2] \in 1..Len(full[t[1]])
    BY <2>1 DEF Places
  <2>3. RecordAt(t) \in Range(full[t[1]])
    BY <1>2, <2>1, <2>2
  <2>4. QED
    BY <1>3, <2>2, <2>3
<1>5. ASSUME Places(tempFiles) = Places(full), NEW x \in Range(input)
      PROVE  x \in {RecordAt(t) : t \in Places(tempFiles)}
  <2>1. PICK r \in 1..Len(full) : x \in Range(full[r])
    BY <1>3
  <2>2. PICK i \in 1..Len(full[r]) : x = full[r][i]
    BY <1>2, <2>1
  <2>3. <<r, i>> \in Places(full)
    BY <1>2 DEF Places
  <2>4. <<r, i>> \in Places(tempFiles) /\ RecordAt(<<r, i>>) = x
    BY <1>1, <1>5, <2>2, <2>3
  <2>5. QED
    BY <2>4
<1>6. QED
  BY <1>4, <1>5

(* The record of a run is one of the input's records.                      *)
LEMMA PlacesHoldRecords ==
  ASSUME Typed, NEW t \in Places(tempFiles)
  PROVE  RecordAt(t) \in Records /\ RecordAt(t) \in Int
<1>1. t[1] \in 1..Len(tempFiles) /\ t[2] \in 1..Len(tempFiles[t[1]]) /\ tempFiles \in Seq(Seq(Records))
  BY DEF Places, Typed
<1>2. tempFiles[t[1]] \in Seq(Records)
  BY <1>1, ElementOfSeq
<1>3. tempFiles[t[1]][t[2]] \in Records
  BY <1>1, <1>2, ElementOfSeq
<1>4. QED
  BY <1>3, SortAssumption DEF RecordAt

LEMMA OpenRunsKeeps ==
  ASSUME SortInv, OpenRuns
  PROVE  SortInv'
<1>1. /\ Typed /\ pc = "open" /\ pc' = "merge" /\ Fresh /\ RunsWritten /\ itemsRead = Len(input)
      /\ runs' = {r \in 1..Len(tempFiles) : tempFiles[r] # << >>}
      /\ next' = [r \in 1..Len(tempFiles) |-> 1]
      /\ UNCHANGED <<input, diskFills, readVars, directVars, itemsMerged, last, out, lost>>
  BY DEF OpenRuns, SortInv
<1>2. ASSUME NEW r \in 1..Len(tempFiles)
      PROVE  /\ Len(tempFiles[r]) \in Nat
             /\ tempFiles[r] # << >> <=> 1 \in 1..Len(tempFiles[r])
  <2>1. tempFiles[r] \in Seq(Records)
    BY <1>1, ElementOfSeq DEF Typed
  <2>2. Len(tempFiles[r]) \in Nat /\ (Len(tempFiles[r]) = 0 <=> tempFiles[r] = << >>)
    BY <2>1, EmptySeq, LenProperties
  <2>3. QED
    BY <2>2
<1>3. Taken' = {}
  <2>1. Taken' = {t \in Places(tempFiles) : t[1] \in runs' => t[2] < next'[t[1]]}
    BY <1>1 DEF Taken, readVars
  <2>2. ASSUME NEW t \in Places(tempFiles) PROVE t[1] \in runs' /\ ~ (t[2] < next'[t[1]])
    BY <1>1, <1>2 DEF Places
  <2>3. QED
    BY <2>1, <2>2
<1>4. Merging'
  <2>1. \A r \in runs' : next'[r] \in 1..Len(tempFiles[r])
    BY <1>1, <1>2
  <2>2. itemsMerged' = Cardinality(Taken') /\ Range(out') = {} /\ Increasing(out')
    BY <1>1, <1>3, EmptySeq, FS_EmptySet DEF Fresh, Range, Increasing
  <2>3. last' = {} /\ lost' = lost /\ ~ lost
    BY <1>1 DEF Fresh
  <2>4. {RecordAt(t) : t \in Taken}' = {}
    BY <1>3
  <2>5. runs' \subseteq 1..Len(tempFiles) /\ next' \in [1..Len(tempFiles) -> Nat \ {0}]
    BY <1>1
  <2>6. tempFiles' = tempFiles /\ diskFills' = diskFills
    BY <1>1 DEF readVars
  <2>7. QED
    BY <2>1, <2>2, <2>3, <2>4, <2>5, <2>6 DEF Merging
<1>5. Typed' /\ RunsWritten'
  BY <1>1 DEF Typed, RunsWritten, CutFrom, readVars
<1>6. MergeAscends'
  BY <1>1 DEF MergeAscends, Fresh
<1>7. QED
  BY <1>1, <1>4, <1>5, <1>6 DEF SortInv, LostRunsAreNoticed, readVars

(* readNext() takes the place of the run's next record, and no other.      *)
LEMMA OneMoreTaken ==
  ASSUME Typed, Merging, NEW r \in runs, Advance(r), tempFiles' = tempFiles
  PROVE  /\ <<r, next[r]>> \in Places(tempFiles)
         /\ <<r, next[r]>> \notin Taken
         /\ Taken' = Taken \cup {<<r, next[r]>>}
         /\ runs' \subseteq runs
         /\ next' \in [1..Len(tempFiles) -> Nat \ {0}]
         /\ \A s \in runs' : next'[s] \in 1..Len(tempFiles[s])
         /\ \A s \in runs' : next'[s] = IF s = r THEN next[r] + 1 ELSE next[s]
<1>1. /\ runs \subseteq 1..Len(tempFiles) /\ r \in 1..Len(tempFiles)
      /\ next \in [1..Len(tempFiles) -> Nat \ {0}]
      /\ \A s \in runs : next[s] \in 1..Len(tempFiles[s])
  BY DEF Merging
<1>2. \A s \in 1..Len(tempFiles) : Len(tempFiles[s]) \in Nat
  <2>1. \A s \in 1..Len(tempFiles) : tempFiles[s] \in Seq(Records)
    BY ElementOfSeq DEF Typed
  <2>2. QED
    BY <2>1, LenProperties
<1>3. <<r, next[r]>> \in Places(tempFiles) /\ <<r, next[r]>> \notin Taken
  BY <1>1 DEF Places, Taken
<1>4. Taken' = {t \in Places(tempFiles) : t[1] \in runs' => t[2] < next'[t[1]]}
  BY DEF Taken
<1>5. \A t \in Places(tempFiles) : /\ t = <<t[1], t[2]>> /\ t[1] \in 1..Len(tempFiles)
                                  /\ t[2] \in Nat /\ t[2] \in 1..Len(tempFiles[t[1]])
  BY DEF Places
<1>6. CASE next[r] < Len(tempFiles[r])
  <2>1. next' = [next EXCEPT ![r] = @ + 1] /\ runs' = runs
    BY <1>6 DEF Advance
  <2>2. ASSUME NEW t \in Places(tempFiles)
        PROVE  (t[1] \in runs' => t[2] < next'[t[1]]) <=> (t \in Taken \/ t = <<r, next[r]>>)
    <3>1. CASE t[1] = r
      <4>1. next'[r] = next[r] + 1 /\ t[1] \in runs /\ next[r] \in Nat
        BY <1>1, <2>1, <3>1
      <4>2. t[2] < next[r] + 1 <=> (t[2] < next[r] \/ t[2] = next[r])
        BY <1>5, <4>1
      <4>3. QED
        BY <1>5, <2>1, <3>1, <4>1, <4>2 DEF Taken
    <3>2. CASE t[1] # r
      BY <1>1, <1>5, <2>1, <3>2 DEF Taken
    <3>3. QED
      BY <3>1, <3>2
  <2>3. Taken' = Taken \cup {<<r, next[r]>>}
    <3>1. Taken \subseteq Places(tempFiles)
      BY DEF Taken
    <3>2. QED
      BY <1>3, <1>4, <2>2, <3>1
  <2>4. QED
    BY <1>1, <1>2, <1>3, <1>6, <2>1, <2>3
<1>7. CASE ~ (next[r] < Len(tempFiles[r]))
  <2>1. next' = next /\ runs' = runs \ {r}
    BY <1>7 DEF Advance
  <2>2. next[r] = Len(tempFiles[r])
    BY <1>1, <1>2, <1>7
  <2>3. ASSUME NEW t \in Places(tempFiles)
        PROVE  (t[1] \in runs' => t[2] < next'[t[1]]) <=> (t \in Taken \/ t = <<r, next[r]>>)
    <3>1. CASE t[1] = r
      <4>1. t[2] < next[r] \/ t[2] = next[r]
        BY <1>1, <1>2, <1>5, <2>2, <3>1
      <4>2. QED
        BY <1>5, <2>1, <3>1, <4>1 DEF Taken
    <3>2. CASE t[1] # r
      BY <1>1, <1>5, <2>1, <3>2 DEF Taken
    <3>3. QED
      BY <3>1, <3>2
  <2>4. Taken' = Taken \cup {<<r, next[r]>>}
    <3>1. Taken \subseteq Places(tempFiles)
      BY DEF Taken
    <3>2. QED
      BY <1>3, <1>4, <2>3, <3>1
  <2>5. QED
    BY <1>1, <1>3, <2>1, <2>4
<1>8. QED
  BY <1>6, <1>7

(* A record above the last one is above everything written.                *)
LEMMA AboveLast ==
  ASSUME Typed, Merging, NEW record \in Records, \A l \in last : l < record
  PROVE  \A x \in Range(out) : x < record
<1>1. SUFFICES ASSUME NEW x \in Range(out) PROVE x < record
  OBVIOUS
<1>2. PICK l \in last : x <= l
  BY DEF Merging
<1>3. x \in Int /\ l \in Int /\ record \in Int
  BY RangeOfFile, SortAssumption DEF Typed
<1>4. QED
  BY <1>2, <1>3

(* However the queue breaks ties, the smallest next record is written, and *)
(* what the other runs and the rest of this one hold is not below it.      *)
LEMMA MergeKeeps ==
  ASSUME SortInv, Merge
  PROVE  SortInv'
<1>1. /\ Typed /\ pc = "merge" /\ pc' = "merge" /\ RunsWritten /\ Merging /\ MergeAscends
      /\ itemsRead = Len(input) /\ itemsMerged' = itemsMerged + 1
      /\ UNCHANGED <<input, diskFills, readVars, directVars>>
  BY DEF Merge, SortInv
<1>2. PICK r \in Smallest : Emit(NextOf(r)) /\ Advance(r)
  BY DEF Merge
<1>3. PICK full : CutFrom(full)
  BY <1>1 DEF RunsWritten
<1>4. r \in runs /\ tempFiles' = tempFiles /\ \A s \in runs : NextOf(r) <= NextOf(s)
  BY <1>1, <1>2 DEF Smallest, readVars
<1> DEFINE place == <<r, next[r]>>
<1>5. PICK record : record = NextOf(r)
  OBVIOUS
<1>6. /\ place \in Places(tempFiles)
      /\ place \notin Taken
      /\ Taken' = Taken \cup {place}
      /\ runs' \subseteq runs
      /\ next' \in [1..Len(tempFiles) -> Nat \ {0}]
      /\ \A s \in runs' : next'[s] \in 1..Len(tempFiles[s])
      /\ \A s \in runs' : next'[s] = IF s = r THEN next[r] + 1 ELSE next[s]
  BY <1>1, <1>2, <1>4, OneMoreTaken
<1>7. RecordAt(place) = record /\ record \in Records /\ record \in Int
  BY <1>1, <1>5, <1>6, PlacesHoldRecords DEF RecordAt, NextOf
<1>8. /\ runs \subseteq 1..Len(tempFiles)
      /\ \A s \in runs : next[s] \in 1..Len(tempFiles[s]) /\ next[s] \in Nat
      /\ \A s \in runs : Increasing(tempFiles[s])
  BY <1>1, <1>3, RunsOnDisk DEF Merging
<1>9. \A s \in runs : NextOf(s) \in Int
  <2>1. \A s \in runs : <<s, next[s]>> \in Places(tempFiles) /\ NextOf(s) = RecordAt(<<s, next[s]>>)
    BY <1>8 DEF Places, RecordAt, NextOf
  <2>2. QED
    BY <1>1, <2>1, PlacesHoldRecords
<1>10. ASSUME NEW s \in runs' PROVE record <= tempFiles[s][next'[s]]
  <2>1. CASE s = r
    <3>1. next[r] \in 1..Len(tempFiles[r]) /\ next'[r] \in 1..Len(tempFiles[r]) /\ next[r] < next'[r]
      BY <1>4, <1>6, <1>8, <1>10, <2>1
    <3>2. tempFiles[r][next[r]] < tempFiles[r][next'[r]]
      BY <1>4, <1>8, <3>1 DEF Increasing
    <3>3. <<r, next'[r]>> \in Places(tempFiles) /\ RecordAt(<<r, next'[r]>>) = tempFiles[r][next'[r]]
      BY <1>4, <1>8, <3>1 DEF Places, RecordAt
    <3>4. tempFiles[r][next'[r]] \in Int
      BY <1>1, <3>3, PlacesHoldRecords
    <3>5. QED
      BY <1>5, <1>7, <2>1, <3>2, <3>4 DEF NextOf
  <2>2. CASE s # r
    BY <1>4, <1>5, <1>6, <1>10, <2>2 DEF NextOf
  <2>3. QED
    BY <2>1, <2>2
<1>11. /\ last \subseteq Records /\ out \in Seq(Records)
       /\ \A l \in last : l <= record /\ l \in Int
  BY <1>1, <1>4, <1>5, SortAssumption DEF Typed, MergeAscends
(* The counter.                                                            *)
<1>12. itemsMerged' = Cardinality(Taken')
  <2>1. IsFiniteSet(Taken)
    <3>1. Taken \subseteq Places(tempFiles) /\ IsFiniteSet(Places(tempFiles))
      BY <1>1, <1>3, RunsOnDisk DEF Taken
    <3>2. QED
      BY <3>1, FS_Subset
  <2> HIDE DEF place
  <2>2. Cardinality(Taken \cup {place}) = Cardinality(Taken) + 1
    BY <1>6, <2>1, FS_AddElement
  <2>3. QED
    BY <1>1, <1>6, <2>2 DEF Merging
<1>13. {RecordAt(t) : t \in Taken}' = {RecordAt(t) : t \in Taken} \cup {record}
  <2> HIDE DEF place
  <2>1. \A t : RecordAt(t)' = RecordAt(t)
    BY <1>4 DEF RecordAt
  <2>2. {RecordAt(t) : t \in Taken}' = {RecordAt(t) : t \in Taken \cup {place}}
    BY <1>6, <2>1
  <2>3. QED
    BY <1>7, <2>2
(* The record repeats the last one, or it is larger, and is written unless *)
(* the disk is full.                                                       *)
<1>14. CASE \E l \in last : ~ (l < record)
  <2>1. UNCHANGED <<last, out, lost>>
    BY <1>2, <1>5, <1>14 DEF Emit
  <2>2. last = {record}
    BY <1>1, <1>7, <1>11, <1>14 DEF Merging
  <2>3. ~ lost => Range(out) = {RecordAt(t) : t \in Taken} \cup {record}
    BY <1>1, <2>2 DEF Merging
  <2>4. Merging'
    <3>1. ~ lost' => Range(out') = {RecordAt(t) : t \in Taken}' /\ last' \subseteq Range(out')
      BY <1>1, <1>13, <2>1, <2>2, <2>3 DEF Merging
    <3>2. QED
      BY <1>1, <1>4, <1>6, <1>8, <1>12, <2>1, <3>1 DEF Merging, Increasing
  <2>5. MergeAscends'
    <3>1. \A s \in runs' : NextOf(s)' = tempFiles[s][next'[s]]
      BY <1>4 DEF NextOf
    <3>2. QED
      BY <1>10, <2>1, <2>2, <3>1 DEF MergeAscends
  <2>6. Typed' /\ RunsWritten'
    BY <1>1, <2>1 DEF Typed, RunsWritten, CutFrom, readVars
  <2>7. QED
    BY <1>1, <2>4, <2>5, <2>6 DEF SortInv, LostRunsAreNoticed, readVars
<1>15. CASE \A l \in last : l < record
  <2>1. /\ last' = {record}
        /\ \/ out' = Append(out, record) /\ lost' = lost
           \/ diskFills /\ out' = out /\ lost' = TRUE
    BY <1>2, <1>5, <1>15 DEF Emit
  <2>2. \A x \in Range(out) : x < record
    BY <1>1, <1>7, <1>15, AboveLast
  <2>3. Increasing(out) /\ (~ lost => Range(out) = {RecordAt(t) : t \in Taken}) /\ (~ diskFills => ~ lost)
    BY <1>1 DEF Merging
  <2>4. /\ out' \in Seq(Records) /\ Increasing(out')
        /\ \A x \in Range(out') : x <= record
        /\ ~ lost' => Range(out') = {RecordAt(t) : t \in Taken}' /\ record \in Range(out')
        /\ ~ diskFills' => ~ lost'
    <3>1. CASE out' = Append(out, record) /\ lost' = lost
      <4>1. Range(out') = Range(out) \cup {record}
        BY <1>7, <1>11, <3>1, AppendToRange
      <4>2. Increasing(Append(out, record))
        BY <1>7, <1>11, <2>2, <2>3, AppendToIncreasing
      <4>3. Increasing(out') /\ out' \in Seq(Records)
        BY <1>7, <1>11, <3>1, <4>2, AppendProperties DEF Increasing
      <4>4. \A x \in Range(out) : x \in Int
        BY <1>11, RangeOfFile, SortAssumption
      <4>5. \A x \in Range(out') : x <= record
        BY <1>7, <2>2, <4>1, <4>4
      <4>6. ~ lost' => Range(out') = {RecordAt(t) : t \in Taken}' /\ record \in Range(out')
        BY <1>13, <2>3, <3>1, <4>1, Zenon
      <4>7. ~ diskFills' => ~ lost'
        BY <1>1, <2>3, <3>1
      <4>8. QED
        BY <4>3, <4>5, <4>6, <4>7, Zenon
    <3>2. CASE diskFills /\ out' = out /\ lost' = TRUE
      <4>1. \A x \in Range(out) : x \in Int
        BY <1>11, RangeOfFile, SortAssumption
      <4>2. QED
        BY <1>1, <1>7, <1>11, <2>2, <2>3, <3>2, <4>1 DEF Increasing
    <3>3. QED
      BY <2>1, <3>1, <3>2
  <2>5. Merging'
    <3>1. runs' \subseteq 1..Len(tempFiles)
      BY <1>6, <1>8
    <3>2. QED
      BY <1>4, <1>6, <1>7, <1>12, <2>1, <2>4, <3>1 DEF Merging
  <2>6. MergeAscends'
    <3>1. \A s \in runs' : NextOf(s)' = tempFiles[s][next'[s]]
      BY <1>4 DEF NextOf
    <3>2. QED
      BY <1>10, <2>1, <3>1 DEF MergeAscends
  <2>7. Typed' /\ RunsWritten'
    BY <1>1, <1>7, <2>1, <2>4 DEF Typed, RunsWritten, CutFrom, readVars
  <2>8. QED
    BY <1>1, <2>5, <2>6, <2>7 DEF SortInv, LostRunsAreNoticed, readVars
<1>16. QED
  BY <1>14, <1>15

(* When the counters agree, nothing that was written has stayed behind:    *)
(* the places taken are among those written, and as many.                  *)
LEMMA NothingStayedBehind ==
  ASSUME SortInv, pc = "merge", runs = {}, CountsAgree
  PROVE  {RecordAt(t) : t \in Taken} = Range(input)
<1>1. Typed /\ RunsWritten /\ Merging /\ itemsRead = Len(input)
  BY DEF SortInv
<1>2. PICK full : CutFrom(full)
  BY <1>1 DEF RunsWritten
<1>3. Taken = Places(tempFiles)
  BY DEF Taken
<1>4. \A t \in Places(tempFiles) : t \in Places(full)
  BY <1>1, <1>2, RunsOnDisk
<1>5. IsFiniteSet(Places(full)) /\ Cardinality(Places(full)) = Cardinality(Places(tempFiles))
  BY <1>1, <1>2, <1>3 DEF CountsAgree, Merging, CutFrom
<1>6. Places(tempFiles) = Places(full)
  <2>1. Places(tempFiles) \in SUBSET Places(full)
    BY <1>4
  <2>2. QED
    BY <1>5, <2>1, FS_Subset
<1>7. QED
  BY <1>1, <1>2, <1>3, <1>6, RecordsOnDisk

LEMMA FinishMergeKeeps ==
  ASSUME SortInv, FinishMerge
  PROVE  SortInv'
<1>1. /\ Typed /\ pc = "merge" /\ pc' = "done" /\ runs = {} /\ Merging
      /\ CountsAgree /\ CloseOutput
      /\ UNCHANGED <<input, diskFills, readVars, directVars, mergeVars>>
  BY DEF FinishMerge, SortInv
<1>2. {RecordAt(t) : t \in Taken} = Range(input)
  BY <1>1, NothingStayedBehind
<1>3. out' \in Seq(Records) /\ (~ lost' => out' = out /\ ~ lost)
  BY <1>1, OutputClosed
<1>4. LostRunsAreNoticed'
  BY <1>1, <1>2, <1>3 DEF LostRunsAreNoticed, Increasing, Merging
<1>5. QED
  BY <1>1, <1>3, <1>4 DEF SortInv, Typed, MergeAscends, readVars, mergeVars

LEMMA AbortKeeps ==
  ASSUME SortInv, WriteFails \/ CountsDiffer
  PROVE  SortInv'
<1>1. /\ pc' = "abort" /\ pc \in {"read", "direct", "merge"} /\ runs = {} /\ Typed
      /\ UNCHANGED <<input, diskFills, readVars, directVars, mergeVars, out, lost>>
  BY DEF WriteFails, CountsDiffer, SortInv
<1>2. QED
  BY <1>1 DEF SortInv, Typed, MergeAscends, LostRunsAreNoticed, readVars, mergeVars

LEMMA SortInvStutters ==
  ASSUME SortInv, UNCHANGED vars
  PROVE  SortInv'
<1>1. UNCHANGED <<input, diskFills, readVars, directVars, mergeVars, out, lost, pc>>
  BY DEF vars
<1>2. Typed' = Typed /\ Fresh' = Fresh /\ Directly' = Directly
  BY <1>1 DEF Typed, Fresh, Directly, readVars, directVars, mergeVars
<1>3. RunsWritten' = RunsWritten
  BY <1>1 DEF RunsWritten, CutFrom, readVars
<1>4. Merging' = Merging
  BY <1>1 DEF Merging, Taken, RecordAt, readVars, mergeVars
<1>5. MergeAscends' = MergeAscends /\ LostRunsAreNoticed' = LostRunsAreNoticed
  BY <1>1 DEF MergeAscends, NextOf, LostRunsAreNoticed, readVars, mergeVars
<1>6. QED
  BY <1>1, <1>2, <1>3, <1>4, <1>5 DEF SortInv, readVars, directVars, mergeVars

(* The state of sort is, on every input, the one that SortInv describes.   *)
THEOREM SortInvariance == Spec => []SortInv
<1>1. Init => SortInv
  BY SortInvInit
<1>2. SortInv /\ [Next]_vars => SortInv'
  <2> SUFFICES ASSUME SortInv, [Next]_vars PROVE SortInv'
    OBVIOUS
  <2>1. CASE FitsInMemory
    BY <2>1, FitsInMemoryKeeps
  <2>2. CASE WriteRun
    BY <2>2, WriteRunKeeps
  <2>3. CASE WriteFails \/ CountsDiffer
    BY <2>3, AbortKeeps
  <2>4. CASE WriteDirect
    BY <2>4, WriteDirectKeeps
  <2>5. CASE FinishDirect
    BY <2>5, FinishDirectKeeps
  <2>6. CASE OpenRuns
    BY <2>6, OpenRunsKeeps
  <2>7. CASE Merge
    BY <2>7, MergeKeeps
  <2>8. CASE FinishMerge
    BY <2>8, FinishMergeKeeps
  <2>9. CASE UNCHANGED vars
    BY <2>9, SortInvStutters
  <2>10. QED
    BY <2>1, <2>2, <2>3, <2>4, <2>5, <2>6, <2>7, <2>8, <2>9 DEF Next
<1>3. QED
  BY <1>1, <1>2, PTL DEF Spec

(* The assertion of the merge holds, whatever the runs and the ties: no    *)
(* record comes out after a larger one (sort.cc:155).                      *)
THEOREM MergeNeverGoesBack == Spec => []MergeAscends
<1>1. SortInv => MergeAscends
  BY DEF SortInv
<1>2. QED
  BY <1>1, SortInvariance, PTL

(* The assertions on the counters are enough to notice that a run lost     *)
(* records on a full disk (sort.cc:181-182).                               *)
THEOREM LossesNoticed == Spec => []LostRunsAreNoticed
<1>1. SortInv => LostRunsAreNoticed
  BY DEF SortInv
<1>2. QED
  BY <1>1, SortInvariance, PTL

------------------------------------------------------------------------------
(* What sort promises *)

(* The record the merge writes is the next one to be written.              *)
LEMMA MergeWritesSmallest ==
  ASSUME SortInv, pc = "merge", ~ diskFills, NEW r \in Smallest
  PROVE  /\ NextOf(r) \in Records /\ NextOf(r) \in Range(input)
         /\ \A x \in Range(input) \ Range(out) : NextOf(r) <= x
<1>1. /\ Typed /\ Merging /\ RunsWritten /\ itemsRead = Len(input)
      /\ r \in runs /\ \A s \in runs : NextOf(r) <= NextOf(s)
  BY DEF SortInv, Smallest
<1>2. PICK full : CutFrom(full)
  BY <1>1 DEF RunsWritten
<1>3. \A s \in runs : <<s, next[s]>> \in Places(tempFiles) /\ NextOf(s) = RecordAt(<<s, next[s]>>)
  BY <1>1 DEF Merging, Places, RecordAt, NextOf
<1>4. \A s \in runs : NextOf(s) \in Records /\ NextOf(s) \in Int
  BY <1>1, <1>3, PlacesHoldRecords
<1>5. Places(tempFiles) = Places(full)
  BY <1>2 DEF Places, CutFrom
<1>6. {RecordAt(t) : t \in Places(tempFiles)} = Range(input)
  BY <1>1, <1>2, <1>5, RecordsOnDisk
<1>7. ASSUME NEW x \in Range(input) \ Range(out) PROVE NextOf(r) <= x
  <2>1. PICK t \in Places(tempFiles) : x = RecordAt(t)
    BY <1>6
  <2>2. t \notin Taken
    BY <1>1, <2>1 DEF Merging
  <2>3. t[1] \in runs /\ ~ (t[2] < next[t[1]])
    BY <2>2 DEF Taken
  <2>4. /\ t[2] \in 1..Len(tempFiles[t[1]]) /\ next[t[1]] \in 1..Len(tempFiles[t[1]])
        /\ t[2] \in Nat
    BY <1>1, <2>3 DEF Places, Merging
  <2>5. Increasing(tempFiles[t[1]])
    BY <1>1, <1>2, <2>3, RunsOnDisk DEF Merging
  <2>6. next[t[1]] = t[2] \/ next[t[1]] < t[2]
    BY <2>3, <2>4
  <2>7. RecordAt(t) \in Int /\ NextOf(t[1]) \in Int /\ NextOf(r) \in Int
    BY <1>1, <1>4, <2>3, PlacesHoldRecords
  <2>8. NextOf(t[1]) <= RecordAt(t)
    BY <2>4, <2>5, <2>6, <2>7 DEF NextOf, RecordAt, Increasing
  <2>9. NextOf(r) <= NextOf(t[1])
    BY <1>1, <2>3
  <2>10. QED
    BY <2>1, <2>7, <2>8, <2>9
<1>8. QED
  BY <1>1, <1>3, <1>4, <1>6, <1>7

(* Writing the smallest missing record is a step of UniqueSort.            *)
LEMMA SmallestIsWritten ==
  ASSUME Typed, ~ diskFills, UNCHANGED <<input, diskFills>>, pc # "done", pc' # "done",
         NEW record \in Range(input), record \notin Range(out),
         \A x \in Range(input) \ Range(out) : record <= x,
         out' = Append(out, record)
  PROVE  Sort!Write
<1> DEFINE missing == Range(input) \ Range(out)
<1>1. missing \subseteq Int /\ record \in missing /\ \A x \in missing : record <= x
  BY RangeOfFile, SortAssumption DEF Typed
<1>2. Sort!Missing = missing
  BY DEF Sort!Missing, Sort!Range, Range
<1> HIDE DEF missing
<1>3. \A x \in missing : (\A y \in missing : x <= y) => x = record
  BY <1>1
<1>4. Sort!Min(missing) = record
  BY <1>1, <1>3 DEF Sort!Min
<1>5. QED
  BY <1>1, <1>2, <1>4 DEF Sort!Write

(* The end of the output is the end of UniqueSort.                         *)
LEMMA AllIsWritten ==
  ASSUME Typed, ~ diskFills, UNCHANGED <<input, diskFills>>, pc # "done", pc' = "done",
         Range(out) = Range(input), CloseOutput
  PROVE  Sort!Finish
<1>1. out' = out
  BY ClosedProperties DEF Typed, CloseOutput
<1>2. Sort!Missing = {}
  BY DEF Sort!Missing, Sort!Range, Range
<1>3. ~ (~ diskFills /\ pc = "done") /\ (~ diskFills /\ pc = "done")' = TRUE
  OBVIOUS
<1>4. QED
  BY <1>1, <1>2, <1>3 DEF Sort!Finish

LEMMA StepSimulates ==
  ASSUME SortInv, Next
  PROVE  [Sort!SortNext]_(Sort!sortVars)
<1>1. Typed /\ UNCHANGED <<input, diskFills>> /\ pc # "done"
  BY DEF SortInv, Next, FitsInMemory, WriteRun, WriteFails, WriteDirect, FinishDirect, OpenRuns,
         Merge, FinishMerge, CountsDiffer
<1>2. CASE diskFills \/ (out' = out /\ pc' # "done")
  BY <1>1, <1>2 DEF Sort!sortVars
<1>3. ASSUME ~ diskFills, WriteDirect PROVE [Sort!SortNext]_(Sort!sortVars)
  <2>1. /\ Directly /\ pc' # "done" /\ ptr <= Len(buffer)
        /\ out' = IF IsNew THEN Append(out, buffer[ptr]) ELSE out
    BY <1>3 DEF WriteDirect, SortInv
  <2>2. CASE IsNew
    <3>1. /\ buffer[ptr] \in Range(input)
          /\ \A x \in Range(out) : x < buffer[ptr]
          /\ \A x \in Range(input) \ Range(out) : buffer[ptr] <= x
      BY <1>1, <2>1, <2>2, DirectWritesSmallest
    <3>2. Range(input) \subseteq Int
      BY <1>1, RangeOfFile, SortAssumption DEF Typed
    <3>3. buffer[ptr] \notin Range(out)
      BY <3>1, <3>2
    <3>4. Sort!Write
      BY <1>1, <1>3, <2>1, <2>2, <3>1, <3>3, SmallestIsWritten
    <3>5. QED
      BY <3>4 DEF Sort!SortNext
  <2>3. QED
    BY <1>2, <2>1, <2>2
<1>4. ASSUME ~ diskFills, FinishDirect PROVE [Sort!SortNext]_(Sort!sortVars)
  <2>1. /\ Directly /\ ptr > Len(buffer) /\ CloseOutput /\ pc' = "done"
    BY <1>4 DEF FinishDirect, SortInv
  <2>2. ptr - 1 = Len(buffer)
    BY <2>1, LenProperties DEF Directly
  <2>3. Range(out) = Range(input)
    BY <2>1, <2>2, RangeOfFile DEF Directly
  <2>4. Sort!Finish
    BY <1>1, <1>4, <2>1, <2>3, AllIsWritten
  <2>5. QED
    BY <2>4 DEF Sort!SortNext
<1>5. ASSUME ~ diskFills, Merge PROVE [Sort!SortNext]_(Sort!sortVars)
  <2>1. PICK r \in Smallest : Emit(NextOf(r))
    BY <1>5 DEF Merge
  <2>2. PICK record : record = NextOf(r)
    OBVIOUS
  <2>3. pc = "merge" /\ pc' # "done" /\ Merging
    BY <1>5 DEF Merge, SortInv
  <2>4. /\ record \in Records /\ record \in Range(input)
        /\ \A x \in Range(input) \ Range(out) : record <= x
    BY <1>5, <2>2, <2>3, MergeWritesSmallest
  <2>5. CASE \E l \in last : ~ (l < record)
    BY <1>2, <2>1, <2>2, <2>3, <2>5 DEF Emit
  <2>6. CASE \A l \in last : l < record
    <3>1. out' = Append(out, record)
      BY <1>5, <2>1, <2>2, <2>6 DEF Emit
    <3>2. \A x \in Range(out) : x < record
      BY <1>1, <2>3, <2>4, <2>6, AboveLast
    <3>3. record \notin Range(out)
      BY <2>4, <3>2, SortAssumption
    <3>4. Sort!Write
      BY <1>1, <1>5, <2>3, <2>4, <3>1, <3>3, SmallestIsWritten
    <3>5. QED
      BY <3>4 DEF Sort!SortNext
  <2>7. QED
    BY <2>5, <2>6
<1>6. ASSUME ~ diskFills, FinishMerge PROVE [Sort!SortNext]_(Sort!sortVars)
  <2>1. pc = "merge" /\ runs = {} /\ CountsAgree /\ CloseOutput /\ pc' = "done" /\ Merging
    BY <1>6 DEF FinishMerge, SortInv
  <2>2. Range(out) = {RecordAt(t) : t \in Taken}
    BY <1>6, <2>1 DEF Merging
  <2>3. Range(out) = Range(input)
    BY <2>1, <2>2, NothingStayedBehind
  <2>4. Sort!Finish
    BY <1>1, <1>6, <2>1, <2>3, AllIsWritten
  <2>5. QED
    BY <2>4 DEF Sort!SortNext
<1>7. CASE FitsInMemory \/ WriteRun \/ WriteFails \/ OpenRuns \/ CountsDiffer
  <2>1. out' = out /\ pc' # "done"
    BY <1>7 DEF FitsInMemory, WriteRun, WriteFails, OpenRuns, CountsDiffer
  <2>2. QED
    BY <1>2, <2>1
<1>8. QED
  BY <1>2, <1>3, <1>4, <1>5, <1>6, <1>7 DEF Next

(* On every input, whatever the size of the buffer, sort writes the        *)
(* distinct records in increasing order, and ends only when all are        *)
(* written, unless the disk is full (sort.cc:89-98, 148-176).              *)
THEOREM SortImplements == Spec => SortsUnique
<1>1. Init => Sort!SortInit
  <2> SUFFICES ASSUME Init PROVE Sort!SortInit
    OBVIOUS
  <2>1. input \in Seq(Records)
    BY SortAssumption DEF Init
  <2>2. Range(input) \subseteq Records
    BY <2>1, RangeOfFile
  <2>3. (~ diskFills /\ pc = "done") = FALSE
    BY DEF Init
  <2>4. (IF diskFills THEN << >> ELSE out) = << >>
    BY DEF Init
  <2>5. QED
    BY <2>2, <2>3, <2>4 DEF Sort!SortInit
<1>2. SortInv /\ [Next]_vars => [Sort!SortNext]_(Sort!sortVars)
  <2>1. ASSUME UNCHANGED vars PROVE UNCHANGED Sort!sortVars
    BY <2>1 DEF vars, Sort!sortVars
  <2>2. QED
    BY <2>1, StepSimulates
<1>3. QED
  BY <1>1, <1>2, SortInvariance, PTL DEF Spec, SortsUnique, Sort!SortSpec

==============================================================================
