------------------------------ MODULE LinkFiles ------------------------------
(***************************************************************************)
(* The files of links {src, dst} that sort writes and that dfs and         *)
(* dominate map into memory, and the binary search they use on them.  A    *)
(* file is a sequence of records; index j of a sequence stands for the     *)
(* array element j - 1 of the code, so that a pointer one past the end is  *)
(* Len(file) + 1.                                                          *)
(***************************************************************************)
EXTENDS Integers, Sequences, FiniteSets

(* struct Link of util.h, and its operator<.                               *)
Links(S) == [src : S, dst : S]
LinkLess(a, b) == \/ a.src < b.src
                  \/ a.src = b.src /\ a.dst < b.dst

(* What "sort ... link" leaves in a file: increasing, hence no duplicates. *)
StrictlySorted(file) ==
  \A i, j \in 1..Len(file) : i < j => LinkLess(file[i], file[j])

(* The links of a file, as a set. *)
LinksOf(file) == {file[j] : j \in 1..Len(file)}

(* What sort makes of a file of links; the program is in ExternalSort.     *)
SortedLinks(file) ==
  LET rank(e) == Cardinality({f \in LinksOf(file) : LinkLess(f, e)})
  IN  [k \in 1..Cardinality(LinksOf(file)) |->
         CHOOSE e \in LinksOf(file) : rank(e) = k - 1]

(***************************************************************************)
(* std::lower_bound: the first position of a partitioned array that is not *)
(* below the key, Len + 1 when every element is below it.                  *)
(***************************************************************************)
PartitionPoint(len, below) ==
  CHOOSE p \in 1..(len + 1) : \A j \in 1..len : j \in below <=> j < p

LinkLowerBound(file, key) ==
  PartitionPoint(Len(file), {j \in 1..Len(file) : LinkLess(file[j], key)})

(* A vector's push_back is Append; this is its pop_back, and the return    *)
(* from the innermost of the calls on a call stack.                        *)
Pop(s) == SubSeq(s, 1, Len(s) - 1)

==============================================================================
