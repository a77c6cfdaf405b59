------------------------------- MODULE Columns -------------------------------
(***************************************************************************)
(* The columns the tools pass around: files of one record per row, a row   *)
(* being a position.  A key column holds identifiers.                      *)
(***************************************************************************)
EXTENDS LinkFiles, SequencesExt

(* std::lower_bound on a key column: the first row not below the key.      *)
KeyLowerBound(column, key) ==
  PartitionPoint(Len(column), {j \in 1..Len(column) : column[j] < key})

(* What sort makes of a key column; the program is in ExternalSort.        *)
SortedKeys(column) ==
  LET rank(key) == Cardinality({other \in Range(column) : other < key})
  IN  [row \in 1..Cardinality(Range(column)) |->
         CHOOSE key \in Range(column) : rank(key) = row - 1]

==============================================================================
