----------------------------- MODULE SortColumns -----------------------------
(***************************************************************************)
(* The program sortcolumns (src/src/sortcolumns.cc): it puts the values of *)
(* a column, read along with their unsorted keys, into the rows of the     *)
(* sorted keys.                                                            *)
(***************************************************************************)
EXTENDS Columns

CONSTANT Dots      \* 80: the progress divisor

VARIABLES
  keys,            \* the sorted keys, without duplicates
  unsortedKey,     \* the unsorted keys
  unsortedValue,   \* the values, in the order of the unsorted keys
  sortedValue,     \* the mapped output
  recordsSorted,   \* records read
  pc

Files == <<keys, unsortedKey, unsortedValue>>

(* The program is loaded: its files are opened.                            *)
Load == recordsSorted' = 0

(* initializeFile() grows the truncated output to a zero for every key;    *)
(* mmap refuses to map an empty file.                                      *)
MapColumn ==
  /\ pc = "start"
  /\ sortedValue' = [j \in 1..Len(keys) |-> 0]
  /\ pc' = IF keys = << >> THEN "abort" ELSE "sorting"
  /\ UNCHANGED <<Files, recordsSorted>>

More == recordsSorted < Len(unsortedKey)
Key == unsortedKey[recordsSorted + 1]
Row == KeyLowerBound(keys, Key)

(* recordsSorted % (numRecords/80) is computed for every record.           *)
DotInterval == Len(keys) \div Dots

(* Faulty variants, which the properties must tell from the code, are the  *)
(* definitions whose name says what is wrong; nothing uses them.           *)
ValueOf_Previous(record) == unsortedValue[IF record = 1 THEN 1 ELSE record - 1]

ValueOf(record) == unsortedValue[record]

(* The assertions on the row, and on the value that has to be there.       *)
HasValue ==
  /\ recordsSorted < Len(unsortedValue)
  /\ Row \in 1..Len(keys) /\ keys[Row] = Key

SortRecord ==
  /\ pc = "sorting"
  /\ More
  /\ DotInterval > 0
  /\ HasValue
  /\ sortedValue' = [sortedValue EXCEPT ![Row] = ValueOf(recordsSorted + 1)]
  /\ recordsSorted' = recordsSorted + 1
  /\ UNCHANGED <<Files, pc>>

(* An assertion fails, or the dot interval is zero and divided by.         *)
Crash ==
  /\ pc = "sorting"
  /\ More
  /\ DotInterval > 0 => ~ HasValue
  /\ pc' = "abort"
  /\ UNCHANGED <<Files, sortedValue, recordsSorted>>

(* Values without a key are not looked at.                                 *)
Finish ==
  /\ pc = "sorting"
  /\ ~ More
  /\ pc' = "done"
  /\ UNCHANGED <<Files, sortedValue, recordsSorted>>

Next == MapColumn \/ SortRecord \/ Crash \/ Finish

==============================================================================
