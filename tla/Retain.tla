------------------------------- MODULE Retain --------------------------------
(***************************************************************************)
(* The program retain (src/src/retain.cc): it walks the numbers downwards  *)
(* and adds what each node retains to what its dominator retains.  It is   *)
(* given the sorted size column, whose length is its number of nodes: dfs  *)
(* and dominate were given the length of the unsorted column, in which an  *)
(* instance may occur more than once.                                      *)
(***************************************************************************)
EXTENDS Integers, FiniteSets

CONSTANTS
  NumNodes,     \* length of vertex and dominator
  NumInstances  \* length of size, and of the outputs

Nodes == 0..(NumNodes - 1)
Instances == 0..(NumInstances - 1)

VARIABLES
  vertex,        \* node with a given number
  dominator,     \* dominator of a node
  size,          \* size of an instance
  retained,      \* bytes the instance retains
  retainedCount, \* instances it retains
  i,             \* the number being processed
  skipped,       \* unreachable instances so far
  totalSize,     \* bytes of the reachable instances so far
  dots,          \* the code's 80, as in dominate
  pc

retainVars ==
  <<vertex, dominator, size, retained, retainedCount, i, skipped, totalSize, pc>>

(* The process begins. *)
Load ==
  /\ i' = NumInstances - 1
  /\ skipped' = 0
  /\ totalSize' = 0

(* Faulty variants, which the properties must tell from the code, are the  *)
(* definitions whose name says what is wrong; nothing uses them.           *)
Begin_NotZeroed ==
  /\ pc = "start"
  /\ pc' = "loop"
  /\ UNCHANGED <<vertex, dominator, size, retained, retainedCount, i, skipped, totalSize>>

Begin ==
  /\ pc = "start"
  /\ retained' = [v \in Instances |-> 0]
  /\ retainedCount' = [v \in Instances |-> 0]
  /\ pc' = "loop"
  /\ UNCHANGED <<vertex, dominator, size, i, skipped, totalSize>>

InLoop == pc = "loop" /\ i > 0

DotInterval_RoundedUp == (NumInstances + dots - 1) \div dots

DotInterval == NumInstances \div dots

DivideByZero ==
  /\ InLoop
  /\ DotInterval = 0
  /\ pc' = "abort"
  /\ UNCHANGED <<vertex, dominator, size, retained, retainedCount, i, skipped, totalSize>>

PassOn_OwnOnly(sums, v, own) ==
  LET counted == [sums EXCEPT ![v] = @ + own]
  IN  [counted EXCEPT ![dominator[v]] = @ + own]

(* The running sum at v, and then at its dominator.                        *)
PassOn(sums, v, own) ==
  LET counted == [sums EXCEPT ![v] = @ + own]
  IN  [counted EXCEPT ![dominator[v]] = @ + counted[v]]

Accumulate ==
  /\ InLoop
  /\ DotInterval # 0
  /\ LET v == vertex[i]
     IN  /\ v # 0
         /\ totalSize' = totalSize + size[v]
         /\ retained' = PassOn(retained, v, size[v])
         /\ retainedCount' = PassOn(retainedCount, v, 1)
  /\ i' = i - 1
  /\ UNCHANGED <<vertex, dominator, size, skipped, pc>>

SkipUnreached ==
  /\ InLoop
  /\ DotInterval # 0
  /\ vertex[i] = 0
  /\ skipped' = skipped + 1
  /\ i' = i - 1
  /\ UNCHANGED <<vertex, dominator, size, retained, retainedCount, totalSize, pc>>

(* The assertions after the loop (lines 72 and 73).                        *)
TotalsAgree ==
  /\ totalSize = retained[0]
  /\ NumInstances - skipped = retainedCount[0] + 1

Finish ==
  /\ pc = "loop"
  /\ i = 0
  /\ pc' = IF TotalsAgree THEN "done" ELSE "abort"
  /\ UNCHANGED <<vertex, dominator, size, retained, retainedCount, i, skipped, totalSize>>

Next == Begin \/ DivideByZero \/ Accumulate \/ SkipUnreached \/ Finish

------------------------------------------------------------------------------

==============================================================================
