--------------------------- MODULE MCHeapAnalysis ----------------------------
(***************************************************************************)
(* The analysis on every reference graph built from a set of candidate     *)
(* links.  The sizes are powers of two: different sets of instances have   *)
(* different sums.                                                         *)
(***************************************************************************)
EXTENDS HeapAnalysis

K(s, d) == [src |-> s, dst |-> d]

(* Over six nodes: two roots, a chain long enough for COMPRESS to recurse   *)
(* twice, and the smallest graph on which a computed dominator is not the  *)
(* immediate one.                                                          *)
SixNodes == <<K(0, 1), K(0, 2), K(1, 2), K(1, 3), K(2, 3), K(2, 4), K(3, 4), K(4, 3),
              K(4, 5), K(5, 2), K(5, 3)>>

(* Over four nodes: cycles, and a link to the root.                        *)
FourNodes == <<K(0, 1), K(0, 2), K(1, 2), K(1, 3), K(2, 0), K(2, 3), K(3, 1)>>

PartsOf(file) == {SelectSeq(file, LAMBDA e : e \in S) : S \in SUBSET LinksOf(file)}

MCEdgeFiles == PartsOf(SixNodes) \union PartsOf(FourNodes)

(* Programs are rerun on the smaller graphs, and these come with           *)
(* divisors that neither, one or both of the numbers of records are below. *)
MCMaxReruns == [f \in MCEdgeFiles |-> IF f \in PartsOf(FourNodes) THEN 2 ELSE 0]

MCDots ==
  [f \in MCEdgeFiles |->
     IF f \in PartsOf(FourNodes) THEN {2, NumNodes, NumNodes + 1} ELSE {2}]

MCSizes == [v \in 0..(NumInstances - 1) |-> 2 ^ v]

==============================================================================
