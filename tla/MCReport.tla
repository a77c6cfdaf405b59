------------------------------ MODULE MCReport ------------------------------
(***************************************************************************)
(* Three instances: the virtual root and two that retain the same, one of  *)
(* them bigger; once with an entry of dominator too many, because parse    *)
(* wrote a duplicate.  The report has room for two.                        *)
(***************************************************************************)
EXTENDS Report

MCTables == [ofRows |-> << >>, classes |-> <<4, 20>>, classNames |-> <<7, 5>>,
             names |-> <<5, 7>>, nameOffsets |-> <<2, 0>>, strings |-> <<70, 71, 50, 51>>]

Heap(sizes, retained, counts, dominators, classOf) ==
  [ids |-> <<0, 4, 6>>, sizes |-> sizes, retained |-> retained, counts |-> counts,
   dominators |-> dominators, classOf |-> classOf, offsets |-> <<100, 300, 200>>,
   tables |-> MCTables]

MCHeaps == {Heap(<<0, 10, 20>>, <<50, 20, 20>>, <<3, 1, 1>>, <<0, 0, 0, 0>>, <<0, 20, 4>>),
            Heap(<<0, 10, 20>>, <<30, 30, 20>>, <<3, 2, 1>>, <<0, 0, 1>>, <<0, 4, 20>>)}

==============================================================================
