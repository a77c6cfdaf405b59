---------------------------- MODULE MCClassNames ----------------------------
(***************************************************************************)
(* Classes 4 and 20, of which names 7 and 5 are known, and rows of these,  *)
(* of the virtual root, whose class is 0, of a class in between and of one *)
(* beyond the last.  Names are written in the order 7, 5.                  *)
(***************************************************************************)
EXTENDS ClassNames

MCTables ==
  {[ofRows |-> rows, classes |-> <<4, 20>>, classNames |-> <<7, 5>>,
    names |-> <<5, 7>>, nameOffsets |-> <<2, 0>>, strings |-> <<70, 71, 50, 51>>] :
     rows \in {<< >>, <<20, 4, 20>>, <<0, 20, 4>>, <<20, 9, 4>>, <<4, 30, 20>>}}

==============================================================================
