------------------------------ MODULE MCClosure ------------------------------
(***************************************************************************)
(* All sets of references over four objects, 0 standing for null, which    *)
(* fields may hold and which refers to nothing.                            *)
(***************************************************************************)
EXTENDS Closure

MCObjects == 0..3

MCRefs == {[src |-> 1, dst |-> 0], [src |-> 1, dst |-> 1], [src |-> 1, dst |-> 2],
           [src |-> 1, dst |-> 3], [src |-> 2, dst |-> 0], [src |-> 2, dst |-> 1],
           [src |-> 2, dst |-> 3], [src |-> 3, dst |-> 1], [src |-> 3, dst |-> 2]}

MCRefTables == SUBSET MCRefs

(* Those without null, for the counterexample to be about objects.         *)
MCObjectRefTables == SUBSET {e \in MCRefs : e.dst # 0}

MCSeedSets == {{}, {1}, {2, 3}}

(* As the schema leaves it, with the seeds in it, with some of them, and   *)
(* with something else.                                                    *)
MCDeltaTables == {{}, {1}, {2, 3}, {1, 2}}

==============================================================================
