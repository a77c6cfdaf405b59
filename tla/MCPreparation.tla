---------------------------- MODULE MCPreparation ----------------------------
(***************************************************************************)
(* Small dumps: two instances and the virtual root, given in an order      *)
(* that is not sorted and with a duplicate, and any set of up to MaxLinks  *)
(* references, some of them to identifiers that are no instances.          *)
(***************************************************************************)
EXTENDS Preparation

CONSTANT MaxLinks

MCIds == <<0, 6, 4, 6>>

(* 2 and 8 are no instances: the one in between, the other after them all. *)
(* A reference to 0 is a null field, which parse writes like any other.    *)
MCLinks == {[src |-> 0, dst |-> 4], [src |-> 0, dst |-> 6], [src |-> 0, dst |-> 8],
            [src |-> 4, dst |-> 6], [src |-> 4, dst |-> 2],
            [src |-> 6, dst |-> 4], [src |-> 6, dst |-> 2],
            [src |-> 6, dst |-> 0]}

MCDumps ==
  {[ids |-> MCIds, sizes |-> <<0, 30, 10, 40>>, references |-> SetToSeq(links)] :
     links \in {S \in SUBSET MCLinks : Cardinality(S) <= MaxLinks}}

==============================================================================
