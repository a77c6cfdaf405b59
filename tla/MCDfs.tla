-------------------------------- MODULE MCDfs --------------------------------
(***************************************************************************)
(* dfs on every reference graph over four nodes built from the links       *)
(* below: the root's links, all links between the other nodes, a self      *)
(* reference and a link back to the root (a null or orphan reference,      *)
(* which translate turns into 0).                                          *)
(***************************************************************************)
EXTENDS Dfs

L(s, d) == [src |-> s, dst |-> d]

MCAllLinks == <<L(0, 1), L(0, 2), L(0, 3), L(1, 1), L(1, 2), L(1, 3),
                L(2, 0), L(2, 1), L(2, 3), L(3, 1), L(3, 2)>>

(* Every file is the full one with some of its links left out. *)
MCEdgeFiles ==
  {SelectSeq(MCAllLinks, LAMBDA e : e \in S) : S \in SUBSET LinksOf(MCAllLinks)}

==============================================================================
