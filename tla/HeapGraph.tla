------------------------------ MODULE HeapGraph ------------------------------
(***************************************************************************)
(* Reference definitions on the reference graph of a heap: what "reachable *)
(* from the roots", "dominates" and "retains" mean, stated without any     *)
(* algorithm.  Node 0 is the virtual root, from which the heap's roots are *)
(* linked.  Reachability is the least set closed under the links, a form   *)
(* that needs neither paths nor recursion.                                 *)
(***************************************************************************)
EXTENDS Integers, FiniteSets

Closed(S, links) == \A e \in links : e.src \in S => e.dst \in S

Reachable(nodes, links) ==
  {w \in nodes : \A S \in SUBSET nodes : 0 \in S /\ Closed(S, links) => w \in S}

(* The graph without node v. *)
Without(v, links) == {e \in links : e.src # v /\ e.dst # v}

(* v dominates w: every path from the root to w goes through v. *)
Dominates(v, w, nodes, links) ==
  /\ {v, w} \subseteq Reachable(nodes, links)
  /\ v # 0 => w \notin Reachable(nodes \ {v}, Without(v, links))

StrictDominators(w, nodes, links) ==
  {v \in nodes \ {w} : Dominates(v, w, nodes, links)}

(* The closest strict dominator: every other one dominates it. *)
IsImmediateDominator(d, w, nodes, links) ==
  /\ d \in StrictDominators(w, nodes, links)
  /\ \A v \in StrictDominators(w, nodes, links) : Dominates(v, d, nodes, links)

(* What the collector would free if v went away: v and all it dominates.   *)
Collectable(v, nodes, links) == {w \in nodes : Dominates(v, w, nodes, links)}

==============================================================================
