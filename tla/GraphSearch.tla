----------------------------- MODULE GraphSearch -----------------------------
(***************************************************************************)
(* What the first analysis stage promises: starting from the virtual root  *)
(* it finds, in some order, one node after the other, each by a link out   *)
(* of a node found before it, and it finishes only when no link leads out  *)
(* of what it found.  dfs implements it (module Dfs).                      *)
(***************************************************************************)
EXTENDS HeapGraph

CONSTANT Nodes           \* the nodes of the graph, 0 among them
VARIABLES
  links,                 \* the links of the graph
  found,                 \* the nodes found so far
  finished               \* the search has returned

searchVars == <<links, found, finished>>

SearchInit ==
  /\ links \subseteq [src : Nodes, dst : Nodes]
  /\ found = {}
  /\ finished = FALSE

FindRoot ==
  /\ found = {}
  /\ found' = {0}
  /\ UNCHANGED <<links, finished>>

Find ==
  /\ \E e \in links : e.src \in found /\ e.dst \notin found /\ found' = found \cup {e.dst}
  /\ UNCHANGED <<links, finished>>

Finish ==
  /\ 0 \in found
  /\ Closed(found, links)
  /\ ~ finished
  /\ finished' = TRUE
  /\ UNCHANGED <<links, found>>

SearchNext == FindRoot \/ Find \/ Finish

SearchSpec == SearchInit /\ [][SearchNext]_searchVars

==============================================================================
