---------------------------- MODULE ClosureQuery ----------------------------
(***************************************************************************)
(* The transitive closure as README.markdown describes it (lines 129-134): *)
(* a query, repeated, inserts whatever the objects gathered so far refer   *)
(* to, and a UNIQUE constraint drops what is there already.                *)
(***************************************************************************)
EXTENDS HeapGraph

VARIABLES
  links,                 \* the references, in the direction that is followed
  closure                \* the objects gathered so far

Successors(S) == {e.dst : e \in {f \in links : f.src \in S}}

(* Everything that the objects of S lead to, in any number of steps.       *)
ReachableFrom(objects, S) ==
  {w \in objects : \A T \in SUBSET objects : S \subseteq T /\ Closed(T, links) => w \in T}

InsertFrom(S) ==
  /\ closure' = closure \union Successors(S)
  /\ UNCHANGED links

Query == InsertFrom(closure)

==============================================================================
