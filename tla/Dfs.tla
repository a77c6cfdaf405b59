--------------------------------- MODULE Dfs ---------------------------------
(***************************************************************************)
(* The program dfs (src/src/dfs.cc): it builds the depth-first spanning    *)
(* tree of the reference graph and numbers the nodes in preorder.          *)
(*                                                                         *)
(* The input is the sorted, translated link file; the outputs are the      *)
(* memory-mapped arrays semi (node -> number), vertex (number -> node) and *)
(* parent (node -> tree parent), and the file pred of reversed links.  The *)
(* recursion of dfs() is the explicit call stack "stack": one frame per    *)
(* active call, the innermost last.                                        *)
(*                                                                         *)
(* The counters that only feed the closing message (edgesConsidered,       *)
(* maxDepth, maxNode) are left out; nodesConsidered always equals n.       *)
(***************************************************************************)
EXTENDS LinkFiles, HeapGraph

CONSTANTS
  NumNodes,   \* numNodes, the fifth argument: length of the three arrays
  EdgeFiles   \* the link files dfs may be given

Nodes == 0..(NumNodes - 1)

ASSUME NumNodesAssumption == NumNodes \in Nat \ {0}

(* The files come out of translate, which writes indices of nodes, and of  *)
(* "sort ... link", which writes them in strictly increasing order.        *)
ASSUME EdgeFilesAssumption ==
  \A f \in EdgeFiles : f \in Seq(Links(Nodes)) /\ StrictlySorted(f)

VARIABLES
  edges,      \* the mapped link file
  semi,       \* preorder number of a node; 0 also means "not discovered"
  vertex,     \* the node with a given number
  parent,     \* tree parent of a node
  n,          \* the next number
  pred,       \* the reversed links written so far
  stack,      \* active calls of dfs()
  pc          \* "start", "search", "done" or "abort"

dfsVars == <<edges, semi, vertex, parent, n, pred, stack, pc>>

Zeros == [v \in Nodes |-> 0]

(* One call of dfs(): its node v, its pointer into edges and its count of  *)
(* descendants.                                                            *)
Frames == [node : Nodes, ptr : 1..(Len(edges) + 1), descendants : Nat]

(* Faulty variants, which the properties below must tell from the code:    *)
(* definitions whose name says what is wrong with them and that nothing    *)
(* uses.  Here, links to nodes before v are not looked at.                 *)
EnteredFrame_SkipsSmaller(v) ==
  [node |-> v, ptr |-> LinkLowerBound(edges, [src |-> v, dst |-> v]), descendants |-> 1]

EnteredFrame(v) ==
  [node |-> v, ptr |-> LinkLowerBound(edges, [src |-> v, dst |-> 0]), descendants |-> 1]

Top == stack[Len(stack)]

(* The condition of the loop over the links out of v, in the top frame.    *)
AtLink_AnySource == Top.ptr <= Len(edges)

AtLink == Top.ptr <= Len(edges) /\ edges[Top.ptr].src = Top.node

Current == edges[Top.ptr]

(* The test that decides whether the current link becomes a tree edge.     *)
Undiscovered_RootToo(w) == semi[w] = 0

Undiscovered(w) == w # 0 /\ semi[w] = 0

(***************************************************************************)
(* main() up to the first call: the output arrays are created and zeroed.  *)
(* mmap refuses to map an empty file.                                      *)
(***************************************************************************)
Init ==
  /\ edges \in EdgeFiles
  /\ semi = Zeros
  /\ vertex = Zeros
  /\ parent = Zeros
  /\ n = 0
  /\ pred = << >>
  /\ stack = << >>
  /\ pc = "start"

MapFails ==
  /\ pc = "start"
  /\ edges = << >>
  /\ pc' = "abort"
  /\ UNCHANGED <<edges, semi, vertex, parent, n, pred, stack>>

(* The prologue of dfs(v): number v and find its first link.               *)
Number_OffByOne(v) ==
  /\ semi' = [semi EXCEPT ![v] = n + 1]
  /\ vertex' = [vertex EXCEPT ![n] = v]
  /\ n' = n + 1

Number(v) ==
  /\ semi' = [semi EXCEPT ![v] = n]
  /\ vertex' = [vertex EXCEPT ![n] = v]
  /\ n' = n + 1

CallRoot ==
  /\ pc = "start"
  /\ edges # << >>
  /\ Number(0)
  /\ stack' = <<EnteredFrame(0)>>
  /\ pc' = "search"
  /\ UNCHANGED <<edges, parent, pred>>

(* The current link leads to a new node: it becomes a tree edge.           *)
Descend ==
  /\ pc = "search"
  /\ AtLink
  /\ Undiscovered(Current.dst)
  /\ parent' = [parent EXCEPT ![Current.dst] = Top.node]
  /\ Number(Current.dst)
  /\ stack' = Append(stack, EnteredFrame(Current.dst))
  /\ UNCHANGED <<edges, pred, pc>>

(* The tail of the loop body, for the frame at depth d of the stack: the   *)
(* reversed link goes to pred and the pointer moves on.                    *)
Reversed_NotSwapped(e) == e

Reversed(e) == [src |-> e.dst, dst |-> e.src]

Advance(frame, found) ==
  [node |-> frame.node, ptr |-> frame.ptr + 1, descendants |-> frame.descendants + found]

(* The current link leads to a node already numbered, or to the root.      *)
Skip ==
  /\ pc = "search"
  /\ AtLink
  /\ ~ Undiscovered(Current.dst)
  /\ pred' = Append(pred, Reversed(Current))
  /\ stack' = [stack EXCEPT ![Len(stack)] = Advance(Top, 0)]
  /\ UNCHANGED <<edges, semi, vertex, parent, n, pc>>

(* The innermost call returns; its caller adds its descendants and         *)
(* finishes the link it was at.                                            *)
Return ==
  /\ pc = "search"
  /\ ~ AtLink
  /\ Len(stack) > 1
  /\ LET caller == stack[Len(stack) - 1]
     IN  /\ pred' = Append(pred, Reversed(edges[caller.ptr]))
         /\ stack' = [Pop(stack) EXCEPT ![Len(stack) - 1] = Advance(caller, Top.descendants)]
  /\ UNCHANGED <<edges, semi, vertex, parent, n, pc>>

(* The outermost call returns to main(), which unmaps and exits.           *)
ReturnToMain ==
  /\ pc = "search"
  /\ ~ AtLink
  /\ Len(stack) = 1
  /\ stack' = << >>
  /\ pc' = "done"
  /\ UNCHANGED <<edges, semi, vertex, parent, n, pred>>

Next == MapFails \/ CallRoot \/ Descend \/ Skip \/ Return \/ ReturnToMain

Spec == Init /\ [][Next]_dfsVars

(* dfs is one thread that never blocks: it is scheduled until it ends.     *)
FairSpec == Spec /\ WF_dfsVars(Next)

------------------------------------------------------------------------------
(* The nodes that have a number. *)
Discovered == IF n = 0 THEN {} ELSE {v \in Nodes : v = 0 \/ semi[v] # 0}

(* Type invariant: the arrays hold nodes, and every active call stands at  *)
(* a position of the link file (dfs.cc:18-31).                             *)
TypeOK ==
  /\ edges \in Seq(Links(Nodes)) /\ StrictlySorted(edges)
  /\ semi \in [Nodes -> Nodes]
  /\ vertex \in [Nodes -> Nodes]
  /\ parent \in [Nodes -> Nodes]
  /\ n \in 0..NumNodes
  /\ pred \in Seq(Links(Nodes))
  /\ stack \in Seq(Frames)
  /\ pc \in {"start", "search", "done", "abort"}
  /\ pc = "search" <=> stack # << >>

(***************************************************************************)
(* semi and vertex stay inverse to each other on the discovered nodes and  *)
(* zero elsewhere: although 0 is at once a number, a node and "not         *)
(* discovered", no node is numbered twice and none is lost                 *)
(* (dfs.cc:40-47, 57).                                                     *)
(***************************************************************************)
NumberingIsBijective ==
  /\ \A j \in 0..(n - 1) : vertex[j] \in Discovered /\ semi[vertex[j]] = j
  /\ \A v \in Discovered : semi[v] < n /\ vertex[semi[v]] = v
  /\ \A j \in Nodes : j >= n => vertex[j] = 0

(***************************************************************************)
(* parent is a spanning tree of what was found, and a parent has a smaller *)
(* number than its child: dominate walks the numbers downwards and relies  *)
(* on it (dfs.cc:57-59, the comment at 136-137).                           *)
(***************************************************************************)
ParentTree ==
  \A v \in Discovered \ {0} :
    /\ parent[v] \in Discovered
    /\ semi[parent[v]] < semi[v]
    /\ [src |-> parent[v], dst |-> v] \in LinksOf(edges)

(***************************************************************************)
(* The active calls are a path of links from the root, each caller waiting *)
(* at the link it descended by: the caller resumes at the right place      *)
(* after any depth of recursion (dfs.cc:53-71).                            *)
(***************************************************************************)
CallsFollowLinks ==
  /\ stack # << >> => stack[1].node = 0
  /\ \A k \in 1..Len(stack) : stack[k].node \in Discovered
  /\ \A k \in 1..(Len(stack) - 1) :
       /\ stack[k].ptr <= Len(edges)
       /\ edges[stack[k].ptr] = [src |-> stack[k].node, dst |-> stack[k + 1].node]

(* Everything the links out of v lead to has been found. *)
Explored(v) == \A j \in 1..Len(edges) : edges[j].src = v => edges[j].dst \in Discovered

(***************************************************************************)
(* An active call has dealt with the links of its node that are before its *)
(* pointer and has all others still ahead; a node whose call has returned  *)
(* is explored (dfs.cc:49-53, 66-70).                                      *)
(***************************************************************************)
NothingOverlooked ==
  /\ \A k \in 1..Len(stack) : \A j \in 1..Len(edges) :
       /\ edges[j].src < stack[k].node => j < stack[k].ptr
       /\ edges[j].src = stack[k].node /\ j < stack[k].ptr => edges[j].dst \in Discovered
  /\ \A v \in Discovered : Explored(v) \/ \E k \in 1..Len(stack) : stack[k].node = v

(* A finished search has found exactly the nodes reachable from the root:  *)
(* the count of unreachable objects that main() prints is right, and so    *)
(* are the entries of vertex that the later programs skip (dfs.cc:119).    *)
FindsReachable ==
  pc = "done" => Discovered = Reachable(Nodes, LinksOf(edges))

(***************************************************************************)
(* pred holds every link out of a found node exactly once, reversed: a     *)
(* link skipped, or written by both the caller and the callee, would make  *)
(* dominate see a different graph (dfs.cc:64-67).                          *)
(***************************************************************************)
PredIsReversedGraph ==
  pc = "done" =>
    LET kept == {e \in LinksOf(edges) : e.src \in Discovered}
    IN  /\ LinksOf(pred) = {[src |-> e.dst, dst |-> e.src] : e \in kept}
        /\ Len(pred) = Cardinality(kept)

(* The nodes on the tree path from v up to the root, both included.        *)
TreePath(v) ==
  LET up[x \in Nodes] == IF x = 0 THEN {0} ELSE {x} \cup up[parent[x]] IN up[v]

(***************************************************************************)
(* The property of depth-first numbers the dominator algorithm is built    *)
(* on: a link never leads from a smaller to a larger number except down    *)
(* the tree, to a descendant (dfs.cc:53-71).                               *)
(***************************************************************************)
NoForwardCrossLink ==
  pc = "done" =>
    \A e \in LinksOf(edges) :
      e.src \in Discovered /\ semi[e.src] < semi[e.dst] => e.src \in TreePath(e.dst)

(***************************************************************************)
(* A number, once given, is final: the recursion never revisits a node     *)
(* (dfs.cc:40, 44-45, 57).                                                 *)
(***************************************************************************)
NumbersAreFinal ==
  [][\A v \in Discovered : semi'[v] = semi[v] /\ parent'[v] = parent[v]]_dfsVars

(* dfs implements the abstract search: a number given is a node found.     *)
Search == INSTANCE GraphSearch WITH
  links <- LinksOf(edges), found <- Discovered, finished <- pc = "done"

SearchesGraph == Search!SearchSpec

==============================================================================
