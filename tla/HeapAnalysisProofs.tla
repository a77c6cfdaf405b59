------------------------- MODULE HeapAnalysisProofs --------------------------
(***************************************************************************)
(* dfs, dominate and retain, run one after the other and again after any   *)
(* kill, on every heap.                                                    *)
(*                                                                         *)
(* The first part is about dfs alone: its arrays number the nodes it       *)
(* finds, it finds exactly the reachable ones, pred is the reversed graph  *)
(* of these, no link leads to a larger number except down the tree, and    *)
(* the abstract search of GraphSearch is implemented. Its invariant has    *)
(* two layers: Numbered (the arrays and the counter) is inductive by       *)
(* itself and bounds the counter, by counting; Searching (the stack and    *)
(* what it has left to do) is inductive relative to it. Handled, Written   *)
(* and Nested follow the links.                                            *)
(*                                                                         *)
(* From Analysing on: path compression is sound, no dominator is lost, and *)
(* what retain writes is the sum over the computed dominator tree and      *)
(* never less than what an object really retains. The inductive invariant  *)
(* Analysing holds dfs's own invariant while dfs runs; from then on        *)
(* Finished (the numbers and the tree, read from vertex, parent and n,     *)
(* which nobody changes), Predecessors (the sorted pred file) and          *)
(* Semidominators (what semi holds, lowered or not, by this run or an      *)
(* earlier one); Dominating while dominate runs, and Retaining while       *)
(* retain does.                                                            *)
(*                                                                         *)
(* Analysing does not say that semi ends as the semidominator, which is    *)
(* false: it says that it is the number of a node above and that no        *)
(* dominator lies below that, which survives the confusion of the root     *)
(* with "no ancestor" and is enough for that.                              *)
(*                                                                         *)
(* The last part is about how little the confusion costs. Exactly, an      *)
(* invariant relative to Analysing, bounds semi from the other side: it is *)
(* lowered as far as the links ask for (LowEnough), children of the root   *)
(* excepted, and no node between the computed dominator and the node is    *)
(* lowered beyond the former (HighEnough). At the end such a dominator is  *)
(* the immediate one, or links cross between the subtrees of the root.     *)
(***************************************************************************)
EXTENDS HeapAnalysis, LinkFilesTheorems, FiniteSetTheorems, FunctionTheorems, TLAPS

------------------------------------------------------------------------------
(* dfs *)

(* The first layer. *)
Numbered ==
  /\ TypeOK
  /\ NumberingIsBijective
  /\ n = 0 <=> pc \in {"start", "abort"}
  /\ n = 0 => semi = Zeros

(* The second layer. *)
Searching ==
  /\ CallsFollowLinks
  /\ NothingOverlooked
  /\ ParentTree
  /\ Discovered \subseteq Reachable(Nodes, LinksOf(edges))
  /\ pc = "done" => 0 \in Discovered /\ Closed(Discovered, LinksOf(edges))

------------------------------------------------------------------------------
(* Types of links and frames *)

LEMMA NodesAreNaturals == Nodes \subseteq Nat /\ 0 \in Nodes
BY NumNodesAssumption DEF Nodes

(* Both ends of every link in the file are nodes.                          *)
LEMMA LinkTypes ==
  ASSUME TypeOK
  PROVE  /\ Len(edges) \in Nat
         /\ \A j \in 1..Len(edges) :
              /\ edges[j] \in Links(Nodes)
              /\ edges[j].src \in Nodes
              /\ edges[j].dst \in Nodes
              /\ edges[j].src \in Nat
<1>1. edges \in Seq(Links(Nodes))
  BY DEF TypeOK
<1>2. \A j \in 1..Len(edges) : edges[j] \in Links(Nodes)
  BY <1>1, ElementOfSeq
<1>3. \A j \in 1..Len(edges) : edges[j].src \in Nodes /\ edges[j].dst \in Nodes
  BY <1>2 DEF Links
<1>4. QED
  BY <1>1, <1>2, <1>3, LenProperties, NodesAreNaturals

(* The links out of one node are next to each other in the file.           *)
LEMMA LinksBySource ==
  ASSUME TypeOK
  PROVE  \A k, j \in 1..Len(edges) : k < j => edges[k].src <= edges[j].src
<1>1. \A j \in 1..Len(edges) : edges[j].src \in Nat
  BY LinkTypes
<1>2. StrictlySorted(edges)
  BY DEF TypeOK
<1>3. QED
  BY <1>1, <1>2 DEF StrictlySorted, LinkLess

LEMMA FrameTypes ==
  ASSUME TypeOK
  PROVE  /\ Len(stack) \in Nat
         /\ \A k \in 1..Len(stack) :
              /\ stack[k] \in Frames
              /\ stack[k].node \in Nodes
              /\ stack[k].ptr \in 1..(Len(edges) + 1)
              /\ stack[k].descendants \in Nat
<1>1. stack \in Seq(Frames)
  BY DEF TypeOK
<1>2. \A k \in 1..Len(stack) : stack[k] \in Frames
  BY <1>1, ElementOfSeq
<1>3. QED
  BY <1>1, <1>2, LenProperties DEF Frames

(* While the search runs there is an innermost call.                       *)
LEMMA InnermostCall ==
  ASSUME TypeOK, pc = "search"
  PROVE  /\ Len(stack) \in Nat \ {0}
         /\ Len(stack) \in 1..Len(stack) /\ Top = stack[Len(stack)]
         /\ Top \in Frames
         /\ Top.node \in Nodes /\ Top.node \in Nat
         /\ Top.ptr \in 1..(Len(edges) + 1)
         /\ Top.descendants \in Nat
<1>1. stack # << >> /\ stack \in Seq(Frames)
  BY DEF TypeOK
<1>2. Len(stack) \in Nat \ {0}
  BY <1>1, EmptySeq
<1>3. Len(stack) \in 1..Len(stack) /\ Top = stack[Len(stack)]
  BY <1>2 DEF Top
<1>4. QED
  BY <1>2, <1>3, FrameTypes, NodesAreNaturals

(* A new call starts at the first link out of its node.                    *)
LEMMA NewFrame ==
  ASSUME TypeOK, NEW v \in Nodes
  PROVE  /\ EnteredFrame(v) \in Frames
         /\ EnteredFrame(v).node = v
         /\ \A j \in 1..Len(edges) : edges[j].src < v <=> j < EnteredFrame(v).ptr
<1> DEFINE p == LinkLowerBound(edges, [src |-> v, dst |-> 0])
<1>1. /\ p \in 1..(Len(edges) + 1)
      /\ \A j \in 1..Len(edges) : edges[j].src < v <=> j < p
  BY NodesAreNaturals, LinkLowerBoundSplits DEF TypeOK
<1>2. EnteredFrame(v) = [node |-> v, ptr |-> p, descendants |-> 1]
  BY DEF EnteredFrame
<1> HIDE DEF p
<1>3. QED
  BY <1>1, <1>2 DEF Frames

(* The link the innermost call is at.                                      *)
LEMMA CurrentLink ==
  ASSUME TypeOK, pc = "search", AtLink
  PROVE  /\ Top.ptr \in 1..Len(edges)
         /\ Current \in Links(Nodes)
         /\ Current = [src |-> Top.node, dst |-> Current.dst]
         /\ Current.dst \in Nodes
<1>1. Top.ptr \in 1..Len(edges)
  BY InnermostCall, LinkTypes DEF AtLink
<1>2. Current \in Links(Nodes) /\ Current.src = Top.node
  BY <1>1, LinkTypes DEF Current, AtLink
<1>3. QED
  BY <1>1, <1>2 DEF Links

------------------------------------------------------------------------------
(* The first layer *)

(* As long as some node is not numbered there is a number left: vertex[n]  *)
(* is inside its array (dfs.cc:41, 45), which the code does not check.     *)
LEMMA NumberLeft ==
  ASSUME TypeOK, NumberingIsBijective, NEW w \in Nodes \ Discovered
  PROVE  n < NumNodes
<1>1. SUFFICES ASSUME n = NumNodes PROVE FALSE
  BY NumNodesAssumption DEF TypeOK
<1> DEFINE f == [j \in Nodes |-> vertex[j]]
<1>2. Discovered \subseteq Nodes
  BY DEF Discovered
<1>3. f \in [Nodes -> Nodes \ {w}]
  BY <1>1, <1>2 DEF NumberingIsBijective, Nodes
<1>4. \A x, y \in Nodes : f[x] = f[y] => x = y
  BY <1>1 DEF NumberingIsBijective, Nodes
<1>5. IsFiniteSet(Nodes) /\ Cardinality(Nodes) \in Nat
  <2>1. 0 \in Int /\ NumNodes - 1 \in Int
    BY NumNodesAssumption
  <2>2. IsFiniteSet(Nodes)
    BY <2>1, FS_Interval DEF Nodes
  <2>3. QED
    BY <2>2, FS_CardinalityType
<1>6. /\ IsFiniteSet(Nodes \ {w})
      /\ Cardinality(Nodes \ {w}) = Cardinality(Nodes) - 1
  BY <1>5, FS_RemoveElement
<1>7. Cardinality(Nodes \ {w}) < Cardinality(Nodes)
  BY <1>5, <1>6
<1> HIDE DEF f
<1>8. \E x, y \in Nodes : x # y /\ f[x] = f[y]
  BY <1>3, <1>5, <1>6, <1>7, FS_PigeonHole
<1>9. QED
  BY <1>4, <1>8

(* What the prologue of dfs(w) does to the arrays.                         *)
LEMMA NumberingStep ==
  ASSUME Numbered, NEW w \in Nodes \ Discovered, w = 0 <=> n = 0, Number(w)
  PROVE  /\ n \in Nodes /\ n' = n + 1 /\ n' \in 1..NumNodes
         /\ semi' \in [Nodes -> Nodes] /\ vertex' \in [Nodes -> Nodes]
         /\ semi'[w] = n /\ \A v \in Nodes \ {w} : semi'[v] = semi[v]
         /\ Discovered' = Discovered \cup {w}
         /\ NumberingIsBijective'
<1>1. n \in Nodes /\ n' = n + 1 /\ n' \in 1..NumNodes
  <2>1. n < NumNodes /\ n \in Nat
    BY NumberLeft, NumNodesAssumption DEF Numbered, TypeOK
  <2>2. QED
    BY <2>1, NumNodesAssumption DEF Nodes, Number
<1>2. /\ semi' \in [Nodes -> Nodes] /\ vertex' \in [Nodes -> Nodes]
      /\ semi'[w] = n /\ \A v \in Nodes \ {w} : semi'[v] = semi[v]
      /\ vertex'[n] = w /\ \A j \in Nodes \ {n} : vertex'[j] = vertex[j]
  BY <1>1 DEF Numbered, TypeOK, Number
<1>3. Discovered' = Discovered \cup {w}
  <2>1. CASE n = 0
    <3>1. Discovered = {} /\ w = 0
      BY <2>1 DEF Discovered
    <3>2. \A v \in Nodes \ {w} : semi'[v] = 0
      BY <1>2, <2>1 DEF Numbered, Zeros
    <3>3. Discovered' = {v \in Nodes : v = 0 \/ semi'[v] # 0}
      BY <1>1 DEF Discovered
    <3>4. QED
      BY <3>1, <3>2, <3>3, NodesAreNaturals
  <2>2. CASE n # 0
    <3>1. Discovered = {v \in Nodes : v = 0 \/ semi[v] # 0}
      BY <2>2 DEF Discovered
    <3>2. Discovered' = {v \in Nodes : v = 0 \/ semi'[v] # 0}
      BY <1>1 DEF Discovered
    <3>3. QED
      BY <1>2, <2>2, <3>1, <3>2
  <2>3. QED
    BY <2>1, <2>2
<1>4. NumberingIsBijective'
  <2>1. \A j \in 0..(n' - 1) : vertex'[j] \in Discovered' /\ semi'[vertex'[j]] = j
    <3>1. SUFFICES ASSUME NEW j \in 0..(n' - 1)
                   PROVE  vertex'[j] \in Discovered' /\ semi'[vertex'[j]] = j
      OBVIOUS
    <3>2. CASE j = n
      BY <1>2, <1>3, <3>2
    <3>3. CASE j # n
      <4>1. j \in 0..(n - 1) /\ j \in Nodes \ {n}
        BY <1>1, <3>3, NumNodesAssumption DEF Nodes
      <4>2. vertex[j] \in Discovered /\ semi[vertex[j]] = j
        BY <4>1 DEF Numbered, NumberingIsBijective
      <4>3. vertex[j] \in Nodes \ {w}
        BY <4>2 DEF Discovered
      <4>4. QED
        BY <1>2, <1>3, <4>1, <4>2, <4>3
    <3>4. QED
      BY <3>2, <3>3
  <2>2. \A v \in Discovered' : semi'[v] < n' /\ vertex'[semi'[v]] = v
    <3>1. SUFFICES ASSUME NEW v \in Discovered' PROVE semi'[v] < n' /\ vertex'[semi'[v]] = v
      OBVIOUS
    <3>2. CASE v = w
      BY <1>1, <1>2, <3>2, NodesAreNaturals
    <3>3. CASE v # w
      <4>1. v \in Discovered /\ v \in Nodes \ {w}
        BY <1>3, <3>3 DEF Discovered
      <4>2. semi[v] < n /\ vertex[semi[v]] = v /\ semi[v] \in Nodes
        BY <4>1 DEF Numbered, NumberingIsBijective, TypeOK
      <4>3. semi[v] \in Nat /\ n \in Nat
        BY <1>1, <4>2, NodesAreNaturals
      <4>4. semi'[v] = semi[v] /\ semi[v] \in Nodes \ {n}
        BY <1>2, <4>1, <4>2, <4>3
      <4>5. QED
        BY <1>1, <1>2, <4>2, <4>3, <4>4
    <3>4. QED
      BY <3>2, <3>3
  <2>3. \A j \in Nodes : j >= n' => vertex'[j] = 0
    BY <1>1, <1>2, NodesAreNaturals DEF Numbered, NumberingIsBijective
  <2>4. QED
    BY <2>1, <2>2, <2>3 DEF NumberingIsBijective
<1>5. QED
  BY <1>1, <1>2, <1>3, <1>4

(* A step that leaves the arrays and the counter alone.                    *)
LEMMA NumberingUnchanged ==
  ASSUME Numbered, UNCHANGED <<semi, vertex, n>>
  PROVE  Discovered' = Discovered /\ NumberingIsBijective'
<1>1. Discovered' = Discovered
  BY DEF Discovered
<1>2. QED
  BY <1>1 DEF Numbered, NumberingIsBijective

(* What the other steps do to the stack.                                   *)
LEMMA DescendStack ==
  ASSUME TypeOK, pc = "search", AtLink, Descend
  PROVE  /\ Current.dst \in Nodes
         /\ stack' \in Seq(Frames) /\ stack' # << >>
         /\ Len(stack') = Len(stack) + 1
         /\ \A k \in 1..Len(stack) : stack'[k] = stack[k]
         /\ stack'[Len(stack) + 1] = EnteredFrame(Current.dst)
<1>1. Current.dst \in Nodes
  BY CurrentLink
<1>2. EnteredFrame(Current.dst) \in Frames
  BY <1>1, NewFrame
<1>3. stack \in Seq(Frames)
  BY DEF TypeOK
<1>4. stack' = Append(stack, EnteredFrame(Current.dst))
  BY DEF Descend
<1>5. QED
  BY <1>1, <1>2, <1>3, <1>4, AppendProperties

LEMMA AdvanceFrame ==
  ASSUME TypeOK, NEW f \in Frames, f.ptr \in 1..Len(edges), NEW d \in Nat
  PROVE  /\ Advance(f, d) \in Frames
         /\ Advance(f, d).node = f.node
         /\ Advance(f, d).ptr = f.ptr + 1
<1>1. Len(edges) \in Nat /\ f.ptr + 1 \in 1..(Len(edges) + 1)
  BY LinkTypes
<1>2. f.node \in Nodes /\ f.descendants + d \in Nat
  BY DEF Frames
<1>3. QED
  BY <1>1, <1>2 DEF Advance, Frames

LEMMA SkipStack ==
  ASSUME TypeOK, Skip
  PROVE  /\ stack' \in Seq(Frames) /\ stack' # << >>
         /\ Len(stack') = Len(stack)
         /\ \A k \in 1..(Len(stack) - 1) : stack'[k] = stack[k]
         /\ stack'[Len(stack)].node = Top.node
         /\ stack'[Len(stack)].ptr = Top.ptr + 1
<1>1. pc = "search" /\ AtLink /\ stack' = [stack EXCEPT ![Len(stack)] = Advance(Top, 0)]
  BY DEF Skip
<1>2. stack \in Seq(Frames) /\ Len(stack) \in 1..Len(stack)
  BY <1>1, InnermostCall DEF TypeOK
<1>3. /\ Advance(Top, 0) \in Frames
      /\ Advance(Top, 0).node = Top.node
      /\ Advance(Top, 0).ptr = Top.ptr + 1
  BY <1>1, InnermostCall, CurrentLink, AdvanceFrame
<1>4. /\ stack' \in Seq(Frames)
      /\ Len(stack') = Len(stack)
      /\ \A k \in 1..Len(stack) : stack'[k] = IF k = Len(stack) THEN Advance(Top, 0) ELSE stack[k]
  BY <1>1, <1>2, <1>3, ExceptSeq
<1>5. stack' # << >>
  BY <1>2, <1>4, EmptySeq
<1>6. QED
  BY <1>2, <1>3, <1>4, <1>5

LEMMA ReturnStack ==
  ASSUME TypeOK, CallsFollowLinks, Return
  PROVE  /\ stack' \in Seq(Frames) /\ stack' # << >>
         /\ Len(stack) - 1 \in 1..Len(stack)
         /\ Len(stack') = Len(stack) - 1
         /\ \A k \in 1..(Len(stack) - 2) : stack'[k] = stack[k]
         /\ stack'[Len(stack) - 1].node = stack[Len(stack) - 1].node
         /\ stack'[Len(stack) - 1].ptr = stack[Len(stack) - 1].ptr + 1
         /\ edges[stack[Len(stack) - 1].ptr] \in Links(Nodes)
<1> DEFINE depth == Len(stack) - 1
           caller == stack[depth]
           resumed == Advance(caller, Top.descendants)
<1>1. /\ pc = "search" /\ stack # << >>
      /\ stack' = [Pop(stack) EXCEPT ![depth] = resumed]
  BY DEF Return, TypeOK
<1>2. stack \in Seq(Frames) /\ depth \in 1..Len(stack) /\ depth \in 1..depth
  BY <1>1, InnermostCall DEF TypeOK, Return
<1>3. /\ Pop(stack) \in Seq(Frames)
      /\ Len(Pop(stack)) = depth
      /\ \A k \in 1..depth : Pop(stack)[k] = stack[k]
  BY <1>1, <1>2, PopProperties
<1>4. caller \in Frames /\ caller.node \in Nodes /\ caller.ptr \in 1..Len(edges)
  <2>1. depth \in 1..(Len(stack) - 1) /\ caller.ptr <= Len(edges)
    BY <1>2 DEF CallsFollowLinks
  <2>2. caller \in Frames /\ caller.node \in Nodes /\ caller.ptr \in 1..(Len(edges) + 1)
    BY <1>2, FrameTypes
  <2>3. QED
    BY <2>1, <2>2, LinkTypes
<1>5. /\ resumed \in Frames
      /\ resumed.node = caller.node
      /\ resumed.ptr = caller.ptr + 1
  BY <1>1, <1>4, InnermostCall, AdvanceFrame
<1>6. edges[caller.ptr] \in Links(Nodes)
  BY <1>4, LinkTypes
<1> HIDE DEF resumed, caller, depth
<1>7. /\ stack' \in Seq(Frames)
      /\ Len(stack') = depth
      /\ \A k \in 1..depth : stack'[k] = IF k = depth THEN resumed ELSE Pop(stack)[k]
  BY <1>1, <1>2, <1>3, <1>5, ExceptSeq
<1>8. stack' # << >>
  BY <1>2, <1>7, EmptySeq
<1>9. depth = Len(stack) - 1 /\ caller = stack[depth] /\ Len(stack) \in Nat
  BY <1>2, FrameTypes DEF depth, caller
<1>10. QED
  BY <1>2, <1>3, <1>5, <1>6, <1>7, <1>8, <1>9

LEMMA NumberedInit == Init => Numbered
<1> SUFFICES ASSUME Init PROVE Numbered
  OBVIOUS
<1>1. edges \in Seq(Links(Nodes)) /\ StrictlySorted(edges)
  BY EdgeFilesAssumption DEF Init
<1>2. Zeros \in [Nodes -> Nodes] /\ \A v \in Nodes : Zeros[v] = 0
  BY NodesAreNaturals DEF Zeros
<1>3. << >> \in Seq(Frames) /\ << >> \in Seq(Links(Nodes))
  BY EmptySeq
<1>4. 0 \in 0..NumNodes
  BY NumNodesAssumption
<1>5. TypeOK
  BY <1>1, <1>2, <1>3, <1>4 DEF Init, TypeOK
<1>6. Discovered = {} /\ \A j : j \notin 0..(n - 1)
  BY DEF Init, Discovered
<1>7. NumberingIsBijective
  BY <1>2, <1>6 DEF Init, NumberingIsBijective
<1>8. QED
  BY <1>5, <1>7 DEF Init, Numbered

(* A step that keeps the link file and gives the stack frames of its type. *)
LEMMA FramesKept ==
  ASSUME UNCHANGED edges
  PROVE  Frames' = Frames /\ \A v : EnteredFrame(v)' = EnteredFrame(v)
BY DEF Frames, EnteredFrame

(* Numbering keeps its invariant in every step.                            *)
LEMMA NumberedStep ==
  ASSUME Numbered, CallsFollowLinks, [Next]_dfsVars
  PROVE  Numbered'
<1> USE DEF Numbered
<1>1. CASE MapFails
  <2>1. NumberingIsBijective'
    BY <1>1, NumberingUnchanged DEF MapFails
  <2>2. TypeOK'
    BY <1>1, FramesKept DEF MapFails, TypeOK
  <2>3. QED
    BY <1>1, <2>1, <2>2 DEF MapFails, Zeros
<1>2. CASE CallRoot
  <2>1. n = 0 /\ pc = "start" /\ pc' = "search" /\ edges' = edges
    BY <1>2 DEF CallRoot
  <2>2. 0 \in Nodes \ Discovered /\ Number(0)
    BY <1>2, <2>1, NodesAreNaturals DEF CallRoot, Discovered
  <2>3. /\ n' \in 1..NumNodes
        /\ semi' \in [Nodes -> Nodes] /\ vertex' \in [Nodes -> Nodes]
        /\ NumberingIsBijective'
    BY <2>1, <2>2, NumberingStep
  <2>4. stack' \in Seq(Frames) /\ stack' # << >>
    <3>1. EnteredFrame(0) \in Frames /\ stack' = <<EnteredFrame(0)>>
      BY <1>2, <2>2, NewFrame DEF CallRoot
    <3>2. QED
      BY <3>1
  <2>5. n' \in 0..NumNodes /\ n' # 0
    BY <2>3
  <2>6. TypeOK'
    BY <1>2, <2>1, <2>3, <2>4, <2>5, FramesKept DEF TypeOK, CallRoot
  <2>7. QED
    BY <2>1, <2>3, <2>5, <2>6
<1>3. CASE Descend
  <2>1. /\ pc = "search" /\ pc' = "search" /\ edges' = edges /\ n # 0 /\ pred' = pred
        /\ AtLink /\ Undiscovered(Current.dst) /\ Number(Current.dst)
        /\ parent' = [parent EXCEPT ![Current.dst] = Top.node]
    BY <1>3 DEF Descend
  <2>2. Current.dst \in Nodes \ Discovered /\ Current.dst # 0
    BY <2>1, CurrentLink DEF Undiscovered, Discovered
  <2>3. /\ n' \in 1..NumNodes
        /\ semi' \in [Nodes -> Nodes] /\ vertex' \in [Nodes -> Nodes]
        /\ NumberingIsBijective'
    BY <2>1, <2>2, NumberingStep
  <2>4. stack' \in Seq(Frames) /\ stack' # << >>
    BY <1>3, <2>1, DescendStack
  <2>5. parent' \in [Nodes -> Nodes]
    BY <2>1, InnermostCall DEF TypeOK
  <2>6. n' \in 0..NumNodes /\ n' # 0
    BY <2>3
  <2>7. TypeOK'
    BY <2>1, <2>3, <2>4, <2>5, <2>6, FramesKept DEF TypeOK
  <2>8. QED
    BY <2>1, <2>3, <2>6, <2>7
<1>4. CASE Skip
  <2>1. /\ pc = "search" /\ AtLink
        /\ UNCHANGED <<edges, semi, vertex, parent, n, pc>>
        /\ pred' = Append(pred, Reversed(Current))
    BY <1>4 DEF Skip
  <2>2. NumberingIsBijective'
    BY <2>1, NumberingUnchanged
  <2>3. stack' \in Seq(Frames) /\ stack' # << >>
    BY <1>4, SkipStack
  <2>4. Reversed(Current) \in Links(Nodes)
    BY <2>1, CurrentLink, InnermostCall DEF Reversed, Links
  <2>5. pred' \in Seq(Links(Nodes))
    BY <2>1, <2>4, AppendProperties DEF TypeOK
  <2>6. TypeOK'
    BY <2>1, <2>3, <2>5, FramesKept DEF TypeOK
  <2>7. QED
    BY <2>1, <2>2, <2>6
<1>5. CASE Return
  <2>1. /\ pc = "search"
        /\ UNCHANGED <<edges, semi, vertex, parent, n, pc>>
        /\ pred' = Append(pred, Reversed(edges[stack[Len(stack) - 1].ptr]))
    BY <1>5 DEF Return
  <2>2. NumberingIsBijective'
    BY <2>1, NumberingUnchanged
  <2>3. /\ stack' \in Seq(Frames) /\ stack' # << >>
        /\ edges[stack[Len(stack) - 1].ptr] \in Links(Nodes)
    BY <1>5, ReturnStack
  <2>4. Reversed(edges[stack[Len(stack) - 1].ptr]) \in Links(Nodes)
    BY <2>3 DEF Reversed, Links
  <2>5. pred' \in Seq(Links(Nodes))
    BY <2>1, <2>4, AppendProperties DEF TypeOK
  <2>6. TypeOK'
    BY <2>1, <2>3, <2>5, FramesKept DEF TypeOK
  <2>7. QED
    BY <2>1, <2>2, <2>6
<1>6. CASE ReturnToMain
  <2>1. /\ pc = "search" /\ pc' = "done" /\ stack' = << >>
        /\ UNCHANGED <<edges, semi, vertex, parent, n, pred>>
    BY <1>6 DEF ReturnToMain
  <2>2. NumberingIsBijective'
    BY <2>1, NumberingUnchanged
  <2>3. << >> \in Seq(Frames)
    BY EmptySeq
  <2>4. TypeOK'
    BY <2>1, <2>3, FramesKept DEF TypeOK
  <2>5. QED
    BY <2>1, <2>2, <2>4
<1>7. CASE UNCHANGED dfsVars
  <2>1. NumberingIsBijective'
    BY <1>7, NumberingUnchanged DEF dfsVars
  <2>2. TypeOK'
    BY <1>7, FramesKept DEF TypeOK, dfsVars
  <2>3. QED
    BY <1>7, <2>1, <2>2 DEF dfsVars, Zeros
<1>8. QED
  BY <1>1, <1>2, <1>3, <1>4, <1>5, <1>6, <1>7 DEF Next

------------------------------------------------------------------------------
(* The second layer *)

(* The end of a link out of a reachable node is reachable.                 *)
LEMMA ReachableStep ==
  ASSUME NEW V, NEW es, NEW e \in es, e.src \in Reachable(V, es), e.dst \in V
  PROVE  e.dst \in Reachable(V, es)
BY DEF Reachable, Closed

(* A closed set that holds the root holds everything reachable.            *)
LEMMA ReachableIsLeast ==
  ASSUME NEW V, NEW es, NEW S \in SUBSET V, 0 \in S, Closed(S, es)
  PROVE  Reachable(V, es) \subseteq S
BY DEF Reachable

(* A link of the file, as a member of the graph.                           *)
LEMMA LinkOfFile ==
  ASSUME TypeOK, NEW j \in 1..Len(edges)
  PROVE  /\ edges[j] \in LinksOf(edges)
         /\ edges[j] = [src |-> edges[j].src, dst |-> edges[j].dst]
<1>1. edges[j] \in Links(Nodes)
  BY LinkTypes
<1>2. QED
  BY <1>1 DEF LinksOf, Links

(* Nodes in a numbering have small numbers; the root is one of them.       *)
LEMMA DiscoveredNodes ==
  ASSUME Numbered
  PROVE  /\ Discovered \subseteq Nodes
         /\ n # 0 <=> 0 \in Discovered
         /\ \A v \in Discovered : semi[v] \in Nat /\ semi[v] < n
<1>1. Discovered \subseteq Nodes /\ (n # 0 <=> 0 \in Discovered)
  BY NodesAreNaturals DEF Discovered
<1>2. QED
  BY <1>1, NodesAreNaturals DEF Numbered, NumberingIsBijective, TypeOK

(* The links out of a node are before the pointer of its call when the     *)
(* loop over them ends.                                                    *)
LEMMA PastAllLinks ==
  ASSUME TypeOK, NothingOverlooked, pc = "search", ~ AtLink,
         NEW j \in 1..Len(edges), edges[j].src = Top.node
  PROVE  j < Top.ptr
<1>1. /\ Len(stack) \in 1..Len(stack) /\ Top = stack[Len(stack)]
      /\ Top.ptr \in 1..(Len(edges) + 1) /\ Top.node \in Nat
  BY InnermostCall
<1>2. SUFFICES ASSUME ~ (j < Top.ptr) PROVE FALSE
  OBVIOUS
<1>3. Top.ptr \in 1..Len(edges) /\ edges[Top.ptr].src # Top.node
  BY <1>1, <1>2, LinkTypes DEF AtLink
<1>4. edges[Top.ptr].src \in Nat /\ Top.ptr < j
  BY <1>1, <1>2, <1>3, LinkTypes
<1>5. ~ (edges[Top.ptr].src < Top.node)
  <2>1. edges[Top.ptr].src < Top.node => Top.ptr < Top.ptr
    BY <1>1, <1>3 DEF NothingOverlooked
  <2>2. QED
    BY <1>1, <2>1
<1>6. edges[Top.ptr].src <= edges[j].src
  BY <1>3, <1>4, LinksBySource
<1>7. QED
  BY <1>1, <1>3, <1>4, <1>5, <1>6

(* The innermost call has gone past every link out of its node.            *)
LEMMA InnermostExplored ==
  ASSUME TypeOK, NothingOverlooked, pc = "search", ~ AtLink
  PROVE  Explored(Top.node)
<1>1. Len(stack) \in 1..Len(stack) /\ Top = stack[Len(stack)]
  BY InnermostCall
<1>2. SUFFICES ASSUME NEW j \in 1..Len(edges), edges[j].src = Top.node
               PROVE  edges[j].dst \in Discovered
  BY DEF Explored
<1>3. j < Top.ptr
  BY <1>2, PastAllLinks
<1>4. QED
  BY <1>1, <1>2, <1>3 DEF NothingOverlooked

LEMMA SearchingInit == Init => Searching
<1> SUFFICES ASSUME Init PROVE Searching
  OBVIOUS
<1>1. Discovered = {} /\ stack = << >> /\ Len(<< >>) = 0 /\ pc = "start"
  BY EmptySeq DEF Init, Discovered
<1>2. \A k : k \notin 1..Len(stack) /\ k \notin 1..(Len(stack) - 1)
  BY <1>1
<1>3. CallsFollowLinks
  BY <1>1, <1>2 DEF CallsFollowLinks
<1>4. NothingOverlooked
  BY <1>1, <1>2 DEF NothingOverlooked
<1>5. ParentTree
  BY <1>1 DEF ParentTree
<1>6. QED
  BY <1>1, <1>3, <1>4, <1>5 DEF Searching

LEMMA CallRootSearching ==
  ASSUME Numbered, Searching, CallRoot
  PROVE  Searching'
<1>1. /\ n = 0 /\ pc' = "search" /\ edges' = edges
      /\ Number(0) /\ stack' = <<EnteredFrame(0)>>
  BY DEF CallRoot, Numbered
<1>2. 0 \in Nodes \ Discovered
  BY <1>1, NodesAreNaturals DEF Discovered
<1>3. Discovered = {}
  BY <1>1 DEF Discovered
<1>4. Discovered' = {0}
  BY <1>1, <1>2, <1>3, NumberingStep
<1>5. Len(stack') = 1 /\ stack'[1] = EnteredFrame(0)
  BY <1>1
<1>6. /\ stack'[1].node = 0
      /\ \A j \in 1..Len(edges) : edges[j].src < 0 <=> j < stack'[1].ptr
  BY <1>2, <1>5, NewFrame DEF Numbered
<1>7. CallsFollowLinks'
  BY <1>4, <1>5, <1>6 DEF CallsFollowLinks
<1>8. \A j \in 1..Len(edges) : ~ (j < stack'[1].ptr)
  <2>1. \A j \in 1..Len(edges) : ~ (edges[j].src < 0)
    BY LinkTypes DEF Numbered
  <2>2. QED
    BY <1>6, <2>1
<1>9. NothingOverlooked'
  BY <1>1, <1>4, <1>5, <1>6, <1>8 DEF NothingOverlooked
<1>10. ParentTree'
  BY <1>4 DEF ParentTree
<1>11. Discovered' \subseteq Reachable(Nodes, LinksOf(edges))
  BY <1>4, NodesAreNaturals DEF Reachable
<1>12. QED
  BY <1>1, <1>7, <1>9, <1>10, <1>11 DEF Searching

LEMMA DescendSearching ==
  ASSUME Numbered, Searching, Descend
  PROVE  Searching'
<1> DEFINE w == Current.dst
           u == Top.node
           len == Len(stack)
<1>1. /\ pc = "search" /\ pc' = "search" /\ edges' = edges /\ n # 0
      /\ AtLink /\ Undiscovered(w) /\ Number(w) /\ TypeOK
      /\ parent' = [parent EXCEPT ![w] = u]
  BY DEF Descend, Numbered
<1>2. w \in Nodes \ Discovered /\ w # 0
  BY <1>1, CurrentLink DEF Undiscovered, Discovered
<1>3. /\ Discovered' = Discovered \cup {w}
      /\ semi'[w] = n /\ \A v \in Nodes \ {w} : semi'[v] = semi[v]
  BY <1>1, <1>2, NumberingStep
<1>4. /\ len \in Nat \ {0} /\ Top = stack[len] /\ u = stack[len].node
      /\ Top.ptr \in 1..Len(edges) /\ edges[Top.ptr] = [src |-> u, dst |-> w]
  BY <1>1, InnermostCall, CurrentLink DEF Current
<1>5. /\ Len(stack') = len + 1
      /\ \A k \in 1..len : stack'[k] = stack[k]
      /\ stack'[len + 1] = EnteredFrame(w)
  BY <1>1, DescendStack
<1>6. /\ stack'[len + 1].node = w
      /\ \A j \in 1..Len(edges) : edges[j].src < w <=> j < stack'[len + 1].ptr
  BY <1>1, <1>2, <1>5, NewFrame
<1>7. CallsFollowLinks /\ NothingOverlooked /\ ParentTree
  BY DEF Searching
<1>8. u \in Discovered /\ u \in Nodes \ {w} /\ semi[u] \in Nat /\ semi[u] < n
  BY <1>2, <1>4, <1>7, DiscoveredNodes DEF CallsFollowLinks
<1> HIDE DEF w, u, len
<1>9. CallsFollowLinks'
  <2>1. stack'[1].node = 0
    BY <1>4, <1>5, <1>7, EmptySeq DEF CallsFollowLinks, len
  <2>2. \A k \in 1..(len + 1) : stack'[k].node \in Discovered'
    <3>1. \A k \in 1..len : stack'[k].node \in Discovered
      BY <1>5, <1>7 DEF CallsFollowLinks, len
    <3>2. QED
      BY <1>3, <1>4, <1>6, <3>1
  <2>3. ASSUME NEW k \in 1..len
        PROVE  /\ stack'[k].ptr <= Len(edges)
               /\ edges[stack'[k].ptr] = [src |-> stack'[k].node, dst |-> stack'[k + 1].node]
    <3>1. CASE k = len
      BY <1>4, <1>5, <1>6, <3>1, LinkTypes, <1>1
    <3>2. CASE k # len
      <4>1. k \in 1..(len - 1) /\ k + 1 \in 1..len
        BY <1>4, <3>2
      <4>2. stack'[k] = stack[k] /\ stack'[k + 1] = stack[k + 1]
        BY <1>5, <4>1
      <4>3. QED
        BY <1>7, <4>1, <4>2 DEF CallsFollowLinks, len
    <3>3. QED
      BY <3>1, <3>2
  <2>4. (len + 1) - 1 = len
    BY <1>4
  <2>5. QED
    BY <1>1, <1>5, <2>1, <2>2, <2>3, <2>4 DEF CallsFollowLinks
<1>10. NothingOverlooked'
  <2>1. ASSUME NEW k \in 1..(len + 1), NEW j \in 1..Len(edges)
        PROVE  /\ edges[j].src < stack'[k].node => j < stack'[k].ptr
               /\ edges[j].src = stack'[k].node /\ j < stack'[k].ptr => edges[j].dst \in Discovered'
    <3>1. CASE k = len + 1
      <4>1. edges[j].src < w <=> j < stack'[k].ptr
        BY <1>6, <3>1
      <4>2. w \in Nat /\ edges[j].src \in Nat
        BY <1>1, <1>2, LinkTypes, NodesAreNaturals
      <4>3. QED
        BY <1>6, <3>1, <4>1, <4>2
    <3>2. CASE k # len + 1
      <4>1. k \in 1..len /\ stack'[k] = stack[k]
        BY <1>4, <1>5, <3>2
      <4>2. QED
        BY <1>3, <1>7, <4>1 DEF NothingOverlooked, len
    <3>3. QED
      BY <3>1, <3>2
  <2>2. ASSUME NEW v \in Discovered'
        PROVE  Explored(v)' \/ \E k \in 1..(len + 1) : stack'[k].node = v
    <3>1. CASE v = w
      BY <1>4, <1>6, <3>1
    <3>2. CASE \E k \in 1..len : stack[k].node = v
      BY <1>4, <1>5, <3>2
    <3>3. CASE v \in Discovered /\ Explored(v)
      BY <1>1, <1>3, <3>3 DEF Explored
    <3>4. QED
      BY <1>3, <1>7, <3>1, <3>2, <3>3 DEF NothingOverlooked, len
  <2>3. QED
    BY <1>1, <1>5, <2>1, <2>2 DEF NothingOverlooked
<1>11. ParentTree'
  <2>1. SUFFICES ASSUME NEW v \in Discovered' \ {0}
                 PROVE  /\ parent'[v] \in Discovered'
                        /\ semi'[parent'[v]] < semi'[v]
                        /\ [src |-> parent'[v], dst |-> v] \in LinksOf(edges)
    BY <1>1 DEF ParentTree
  <2>2. parent \in [Nodes -> Nodes]
    BY <1>1 DEF TypeOK
  <2>3. CASE v = w
    <3>1. parent'[v] = u
      BY <1>1, <1>2, <2>2, <2>3
    <3>2. [src |-> u, dst |-> w] \in LinksOf(edges)
      BY <1>4 DEF LinksOf
    <3>3. QED
      BY <1>3, <1>8, <2>3, <3>1, <3>2
  <2>4. CASE v # w
    <3>1. v \in Discovered \ {0} /\ v \in Nodes \ {w}
      BY <1>3, <2>4, DiscoveredNodes
    <3>2. parent'[v] = parent[v]
      BY <1>1, <2>2, <3>1
    <3>3. /\ parent[v] \in Discovered
          /\ semi[parent[v]] < semi[v]
          /\ [src |-> parent[v], dst |-> v] \in LinksOf(edges)
      BY <1>7, <3>1 DEF ParentTree
    <3>4. parent[v] \in Nodes \ {w}
      BY <1>2, <3>3, DiscoveredNodes
    <3>5. QED
      BY <1>3, <3>1, <3>2, <3>3, <3>4
  <2>5. QED
    BY <2>3, <2>4
<1>12. Discovered' \subseteq Reachable(Nodes, LinksOf(edges))
  <2>1. edges[Top.ptr] \in LinksOf(edges)
    BY <1>4 DEF LinksOf
  <2>2. w \in Reachable(Nodes, LinksOf(edges))
    BY <1>2, <1>4, <1>8, <2>1, ReachableStep DEF Searching
  <2>3. QED
    BY <1>3, <2>2 DEF Searching
<1>13. QED
  BY <1>1, <1>9, <1>10, <1>11, <1>12 DEF Searching

(* A step that leaves the arrays alone keeps what is said of them only.    *)
LEMMA TreeUnchanged ==
  ASSUME Numbered, Searching, UNCHANGED <<edges, semi, vertex, parent, n>>
  PROVE  /\ Discovered' = Discovered
         /\ ParentTree'
         /\ Discovered' \subseteq Reachable(Nodes, LinksOf(edges))'
         /\ \A v : Explored(v)' <=> Explored(v)
<1>1. Discovered' = Discovered
  BY NumberingUnchanged
<1>2. ParentTree'
  BY <1>1 DEF Searching, ParentTree
<1>3. \A v : Explored(v)' <=> Explored(v)
  BY <1>1 DEF Explored
<1>4. QED
  BY <1>1, <1>2, <1>3 DEF Searching

LEMMA SkipSearching ==
  ASSUME Numbered, Searching, Skip
  PROVE  Searching'
<1> DEFINE len == Len(stack)
<1>1. /\ pc = "search" /\ pc' = "search" /\ AtLink /\ ~ Undiscovered(Current.dst) /\ TypeOK
      /\ UNCHANGED <<edges, semi, vertex, parent, n>>
  BY DEF Skip, Numbered
<1>2. /\ Discovered' = Discovered /\ ParentTree'
      /\ Discovered' \subseteq Reachable(Nodes, LinksOf(edges))'
      /\ \A v : Explored(v)' <=> Explored(v)
  BY <1>1, TreeUnchanged
<1>3. /\ len \in Nat \ {0} /\ Top = stack[len]
      /\ Top.ptr \in 1..Len(edges) /\ edges[Top.ptr].dst \in Nodes
      /\ Current = edges[Top.ptr]
  BY <1>1, InnermostCall, CurrentLink DEF Current
<1>4. edges[Top.ptr].dst \in Discovered
  BY <1>1, <1>3, DiscoveredNodes DEF Undiscovered, Discovered, Numbered
<1>5. /\ Len(stack') = len
      /\ \A k \in 1..(len - 1) : stack'[k] = stack[k]
      /\ stack'[len].node = stack[len].node
      /\ stack'[len].ptr = stack[len].ptr + 1
  BY <1>1, <1>3, SkipStack
<1>6. CallsFollowLinks /\ NothingOverlooked
  BY DEF Searching
<1> HIDE DEF len
<1>7. \A k \in 1..len : stack'[k].node = stack[k].node
  BY <1>3, <1>5
<1>8. CallsFollowLinks'
  <2>1. stack'[1].node = 0
    BY <1>3, <1>6, <1>7, EmptySeq DEF CallsFollowLinks, len
  <2>2. \A k \in 1..len : stack'[k].node \in Discovered'
    BY <1>2, <1>6, <1>7 DEF CallsFollowLinks, len
  <2>3. ASSUME NEW k \in 1..(len - 1)
        PROVE  /\ stack'[k].ptr <= Len(edges)
               /\ edges[stack'[k].ptr] = [src |-> stack'[k].node, dst |-> stack'[k + 1].node]
    <3>1. stack'[k] = stack[k] /\ stack'[k + 1].node = stack[k + 1].node
      BY <1>3, <1>5, <1>7
    <3>2. QED
      BY <1>6, <3>1 DEF CallsFollowLinks, len
  <2>4. QED
    BY <1>1, <1>5, <2>1, <2>2, <2>3 DEF CallsFollowLinks
<1>9. NothingOverlooked'
  <2>1. ASSUME NEW k \in 1..len, NEW j \in 1..Len(edges)
        PROVE  /\ edges[j].src < stack'[k].node => j < stack'[k].ptr
               /\ edges[j].src = stack'[k].node /\ j < stack'[k].ptr => edges[j].dst \in Discovered'
    <3>1. CASE k = len
      <4>1. /\ edges[j].src < stack[len].node => j < stack[len].ptr
            /\ edges[j].src = stack[len].node /\ j < stack[len].ptr => edges[j].dst \in Discovered
        BY <1>6, <3>1 DEF NothingOverlooked, len
      <4>2. j < stack'[len].ptr <=> j < stack[len].ptr \/ j = stack[len].ptr
        BY <1>3, <1>5
      <4>3. QED
        BY <1>2, <1>3, <1>4, <1>5, <3>1, <4>1, <4>2
    <3>2. CASE k # len
      BY <1>2, <1>3, <1>5, <1>6, <3>2 DEF NothingOverlooked, len
    <3>3. QED
      BY <3>1, <3>2
  <2>2. \A v \in Discovered' : Explored(v)' \/ \E k \in 1..len : stack'[k].node = v
    BY <1>2, <1>6, <1>7 DEF NothingOverlooked, len
  <2>3. QED
    BY <1>1, <1>5, <2>1, <2>2 DEF NothingOverlooked
<1>10. QED
  BY <1>1, <1>2, <1>8, <1>9 DEF Searching

LEMMA ReturnSearching ==
  ASSUME Numbered, Searching, Return
  PROVE  Searching'
<1> DEFINE depth == Len(stack) - 1
<1>1. /\ pc = "search" /\ pc' = "search" /\ ~ AtLink /\ TypeOK
      /\ UNCHANGED <<edges, semi, vertex, parent, n>>
  BY DEF Return, Numbered
<1>2. /\ Discovered' = Discovered /\ ParentTree'
      /\ Discovered' \subseteq Reachable(Nodes, LinksOf(edges))'
      /\ \A v : Explored(v)' <=> Explored(v)
  BY <1>1, TreeUnchanged
<1>3. CallsFollowLinks /\ NothingOverlooked
  BY DEF Searching
<1>4. /\ depth \in Nat \ {0} /\ Len(stack) = depth + 1 /\ Top = stack[depth + 1]
      /\ Len(stack') = depth
      /\ \A k \in 1..(depth - 1) : stack'[k] = stack[k]
      /\ stack'[depth].node = stack[depth].node
      /\ stack'[depth].ptr = stack[depth].ptr + 1
  BY <1>1, <1>3, InnermostCall, ReturnStack
<1> HIDE DEF depth
<1>5. \A k \in 1..depth : stack'[k].node = stack[k].node
  BY <1>4
<1>6. /\ stack[depth].ptr \in Nat
      /\ edges[stack[depth].ptr].dst = Top.node /\ Top.node \in Discovered
  <2>1. depth \in 1..(Len(stack) - 1) /\ depth + 1 \in 1..Len(stack) /\ depth \in 1..Len(stack)
    BY <1>4
  <2>2. edges[stack[depth].ptr] = [src |-> stack[depth].node, dst |-> stack[depth + 1].node]
    BY <1>3, <2>1 DEF CallsFollowLinks
  <2>3. stack[depth + 1].node \in Discovered
    BY <1>3, <2>1 DEF CallsFollowLinks
  <2>4. stack[depth].ptr \in 1..(Len(edges) + 1)
    BY <1>1, <2>1, FrameTypes
  <2>5. QED
    BY <1>4, <2>2, <2>3, <2>4
<1>7. CallsFollowLinks'
  <2>1. stack'[1].node = 0
    BY <1>1, <1>3, <1>4, <1>5 DEF CallsFollowLinks, TypeOK
  <2>2. \A k \in 1..depth : stack'[k].node \in Discovered'
    BY <1>2, <1>3, <1>4, <1>5 DEF CallsFollowLinks
  <2>3. ASSUME NEW k \in 1..(depth - 1)
        PROVE  /\ stack'[k].ptr <= Len(edges)
               /\ edges[stack'[k].ptr] = [src |-> stack'[k].node, dst |-> stack'[k + 1].node]
    <3>1. stack'[k] = stack[k] /\ stack'[k + 1].node = stack[k + 1].node
      BY <1>4, <1>5
    <3>2. k \in 1..(Len(stack) - 1)
      BY <1>4
    <3>3. QED
      BY <1>3, <3>1, <3>2 DEF CallsFollowLinks
  <2>4. QED
    BY <1>1, <1>4, <2>1, <2>2, <2>3 DEF CallsFollowLinks
<1>8. NothingOverlooked'
  <2>1. ASSUME NEW k \in 1..depth, NEW j \in 1..Len(edges)
        PROVE  /\ edges[j].src < stack'[k].node => j < stack'[k].ptr
               /\ edges[j].src = stack'[k].node /\ j < stack'[k].ptr => edges[j].dst \in Discovered'
    <3>1. /\ edges[j].src < stack[k].node => j < stack[k].ptr
          /\ edges[j].src = stack[k].node /\ j < stack[k].ptr => edges[j].dst \in Discovered
      BY <1>3, <1>4 DEF NothingOverlooked
    <3>2. CASE k = depth
      <4>1. j < stack'[k].ptr <=> j < stack[k].ptr \/ j = stack[k].ptr
        BY <1>4, <1>6, <3>2
      <4>2. QED
        BY <1>2, <1>5, <1>6, <3>1, <3>2, <4>1
    <3>3. CASE k # depth
      BY <1>2, <1>4, <3>1, <3>3
    <3>4. QED
      BY <3>2, <3>3
  <2>2. ASSUME NEW v \in Discovered'
        PROVE  Explored(v)' \/ \E k \in 1..depth : stack'[k].node = v
    <3>1. Explored(v) \/ \E k \in 1..(depth + 1) : stack[k].node = v
      BY <1>2, <1>3, <1>4 DEF NothingOverlooked
    <3>2. CASE Explored(v)
      BY <1>2, <3>2
    <3>3. CASE \E k \in 1..depth : stack[k].node = v
      BY <1>5, <3>3
    <3>4. CASE stack[depth + 1].node = v
      BY <1>1, <1>2, <1>3, <1>4, <3>4, InnermostExplored
    <3>5. QED
      BY <1>4, <3>1, <3>2, <3>3, <3>4
  <2>3. QED
    BY <1>1, <1>4, <2>1, <2>2 DEF NothingOverlooked
<1>9. QED
  BY <1>1, <1>2, <1>7, <1>8 DEF Searching

LEMMA ReturnToMainSearching ==
  ASSUME Numbered, Searching, ReturnToMain
  PROVE  Searching'
<1>1. /\ pc = "search" /\ pc' = "done" /\ ~ AtLink /\ Len(stack) = 1 /\ stack' = << >>
      /\ UNCHANGED <<edges, semi, vertex, parent, n>> /\ TypeOK
  BY DEF ReturnToMain, Numbered
<1>2. /\ Discovered' = Discovered /\ ParentTree'
      /\ Discovered' \subseteq Reachable(Nodes, LinksOf(edges))'
      /\ \A v : Explored(v)' <=> Explored(v)
  BY <1>1, TreeUnchanged
<1>3. CallsFollowLinks /\ NothingOverlooked
  BY DEF Searching
<1>4. Top.node = 0 /\ Top = stack[1] /\ stack # << >>
  BY <1>1, <1>3 DEF CallsFollowLinks, Top, TypeOK
<1>5. 0 \in Discovered
  BY <1>1, <1>3, <1>4 DEF CallsFollowLinks
<1>6. \A v \in Discovered : Explored(v)
  <2>1. Explored(0)
    BY <1>1, <1>3, <1>4, InnermostExplored
  <2>2. \A v \in Discovered : Explored(v) \/ \E k \in 1..1 : stack[k].node = v
    BY <1>1, <1>3 DEF NothingOverlooked
  <2>3. QED
    BY <1>4, <2>1, <2>2
<1>7. Closed(Discovered, LinksOf(edges))
  BY <1>6 DEF Closed, LinksOf, Explored
<1>8. Len(stack') = 0
  BY <1>1, EmptySeq
<1>9. CallsFollowLinks' /\ NothingOverlooked'
  <2>1. \A k : k \notin 1..Len(stack') /\ k \notin 1..(Len(stack') - 1)
    BY <1>8
  <2>2. CallsFollowLinks'
    BY <1>1, <2>1 DEF CallsFollowLinks
  <2>3. \A v \in Discovered' : Explored(v)'
    BY <1>2, <1>6
  <2>4. QED
    BY <2>1, <2>2, <2>3 DEF NothingOverlooked
<1>10. QED
  BY <1>1, <1>2, <1>5, <1>7, <1>9 DEF Searching

(* Steps that change neither the arrays nor the stack.                     *)
LEMMA IdleSearching ==
  ASSUME Numbered, Searching, UNCHANGED <<edges, semi, vertex, parent, n, stack>>,
         pc' = pc \/ pc' # "done"
  PROVE  Searching'
<1>1. Discovered' = Discovered
  BY NumberingUnchanged
<1>2. CallsFollowLinks' /\ NothingOverlooked' /\ ParentTree'
  BY <1>1 DEF Searching, CallsFollowLinks, NothingOverlooked, ParentTree, Explored
<1>3. QED
  BY <1>1, <1>2 DEF Searching

LEMMA SearchingStep ==
  ASSUME Numbered, Searching, [Next]_dfsVars
  PROVE  Searching'
<1>1. CASE MapFails
  BY <1>1, IdleSearching DEF MapFails
<1>2. CASE UNCHANGED dfsVars
  BY <1>2, IdleSearching DEF dfsVars
<1>3. QED
  BY <1>1, <1>2, CallRootSearching, DescendSearching, SkipSearching, ReturnSearching,
     ReturnToMainSearching DEF Next

------------------------------------------------------------------------------
(* The theorems *)

(* Both layers hold in every state dfs can be in (dfs.cc:36-74).           *)
THEOREM Invariance == Spec => [](Numbered /\ Searching)
<1>1. Init => Numbered /\ Searching
  BY NumberedInit, SearchingInit
<1>2. Numbered /\ Searching /\ [Next]_dfsVars => (Numbered /\ Searching)'
  <2>1. SUFFICES ASSUME Numbered, Searching, [Next]_dfsVars
                 PROVE  Numbered' /\ Searching'
    OBVIOUS
  <2>2. CallsFollowLinks
    BY <2>1 DEF Searching
  <2>3. QED
    BY <2>1, <2>2, NumberedStep, SearchingStep
<1>3. QED
  BY <1>1, <1>2, PTL DEF Spec

(* The arrays hold nodes and every call stands inside the link file, for   *)
(* any number of nodes (dfs.cc:18-31).                                     *)
THEOREM TypeCorrect == Spec => []TypeOK
<1>1. Numbered => TypeOK
  BY DEF Numbered
<1>2. QED
  BY <1>1, Invariance, PTL

(* semi and vertex are inverse to each other on what was found             *)
(* (dfs.cc:40-47).                                                         *)
THEOREM NumberingCorrect == Spec => []NumberingIsBijective
<1>1. Numbered => NumberingIsBijective
  BY DEF Numbered
<1>2. QED
  BY <1>1, Invariance, PTL

(* parent is a spanning tree of what was found, smaller numbers above      *)
(* (dfs.cc:57-59).                                                         *)
THEOREM SpanningTree == Spec => []ParentTree
<1>1. Searching => ParentTree
  BY DEF Searching
<1>2. QED
  BY <1>1, Invariance, PTL

(* No link is overlooked, at any depth of the recursion (dfs.cc:49-70).    *)
THEOREM SearchComplete == Spec => []NothingOverlooked
<1>1. Searching => NothingOverlooked
  BY DEF Searching
<1>2. QED
  BY <1>1, Invariance, PTL

(* What has been found when the search is done. *)
LEMMA FoundIsReachable == Numbered /\ Searching => FindsReachable
<1>1. SUFFICES ASSUME Numbered, Searching, pc = "done"
               PROVE  Discovered = Reachable(Nodes, LinksOf(edges))
  BY DEF FindsReachable
<1>2. /\ 0 \in Discovered /\ Closed(Discovered, LinksOf(edges))
      /\ Discovered \subseteq Reachable(Nodes, LinksOf(edges))
  BY <1>1 DEF Searching
<1>3. Discovered \in SUBSET Nodes
  BY <1>1, DiscoveredNodes
<1>4. QED
  BY <1>2, <1>3, ReachableIsLeast

(* A finished search has found exactly the reachable nodes (dfs.cc:119).   *)
THEOREM SearchCorrect == Spec => []FindsReachable
<1>1. Numbered /\ Searching => FindsReachable
  BY FoundIsReachable
<1>2. QED
  BY <1>1, Invariance, PTL

(* No step changes the number or the parent of a node found before it      *)
(* (dfs.cc:40-45, 57).                                                     *)
THEOREM NumbersStayFinal == Spec => NumbersAreFinal
<1> DEFINE Final == \A v \in Discovered : semi'[v] = semi[v] /\ parent'[v] = parent[v]
<1>1. Numbered /\ [Next]_dfsVars => [Final]_dfsVars
  <2>1. SUFFICES ASSUME Numbered, Next PROVE Final
    OBVIOUS
  <2>2. CASE CallRoot
    <3>1. n = 0 /\ Discovered = {}
      BY <2>1, <2>2 DEF CallRoot, Numbered, Discovered
    <3>2. QED
      BY <3>1
  <2>3. CASE Descend
    <3>1. /\ pc = "search" /\ n # 0 /\ TypeOK /\ AtLink
          /\ Undiscovered(Current.dst) /\ Number(Current.dst)
          /\ parent' = [parent EXCEPT ![Current.dst] = Top.node]
      BY <2>1, <2>3 DEF Descend, Numbered
    <3>2. Current.dst \in Nodes \ Discovered /\ Current.dst # 0
      BY <3>1, CurrentLink DEF Undiscovered, Discovered
    <3>3. \A v \in Nodes \ {Current.dst} : semi'[v] = semi[v]
      BY <2>1, <3>1, <3>2, NumberingStep
    <3>4. parent \in [Nodes -> Nodes]
      BY <3>1 DEF TypeOK
    <3>5. \A v \in Discovered : v \in Nodes \ {Current.dst}
      BY <2>1, <3>2, DiscoveredNodes
    <3>6. QED
      BY <3>1, <3>3, <3>4, <3>5
  <2>4. CASE MapFails \/ Skip \/ Return \/ ReturnToMain
    BY <2>4 DEF MapFails, Skip, Return, ReturnToMain
  <2>5. QED
    BY <2>1, <2>2, <2>3, <2>4 DEF Next
<1>2. QED
  BY <1>1, Invariance, PTL DEF Spec, NumbersAreFinal

(* Every step of dfs is a step of the abstract search or changes nothing   *)
(* in it: a number given is a node found (dfs.cc:36-74).                   *)
THEOREM ImplementsSearch == Spec => SearchesGraph
<1>1. Init => Search!SearchInit
  <2>1. SUFFICES ASSUME Init PROVE Search!SearchInit
    OBVIOUS
  <2>2. TypeOK /\ pc = "start" /\ Discovered = {}
    BY <2>1, NumberedInit DEF Init, Numbered, Discovered
  <2>3. LinksOf(edges) \subseteq [src : Nodes, dst : Nodes]
    BY <2>2, LinkTypes DEF LinksOf, Links
  <2>4. QED
    BY <2>2, <2>3 DEF Search!SearchInit
<1>2. Numbered /\ Searching /\ Searching' /\ [Next]_dfsVars => [Search!SearchNext]_(Search!searchVars)
  <2> USE DEF Search!searchVars
  <2>1. SUFFICES ASSUME Numbered, Searching, Searching', [Next]_dfsVars
                 PROVE  [Search!SearchNext]_(Search!searchVars)
    OBVIOUS
  <2>2. CASE MapFails
    BY <2>1, <2>2, NumberingUnchanged DEF MapFails
  <2>3. CASE CallRoot
    <3>1. /\ n = 0 /\ pc = "start" /\ pc' = "search" /\ edges' = edges /\ Number(0)
      BY <2>1, <2>3 DEF CallRoot, Numbered
    <3>2. Discovered = {}
      BY <3>1 DEF Discovered
    <3>3. Discovered' = Discovered \cup {0}
      BY <2>1, <3>1, <3>2, NodesAreNaturals, NumberingStep
    <3>4. Search!FindRoot
      BY <3>1, <3>2, <3>3 DEF Search!FindRoot
    <3>5. QED
      BY <3>4 DEF Search!SearchNext
  <2>4. CASE Descend
    <3>1. /\ pc = "search" /\ pc' = "search" /\ edges' = edges /\ n # 0 /\ TypeOK /\ AtLink
          /\ Undiscovered(Current.dst) /\ Number(Current.dst)
      BY <2>1, <2>4 DEF Descend, Numbered
    <3>2. Current.dst \in Nodes \ Discovered /\ Current.dst # 0
      BY <3>1, CurrentLink DEF Undiscovered, Discovered
    <3>3. Discovered' = Discovered \cup {Current.dst}
      BY <2>1, <3>1, <3>2, NumberingStep
    <3>4. Current \in LinksOf(edges) /\ Current.src = Top.node
      BY <3>1, CurrentLink DEF Current, LinksOf
    <3>5. Top.node \in Discovered
      BY <2>1, <3>1, InnermostCall DEF Searching, CallsFollowLinks
    <3>6. Search!Find
      BY <3>1, <3>2, <3>3, <3>4, <3>5 DEF Search!Find
    <3>7. QED
      BY <3>6 DEF Search!SearchNext
  <2>5. CASE Skip \/ Return
    <3>1. UNCHANGED <<edges, semi, vertex, n, pc>>
      BY <2>5 DEF Skip, Return
    <3>2. Discovered' = Discovered
      BY <2>1, <3>1, NumberingUnchanged
    <3>3. QED
      BY <3>1, <3>2
  <2>6. CASE ReturnToMain
    <3>1. /\ pc = "search" /\ pc' = "done" /\ UNCHANGED <<edges, semi, vertex, n>>
      BY <2>6 DEF ReturnToMain
    <3>2. Discovered' = Discovered
      BY <2>1, <3>1, NumberingUnchanged
    <3>3. 0 \in Discovered /\ Closed(Discovered, LinksOf(edges))
      BY <2>1, <3>1, <3>2 DEF Searching
    <3>4. Search!Finish
      BY <3>1, <3>2, <3>3 DEF Search!Finish, Search!Closed, Closed
    <3>5. QED
      BY <3>4 DEF Search!SearchNext
  <2>7. CASE UNCHANGED dfsVars
    BY <2>1, <2>7, NumberingUnchanged DEF dfsVars
  <2>8. QED
    BY <2>1, <2>2, <2>3, <2>4, <2>5, <2>6, <2>7 DEF Next
<1>3. QED
  BY <1>1, <1>2, Invariance, PTL DEF Spec, SearchesGraph, Search!SearchSpec

------------------------------------------------------------------------------
(***************************************************************************)
(* What becomes of the links                                               *)
(*                                                                         *)
(* The loop is done with a link when it writes it to pred, so that the     *)
(* links of an active call are split at its pointer and those of a         *)
(* returned call are all dealt with.  Handled says which links these are   *)
(* at any moment; Skip and Return add one to it, the other steps none.     *)
(* Both results follow from invariants about the handled links.            *)
(***************************************************************************)

(* The positions of the links that the loops are done with.                *)
Handled ==
  {j \in 1..Len(edges) :
     /\ edges[j].src \in Discovered
     /\ \A k \in 1..Len(stack) : stack[k].node = edges[j].src => j < stack[k].ptr}

(* Inner calls are at nodes with larger numbers. *)
CallsAscend ==
  \A k, m \in 1..Len(stack) : k < m => semi[stack[k].node] < semi[stack[m].node]

(* pred holds what is handled, once. *)
Written ==
  /\ LinksOf(pred) = {Reversed(edges[j]) : j \in Handled}
  /\ Len(pred) = Cardinality(Handled)

(* v is on the tree path from w to the root: every set that holds w and,   *)
(* with a node, its parent, holds v.                                       *)
Ancestor(up, v, w) ==
  \A S \in SUBSET Nodes : w \in S /\ (\A x \in S \ {0} : up[x] \in S) => v \in S

(* What was found since an active call began is below its node, and so     *)
(* handled links to larger numbers lead down the tree.                     *)
Nested ==
  /\ \A k \in 1..Len(stack) : \A w \in Discovered :
       semi[stack[k].node] <= semi[w] => Ancestor(parent, stack[k].node, w)
  /\ \A j \in Handled :
       semi[edges[j].src] < semi[edges[j].dst] => Ancestor(parent, edges[j].src, edges[j].dst)

------------------------------------------------------------------------------
(* Files and sets of positions *)

LEMMA HandledFinite == TypeOK => IsFiniteSet(Handled)
<1> SUFFICES ASSUME TypeOK PROVE IsFiniteSet(Handled)
  OBVIOUS
<1>1. IsFiniteSet(1..Len(edges))
  <2>1. 1 \in Int /\ Len(edges) \in Int
    BY LinkTypes
  <2>2. QED
    BY <2>1, FS_Interval
<1>2. Handled \in SUBSET (1..Len(edges))
  BY DEF Handled
<1>3. QED
  BY <1>1, <1>2, FS_Subset

(* A link appended to a file is added to its links.                        *)
LEMMA AppendedLink ==
  ASSUME NEW file \in Seq(Links(Nodes)), NEW e \in Links(Nodes)
  PROVE  /\ LinksOf(Append(file, e)) = LinksOf(file) \cup {e}
         /\ Len(Append(file, e)) = Len(file) + 1
<1>1. /\ Len(Append(file, e)) = Len(file) + 1
      /\ \A k \in 1..Len(file) : Append(file, e)[k] = file[k]
      /\ Append(file, e)[Len(file) + 1] = e
  BY AppendProperties
<1>2. Len(file) \in Nat
  BY LenProperties
<1> DEFINE file2 == Append(file, e)
<1> HIDE DEF file2
<1>3. /\ Len(file2) = Len(file) + 1
      /\ \A k \in 1..Len(file) : file2[k] = file[k]
      /\ file2[Len(file) + 1] = e
  BY <1>1 DEF file2
<1>4. ASSUME NEW x \in LinksOf(file2) PROVE x \in LinksOf(file) \cup {e}
  <2>1. PICK j \in 1..Len(file2) : x = file2[j]
    BY <1>4 DEF LinksOf
  <2>2. j \in 1..Len(file) \/ j = Len(file) + 1
    BY <1>2, <1>3
  <2>3. QED
    BY <1>3, <2>1, <2>2 DEF LinksOf
<1>5. ASSUME NEW x \in LinksOf(file) \cup {e} PROVE x \in LinksOf(file2)
  <2>1. 1..Len(file) \subseteq 1..Len(file2) /\ Len(file) + 1 \in 1..Len(file2)
    BY <1>2, <1>3
  <2>2. QED
    BY <1>3, <2>1 DEF LinksOf
<1>6. LinksOf(file2) = LinksOf(file) \cup {e}
  BY <1>4, <1>5
<1>7. QED
  BY <1>1, <1>6 DEF file2

(* A step that writes one link, and handles that one and no other.         *)
LEMMA OneMoreWritten ==
  ASSUME TypeOK, Written, edges' = edges, NEW p \in 1..Len(edges), p \notin Handled,
         Handled' = Handled \cup {p}, pred' = Append(pred, Reversed(edges[p]))
  PROVE  Written'
<1>1. Reversed(edges[p]) \in Links(Nodes)
  BY LinkTypes DEF Reversed, Links
<1>2. pred \in Seq(Links(Nodes))
  BY DEF TypeOK
<1>3. /\ LinksOf(pred') = LinksOf(pred) \cup {Reversed(edges[p])}
      /\ Len(pred') = Len(pred) + 1
  BY <1>1, <1>2, AppendedLink
<1>4. Cardinality(Handled') = Cardinality(Handled) + 1
  BY HandledFinite, FS_AddElement
<1>5. \A j : Reversed(edges[j])' = Reversed(edges[j])
  BY DEF Reversed
<1>6. QED
  BY <1>3, <1>4, <1>5 DEF Written

(* A step that writes nothing and handles nothing.                         *)
LEMMA NoMoreWritten ==
  ASSUME Written, edges' = edges, pred' = pred, Handled' = Handled
  PROVE  Written'
BY DEF Written, Reversed

(* No node has two active calls.                                           *)
LEMMA OneCallPerNode ==
  ASSUME Numbered, CallsAscend
  PROVE  \A k, m \in 1..Len(stack) : stack[k].node = stack[m].node => k = m
<1>1. Len(stack) \in Nat /\ \A k \in 1..Len(stack) : stack[k].node \in Nodes
  BY FrameTypes DEF Numbered
<1>2. \A k \in 1..Len(stack) : semi[stack[k].node] \in Nat
  BY <1>1, NodesAreNaturals DEF Numbered, TypeOK
<1>3. \A k, m \in 1..Len(stack) : k < m => stack[k].node # stack[m].node
  BY <1>2 DEF CallsAscend
<1>4. QED
  BY <1>1, <1>3

------------------------------------------------------------------------------
(* What the steps do to the handled links *)

LEMMA LinksInit == Init => CallsAscend /\ Written /\ Nested
<1> SUFFICES ASSUME Init PROVE CallsAscend /\ Written /\ Nested
  OBVIOUS
<1>1. Discovered = {} /\ Len(stack) = 0 /\ Len(pred) = 0
  BY EmptySeq DEF Init, Discovered
<1>2. Handled = {} /\ LinksOf(pred) = {}
  BY <1>1 DEF Handled, LinksOf
<1>3. QED
  BY <1>1, <1>2, FS_EmptySet DEF CallsAscend, Written, Nested

LEMMA CallRootHandles ==
  ASSUME Numbered, CallRoot
  PROVE  CallsAscend' /\ Handled' = {} /\ Handled = {}
<1>1. /\ n = 0 /\ edges' = edges /\ pred' = pred /\ Number(0) /\ TypeOK
      /\ stack' = <<EnteredFrame(0)>>
  BY DEF CallRoot, Numbered
<1>2. Discovered = {} /\ 0 \in Nodes
  BY <1>1, NodesAreNaturals DEF Discovered
<1>3. Discovered' = {0}
  BY <1>1, <1>2, NumberingStep
<1>4. /\ EnteredFrame(0).node = 0
      /\ \A j \in 1..Len(edges) : edges[j].src < 0 <=> j < EnteredFrame(0).ptr
  BY <1>1, <1>2, NewFrame
<1>5. Len(stack') = 1 /\ stack'[1] = EnteredFrame(0)
  BY <1>1
<1>6. \A j \in 1..Len(edges) : j \notin Handled'
  <2>1. SUFFICES ASSUME NEW j \in 1..Len(edges), j \in Handled' PROVE FALSE
    OBVIOUS
  <2>2. edges[j].src = 0
    BY <1>1, <1>3, <2>1 DEF Handled
  <2>3. j < EnteredFrame(0).ptr
    BY <1>1, <1>4, <1>5, <2>1, <2>2 DEF Handled
  <2>4. QED
    BY <1>4, <2>2, <2>3
<1>7. Handled' = {} /\ Handled = {}
  BY <1>1, <1>2, <1>6 DEF Handled
<1>8. CallsAscend'
  BY <1>5 DEF CallsAscend
<1>9. QED
  BY <1>7, <1>8

LEMMA DescendHandles ==
  ASSUME Numbered, Searching, CallsAscend, Descend
  PROVE  CallsAscend' /\ Handled' = Handled
<1> DEFINE w == Current.dst
           len == Len(stack)
<1>1. /\ pc = "search" /\ n # 0 /\ edges' = edges /\ pred' = pred /\ TypeOK /\ AtLink
      /\ Undiscovered(w) /\ Number(w)
  BY DEF Descend, Numbered
<1>2. w \in Nodes \ Discovered /\ w # 0
  BY <1>1, CurrentLink DEF Undiscovered, Discovered
<1>3. /\ Discovered' = Discovered \cup {w}
      /\ semi'[w] = n /\ \A v \in Nodes \ {w} : semi'[v] = semi[v]
  BY <1>1, <1>2, NumberingStep
<1>4. /\ len \in Nat \ {0}
      /\ Len(stack') = len + 1
      /\ \A k \in 1..len : stack'[k] = stack[k]
      /\ stack'[len + 1] = EnteredFrame(w)
  BY <1>1, InnermostCall, DescendStack
<1>5. /\ EnteredFrame(w).node = w
      /\ \A j \in 1..Len(edges) : edges[j].src < w <=> j < EnteredFrame(w).ptr
  BY <1>1, <1>2, NewFrame
<1>6. \A k \in 1..len : stack[k].node \in Discovered
  BY DEF Searching, CallsFollowLinks
<1>7. w \in Nat
  BY <1>2, NodesAreNaturals
<1> HIDE DEF w, len
<1>8. CallsAscend'
  <2>1. SUFFICES ASSUME NEW k \in 1..(len + 1), NEW m \in 1..(len + 1), k < m
                 PROVE  semi'[stack'[k].node] < semi'[stack'[m].node]
    BY <1>4 DEF CallsAscend
  <2>2. k \in 1..len /\ stack'[k] = stack[k] /\ stack[k].node \in Discovered
    BY <1>4, <1>6, <2>1
  <2>3. semi'[stack[k].node] = semi[stack[k].node] /\ semi[stack[k].node] < n
    BY <1>2, <1>3, <2>2, DiscoveredNodes
  <2>4. CASE m = len + 1
    BY <1>3, <1>4, <1>5, <2>2, <2>3, <2>4
  <2>5. CASE m \in 1..len
    <3>1. stack'[m] = stack[m] /\ stack[m].node \in Discovered
      BY <1>4, <1>6, <2>5
    <3>2. semi'[stack[m].node] = semi[stack[m].node]
      BY <1>2, <1>3, <3>1, DiscoveredNodes
    <3>3. semi[stack[k].node] < semi[stack[m].node]
      BY <2>1, <2>2, <2>5 DEF CallsAscend, len
    <3>4. QED
      BY <2>2, <2>3, <3>1, <3>2, <3>3
  <2>6. QED
    BY <1>4, <2>4, <2>5
<1>9. ASSUME NEW j \in 1..Len(edges)
      PROVE  j \in Handled' <=> j \in Handled
  <2>1. CASE edges[j].src = w
    <3>1. j \notin Handled
      BY <1>2, <2>1 DEF Handled
    <3>2. len + 1 \in 1..Len(stack') /\ ~ (j < stack'[len + 1].ptr)
      BY <1>4, <1>5, <1>7, <2>1
    <3>3. j \notin Handled'
      BY <1>1, <1>4, <1>5, <2>1, <3>2 DEF Handled
    <3>4. QED
      BY <3>1, <3>3
  <2>2. CASE edges[j].src # w
    <3>1. (\A k \in 1..(len + 1) : stack'[k].node = edges[j].src => j < stack'[k].ptr)
          <=> (\A k \in 1..len : stack[k].node = edges[j].src => j < stack[k].ptr)
      BY <1>4, <1>5, <2>2
    <3>2. QED
      BY <1>1, <1>3, <1>4, <2>2, <3>1 DEF Handled, len
  <2>3. QED
    BY <2>1, <2>2
<1>10. Handled' = Handled
  BY <1>1, <1>9 DEF Handled
<1>11. QED
  BY <1>8, <1>10

LEMMA SkipHandles ==
  ASSUME Numbered, Searching, CallsAscend, Skip
  PROVE  /\ CallsAscend'
         /\ Top.ptr \in 1..Len(edges) /\ Top.ptr \notin Handled
         /\ Handled' = Handled \cup {Top.ptr}
<1> DEFINE len == Len(stack)
           p == Top.ptr
<1>1. /\ pc = "search" /\ edges' = edges /\ TypeOK /\ AtLink
      /\ UNCHANGED <<semi, vertex, n>>
      /\ pred' = Append(pred, Reversed(edges[p]))
  BY DEF Skip, Numbered, Current
<1>2. Discovered' = Discovered
  BY <1>1, NumberingUnchanged
<1>3. /\ len \in Nat \ {0} /\ Top = stack[len]
      /\ Len(stack') = len
      /\ \A k \in 1..(len - 1) : stack'[k] = stack[k]
      /\ stack'[len].node = Top.node
      /\ stack'[len].ptr = p + 1
  BY <1>1, InnermostCall, SkipStack
<1>4. p \in 1..Len(edges) /\ edges[p].src = Top.node
  BY <1>1, CurrentLink DEF AtLink
<1>5. Top.node \in Discovered
  BY <1>3 DEF Searching, CallsFollowLinks
<1>6. \A k, m \in 1..len : stack[k].node = stack[m].node => k = m
  BY OneCallPerNode
<1>7. p = stack[len].ptr /\ p \in Nat /\ Len(edges) \in Nat
  BY <1>1, <1>3, <1>4, LinkTypes
<1>8. Handled = {j \in 1..Len(edges) :
                   /\ edges[j].src \in Discovered
                   /\ \A k \in 1..len : stack[k].node = edges[j].src => j < stack[k].ptr}
  BY DEF Handled
<1> HIDE DEF len, p
<1>9. Handled' = {j \in 1..Len(edges) :
                   /\ edges[j].src \in Discovered
                   /\ \A k \in 1..len : stack'[k].node = edges[j].src => j < stack'[k].ptr}
  BY <1>1, <1>2, <1>3 DEF Handled
<1>10. \A k \in 1..len : stack'[k].node = stack[k].node
  BY <1>3
<1>11. p \notin Handled
  BY <1>3, <1>4, <1>7, <1>8
<1>12. p \in Handled'
  <2>1. ASSUME NEW k \in 1..len, stack'[k].node = edges[p].src
        PROVE  p < stack'[k].ptr
    <3>1. k = len
      BY <1>3, <1>4, <1>6, <1>10, <2>1
    <3>2. QED
      BY <1>3, <1>7, <3>1
  <2>2. QED
    BY <1>4, <1>5, <1>9, <2>1
<1>13. ASSUME NEW j \in 1..Len(edges), j # p
       PROVE  j \in Handled' <=> j \in Handled
  <2>1. \A k \in 1..len : j < stack'[k].ptr <=> j < stack[k].ptr
    BY <1>3, <1>7, <1>13
  <2>2. QED
    BY <1>8, <1>9, <1>10, <2>1
<1>14. Handled' = Handled \cup {p}
  BY <1>4, <1>8, <1>9, <1>11, <1>12, <1>13
<1>15. CallsAscend'
  BY <1>1, <1>3, <1>10 DEF CallsAscend, len
<1>16. QED
  BY <1>4, <1>11, <1>14, <1>15 DEF p

LEMMA ReturnHandles ==
  ASSUME Numbered, Searching, CallsAscend, Return
  PROVE  /\ CallsAscend'
         /\ stack[Len(stack) - 1].ptr \in 1..Len(edges)
         /\ stack[Len(stack) - 1].ptr \notin Handled
         /\ Handled' = Handled \cup {stack[Len(stack) - 1].ptr}
<1> DEFINE depth == Len(stack) - 1
           p == stack[depth].ptr
<1>1. /\ pc = "search" /\ edges' = edges /\ TypeOK /\ ~ AtLink
      /\ UNCHANGED <<semi, vertex, n>>
      /\ pred' = Append(pred, Reversed(edges[p]))
  BY DEF Return, Numbered
<1>2. Discovered' = Discovered
  BY <1>1, NumberingUnchanged
<1>3. CallsFollowLinks /\ NothingOverlooked
  BY DEF Searching
<1>4. /\ depth \in Nat \ {0} /\ Len(stack) = depth + 1 /\ Top = stack[depth + 1]
      /\ Len(stack') = depth
      /\ \A k \in 1..(depth - 1) : stack'[k] = stack[k]
      /\ stack'[depth].node = stack[depth].node
      /\ stack'[depth].ptr = p + 1
  BY <1>1, <1>3, InnermostCall, ReturnStack
<1>5. p \in 1..Len(edges) /\ edges[p].src = stack[depth].node
  <2>1. depth \in 1..(Len(stack) - 1) /\ depth \in 1..Len(stack)
    BY <1>4
  <2>2. p <= Len(edges) /\ edges[p] = [src |-> stack[depth].node, dst |-> stack[depth + 1].node]
    BY <1>3, <2>1 DEF CallsFollowLinks
  <2>3. p \in 1..(Len(edges) + 1)
    BY <1>1, <2>1, FrameTypes
  <2>4. QED
    BY <1>1, <2>2, <2>3, LinkTypes
<1>6. stack[depth].node \in Discovered
  BY <1>3, <1>4 DEF CallsFollowLinks
<1>7. \A k, m \in 1..(depth + 1) : stack[k].node = stack[m].node => k = m
  BY <1>4, OneCallPerNode
<1>8. Handled = {j \in 1..Len(edges) :
                   /\ edges[j].src \in Discovered
                   /\ \A k \in 1..(depth + 1) : stack[k].node = edges[j].src => j < stack[k].ptr}
  BY <1>4 DEF Handled
<1>9. \A j \in 1..Len(edges) : edges[j].src = stack[depth + 1].node => j < stack[depth + 1].ptr
  BY <1>1, <1>3, <1>4, PastAllLinks
<1>10. p = stack[depth].ptr
  OBVIOUS
<1> HIDE DEF depth, p
<1>11. Handled' = {j \in 1..Len(edges) :
                    /\ edges[j].src \in Discovered
                    /\ \A k \in 1..depth : stack'[k].node = edges[j].src => j < stack'[k].ptr}
  BY <1>1, <1>2, <1>4 DEF Handled
<1>12. \A k \in 1..depth : stack'[k].node = stack[k].node
  BY <1>4
<1>13. p \notin Handled
  BY <1>4, <1>5, <1>8, <1>10
<1>14. p \in Handled'
  <2>1. ASSUME NEW k \in 1..depth, stack'[k].node = edges[p].src
        PROVE  p < stack'[k].ptr
    <3>1. k = depth
      BY <1>4, <1>5, <1>7, <1>12, <2>1
    <3>2. QED
      BY <1>4, <1>5, <3>1
  <2>2. QED
    BY <1>5, <1>6, <1>11, <2>1
<1>15. ASSUME NEW j \in 1..Len(edges), j # p
       PROVE  j \in Handled' <=> j \in Handled
  <2>1. \A k \in 1..depth : j < stack'[k].ptr <=> j < stack[k].ptr
    BY <1>4, <1>5, <1>10, <1>15
  <2>2. (\A k \in 1..(depth + 1) : stack[k].node = edges[j].src => j < stack[k].ptr)
        <=> (\A k \in 1..depth : stack[k].node = edges[j].src => j < stack[k].ptr)
    BY <1>4, <1>9
  <2>3. QED
    BY <1>8, <1>11, <1>12, <2>1, <2>2
<1>16. Handled' = Handled \cup {p}
  BY <1>5, <1>8, <1>11, <1>13, <1>14, <1>15
<1>17. CallsAscend'
  <2>1. \A k, m \in 1..depth : k < m => semi[stack[k].node] < semi[stack[m].node]
    BY <1>4 DEF CallsAscend
  <2>2. QED
    BY <1>1, <1>4, <1>12, <2>1 DEF CallsAscend
<1>18. QED
  BY <1>5, <1>13, <1>16, <1>17 DEF depth, p

LEMMA ReturnToMainHandles ==
  ASSUME Numbered, Searching, CallsAscend, ReturnToMain
  PROVE  CallsAscend' /\ Handled' = Handled
<1>1. /\ pc = "search" /\ edges' = edges /\ pred' = pred /\ TypeOK /\ ~ AtLink
      /\ UNCHANGED <<semi, vertex, n>> /\ Len(stack) = 1 /\ stack' = << >>
  BY DEF ReturnToMain, Numbered
<1>2. Discovered' = Discovered
  BY <1>1, NumberingUnchanged
<1>3. Len(stack') = 0
  BY <1>1, EmptySeq
<1>4. ASSUME NEW j \in 1..Len(edges)
      PROVE  \A k \in 1..Len(stack) : stack[k].node = edges[j].src => j < stack[k].ptr
  BY <1>1, PastAllLinks DEF Searching, Top
<1>5. Handled' = Handled
  BY <1>1, <1>2, <1>3, <1>4 DEF Handled
<1>6. QED
  BY <1>3, <1>5 DEF CallsAscend

(* Steps that change neither what is found nor the stack nor pred.         *)
LEMMA IdleHandles ==
  ASSUME Numbered, CallsAscend, UNCHANGED <<edges, semi, vertex, n, stack>>
  PROVE  CallsAscend' /\ Handled' = Handled
<1>1. Discovered' = Discovered
  BY NumberingUnchanged
<1>2. QED
  BY <1>1 DEF Handled, CallsAscend

------------------------------------------------------------------------------
(* The file of reversed links *)

LEMMA WrittenStep ==
  ASSUME Numbered, Searching, CallsAscend, Written, [Next]_dfsVars
  PROVE  CallsAscend' /\ Written'
<1>1. CASE MapFails \/ UNCHANGED dfsVars
  BY <1>1, IdleHandles, NoMoreWritten DEF MapFails, dfsVars
<1>2. CASE CallRoot
  BY <1>2, CallRootHandles, NoMoreWritten DEF CallRoot
<1>3. CASE Descend
  BY <1>3, DescendHandles, NoMoreWritten DEF Descend
<1>4. CASE Skip
  BY <1>4, SkipHandles, OneMoreWritten DEF Skip, Current, Numbered
<1>5. CASE Return
  BY <1>5, ReturnHandles, OneMoreWritten DEF Return, Numbered
<1>6. CASE ReturnToMain
  BY <1>6, ReturnToMainHandles, NoMoreWritten DEF ReturnToMain
<1>7. QED
  BY <1>1, <1>2, <1>3, <1>4, <1>5, <1>6 DEF Next

------------------------------------------------------------------------------
(* The tree *)

LEMMA AncestorSelf == ASSUME NEW up, NEW v PROVE Ancestor(up, v, v)
BY DEF Ancestor

(* Between a node other than the root and what is above it comes its       *)
(* parent.                                                                 *)
LEMMA AncestorOfParent ==
  ASSUME NEW up, NEW v, NEW x \in Nodes \ {0}
  PROVE  /\ Ancestor(up, v, up[x]) => Ancestor(up, v, x)
         /\ v # x /\ Ancestor(up, v, x) => Ancestor(up, v, up[x])
<1>1. Ancestor(up, v, up[x]) => Ancestor(up, v, x)
  BY DEF Ancestor
<1>2. ASSUME v # x, Ancestor(up, v, x) PROVE Ancestor(up, v, up[x])
  <2>1. SUFFICES ASSUME NEW S \in SUBSET Nodes, up[x] \in S,
                        \A y \in S \ {0} : up[y] \in S
                 PROVE  v \in S
    BY DEF Ancestor
  <2> DEFINE T == S \cup {x}
  <2>2. T \in SUBSET Nodes /\ x \in T
    OBVIOUS
  <2>3. \A y \in T \ {0} : up[y] \in T
    BY <2>1
  <2>4. v \in T
    BY <1>2, <2>2, <2>3 DEF Ancestor
  <2>5. QED
    BY <1>2, <2>4
<1>3. QED
  BY <1>1, <1>2

LEMMA OnlyRootAboveRoot == ASSUME NEW up, NEW v, Ancestor(up, v, 0) PROVE v = 0
<1>1. {0} \in SUBSET Nodes
  BY NodesAreNaturals
<1>2. QED
  BY <1>1 DEF Ancestor

(* What is above a found node stays there when another node is hung in.    *)
LEMMA AncestorKept ==
  ASSUME Numbered, Searching, n # 0, NEW v, NEW w \in Discovered, Ancestor(parent, v, w),
         \A x \in Discovered \ {0} : parent'[x] = parent[x]
  PROVE  Ancestor(parent', v, w)
<1>1. SUFFICES ASSUME NEW S \in SUBSET Nodes, w \in S, \A x \in S \ {0} : parent'[x] \in S
               PROVE  v \in S
  BY DEF Ancestor
<1> DEFINE T == S \cap Discovered
<1>2. T \in SUBSET Nodes /\ w \in T
  BY <1>1
<1>3. \A x \in T \ {0} : parent[x] \in T
  BY <1>1 DEF Searching, ParentTree
<1>4. QED
  BY <1>2, <1>3 DEF Ancestor

(* What a handled link leads to has been found.                            *)
LEMMA HandledLeadsToFound ==
  ASSUME Numbered, Searching, NEW j \in Handled
  PROVE  j \in 1..Len(edges) /\ edges[j].src \in Discovered /\ edges[j].dst \in Discovered
<1>1. j \in 1..Len(edges) /\ edges[j].src \in Discovered
  BY DEF Handled
<1>2. CASE Explored(edges[j].src)
  BY <1>1, <1>2 DEF Explored
<1>3. CASE \E k \in 1..Len(stack) : stack[k].node = edges[j].src
  BY <1>1, <1>3 DEF Handled, Searching, NothingOverlooked
<1>4. QED
  BY <1>1, <1>2, <1>3 DEF Searching, NothingOverlooked

LEMMA CallRootNested ==
  ASSUME Numbered, Searching, CallRoot
  PROVE  Nested'
<1>1. /\ n = 0 /\ edges' = edges /\ Number(0) /\ TypeOK /\ stack' = <<EnteredFrame(0)>>
  BY DEF CallRoot, Numbered
<1>2. Discovered = {} /\ 0 \in Nodes
  BY <1>1, NodesAreNaturals DEF Discovered
<1>3. Discovered' = {0}
  BY <1>1, <1>2, NumberingStep
<1>4. Len(stack') = 1 /\ stack'[1].node = 0
  BY <1>1, <1>2, NewFrame
<1>5. Handled' = {}
  BY CallRootHandles
<1>6. Ancestor(parent', 0, 0)
  BY AncestorSelf
<1>7. QED
  BY <1>3, <1>4, <1>5, <1>6 DEF Nested

LEMMA DescendNested ==
  ASSUME Numbered, Searching, CallsAscend, Nested, Descend
  PROVE  Nested'
<1> DEFINE w == Current.dst
           len == Len(stack)
<1>1. /\ pc = "search" /\ n # 0 /\ edges' = edges /\ TypeOK /\ AtLink
      /\ Undiscovered(w) /\ Number(w)
      /\ parent' = [parent EXCEPT ![w] = Top.node]
  BY DEF Descend, Numbered
<1>2. w \in Nodes \ Discovered /\ w # 0
  BY <1>1, CurrentLink DEF Undiscovered, Discovered
<1>3. /\ Discovered' = Discovered \cup {w}
      /\ semi'[w] = n /\ \A v \in Nodes \ {w} : semi'[v] = semi[v]
  BY <1>1, <1>2, NumberingStep
<1>4. /\ len \in Nat \ {0} /\ Top = stack[len]
      /\ Len(stack') = len + 1
      /\ \A k \in 1..len : stack'[k] = stack[k]
      /\ stack'[len + 1].node = w
  BY <1>1, <1>2, InnermostCall, DescendStack, NewFrame
<1>5. \A k \in 1..len : stack[k].node \in Discovered
  BY DEF Searching, CallsFollowLinks
<1>6. \A v \in Discovered : v \in Nodes /\ semi'[v] = semi[v] /\ semi[v] \in Nat /\ semi[v] < n
  BY <1>2, <1>3, DiscoveredNodes
<1>7. parent'[w] = Top.node /\ \A x \in Discovered \ {0} : parent'[x] = parent[x]
  BY <1>1, <1>2, <1>6 DEF TypeOK
<1>8. ASSUME NEW k \in 1..len PROVE Ancestor(parent, stack[k].node, Top.node)
  <2>1. CASE k = len
    BY <1>4, <2>1, AncestorSelf
  <2>2. CASE k < len
    <3>1. semi[stack[k].node] < semi[Top.node]
      BY <1>4, <2>2 DEF CallsAscend
    <3>2. Top.node \in Discovered /\ stack[k].node \in Discovered
      BY <1>4, <1>5
    <3>3. QED
      BY <1>6, <3>1, <3>2 DEF Nested
  <2>3. QED
    BY <1>4, <2>1, <2>2
<1>9. ASSUME NEW v, NEW x \in Discovered, Ancestor(parent, v, x)
      PROVE  Ancestor(parent', v, x)
  BY <1>1, <1>7, <1>9, AncestorKept
<1>10. ASSUME NEW v, Ancestor(parent, v, Top.node)
       PROVE  Ancestor(parent', v, w)
  <2>1. Top.node \in Discovered
    BY <1>4, <1>5
  <2>2. Ancestor(parent', v, parent'[w])
    BY <1>7, <1>9, <1>10, <2>1
  <2>3. QED
    BY <1>2, <2>2, AncestorOfParent
<1> HIDE DEF w, len
<1>11. ASSUME NEW k \in 1..(len + 1), NEW x \in Discovered', semi'[stack'[k].node] <= semi'[x]
       PROVE  Ancestor(parent', stack'[k].node, x)
  <2>1. CASE k = len + 1
    <3>1. x = w
      BY <1>1, <1>3, <1>4, <1>6, <1>11, <2>1 DEF TypeOK
    <3>2. QED
      BY <1>4, <2>1, <3>1, AncestorSelf
  <2>2. CASE k \in 1..len /\ x = w
    BY <1>4, <1>8, <1>10, <2>2
  <2>3. CASE k \in 1..len /\ x \in Discovered
    <3>1. stack'[k] = stack[k] /\ semi[stack[k].node] <= semi[x]
      BY <1>4, <1>5, <1>6, <1>11, <2>3
    <3>2. Ancestor(parent, stack[k].node, x)
      BY <2>3, <3>1 DEF Nested, len
    <3>3. QED
      BY <1>9, <2>3, <3>1, <3>2
  <2>4. QED
    BY <1>3, <1>4, <2>1, <2>2, <2>3
<1>12. ASSUME NEW j \in Handled', semi'[edges[j].src] < semi'[edges[j].dst]
       PROVE  Ancestor(parent', edges[j].src, edges[j].dst)
  <2>1. j \in Handled
    BY DescendHandles
  <2>2. edges[j].src \in Discovered /\ edges[j].dst \in Discovered
    BY <2>1, HandledLeadsToFound
  <2>3. Ancestor(parent, edges[j].src, edges[j].dst)
    BY <1>6, <1>12, <2>1, <2>2 DEF Nested
  <2>4. QED
    BY <1>9, <2>2, <2>3
<1>13. QED
  BY <1>1, <1>4, <1>11, <1>12 DEF Nested

(* Steps that hang in no node: the handled links may grow by one that the  *)
(* innermost call or its caller has dealt with.                            *)
LEMMA SameTreeNested ==
  ASSUME Numbered, Searching, Nested, UNCHANGED <<edges, semi, vertex, parent, n>>,
         Len(stack') <= Len(stack), \A k \in 1..Len(stack') : stack'[k].node = stack[k].node,
         Len(stack') \in Nat,
         NEW p, Handled' \subseteq Handled \cup {p},
         p \in Handled' \ Handled => \E k \in 1..Len(stack) : edges[p].src = stack[k].node,
         p \in Handled' \ Handled => edges[p].dst \in Discovered
  PROVE  Nested'
<1>1. Discovered' = Discovered /\ Len(stack) \in Nat
  BY NumberingUnchanged, FrameTypes DEF Numbered
<1>2. ASSUME NEW k \in 1..Len(stack'), NEW w \in Discovered, semi[stack'[k].node] <= semi[w]
      PROVE  Ancestor(parent, stack'[k].node, w)
  <2>1. k \in 1..Len(stack) /\ stack'[k].node = stack[k].node
    BY <1>1
  <2>2. QED
    BY <1>2, <2>1 DEF Nested
<1>3. ASSUME NEW j \in Handled', semi[edges[j].src] < semi[edges[j].dst]
      PROVE  Ancestor(parent, edges[j].src, edges[j].dst)
  <2>1. CASE j \in Handled
    BY <1>3, <2>1 DEF Nested
  <2>2. CASE j \notin Handled
    <3>1. PICK k \in 1..Len(stack) : edges[j].src = stack[k].node
      BY <2>2
    <3>2. edges[j].dst \in Discovered /\ stack[k].node \in Discovered
      BY <2>2 DEF Searching, CallsFollowLinks
    <3>3. semi[stack[k].node] <= semi[edges[j].dst]
      BY <1>3, <3>1, <3>2, DiscoveredNodes
    <3>4. QED
      BY <3>1, <3>2, <3>3 DEF Nested
  <2>3. QED
    BY <2>1, <2>2
<1>4. QED
  BY <1>1, <1>2, <1>3 DEF Nested

LEMMA SkipNested ==
  ASSUME Numbered, Searching, CallsAscend, Nested, Skip
  PROVE  Nested'
<1> DEFINE p == Top.ptr
<1>1. /\ pc = "search" /\ TypeOK /\ AtLink /\ ~ Undiscovered(Current.dst) /\ n # 0
      /\ UNCHANGED <<edges, semi, vertex, parent, n>>
  BY DEF Skip, Numbered
<1>2. /\ Len(stack) \in Nat \ {0} /\ Top = stack[Len(stack)] /\ Len(stack') = Len(stack)
      /\ \A k \in 1..Len(stack) : stack'[k].node = stack[k].node
  BY <1>1, InnermostCall, SkipStack
<1>3. edges[p].src = Top.node /\ edges[p].dst \in Discovered
  <2>1. edges[p].dst \in Nodes
    BY <1>1, CurrentLink DEF Current
  <2>2. QED
    BY <1>1, <2>1 DEF AtLink, Current, Undiscovered, Discovered
<1>4. Handled' = Handled \cup {p}
  BY SkipHandles
<1> HIDE DEF p
<1>5. QED
  BY <1>1, <1>2, <1>3, <1>4, SameTreeNested

LEMMA ReturnNested ==
  ASSUME Numbered, Searching, CallsAscend, Nested, Return
  PROVE  Nested'
<1> DEFINE depth == Len(stack) - 1
           p == stack[depth].ptr
<1>1. /\ pc = "search" /\ TypeOK /\ UNCHANGED <<edges, semi, vertex, parent, n>>
  BY DEF Return, Numbered
<1>2. CallsFollowLinks
  BY DEF Searching
<1>3. /\ depth \in Nat \ {0} /\ Len(stack) = depth + 1 /\ Len(stack') = depth
      /\ \A k \in 1..depth : stack'[k].node = stack[k].node
  <2>1. Len(stack) \in Nat \ {0}
    BY <1>1, InnermostCall
  <2>2. /\ Len(stack) - 1 \in 1..Len(stack)
        /\ Len(stack') = Len(stack) - 1
        /\ \A k \in 1..(Len(stack) - 2) : stack'[k] = stack[k]
        /\ stack'[Len(stack) - 1].node = stack[Len(stack) - 1].node
    BY <1>1, <1>2, ReturnStack
  <2>3. \A k \in 1..(Len(stack) - 1) : k \in 1..(Len(stack) - 2) \/ k = Len(stack) - 1
    BY <2>1
  <2>4. QED
    BY <2>1, <2>2, <2>3
<1>4. edges[p].src = stack[depth].node /\ edges[p].dst \in Discovered
  <2>1. depth \in 1..(Len(stack) - 1) /\ depth + 1 \in 1..Len(stack)
    BY <1>3
  <2>2. edges[p] = [src |-> stack[depth].node, dst |-> stack[depth + 1].node]
    BY <1>2, <2>1 DEF CallsFollowLinks
  <2>3. stack[depth + 1].node \in Discovered
    BY <1>2, <2>1 DEF CallsFollowLinks
  <2>4. QED
    BY <2>2, <2>3
<1>5. Handled' = Handled \cup {p}
  BY ReturnHandles
<1> HIDE DEF p, depth
<1>6. QED
  BY <1>1, <1>3, <1>4, <1>5, SameTreeNested

LEMMA NestedStep ==
  ASSUME Numbered, Searching, CallsAscend, Nested, [Next]_dfsVars
  PROVE  Nested'
<1>1. CASE MapFails \/ UNCHANGED dfsVars
  <2>1. UNCHANGED <<edges, semi, vertex, parent, n, stack>> /\ Len(stack) \in Nat
    BY <1>1, FrameTypes DEF MapFails, dfsVars, Numbered
  <2>2. Handled' = Handled
    BY <2>1, IdleHandles
  <2>3. QED
    BY <2>1, <2>2, SameTreeNested
<1>2. CASE ReturnToMain
  <2>1. /\ UNCHANGED <<edges, semi, vertex, parent, n>>
        /\ Len(stack') = 0 /\ Len(stack) = 1
    BY <1>2, EmptySeq DEF ReturnToMain
  <2>2. Handled' = Handled
    BY <1>2, ReturnToMainHandles
  <2>3. QED
    BY <2>1, <2>2, SameTreeNested
<1>3. QED
  BY <1>1, <1>2, CallRootNested, DescendNested, SkipNested, ReturnNested DEF Next

(* TreePath, a recursive function, is what it says: such a function exists *)
(* whatever parent is.                                                     *)
LEMMA TreePathRecursion ==
  ASSUME Numbered
  PROVE  /\ TreePath(0) = {0}
         /\ \A x \in Nodes \ {0} : TreePath(x) = {x} \cup TreePath(parent[x])
<1> DEFINE Step(f) == [x \in Nodes |-> IF x = 0 THEN {0} ELSE {x} \cup f[parent[x]]]
           above == [x \in Nodes |-> {v \in Nodes : Ancestor(parent, v, x)}]
           path == CHOOSE f : f = Step(f)
<1>1. parent \in [Nodes -> Nodes] /\ 0 \in Nodes
  BY NodesAreNaturals DEF Numbered, TypeOK
<1>2. above = Step(above)
  <2>1. above[0] = {0}
    BY <1>1, OnlyRootAboveRoot, AncestorSelf
  <2>2. ASSUME NEW x \in Nodes \ {0}
        PROVE  above[x] = {x} \cup above[parent[x]]
    <3>1. \A v \in Nodes : Ancestor(parent, v, x) <=> v = x \/ Ancestor(parent, v, parent[x])
      BY AncestorOfParent, AncestorSelf
    <3>2. parent[x] \in Nodes
      BY <1>1
    <3>3. QED
      BY <3>1, <3>2
  <2> HIDE DEF above
  <2>3. \A x \in Nodes : above[x] = IF x = 0 THEN {0} ELSE {x} \cup above[parent[x]]
    BY <2>1, <2>2
  <2>4. above = [x \in Nodes |-> above[x]]
    BY DEF above
  <2>5. QED
    BY <2>3, <2>4
<1>3. path = Step(path)
  BY <1>2
<1>4. \A v : TreePath(v) = path[v]
  BY DEF TreePath
<1> HIDE DEF path
<1>5. \A x \in Nodes : path[x] = IF x = 0 THEN {0} ELSE {x} \cup path[parent[x]]
  BY <1>3
<1>6. QED
  BY <1>1, <1>4, <1>5

(* What is above a found node is on its tree path: the numbers get smaller *)
(* on the way, so the way ends.                                            *)
LEMMA AncestorOnPath ==
  ASSUME Numbered, Searching, NEW v, NEW w \in Discovered, Ancestor(parent, v, w)
  PROVE  v \in TreePath(w)
<1> DEFINE Missed == {x \in Discovered : Ancestor(parent, v, x) /\ v \notin TreePath(x)}
<1>1. SUFFICES ASSUME Missed # {} PROVE FALSE
  OBVIOUS
<1>2. \A x \in Discovered : x \in Nodes /\ semi[x] \in Nat
  BY DiscoveredNodes
<1>3. PICK x \in Missed : \A y \in Missed : semi[x] <= semi[y]
  <2> DEFINE T == {semi[y] : y \in Missed}
  <2>1. T \subseteq Nat /\ T # {}
    BY <1>1, <1>2
  <2> HIDE DEF T
  <2>2. PICK m \in T : \A k \in T : m <= k
    BY <2>1, LeastElement
  <2>3. QED
    BY <2>2 DEF T
<1>4. CASE x = 0
  BY <1>3, <1>4, OnlyRootAboveRoot, TreePathRecursion
<1>5. CASE x # 0
  <2>1. x \in Nodes \ {0} /\ TreePath(x) = {x} \cup TreePath(parent[x])
    BY <1>2, <1>5, TreePathRecursion
  <2>2. parent[x] \in Discovered /\ semi[parent[x]] < semi[x]
    BY <1>5 DEF Searching, ParentTree
  <2>3. v # x /\ v \notin TreePath(parent[x])
    BY <2>1
  <2>4. Ancestor(parent, v, parent[x])
    BY <2>1, <2>3, AncestorOfParent
  <2>5. parent[x] \in Missed
    BY <2>2, <2>3, <2>4
  <2>6. QED
    BY <1>2, <1>3, <2>2, <2>5
<1>6. QED
  BY <1>4, <1>5

------------------------------------------------------------------------------
(* The theorems *)

(* At every moment of the search pred holds the links dealt with, each of  *)
(* them once (dfs.cc:51-71).                                               *)
THEOREM WrittenInvariance == Spec => [](CallsAscend /\ Written)
<1>1. Init => CallsAscend /\ Written
  BY LinksInit
<1>2. Numbered /\ Searching /\ (CallsAscend /\ Written) /\ [Next]_dfsVars
      => (CallsAscend /\ Written)'
  BY WrittenStep
<1>3. QED
  BY <1>1, <1>2, Invariance, PTL DEF Spec

(* Different positions of a sorted file hold different links.              *)
LEMMA LinksDiffer ==
  ASSUME TypeOK, NEW k \in 1..Len(edges), NEW j \in 1..Len(edges), edges[k] = edges[j]
  PROVE  k = j
<1>1. ASSUME NEW l \in 1..Len(edges), NEW m \in 1..Len(edges), l < m
      PROVE  edges[l] # edges[m]
  <2>1. LinkLess(edges[l], edges[m])
    BY <1>1 DEF TypeOK, StrictlySorted
  <2>2. \A h \in 1..Len(edges) : edges[h].src \in Nat /\ edges[h].dst \in Nat
    BY LinkTypes, NodesAreNaturals
  <2>3. QED
    BY <2>1, <2>2 DEF LinkLess
<1>2. k \in Int /\ j \in Int
  BY LinkTypes
<1>3. QED
  BY <1>1, <1>2

(* What has been written when the search is done. *)
LEMMA WrittenIsReversed == Numbered /\ Written => PredIsReversedGraph
<1> DEFINE kept == {e \in LinksOf(edges) : e.src \in Discovered}
           at == [j \in Handled |-> edges[j]]
<1>1. SUFFICES ASSUME Numbered, Written, pc = "done"
               PROVE  /\ LinksOf(pred) = {[src |-> e.dst, dst |-> e.src] : e \in kept}
                      /\ Len(pred) = Cardinality(kept)
  BY DEF PredIsReversedGraph
<1>2. TypeOK /\ Len(stack) = 0
  BY <1>1, EmptySeq DEF Numbered, TypeOK
<1>3. Handled = {j \in 1..Len(edges) : edges[j].src \in Discovered}
  BY <1>2 DEF Handled
<1>4. kept = {edges[j] : j \in Handled}
  BY <1>3 DEF LinksOf
<1> HIDE DEF kept
<1>5. LinksOf(pred) = {[src |-> e.dst, dst |-> e.src] : e \in kept}
  BY <1>1, <1>4 DEF Written, Reversed
<1>6. at \in Bijection(Handled, kept)
  <2>1. at \in [Handled -> kept]
    BY <1>4
  <2>2. \A k, j \in Handled : at[k] = at[j] => k = j
    BY <1>2, LinksDiffer DEF Handled
  <2>3. \A e \in kept : \E j \in Handled : at[j] = e
    BY <1>4
  <2> HIDE DEF at
  <2>4. QED
    BY <2>1, <2>2, <2>3, Fun_IsBij
<1>7. Cardinality(kept) = Cardinality(Handled)
  <2>1. ExistsBijection(Handled, kept)
    BY <1>6 DEF ExistsBijection
  <2>2. QED
    BY <1>2, <2>1, HandledFinite, FS_Bijection
<1>8. QED
  BY <1>1, <1>5, <1>7 DEF Written

(* When dfs has ended, pred is the graph of what it found, reversed, with  *)
(* every link in it once (dfs.cc:64-67).                                   *)
THEOREM PredComplete == Spec => []PredIsReversedGraph
<1>1. Numbered /\ Written => PredIsReversedGraph
  BY WrittenIsReversed
<1>2. QED
  BY <1>1, Invariance, WrittenInvariance, PTL

(* The nodes below a node have consecutive numbers. *)
Contiguous ==
  \A t, r \in Discovered : Ancestor(parent, t, r) =>
    \A w \in Discovered : semi[t] <= semi[w] /\ semi[w] <= semi[r] => Ancestor(parent, t, w)

(* What is above a node stays above what is below it. *)
LEMMA AncestorTransitive ==
  ASSUME NEW up, NEW u, NEW v, NEW w, Ancestor(up, u, v), Ancestor(up, v, w)
  PROVE  Ancestor(up, u, w)
BY DEF Ancestor

LEMMA AncestorNotNew ==
  ASSUME Numbered, Searching, n # 0, NEW v, NEW w \in Discovered, Ancestor(parent', v, w),
         \A x \in Discovered \ {0} : parent'[x] = parent[x]
  PROVE  Ancestor(parent, v, w)
<1>1. SUFFICES ASSUME NEW S \in SUBSET Nodes, w \in S, \A x \in S \ {0} : parent[x] \in S
               PROVE  v \in S
  BY DEF Ancestor
<1> DEFINE T == S \cap Discovered
<1>2. T \in SUBSET Nodes /\ w \in T
  BY <1>1
<1>3. \A x \in T \ {0} : parent'[x] \in T
  BY <1>1 DEF Searching, ParentTree
<1>4. QED
  BY <1>2, <1>3 DEF Ancestor

LEMMA DescendContiguous ==
  ASSUME Numbered, Searching, CallsAscend, Nested, Nested', Contiguous, Descend
  PROVE  Contiguous'
<1> DEFINE w == Current.dst
           len == Len(stack)
<1>1. /\ pc = "search" /\ n # 0 /\ edges' = edges /\ TypeOK /\ AtLink
      /\ Undiscovered(w) /\ Number(w)
      /\ parent' = [parent EXCEPT ![w] = Top.node]
  BY DEF Descend, Numbered
<1>2. w \in Nodes \ Discovered /\ w # 0
  BY <1>1, CurrentLink DEF Undiscovered, Discovered
<1>3. /\ Discovered' = Discovered \cup {w}
      /\ semi'[w] = n /\ \A v \in Nodes \ {w} : semi'[v] = semi[v]
  BY <1>1, <1>2, NumberingStep
<1>4. len \in 1..len /\ Top = stack[len] /\ Top.node \in Discovered
  BY <1>1, InnermostCall DEF Searching, CallsFollowLinks
<1>5. \A v \in Discovered : v \in Nodes /\ semi'[v] = semi[v] /\ semi[v] \in Nat /\ semi[v] < n
  BY <1>2, <1>3, DiscoveredNodes
<1>6. parent'[w] = Top.node /\ \A x \in Discovered \ {0} : parent'[x] = parent[x]
  BY <1>1, <1>2, <1>5 DEF TypeOK
<1>7. n \in Nat
  BY <1>1 DEF TypeOK
<1> HIDE DEF w, len
<1>8. \A t, r \in Discovered : Ancestor(parent', t, r) <=> Ancestor(parent, t, r)
  BY <1>1, <1>6, AncestorKept, AncestorNotNew
<1>9. SUFFICES ASSUME NEW t \in Discovered', NEW r \in Discovered', NEW x \in Discovered',
                      Ancestor(parent', t, r), semi'[t] <= semi'[x], semi'[x] <= semi'[r]
               PROVE  Ancestor(parent', t, x)
  BY DEF Contiguous
<1>10. CASE t = w \/ x = t
  <2>1. x = t
    BY <1>3, <1>5, <1>7, <1>9, <1>10
  <2>2. QED
    BY <2>1, AncestorSelf
<1>11. CASE t # w /\ r # w
  <2>1. x \in Discovered /\ t \in Discovered /\ r \in Discovered
    BY <1>3, <1>5, <1>7, <1>9, <1>11
  <2>2. QED
    BY <1>5, <1>8, <1>9, <2>1 DEF Contiguous
<1>12. CASE t # w /\ r = w
  <2>1. t \in Discovered
    BY <1>3, <1>12
  <2>2. Ancestor(parent', t, Top.node)
    BY <1>2, <1>6, <1>9, <1>12, AncestorOfParent
  <2>3. CASE x = w
    BY <1>9, <1>12, <2>3
  <2>4. CASE x \in Discovered /\ semi[x] <= semi[Top.node]
    BY <1>4, <1>5, <1>8, <1>9, <2>1, <2>2, <2>4 DEF Contiguous
  <2>5. CASE x \in Discovered /\ semi[Top.node] <= semi[x]
    <3>1. Ancestor(parent, Top.node, x)
      BY <1>4, <2>5 DEF Nested, len
    <3>2. Ancestor(parent', Top.node, x)
      BY <1>4, <1>8, <2>5, <3>1
    <3>3. QED
      BY <2>2, <3>2, AncestorTransitive
  <2>6. x = w \/ (semi[x] \in Nat /\ semi[Top.node] \in Nat)
    BY <1>3, <1>4, <1>5
  <2>7. QED
    BY <1>3, <2>3, <2>4, <2>5, <2>6
<1>13. QED
  BY <1>10, <1>11, <1>12

LEMMA ContiguousStep ==
  ASSUME Numbered, Searching, CallsAscend, Nested, Nested', Contiguous, [Next]_dfsVars
  PROVE  Contiguous'
<1>1. CASE CallRoot
  <2>1. /\ n = 0 /\ Number(0)
    BY <1>1 DEF CallRoot, Numbered
  <2>2. Discovered = {} /\ 0 \in Nodes
    BY <2>1, NodesAreNaturals DEF Discovered
  <2>3. Discovered' = {0}
    BY <2>1, <2>2, NumberingStep
  <2>4. QED
    BY <2>3, AncestorSelf DEF Contiguous
<1>2. CASE UNCHANGED <<semi, vertex, parent, n>>
  <2>1. Discovered' = Discovered
    BY <1>2, NumberingUnchanged
  <2>2. QED
    BY <1>2, <2>1 DEF Contiguous
<1>3. QED
  BY <1>1, <1>2, DescendContiguous
  DEF Next, MapFails, Skip, Return, ReturnToMain, dfsVars

------------------------------------------------------------------------------
(* The invariant as a whole, for the programs that come after dfs *)

SearchInvariant ==
  Numbered /\ Searching /\ CallsAscend /\ Written /\ Nested /\ Contiguous

LEMMA SearchInvariantInit == Init => SearchInvariant
<1>1. Init => Discovered = {}
  BY DEF Init, Discovered
<1>2. QED
  BY <1>1, NumberedInit, SearchingInit, LinksInit DEF SearchInvariant, Contiguous

LEMMA SearchInvariantStep ==
  ASSUME SearchInvariant, [Next]_dfsVars
  PROVE  SearchInvariant'
<1>1. Numbered' /\ Searching' /\ CallsAscend' /\ Written'
  BY NumberedStep, SearchingStep, WrittenStep DEF SearchInvariant, Searching
<1>2. Nested'
  BY NestedStep DEF SearchInvariant
<1>3. Contiguous'
  BY <1>2, ContiguousStep DEF SearchInvariant
<1>4. QED
  BY <1>1, <1>2, <1>3 DEF SearchInvariant

------------------------------------------------------------------------------
(* The theorems about links *)

(* At every moment of the search what was found since an active call began *)
(* is below it in the tree (dfs.cc:53-71).                                 *)
THEOREM NestedInvariance == Spec => []Nested
<1>1. Init => Nested
  BY LinksInit
<1>2. Numbered /\ Searching /\ (CallsAscend /\ Written) /\ Nested /\ [Next]_dfsVars => Nested'
  BY NestedStep
<1>3. QED
  BY <1>1, <1>2, Invariance, WrittenInvariance, PTL DEF Spec

(* The shape of the numbers when the search is done. *)
LEMMA NestedIsDepthFirst == Numbered /\ Searching /\ Nested => NoForwardCrossLink
<1>1. SUFFICES ASSUME Numbered, Searching, Nested, pc = "done",
                      NEW e \in LinksOf(edges), e.src \in Discovered,
                      semi[e.src] < semi[e.dst]
               PROVE  e.src \in TreePath(e.dst)
  BY DEF NoForwardCrossLink
<1>2. PICK j \in 1..Len(edges) : e = edges[j]
  BY DEF LinksOf
<1>3. Len(stack) = 0
  BY <1>1, EmptySeq DEF Numbered, TypeOK
<1>4. j \in Handled
  BY <1>1, <1>2, <1>3 DEF Handled
<1>5. e.dst \in Discovered
  BY <1>1, <1>2, <1>4, HandledLeadsToFound
<1>6. Ancestor(parent, e.src, e.dst)
  BY <1>1, <1>2, <1>4 DEF Nested
<1>7. QED
  BY <1>1, <1>5, <1>6, AncestorOnPath

(* When dfs has ended, a link to a larger number leads down the tree: the  *)
(* property of depth-first numbers that dominate is built on               *)
(* (dfs.cc:53-71).                                                         *)
THEOREM DepthFirst == Spec => []NoForwardCrossLink
<1>1. Numbered /\ Searching /\ Nested => NoForwardCrossLink
  BY NestedIsDepthFirst
<1>2. QED
  BY <1>1, Invariance, NestedInvariance, PTL

------------------------------------------------------------------------------
(* Sums over finite sets *)

(* Sum, for a function instead of an operator. *)
SumOver(S, f) == Sum(S, LAMBDA w : f[w])

(* Among the things with a number there is one with the smallest.          *)
LEMMA LeastValue ==
  ASSUME NEW S, S # {}, NEW f, \A x \in S : f[x] \in Nat
  PROVE  \E x \in S : \A y \in S : f[x] <= f[y]
<1> DEFINE T == {f[x] : x \in S}
<1>1. T \subseteq Nat /\ T # {}
  OBVIOUS
<1> HIDE DEF T
<1>2. PICK m \in T : \A k \in T : m <= k
  BY <1>1, LeastElement
<1>3. QED
  BY <1>2 DEF T

LEMMA SmallestSet ==
  ASSUME NEW S, S # {}, \A s \in S : IsFiniteSet(s)
  PROVE  \E s \in S : \A t \in S : Cardinality(s) <= Cardinality(t)
<1> DEFINE f == [s \in S |-> Cardinality(s)]
<1>1. \A s \in S : f[s] = Cardinality(s) /\ f[s] \in Nat
  BY FS_CardinalityType
<1> HIDE DEF f
<1>2. PICK s \in S : \A t \in S : f[s] <= f[t]
  BY <1>1, LeastValue
<1>3. QED
  BY <1>1, <1>2

(* f has numbers for the elements of U, and g has their sums.              *)
Numbers(f, U) == \A x \in U : f[x] \in Nat

Sums(g, f, U) ==
  /\ \A s \in SUBSET U : g[s] \in Nat
  /\ g[{}] = 0
  /\ \A s \in SUBSET U : \A x \in s : g[s] = f[x] + g[s \ {x}]

(* There is a function that sums up, whichever element is taken first.     *)
LEMMA SumExists ==
  ASSUME NEW U, IsFiniteSet(U), NEW f, Numbers(f, U)
  PROVE  \E g : Sums(g, f, U)
<1> DEFINE SumsTo(g, k) ==
             /\ g[{}] = 0
             /\ \A s \in SUBSET U : Cardinality(s) <= k =>
                  \A x \in s : g[s] = f[x] + g[s \ {x}]
           Bad == {k \in Nat : ~ \E g \in [SUBSET U -> Nat] : SumsTo(g, k)}
<1>0. \A x \in U : f[x] \in Nat
  BY DEF Numbers
<1>1. \A s \in SUBSET U : /\ IsFiniteSet(s) /\ Cardinality(s) \in Nat
                          /\ Cardinality(s) <= Cardinality(U)
                          /\ (Cardinality(s) = 0 <=> s = {})
                          /\ \A x \in s : Cardinality(s \ {x}) = Cardinality(s) - 1
  BY FS_Subset, FS_CardinalityType, FS_EmptySet, FS_RemoveElement
<1>2. 0 \notin Bad
  <2> DEFINE g == [s \in SUBSET U |-> 0]
  <2>1. g \in [SUBSET U -> Nat] /\ g[{}] = 0
    OBVIOUS
  <2>2. \A s \in SUBSET U : Cardinality(s) <= 0 => s = {}
    BY <1>1
  <2> HIDE DEF g
  <2>3. SumsTo(g, 0)
    BY <2>1, <2>2
  <2>4. QED
    BY <2>1, <2>3
<1>3. ASSUME NEW k \in Nat, k \notin Bad PROVE k + 1 \notin Bad
  <2>1. PICK g \in [SUBSET U -> Nat] : SumsTo(g, k)
    BY <1>3
  <2> DEFINE c(s) == CHOOSE x \in s : TRUE
             h == [s \in SUBSET U |->
                     IF Cardinality(s) <= k THEN g[s]
                     ELSE IF s = {} THEN 0 ELSE f[c(s)] + g[s \ {c(s)}]]
  <2>2. \A s \in SUBSET U : s # {} => c(s) \in s
    OBVIOUS
  <2>3. h \in [SUBSET U -> Nat]
    <3>1. ASSUME NEW s \in SUBSET U, s # {} PROVE f[c(s)] + g[s \ {c(s)}] \in Nat
      <4>1. c(s) \in U /\ s \ {c(s)} \in SUBSET U
        BY <2>2, <3>1
      <4> HIDE DEF c
      <4>2. QED
        BY <1>0, <4>1
    <3> HIDE DEF c
    <3>2. QED
      BY <3>1
  <2>4. \A s \in SUBSET U : Cardinality(s) <= k => h[s] = g[s]
    OBVIOUS
  <2>5. ASSUME NEW s \in SUBSET U, Cardinality(s) = k + 1
        PROVE  s # {} /\ h[s] = f[c(s)] + g[s \ {c(s)}]
    BY <1>1, <2>5
  <2> HIDE DEF h, c
  <2>6. h[{}] = 0
    BY <1>1, <2>1, <2>4
  <2>7. ASSUME NEW s \in SUBSET U, Cardinality(s) <= k + 1, NEW x \in s
        PROVE  h[s] = f[x] + h[s \ {x}]
    <3>1. /\ s \ {x} \in SUBSET U /\ Cardinality(s \ {x}) = Cardinality(s) - 1
          /\ Cardinality(s) \in Nat
      BY <1>1
    <3>2. h[s \ {x}] = g[s \ {x}]
      BY <2>4, <2>7, <3>1
    <3>3. CASE Cardinality(s) <= k
      BY <2>1, <2>4, <3>2, <3>3
    <3>4. CASE Cardinality(s) = k + 1
      <4> DEFINE y == c(s)
      <4>1. y \in s /\ y \in U /\ x \in U /\ h[s] = f[y] + g[s \ {y}]
        BY <2>2, <2>5, <3>4
      <4> HIDE DEF y
      <4>2. CASE x = y
        BY <3>2, <4>1, <4>2
      <4>3. CASE x # y
        <5>1. /\ s \ {y} \in SUBSET U /\ Cardinality(s \ {y}) <= k /\ x \in s \ {y}
              /\ Cardinality(s \ {x}) <= k /\ y \in s \ {x}
          BY <1>1, <3>1, <3>4, <4>1, <4>3
        <5>2. g[s \ {y}] = f[x] + g[(s \ {y}) \ {x}] /\ g[s \ {x}] = f[y] + g[(s \ {x}) \ {y}]
          BY <2>1, <3>1, <5>1
        <5> DEFINE z == (s \ {y}) \ {x}
        <5>3. (s \ {x}) \ {y} = z /\ z \in SUBSET U
          OBVIOUS
        <5>4. f[x] \in Nat /\ f[y] \in Nat /\ g[z] \in Nat
          BY <1>0, <4>1, <5>3
        <5>5. g[s \ {y}] = f[x] + g[z] /\ g[s \ {x}] = f[y] + g[z]
          BY <5>2, <5>3
        <5> HIDE DEF z
        <5>6. QED
          BY <3>2, <4>1, <5>4, <5>5
      <4>4. QED
        BY <4>2, <4>3
    <3>5. QED
      BY <2>7, <3>1, <3>3, <3>4
  <2>8. SumsTo(h, k + 1)
    BY <2>6, <2>7
  <2>9. QED
    BY <2>3, <2>8
<1> HIDE DEF Bad
<1>4. Bad = {}
  <2>1. SUFFICES ASSUME Bad # {} PROVE FALSE
    OBVIOUS
  <2>2. Bad \subseteq Nat
    BY DEF Bad
  <2>3. PICK m \in Bad : \A k \in Bad : m <= k
    BY <2>1, <2>2, LeastElement
  <2>4. m - 1 \in Nat /\ m - 1 \notin Bad
    BY <1>2, <2>2, <2>3
  <2>5. QED
    BY <1>3, <2>2, <2>3, <2>4
<1>5. Cardinality(U) \in Nat
  BY FS_CardinalityType
<1>6. PICK g \in [SUBSET U -> Nat] : SumsTo(g, Cardinality(U))
  BY <1>4, <1>5 DEF Bad
<1>7. Sums(g, f, U)
  BY <1>1, <1>6 DEF Sums
<1>8. QED
  BY <1>7

LEMMA SumUnfolds ==
  ASSUME NEW S, NEW f
  PROVE  SumOver(S, f) =
           (CHOOSE g : g = [s \in SUBSET S |->
              IF s = {} THEN 0
              ELSE f[CHOOSE x \in s : TRUE] + g[s \ {CHOOSE x \in s : TRUE}]])[S]
BY DEF SumOver, Sum, MapThenSumSet, MapThenFoldSet

(* The sum is the value of any such function.                              *)
LEMMA SumIsUnique ==
  ASSUME NEW U, IsFiniteSet(U), NEW f, Numbers(f, U), NEW g, Sums(g, f, U), NEW S \in SUBSET U
  PROVE  SumOver(S, f) = g[S]
<1> DEFINE c(s) == CHOOSE x \in s : TRUE
           Step(h) == [s \in SUBSET S |-> IF s = {} THEN 0 ELSE f[c(s)] + h[s \ {c(s)}]]
           sum == CHOOSE h : h = Step(h)
           part == [s \in SUBSET S |-> g[s]]
<1>0. /\ \A s \in SUBSET S : \A x \in s : g[s] = f[x] + g[s \ {x}]
      /\ g[{}] = 0 /\ \A x \in U : f[x] \in Nat
  BY DEF Sums, Numbers
<1>1. \A s \in SUBSET S : s # {} => c(s) \in s
  OBVIOUS
<1>2. SumOver(S, f) = sum[S]
  BY SumUnfolds
<1> HIDE DEF c
<1>3. part = Step(part)
  <2>1. ASSUME NEW s \in SUBSET S
        PROVE  part[s] = IF s = {} THEN 0 ELSE f[c(s)] + part[s \ {c(s)}]
    BY <1>0, <1>1
  <2>2. QED
    BY <2>1
<1>4. sum = Step(sum)
  BY <1>3
<1> HIDE DEF sum
<1>5. \A s \in SUBSET S : sum[s] = IF s = {} THEN 0 ELSE f[c(s)] + sum[s \ {c(s)}]
  BY <1>4
<1> DEFINE Bad == {s \in SUBSET S : sum[s] # g[s]}
<1>6. \A s \in SUBSET S : /\ IsFiniteSet(s) /\ Cardinality(s) \in Nat
                          /\ \A x \in s : Cardinality(s \ {x}) = Cardinality(s) - 1
  BY FS_Subset, FS_CardinalityType, FS_RemoveElement
<1>7. Bad = {}
  <2>1. SUFFICES ASSUME Bad # {} PROVE FALSE
    OBVIOUS
  <2>2. \A s \in Bad : IsFiniteSet(s)
    BY <1>6
  <2>3. PICK s \in Bad : \A t \in Bad : Cardinality(s) <= Cardinality(t)
    <3> HIDE DEF Bad
    <3>1. QED
      BY <2>1, <2>2, SmallestSet
  <2>4. s \in SUBSET S /\ sum[s] # g[s]
    OBVIOUS
  <2>5. s # {}
    BY <1>0, <1>5, <2>4
  <2> DEFINE r == s \ {c(s)}
  <2>6. c(s) \in s /\ r \in SUBSET S
    BY <1>1, <2>4, <2>5
  <2>7. Cardinality(r) = Cardinality(s) - 1 /\ Cardinality(s) \in Nat
    BY <1>6, <2>4, <2>6
  <2>8. r \notin Bad
    <3> HIDE DEF Bad, r
    <3>1. QED
      BY <2>3, <2>7
  <2>9. g[s] = f[c(s)] + g[r] /\ sum[s] = f[c(s)] + sum[r]
    BY <1>0, <1>5, <2>4, <2>5, <2>6
  <2>10. QED
    BY <2>4, <2>6, <2>8, <2>9
<1>8. QED
  BY <1>2, <1>7

(* Sums of disjoint sets add up, and larger sets have larger sums.         *)
AddsUp(f, U) ==
  /\ SumOver({}, f) = 0
  /\ \A s \in SUBSET U : SumOver(s, f) \in Nat
  /\ \A s \in SUBSET U : \A x \in U \ s : SumOver(s \cup {x}, f) = SumOver(s, f) + f[x]
  /\ \A s, t \in SUBSET U :
       s \cap t = {} => SumOver(s \cup t, f) = SumOver(s, f) + SumOver(t, f)
  /\ \A s, t \in SUBSET U : s \subseteq t => SumOver(s, f) <= SumOver(t, f)

LEMMA SumLaws ==
  ASSUME NEW U, IsFiniteSet(U), NEW f, Numbers(f, U)
  PROVE  AddsUp(f, U)
<1>1. PICK g : Sums(g, f, U)
  BY SumExists
<1>2. ASSUME NEW s \in SUBSET U PROVE SumOver(s, f) = g[s]
  BY <1>1, SumIsUnique
<1>0. /\ \A s \in SUBSET U : g[s] \in Nat
      /\ g[{}] = 0
      /\ \A s \in SUBSET U : \A x \in s : g[s] = f[x] + g[s \ {x}]
      /\ \A x \in U : f[x] \in Nat
  BY <1>1 DEF Sums, Numbers
<1>3. \A s \in SUBSET U : /\ IsFiniteSet(s) /\ Cardinality(s) \in Nat
                          /\ \A x \in s : Cardinality(s \ {x}) = Cardinality(s) - 1
  BY FS_Subset, FS_CardinalityType, FS_RemoveElement
<1>4. ASSUME NEW s \in SUBSET U, NEW x \in U \ s PROVE g[s \cup {x}] = g[s] + f[x]
  <2>1. s \cup {x} \in SUBSET U /\ x \in s \cup {x} /\ (s \cup {x}) \ {x} = s
    BY <1>4
  <2>2. g[s \cup {x}] = f[x] + g[s]
    BY <1>0, <2>1
  <2>3. f[x] \in Nat /\ g[s] \in Nat
    BY <1>0
  <2>4. QED
    BY <2>2, <2>3
<1>5. ASSUME NEW s \in SUBSET U
      PROVE  \A t \in SUBSET U : s \cap t = {} => g[s \cup t] = g[s] + g[t]
  <2> DEFINE Bad == {t \in SUBSET U : s \cap t = {} /\ g[s \cup t] # g[s] + g[t]}
  <2>1. SUFFICES ASSUME Bad # {} PROVE FALSE
    OBVIOUS
  <2>2. \A t \in Bad : IsFiniteSet(t)
    BY <1>3
  <2>3. PICK t \in Bad : \A r \in Bad : Cardinality(t) <= Cardinality(r)
    <3> HIDE DEF Bad
    <3>1. QED
      BY <2>1, <2>2, SmallestSet
  <2>5. t \in SUBSET U /\ s \cap t = {} /\ g[s \cup t] # g[s] + g[t]
    OBVIOUS
  <2>6. t # {}
    <3>1. ASSUME t = {} PROVE FALSE
      <4>1. s \cup t = s
        BY <3>1
      <4>2. QED
        BY <1>0, <2>5, <3>1, <4>1
    <3>2. QED
      BY <3>1
  <2>7. PICK x \in t : TRUE
    BY <2>6
  <2> DEFINE r == t \ {x}
  <2>8. r \in SUBSET U /\ s \cap r = {} /\ Cardinality(r) < Cardinality(t)
    BY <1>3, <2>5
  <2>9. r \notin Bad
    <3>1. Cardinality(r) \in Nat /\ Cardinality(t) \in Nat
      BY <1>3, <2>5, <2>8
    <3> HIDE DEF Bad, r
    <3>2. QED
      BY <2>3, <2>8, <3>1
  <2>10. g[s \cup r] = g[s] + g[r]
    BY <2>8, <2>9
  <2>11. /\ x \in U \ (s \cup r) /\ s \cup r \in SUBSET U /\ x \in U \ r
         /\ s \cup t = (s \cup r) \cup {x} /\ t = r \cup {x}
    BY <2>5
  <2>12. g[s \cup t] = g[s \cup r] + f[x] /\ g[t] = g[r] + f[x]
    <3> HIDE DEF r
    <3>1. QED
      BY <1>4, <2>8, <2>11
  <2>13. f[x] \in Nat /\ g[s] \in Nat /\ g[r] \in Nat
    BY <1>0, <2>8, <2>11
  <2> HIDE DEF r
  <2>14. QED
    BY <2>5, <2>10, <2>12, <2>13
<1>6. ASSUME NEW s \in SUBSET U, NEW t \in SUBSET U, s \subseteq t PROVE g[s] <= g[t]
  <2>1. t \ s \in SUBSET U /\ s \cap (t \ s) = {} /\ s \cup (t \ s) = t
    BY <1>6
  <2>2. g[t] = g[s] + g[t \ s]
    BY <1>5, <2>1
  <2>3. g[s] \in Nat /\ g[t \ s] \in Nat
    BY <1>0, <2>1
  <2>4. QED
    BY <2>2, <2>3
<1>7. \A s, t \in SUBSET U : s \cup t \in SUBSET U
  OBVIOUS
<1>8. \A s \in SUBSET U : \A x \in U \ s : s \cup {x} \in SUBSET U
  OBVIOUS
<1>9. QED
  BY <1>0, <1>2, <1>4, <1>5, <1>6, <1>7, <1>8 DEF AddsUp

------------------------------------------------------------------------------
(* What dfs leaves behind *)

(* The nodes with a number, and their numbers, read from vertex and n,     *)
(* which no later program changes; semi begins as these numbers.           *)
Found == {vertex[j] : j \in 0..(n - 1)}

num == [v \in Nodes |-> IF v \in Found THEN CHOOSE j \in 0..(n - 1) : vertex[j] = v ELSE 0]

Above(v, w) == Ancestor(parent, v, w)

Numbering ==
  /\ n \in 1..NumNodes
  /\ vertex \in [Nodes -> Nodes] /\ vertex[0] = 0
  /\ \A j \in Nodes : j >= n => vertex[j] = 0
  /\ \A j \in 0..(n - 1) : num[vertex[j]] = j

Tree ==
  /\ links \subseteq Links(Nodes)
  /\ parent \in [Nodes -> Nodes]
  /\ Found = Reached
  /\ \A v \in Found \ {0} :
       /\ parent[v] \in Found
       /\ num[parent[v]] < num[v]
       /\ [src |-> parent[v], dst |-> v] \in links
  /\ \A e \in links :
       e.src \in Found /\ num[e.src] < num[e.dst] => Above(e.src, e.dst)
  /\ \A t, r \in Found : Above(t, r) =>
       \A w \in Found : num[t] <= num[w] /\ num[w] <= num[r] => Above(t, w)

(* The reversed links, as dfs wrote them. *)
Kept == {e \in links : e.src \in Found}

Finished == Numbering /\ Tree

LEMMA FoundNodes ==
  ASSUME Numbering
  PROVE  /\ Found \subseteq Nodes /\ 0 \in Found
         /\ num \in [Nodes -> 0..(n - 1)]
         /\ num[0] = 0
         /\ \A v \in Found : vertex[num[v]] = v
         /\ \A j \in 0..(n - 1) : j \in Nodes /\ vertex[j] \in Found
         /\ \A v \in Found \ {0} : num[v] \in 1..(n - 1)
<1>1. 0..(n - 1) \subseteq Nodes /\ 0 \in 0..(n - 1) /\ n \in Nat
  BY NumNodesAssumption DEF Numbering, Nodes
<1>2. Found \subseteq Nodes /\ 0 \in Found
  BY <1>1 DEF Numbering, Found
<1>3. \A v \in Found : num[v] \in 0..(n - 1) /\ vertex[num[v]] = v
  BY <1>2 DEF num, Found
<1>4. num \in [Nodes -> 0..(n - 1)]
  BY <1>1, <1>3 DEF num
<1>5. num[0] = 0
  BY <1>1 DEF Numbering
<1>6. \A v \in Found \ {0} : num[v] # 0
  BY <1>3 DEF Numbering
<1>7. QED
  BY <1>1, <1>2, <1>3, <1>4, <1>5, <1>6 DEF Found

(* Different nodes have different numbers.                                 *)
LEMMA NumberOfNode ==
  ASSUME Numbering
  PROVE  /\ \A v, w \in Found : num[v] = num[w] => v = w
         /\ \A v \in Found : num[v] \in Nat /\ num[v] < n
         /\ \A j \in Nodes : vertex[j] # 0 => j \in 1..(n - 1) /\ vertex[j] \in Found \ {0}
<1>1. \A v, w \in Found : num[v] = num[w] => v = w
  BY FoundNodes
<1>2. n \in Nat
  BY NumNodesAssumption DEF Numbering
<1>3. \A v \in Found : num[v] \in Nat /\ num[v] < n
  BY <1>2, FoundNodes
<1>4. ASSUME NEW j \in Nodes, vertex[j] # 0 PROVE j \in 1..(n - 1) /\ vertex[j] \in Found \ {0}
  <2>1. j \in Nat /\ j < n /\ j # 0
    BY <1>2, <1>4, NodesAreNaturals DEF Numbering
  <2>2. j \in 1..(n - 1)
    BY <1>2, <2>1
  <2>3. QED
    BY <1>4, <2>1, <2>2, FoundNodes
<1>5. QED
  BY <1>1, <1>3, <1>4

(* Of found nodes, the one with the smallest number.                       *)
LEMMA LeastNumber ==
  ASSUME Numbering, NEW S, S \subseteq Found, S # {}
  PROVE  \E x \in S : \A y \in S : num[x] <= num[y]
<1>1. \A x \in S : num[x] \in Nat
  BY NumberOfNode
<1> HIDE DEF num
<1>2. QED
  BY <1>1, LeastValue

(* A set of nodes that holds the root and, with the parent of a found      *)
(* node, the node, holds all found nodes.                                  *)
LEMMA DownTheTree ==
  ASSUME Finished, NEW S, 0 \in S, \A v \in Found \ {0} : parent[v] \in S => v \in S
  PROVE  Found \subseteq S
<1> DEFINE Rest == Found \ S
<1>1. SUFFICES ASSUME Rest # {} PROVE FALSE
  OBVIOUS
<1>2. PICK x \in Rest : \A y \in Rest : num[x] <= num[y]
  BY <1>1, LeastNumber DEF Finished
<1>3. x \in Found \ {0} /\ parent[x] \in Rest /\ num[parent[x]] < num[x]
  BY <1>2 DEF Finished, Tree
<1>4. num[x] \in Nat /\ num[parent[x]] \in Nat
  BY <1>3, NumberOfNode DEF Finished
<1>5. QED
  BY <1>2, <1>3, <1>4

LEMMA AboveLaws ==
  /\ \A v : Above(v, v)
  /\ \A u, v, w : Above(u, v) /\ Above(v, w) => Above(u, w)
  /\ \A v : \A w \in Nodes \ {0} : Above(v, w) <=> v = w \/ Above(v, parent[w])
  /\ \A v : Above(v, 0) => v = 0
<1>1. \A v : Above(v, v)
  BY AncestorSelf DEF Above
<1>2. \A u, v, w : Above(u, v) /\ Above(v, w) => Above(u, w)
  BY AncestorTransitive DEF Above
<1>3. ASSUME NEW v, NEW w \in Nodes \ {0} PROVE Above(v, w) <=> v = w \/ Above(v, parent[w])
  BY <1>1, AncestorOfParent DEF Above
<1>4. \A v : Above(v, 0) => v = 0
  BY OnlyRootAboveRoot DEF Above
<1>5. QED
  BY <1>1, <1>2, <1>3, <1>4

(* What is above a found node is found and has a smaller number; the root  *)
(* is above all; two nodes above the same node are one above the other.    *)
LEMMA AboveFound ==
  ASSUME Finished
  PROVE  /\ \A w \in Found : Above(0, w)
         /\ \A w \in Found : \A v : Above(v, w) => v \in Found /\ num[v] <= num[w]
         /\ \A v, w \in Found : Above(v, w) /\ v # w => num[v] < num[w]
         /\ \A w \in Found : \A u, v : Above(u, w) /\ Above(v, w) /\ num[u] <= num[v] => Above(u, v)
<1> HIDE DEF Above
<1>0. Numbering /\ Tree /\ Found \subseteq Nodes
  BY FoundNodes DEF Finished
<1>1. \A v \in Found : num[v] \in Nat
  BY <1>0, NumberOfNode
<1>2. \A v \in Found \ {0} : parent[v] \in Found /\ num[parent[v]] < num[v]
  BY <1>0 DEF Tree
<1>3. \A w \in Found : Above(0, w)
  <2> DEFINE S == {w \in Nodes : Above(0, w)}
  <2>1. 0 \in S
    BY <1>0, AboveLaws, NodesAreNaturals
  <2>2. \A v \in Found \ {0} : parent[v] \in S => v \in S
    BY <1>0, AboveLaws
  <2> HIDE DEF S
  <2>3. Found \subseteq S
    BY <2>1, <2>2, DownTheTree
  <2>4. QED
    BY <2>3 DEF S
<1>4. \A w \in Found : \A v : Above(v, w) => v \in Found /\ num[v] <= num[w]
  <2> DEFINE S == {w \in Found : \A v : Above(v, w) => v \in Found /\ num[v] <= num[w]}
  <2>1. 0 \in S
    BY <1>0, <1>1, AboveLaws, FoundNodes
  <2>2. ASSUME NEW w \in Found \ {0}, parent[w] \in S PROVE w \in S
    <3>1. ASSUME NEW v, Above(v, w) PROVE v \in Found /\ num[v] <= num[w]
      <4>1. CASE v = w
        BY <1>1, <4>1
      <4>2. CASE Above(v, parent[w])
        <5>1. v \in Found /\ num[v] <= num[parent[w]]
          BY <2>2, <4>2
        <5>2. QED
          BY <1>1, <1>2, <5>1
      <4>3. QED
        BY <1>0, <3>1, <4>1, <4>2, AboveLaws
    <3>2. QED
      BY <3>1
  <2> HIDE DEF S
  <2>3. Found \subseteq S
    BY <2>1, <2>2, DownTheTree
  <2>4. QED
    BY <2>3 DEF S
<1>5. \A v, w \in Found : Above(v, w) /\ v # w => num[v] < num[w]
  BY <1>0, <1>1, <1>4, NumberOfNode
<1>6. \A w \in Found : \A u, v : Above(u, w) /\ Above(v, w) /\ num[u] <= num[v] => Above(u, v)
  <2> DEFINE S == {w \in Found : \A u, v : Above(u, w) /\ Above(v, w) /\ num[u] <= num[v] => Above(u, v)}
  <2>1. 0 \in S
    BY <1>0, AboveLaws, FoundNodes
  <2>2. ASSUME NEW w \in Found \ {0}, parent[w] \in S PROVE w \in S
    <3>1. ASSUME NEW u, NEW v, Above(u, w), Above(v, w), num[u] <= num[v] PROVE Above(u, v)
      <4>1. CASE v = w
        BY <3>1, <4>1
      <4>2. CASE v # w /\ u = w
        BY <1>1, <1>4, <1>5, <3>1, <4>2
      <4>3. CASE v # w /\ u # w
        <5>1. Above(u, parent[w]) /\ Above(v, parent[w])
          BY <1>0, <3>1, <4>3, AboveLaws
        <5>2. QED
          BY <2>2, <3>1, <5>1
      <4>4. QED
        BY <4>1, <4>2, <4>3
    <3>2. QED
      BY <3>1
  <2> HIDE DEF S
  <2>3. Found \subseteq S
    BY <2>1, <2>2, DownTheTree
  <2>4. QED
    BY <2>3 DEF S
<1>7. QED
  BY <1>3, <1>4, <1>5, <1>6

------------------------------------------------------------------------------
(* Dominators *)

Doms(w) == StrictDominators(w, Nodes, links)

(* What can be reached without passing x. *)
Avoiding(x) == Reachable(Nodes \ {x}, Without(x, links))

LEMMA AvoidingLaws ==
  ASSUME Finished, NEW x \in Nodes \ {0}
  PROVE  /\ 0 \in Avoiding(x)
         /\ Avoiding(x) \subseteq Nodes \ {x}
         /\ \A e \in links : e.src \in Avoiding(x) /\ e.dst # x => e.dst \in Avoiding(x)
<1>1. 0 \in Avoiding(x)
  BY NodesAreNaturals DEF Avoiding, Reachable
<1>2. Avoiding(x) \subseteq Nodes \ {x}
  BY DEF Avoiding, Reachable
<1>3. ASSUME NEW e \in links, e.src \in Avoiding(x), e.dst # x PROVE e.dst \in Avoiding(x)
  <2>1. e \in Without(x, links)
    BY <1>2, <1>3 DEF Without
  <2>2. e.dst \in Nodes \ {x}
    BY <1>3 DEF Finished, Tree, Links
  <2>3. QED
    BY <1>3, <2>1, <2>2, ReachableStep DEF Avoiding
<1>4. QED
  BY <1>1, <1>2, <1>3

LEMMA DominatorMeaning ==
  ASSUME Finished, NEW w \in Found, NEW x
  PROVE  x \in Doms(w) <=> x \in Found \ {w} /\ (x # 0 => w \notin Avoiding(x))
<1>1. Found = Reached /\ Found \subseteq Nodes
  BY FoundNodes DEF Finished, Tree
<1>2. QED
  BY <1>1 DEF Doms, StrictDominators, Dominates, Avoiding, Reached

(* A node that dominates another is above it in the tree.                  *)
LEMMA DominatorsAbove ==
  ASSUME Finished, NEW w \in Found, NEW x \in Doms(w)
  PROVE  x \in Found /\ Above(x, w) /\ num[x] < num[w]
<1> HIDE DEF Above
<1>1. x \in Found /\ x # w /\ (x # 0 => w \notin Avoiding(x))
  BY DominatorMeaning
<1>2. CASE x = 0
  BY <1>1, <1>2, AboveFound
<1>3. CASE x # 0
  <2>0. x \in Nodes \ {0} /\ Found \subseteq Nodes
    BY <1>1, <1>3, FoundNodes DEF Finished
  <2> DEFINE S == {v \in Nodes : Above(x, v) \/ v \in Avoiding(x)}
  <2>1. 0 \in S
    BY <2>0, AvoidingLaws, NodesAreNaturals
  <2>2. ASSUME NEW v \in Found \ {0}, parent[v] \in S PROVE v \in S
    <3>1. v \in Nodes \ {0}
      BY <2>0
    <3>2. CASE Above(x, parent[v])
      BY <3>1, <3>2, AboveLaws
    <3>3. CASE v = x
      BY <3>1, <3>3, AboveLaws
    <3>4. CASE parent[v] \in Avoiding(x) /\ v # x
      <4>1. [src |-> parent[v], dst |-> v] \in links
        BY DEF Finished, Tree
      <4>2. v \in Avoiding(x)
        BY <2>0, <3>4, <4>1, AvoidingLaws
      <4>3. QED
        BY <3>1, <4>2
    <3>5. QED
      BY <2>2, <3>2, <3>3, <3>4
  <2> HIDE DEF S
  <2>3. w \in S
    BY <2>1, <2>2, DownTheTree
  <2>4. Above(x, w)
    BY <1>1, <1>3, <2>3 DEF S
  <2>5. QED
    BY <1>1, <2>4, AboveFound
<1>4. QED
  BY <1>2, <1>3

(* The way to w through a predecessor of w passes w's dominators.          *)
LEMMA DominatorOfPred ==
  ASSUME Finished, NEW w \in Found, NEW x \in Doms(w), NEW u \in Found,
         [src |-> u, dst |-> w] \in links
  PROVE  x = u \/ x \in Doms(u)
<1>1. x \in Found /\ x # w /\ (x # 0 => w \notin Avoiding(x))
  BY DominatorMeaning
<1>2. ASSUME x # 0 PROVE u \notin Avoiding(x)
  <2>1. x \in Nodes \ {0}
    BY <1>1, <1>2, FoundNodes DEF Finished
  <2> DEFINE e == [src |-> u, dst |-> w]
  <2>2. e \in links /\ e.src = u /\ e.dst = w
    OBVIOUS
  <2> HIDE DEF e
  <2>3. QED
    BY <1>1, <1>2, <2>1, <2>2, AvoidingLaws
<1>3. QED
  BY <1>1, <1>2, DominatorMeaning

(* Of two nodes above w, the upper one dominates the lower one if it       *)
(* dominates w: the tree leads from the lower one to w.                    *)
LEMMA DominatorUpTheTree ==
  ASSUME Finished, NEW w \in Found, NEW x \in Doms(w), NEW r \in Found,
         Above(r, w), num[x] < num[r]
  PROVE  x \in Doms(r)
<1> HIDE DEF Above
<1>1. x \in Found /\ x # w /\ (x # 0 => w \notin Avoiding(x)) /\ num[x] \in Nat /\ num[r] \in Nat
  BY DominatorMeaning, NumberOfNode DEF Finished
<1>2. ASSUME x # 0, r \in Avoiding(x) PROVE FALSE
  <2>0. x \in Nodes \ {0} /\ Found \subseteq Nodes
    BY <1>1, <1>2, FoundNodes DEF Finished
  <2> DEFINE S == {v \in Nodes : Above(r, v) => v \in Avoiding(x)}
  <2>1. 0 \in S
    BY <2>0, AvoidingLaws, NodesAreNaturals
  <2>2. ASSUME NEW v \in Found \ {0}, parent[v] \in S PROVE v \in S
    <3>1. v \in Nodes \ {0}
      BY <2>0
    <3>2. SUFFICES ASSUME Above(r, v), v # r PROVE v \in Avoiding(x)
      BY <1>2, <3>1
    <3>3. parent[v] \in Avoiding(x)
      BY <2>2, <3>1, <3>2, AboveLaws
    <3>4. v # x
      <4>1. num[r] <= num[v]
        BY <3>2, AboveFound
      <4>2. QED
        BY <1>1, <4>1
    <3> DEFINE e == [src |-> parent[v], dst |-> v]
    <3>5. e \in links /\ e.src = parent[v] /\ e.dst = v
      BY DEF Finished, Tree
    <3> HIDE DEF e
    <3>6. QED
      BY <2>0, <3>3, <3>4, <3>5, AvoidingLaws
  <2> HIDE DEF S
  <2>3. w \in S
    BY <2>1, <2>2, DownTheTree
  <2>4. QED
    BY <1>1, <1>2, <2>3 DEF S
<1>3. x # r
  BY <1>1
<1>4. QED
  BY <1>1, <1>2, <1>3, DominatorMeaning

------------------------------------------------------------------------------
(* The segments of the tree that Dominate's properties speak of *)

(* TreeSegment, a recursive function, is what it says, and on found nodes  *)
(* it is a part of the path to the root.                                   *)
LEMMA SegmentRecursion ==
  ASSUME parent \in [Nodes -> Nodes], NEW a \in Nodes
  PROVE  /\ L!TreeSegment(0, a) = {} /\ L!TreeSegment(a, a) = {}
         /\ \A x \in Nodes \ {0, a} : L!TreeSegment(x, a) = {x} \cup L!TreeSegment(parent[x], a)
<1> DEFINE Step(f) == [x \in Nodes |-> IF x = a \/ x = 0 THEN {} ELSE {x} \cup f[parent[x]]]
           Under(y, x) == \A S \in SUBSET Nodes :
                            x \in S /\ (\A z \in S \ {0, a} : parent[z] \in S) => y \in S
           below == [x \in Nodes |-> {y \in Nodes \ {0, a} : Under(y, x)}]
           segment == CHOOSE f : f = Step(f)
<1>1. L!Nodes = Nodes /\ 0 \in Nodes
  BY NodesAreNaturals DEF L!Nodes, Nodes
<1>2. \A y, x : x \in {0, a} /\ Under(y, x) => y = x
  <2>1. SUFFICES ASSUME NEW y, NEW x, x \in {0, a}, Under(y, x) PROVE y = x
    OBVIOUS
  <2>2. {x} \in SUBSET Nodes
    BY <1>1, <2>1
  <2>3. QED
    BY <2>1, <2>2
<1>3. \A x : Under(x, x)
  OBVIOUS
<1>4. ASSUME NEW x \in Nodes \ {0, a}, NEW y
      PROVE  Under(y, x) <=> y = x \/ Under(y, parent[x])
  <2>1. ASSUME Under(y, parent[x]) PROVE Under(y, x)
    BY <2>1
  <2>2. ASSUME Under(y, x), y # x PROVE Under(y, parent[x])
    <3>1. SUFFICES ASSUME NEW S \in SUBSET Nodes, parent[x] \in S,
                          \A z \in S \ {0, a} : parent[z] \in S
                   PROVE  y \in S
      OBVIOUS
    <3> DEFINE T == S \cup {x}
    <3>2. T \in SUBSET Nodes /\ x \in T /\ \A z \in T \ {0, a} : parent[z] \in T
      BY <3>1
    <3>3. y \in T
      BY <2>2, <3>2
    <3>4. QED
      BY <2>2, <3>3
  <2>3. QED
    BY <1>3, <2>1, <2>2
<1> HIDE DEF Under
<1>5. below = Step(below)
  <2>1. \A x \in Nodes : x \in {0, a} => below[x] = {}
    BY <1>2
  <2>2. ASSUME NEW x \in Nodes \ {0, a} PROVE below[x] = {x} \cup below[parent[x]]
    BY <1>4
  <2> HIDE DEF below
  <2>3. \A x \in Nodes : below[x] = IF x = a \/ x = 0 THEN {} ELSE {x} \cup below[parent[x]]
    BY <2>1, <2>2
  <2>4. below = [x \in Nodes |-> below[x]]
    BY DEF below
  <2>5. QED
    BY <2>3, <2>4
<1>6. segment = Step(segment)
  BY <1>5
<1>7. \A v : L!TreeSegment(v, a) = segment[v]
  BY <1>1 DEF L!TreeSegment
<1> HIDE DEF segment
<1>8. \A x \in Nodes : segment[x] = IF x = a \/ x = 0 THEN {} ELSE {x} \cup segment[parent[x]]
  BY <1>6
<1>9. QED
  BY <1>1, <1>7, <1>8

(* Between v and a node a above it, a excluded. *)
LEMMA SegmentMeaning ==
  ASSUME Finished, NEW a \in Found, NEW v \in Found, Above(a, v)
  PROVE  L!TreeSegment(v, a) = {x \in Found : Above(x, v) /\ num[a] < num[x]}
<1> HIDE DEF Above
<1> DEFINE Part(w) == {x \in Found : Above(x, w) /\ num[a] < num[x]}
           S == {w \in Nodes : Above(a, w) => L!TreeSegment(w, a) = Part(w)}
<1>0. /\ Found \subseteq Nodes /\ parent \in [Nodes -> Nodes] /\ a \in Nodes /\ 0 \in Found
      /\ num[0] = 0
  BY FoundNodes DEF Finished, Tree
<1>1. \A w \in Found : num[w] \in Nat
  BY NumberOfNode DEF Finished
<1>2. /\ L!TreeSegment(0, a) = {} /\ L!TreeSegment(a, a) = {}
      /\ \A x \in Nodes \ {0, a} : L!TreeSegment(x, a) = {x} \cup L!TreeSegment(parent[x], a)
  BY <1>0, SegmentRecursion
<1>3. Part(a) = {} /\ Part(0) = {}
  BY <1>0, <1>1, AboveFound
<1>4. 0 \in S
  BY <1>0, <1>2, <1>3
<1>5. ASSUME NEW w \in Found \ {0}, parent[w] \in S PROVE w \in S
  <2>1. SUFFICES ASSUME Above(a, w), w # a PROVE L!TreeSegment(w, a) = Part(w)
    BY <1>0, <1>2, <1>3
  <2>2. w \in Nodes \ {0, a} /\ Above(a, parent[w])
    BY <1>0, <2>1, AboveLaws
  <2>3. L!TreeSegment(parent[w], a) = Part(parent[w])
    BY <1>5, <2>2
  <2>4. num[a] < num[w]
    BY <2>1, AboveFound
  <2>5. \A x : Above(x, w) <=> x = w \/ Above(x, parent[w])
    BY <2>2, AboveLaws
  <2>6. Part(w) = {w} \cup Part(parent[w])
    BY <2>4, <2>5
  <2>7. QED
    BY <1>2, <2>2, <2>3, <2>6
<1> HIDE DEF S
<1>6. v \in S
  BY <1>4, <1>5, DownTheTree
<1>7. QED
  BY <1>6 DEF S

------------------------------------------------------------------------------
(* The invariant of dominate *)

(* The file of predecessors: the links out of found nodes, reversed.       *)
Predecessors ==
  /\ preds \in Seq(Links(Nodes)) /\ StrictlySorted(preds)
  /\ LinksOf(preds) = {[src |-> e.dst, dst |-> e.src] : e \in Kept}

(* The file semi: lowered or not, the number of a node above, and no       *)
(* dominator lies below that.  Once the last node found has been lowered   *)
(* the file is not as dfs left it.                                         *)
Clean == \A v \in Found : semi[v] = num[v]

LastLowered == semi[vertex[n - 1]] < n - 1

Semidominators ==
  /\ semi \in [Nodes -> Nodes] /\ semi[0] = 0
  /\ \A w \in Found \ {0} :
       /\ semi[w] <= num[w]
       /\ Above(vertex[semi[w]], w)
       /\ \A x \in Doms(w) : num[x] <= semi[w]
  /\ Clean \/ LastLowered

(* At a node, and on the way down; and the smallest number that has been   *)
(* linked into the forest.                                                 *)
AtNode == pc \in {"preds", "lower", "drain", "dominate"}
Descending == pc = "loop" \/ AtNode
Lowest == IF pc \in {"drain", "dominate"} THEN i ELSE i + 1

DominateTypes ==
  /\ dominator \in [Nodes -> Nodes] /\ dominator[0] = 0
  /\ ancestor \in [Nodes -> Nodes] /\ label \in [Nodes -> Nodes]
  /\ bucket \in [Nodes -> Seq(Nodes)]
  /\ i \in 0..NumNodes
  /\ ptr \in 1..(Len(preds) + 1)
  /\ arg \in Nodes /\ calls \in Seq(Nodes) /\ unwinding \in BOOLEAN
  /\ pc \in {"start", "loop", "preds", "lower", "drain", "dominate", "explicit", "done", "abort"}

(* The numbers from k downwards are dfs's. *)
Ahead(k) == \A j \in 1..k : j < n => semi[vertex[j]] = j

Position ==
  /\ pc = "loop" => i < NumNodes /\ (Ahead(i) \/ (i >= n - 1 /\ LastLowered))
  /\ AtNode => i \in 1..(n - 1) /\ Ahead(i - 1)

(* A node that has been dealt with is lowered: its parent has seen to it.  *)
Lowered ==
  /\ Descending => \A v \in Found \ {0} : num[v] >= Lowest => semi[v] < num[v]
  /\ pc = "explicit" => \A v \in Found \ {0} : semi[v] < num[v]

(* What the process finds in its memory. *)
Fresh ==
  pc = "start" =>
    /\ ancestor = Zeros /\ label = [v \in Nodes |-> v] /\ bucket = [v \in Nodes |-> << >>]
    /\ calls = << >> /\ i = NumNodes - 1

(* EVAL, COMPRESS and LINK. *)
Forest ==
  /\ \A v \in Nodes : ancestor[v] # 0 =>
       /\ v \in Found \ {0} /\ Above(ancestor[v], parent[v])
       /\ label[v] \in Found /\ Above(label[v], v) /\ num[ancestor[v]] < num[label[v]]
       /\ \A x \in Found : Above(x, v) /\ num[ancestor[v]] < num[x] =>
            ancestor[x] # 0 /\ semi[label[v]] <= semi[x]
  /\ \A v \in Nodes : ancestor[v] = 0 => label[v] = v

(* Linked are the nodes from Lowest, except the children of the root.      *)
Linked ==
  Descending =>
    \A v \in Found \ {0} : ancestor[v] # 0 <=> (num[v] >= Lowest /\ parent[v] # 0)

Climbing ==
  /\ \A k \in 1..Len(calls) :
       /\ ancestor[calls[k]] # 0
       /\ k > 1 => calls[k] = ancestor[calls[k - 1]]
       /\ \A j \in 1..(k - 1) : num[calls[k]] < num[calls[j]]
  /\ unwinding /\ calls # << >> => ancestor[ancestor[calls[Len(calls)]]] # 0
  /\ calls # << >> => pc \in {"lower", "dominate"}

(* The loop over the predecessors of the node. *)
Scanning ==
  /\ pc \in {"preds", "lower"} =>
       /\ \A k \in 1..Len(preds) : preds[k].src < vertex[i] => k < ptr
       /\ \A k \in 1..Len(preds) :
            k < ptr /\ preds[k] = [src |-> vertex[i], dst |-> parent[vertex[i]]] =>
              semi[vertex[i]] <= num[parent[vertex[i]]]
  /\ pc = "lower" =>
       ptr <= Len(preds) /\ preds[ptr].src = vertex[i] /\ preds[ptr].dst = arg

(* What step 3 knows of the dominator of v when it has left the bucket:    *)
(* the semidominator, or a node below that whose dominator is as good.     *)
Settled(v) ==
  \/ dominator[v] = vertex[semi[v]]
  \/ /\ dominator[v] \in Found \ {0} /\ Above(dominator[v], v)
     /\ semi[v] < num[dominator[v]] /\ num[dominator[v]] < num[v]

InBucket(v, p) == \E k \in 1..Len(bucket[p]) : bucket[p][k] = v

Buckets ==
  /\ Descending =>
       /\ \A p \in Nodes : \A v \in Nodes : InBucket(v, p) =>
            /\ v \in Found \ {0} /\ num[v] >= Lowest /\ vertex[semi[v]] = p
            /\ \E c \in Found \ {0} : parent[c] = p /\ num[c] <= i
       /\ \A v \in Found \ {0} : num[v] >= Lowest =>
            \/ \E p \in Nodes : InBucket(v, p)
            \/ pc = "dominate" /\ v = arg
            \/ Settled(v)
  /\ pc = "dominate" =>
       arg \in Found \ {0} /\ num[arg] >= i /\ vertex[semi[arg]] = parent[vertex[i]]

(* What step 4 makes of it: the dominators of v are its computed dominator *)
(* and the dominators of that.                                             *)
Final(v) ==
  /\ dominator[v] \in Found /\ num[dominator[v]] < num[v]
  /\ Doms(v) \subseteq {dominator[v]} \cup Doms(dominator[v])

AllFinal == \A v \in Found \ {0} : Final(v)

Explicitly ==
  /\ pc = "explicit" =>
       /\ i >= 1
       /\ \A v \in Found \ {0} : IF num[v] < i THEN Final(v) ELSE Settled(v)
  /\ pc = "done" => AllFinal

(* With fewer nodes than dots, dominate gets as far as the first number.   *)
DominateStuck ==
  NumNodes < dots /\ NumNodes > 1 =>
    pc \in {"start", "abort"} \/ (pc = "loop" /\ i = NumNodes - 1)

Dominating ==
  /\ DominateTypes /\ Fresh /\ Position /\ Lowered /\ Forest /\ Linked /\ Climbing
  /\ Scanning /\ Buckets /\ Explicitly /\ DominateStuck

------------------------------------------------------------------------------
(* The invariant of retain *)

(* The nodes whose sums have been passed on; and those that have been      *)
(* counted in the sum of v when the nodes in P have: they are below a node *)
(* of P, which is v or has v for its dominator.                            *)
PassedOn == {v \in Found \ {0} : num[v] > i}

CreditedBy(P, v) ==
  {w \in Found \ {0} : \E d \in P : d \in DominatorChain(w) /\ (d = v \/ dominator[d] = v)}

Credited(v) == CreditedBy(PassedOn, v)

SumsAgree ==
  /\ retained \in [R!Instances -> Nat] /\ retainedCount \in [R!Instances -> Nat]
  /\ \A v \in R!Instances :
       /\ retained[v] = SumOver(Credited(v), size)
       /\ retainedCount[v] = Cardinality(Credited(v))
  /\ totalSize = SumOver(PassedOn, size)
  /\ skipped = IF i >= n THEN NumInstances - 1 - i ELSE NumInstances - n

Retaining ==
  /\ AllFinal
  /\ pc \in {"start", "loop", "done", "abort"}
  /\ i \in 0..(NumInstances - 1)
  /\ pc = "start" => i = NumInstances - 1 /\ skipped = 0 /\ totalSize = 0
  /\ pc # "start" => SumsAgree
  /\ pc = "done" => i = 0
  /\ NumInstances < dots /\ NumInstances > 1 =>
       pc \in {"start", "abort"} \/ (pc = "loop" /\ i = NumInstances - 1)
  /\ NumNodes >= dots \/ NumNodes = 1

------------------------------------------------------------------------------
(* The invariant of the analysis *)

Analysing ==
  /\ program \in {"dfs", "dominate", "retain"}
  /\ edges \in EdgeFiles /\ dots \in Dots[edges] /\ size = Sizes
  /\ dominator \in [Nodes -> Nodes] /\ dominator[0] = 0
  /\ program = "dfs" => SearchInvariant
  /\ program # "dfs" => Finished /\ Predecessors /\ Semidominators
  /\ program = "dominate" => Dominating
  /\ program = "retain" => Retaining

------------------------------------------------------------------------------
(* dominate leaves alone what dfs has left behind *)

Steady == UNCHANGED <<edges, n, vertex, parent, preds>>

LEMMA TreeKept ==
  ASSUME UNCHANGED <<edges, n, vertex, parent>>
  PROVE  /\ Found' = Found /\ num' = num /\ links' = links
         /\ \A v, w : Above(v, w)' <=> Above(v, w)
         /\ \A w : Doms(w)' = Doms(w)
         /\ Finished' <=> Finished
<1>1. Found' = Found /\ links' = links
  BY DEF Found, links
<1>2. num' = num
  BY <1>1 DEF num
<1>3. \A v, w : Above(v, w)' <=> Above(v, w)
  BY DEF Above, Ancestor
<1>4. \A w : Doms(w)' = Doms(w)
  BY <1>1 DEF Doms
<1>5. Numbering' <=> Numbering
  BY <1>1, <1>2 DEF Numbering
<1>6. Reached' = Reached
  BY <1>1 DEF Reached
<1>7. Tree' <=> Tree
  BY <1>1, <1>2, <1>3, <1>6 DEF Tree
<1>8. QED
  BY <1>1, <1>2, <1>3, <1>4, <1>5, <1>7 DEF Finished

LEMMA PredecessorsKept ==
  ASSUME Steady
  PROVE  Predecessors' <=> Predecessors
<1>1. Found' = Found /\ links' = links
  BY TreeKept DEF Steady
<1>2. Kept' = Kept /\ preds' = preds
  BY <1>1 DEF Kept, Steady
<1>3. QED
  BY <1>2 DEF Predecessors

LEMMA SemidominatorsKept ==
  ASSUME Semidominators, UNCHANGED <<edges, n, vertex, parent, semi>>
  PROVE  Semidominators'
<1>1. Found' = Found /\ num' = num /\ \A w : Doms(w)' = Doms(w)
  BY TreeKept
<1>2. \A v, w : Above(v, w)' <=> Above(v, w)
  BY TreeKept
<1> HIDE DEF Found, num, Above, Doms
<1>3. LastLowered' <=> LastLowered
  BY DEF LastLowered
<1>4. Clean' <=> Clean
  BY <1>1 DEF Clean
<1>5. QED
  BY <1>1, <1>2, <1>3, <1>4 DEF Semidominators

LEMMA ForestKept ==
  ASSUME Forest, UNCHANGED <<edges, n, vertex, parent, semi, ancestor, label>>
  PROVE  Forest'
<1>1. Found' = Found /\ num' = num
  BY TreeKept
<1>2. \A v, w : Above(v, w)' <=> Above(v, w)
  BY TreeKept
<1> HIDE DEF Found, num, Above
<1>3. QED
  BY <1>1, <1>2 DEF Forest

------------------------------------------------------------------------------
(* The steps of dominate *)

Working == Finished /\ Predecessors /\ Semidominators /\ Dominating

LEMMA AtNodeFacts ==
  ASSUME Finished, Position, AtNode
  PROVE  /\ vertex[i] \in Found \ {0} /\ vertex[i] \in Nodes \ {0}
         /\ num[vertex[i]] = i /\ i \in 1..(n - 1) /\ i \in Nat /\ n \in Nat
         /\ parent[vertex[i]] \in Found /\ parent[vertex[i]] \in Nodes
         /\ num[parent[vertex[i]]] \in Nat /\ num[parent[vertex[i]]] < i
         /\ [src |-> parent[vertex[i]], dst |-> vertex[i]] \in links
<1>1. i \in 1..(n - 1) /\ n \in 1..NumNodes
  BY DEF Position, Finished, Numbering
<1>2. i \in 0..(n - 1) /\ i # 0
  BY <1>1
<1>3. vertex[i] \in Found /\ num[vertex[i]] = i
  BY <1>2, FoundNodes DEF Finished, Numbering
<1>4. vertex[i] # 0
  BY <1>2, <1>3, FoundNodes DEF Finished
<1>5. QED
  BY <1>1, <1>3, <1>4, FoundNodes, NumberOfNode, NumNodesAssumption DEF Finished, Tree

LEMMA StopStep ==
  ASSUME Working, Steady, UNCHANGED dots, L!MapFails \/ L!DivideByZero \/ L!AssertionFails
  PROVE  Semidominators' /\ Dominating'
<1>1. /\ pc' = "abort" /\ calls = << >>
      /\ UNCHANGED <<semi, ancestor, label, bucket, i, ptr, arg, calls, unwinding>>
      /\ dominator' \in [Nodes -> Nodes] /\ dominator'[0] = 0
  <2>1. pc \in {"start", "loop"} /\ pc' = "abort"
    BY DEF L!MapFails, L!DivideByZero, L!AssertionFails, L!InLoop
  <2>2. calls = << >>
    BY <2>1 DEF Working, Dominating, Climbing
  <2>3. 0 \in Nodes /\ L!Zeros = [v \in Nodes |-> 0]
    BY NumNodesAssumption DEF Nodes, L!Zeros, L!Nodes
  <2>4. dominator' = L!Zeros \/ dominator' = dominator
    BY DEF L!MapFails, L!DivideByZero, L!AssertionFails
  <2>5. dominator' \in [Nodes -> Nodes] /\ dominator'[0] = 0
    BY <2>3, <2>4 DEF Working, Dominating, DominateTypes
  <2>6. QED
    BY <2>1, <2>2, <2>5 DEF L!MapFails, L!DivideByZero, L!AssertionFails, L!forest, L!evaluation
<1>2. Semidominators' /\ Forest'
  BY <1>1, SemidominatorsKept, ForestKept DEF Working, Dominating, Steady
<1>3. DominateTypes'
  BY <1>1 DEF Working, Dominating, DominateTypes, Steady
<1>4. Position' /\ Lowered' /\ Fresh' /\ Linked' /\ Scanning' /\ Buckets' /\ Explicitly' /\ DominateStuck'
  BY <1>1 DEF Position, Lowered, Fresh, Linked, Scanning, Buckets, Explicitly, DominateStuck, AtNode, Descending
<1>5. Climbing'
  BY <1>1 DEF Climbing
<1>6. QED
  BY <1>2, <1>3, <1>4, <1>5 DEF Dominating

LEMMA BeginStep ==
  ASSUME Working, Steady, UNCHANGED dots, L!Begin
  PROVE  Semidominators' /\ Dominating'
<1>1. /\ pc = "start" /\ pc' = "loop" /\ calls = << >>
      /\ UNCHANGED <<semi, ancestor, label, bucket, i, ptr, arg, calls, unwinding>>
      /\ dominator' = Zeros
      /\ ancestor = Zeros /\ bucket = [v \in Nodes |-> << >>] /\ i = NumNodes - 1
  BY DEF L!Begin, L!forest, L!evaluation, L!Zeros, Zeros, L!Nodes, Nodes, Working, Dominating, Fresh
<1>2. Semidominators' /\ Forest'
  BY <1>1, SemidominatorsKept, ForestKept DEF Working, Dominating, Steady
<1>3. 0 \in Nodes
  BY NumNodesAssumption DEF Nodes
<1>4. DominateTypes'
  BY <1>1, <1>3 DEF Working, Dominating, DominateTypes, Steady, Zeros
<1>5. /\ \A v \in Found : num[v] \in Nat /\ num[v] < n
      /\ n \in 1..NumNodes /\ Found \subseteq Nodes
      /\ \A j \in 0..(n - 1) : vertex[j] \in Found /\ num[vertex[j]] = j
  BY FoundNodes, NumberOfNode DEF Working, Finished, Numbering
<1>6. Found' = Found /\ num' = num
  BY TreeKept DEF Steady
<1>7. Clean \/ LastLowered
  BY DEF Working, Semidominators
<1> HIDE DEF Found, num
<1>8. Position'
  <2>1. Ahead(i)' \/ LastLowered'
    <3>1. CASE LastLowered
      BY <3>1, <1>1 DEF LastLowered, Steady
    <3>2. CASE Clean
      <4>1. \A j \in 1..i : j < n => semi[vertex[j]] = j
        BY <3>2, <1>1, <1>5, NumNodesAssumption DEF Clean
      <4>2. QED
        BY <4>1, <1>1 DEF Ahead, Steady
    <3>3. QED
      BY <3>1, <3>2, <1>7
  <2>2. i < NumNodes /\ i >= n - 1
    BY <1>1, <1>5, NumNodesAssumption
  <2>3. QED
    BY <2>1, <2>2, <1>1 DEF Position, AtNode, Steady
<1>9. Lowest' = NumNodes
  BY <1>1, NumNodesAssumption DEF Lowest
<1>10. \A v \in Found : ~ (num[v] >= NumNodes)
  BY <1>5, NumNodesAssumption
<1>11. Lowered'
  BY <1>1, <1>6, <1>9, <1>10 DEF Lowered
<1>12. Linked'
  BY <1>1, <1>5, <1>6, <1>9, <1>10 DEF Linked, Zeros
<1>13. Buckets'
  BY <1>1, <1>6, <1>9, <1>10 DEF Buckets, InBucket, AtNode, Descending
<1>14. Fresh' /\ Scanning' /\ Explicitly' /\ DominateStuck' /\ Climbing'
  BY <1>1 DEF Fresh, Scanning, Explicitly, DominateStuck, Climbing
<1>15. QED
  BY <1>2, <1>4, <1>8, <1>11, <1>12, <1>13, <1>14 DEF Dominating

LEMMA DotsEnough ==
  ASSUME Dominating, dots \in Nat \ {0}, L!DotInterval # 0, NumNodes > 1
  PROVE  NumNodes >= dots
BY NumNodesAssumption DEF L!DotInterval

LEMMA SkipUnreachedStep ==
  ASSUME Working, Steady, dots \in Nat \ {0}, UNCHANGED dots, L!SkipUnreached
  PROVE  Semidominators' /\ Dominating'
<1>1. /\ pc = "loop" /\ pc' = "loop" /\ i > 0 /\ i' = i - 1 /\ vertex[i] = 0 /\ L!DotInterval # 0
      /\ UNCHANGED <<semi, dominator, ancestor, label, bucket, ptr, arg, calls, unwinding>>
  BY DEF L!SkipUnreached, L!InLoop, L!Node, L!forest, L!evaluation
<1>2. Semidominators' /\ Forest'
  BY <1>1, SemidominatorsKept, ForestKept DEF Working, Dominating, Steady
<1>3. /\ \A v \in Found : num[v] \in Nat /\ num[v] < n
      /\ n \in 1..NumNodes /\ n \in Nat
      /\ \A j \in 0..(n - 1) : vertex[j] \in Found /\ num[vertex[j]] = j
      /\ num[0] = 0 /\ \A v \in Found : vertex[num[v]] = v
  BY FoundNodes, NumberOfNode DEF Working, Finished, Numbering
<1>4. Found' = Found /\ num' = num
  BY TreeKept DEF Steady
<1>5. i \in Nat /\ i < NumNodes /\ (Ahead(i) \/ (i >= n - 1 /\ LastLowered))
  BY <1>1 DEF Working, Dominating, DominateTypes, Position
<1> HIDE DEF Found, num
<1>6. i >= n
  BY <1>1, <1>3, <1>5
<1>7. \A v \in Found : num[v] >= i <=> num[v] >= i + 1
  BY <1>3, <1>5, <1>6
<1>8. \A v \in Found : num[v] <= i <=> num[v] <= i - 1
  BY <1>3, <1>5, <1>6
<1>9. i' \in Nat /\ i' + 1 = i
  BY <1>1, <1>5
<1>10. Lowest' = i /\ Lowest = i + 1 /\ Descending
  BY <1>1, <1>9 DEF Lowest, Descending
<1>11. DominateTypes'
  BY <1>1, <1>5, NumNodesAssumption DEF Working, Dominating, DominateTypes, Steady
<1>12. Position'
  <2>1. Ahead(i)' \/ LastLowered'
    <3>1. CASE LastLowered
      BY <3>1, <1>1 DEF LastLowered, Steady
    <3>2. CASE Ahead(i)
      <4>1. \A j \in 1..(i - 1) : j < n => semi[vertex[j]] = j
        BY <3>2, <1>5 DEF Ahead
      <4>2. QED
        BY <4>1, <1>1 DEF Ahead, Steady
    <3>3. QED
      BY <3>1, <3>2, <1>5
  <2>2. i' < NumNodes /\ i' >= n - 1
    BY <1>1, <1>3, <1>5, <1>6, NumNodesAssumption
  <2>3. n' = n
    BY DEF Steady
  <2>4. QED
    BY <2>1, <2>2, <2>3, <1>1 DEF Position, AtNode
<1>13. Lowered'
  BY <1>1, <1>4, <1>7, <1>10 DEF Working, Dominating, Lowered
<1>14. Linked'
  BY <1>1, <1>4, <1>7, <1>10 DEF Working, Dominating, Linked, Steady
<1>15. Buckets'
  <2>1. \A p, v : InBucket(v, p)' <=> InBucket(v, p)
    BY <1>1 DEF InBucket
  <2>2. \A v : Settled(v)' <=> Settled(v)
    BY <1>1, <1>4, TreeKept DEF Settled, Steady
  <2>3. \A p \in Nodes : \A v \in Nodes : InBucket(v, p) =>
            /\ v \in Found \ {0} /\ num[v] >= i /\ vertex[semi[v]] = p
            /\ \E c \in Found \ {0} : parent[c] = p /\ num[c] <= i - 1
    BY <1>7, <1>8, <1>10 DEF Working, Dominating, Buckets
  <2>4. \A v \in Found \ {0} : num[v] >= i => (\E p \in Nodes : InBucket(v, p)) \/ Settled(v)
    BY <1>1, <1>7, <1>10 DEF Working, Dominating, Buckets
  <2> HIDE DEF InBucket, Settled
  <2>5. QED
    BY <2>1, <2>2, <2>3, <2>4, <1>1, <1>4, <1>10 DEF Buckets, AtNode, Steady
<1>16. Fresh' /\ Scanning' /\ Explicitly' /\ Climbing'
  BY <1>1 DEF Fresh, Scanning, Explicitly, Climbing, Working, Dominating
<1>17. DominateStuck'
  BY <1>1, DotsEnough, NumNodesAssumption DEF DominateStuck, Working
<1>18. QED
  BY <1>2, <1>11, <1>12, <1>13, <1>14, <1>15, <1>16, <1>17 DEF Dominating

(* What the file of predecessors says, position by position.               *)
LEMMA PredecessorFacts ==
  ASSUME Finished, Predecessors
  PROVE  /\ Len(preds) \in Nat
         /\ \A k \in 1..Len(preds) :
              /\ preds[k].src \in Nodes /\ preds[k].dst \in Nodes
              /\ preds[k].src \in Nat /\ preds[k].dst \in Nat
              /\ preds[k] = [src |-> preds[k].src, dst |-> preds[k].dst]
              /\ preds[k].dst \in Found
              /\ [src |-> preds[k].dst, dst |-> preds[k].src] \in links
         /\ \A j, k \in 1..Len(preds) : j < k => preds[j].src <= preds[k].src
         /\ \A v \in Nodes : LET p == LinkLowerBound(preds, [src |-> v, dst |-> 0])
                             IN  /\ p \in 1..(Len(preds) + 1)
                                 /\ \A k \in 1..Len(preds) : preds[k].src < v <=> k < p
         /\ \A e \in links : e.src \in Found =>
              \E k \in 1..Len(preds) : preds[k] = [src |-> e.dst, dst |-> e.src]
<1>1. preds \in Seq(Links(Nodes)) /\ StrictlySorted(preds)
  BY DEF Predecessors
<1>2. Len(preds) \in Nat /\ \A k \in 1..Len(preds) : preds[k] \in Links(Nodes)
  BY <1>1, ElementOfSeq, LenProperties
<1>3. \A k \in 1..Len(preds) :
              /\ preds[k].src \in Nodes /\ preds[k].dst \in Nodes
              /\ preds[k].src \in Nat /\ preds[k].dst \in Nat
              /\ preds[k] = [src |-> preds[k].src, dst |-> preds[k].dst]
  BY <1>2, NodesAreNaturals DEF Links
<1>4. ASSUME NEW k \in 1..Len(preds)
      PROVE  preds[k].dst \in Found /\ [src |-> preds[k].dst, dst |-> preds[k].src] \in links
  <2>1. preds[k] \in LinksOf(preds)
    BY DEF LinksOf
  <2>2. PICK e \in Kept : preds[k] = [src |-> e.dst, dst |-> e.src]
    BY <2>1 DEF Predecessors
  <2>3. e \in links /\ e.src \in Found /\ e \in Links(Nodes)
    BY DEF Kept, Finished, Tree
  <2>4. e = [src |-> e.src, dst |-> e.dst]
    BY <2>3 DEF Links
  <2>5. QED
    BY <2>2, <2>3, <2>4
<1>5. ASSUME NEW j \in 1..Len(preds), NEW k \in 1..Len(preds), j < k PROVE preds[j].src <= preds[k].src
  <2>1. LinkLess(preds[j], preds[k])
    BY <1>1, <1>5 DEF StrictlySorted
  <2>2. QED
    <3>1. preds[j].src < preds[k].src \/ preds[j].src = preds[k].src
      BY <2>1 DEF LinkLess
    <3>2. preds[j].src \in Nat /\ preds[k].src \in Nat
      BY <1>3
    <3>3. QED
      BY <3>1, <3>2
<1>6. \A v \in Nodes : LET p == LinkLowerBound(preds, [src |-> v, dst |-> 0])
                             IN  /\ p \in 1..(Len(preds) + 1)
                                 /\ \A k \in 1..Len(preds) : preds[k].src < v <=> k < p
  BY <1>1, NodesAreNaturals, LinkLowerBoundSplits
<1>7. ASSUME NEW e \in links, e.src \in Found
      PROVE  \E k \in 1..Len(preds) : preds[k] = [src |-> e.dst, dst |-> e.src]
  <2>1. [src |-> e.dst, dst |-> e.src] \in LinksOf(preds)
    BY <1>7 DEF Predecessors, Kept
  <2>2. QED
    BY <2>1 DEF LinksOf
<1>8. QED
  BY <1>2, <1>3, <1>4, <1>5, <1>6, <1>7

(* What is not disturbed by a step that stays at a node or goes to one.    *)
LEMMA NodeKept ==
  ASSUME Working, Steady, UNCHANGED <<i, semi, ancestor, label, bucket, dominator>>,
         Descending, Descending', Lowest' = Lowest, "dominate" \notin {pc, pc'}
  PROVE  Semidominators' /\ Lowered' /\ Forest' /\ Linked' /\ Buckets'
<1>1. Found' = Found /\ num' = num /\ UNCHANGED <<edges, n, vertex, parent>>
  BY TreeKept DEF Steady
<1>2. \A v : Settled(v)' <=> Settled(v)
  BY <1>1, TreeKept DEF Settled
<1>3. \A p, v : InBucket(v, p)' <=> InBucket(v, p)
  BY DEF InBucket
<1>4. Semidominators' /\ Forest'
  BY <1>1, SemidominatorsKept, ForestKept DEF Working, Dominating
<1> HIDE DEF Found, num, Settled, InBucket
<1>5. pc # "dominate" /\ pc' # "dominate" /\ pc # "explicit" /\ pc' # "explicit"
  BY DEF Descending, AtNode
<1>6. Lowered' /\ Linked'
  BY <1>1, <1>5 DEF Lowered, Linked, Working, Dominating
<1>7. Buckets'
  BY <1>1, <1>2, <1>3, <1>5 DEF Buckets, Working, Dominating
<1>8. QED
  BY <1>4, <1>6, <1>7

LEMMA StartNodeStep ==
  ASSUME Working, Steady, dots \in Nat \ {0}, UNCHANGED dots, L!StartNode
  PROVE  Semidominators' /\ Dominating'
<1>1. /\ pc = "loop" /\ pc' = "preds" /\ i > 0 /\ L!DotInterval # 0
      /\ vertex[i] # 0 /\ semi[vertex[i]] = i
      /\ ptr' = LinkLowerBound(preds, [src |-> vertex[i], dst |-> 0])
      /\ UNCHANGED <<i, semi, dominator, ancestor, label, bucket, arg, calls, unwinding>>
  BY DEF L!StartNode, L!InLoop, L!Node, L!NodeAsExpected, L!FirstPred, L!forest, L!evaluation,
         L!LinkLowerBound, LinkLowerBound, L!LinkLess, LinkLess, L!PartitionPoint, PartitionPoint
<1>2. Lowest = i + 1 /\ Lowest' = i + 1 /\ Descending /\ Descending'
  BY <1>1 DEF Lowest, Descending, AtNode
<1>3. Semidominators' /\ Lowered' /\ Forest' /\ Linked' /\ Buckets'
  BY <1>1, <1>2, NodeKept
<1>4. i \in 1..(n - 1) /\ vertex[i] \in Nodes /\ n \in Nat /\ i \in Nodes
  <2>1. i \in Nodes
    BY <1>1, NumNodesAssumption DEF Nodes, Working, Dominating, DominateTypes, Position
  <2>2. QED
    BY <1>1, <2>1, NumberOfNode, FoundNodes, NumNodesAssumption DEF Working, Finished, Numbering
<1>5. Ahead(i - 1)
  <2>1. Ahead(i) \/ (i >= n - 1 /\ LastLowered)
    BY <1>1 DEF Working, Dominating, Position
  <2>2. CASE i >= n - 1 /\ LastLowered
    <3>1. i = n - 1 /\ semi[vertex[i]] < i
      BY <2>2, <1>4 DEF LastLowered
    <3>2. QED
      BY <3>1, <1>1, <1>4
  <2>3. CASE Ahead(i)
    BY <2>3, <1>4 DEF Ahead
  <2>4. QED
    BY <2>1, <2>2, <2>3
<1>6. Position'
  <2>1. Ahead(i - 1)'
    BY <1>5, <1>1 DEF Ahead, Steady
  <2>2. n' = n /\ i' = i
    BY <1>1 DEF Steady
  <2>3. QED
    BY <2>1, <2>2, <1>1, <1>4 DEF Position
<1>7. /\ ptr' \in 1..(Len(preds) + 1)
      /\ \A k \in 1..Len(preds) : preds[k].src < vertex[i] <=> k < ptr'
  BY <1>1, <1>4, PredecessorFacts DEF Working
<1>8. DominateTypes'
  BY <1>1, <1>7 DEF DominateTypes, Working, Dominating, Steady
<1>9. \A k \in 1..Len(preds) : k < ptr' => preds[k] # [src |-> vertex[i], dst |-> parent[vertex[i]]]
  <2>1. SUFFICES ASSUME NEW k \in 1..Len(preds), k < ptr', preds[k].src = vertex[i] PROVE FALSE
    OBVIOUS
  <2>2. preds[k].src < vertex[i] /\ preds[k].src \in Nat
    BY <2>1, <1>7, PredecessorFacts DEF Working
  <2>3. QED
    BY <2>1, <2>2
<1>10. Scanning'
  BY <1>1, <1>7, <1>9 DEF Scanning, Steady
<1>11. calls = << >>
  BY <1>1 DEF Climbing, Working, Dominating
<1>12. Fresh' /\ Explicitly' /\ Climbing'
  BY <1>1, <1>11 DEF Fresh, Explicitly, Climbing
<1>13. DominateStuck'
  BY <1>1, DotsEnough, NumNodesAssumption DEF DominateStuck, Working
<1>14. QED
  BY <1>3, <1>6, <1>8, <1>10, <1>12, <1>13 DEF Dominating

LEMMA EvalPredStep ==
  ASSUME Working, Steady, UNCHANGED dots, L!EvalPred
  PROVE  Semidominators' /\ Dominating'
<1>1. /\ pc = "preds" /\ pc' = "lower" /\ ptr <= Len(preds) /\ preds[ptr].src = vertex[i]
      /\ arg' = preds[ptr].dst /\ unwinding' = FALSE
      /\ calls' = IF ancestor[arg'] = 0 THEN << >> ELSE <<arg'>>
      /\ UNCHANGED <<i, semi, dominator, ancestor, label, bucket, ptr>>
  BY DEF L!EvalPred, L!AtPred, L!Node, L!Eval, L!forest
<1>2. Lowest = i + 1 /\ Lowest' = i + 1 /\ Descending /\ Descending'
  BY <1>1 DEF Lowest, Descending, AtNode
<1>3. Semidominators' /\ Lowered' /\ Forest' /\ Linked' /\ Buckets'
  BY <1>1, <1>2, NodeKept
<1>4. Position'
  <2>1. i \in 1..(n - 1) /\ Ahead(i - 1)
    BY <1>1 DEF Working, Dominating, Position, AtNode
  <2>2. Ahead(i - 1)'
    BY <2>1, <1>1 DEF Ahead, Steady
  <2>3. QED
    BY <2>1, <2>2, <1>1 DEF Position, AtNode, Steady
<1>5. ptr \in 1..Len(preds) /\ arg' \in Nodes
  <2>1. ptr \in 1..Len(preds)
    BY <1>1, PredecessorFacts DEF Working, Dominating, DominateTypes
  <2>2. QED
    BY <2>1, <1>1, PredecessorFacts DEF Working
<1>6. calls' \in Seq(Nodes) /\ (calls' # << >> => ancestor[arg'] # 0 /\ Len(calls') = 1 /\ calls'[1] = arg')
  BY <1>1, <1>5
<1>7. DominateTypes'
  BY <1>1, <1>5, <1>6 DEF DominateTypes, Working, Dominating, Steady
<1>8. Scanning'
  <2>1. UNCHANGED <<i, semi, num, preds, vertex, parent, ptr>>
    BY <1>1, TreeKept DEF Steady
  <2>2. ptr' <= Len(preds') /\ preds'[ptr'].src = vertex'[i'] /\ preds'[ptr'].dst = arg'
    BY <1>1, <2>1
  <2> HIDE DEF num
  <2>3. QED
    BY <1>1, <2>1, <2>2 DEF Scanning, Working, Dominating
<1>9. Climbing'
  <2>1. CASE calls' = << >>
    BY <2>1 DEF Climbing
  <2>2. CASE calls' # << >>
    <3>1. \A k \in 1..Len(calls') : k = 1 /\ calls'[k] = arg' /\ ~ (k > 1) /\ 1..(k - 1) = {}
      BY <2>2, <1>6
    <3>2. QED
      BY <3>1, <2>2, <1>1, <1>6 DEF Climbing
  <2>3. QED
    BY <2>1, <2>2
<1>10. Fresh' /\ Explicitly' /\ DominateStuck'
  BY <1>1 DEF Fresh, Explicitly, DominateStuck, Working, Dominating
<1>11. QED
  BY <1>3, <1>4, <1>7, <1>8, <1>9, <1>10 DEF Dominating

(* What EVAL(arg) returns, once the calls of COMPRESS are done: arg, or a  *)
(* linked node above it.                                                   *)
LEMMA ResultFacts ==
  ASSUME Working, arg \in Found
  PROVE  /\ L!Result \in Found /\ Above(L!Result, arg)
         /\ L!Result = arg \/ ancestor[L!Result] # 0
         /\ ancestor[arg] = 0 => L!Result = arg
<1>1. arg \in Nodes /\ Found \subseteq Nodes
  BY FoundNodes DEF Working, Finished
<1>2. L!Result = IF ancestor[arg] = 0 THEN arg ELSE label[arg]
  BY DEF L!Result
<1>3. Above(arg, arg)
  BY AboveLaws
<1> HIDE DEF Found, num, Above
<1>4. ASSUME ancestor[arg] # 0
      PROVE  label[arg] \in Found /\ Above(label[arg], arg) /\ ancestor[label[arg]] # 0
  BY <1>1, <1>4 DEF Working, Dominating, Forest
<1>5. QED
  BY <1>2, <1>3, <1>4

LEMMA LowerSemiStep ==
  ASSUME Working, Steady, UNCHANGED dots, L!LowerSemi
  PROVE  Semidominators' /\ Dominating'
<1> DEFINE w == vertex[i]
           r == L!Result
<1>1. /\ pc = "lower" /\ pc' = "preds" /\ calls = << >> /\ ptr' = ptr + 1
      /\ semi' = IF semi[r] < semi[w] THEN [semi EXCEPT ![w] = semi[r]] ELSE semi
      /\ UNCHANGED <<i, dominator, ancestor, label, bucket, arg, calls, unwinding>>
  BY DEF L!LowerSemi, L!Evaluated, L!Node, L!forest, L!evaluation
<1>2. Found' = Found /\ num' = num /\ UNCHANGED <<edges, n, vertex, parent, preds>>
  BY TreeKept DEF Steady
<1>3. /\ w \in Found \ {0} /\ w \in Nodes \ {0} /\ num[w] = i /\ i \in 1..(n - 1) /\ i \in Nat /\ n \in Nat
      /\ parent[w] \in Found /\ parent[w] \in Nodes /\ num[parent[w]] \in Nat /\ num[parent[w]] < i
      /\ [src |-> parent[w], dst |-> w] \in links
  BY <1>1, AtNodeFacts DEF Working, Dominating, AtNode
<1>4. /\ ptr \in 1..Len(preds) /\ Len(preds) \in Nat /\ preds[ptr] = [src |-> w, dst |-> arg]
      /\ arg \in Found /\ [src |-> arg, dst |-> w] \in links
  <2>1. ptr <= Len(preds) /\ preds[ptr].src = w /\ preds[ptr].dst = arg
    BY <1>1 DEF Working, Dominating, Scanning
  <2>2. ptr \in 1..Len(preds) /\ Len(preds) \in Nat
    BY <2>1, PredecessorFacts DEF Working, Dominating, DominateTypes
  <2>3. QED
    BY <2>1, <2>2, PredecessorFacts DEF Working
<1>5. /\ Found \subseteq Nodes /\ \A v \in Found : num[v] \in Nat /\ num[v] < n
      /\ \A v \in Found : vertex[num[v]] = v
      /\ \A j \in 0..(n - 1) : vertex[j] \in Found /\ num[vertex[j]] = j
      /\ num[0] = 0 /\ 0 \in Found /\ n \in 1..NumNodes
  BY FoundNodes, NumberOfNode DEF Working, Finished, Numbering
<1>6. semi \in [Nodes -> Nodes] /\ semi[0] = 0 /\ \A v \in Nodes : semi[v] \in Nat
  BY NodesAreNaturals DEF Working, Semidominators
<1>7. r \in Found /\ Above(r, arg) /\ (r = arg \/ ancestor[r] # 0) /\ (ancestor[arg] = 0 => r = arg)
  BY <1>4, ResultFacts
<1>8. \A v \in Found \ {0} : ancestor[v] # 0 => num[v] >= i + 1
  BY <1>1 DEF Working, Dominating, Linked, Lowest, Descending, AtNode
<1>9. \A j \in 1..(i - 1) : j < n => semi[vertex[j]] = j
  BY <1>1 DEF Working, Dominating, Position, AtNode, Ahead
<1>10. ancestor \in [Nodes -> Nodes] /\ \A v \in Nodes : ancestor[v] # 0 => v \in Found \ {0}
  BY DEF Working, Dominating, DominateTypes, Forest
<1> HIDE DEF Found, num, Above, Doms, w, r
<1>11. /\ semi' \in [Nodes -> Nodes] /\ semi'[0] = 0
       /\ \A v \in Nodes : v # w => semi'[v] = semi[v]
       /\ semi'[w] <= semi[w] /\ semi'[w] <= semi[r] /\ semi'[w] \in Nat
       /\ semi'[w] = semi[w] \/ (semi'[w] = semi[r] /\ semi[r] < semi[w])
  BY <1>1, <1>3, <1>5, <1>6, <1>7
<1>12. semi[w] <= i /\ semi[w] \in Nat
  BY <1>3, <1>6 DEF Working, Semidominators
(* Nodes with numbers below i are as dfs numbered them. *)
<1>13. \A u \in Found : num[u] < i => semi[u] = num[u]
  <2>1. SUFFICES ASSUME NEW u \in Found, num[u] < i PROVE semi[u] = num[u]
    OBVIOUS
  <2>2. CASE num[u] = 0
    BY <2>2, <1>5, <1>6
  <2>3. CASE num[u] # 0
    <3>1. num[u] \in 1..(i - 1) /\ num[u] < n
      BY <2>1, <2>3, <1>3, <1>5
    <3>2. QED
      BY <3>1, <1>9, <1>5
  <2>4. QED
    BY <2>2, <2>3
(* The node named by semi[r], if lower, is above w, and no dominator of w  *)
(* lies below it.                                                          *)
<1>14. ASSUME semi[r] < semi[w]
       PROVE  Above(vertex[semi[r]], w) /\ \A x \in Doms(w) : num[x] <= semi[r]
  <2>1. r # w /\ num[r] # i
    <3>1. r # w
      BY <1>14, <1>12
    <3>2. vertex[num[r]] = r /\ vertex[num[w]] = w
      BY <1>3, <1>5, <1>7
    <3>3. QED
      BY <3>1, <3>2, <1>3
  <2>2. CASE num[r] < i
    <3>1. r = arg
      <4>1. CASE r = 0
        <5>1. ancestor[r] = 0
          BY <4>1, <1>10, <1>5
        <5>2. QED
          BY <5>1, <1>7
      <4>2. CASE r # 0
        <5>1. ~ (num[r] >= i + 1)
          BY <2>2, <1>3, <1>5, <1>7
        <5>2. QED
          BY <5>1, <4>2, <1>7, <1>8
      <4>3. QED
        BY <4>1, <4>2
    <3>2. semi[r] = num[r] /\ vertex[semi[r]] = r
      BY <2>2, <1>5, <1>7, <1>13
    <3>3. Above(r, w)
      <4>1. [src |-> r, dst |-> w].src = r /\ [src |-> r, dst |-> w].dst = w
        OBVIOUS
      <4>2. QED
        BY <3>1, <4>1, <2>2, <1>3, <1>4, <1>7 DEF Working, Finished, Tree
    <3>4. ASSUME NEW x \in Doms(w) PROVE num[x] <= num[r]
      <4>1. x = r \/ x \in Doms(r)
        BY <3>1, <1>3, <1>4, DominatorOfPred DEF Working
      <4>2. CASE x = r
        BY <4>2, <1>5, <1>7
      <4>3. CASE x \in Doms(r)
        <5>1. x \in Found /\ num[x] < num[r]
          BY <4>3, <1>7, DominatorsAbove DEF Working
        <5>2. QED
          BY <5>1, <1>5, <1>7
      <4>4. QED
        BY <4>1, <4>2, <4>3
    <3>5. QED
      BY <3>2, <3>3, <3>4
  <2>3. CASE num[r] > i
    <3>1. r \in Found \ {0} /\ r \in Nodes
      BY <2>3, <1>3, <1>5, <1>7
    <3>2. Above(vertex[semi[r]], r) /\ semi[r] <= num[r] /\ \A x \in Doms(r) : num[x] <= semi[r]
      BY <3>1 DEF Working, Semidominators
    <3>3. semi[r] \in 0..(n - 1) /\ semi[r] < i
      BY <1>14, <1>12, <1>3, <1>6, <3>1
    <3>4. Above(vertex[semi[r]], w)
      <4>1. vertex[semi[r]] \in Found /\ num[vertex[semi[r]]] = semi[r]
        BY <3>3, <1>5
      <4>2. num[vertex[semi[r]]] <= num[w] /\ num[w] <= num[r]
        BY <4>1, <3>3, <2>3, <1>3, <1>5, <1>6, <3>1
      <4>3. QED
        BY <4>1, <4>2, <3>1, <3>2, <1>3 DEF Working, Finished, Tree
    <3>5. ASSUME NEW x \in Doms(w) PROVE num[x] <= semi[r]
      <4>1. x \in Found /\ num[x] < i /\ num[x] \in Nat
        BY <1>3, <1>5, DominatorsAbove DEF Working
      <4>2. num[r] <= num[arg] /\ num[r] \in Nat /\ num[arg] \in Nat
        BY <1>4, <1>5, <1>7, AboveFound DEF Working
      <4>3. x # arg /\ num[x] < num[r]
        BY <4>1, <4>2, <2>3, <1>3
      <4>4. x \in Doms(arg)
        BY <4>3, <1>3, <1>4, DominatorOfPred DEF Working
      <4>5. x \in Doms(r)
        BY <4>3, <4>4, <1>4, <1>7, DominatorUpTheTree DEF Working
      <4>6. QED
        BY <4>5, <3>2
    <3>6. QED
      BY <3>4, <3>5
  <2>4. QED
    BY <2>1, <2>2, <2>3, <1>3, <1>5, <1>7
<1>15. Semidominators'
  <2>1. ASSUME NEW v \in Found \ {0}
        PROVE  /\ semi'[v] <= num[v] /\ Above(vertex[semi'[v]], v)
               /\ \A x \in Doms(v) : num[x] <= semi'[v]
    <3>1. semi[v] <= num[v] /\ Above(vertex[semi[v]], v) /\ \A x \in Doms(v) : num[x] <= semi[v]
      BY DEF Working, Semidominators
    <3>2. CASE semi'[v] = semi[v]
      BY <3>1, <3>2
    <3>3. CASE semi'[v] # semi[v]
      <4>1. v = w /\ semi'[w] = semi[r] /\ semi[r] < semi[w]
        BY <3>3, <1>5, <1>11
      <4>2. semi[r] <= i /\ num[v] = i
        BY <4>1, <1>3, <1>5, <1>6, <1>7, <1>12
      <4>3. QED
        BY <4>1, <4>2, <1>14
    <3>4. QED
      BY <3>2, <3>3
  <2>2. Clean' \/ LastLowered'
    <3>1. LastLowered' <=> semi'[vertex[n - 1]] < n - 1
      BY <1>2 DEF LastLowered
    <3>2. vertex[n - 1] \in Found /\ num[vertex[n - 1]] = n - 1 /\ n - 1 \in Nat
      BY <1>3, <1>5
    <3>3. semi'[vertex[n - 1]] <= semi[vertex[n - 1]] /\ semi'[vertex[n - 1]] \in Nat
      BY <3>2, <1>5, <1>6, <1>11
    <3>4. CASE LastLowered
      BY <3>1, <3>2, <3>3, <3>4, <1>5, <1>6 DEF LastLowered
    <3>5. CASE Clean /\ semi' = semi
      BY <3>5, <1>2 DEF Clean
    <3>6. CASE Clean /\ semi' # semi
      <4>1. semi[r] < semi[w] /\ semi'[w] = semi[r]
        BY <3>6, <1>1, <1>3, <1>6
      <4>2. CASE i = n - 1
        <5>1. vertex[n - 1] = w
          BY <4>2, <1>3, <1>5
        <5>2. QED
          BY <5>1, <4>1, <4>2, <3>1, <1>6, <1>7, <1>5, <1>12
      <4>3. CASE i # n - 1
        <5>1. vertex[n - 1] \in Found \ {0} /\ num[vertex[n - 1]] >= i + 1
          BY <4>3, <3>2, <1>3, <1>5
        <5>2. semi[vertex[n - 1]] < num[vertex[n - 1]]
          BY <5>1, <1>1 DEF Working, Dominating, Lowered, Lowest, Descending, AtNode
        <5>3. LastLowered
          BY <5>2, <3>2 DEF LastLowered
        <5>4. QED
          BY <5>3, <3>4
      <4>4. QED
        BY <4>2, <4>3
    <3>7. QED
      BY <3>4, <3>5, <3>6 DEF Working, Semidominators
  <2>3. \A v, x : Above(v, x)' <=> Above(v, x)
    BY <1>2, TreeKept
  <2>4. \A v : Doms(v)' = Doms(v)
    BY <1>2, TreeKept
  <2>5. QED
    BY <2>1, <2>2, <2>3, <2>4, <1>2, <1>11 DEF Semidominators
<1>16. Lowest' = i + 1 /\ Lowest = i + 1 /\ Descending /\ Descending'
  BY <1>1 DEF Lowest, Descending, AtNode
<1>17. \A v \in Found : num[v] >= i + 1 => v # w
  BY <1>3
<1>18. Lowered'
  <2>1. \A v \in Found \ {0} : num[v] >= i + 1 => semi[v] < num[v]
    BY <1>16 DEF Lowered, Working, Dominating
  <2>2. QED
    BY <2>1, <1>1, <1>2, <1>5, <1>11, <1>16, <1>17 DEF Lowered
<1>19. Linked'
  BY <1>1, <1>2, <1>16 DEF Linked, Working, Dominating
<1>20. Forest'
  <2>1. ancestor[w] = 0
    BY <1>3, <1>8
  <2>2. ASSUME NEW v \in Nodes, ancestor[v] # 0
        PROVE  /\ v \in Found \ {0} /\ Above(ancestor[v], parent[v])
               /\ label[v] \in Found /\ Above(label[v], v) /\ num[ancestor[v]] < num[label[v]]
               /\ \A x \in Found : Above(x, v) /\ num[ancestor[v]] < num[x] =>
                    ancestor[x] # 0 /\ semi'[label[v]] <= semi'[x]
    <3>1. /\ v \in Found \ {0} /\ Above(ancestor[v], parent[v])
          /\ label[v] \in Found /\ Above(label[v], v) /\ num[ancestor[v]] < num[label[v]]
          /\ \A x \in Found : Above(x, v) /\ num[ancestor[v]] < num[x] =>
                    ancestor[x] # 0 /\ semi[label[v]] <= semi[x]
      BY <2>2 DEF Forest, Working, Dominating
    <3>2. label[v] # w
      BY <3>1, <2>1
    <3>3. ASSUME NEW x \in Found, Above(x, v), num[ancestor[v]] < num[x]
          PROVE  ancestor[x] # 0 /\ semi'[label[v]] <= semi'[x]
      <4>1. ancestor[x] # 0 /\ semi[label[v]] <= semi[x]
        BY <3>1, <3>3
      <4>2. x # w
        BY <4>1, <2>1
      <4>3. QED
        BY <4>1, <4>2, <3>1, <3>2, <1>5, <1>11
    <3>4. QED
      BY <3>1, <3>3
  <2>3. \A v \in Nodes : ancestor[v] = 0 => label[v] = v
    BY DEF Forest, Working, Dominating
  <2>4. \A v, x : Above(v, x)' <=> Above(v, x)
    BY <1>2, TreeKept
  <2>5. QED
    BY <2>2, <2>3, <2>4, <1>1, <1>2 DEF Forest
<1>21. Position'
  <2>1. \A j \in 1..(i - 1) : j < n => vertex[j] \in Nodes /\ vertex[j] # w
    <3>1. SUFFICES ASSUME NEW j \in 1..(i - 1), j < n PROVE vertex[j] \in Nodes /\ vertex[j] # w
      OBVIOUS
    <3>2. j \in 0..(n - 1) /\ j # i
      BY <1>3
    <3>3. QED
      BY <3>2, <1>3, <1>5
  <2>2. Ahead(i - 1)'
    BY <2>1, <1>1, <1>2, <1>9, <1>11 DEF Ahead
  <2>3. QED
    BY <2>2, <1>1, <1>2, <1>3 DEF Position
<1>22. Buckets'
  <2>1. \A p, v : InBucket(v, p)' <=> InBucket(v, p)
    BY <1>1 DEF InBucket
  <2>2. \A v \in Found \ {0} : num[v] >= i + 1 => (Settled(v)' <=> Settled(v))
    <3>1. \A v, x : Above(v, x)' <=> Above(v, x)
      BY <1>2, TreeKept
    <3>2. QED
      BY <3>1, <1>1, <1>2, <1>5, <1>11, <1>17 DEF Settled
  <2>3. ASSUME NEW p \in Nodes, NEW v \in Nodes, InBucket(v, p)
        PROVE /\ v \in Found \ {0} /\ num[v] >= i + 1 /\ vertex[semi'[v]] = p
              /\ \E c \in Found \ {0} : parent[c] = p /\ num[c] <= i
    <3>1. /\ v \in Found \ {0} /\ num[v] >= i + 1 /\ vertex[semi[v]] = p
          /\ \E c \in Found \ {0} : parent[c] = p /\ num[c] <= i
      BY <2>3, <1>16 DEF Buckets, Working, Dominating
    <3>2. QED
      BY <3>1, <1>5, <1>11, <1>17
  <2>4. \A v \in Found \ {0} : num[v] >= i + 1 => (\E p \in Nodes : InBucket(v, p)) \/ Settled(v)
    BY <1>1, <1>16 DEF Working, Dominating, Buckets
  <2> HIDE DEF InBucket, Settled
  <2>5. pc' # "dominate"
    BY <1>1
  <2>6. QED
    BY <2>1, <2>2, <2>3, <2>4, <2>5, <1>1, <1>2, <1>16 DEF Buckets
<1>23. Scanning'
  <2>1. /\ \A k \in 1..Len(preds) : preds[k].src < w => k < ptr
        /\ \A k \in 1..Len(preds) :
            k < ptr /\ preds[k] = [src |-> w, dst |-> parent[w]] => semi[w] <= num[parent[w]]
    BY <1>1 DEF Scanning, Working, Dominating, w
  <2>2. preds[ptr] = [src |-> w, dst |-> parent[w]] => semi'[w] <= num[parent[w]]
    <3>1. SUFFICES ASSUME preds[ptr] = [src |-> w, dst |-> parent[w]] PROVE semi'[w] <= num[parent[w]]
      OBVIOUS
    <3>2. arg = parent[w]
      <4>1. preds[ptr].dst = arg /\ preds[ptr].dst = parent[w]
        BY <3>1, <1>4
      <4>2. QED
        BY <4>1
    <3>3. ancestor[arg] = 0
      <4>1. CASE arg = 0
        BY <4>1, <1>5, <1>10
      <4>2. CASE arg # 0
        BY <4>2, <3>2, <1>3, <1>8
      <4>3. QED
        BY <4>1, <4>2
    <3>4. r = parent[w] /\ semi[r] = num[parent[w]]
      BY <3>2, <3>3, <1>3, <1>7, <1>13
    <3>5. QED
      BY <3>4, <1>11
  <2>3. ASSUME NEW k \in 1..Len(preds), k < ptr + 1, preds[k] = [src |-> w, dst |-> parent[w]]
        PROVE  semi'[w] <= num[parent[w]]
    <3>1. CASE k = ptr
      BY <3>1, <2>2, <2>3
    <3>2. CASE k # ptr
      <4>1. k < ptr
        BY <3>2, <2>3, <1>4
      <4>2. semi[w] <= num[parent[w]]
        BY <4>1, <2>1, <2>3
      <4>3. QED
        BY <4>2, <1>3, <1>11, <1>12
    <3>3. QED
      BY <3>1, <3>2
  <2>4. \A k \in 1..Len(preds) : preds[k].src < w => k < ptr + 1
    BY <2>1, <1>4
  <2>5. w' = w
    BY <1>1, <1>2 DEF w
  <2>6. pc' # "lower" /\ pc' = "preds" /\ vertex[i] = w
    BY <1>1 DEF w
  <2>7. QED
    BY <2>3, <2>4, <2>6, <1>1, <1>2 DEF Scanning
<1>24. DominateTypes'
  <2>1. ptr + 1 \in 1..(Len(preds) + 1)
    BY <1>4
  <2>2. QED
    BY <2>1, <1>1, <1>2 DEF DominateTypes, Working, Dominating
<1>25. Fresh' /\ Climbing' /\ Explicitly' /\ DominateStuck'
  BY <1>1 DEF Fresh, Climbing, Explicitly, DominateStuck, Working, Dominating
<1>26. QED
  BY <1>15, <1>18, <1>19, <1>20, <1>21, <1>22, <1>23, <1>24, <1>25 DEF Dominating

(* Above a node and other than that node there is a child on the way down. *)
LEMMA ChildTowards ==
  ASSUME Finished, NEW p \in Found
  PROVE  \A w \in Found : Above(p, w) /\ p # w =>
           \E c \in Found \ {0} : parent[c] = p /\ Above(c, w) /\ num[c] <= num[w]
<1> HIDE DEF Above
<1> DEFINE S == {w \in Found : Above(p, w) /\ p # w =>
                   \E c \in Found \ {0} : parent[c] = p /\ Above(c, w) /\ num[c] <= num[w]}
<1>1. 0 \in S
  BY AboveLaws, FoundNodes DEF Finished
<1>2. ASSUME NEW v \in Found \ {0}, parent[v] \in S PROVE v \in S
  <2>1. SUFFICES ASSUME Above(p, v), p # v
                 PROVE  \E c \in Found \ {0} : parent[c] = p /\ Above(c, v) /\ num[c] <= num[v]
    OBVIOUS
  <2>2. Above(p, parent[v]) /\ v \in Nodes \ {0} /\ parent[v] \in Found
    BY <2>1, AboveLaws, FoundNodes DEF Finished, Tree
  <2>3. Above(v, v) /\ Above(parent[v], v)
    BY <2>2, AboveLaws
  <2>4. CASE p = parent[v]
    <3>1. num[v] <= num[v]
      BY FoundNodes DEF Finished, Numbering
    <3>2. QED
      BY <2>3, <2>4, <3>1
  <2>5. CASE p # parent[v]
    <3>1. PICK c \in Found \ {0} : parent[c] = p /\ Above(c, parent[v])
      BY <1>2, <2>2, <2>5
    <3>2. Above(c, v)
      BY <3>1, <2>3, AboveLaws
    <3>3. num[c] <= num[v]
      BY <3>2, AboveFound
    <3>4. QED
      BY <3>1, <3>2, <3>3
  <2>6. QED
    BY <2>4, <2>5
<1> HIDE DEF S
<1>3. Found \subseteq S
  BY <1>1, <1>2, DownTheTree
<1>4. QED
  BY <1>3 DEF S

LEMMA FinishNodeStep ==
  ASSUME Working, Steady, UNCHANGED dots, L!FinishNode
  PROVE  Semidominators' /\ Dominating'
<1> DEFINE w == vertex[i]
           p0 == vertex[semi[w]]
<1>1. /\ pc = "preds" /\ pc' = "drain" /\ ~ (ptr <= Len(preds) /\ preds[ptr].src = w)
      /\ bucket' = [bucket EXCEPT ![p0] = Append(@, w)]
      /\ ancestor' = [ancestor EXCEPT ![w] = parent[w]]
      /\ UNCHANGED <<i, semi, dominator, label, ptr, arg, calls, unwinding>>
  BY DEF L!FinishNode, L!AtPred, L!Node, L!Semidominator, L!Link, L!evaluation
<1>2. Found' = Found /\ num' = num /\ UNCHANGED <<edges, n, vertex, parent, preds>>
  BY TreeKept DEF Steady
<1>3. /\ w \in Found \ {0} /\ w \in Nodes \ {0} /\ num[w] = i /\ i \in 1..(n - 1) /\ i \in Nat /\ n \in Nat
      /\ parent[w] \in Found /\ parent[w] \in Nodes /\ num[parent[w]] \in Nat /\ num[parent[w]] < i
      /\ [src |-> parent[w], dst |-> w] \in links
  BY <1>1, AtNodeFacts DEF Working, Dominating, AtNode
<1>4. /\ Found \subseteq Nodes /\ \A v \in Found : num[v] \in Nat /\ num[v] < n
      /\ \A v \in Found : vertex[num[v]] = v
      /\ \A j \in 0..(n - 1) : vertex[j] \in Found /\ num[vertex[j]] = j
      /\ num[0] = 0 /\ 0 \in Found /\ n \in 1..NumNodes
      /\ \A v, x \in Found : num[v] = num[x] => v = x
  BY FoundNodes, NumberOfNode DEF Working, Finished, Numbering
<1>5. semi \in [Nodes -> Nodes] /\ semi[0] = 0 /\ \A v \in Nodes : semi[v] \in Nat
  BY NodesAreNaturals DEF Working, Semidominators
<1>6. \A v \in Found \ {0} : ancestor[v] # 0 <=> num[v] >= i + 1 /\ parent[v] # 0
  BY <1>1 DEF Working, Dominating, Linked, Lowest, Descending, AtNode
<1>7. ancestor \in [Nodes -> Nodes] /\ bucket \in [Nodes -> Seq(Nodes)]
  BY DEF Working, Dominating, DominateTypes
<1>8. \A v, x : Above(v, x)' <=> Above(v, x)
  BY <1>2, TreeKept
<1>9. vertex \in [Nodes -> Nodes]
  BY DEF Working, Finished, Numbering
<1> HIDE DEF Found, num, Above, Doms, w
<1>10. Lowest' = i /\ Lowest = i + 1 /\ Descending /\ Descending'
  BY <1>1 DEF Lowest, Descending, AtNode
<1>11. \A v \in Found : num[v] >= i <=> v = w \/ num[v] >= i + 1
  BY <1>3, <1>4
<1>12. Semidominators'
  BY <1>1, <1>2, SemidominatorsKept DEF Working
(* The tree parent is among the predecessors, all of which have been seen. *)
<1>13. semi[w] <= num[parent[w]]
  <2>1. PICK k \in 1..Len(preds) : preds[k] = [src |-> w, dst |-> parent[w]]
    <3>1. [src |-> parent[w], dst |-> w].src \in Found
      BY <1>3
    <3>2. \E k \in 1..Len(preds) :
            preds[k] = [src |-> [src |-> parent[w], dst |-> w].dst, dst |-> [src |-> parent[w], dst |-> w].src]
      BY <3>1, <1>3, PredecessorFacts DEF Working
    <3>3. QED
      BY <3>2
  <2>2. preds[k].src = w
    BY <2>1
  <2>3. ptr \in Nat /\ Len(preds) \in Nat /\ ptr >= 1
    BY PredecessorFacts DEF Working, Dominating, DominateTypes
  <2>4. ASSUME ~ (k < ptr) PROVE FALSE
    <3>1. ptr \in 1..Len(preds)
      BY <2>3, <2>4
    <3>2. preds[ptr].src # w
      BY <1>1, <3>1
    <3>3. ~ (preds[ptr].src < w)
      BY <1>1, <3>1, <2>3 DEF Scanning, Working, Dominating, w
    <3>4. ptr < k
      BY <2>2, <2>4, <3>1, <3>2
    <3>5. preds[ptr].src <= w /\ preds[ptr].src \in Nat /\ w \in Nat
      BY <3>1, <3>4, <2>2, <1>3, PredecessorFacts, NodesAreNaturals DEF Working
    <3>6. QED
      BY <3>2, <3>3, <3>5
  <2>5. QED
    BY <2>1, <2>4, <1>1 DEF Scanning, Working, Dominating, w
<1>14. semi[w] < i /\ semi[w] \in 0..(n - 1) /\ semi[w] \in Nat
  BY <1>3, <1>5, <1>13
<1>15. p0 \in Found /\ num[p0] = semi[w] /\ p0 # w /\ Above(p0, w)
  <2>1. p0 \in Found /\ num[p0] = semi[w]
    BY <1>4, <1>14
  <2>2. Above(p0, w)
    BY <1>3 DEF Semidominators, Working
  <2>3. QED
    BY <2>1, <2>2, <1>3, <1>14
<1> HIDE DEF p0
<1>16. Lowered'
  <2>1. \A v \in Found \ {0} : num[v] >= i + 1 => semi[v] < num[v]
    BY <1>10 DEF Lowered, Working, Dominating
  <2>2. QED
    BY <2>1, <1>1, <1>2, <1>3, <1>10, <1>11, <1>14 DEF Lowered
<1>17. /\ ancestor'[w] = parent[w] /\ \A v \in Nodes : v # w => ancestor'[v] = ancestor[v]
       /\ ancestor' \in [Nodes -> Nodes]
  BY <1>1, <1>3, <1>7
<1>18. Linked'
  <2>1. ASSUME NEW v \in Found \ {0} PROVE ancestor'[v] # 0 <=> num[v] >= i /\ parent[v] # 0
    <3>1. CASE v = w
      BY <3>1, <1>11, <1>17
    <3>2. CASE v # w
      BY <3>2, <1>4, <1>6, <1>11, <1>17
    <3>3. QED
      BY <3>1, <3>2
  <2>2. QED
    BY <2>1, <1>2, <1>10 DEF Linked
<1>19. ancestor[w] = 0 /\ label[w] = w
  BY <1>3, <1>6 DEF Working, Dominating, Forest
<1>20. Forest'
  <2>1. ASSUME NEW v \in Nodes, ancestor'[v] # 0
        PROVE  /\ v \in Found \ {0} /\ Above(ancestor'[v], parent[v])
               /\ label[v] \in Found /\ Above(label[v], v) /\ num[ancestor'[v]] < num[label[v]]
               /\ \A x \in Found : Above(x, v) /\ num[ancestor'[v]] < num[x] =>
                    ancestor'[x] # 0 /\ semi[label[v]] <= semi[x]
    <3>1. CASE v = w
      <4>1. Above(parent[w], parent[w]) /\ Above(w, w)
        BY AboveLaws
      <4>2. ASSUME NEW x \in Found, Above(x, w), num[parent[w]] < num[x]
            PROVE  x = w
        <5>1. x = w \/ Above(x, parent[w])
          BY <4>2, <1>3, AboveLaws
        <5>2. Above(x, parent[w]) => num[x] <= num[parent[w]]
          BY <1>3, AboveFound DEF Working
        <5>3. QED
          BY <4>2, <5>1, <5>2, <1>3, <1>4
      <4>3. semi[w] <= semi[w]
        BY <1>14
      <4>4. QED
        BY <2>1, <3>1, <4>1, <4>2, <4>3, <1>3, <1>17, <1>19
    <3>2. CASE v # w
      <4>1. ancestor[v] # 0 /\ ancestor'[v] = ancestor[v]
        BY <2>1, <3>2, <1>17
      <4>2. /\ v \in Found \ {0} /\ Above(ancestor[v], parent[v])
            /\ label[v] \in Found /\ Above(label[v], v) /\ num[ancestor[v]] < num[label[v]]
            /\ \A x \in Found : Above(x, v) /\ num[ancestor[v]] < num[x] =>
                    ancestor[x] # 0 /\ semi[label[v]] <= semi[x]
        BY <4>1 DEF Forest, Working, Dominating
      <4>3. \A x \in Found : ancestor[x] # 0 => ancestor'[x] # 0
        BY <1>4, <1>17, <1>19
      <4>4. QED
        BY <4>1, <4>2, <4>3
    <3>3. QED
      BY <3>1, <3>2
  <2>2. \A v \in Nodes : ancestor'[v] = 0 => label[v] = v
    BY <1>17, <1>19 DEF Forest, Working, Dominating
  <2>3. label' = label /\ semi' = semi
    BY <1>1
  <2>4. QED
    BY <2>1, <2>2, <2>3, <1>2, <1>8 DEF Forest
<1>21. Position'
  <2>1. Ahead(i - 1)'
    BY <1>1, <1>2 DEF Ahead, Position, AtNode, Working, Dominating
  <2>2. QED
    BY <2>1, <1>1, <1>2, <1>3 DEF Position
<1>22. /\ bucket' \in [Nodes -> Seq(Nodes)] /\ p0 \in Nodes
       /\ \A p \in Nodes : p # p0 => bucket'[p] = bucket[p]
       /\ bucket'[p0] = Append(bucket[p0], w)
  BY <1>1, <1>3, <1>4, <1>7, <1>15
<1>23. \A p \in Nodes : \A v : InBucket(v, p)' <=> InBucket(v, p) \/ (v = w /\ p = p0)
  <2>1. ASSUME NEW p \in Nodes, NEW v, p # p0 PROVE InBucket(v, p)' <=> InBucket(v, p)
    BY <2>1, <1>22 DEF InBucket
  <2>2. bucket[p0] \in Seq(Nodes) /\ Len(bucket[p0]) \in Nat
    BY <1>7, <1>22, LenProperties
  <2> DEFINE last == Len(bucket[p0]) + 1
  <2>3. /\ Len(bucket'[p0]) = last /\ bucket'[p0][last] = w
        /\ \A k \in 1..Len(bucket[p0]) : bucket'[p0][k] = bucket[p0][k]
    BY <2>2, <1>22, <1>3, AppendProperties
  <2>4. \A k \in 1..last : k = last \/ k \in 1..Len(bucket[p0])
    BY <2>2
  <2>5. \A k \in 1..Len(bucket[p0]) : k \in 1..last
    BY <2>2
  <2>6. last \in 1..last
    BY <2>2
  <2> HIDE DEF last
  <2>7. ASSUME NEW p \in Nodes, NEW v, p = p0 PROVE InBucket(v, p)' <=> InBucket(v, p) \/ v = w
    <3>1. InBucket(v, p)' <=> \E k \in 1..last : bucket'[p0][k] = v
      BY <2>3, <2>7 DEF InBucket
    <3>2. InBucket(v, p) <=> \E k \in 1..Len(bucket[p0]) : bucket[p0][k] = v
      BY <2>7 DEF InBucket
    <3>3. QED
      BY <3>1, <3>2, <2>3, <2>4, <2>5, <2>6
  <2>8. QED
    BY <2>1, <2>7
<1>24. Buckets'
  <2>1. \A v : Settled(v)' <=> Settled(v)
    BY <1>1, <1>2, <1>8 DEF Settled
  <2>2. ASSUME NEW p \in Nodes, NEW v \in Nodes, InBucket(v, p) \/ (v = w /\ p = p0)
        PROVE /\ v \in Found \ {0} /\ num[v] >= i /\ vertex[semi[v]] = p
              /\ \E c \in Found \ {0} : parent[c] = p /\ num[c] <= i
    <3>1. CASE InBucket(v, p)
      BY <3>1, <1>10, <1>11 DEF Buckets, Working, Dominating
    <3>2. CASE v = w /\ p = p0
      <4>1. \E c \in Found \ {0} : parent[c] = p0 /\ num[c] <= num[w]
        BY <1>3, <1>15, ChildTowards DEF Working
      <4>2. vertex[semi[w]] = p0
        BY DEF p0
      <4>3. QED
        BY <3>2, <4>1, <4>2, <1>3, <1>11
    <3>3. QED
      BY <2>2, <3>1, <3>2
  <2>3. \A v \in Found \ {0} : num[v] >= i + 1 => (\E p \in Nodes : InBucket(v, p)) \/ Settled(v)
    BY <1>1, <1>10 DEF Working, Dominating, Buckets
  <2>4. pc' # "dominate"
    BY <1>1
  <2> HIDE DEF InBucket, Settled
  <2>5. \A v \in Found \ {0} : num[v] >= i => (\E p \in Nodes : InBucket(v, p)') \/ Settled(v)
    BY <2>3, <1>11, <1>22, <1>23
  <2>6. \A p \in Nodes : \A v \in Nodes : InBucket(v, p)' =>
          /\ v \in Found \ {0} /\ num[v] >= i /\ vertex[semi[v]] = p
          /\ \E c \in Found \ {0} : parent[c] = p /\ num[c] <= i
    BY <2>2, <1>23
  <2>7. QED
    BY <2>1, <2>4, <2>5, <2>6, <1>1, <1>2, <1>10 DEF Buckets
<1>25. DominateTypes'
  BY <1>1, <1>2, <1>17, <1>22 DEF DominateTypes, Working, Dominating
<1>26. calls = << >>
  BY <1>1 DEF Climbing, Working, Dominating
<1>27. Fresh' /\ Climbing' /\ Explicitly' /\ DominateStuck' /\ Scanning'
  BY <1>1, <1>26 DEF Fresh, Climbing, Explicitly, DominateStuck, Scanning, Working, Dominating
<1>28. QED
  BY <1>12, <1>16, <1>18, <1>20, <1>21, <1>24, <1>25, <1>27 DEF Dominating

LEMMA EvalWaitingStep ==
  ASSUME Working, Steady, UNCHANGED dots, L!EvalWaiting
  PROVE  Semidominators' /\ Dominating'
<1> DEFINE q == parent[vertex[i]]
           waiting == bucket[q]
<1>1. /\ pc = "drain" /\ pc' = "dominate" /\ waiting # << >>
      /\ arg' = waiting[Len(waiting)] /\ unwinding' = FALSE
      /\ calls' = IF ancestor[arg'] = 0 THEN << >> ELSE <<arg'>>
      /\ bucket' = [bucket EXCEPT ![q] = Pop(waiting)]
      /\ UNCHANGED <<i, semi, dominator, ancestor, label, ptr>>
  BY DEF L!EvalWaiting, L!Waiting, L!Node, L!Eval, L!forest, L!Pop, Pop
<1>2. Found' = Found /\ num' = num /\ UNCHANGED <<edges, n, vertex, parent, preds>>
  BY TreeKept DEF Steady
<1>3. q \in Nodes
  BY <1>1, AtNodeFacts DEF Working, Dominating, AtNode
<1>4. bucket \in [Nodes -> Seq(Nodes)] /\ waiting \in Seq(Nodes)
  BY <1>3 DEF Working, Dominating, DominateTypes
<1>5. \A v, x : Above(v, x)' <=> Above(v, x)
  BY <1>2, TreeKept
<1>6. q' = q
  BY <1>1, <1>2
<1> HIDE DEF Found, num, Above, Doms, q
<1>7. Lowest' = i /\ Lowest = i /\ Descending /\ Descending'
  BY <1>1 DEF Lowest, Descending, AtNode
<1>8. Semidominators' /\ Forest'
  BY <1>1, <1>2, SemidominatorsKept, ForestKept DEF Working, Dominating
<1>9. Lowered' /\ Linked'
  BY <1>1, <1>2, <1>7 DEF Lowered, Linked, Working, Dominating
<1>10. Position'
  <2>1. i \in 1..(n - 1) /\ Ahead(i - 1)
    BY <1>1 DEF Working, Dominating, Position, AtNode
  <2>2. Ahead(i - 1)'
    BY <2>1, <1>1, <1>2 DEF Ahead
  <2>3. QED
    BY <2>1, <2>2, <1>1, <1>2 DEF Position
<1> DEFINE last == Len(waiting)
<1>11. last \in Nat \ {0} /\ last \in 1..last
  BY <1>1, <1>4, EmptySeq, LenProperties
<1>12. arg' \in Nodes /\ InBucket(arg', q)
  <2>1. waiting[last] \in Nodes
    BY <1>4, <1>11, ElementOfSeq
  <2>2. QED
    BY <2>1, <1>1, <1>11 DEF InBucket
<1>13. /\ Pop(waiting) \in Seq(Nodes) /\ Len(Pop(waiting)) = last - 1
       /\ \A k \in 1..(last - 1) : Pop(waiting)[k] = waiting[k]
  BY <1>1, <1>4, PopProperties
<1>14. /\ bucket' \in [Nodes -> Seq(Nodes)] /\ bucket'[q] = Pop(waiting)
       /\ \A p \in Nodes : p # q => bucket'[p] = bucket[p]
  BY <1>1, <1>3, <1>4, <1>13
<1>15. \A p \in Nodes : \A v : InBucket(v, p)' => InBucket(v, p)
  <2>1. ASSUME NEW p \in Nodes, NEW v, p # q PROVE InBucket(v, p)' => InBucket(v, p)
    BY <2>1, <1>14 DEF InBucket
  <2>2. ASSUME NEW p \in Nodes, NEW v, p = q PROVE InBucket(v, p)' => InBucket(v, p)
    <3>1. SUFFICES ASSUME NEW k \in 1..(last - 1), Pop(waiting)[k] = v PROVE InBucket(v, p)
      BY <2>2, <1>13, <1>14 DEF InBucket
    <3>2. k \in 1..last /\ waiting[k] = v
      BY <3>1, <1>11, <1>13
    <3>3. QED
      BY <3>2, <2>2 DEF InBucket
  <2>3. QED
    BY <2>1, <2>2
<1>16. \A p \in Nodes : \A v : InBucket(v, p) => InBucket(v, p)' \/ v = arg'
  <2>1. ASSUME NEW p \in Nodes, NEW v, p # q PROVE InBucket(v, p) => InBucket(v, p)'
    BY <2>1, <1>14 DEF InBucket
  <2>2. ASSUME NEW p \in Nodes, NEW v, p = q, InBucket(v, p) PROVE InBucket(v, p)' \/ v = arg'
    <3>1. PICK k \in 1..last : waiting[k] = v
      BY <2>2 DEF InBucket
    <3>2. CASE k = last
      BY <3>1, <3>2, <1>1
    <3>3. CASE k # last
      <4>1. k \in 1..(last - 1) /\ Pop(waiting)[k] = v
        BY <3>1, <3>3, <1>11, <1>13
      <4>2. QED
        BY <4>1, <2>2, <1>13, <1>14 DEF InBucket
    <3>4. QED
      BY <3>2, <3>3
  <2>3. QED
    BY <2>1, <2>2
<1>17. /\ arg' \in Found \ {0} /\ num[arg'] >= i /\ vertex[semi[arg']] = q
  BY <1>3, <1>7, <1>12 DEF Buckets, Working, Dominating
<1>18. Buckets'
  <2>1. \A v : Settled(v)' <=> Settled(v)
    BY <1>1, <1>2, <1>5 DEF Settled
  <2> HIDE DEF InBucket, Settled
  <2>2. \A v \in Found \ {0} : num[v] >= i => (\E p \in Nodes : InBucket(v, p)') \/ v = arg' \/ Settled(v)
    BY <1>1, <1>7, <1>16 DEF Working, Dominating, Buckets
  <2>3. \A p \in Nodes : \A v \in Nodes : InBucket(v, p)' =>
          /\ v \in Found \ {0} /\ num[v] >= i /\ vertex[semi[v]] = p
          /\ \E c \in Found \ {0} : parent[c] = p /\ num[c] <= i
    BY <1>7, <1>15 DEF Working, Dominating, Buckets
  <2>4. vertex[semi[arg']] = parent[vertex[i]]
    BY <1>17 DEF q
  <2>5. QED
    BY <2>1, <2>2, <2>3, <2>4, <1>1, <1>2, <1>7, <1>17 DEF Buckets
<1>19. calls' \in Seq(Nodes) /\ (calls' # << >> => ancestor[arg'] # 0 /\ Len(calls') = 1 /\ calls'[1] = arg')
  BY <1>1, <1>12
<1>20. DominateTypes'
  BY <1>1, <1>2, <1>12, <1>14, <1>19 DEF DominateTypes, Working, Dominating
<1>21. Climbing'
  <2>1. CASE calls' = << >>
    BY <2>1 DEF Climbing
  <2>2. CASE calls' # << >>
    <3>1. \A k \in 1..Len(calls') : k = 1 /\ calls'[k] = arg' /\ ~ (k > 1) /\ 1..(k - 1) = {}
      BY <2>2, <1>19
    <3>2. QED
      BY <3>1, <2>2, <1>1, <1>19 DEF Climbing
  <2>3. QED
    BY <2>1, <2>2
<1>22. Fresh' /\ Explicitly' /\ DominateStuck' /\ Scanning'
  BY <1>1 DEF Fresh, Explicitly, DominateStuck, Scanning, Working, Dominating
<1>23. QED
  BY <1>8, <1>9, <1>10, <1>18, <1>20, <1>21, <1>22 DEF Dominating

LEMMA SetDominatorStep ==
  ASSUME Working, Steady, UNCHANGED dots, L!SetDominator
  PROVE  Semidominators' /\ Dominating'
<1> DEFINE q == parent[vertex[i]]
           r == L!Result
<1>1. /\ pc = "dominate" /\ pc' = "drain" /\ calls = << >>
      /\ dominator' = [dominator EXCEPT ![arg] = IF semi[r] < semi[arg] THEN r ELSE q]
      /\ UNCHANGED <<i, semi, ancestor, label, bucket, ptr, arg, calls, unwinding>>
  BY DEF L!SetDominator, L!Evaluated, L!Node, L!DominatorOf, L!forest, L!evaluation
<1>2. Found' = Found /\ num' = num /\ UNCHANGED <<edges, n, vertex, parent, preds>>
  BY TreeKept DEF Steady
<1>3. i \in 1..(n - 1) /\ i \in Nat /\ n \in Nat /\ q \in Found /\ q \in Nodes /\ num[q] < i /\ num[q] \in Nat
  BY <1>1, AtNodeFacts DEF Working, Dominating, AtNode
<1>4. \A v, x : Above(v, x)' <=> Above(v, x)
  BY <1>2, TreeKept
<1>5. arg \in Found \ {0} /\ num[arg] >= i /\ vertex[semi[arg]] = q
  BY <1>1 DEF Working, Dominating, Buckets
<1>6. r \in Found /\ Above(r, arg) /\ (r = arg \/ ancestor[r] # 0)
  BY <1>5, ResultFacts
<1>7. /\ Found \subseteq Nodes /\ \A v \in Found : num[v] \in Nat
      /\ \A j \in 0..(n - 1) : num[vertex[j]] = j
  BY FoundNodes, NumberOfNode DEF Working, Finished, Numbering
<1>8. semi \in [Nodes -> Nodes] /\ \A v \in Nodes : semi[v] \in Nat
  BY NodesAreNaturals DEF Working, Semidominators
<1>9. \A v, x \in Found : Above(v, x) /\ v # x => num[v] < num[x]
  BY AboveFound DEF Working
<1>10. dominator \in [Nodes -> Nodes] /\ dominator[0] = 0
  BY DEF Working, Dominating, DominateTypes
<1> HIDE DEF Found, num, Above, Doms, q, r
<1>11. Lowest' = i /\ Lowest = i /\ Descending /\ Descending'
  BY <1>1 DEF Lowest, Descending, AtNode
<1>12. /\ dominator' \in [Nodes -> Nodes] /\ dominator'[0] = 0
       /\ \A v \in Nodes : v # arg => dominator'[v] = dominator[v]
       /\ dominator'[arg] = IF semi[r] < semi[arg] THEN r ELSE q
  BY <1>1, <1>3, <1>5, <1>6, <1>7, <1>10
<1>13. Semidominators' /\ Forest'
  BY <1>1, <1>2, SemidominatorsKept, ForestKept DEF Working, Dominating
<1>14. Lowered' /\ Linked'
  BY <1>1, <1>2, <1>11 DEF Lowered, Linked, Working, Dominating
<1>15. Position'
  <2>1. i \in 1..(n - 1) /\ Ahead(i - 1)
    BY <1>1 DEF Working, Dominating, Position, AtNode
  <2>2. Ahead(i - 1)'
    BY <2>1, <1>1, <1>2 DEF Ahead
  <2>3. QED
    BY <2>1, <2>2, <1>1, <1>2 DEF Position
<1>16. semi[arg] = num[q]
  <2>1. semi[arg] \in 0..(n - 1)
    <3>1. semi[arg] <= num[arg] /\ num[arg] < n
      BY <1>5, NumberOfNode DEF Working, Semidominators, Finished
    <3>2. QED
      BY <3>1, <1>3, <1>5, <1>7, <1>8
  <2>2. QED
    BY <2>1, <1>5, <1>7
<1>17. ASSUME semi[r] < semi[arg]
       PROVE  r \in Found \ {0} /\ Above(r, arg) /\ semi[arg] < num[r] /\ num[r] < num[arg]
  <2>1. r # arg /\ ancestor[r] # 0
    BY <1>17, <1>5, <1>6, <1>7, <1>8
  <2>2. r # 0
    BY <2>1, <1>6, <1>7 DEF Forest, Working, Dominating
  <2>3. num[r] >= i
    BY <2>1, <2>2, <1>6, <1>11 DEF Linked, Working, Dominating
  <2>4. QED
    BY <2>1, <2>2, <2>3, <1>3, <1>5, <1>6, <1>7, <1>9, <1>16
<1>18. ASSUME NEW v, v = arg PROVE Settled(v)'
  <2>1. dominator'[arg] = vertex[semi[arg]] \/ (dominator'[arg] = r /\ semi[r] < semi[arg])
    BY <1>5, <1>12
  <2>2. \/ dominator'[v] = vertex[semi[v]]
        \/ /\ dominator'[v] \in Found \ {0} /\ Above(dominator'[v], v)
           /\ semi[v] < num[dominator'[v]] /\ num[dominator'[v]] < num[v]
    BY <2>1, <1>17, <1>18
  <2>3. QED
    BY <2>2, <1>1, <1>2, <1>4 DEF Settled
<1>19. ASSUME NEW v \in Nodes, v # arg PROVE Settled(v)' <=> Settled(v)
  <2>1. dominator'[v] = dominator[v]
    BY <1>19, <1>12
  <2>2. QED
    BY <2>1, <1>1, <1>2, <1>4 DEF Settled
<1>20. \A p, v : InBucket(v, p)' <=> InBucket(v, p)
  BY <1>1 DEF InBucket
<1>21. Buckets'
  <2> HIDE DEF InBucket, Settled
  <2>1. \A v \in Found \ {0} : num[v] >= i => (\E p \in Nodes : InBucket(v, p)) \/ v = arg \/ Settled(v)
    BY <1>1, <1>11 DEF Working, Dominating, Buckets
  <2>2. \A v \in Found \ {0} : num[v] >= i => (\E p \in Nodes : InBucket(v, p)) \/ Settled(v)'
    BY <2>1, <1>7, <1>18, <1>19
  <2>3. \A p \in Nodes : \A v \in Nodes : InBucket(v, p) =>
          /\ v \in Found \ {0} /\ num[v] >= i /\ vertex[semi[v]] = p
          /\ \E c \in Found \ {0} : parent[c] = p /\ num[c] <= i
    BY <1>11 DEF Working, Dominating, Buckets
  <2>4. pc' # "dominate"
    BY <1>1
  <2>5. QED
    BY <2>2, <2>3, <2>4, <1>1, <1>2, <1>11, <1>20 DEF Buckets
<1>22. DominateTypes'
  BY <1>1, <1>2, <1>12 DEF DominateTypes, Working, Dominating
<1>23. Fresh' /\ Explicitly' /\ DominateStuck' /\ Scanning' /\ Climbing'
  BY <1>1 DEF Fresh, Explicitly, DominateStuck, Scanning, Climbing, Working, Dominating
<1>24. QED
  BY <1>13, <1>14, <1>15, <1>21, <1>22, <1>23 DEF Dominating

LEMMA NextNodeStep ==
  ASSUME Working, Steady, UNCHANGED dots, L!NextNode
  PROVE  Semidominators' /\ Dominating'
<1> DEFINE w == vertex[i]
<1>1. /\ pc = "drain" /\ pc' = "loop" /\ i' = i - 1 /\ bucket[parent[w]] = << >> /\ calls = << >>
      /\ UNCHANGED <<semi, dominator, ancestor, label, bucket, ptr, arg, calls, unwinding>>
  BY DEF L!NextNode, L!Waiting, L!Node, L!forest, L!evaluation, Working, Dominating, Climbing
<1>2. Found' = Found /\ num' = num /\ UNCHANGED <<edges, n, vertex, parent, preds>>
  BY TreeKept DEF Steady
<1>3. /\ w \in Found \ {0} /\ num[w] = i /\ i \in 1..(n - 1) /\ i \in Nat /\ n \in Nat
      /\ parent[w] \in Nodes
  BY <1>1, AtNodeFacts DEF Working, Dominating, AtNode
<1>4. /\ \A v \in Found : num[v] \in Nat
      /\ \A j \in 0..(n - 1) : vertex[j] \in Found /\ num[vertex[j]] = j
      /\ \A v, x \in Found : num[v] = num[x] => v = x
      /\ n \in 1..NumNodes
  BY FoundNodes, NumberOfNode DEF Working, Finished, Numbering
<1> HIDE DEF Found, num, Above, Doms, w
<1>5. Lowest' = i /\ Lowest = i /\ Descending /\ Descending'
  BY <1>1, <1>3 DEF Lowest, Descending, AtNode
<1>6. Semidominators' /\ Forest'
  BY <1>1, <1>2, SemidominatorsKept, ForestKept DEF Working, Dominating
<1>7. Lowered' /\ Linked'
  BY <1>1, <1>2, <1>5 DEF Lowered, Linked, Working, Dominating
<1>8. Position'
  <2>1. Ahead(i - 1)
    BY <1>1 DEF Working, Dominating, Position, AtNode
  <2>2. \A j \in 1..(i - 1) : j < n => semi[vertex[j]] = j
    BY <2>1 DEF Ahead
  <2>3. \A j \in 1..i' : j < n => semi[vertex[j]] = j
    BY <2>2, <1>1
  <2>4. Ahead(i)'
    BY <2>3, <1>1, <1>2 DEF Ahead
  <2>5. i' < NumNodes
    BY <1>1, <1>3, <1>4, NumNodesAssumption
  <2>6. QED
    BY <2>4, <2>5, <1>1 DEF Position, AtNode
<1>9. \A v : Settled(v)' <=> Settled(v)
  BY <1>1, <1>2, TreeKept DEF Settled
<1>10. \A p, v : InBucket(v, p)' <=> InBucket(v, p)
  BY <1>1 DEF InBucket
<1>11. \A p, v : p = parent[w] => ~ InBucket(v, p)
  BY <1>1 DEF InBucket
<1>12. Buckets'
  <2> HIDE DEF InBucket, Settled
  <2>1. \A v \in Found \ {0} : num[v] >= i => (\E p \in Nodes : InBucket(v, p)) \/ Settled(v)
    BY <1>1, <1>5 DEF Working, Dominating, Buckets
  <2>2. ASSUME NEW p \in Nodes, NEW v \in Nodes, InBucket(v, p)
        PROVE  /\ v \in Found \ {0} /\ num[v] >= i /\ vertex[semi[v]] = p
               /\ \E c \in Found \ {0} : parent[c] = p /\ num[c] <= i'
    <3>1. /\ v \in Found \ {0} /\ num[v] >= i /\ vertex[semi[v]] = p
          /\ \E c \in Found \ {0} : parent[c] = p /\ num[c] <= i
      BY <2>2, <1>5 DEF Working, Dominating, Buckets
    <3>2. PICK c \in Found \ {0} : parent[c] = p /\ num[c] <= i
      BY <3>1
    <3>3. c # w
      BY <2>2, <3>2, <1>11
    <3>4. num[c] # i /\ num[c] \in Nat
      BY <3>3, <1>3, <1>4
    <3>5. num[c] <= i'
      BY <3>2, <3>4, <1>1, <1>3
    <3>6. QED
      BY <3>1, <3>2, <3>5
  <2>3. pc' # "dominate"
    BY <1>1
  <2>4. QED
    BY <2>1, <2>2, <2>3, <1>1, <1>2, <1>5, <1>9, <1>10 DEF Buckets
<1>13. DominateTypes'
  <2>1. i' \in 0..NumNodes
    BY <1>1, <1>3, <1>4, NumNodesAssumption
  <2>2. QED
    BY <2>1, <1>1, <1>2 DEF DominateTypes, Working, Dominating
<1>14. Fresh' /\ Explicitly' /\ DominateStuck' /\ Scanning' /\ Climbing'
  BY <1>1 DEF Fresh, Explicitly, DominateStuck, Scanning, Climbing, Working, Dominating
<1>15. QED
  BY <1>6, <1>7, <1>8, <1>12, <1>13, <1>14 DEF Dominating

LEMMA BeginStep4Step ==
  ASSUME Working, Steady, UNCHANGED dots, L!BeginStep4
  PROVE  Semidominators' /\ Dominating'
<1>1. /\ pc = "loop" /\ pc' = "explicit" /\ i = 0 /\ i' = 1 /\ calls = << >>
      /\ UNCHANGED <<semi, dominator, ancestor, label, bucket, ptr, arg, calls, unwinding>>
  BY DEF L!BeginStep4, L!forest, L!evaluation, Working, Dominating, Climbing
<1>2. Found' = Found /\ num' = num /\ UNCHANGED <<edges, n, vertex, parent, preds>>
  BY TreeKept DEF Steady
<1>3. \A v \in Found \ {0} : num[v] \in Nat /\ num[v] >= 1
  <2>1. n \in Nat /\ \A v \in Found \ {0} : num[v] \in 1..(n - 1)
    BY FoundNodes, NumNodesAssumption DEF Working, Finished, Numbering
  <2> HIDE DEF Found, num
  <2>2. QED
    BY <2>1
<1> HIDE DEF Found, num, Above, Doms
<1>4. Lowest = 1 /\ Descending
  BY <1>1 DEF Lowest, Descending
<1>5. Semidominators' /\ Forest'
  BY <1>1, <1>2, SemidominatorsKept, ForestKept DEF Working, Dominating
<1>6. Lowered'
  BY <1>1, <1>2, <1>3, <1>4 DEF Lowered, Working, Dominating, Descending, AtNode
<1>7. \A v : Settled(v)' <=> Settled(v)
  BY <1>1, <1>2, TreeKept DEF Settled
<1>8. \A p \in Nodes : \A v \in Nodes : ~ InBucket(v, p)
  <2>1. SUFFICES ASSUME NEW p \in Nodes, NEW v \in Nodes, InBucket(v, p) PROVE FALSE
    OBVIOUS
  <2>2. \E c \in Found \ {0} : parent[c] = p /\ num[c] <= i
    BY <2>1, <1>4 DEF Working, Dominating, Buckets
  <2>3. QED
    BY <2>2, <1>1, <1>3
<1>9. Explicitly'
  <2>1. Found \subseteq Nodes
    BY FoundNodes DEF Working, Finished
  <2>2. \A v \in Found \ {0} : Settled(v)
    BY <2>1, <1>1, <1>3, <1>4, <1>8 DEF Working, Dominating, Buckets
  <2> HIDE DEF Settled
  <2>3. \A v \in Found \ {0} : ~ (num[v] < 1)
    BY <1>3
  <2>4. QED
    BY <2>2, <2>3, <1>1, <1>2, <1>7 DEF Explicitly
<1>10. DominateTypes'
  BY <1>1, <1>2, NumNodesAssumption DEF DominateTypes, Working, Dominating
<1>11. DominateStuck'
  BY <1>1, NumNodesAssumption DEF DominateStuck, Working, Dominating
<1>12. Position' /\ Fresh' /\ Linked' /\ Buckets' /\ Scanning' /\ Climbing'
  BY <1>1 DEF Position, Fresh, Linked, Buckets, Scanning, Climbing, Descending, AtNode
<1>13. QED
  BY <1>5, <1>6, <1>9, <1>10, <1>11, <1>12 DEF Dominating

(* If no dominator of v lies below d, which is above v, then those of v    *)
(* are those of d and perhaps d.                                           *)
LEMMA DominatorsInherited ==
  ASSUME Finished, NEW v \in Found, NEW d \in Found, Above(d, v),
         \A x \in Doms(v) : num[x] <= num[d]
  PROVE  Doms(v) \subseteq {d} \cup Doms(d)
<1>1. SUFFICES ASSUME NEW x \in Doms(v), x # d PROVE x \in Doms(d)
  OBVIOUS
<1>2. x \in Found
  BY <1>1, DominatorsAbove
<1>3. num[x] \in Nat /\ num[d] \in Nat /\ num[x] # num[d]
  BY <1>1, <1>2, NumberOfNode DEF Finished
<1>4. num[x] < num[d]
  BY <1>1, <1>3
<1>5. QED
  BY <1>1, <1>4, DominatorUpTheTree

LEMMA MakeExplicitStep ==
  ASSUME Working, Steady, UNCHANGED dots, L!MakeExplicit
  PROVE  Semidominators' /\ Dominating'
<1> DEFINE w == vertex[i]
           d == dominator[w]
<1>1. /\ pc = "explicit" /\ pc' = "explicit" /\ i < NumNodes /\ i' = i + 1 /\ calls = << >>
      /\ dominator' = [dominator EXCEPT ![w] = IF d = vertex[semi[w]] THEN d ELSE dominator[d]]
      /\ UNCHANGED <<semi, ancestor, label, bucket, ptr, arg, calls, unwinding>>
  BY DEF L!MakeExplicit, L!Node, L!Explicit, L!Semidominator, L!forest, L!evaluation,
         Working, Dominating, Climbing
<1>2. Found' = Found /\ num' = num /\ UNCHANGED <<edges, n, vertex, parent, preds>>
  BY TreeKept DEF Steady
<1>3. /\ Found \subseteq Nodes /\ \A v \in Found : num[v] \in Nat /\ num[v] < n /\ vertex[num[v]] = v
      /\ \A j \in 0..(n - 1) : vertex[j] \in Found /\ num[vertex[j]] = j
      /\ \A v, x \in Found : num[v] = num[x] => v = x
      /\ n \in 1..NumNodes /\ vertex \in [Nodes -> Nodes]
      /\ \A j \in Nodes : j >= n => vertex[j] = 0
  BY FoundNodes, NumberOfNode DEF Working, Finished, Numbering
<1>4. semi \in [Nodes -> Nodes] /\ \A v \in Nodes : semi[v] \in Nat
  BY NodesAreNaturals DEF Working, Semidominators
<1>5. dominator \in [Nodes -> Nodes] /\ dominator[0] = 0
  BY DEF Working, Dominating, DominateTypes
<1>6. i \in Nat /\ i >= 1 /\ i \in Nodes /\ \A v \in Found \ {0} : IF num[v] < i THEN Final(v) ELSE Settled(v)
  BY <1>1, NumNodesAssumption DEF Working, Dominating, DominateTypes, Explicitly, Nodes
<1>7. 0 \in Nodes /\ w \in Nodes
  BY <1>3, <1>6, NodesAreNaturals
<1> HIDE DEF Found, num, Above, Doms, w, d
<1>8. /\ dominator' \in [Nodes -> Nodes]
      /\ \A v \in Nodes : v # w => dominator'[v] = dominator[v]
      /\ dominator'[w] = IF d = vertex[semi[w]] THEN d ELSE dominator[d]
  BY <1>1, <1>5, <1>7 DEF d
<1>9. dominator'[0] = 0
  <2>1. CASE w = 0
    <3>1. d = 0
      BY <2>1, <1>5 DEF d
    <3>2. QED
      BY <2>1, <3>1, <1>5, <1>8
  <2>2. CASE w # 0
    BY <2>2, <1>5, <1>7, <1>8
  <2>3. QED
    BY <2>1, <2>2
<1>10. \A v \in Found \ {0} : num[v] = i => v = w
  BY <1>3 DEF w
<1>11. ASSUME NEW v \in Found \ {0}, num[v] = i
       PROVE  /\ dominator'[v] \in Found /\ num[dominator'[v]] < num[v]
              /\ Doms(v) \subseteq {dominator'[v]} \cup Doms(dominator'[v])
  <2>1. v = w /\ Settled(v)
    BY <1>6, <1>10, <1>11
  <2>2. /\ semi[v] < num[v] /\ Above(vertex[semi[v]], v) /\ \A x \in Doms(v) : num[x] <= semi[v]
    BY <1>1 DEF Working, Semidominators, Dominating, Lowered
  <2>3. semi[v] \in 0..(n - 1) /\ semi[v] \in Nat
    BY <2>2, <1>3, <1>4
  <2>4. CASE d = vertex[semi[v]]
    <3>1. dominator'[v] = d /\ d \in Found /\ num[d] = semi[v]
      BY <2>1, <2>3, <2>4, <1>3, <1>8
    <3>2. Doms(v) \subseteq {d} \cup Doms(d)
      BY <2>2, <2>4, <3>1, DominatorsInherited DEF Working
    <3>3. QED
      BY <3>1, <3>2, <2>2
  <2>5. CASE d # vertex[semi[v]]
    <3>1. /\ d \in Found \ {0} /\ Above(d, v) /\ semi[v] < num[d] /\ num[d] < num[v]
      BY <2>1, <2>5 DEF Settled, d
    <3>2. dominator'[v] = dominator[d]
      BY <2>1, <2>5, <1>8
    <3>3. Final(d)
      BY <3>1, <1>6, <1>11
    <3>4. /\ dominator[d] \in Found /\ num[dominator[d]] < num[d]
          /\ Doms(d) \subseteq {dominator[d]} \cup Doms(dominator[d])
      BY <3>3 DEF Final
    <3>5. \A x \in Doms(v) : x \in Found /\ num[x] < num[d]
      <4>1. \A x \in Doms(v) : x \in Found
        BY DominatorsAbove DEF Working
      <4>2. QED
        BY <4>1, <2>2, <2>3, <3>1, <1>3
    <3>6. Doms(v) \subseteq Doms(d)
      BY <3>1, <3>5, DominatorUpTheTree DEF Working
    <3>7. num[dominator[d]] < num[v]
      BY <3>1, <3>4, <1>3
    <3>8. QED
      BY <3>2, <3>4, <3>6, <3>7
  <2>6. QED
    BY <2>4, <2>5
<1>12. Explicitly'
  <2>1. \A v \in Nodes : v # w => (Final(v)' <=> Final(v))
    <3>1. \A v, x : Doms(v)' = Doms(v)
      BY <1>2, TreeKept
    <3>2. ASSUME NEW v \in Nodes, v # w PROVE Final(v)' <=> Final(v)
      <4>1. dominator'[v] = dominator[v]
        BY <3>2, <1>8
      <4>2. \A x : x = dominator[v] => Doms(x)' = Doms(dominator[v])
        BY <3>1
      <4>3. Doms(dominator[v])' = Doms(dominator[v])
        BY <4>1, TreeKept, <1>2 DEF Doms
      <4>4. QED
        BY <4>1, <4>3, <3>1, <1>2 DEF Final
    <3>3. QED
      BY <3>2
  <2>2. \A v \in Nodes : v # w => (Settled(v)' <=> Settled(v))
    <3>1. \A v, x : Above(v, x)' <=> Above(v, x)
      BY <1>2, TreeKept
    <3>2. ASSUME NEW v \in Nodes, v # w PROVE Settled(v)' <=> Settled(v)
      <4>1. dominator'[v] = dominator[v]
        BY <3>2, <1>8
      <4>2. Above(dominator[v], v)' <=> Above(dominator[v], v)
        BY <4>1, <1>2 DEF Above, Ancestor
      <4>3. QED
        BY <4>1, <4>2, <1>1, <1>2 DEF Settled
    <3>3. QED
      BY <3>2
  <2>3. ASSUME NEW v \in Found \ {0}, num[v] = i PROVE Final(v)'
    <3>1. Doms(v)' = Doms(v) /\ Doms(dominator[v])' = StrictDominators(dominator'[v], Nodes, links)
      BY <1>2, TreeKept DEF Doms
    <3>2. QED
      BY <3>1, <1>2, <1>11, <2>3 DEF Final, Doms
  <2> HIDE DEF Final, Settled
  <2>4. ASSUME NEW v \in Found \ {0} PROVE IF num[v] < i + 1 THEN Final(v)' ELSE Settled(v)'
    <3>1. num[v] \in Nat /\ v \in Nodes
      BY <1>3
    <3>2. CASE num[v] = i
      BY <3>2, <3>1, <2>3, <1>6
    <3>3. CASE num[v] # i
      <4>1. v # w
        <5>1. ASSUME v = w PROVE FALSE
          <6>1. i < n
            BY <5>1, <1>3, <1>6 DEF w
          <6>2. i \in 0..(n - 1)
            BY <6>1, <1>3, <1>6
          <6>3. QED
            BY <5>1, <6>2, <3>3, <1>3 DEF w
        <5>2. QED
          BY <5>1
      <4>2. num[v] < i + 1 <=> num[v] < i
        BY <3>1, <3>3, <1>6
      <4>3. QED
        BY <4>1, <4>2, <3>1, <2>1, <2>2, <1>6
    <3>4. QED
      BY <3>2, <3>3
  <2>5. QED
    BY <2>4, <1>1, <1>2, <1>6 DEF Explicitly
<1>13. Semidominators' /\ Forest'
  BY <1>1, <1>2, SemidominatorsKept, ForestKept DEF Working, Dominating
<1>14. DominateTypes'
  <2>1. i' \in 0..NumNodes
    BY <1>1, <1>6, NumNodesAssumption
  <2>2. QED
    BY <2>1, <1>1, <1>2, <1>8, <1>9 DEF DominateTypes, Working, Dominating
<1>15. Lowered'
  BY <1>1, <1>2 DEF Lowered, Working, Dominating, Descending, AtNode
<1>16. Position' /\ Fresh' /\ Linked' /\ Buckets' /\ Scanning' /\ Climbing'
  BY <1>1 DEF Position, Fresh, Linked, Buckets, Scanning, Climbing, Descending, AtNode
<1>17. DominateStuck'
  BY <1>1 DEF DominateStuck, Working, Dominating
<1>18. QED
  BY <1>12, <1>13, <1>14, <1>15, <1>16, <1>17 DEF Dominating

LEMMA FinishStep ==
  ASSUME Working, Steady, UNCHANGED dots, L!Finish
  PROVE  Semidominators' /\ Dominating'
<1>1. /\ pc = "explicit" /\ pc' = "done" /\ i = NumNodes /\ calls = << >>
      /\ dominator' = [dominator EXCEPT ![0] = 0]
      /\ UNCHANGED <<i, semi, ancestor, label, bucket, ptr, arg, calls, unwinding>>
  BY DEF L!Finish, L!forest, L!evaluation, Working, Dominating, Climbing
<1>2. Found' = Found /\ num' = num /\ UNCHANGED <<edges, n, vertex, parent, preds>>
  BY TreeKept DEF Steady
<1>3. dominator' = dominator
  BY <1>1 DEF Working, Dominating, DominateTypes
<1>4. n \in 1..NumNodes /\ \A v \in Found : num[v] \in Nat /\ num[v] < n
  BY NumberOfNode DEF Working, Finished, Numbering
<1>5. \A v : Doms(v)' = Doms(v)
  BY <1>2, TreeKept
<1>6. ASSUME NEW v PROVE Final(v)' <=> Final(v)
  <2>1. Doms(dominator[v])' = Doms(dominator[v])
    BY <1>2, <1>3, TreeKept DEF Doms
  <2>2. QED
    BY <2>1, <1>2, <1>3, <1>5 DEF Final
<1> HIDE DEF Found, num, Above, Doms
<1>7. \A v \in Found \ {0} : num[v] < i
  BY <1>1, <1>4, NumNodesAssumption
<1>8. Explicitly'
  <2> HIDE DEF Final
  <2>1. AllFinal
    BY <1>1, <1>7 DEF Explicitly, AllFinal, Working, Dominating
  <2>2. AllFinal'
    BY <2>1, <1>2, <1>6 DEF AllFinal
  <2>3. QED
    BY <2>2, <1>1 DEF Explicitly
<1>9. Semidominators' /\ Forest'
  BY <1>1, <1>2, SemidominatorsKept, ForestKept DEF Working, Dominating
<1>10. DominateTypes'
  BY <1>1, <1>2, <1>3 DEF DominateTypes, Working, Dominating
<1>11. Position' /\ Lowered' /\ Fresh' /\ Linked' /\ Buckets' /\ Scanning' /\ Climbing'
  BY <1>1 DEF Position, Lowered, Fresh, Linked, Buckets, Scanning, Climbing, Descending, AtNode
<1>12. DominateStuck'
  BY <1>1 DEF DominateStuck, Working, Dominating
<1>13. QED
  BY <1>8, <1>9, <1>10, <1>11, <1>12 DEF Dominating

------------------------------------------------------------------------------
(* The steps of COMPRESS *)

(* A linked node's ancestor has a smaller number.                          *)
LEMMA AncestorSmaller ==
  ASSUME Finished, Forest, NEW v \in Nodes, ancestor[v] # 0
  PROVE  /\ v \in Found \ {0} /\ ancestor[v] \in Found /\ num[ancestor[v]] < num[v]
         /\ Above(ancestor[v], v)
<1>1. v \in Found \ {0} /\ Above(ancestor[v], parent[v])
  BY DEF Forest
<1>2. parent[v] \in Found /\ num[parent[v]] < num[v] /\ v \in Nodes \ {0}
  BY <1>1 DEF Finished, Tree
<1> HIDE DEF Found, num, Above
<1>3. ancestor[v] \in Found /\ num[ancestor[v]] <= num[parent[v]]
  BY <1>1, <1>2, AboveFound
<1>4. num[ancestor[v]] < num[v]
  BY <1>1, <1>2, <1>3, NumberOfNode DEF Finished
<1>5. Above(ancestor[v], v)
  BY <1>1, <1>2, AboveLaws
<1>6. QED
  BY <1>1, <1>3, <1>4, <1>5

LEMMA InnermostFacts ==
  ASSUME Working, calls # << >>
  PROVE  /\ calls \in Seq(Nodes) /\ Len(calls) \in Nat \ {0} /\ Len(calls) \in 1..Len(calls)
         /\ calls[Len(calls)] \in Nodes /\ ancestor[calls[Len(calls)]] # 0
         /\ ancestor[calls[Len(calls)]] \in Nodes
         /\ \A k \in 1..Len(calls) : calls[k] \in Nodes /\ calls[k] \in Found
         /\ pc \in {"lower", "dominate"} /\ Descending
<1>1. calls \in Seq(Nodes) /\ ancestor \in [Nodes -> Nodes]
  BY DEF Working, Dominating, DominateTypes
<1>2. Len(calls) \in Nat \ {0} /\ Len(calls) \in 1..Len(calls)
  BY <1>1, EmptySeq, LenProperties
<1>3. \A k \in 1..Len(calls) : calls[k] \in Nodes /\ ancestor[calls[k]] # 0
  BY <1>1, ElementOfSeq DEF Working, Dominating, Climbing
<1>4. \A k \in 1..Len(calls) : calls[k] \in Found
  BY <1>3 DEF Working, Dominating, Forest
<1>5. pc \in {"lower", "dominate"}
  BY DEF Working, Dominating, Climbing
<1>6. QED
  BY <1>1, <1>2, <1>3, <1>4, <1>5 DEF Descending, AtNode

(* What is not disturbed by a step of COMPRESS.                            *)
LEMMA CallKept ==
  ASSUME Working, Steady, UNCHANGED <<dots, pc, semi, dominator, bucket, i, ptr, arg>>, calls # << >>
  PROVE  /\ Semidominators' /\ Fresh' /\ Position' /\ Lowered' /\ Scanning' /\ Buckets'
         /\ Explicitly' /\ DominateStuck'
<1>1. Found' = Found /\ num' = num /\ UNCHANGED <<edges, n, vertex, parent, preds>>
  BY TreeKept DEF Steady
<1>2. pc \in {"lower", "dominate"}
  BY InnermostFacts
<1>3. /\ \A v : Settled(v)' <=> Settled(v)
      /\ \A p, v : InBucket(v, p)' <=> InBucket(v, p)
      /\ \A k : Ahead(k)' <=> Ahead(k)
  BY <1>1, TreeKept DEF Settled, InBucket, Ahead
<1> HIDE DEF Found, num, Above, Doms
<1>4. Semidominators'
  BY <1>1, SemidominatorsKept DEF Working
<1>5. Position'
  <2>1. Ahead(i - 1)' <=> Ahead(i - 1)
    BY <1>1 DEF Ahead
  <2>2. QED
    BY <1>1, <1>2, <2>1 DEF Position, AtNode, Working, Dominating
<1>6. Lowered'
  BY <1>1 DEF Lowered, Lowest, Descending, AtNode, Working, Dominating
<1>7. Lowest' = Lowest /\ (Descending' <=> Descending) /\ Descending
  BY <1>2 DEF Lowest, Descending, AtNode
<1>8. Buckets'
  BY <1>1, <1>2, <1>3, <1>7 DEF Buckets, Working, Dominating
<1>9. Fresh' /\ Explicitly' /\ Scanning' /\ DominateStuck'
  BY <1>1, <1>2 DEF Fresh, Explicitly, Scanning, DominateStuck, Working, Dominating
<1>10. QED
  BY <1>4, <1>5, <1>6, <1>8, <1>9

LEMMA CompressAncestorStep ==
  ASSUME Working, Steady, UNCHANGED dots, L!CompressAncestor
  PROVE  Semidominators' /\ Dominating'
<1> DEFINE v == calls[Len(calls)]
           len == Len(calls)
<1>1. /\ calls # << >> /\ ~ unwinding /\ ancestor[ancestor[v]] # 0
      /\ calls' = Append(calls, ancestor[v])
      /\ UNCHANGED <<pc, semi, dominator, ancestor, label, bucket, i, ptr, arg, unwinding>>
  BY DEF L!CompressAncestor, L!Innermost, L!forest
<1>2. Found' = Found /\ num' = num /\ UNCHANGED <<edges, n, vertex, parent, preds>>
  BY TreeKept DEF Steady
<1>3. /\ Semidominators' /\ Fresh' /\ Position' /\ Lowered' /\ Scanning' /\ Buckets'
      /\ Explicitly' /\ DominateStuck'
  BY <1>1, CallKept
<1>4. /\ calls \in Seq(Nodes) /\ len \in Nat \ {0} /\ v \in Nodes /\ ancestor[v] # 0
      /\ ancestor[v] \in Nodes /\ Descending /\ pc \in {"lower", "dominate"} /\ len \in 1..len
      /\ \A k \in 1..len : calls[k] \in Nodes /\ num[calls[k]] \in Nat
  BY <1>1, InnermostFacts, NumberOfNode DEF Working, Finished
<1>5. ancestor[v] \in Found /\ num[ancestor[v]] < num[v] /\ num[ancestor[v]] \in Nat
  BY <1>4, AncestorSmaller, NumberOfNode DEF Working, Dominating, Finished
<1> HIDE DEF Found, num, Above, Doms
<1>6. Forest'
  BY <1>1, <1>2, ForestKept DEF Working, Dominating
<1>7. Linked'
  BY <1>1, <1>2 DEF Linked, Descending, AtNode, Lowest, Working, Dominating
<1>8. /\ calls' \in Seq(Nodes) /\ Len(calls') = len + 1 /\ calls'[len + 1] = ancestor[v]
      /\ \A k \in 1..len : calls'[k] = calls[k]
  BY <1>1, <1>4, AppendProperties
<1>9. \A k \in 1..len : num[ancestor[v]] < num[calls[k]]
  <2>1. SUFFICES ASSUME NEW k \in 1..len PROVE num[ancestor[v]] < num[calls[k]]
    OBVIOUS
  <2>2. k = len \/ num[v] < num[calls[k]]
    BY <1>4 DEF Climbing, Working, Dominating
  <2>3. QED
    BY <2>2, <1>4, <1>5
<1>10. Climbing'
  <2>1. ASSUME NEW k \in 1..(len + 1)
        PROVE  /\ ancestor[calls'[k]] # 0
               /\ k > 1 => calls'[k] = ancestor[calls'[k - 1]]
               /\ \A j \in 1..(k - 1) : num[calls'[k]] < num[calls'[j]]
    <3>1. CASE k = len + 1
      <4>1. k - 1 = len
        BY <3>1, <1>4
      <4>2. QED
        BY <3>1, <4>1, <1>1, <1>4, <1>8, <1>9
    <3>2. CASE k # len + 1
      <4>1. k \in 1..len /\ \A j \in 1..(k - 1) : j \in 1..len
        BY <3>2, <1>4
      <4>2. k > 1 => k - 1 \in 1..len
        BY <4>1, <1>4
      <4>3. QED
        BY <4>1, <4>2, <1>8 DEF Climbing, Working, Dominating
    <3>3. QED
      BY <3>1, <3>2
  <2>2. ~ unwinding'
    BY <1>1
  <2>3. QED
    BY <2>1, <2>2, <1>1, <1>2, <1>4, <1>8 DEF Climbing
<1>11. DominateTypes'
  BY <1>1, <1>2, <1>8 DEF DominateTypes, Working, Dominating
<1>12. QED
  BY <1>3, <1>6, <1>7, <1>10, <1>11 DEF Dominating

LEMMA CompressBelowRootStep ==
  ASSUME Working, Steady, UNCHANGED dots, L!CompressBelowRoot
  PROVE  Semidominators' /\ Dominating'
<1> DEFINE v == calls[Len(calls)]
           len == Len(calls)
<1>1. /\ calls # << >> /\ calls' = Pop(calls) /\ unwinding' = TRUE
      /\ UNCHANGED <<pc, semi, dominator, ancestor, label, bucket, i, ptr, arg>>
  BY DEF L!CompressBelowRoot, L!Pop, Pop, L!forest
<1>2. Found' = Found /\ num' = num /\ UNCHANGED <<edges, n, vertex, parent, preds>>
  BY TreeKept DEF Steady
<1>3. /\ Semidominators' /\ Fresh' /\ Position' /\ Lowered' /\ Scanning' /\ Buckets'
      /\ Explicitly' /\ DominateStuck'
  BY <1>1, CallKept
<1>4. /\ calls \in Seq(Nodes) /\ len \in Nat \ {0} /\ len \in 1..len
      /\ ancestor[v] # 0 /\ pc \in {"lower", "dominate"}
  BY <1>1, InnermostFacts
<1> HIDE DEF Found, num, Above, Doms
<1>5. Forest'
  BY <1>1, <1>2, ForestKept DEF Working, Dominating
<1>6. Linked'
  BY <1>1, <1>2 DEF Linked, Descending, AtNode, Lowest, Working, Dominating
<1>7. /\ calls' \in Seq(Nodes) /\ Len(calls') = len - 1
      /\ \A k \in 1..(len - 1) : calls'[k] = calls[k]
  BY <1>1, <1>4, PopProperties
<1>8. Climbing'
  <2>1. ASSUME NEW k \in 1..(len - 1)
        PROVE  /\ ancestor[calls'[k]] # 0
               /\ k > 1 => calls'[k] = ancestor[calls'[k - 1]]
               /\ \A j \in 1..(k - 1) : num[calls'[k]] < num[calls'[j]]
    <3>1. k \in 1..len /\ \A j \in 1..(k - 1) : j \in 1..(len - 1)
      BY <1>4
    <3>2. k > 1 => k - 1 \in 1..(len - 1)
      BY <3>1, <1>4
    <3>3. QED
      BY <3>1, <3>2, <1>7 DEF Climbing, Working, Dominating
  <2>2. ASSUME calls' # << >> PROVE ancestor[ancestor[calls'[len - 1]]] # 0
    <3>1. len - 1 \in 1..(len - 1)
      BY <2>2, <1>4, <1>7, EmptySeq
    <3>2. calls'[len - 1] = calls[len - 1] /\ v = ancestor[calls[len - 1]]
      BY <3>1, <1>4, <1>7 DEF Climbing, Working, Dominating
    <3>3. QED
      BY <3>2, <1>4
  <2>3. QED
    BY <2>1, <2>2, <1>1, <1>2, <1>4, <1>7 DEF Climbing
<1>9. DominateTypes'
  BY <1>1, <1>2, <1>7 DEF DominateTypes, Working, Dominating
<1>10. QED
  BY <1>3, <1>5, <1>6, <1>8, <1>9 DEF Dominating

LEMMA CompressUnwindStep ==
  ASSUME Working, Steady, UNCHANGED dots, L!CompressUnwind
  PROVE  Semidominators' /\ Dominating'
<1> DEFINE v == calls[Len(calls)]
           len == Len(calls)
           a == ancestor[v]
           b == ancestor[a]
           best == IF semi[label[a]] < semi[label[v]] THEN label[a] ELSE label[v]
<1>1. /\ calls # << >> /\ unwinding /\ calls' = Pop(calls)
      /\ label' = [label EXCEPT ![v] = best] /\ ancestor' = [ancestor EXCEPT ![v] = b]
      /\ UNCHANGED <<pc, semi, dominator, bucket, i, ptr, arg, unwinding>>
  BY DEF L!CompressUnwind, L!Innermost, L!BetterLabel, L!Pop, Pop
<1>2. Found' = Found /\ num' = num /\ UNCHANGED <<edges, n, vertex, parent, preds>>
  BY TreeKept DEF Steady
<1>3. /\ Semidominators' /\ Fresh' /\ Position' /\ Lowered' /\ Scanning' /\ Buckets'
      /\ Explicitly' /\ DominateStuck'
  BY <1>1, CallKept
<1>4. /\ calls \in Seq(Nodes) /\ len \in Nat \ {0} /\ len \in 1..len /\ v \in Nodes
      /\ \A k \in 1..len : calls[k] \in Nodes /\ num[calls[k]] \in Nat
      /\ a # 0 /\ a \in Nodes /\ pc \in {"lower", "dominate"}
  BY <1>1, InnermostFacts, NumberOfNode DEF Working, Finished
<1>5. b # 0
  BY <1>1 DEF Climbing, Working, Dominating
<1>6. v \in Found \ {0} /\ a \in Found /\ num[a] < num[v] /\ Above(a, v)
  BY <1>4, AncestorSmaller DEF Working, Dominating
<1>7. a \in Found \ {0} /\ b \in Found /\ num[b] < num[a] /\ Above(b, a)
  BY <1>4, <1>5, AncestorSmaller DEF Working, Dominating
<1>8. \A x, y : Above(x, y)' <=> Above(x, y)
  BY <1>2, TreeKept
<1>9. /\ ancestor \in [Nodes -> Nodes] /\ label \in [Nodes -> Nodes]
      /\ semi \in [Nodes -> Nodes] /\ \A x \in Nodes : semi[x] \in Nat
      /\ Found \subseteq Nodes /\ \A x \in Found : num[x] \in Nat
  BY NodesAreNaturals, FoundNodes, NumberOfNode
     DEF Working, Dominating, DominateTypes, Semidominators, Finished
<1> HIDE DEF Found, num, Above, Doms, v, a
<1>10. /\ Above(a, parent[v])
       /\ label[v] \in Found /\ Above(label[v], v) /\ num[a] < num[label[v]]
       /\ \A x \in Found : Above(x, v) /\ num[a] < num[x] => ancestor[x] # 0 /\ semi[label[v]] <= semi[x]
  BY <1>4, <1>6 DEF Forest, Working, Dominating, a
<1>11. /\ label[a] \in Found /\ Above(label[a], a) /\ num[b] < num[label[a]]
       /\ \A x \in Found : Above(x, a) /\ num[b] < num[x] => ancestor[x] # 0 /\ semi[label[a]] <= semi[x]
  BY <1>4, <1>5 DEF Forest, Working, Dominating
<1>12. b \in Nodes
  BY <1>7, <1>9
<1> HIDE DEF b
<1>13. Above(b, parent[v])
  BY <1>7, <1>10, AboveLaws
<1>14. best \in Found /\ Above(best, v) /\ num[b] < num[best] /\ best \in Nodes
  <2>1. Above(label[a], v)
    BY <1>6, <1>11, AboveLaws
  <2>2. num[b] < num[label[v]]
    BY <1>6, <1>7, <1>9, <1>10
  <2>3. QED
    BY <2>1, <2>2, <1>9, <1>10, <1>11
<1>15. ASSUME NEW x \in Found, Above(x, v), num[b] < num[x]
       PROVE  ancestor[x] # 0 /\ semi[best] <= semi[x]
  <2>1. semi[best] <= semi[label[a]] /\ semi[best] <= semi[label[v]] /\ semi[best] \in Nat
    BY <1>9, <1>10, <1>11
  <2>2. semi[label[a]] \in Nat /\ semi[label[v]] \in Nat /\ semi[x] \in Nat
    BY <1>9, <1>10, <1>11
  <2> HIDE DEF best
  <2>3. CASE num[a] < num[x]
    <3>1. ancestor[x] # 0 /\ semi[label[v]] <= semi[x]
      BY <2>3, <1>10, <1>15
    <3>2. QED
      BY <3>1, <2>1, <2>2
  <2>4. CASE ~ (num[a] < num[x])
    <3>1. num[x] <= num[a]
      BY <2>4, <1>6, <1>9
    <3>2. Above(x, a)
      BY <3>1, <1>6, <1>15, AboveFound DEF Working
    <3>3. ancestor[x] # 0 /\ semi[label[a]] <= semi[x]
      BY <3>2, <1>11, <1>15
    <3>4. QED
      BY <3>3, <2>1, <2>2
  <2>5. QED
    BY <2>3, <2>4
<1> HIDE DEF best
<1>16. /\ ancestor' \in [Nodes -> Nodes] /\ label' \in [Nodes -> Nodes]
       /\ ancestor'[v] = b /\ label'[v] = best
       /\ \A x \in Nodes : x # v => ancestor'[x] = ancestor[x] /\ label'[x] = label[x]
  BY <1>1, <1>4, <1>9, <1>12, <1>14
<1>17. \A x \in Nodes : ancestor'[x] # 0 <=> ancestor[x] # 0
  BY <1>4, <1>5, <1>16 DEF a
<1>18. Forest'
  <2>1. ASSUME NEW x \in Nodes, ancestor[x] # 0
        PROVE  /\ x \in Found \ {0} /\ Above(ancestor'[x], parent[x])
               /\ label'[x] \in Found /\ Above(label'[x], x) /\ num[ancestor'[x]] < num[label'[x]]
               /\ \A y \in Found : Above(y, x) /\ num[ancestor'[x]] < num[y] =>
                    ancestor[y] # 0 /\ semi[label'[x]] <= semi[y]
    <3>1. CASE x = v
      BY <3>1, <1>6, <1>13, <1>14, <1>15, <1>16
    <3>2. CASE x # v
      BY <3>2, <2>1, <1>16 DEF Forest, Working, Dominating
    <3>3. QED
      BY <3>1, <3>2
  <2>2. \A x \in Nodes : ancestor[x] = 0 => label'[x] = x
    BY <1>4, <1>16 DEF Forest, Working, Dominating, a
  <2>3. semi' = semi
    BY <1>1
  <2>4. QED
    BY <2>1, <2>2, <2>3, <1>2, <1>8, <1>9, <1>17 DEF Forest
<1>19. Linked'
  BY <1>1, <1>2, <1>9, <1>17 DEF Linked, Descending, AtNode, Lowest, Working, Dominating
<1>20. /\ calls' \in Seq(Nodes) /\ Len(calls') = len - 1
       /\ \A k \in 1..(len - 1) : calls'[k] = calls[k]
  BY <1>1, <1>4, PopProperties
<1>21. \A k \in 1..(len - 1) : k \in 1..len /\ calls[k] # v
  <2>1. SUFFICES ASSUME NEW k \in 1..(len - 1) PROVE k \in 1..len /\ calls[k] # v
    OBVIOUS
  <2>2. k \in 1..len
    BY <1>4
  <2>3. num[calls[len]] < num[calls[k]]
    BY <1>4 DEF Climbing, Working, Dominating
  <2>4. num[v] < num[calls[k]] /\ num[calls[k]] \in Nat
    BY <2>2, <2>3, <1>4 DEF v
  <2>5. QED
    BY <2>2, <2>4
<1>22. \A k \in 1..(len - 1) : ancestor'[calls'[k]] = ancestor[calls[k]]
  BY <1>4, <1>16, <1>20, <1>21
<1>23. Climbing'
  <2>1. ASSUME NEW k \in 1..(len - 1)
        PROVE  /\ ancestor'[calls'[k]] # 0
               /\ k > 1 => calls'[k] = ancestor'[calls'[k - 1]]
               /\ \A j \in 1..(k - 1) : num[calls'[k]] < num[calls'[j]]
    <3>1. k \in 1..len /\ \A j \in 1..(k - 1) : j \in 1..(len - 1)
      BY <1>4
    <3>2. k > 1 => k - 1 \in 1..(len - 1)
      BY <3>1, <1>4
    <3>3. QED
      BY <3>1, <3>2, <1>20, <1>22 DEF Climbing, Working, Dominating
  <2>2. ASSUME calls' # << >> PROVE ancestor'[ancestor'[calls'[len - 1]]] # 0
    <3>1. len - 1 \in 1..(len - 1)
      BY <2>2, <1>4, <1>20, EmptySeq
    <3>2. calls[len] = ancestor[calls[len - 1]]
      BY <3>1, <1>4 DEF Climbing, Working, Dominating
    <3>3. ancestor'[calls'[len - 1]] = v
      BY <3>1, <3>2, <1>22 DEF v
    <3>4. QED
      BY <3>3, <1>5, <1>16
  <2>3. QED
    BY <2>1, <2>2, <1>1, <1>2, <1>4, <1>20 DEF Climbing
<1>24. DominateTypes'
  BY <1>1, <1>2, <1>16, <1>20 DEF DominateTypes, Working, Dominating
<1>25. QED
  BY <1>3, <1>18, <1>19, <1>23, <1>24 DEF Dominating

------------------------------------------------------------------------------
(* From one program to the next *)

(* dfs has ended: what it has discovered has been found, with the numbers  *)
(* in semi.                                                                *)
LEMMA SearchEnds ==
  ASSUME SearchInvariant, pc = "done"
  PROVE  /\ Found = Discovered /\ Finished
         /\ semi \in [Nodes -> Nodes] /\ Clean
<1>1. /\ TypeOK /\ NumberingIsBijective /\ n # 0 /\ Searching /\ Nested /\ Contiguous
      /\ Numbered
  BY DEF SearchInvariant, Numbered
<1>2. /\ edges \in Seq(Links(Nodes)) /\ semi \in [Nodes -> Nodes] /\ vertex \in [Nodes -> Nodes]
      /\ parent \in [Nodes -> Nodes] /\ n \in 1..NumNodes /\ stack = << >>
  BY <1>1, NumNodesAssumption DEF TypeOK
<1>3. /\ \A j \in 0..(n - 1) : vertex[j] \in Discovered /\ semi[vertex[j]] = j
      /\ \A v \in Discovered : semi[v] < n /\ vertex[semi[v]] = v /\ semi[v] \in Nat
      /\ \A j \in Nodes : j >= n => vertex[j] = 0
  BY <1>1, DiscoveredNodes DEF NumberingIsBijective
<1>4. Found = Discovered
  <2>1. \A v \in Discovered : semi[v] \in 0..(n - 1)
    BY <1>2, <1>3
  <2>2. QED
    BY <2>1, <1>3 DEF Found
<1>5. Discovered \subseteq Nodes /\ 0 \in Discovered
  BY <1>1, DiscoveredNodes
<1>6. \A v \in Discovered : num[v] = semi[v]
  <2>1. SUFFICES ASSUME NEW v \in Discovered PROVE num[v] = semi[v]
    OBVIOUS
  <2>2. num[v] = CHOOSE j \in 0..(n - 1) : vertex[j] = v
    BY <1>4, <1>5 DEF num
  <2>3. semi[v] \in 0..(n - 1) /\ vertex[semi[v]] = v
    BY <1>2, <1>3
  <2>4. num[v] \in 0..(n - 1) /\ vertex[num[v]] = v
    BY <2>2, <2>3
  <2>5. QED
    BY <2>4, <1>3
<1> HIDE DEF Found, num
<1>7. Clean
  BY <1>4, <1>6 DEF Clean
<1>8. Numbering
  <2>1. vertex[0] = 0
    <3>1. semi[0] = 0
      <4>1. CASE n = 1
        <5>1. semi[0] < 1 /\ semi[0] \in Nat
          BY <4>1, <1>3, <1>5
        <5>2. QED
          BY <5>1
      <4>2. CASE n # 1
        <5>1. 0 \in 0..(n - 1) /\ vertex[0] \in Discovered /\ semi[vertex[0]] = 0
          BY <1>2, <1>3
        <5>2. vertex[0] = 0
          BY <5>1, <1>1 DEF Discovered
        <5>3. QED
          BY <5>1, <5>2
      <4>3. QED
        BY <4>1, <4>2
    <3>2. QED
      BY <3>1, <1>3, <1>5
  <2>2. \A j \in 0..(n - 1) : num[vertex[j]] = j
    BY <1>3, <1>6
  <2>3. QED
    BY <2>1, <2>2, <1>2, <1>3 DEF Numbering
<1>9. Tree
  <2>1. links \subseteq Links(Nodes)
    BY <1>2, LinksOfFile DEF links
  <2>2. Found = Reached
    BY <1>1, <1>4, FoundIsReachable DEF FindsReachable, Reached, links
  <2>3. \A v \in Found \ {0} :
          /\ parent[v] \in Found /\ num[parent[v]] < num[v]
          /\ [src |-> parent[v], dst |-> v] \in links
    BY <1>1, <1>4, <1>6 DEF Searching, ParentTree, links
  <2>4. ASSUME NEW e \in links, e.src \in Found, num[e.src] < num[e.dst]
        PROVE  Above(e.src, e.dst)
    <3>1. PICK j \in 1..Len(edges) : e = edges[j]
      BY DEF links, LinksOf
    <3>2. Len(stack) = 0
      BY <1>2
    <3>3. j \in Handled
      BY <2>4, <3>1, <3>2, <1>4 DEF Handled
    <3>4. e.dst \in Discovered
      BY <3>1, <3>3, <1>1, HandledLeadsToFound DEF SearchInvariant
    <3>5. semi[edges[j].src] < semi[edges[j].dst]
      BY <2>4, <3>1, <3>4, <1>4, <1>6
    <3>6. QED
      BY <3>1, <3>3, <3>5, <1>1 DEF Nested, Above
  <2>5. \A t, r \in Found : Above(t, r) =>
          \A w \in Found : num[t] <= num[w] /\ num[w] <= num[r] => Above(t, w)
    BY <1>1, <1>4, <1>6 DEF Contiguous, Above
  <2>6. QED
    BY <2>1, <2>2, <2>3, <2>4, <2>5, <1>2 DEF Tree
<1>10. QED
  BY <1>2, <1>4, <1>7, <1>8, <1>9 DEF Finished

LEMMA PredecessorsSorted ==
  ASSUME SearchInvariant, pc = "done"
  PROVE  LET file == SortedLinks(pred)
         IN  /\ file \in Seq(Links(Nodes)) /\ StrictlySorted(file)
             /\ LinksOf(file) = {[src |-> e.dst, dst |-> e.src] : e \in Kept}
<1>1. pred \in Seq(Links(Nodes)) /\ Found = Discovered
  BY SearchEnds DEF SearchInvariant, Numbered, TypeOK
<1>2. PredIsReversedGraph
  BY WrittenIsReversed DEF SearchInvariant
<1>3. LinksOf(pred) = {[src |-> e.dst, dst |-> e.src] : e \in {f \in LinksOf(edges) : f.src \in Discovered}}
  BY <1>2 DEF PredIsReversedGraph
<1>4. LinksOf(pred) = {[src |-> e.dst, dst |-> e.src] : e \in Kept}
  BY <1>1, <1>3 DEF Kept, links
<1>5. /\ SortedLinks(pred) \in Seq(Links(Nodes))
      /\ LinksOf(SortedLinks(pred)) = LinksOf(pred)
      /\ StrictlySorted(SortedLinks(pred))
  BY <1>1, NodesAreNaturals, LinksSorted
<1>6. QED
  BY <1>4, <1>5

(* dfs's own numbers serve as semidominators' to begin with.               *)
LEMMA NumbersToBeginWith ==
  ASSUME Finished, semi \in [Nodes -> Nodes], Clean
  PROVE  Semidominators
<1>1. /\ 0 \in Found /\ num[0] = 0 /\ \A v \in Found : vertex[num[v]] = v
  BY FoundNodes DEF Finished
<1>2. \A v \in Found : num[v] \in Nat
  BY NumberOfNode DEF Finished
<1>3. \A v : Above(v, v)
  BY AboveLaws
<1> HIDE DEF Found, num, Above, Doms
<1>4. \A v \in Found : semi[v] = num[v]
  BY DEF Clean
<1>5. \A w \in Found : \A x \in Doms(w) : num[x] <= num[w]
  <2>1. SUFFICES ASSUME NEW w \in Found, NEW x \in Doms(w) PROVE num[x] <= num[w]
    OBVIOUS
  <2>2. x \in Found /\ num[x] < num[w]
    BY DominatorsAbove
  <2>3. QED
    BY <2>2, <1>2
<1>6. QED
  BY <1>1, <1>2, <1>3, <1>4, <1>5 DEF Semidominators

(* A run of dominate begins.                                               *)
LEMMA LoadStep ==
  ASSUME L!Load, pc' = "start", Len(preds') \in Nat,
         UNCHANGED <<edges, n, vertex, parent, dominator>>,
         dominator \in [Nodes -> Nodes], dominator[0] = 0
  PROVE  Dominating'
<1>1. /\ ancestor' = Zeros /\ label' = [v \in Nodes |-> v] /\ bucket' = [v \in Nodes |-> << >>]
      /\ i' = NumNodes - 1 /\ ptr' = 1 /\ arg' = 0 /\ calls' = << >> /\ unwinding' = FALSE
  BY DEF L!Load, L!Zeros, Zeros, L!Nodes, Nodes
<1>2. 0 \in Nodes /\ NumNodes \in Nat \ {0}
  BY NodesAreNaturals, NumNodesAssumption
<1>3. DominateTypes'
  <2>1. ancestor' \in [Nodes -> Nodes] /\ label' \in [Nodes -> Nodes] /\ bucket' \in [Nodes -> Seq(Nodes)]
    BY <1>1, <1>2 DEF Zeros
  <2>2. i' \in 0..NumNodes /\ ptr' \in 1..(Len(preds') + 1) /\ arg' \in Nodes
    BY <1>1, <1>2
  <2>3. calls' \in Seq(Nodes)
    BY <1>1
  <2>4. unwinding' \in BOOLEAN
    BY <1>1, Zenon
  <2>5. QED
    BY <2>1, <2>2, <2>3, <2>4 DEF DominateTypes
<1>4. Fresh'
  BY <1>1 DEF Fresh, Zeros, Nodes
<1>5. Forest'
  BY <1>1 DEF Forest, Zeros
<1>6. Climbing'
  BY <1>1 DEF Climbing
<1>7. Position' /\ Lowered' /\ Linked' /\ Buckets' /\ Scanning' /\ Explicitly' /\ DominateStuck'
  BY DEF Position, Lowered, Linked, Buckets, Scanning, Explicitly, DominateStuck, Descending, AtNode
<1>8. QED
  BY <1>3, <1>4, <1>5, <1>6, <1>7 DEF Dominating

LEMMA StartDominateStep ==
  ASSUME SearchInvariant, StartDominate, dominator \in [Nodes -> Nodes], dominator[0] = 0
  PROVE  Finished' /\ Predecessors' /\ Semidominators' /\ Dominating'
<1>1. /\ pc = "done" /\ pc' = "start" /\ preds' = SortedLinks(pred) /\ L!Load
      /\ UNCHANGED <<edges, n, vertex, parent, semi, dominator>>
  BY DEF StartDominate, dfsOnly
<1>2. Found' = Found /\ num' = num /\ links' = links /\ (Finished' <=> Finished)
  BY <1>1, TreeKept
<1>3. Finished /\ Semidominators
  BY <1>1, SearchEnds, NumbersToBeginWith
<1>4. Semidominators'
  BY <1>1, <1>3, SemidominatorsKept
<1>5. Predecessors'
  <2>1. Kept' = Kept
    BY <1>2 DEF Kept
  <2>2. QED
    BY <2>1, <1>1, PredecessorsSorted DEF Predecessors
<1>6. Len(preds') \in Nat
  BY <1>5, LenProperties DEF Predecessors
<1>7. Dominating'
  BY <1>1, <1>6, LoadStep
<1>8. QED
  BY <1>2, <1>3, <1>4, <1>5, <1>7

LEMMA DominateStep ==
  ASSUME Finished, Predecessors, Semidominators, Dominating, dots \in Nat \ {0}, RunDominate
  PROVE  Finished' /\ Predecessors' /\ Semidominators' /\ Dominating'
<1>1. Steady /\ UNCHANGED dots
  BY DEF RunDominate, L!Next, L!MapFails, L!Begin, L!CompressAncestor, L!CompressBelowRoot,
         L!CompressUnwind, L!DivideByZero, L!SkipUnreached, L!AssertionFails, L!StartNode,
         L!EvalPred, L!LowerSemi, L!FinishNode, L!EvalWaiting, L!SetDominator, L!NextNode,
         L!BeginStep4, L!MakeExplicit, L!Finish, L!inputs, Steady, dfsOnly
<1>2. Finished' /\ Predecessors'
  BY <1>1, TreeKept, PredecessorsKept DEF Steady
<1>3. Working
  BY DEF Working
<1>4. CASE L!MapFails \/ L!DivideByZero \/ L!AssertionFails
  BY <1>1, <1>2, <1>3, <1>4, StopStep
<1>5. CASE L!Begin
  BY <1>1, <1>2, <1>3, <1>5, BeginStep
<1>6. CASE L!CompressAncestor
  BY <1>1, <1>2, <1>3, <1>6, CompressAncestorStep
<1>7. CASE L!CompressBelowRoot
  BY <1>1, <1>2, <1>3, <1>7, CompressBelowRootStep
<1>8. CASE L!CompressUnwind
  BY <1>1, <1>2, <1>3, <1>8, CompressUnwindStep
<1>9. CASE L!SkipUnreached
  BY <1>1, <1>2, <1>3, <1>9, SkipUnreachedStep
<1>10. CASE L!StartNode
  BY <1>1, <1>2, <1>3, <1>10, StartNodeStep
<1>11. CASE L!EvalPred
  BY <1>1, <1>2, <1>3, <1>11, EvalPredStep
<1>12. CASE L!LowerSemi
  BY <1>1, <1>2, <1>3, <1>12, LowerSemiStep
<1>13. CASE L!FinishNode
  BY <1>1, <1>2, <1>3, <1>13, FinishNodeStep
<1>14. CASE L!EvalWaiting
  BY <1>1, <1>2, <1>3, <1>14, EvalWaitingStep
<1>15. CASE L!SetDominator
  BY <1>1, <1>2, <1>3, <1>15, SetDominatorStep
<1>16. CASE L!NextNode
  BY <1>1, <1>2, <1>3, <1>16, NextNodeStep
<1>17. CASE L!BeginStep4
  BY <1>1, <1>2, <1>3, <1>17, BeginStep4Step
<1>18. CASE L!MakeExplicit
  BY <1>1, <1>2, <1>3, <1>18, MakeExplicitStep
<1>19. CASE L!Finish
  BY <1>1, <1>2, <1>3, <1>19, FinishStep
<1>20. QED
  BY <1>4, <1>5, <1>6, <1>7, <1>8, <1>9, <1>10, <1>11, <1>12, <1>13, <1>14, <1>15, <1>16,
     <1>17, <1>18, <1>19 DEF RunDominate, L!Next

------------------------------------------------------------------------------
(* Chains of dominators *)

LEMMA ChainLaws ==
  ASSUME Finished, AllFinal, dominator \in [Nodes -> Nodes], dominator[0] = 0
  PROVE  /\ \A w \in Nodes : w \in DominatorChain(w) /\ DominatorChain(w) \subseteq Nodes
         /\ \A w : \A x \in DominatorChain(w) : dominator[x] \in DominatorChain(w)
         /\ \A w, x, y : x \in DominatorChain(w) /\ y \in DominatorChain(x) => y \in DominatorChain(w)
         /\ \A w \in Found : DominatorChain(w) \subseteq Found
         /\ \A w \in Found : \A x \in DominatorChain(w) : x = w \/ num[x] < num[w]
         /\ \A w \in Found : \A x \in DominatorChain(w) :
              x # w => \E d \in DominatorChain(w) \ {0} : dominator[d] = x
         /\ \A w \in Nodes : DominatorChain(w) \subseteq {w} \cup DominatorChain(dominator[w])
<1>0. Found \subseteq Nodes /\ 0 \in Found /\ \A v \in Found : num[v] \in Nat
  BY FoundNodes, NumberOfNode DEF Finished
<1>1. \A w \in Nodes : w \in DominatorChain(w) /\ DominatorChain(w) \subseteq Nodes
  BY DEF DominatorChain
<1>2. \A w : \A x \in DominatorChain(w) : dominator[x] \in DominatorChain(w)
  BY DEF DominatorChain
<1>3. \A w, x, y : x \in DominatorChain(w) /\ y \in DominatorChain(x) => y \in DominatorChain(w)
  BY DEF DominatorChain
<1> HIDE DEF Found, num
<1>4. \A v \in Found \ {0} : dominator[v] \in Found /\ num[dominator[v]] < num[v]
  BY DEF AllFinal, Final
<1>5. \A w \in Found : DominatorChain(w) \subseteq Found
  BY <1>0, <1>4 DEF DominatorChain
<1>6. ASSUME NEW w \in Found, NEW x \in DominatorChain(w) PROVE x = w \/ num[x] < num[w]
  <2> DEFINE S == {w} \cup {y \in Found : num[y] < num[w]}
  <2>1. S \in SUBSET Nodes /\ w \in S
    BY <1>0
  <2>2. ASSUME NEW y \in S PROVE dominator[y] \in S
    <3>1. CASE y = 0
      BY <3>1
    <3>2. CASE y # 0
      <4>1. y \in Found \ {0} /\ dominator[y] \in Found /\ num[dominator[y]] < num[y]
        BY <3>2, <1>4
      <4>2. num[dominator[y]] < num[w]
        BY <4>1, <1>0
      <4>3. QED
        BY <4>1, <4>2
    <3>3. QED
      BY <3>1, <3>2
  <2>3. x \in S
    BY <2>1, <2>2 DEF DominatorChain
  <2>4. QED
    BY <2>3
<1>7. ASSUME NEW w \in Found, NEW x \in DominatorChain(w), x # w
      PROVE  \E d \in DominatorChain(w) \ {0} : dominator[d] = x
  <2> DEFINE S == {w} \cup {y \in Nodes : \E d \in DominatorChain(w) \ {0} : dominator[d] = y}
  <2>1. S \in SUBSET Nodes /\ w \in S
    BY <1>0
  <2>2. S \subseteq DominatorChain(w)
    BY <1>0, <1>1, <1>2
  <2>3. ASSUME NEW y \in S PROVE dominator[y] \in S
    <3>1. CASE y = 0
      BY <3>1
    <3>2. CASE y # 0
      BY <3>2, <2>2, <1>1, <1>0
    <3>3. QED
      BY <3>1, <3>2
  <2>4. x \in S
    BY <2>1, <2>3 DEF DominatorChain
  <2>5. QED
    BY <2>4, <1>7
<1>8. ASSUME NEW w \in Nodes PROVE DominatorChain(w) \subseteq {w} \cup DominatorChain(dominator[w])
  <2> DEFINE T == {w} \cup DominatorChain(dominator[w])
  <2>1. T \in SUBSET Nodes /\ w \in T /\ dominator[w] \in Nodes
    BY <1>1
  <2>2. \A t \in T : dominator[t] \in T
    BY <2>1, <1>1, <1>2
  <2>3. QED
    BY <2>1, <2>2 DEF DominatorChain
<1>9. QED
  BY <1>1, <1>2, <1>3, <1>5, <1>6, <1>7, <1>8

(* Of two nodes on a chain, one is on the other's.                         *)
LEMMA ChainIsLinear ==
  ASSUME Finished, AllFinal, dominator \in [Nodes -> Nodes], dominator[0] = 0,
         NEW w \in Found, NEW x \in DominatorChain(w), NEW y \in DominatorChain(w)
  PROVE  x \in DominatorChain(y) \/ y \in DominatorChain(x)
<1> DEFINE S == {z \in DominatorChain(w) : x \in DominatorChain(z) \/ z \in DominatorChain(x)}
<1>1. S \in SUBSET Nodes /\ w \in S /\ w \in Nodes /\ x \in Nodes
  BY ChainLaws, FoundNodes DEF Finished
<1>2. ASSUME NEW z \in S PROVE dominator[z] \in S
  <2>1. z \in DominatorChain(w) /\ dominator[z] \in DominatorChain(w) /\ z \in Found
    BY ChainLaws
  <2>2. CASE z \in DominatorChain(x)
    BY <2>1, <2>2, ChainLaws
  <2>3. CASE x \in DominatorChain(z) /\ x # z
    <3>1. DominatorChain(z) \subseteq {z} \cup DominatorChain(dominator[z])
      BY <2>1, ChainLaws, FoundNodes DEF Finished
    <3>2. x \in DominatorChain(dominator[z])
      BY <2>3, <3>1
    <3>3. QED
      BY <3>2, <2>1
  <2>4. QED
    BY <2>2, <2>3, <1>1, ChainLaws
<1>3. y \in S
  BY <1>1, <1>2 DEF DominatorChain
<1>4. QED
  BY <1>3

(* All dominators of a node are on its chain.                              *)
LEMMA DominatorsOnChain ==
  ASSUME Finished, AllFinal, dominator \in [Nodes -> Nodes], dominator[0] = 0
  PROVE  \A w \in Found : Doms(w) \subseteq DominatorChain(w)
<1> DEFINE Bad == {w \in Found : ~ Doms(w) \subseteq DominatorChain(w)}
<1> HIDE DEF Doms
<1>1. SUFFICES ASSUME Bad # {} PROVE FALSE
  OBVIOUS
<1>2. PICK w \in Bad : \A y \in Bad : num[w] <= num[y]
  BY <1>1, LeastNumber DEF Finished
<1>3. w \in Found /\ \A v \in Found : num[v] \in Nat
  BY NumberOfNode DEF Finished
<1>4. w # 0
  <2>1. ASSUME w = 0, NEW x \in Doms(w) PROVE FALSE
    <3>1. x \in Found /\ num[x] < 0
      BY <2>1, DominatorsAbove, FoundNodes DEF Finished
    <3>2. QED
      BY <3>1, <1>3
  <2>2. QED
    BY <2>1
<1>5. /\ dominator[w] \in Found /\ num[dominator[w]] < num[w]
      /\ Doms(w) \subseteq {dominator[w]} \cup Doms(dominator[w])
  BY <1>3, <1>4 DEF AllFinal, Final
<1> HIDE DEF Found, num
<1>6. dominator[w] \notin Bad
  BY <1>2, <1>3, <1>5
<1>7. Doms(dominator[w]) \subseteq DominatorChain(dominator[w])
  BY <1>5, <1>6
<1>8. w \in DominatorChain(w) /\ dominator[w] \in DominatorChain(w)
  BY <1>3, ChainLaws, FoundNodes DEF Finished
<1>9. DominatorChain(dominator[w]) \subseteq DominatorChain(w)
  BY <1>8, ChainLaws
<1>10. QED
  BY <1>5, <1>7, <1>8, <1>9

(* Every chain ends at the root.                                           *)
LEMMA ChainsReachRoot ==
  ASSUME Finished, AllFinal, dominator \in [Nodes -> Nodes], dominator[0] = 0
  PROVE  \A w \in Found : 0 \in DominatorChain(w)
<1> DEFINE Bad == {w \in Found : 0 \notin DominatorChain(w)}
<1>1. SUFFICES ASSUME Bad # {} PROVE FALSE
  OBVIOUS
<1>2. PICK w \in Bad : \A y \in Bad : num[w] <= num[y]
  BY <1>1, LeastNumber DEF Finished
<1>3. w \in Found /\ w \in Nodes /\ \A v \in Found : num[v] \in Nat
  BY NumberOfNode, FoundNodes DEF Finished
<1>4. w \in DominatorChain(w) /\ dominator[w] \in DominatorChain(w)
  BY <1>3, ChainLaws
<1>5. w # 0
  BY <1>2, <1>4
<1>6. dominator[w] \in Found /\ num[dominator[w]] < num[w]
  BY <1>3, <1>5 DEF AllFinal, Final
<1> HIDE DEF Found, num
<1>7. 0 \in DominatorChain(dominator[w])
  BY <1>2, <1>3, <1>6
<1>8. QED
  BY <1>2, <1>4, <1>7, ChainLaws

(* The found nodes are instances, so that there are n of them at most.     *)
LEMMA FoundInstances ==
  ASSUME Finished, edges \in EdgeFiles
  PROVE  /\ IsFiniteSet(Found) /\ Cardinality(Found) = n
         /\ Found \subseteq R!Instances /\ n <= NumInstances
<1>1. n \in Nat \ {0} /\ n - 1 \in Nat /\ NumInstances \in Nat /\ NumInstances >= 1 /\ NumInstances <= NumNodes
  BY NumNodesAssumption, AnalysisAssumption DEF Finished, Numbering
<1> DEFINE f == [j \in 0..(n - 1) |-> vertex[j]]
<1>2. f \in Bijection(0..(n - 1), Found)
  <2>1. \A j \in 0..(n - 1) : vertex[j] \in Found
    BY DEF Found
  <2>2. \A v \in Found : \E j \in 0..(n - 1) : f[j] = v
    BY DEF Found
  <2>3. \A j, k \in 0..(n - 1) : vertex[j] = vertex[k] => j = k
    BY DEF Finished, Numbering
  <2>4. f \in [0..(n - 1) -> Found]
    BY <2>1
  <2> HIDE DEF Found
  <2>5. f \in Injection(0..(n - 1), Found)
    BY <2>3, <2>4 DEF Injection, IsInjective
  <2>6. f \in Surjection(0..(n - 1), Found)
    BY <2>2, <2>4 DEF Surjection
  <2>7. QED
    BY <2>5, <2>6 DEF Bijection
<1>3. IsFiniteSet(0..(n - 1)) /\ Cardinality(0..(n - 1)) = n
  BY <1>1, FS_Interval
<1>4. IsFiniteSet(Found) /\ Cardinality(Found) = n
  BY <1>2, <1>3, FS_Bijection DEF ExistsBijection
<1>5. Found \subseteq R!Instances
  <2>1. R!Instances \in SUBSET Nodes /\ 0 \in R!Instances
    BY <1>1, NumNodesAssumption DEF R!Instances, Nodes
  <2>2. edges \in Seq(Links(R!Instances))
    BY AnalysisAssumption DEF R!Instances
  <2>3. links \subseteq Links(R!Instances)
    BY <2>2, LinksOfFile DEF links
  <2>4. Closed(R!Instances, links)
    BY <2>3 DEF Closed, Links
  <2>5. Reached \subseteq R!Instances
    BY <2>1, <2>4 DEF Reached, Reachable
  <2>6. QED
    BY <2>5 DEF Finished, Tree
<1>6. IsFiniteSet(R!Instances) /\ Cardinality(R!Instances) = NumInstances
  <2>1. R!Instances = 0..(NumInstances - 1)
    BY DEF R!Instances
  <2>2. QED
    BY <2>1, <1>1, FS_Interval
<1> HIDE DEF Found
<1>7. n <= NumInstances
  BY <1>4, <1>5, <1>6, FS_Subset
<1>8. QED
  BY <1>4, <1>5, <1>7

------------------------------------------------------------------------------
(* The steps of retain *)

(* The number of elements is a sum, too.                                   *)
LEMMA CardinalityIsSum ==
  ASSUME NEW U, IsFiniteSet(U), NEW one, \A x \in U : one[x] = 1, NEW S \in SUBSET U
  PROVE  SumOver(S, one) = Cardinality(S)
<1> DEFINE g == [s \in SUBSET U |-> Cardinality(s)]
<1>1. \A s \in SUBSET U : /\ IsFiniteSet(s) /\ Cardinality(s) \in Nat
                          /\ \A x \in s : Cardinality(s \ {x}) = Cardinality(s) - 1
  BY FS_Subset, FS_CardinalityType, FS_RemoveElement
<1>2. Cardinality({}) = 0
  BY FS_EmptySet
<1>3. Numbers(one, U)
  BY DEF Numbers
<1>4. Sums(g, one, U)
  <2>1. \A s \in SUBSET U : g[s] \in Nat
    BY <1>1
  <2>2. g[{}] = 0
    BY <1>2
  <2>3. ASSUME NEW s \in SUBSET U, NEW x \in s PROVE g[s] = one[x] + g[s \ {x}]
    <3>1. g[s] = Cardinality(s) /\ g[s \ {x}] = Cardinality(s) - 1 /\ one[x] = 1
      BY <1>1
    <3>2. QED
      BY <3>1, <1>1
  <2>4. QED
    BY <2>1, <2>2, <2>3 DEF Sums
<1>5. SumOver(S, one) = g[S]
  BY <1>3, <1>4, SumIsUnique
<1>6. QED
  BY <1>5

(* When v passes its sum on, after P, it is counted at itself, and with    *)
(* all that is below it at its dominator.                                  *)
MoreCredited(P, v) ==
  LET u == dominator[v]
      Q == P \cup {v}
  IN  /\ u \in Found /\ u # v
      /\ v \notin CreditedBy(P, v) /\ CreditedBy(Q, v) = CreditedBy(P, v) \cup {v}
      /\ CreditedBy(P, u) \cap CreditedBy(Q, v) = {}
      /\ CreditedBy(Q, u) = CreditedBy(P, u) \cup CreditedBy(Q, v)
      /\ \A x : x # v /\ x # u => CreditedBy(Q, x) = CreditedBy(P, x)
      /\ \A x : CreditedBy(Q, x) \in SUBSET Found /\ CreditedBy(P, x) \in SUBSET Found

LEMMA OneMoreCredited ==
  ASSUME Finished, AllFinal, dominator \in [Nodes -> Nodes], dominator[0] = 0,
         NEW v \in Found \ {0}, num[v] = i, NEW P, P = PassedOn
  PROVE  MoreCredited(P, v)
<1> DEFINE u == dominator[v]
           Q == P \cup {v}
           Below == {w \in Found \ {0} : v \in DominatorChain(w)}
<1>1. /\ Found \subseteq Nodes /\ v \in Nodes /\ \A w \in Found : num[w] \in Nat
      /\ \A w, x \in Found : num[w] = num[x] => w = x
  BY FoundNodes, NumberOfNode DEF Finished
<1>2. u \in Found /\ num[u] < num[v]
  BY DEF AllFinal, Final
<1> HIDE DEF Found, num
<1>3. u # v
  BY <1>1, <1>2
<1>4. \A d \in P : d \in Found \ {0} /\ num[d] > num[v] /\ d # v /\ d # u
  <2>1. \A d \in P : d \in Found \ {0} /\ num[d] > num[v]
    BY DEF PassedOn
  <2>2. QED
    BY <2>1, <1>1, <1>2
<1>5. \A w \in Found : DominatorChain(w) \subseteq Found
  BY ChainLaws
<1>6. CreditedBy(Q, v) = Below
  <2>1. ASSUME NEW w \in CreditedBy(Q, v) PROVE w \in Below
    <3>1. PICK d \in Q : d \in DominatorChain(w) /\ (d = v \/ dominator[d] = v)
      BY DEF CreditedBy
    <3>2. v \in DominatorChain(w) /\ w \in Found \ {0}
      BY <3>1, ChainLaws DEF CreditedBy
    <3>3. QED
      BY <3>2
  <2>2. Below \subseteq CreditedBy(Q, v)
    BY DEF CreditedBy
  <2>3. QED
    BY <2>1, <2>2
<1>7. v \notin CreditedBy(P, v)
  <2>1. SUFFICES ASSUME NEW d \in P, d \in DominatorChain(v) PROVE FALSE
    BY DEF CreditedBy
  <2>2. d = v \/ num[d] < num[v]
    BY <2>1, ChainLaws
  <2>3. QED
    BY <2>2, <1>1, <1>4
<1>8. Below = CreditedBy(P, v) \cup {v}
  <2>1. CreditedBy(P, v) \subseteq Below
    BY <1>6 DEF CreditedBy
  <2>2. v \in Below
    BY <1>1, ChainLaws
  <2>3. ASSUME NEW w \in Below, w # v PROVE w \in CreditedBy(P, v)
    <3>1. PICK d \in DominatorChain(w) \ {0} : dominator[d] = v
      BY <2>3, ChainLaws
    <3>2. d \in Found \ {0}
      BY <3>1, <1>5
    <3>3. num[v] < num[d]
      BY <3>1, <3>2 DEF AllFinal, Final
    <3>4. d \in P
      BY <3>2, <3>3, <1>1 DEF PassedOn
    <3>5. QED
      BY <3>1, <3>4 DEF CreditedBy
  <2>4. QED
    BY <2>1, <2>2, <2>3
<1>9. CreditedBy(P, u) \cap Below = {}
  <2>1. SUFFICES ASSUME NEW w \in Found, v \in DominatorChain(w),
                        NEW d \in P, d \in DominatorChain(w), dominator[d] = u
                 PROVE  FALSE
    BY <1>4 DEF CreditedBy
  <2>2. d \in DominatorChain(v) \/ v \in DominatorChain(d)
    BY <2>1, ChainIsLinear
  <2>3. d \notin DominatorChain(v)
    <3>1. ASSUME d \in DominatorChain(v) PROVE d = v \/ num[d] < num[v]
      BY <3>1, ChainLaws
    <3>2. QED
      BY <3>1, <1>1, <1>4
  <2>4. v \notin DominatorChain(d)
    <3>1. SUFFICES ASSUME v \in DominatorChain(d) PROVE FALSE
      OBVIOUS
    <3>2. d \in Nodes /\ d # v
      BY <1>1, <1>4
    <3>3. v \in DominatorChain(u)
      BY <2>1, <3>1, <3>2, ChainLaws
    <3>4. v = u \/ num[v] < num[u]
      BY <3>3, <1>2, ChainLaws
    <3>5. QED
      BY <3>4, <1>1, <1>2
  <2>5. QED
    BY <2>2, <2>3, <2>4
<1>10. CreditedBy(Q, u) = CreditedBy(P, u) \cup Below
  BY <1>3 DEF CreditedBy
<1>11. \A x : x # v /\ x # u => CreditedBy(Q, x) = CreditedBy(P, x)
  BY DEF CreditedBy
<1>12. \A x : CreditedBy(Q, x) \in SUBSET Found /\ CreditedBy(P, x) \in SUBSET Found
  BY DEF CreditedBy
<1> HIDE DEF Below
<1>13. QED
  BY <1>2, <1>3, <1>6, <1>7, <1>8, <1>9, <1>10, <1>11, <1>12 DEF MoreCredited

(* sums are the sums of f when the nodes of P have passed theirs on.       *)
CreditedSums(sums, P, f) ==
  /\ sums \in [R!Instances -> Nat]
  /\ \A x \in R!Instances : sums[x] = SumOver(CreditedBy(P, x), f)

LEMMA SumsPassedOn ==
  ASSUME Finished, edges \in EdgeFiles, NEW v \in Found \ {0}, NEW P, MoreCredited(P, v),
         NEW f, Numbers(f, Found), NEW sums, CreditedSums(sums, P, f)
  PROVE  CreditedSums(R!PassOn(sums, v, f[v]), P \cup {v}, f)
<1> DEFINE u == dominator[v]
           Q == P \cup {v}
           new == R!PassOn(sums, v, f[v])
<1>1. IsFiniteSet(Found) /\ Found \subseteq R!Instances
  BY FoundInstances
<1>2. /\ u \in Found /\ u # v
      /\ v \notin CreditedBy(P, v) /\ CreditedBy(Q, v) = CreditedBy(P, v) \cup {v}
      /\ CreditedBy(P, u) \cap CreditedBy(Q, v) = {}
      /\ CreditedBy(Q, u) = CreditedBy(P, u) \cup CreditedBy(Q, v)
      /\ \A x : x # v /\ x # u => CreditedBy(Q, x) = CreditedBy(P, x)
      /\ \A x : CreditedBy(Q, x) \in SUBSET Found /\ CreditedBy(P, x) \in SUBSET Found
  BY DEF MoreCredited
<1> HIDE DEF Found
<1>3. v \in R!Instances /\ u \in R!Instances /\ f[v] \in Nat
  BY <1>1, <1>2 DEF Numbers
<1>0. sums \in [R!Instances -> Nat] /\ \A x \in R!Instances : sums[x] = SumOver(CreditedBy(P, x), f)
  BY DEF CreditedSums
<1>4. /\ new[v] = sums[v] + f[v] /\ new[u] = sums[u] + (sums[v] + f[v])
      /\ \A x \in R!Instances : x # v /\ x # u => new[x] = sums[x]
      /\ new \in [R!Instances -> Nat]
  BY <1>0, <1>2, <1>3 DEF R!PassOn
<1> HIDE DEF new, u, Q
<1>5. AddsUp(f, Found)
  BY <1>1, SumLaws
<1>6. SumOver(CreditedBy(Q, v), f) = SumOver(CreditedBy(P, v), f) + f[v]
  BY <1>2, <1>5 DEF AddsUp
<1>7. SumOver(CreditedBy(Q, u), f) = SumOver(CreditedBy(P, u), f) + SumOver(CreditedBy(Q, v), f)
  BY <1>2, <1>5 DEF AddsUp
<1>8. ASSUME NEW x \in R!Instances PROVE new[x] = SumOver(CreditedBy(Q, x), f)
  <2>1. CASE x = v
    BY <2>1, <1>0, <1>3, <1>4, <1>6
  <2>2. CASE x = u
    BY <2>2, <1>0, <1>3, <1>4, <1>6, <1>7
  <2>3. CASE x # v /\ x # u
    BY <2>3, <1>0, <1>2, <1>4
  <2>4. QED
    BY <2>1, <2>2, <2>3
<1>9. QED
  BY <1>4, <1>8 DEF CreditedSums, new, Q

LEMMA ChainsKept ==
  ASSUME UNCHANGED <<edges, n, vertex, parent, dominator>>
  PROVE  /\ \A w : DominatorChain(w)' = DominatorChain(w)
         /\ \A P, v : CreditedBy(P, v)' = CreditedBy(P, v)
         /\ AllFinal' <=> AllFinal
<1>1. Found' = Found /\ num' = num /\ \A w : Doms(w)' = Doms(w)
  BY TreeKept
<1>2. \A w : DominatorChain(w)' = DominatorChain(w)
  BY DEF DominatorChain
<1> HIDE DEF Found, num, Doms, DominatorChain
<1>3. \A P, v : CreditedBy(P, v)' = CreditedBy(P, v)
  BY <1>1, <1>2 DEF CreditedBy
<1>4. AllFinal' <=> AllFinal
  BY <1>1 DEF AllFinal, Final
<1>5. QED
  BY <1>2, <1>3, <1>4

(* What holds whenever retain is at work. *)
Summing ==
  /\ Finished /\ edges \in EdgeFiles /\ size = Sizes /\ dots \in Nat \ {0}
  /\ dominator \in [Nodes -> Nodes] /\ dominator[0] = 0
  /\ Retaining

LEMMA RetainFacts ==
  ASSUME Summing
  PROVE  /\ n \in Nat \ {0} /\ n <= NumInstances /\ NumInstances \in Nat /\ NumInstances <= NumNodes
         /\ i \in Nat /\ i < NumInstances /\ i \in Nodes
         /\ IsFiniteSet(Found) /\ Found \subseteq R!Instances
         /\ Numbers(size, Found) /\ AddsUp(size, Found)
         /\ PassedOn \subseteq Found /\ \A x : Credited(x) \subseteq Found
<1>1. /\ n \in Nat \ {0} /\ NumInstances \in Nat /\ NumInstances <= NumNodes /\ NumNodes \in Nat
      /\ i \in 0..(NumInstances - 1)
  BY NumNodesAssumption, AnalysisAssumption DEF Summing, Finished, Numbering, Retaining
<1>2. IsFiniteSet(Found) /\ Found \subseteq R!Instances /\ n <= NumInstances
  BY FoundInstances DEF Summing
<1>3. Numbers(size, Found)
  <2>1. size \in [R!Instances -> Nat]
    BY AnalysisAssumption DEF Summing, R!Instances
  <2> HIDE DEF Found
  <2>2. QED
    BY <2>1, <1>2 DEF Numbers
<1>4. AddsUp(size, Found)
  BY <1>2, <1>3, SumLaws
<1>5. PassedOn \subseteq Found /\ \A x : Credited(x) \subseteq Found
  BY DEF PassedOn, Credited, CreditedBy
<1>6. i \in Nodes
  BY <1>1 DEF Nodes
<1>7. QED
  BY <1>1, <1>2, <1>3, <1>4, <1>5, <1>6

LEMMA RetainBegins ==
  ASSUME Summing, R!Begin, UNCHANGED <<edges, n, parent, dots>>
  PROVE  Retaining'
<1>1. /\ pc = "start" /\ pc' = "loop" /\ i = NumInstances - 1 /\ skipped = 0 /\ totalSize = 0
      /\ retained' = [v \in R!Instances |-> 0] /\ retainedCount' = [v \in R!Instances |-> 0]
      /\ UNCHANGED <<vertex, dominator, size, i, skipped, totalSize>>
  BY DEF R!Begin, Summing, Retaining
<1>2. AllFinal' /\ (\A P, v : CreditedBy(P, v)' = CreditedBy(P, v)) /\ Found' = Found /\ num' = num
  BY <1>1, ChainsKept, TreeKept DEF Summing, Retaining
<1>3. /\ n \in Nat \ {0} /\ n <= NumInstances /\ NumInstances \in Nat /\ AddsUp(size, Found)
      /\ \A v \in Found : num[v] \in Nat /\ num[v] < n
  BY RetainFacts, NumberOfNode DEF Summing, Finished
<1> HIDE DEF Found, num
<1>4. PassedOn' = {}
  BY <1>1, <1>2, <1>3 DEF PassedOn
<1>5. \A v : Credited(v)' = {}
  BY <1>4 DEF Credited, CreditedBy
<1>6. SumOver({}, size) = 0 /\ Cardinality({}) = 0
  BY <1>3, FS_EmptySet DEF AddsUp
<1>7. SumsAgree'
  <2>1. \A v \in R!Instances : retained'[v] = SumOver(Credited(v)', size') /\ retainedCount'[v] = Cardinality(Credited(v)')
    BY <1>1, <1>5, <1>6
  <2>2. totalSize' = SumOver(PassedOn', size')
    BY <1>1, <1>4, <1>6
  <2>3. skipped' = IF i' >= n' THEN NumInstances - 1 - i' ELSE NumInstances - n'
    BY <1>1, <1>3
  <2>4. retained' \in [R!Instances -> Nat] /\ retainedCount' \in [R!Instances -> Nat]
    BY <1>1
  <2>5. QED
    BY <2>1, <2>2, <2>3, <2>4 DEF SumsAgree
<1>8. QED
  BY <1>1, <1>2, <1>7 DEF Retaining, Summing

LEMMA RetainStops ==
  ASSUME Summing, R!DivideByZero \/ R!Finish, UNCHANGED <<edges, n, parent, dots>>
  PROVE  Retaining'
<1>1. /\ pc = "loop" /\ pc' \in {"abort", "done"} /\ (pc' = "done" => i = 0)
      /\ UNCHANGED <<vertex, dominator, size, i, skipped, totalSize, retained, retainedCount>>
  BY DEF R!DivideByZero, R!InLoop, R!Finish
<1>2. AllFinal' /\ (\A P, v : CreditedBy(P, v)' = CreditedBy(P, v)) /\ Found' = Found /\ num' = num
  BY <1>1, ChainsKept, TreeKept DEF Summing, Retaining
<1> HIDE DEF Found, num
<1>3. PassedOn' = PassedOn
  BY <1>1, <1>2 DEF PassedOn
<1>4. \A v : Credited(v)' = Credited(v)
  BY <1>2, <1>3 DEF Credited
<1>5. SumsAgree'
  BY <1>1, <1>3, <1>4 DEF SumsAgree, Summing, Retaining
<1>6. pc' = "done" => ~ (NumInstances < dots /\ NumInstances > 1)
  BY <1>1, RetainFacts DEF Summing, Retaining
<1>7. QED
  BY <1>1, <1>2, <1>5, <1>6 DEF Retaining, Summing

LEMMA RetainSkips ==
  ASSUME Summing, R!SkipUnreached, UNCHANGED <<edges, n, parent, dots>>
  PROVE  Retaining'
<1>1. /\ pc = "loop" /\ pc' = "loop" /\ i > 0 /\ i' = i - 1 /\ vertex[i] = 0
      /\ NumInstances \div dots # 0 /\ skipped' = skipped + 1
      /\ UNCHANGED <<vertex, dominator, size, totalSize, retained, retainedCount>>
  BY DEF R!SkipUnreached, R!InLoop, R!DotInterval
<1>2. AllFinal' /\ (\A P, v : CreditedBy(P, v)' = CreditedBy(P, v)) /\ Found' = Found /\ num' = num
  BY <1>1, ChainsKept, TreeKept DEF Summing, Retaining
<1>3. /\ n \in Nat \ {0} /\ n <= NumInstances /\ NumInstances \in Nat /\ i \in Nat /\ i < NumInstances
      /\ \A v \in Found : num[v] \in Nat /\ num[v] < n
  BY RetainFacts, NumberOfNode DEF Summing, Finished
<1>4. i >= n
  <2>1. i \in 0..(n - 1) => num[vertex[i]] = i
    BY DEF Summing, Finished, Numbering
  <2>2. num[0] = 0
    BY FoundNodes DEF Summing, Finished
  <2>3. QED
    BY <2>1, <2>2, <1>1, <1>3
<1> HIDE DEF Found, num
<1>5. PassedOn' = PassedOn
  <2>1. \A v \in Found : ~ (num[v] > i) /\ ~ (num[v] > i')
    BY <1>1, <1>3, <1>4
  <2>2. QED
    BY <2>1, <1>2 DEF PassedOn
<1>6. \A v : Credited(v)' = Credited(v)
  BY <1>2, <1>5 DEF Credited
<1>7. SumsAgree
  BY <1>1 DEF Summing, Retaining
<1>8. skipped' = IF i' >= n' THEN NumInstances - 1 - i' ELSE NumInstances - n'
  BY <1>1, <1>3, <1>4, <1>7 DEF SumsAgree
<1>9. SumsAgree'
  BY <1>1, <1>5, <1>6, <1>7, <1>8 DEF SumsAgree
<1>10. NumInstances >= dots
  BY <1>1, <1>3 DEF Summing
<1>11. i' \in 0..(NumInstances - 1)
  BY <1>1, <1>3
<1>12. QED
  BY <1>1, <1>2, <1>3, <1>9, <1>10, <1>11 DEF Retaining, Summing

LEMMA RetainAccumulates ==
  ASSUME Summing, R!Accumulate, UNCHANGED <<edges, n, parent, dots>>
  PROVE  Retaining'
<1> DEFINE v == vertex[i]
           one == [w \in R!Instances |-> 1]
<1>1. /\ pc = "loop" /\ pc' = "loop" /\ i > 0 /\ i' = i - 1 /\ v # 0
      /\ NumInstances \div dots # 0 /\ totalSize' = totalSize + size[v]
      /\ retained' = R!PassOn(retained, v, size[v])
      /\ retainedCount' = R!PassOn(retainedCount, v, 1)
      /\ UNCHANGED <<vertex, dominator, size, skipped>>
  BY DEF R!Accumulate, R!InLoop, R!DotInterval
<1>2. AllFinal' /\ (\A P, x : CreditedBy(P, x)' = CreditedBy(P, x)) /\ Found' = Found /\ num' = num
  BY <1>1, ChainsKept, TreeKept DEF Summing, Retaining
<1>3. /\ n \in Nat \ {0} /\ n <= NumInstances /\ NumInstances \in Nat
      /\ i \in Nat /\ i < NumInstances /\ i \in Nodes
      /\ IsFiniteSet(Found) /\ Found \subseteq R!Instances
      /\ Numbers(size, Found) /\ AddsUp(size, Found) /\ PassedOn \subseteq Found
      /\ \A x : Credited(x) \subseteq Found
  BY RetainFacts
<1>4. /\ \A x \in Found : num[x] \in Nat
      /\ \A x, y \in Found : num[x] = num[y] => x = y
      /\ v \in Found \ {0} /\ i \in 1..(n - 1) /\ num[v] = i
  <2>1. i \in 1..(n - 1) /\ v \in Found \ {0}
    BY <1>1, <1>3, NumberOfNode DEF Summing, Finished
  <2>2. num[v] = i
    BY <2>1 DEF Summing, Finished, Numbering
  <2>3. QED
    BY <2>1, <2>2, NumberOfNode DEF Summing, Finished
<1>5. SumsAgree
  BY <1>1 DEF Summing, Retaining
<1> HIDE DEF Found, num, v
<1>6. PassedOn' = PassedOn \cup {v} /\ v \notin PassedOn
  <2>1. ASSUME NEW x \in Found PROVE num[x] > i - 1 <=> num[x] > i \/ x = v
    BY <1>3, <1>4
  <2>2. v \notin PassedOn
    BY <1>3, <1>4 DEF PassedOn
  <2>3. QED
    BY <2>1, <2>2, <1>1, <1>2, <1>4 DEF PassedOn
<1>7. MoreCredited(PassedOn, v)
  <2>1. SUFFICES ASSUME NEW P, P = PassedOn PROVE MoreCredited(P, v)
    OBVIOUS
  <2>2. QED
    BY <2>1, <1>4, OneMoreCredited DEF Summing, Retaining
<1>8. CreditedSums(R!PassOn(retained, v, size[v]), PassedOn \cup {v}, size)
  <2>1. CreditedSums(retained, PassedOn, size)
    BY <1>5 DEF SumsAgree, Credited, CreditedSums
  <2>2. QED
    BY <2>1, <1>3, <1>4, <1>7, SumsPassedOn DEF Summing
<1>9. /\ retainedCount' \in [R!Instances -> Nat]
      /\ \A x \in R!Instances : retainedCount'[x] = Cardinality(CreditedBy(PassedOn \cup {v}, x))
  <2>1. one[v] = 1 /\ \A x \in Found : one[x] = 1
    BY <1>3, <1>4
  <2> HIDE DEF one
  <2>2. Numbers(one, Found)
    BY <2>1 DEF Numbers
  <2>3. \A S \in SUBSET Found : SumOver(S, one) = Cardinality(S)
    BY <2>1, <1>3, CardinalityIsSum
  <2>4. \A P, x : CreditedBy(P, x) \in SUBSET Found
    BY DEF CreditedBy
  <2>5. CreditedSums(retainedCount, PassedOn, one)
    BY <2>3, <2>4, <1>5 DEF SumsAgree, Credited, CreditedSums
  <2>6. CreditedSums(R!PassOn(retainedCount, v, one[v]), PassedOn \cup {v}, one)
    BY <2>2, <2>5, <1>3, <1>4, <1>7, SumsPassedOn DEF Summing
  <2>7. QED
    BY <2>1, <2>3, <2>4, <2>6, <1>1 DEF CreditedSums
<1>10. \A x : Credited(x)' = CreditedBy(PassedOn \cup {v}, x)
  BY <1>2, <1>6 DEF Credited
<1>11. totalSize' = SumOver(PassedOn', size')
  <2>1. SumOver(PassedOn \cup {v}, size) = SumOver(PassedOn, size) + size[v]
    BY <1>3, <1>4, <1>6 DEF AddsUp
  <2>2. QED
    BY <2>1, <1>1, <1>5, <1>6 DEF SumsAgree
<1>12. skipped' = IF i' >= n' THEN NumInstances - 1 - i' ELSE NumInstances - n'
  BY <1>1, <1>3, <1>4, <1>5 DEF SumsAgree
<1>13. SumsAgree'
  BY <1>1, <1>8, <1>9, <1>10, <1>11, <1>12 DEF SumsAgree, CreditedSums
<1>14. NumInstances >= dots
  BY <1>1, <1>3 DEF Summing
<1>15. i' \in 0..(NumInstances - 1)
  BY <1>1, <1>3
<1>16. QED
  BY <1>1, <1>2, <1>3, <1>13, <1>14, <1>15 DEF Retaining, Summing

LEMMA RetainStep ==
  ASSUME Summing, RunRetain
  PROVE  Retaining'
<1>1. UNCHANGED <<edges, n, parent, dots>>
  BY DEF RunRetain, dfsOnly
<1>2. R!Next
  BY DEF RunRetain
<1>3. QED
  BY <1>1, <1>2, RetainBegins, RetainStops, RetainSkips, RetainAccumulates DEF R!Next

(* A run of retain begins. *)
LEMMA StartRetainStep ==
  ASSUME Finished, AllFinal, R!Load, pc' = "start", NumNodes >= dots \/ NumNodes = 1,
         UNCHANGED <<edges, n, vertex, parent, dominator, dots>>
  PROVE  Retaining'
<1>1. i' = NumInstances - 1 /\ skipped' = 0 /\ totalSize' = 0
  BY DEF R!Load
<1>2. AllFinal'
  BY ChainsKept
<1>3. i' \in 0..(NumInstances - 1)
  BY <1>1, NumNodesAssumption, AnalysisAssumption
<1>4. QED
  BY <1>1, <1>2, <1>3 DEF Retaining

------------------------------------------------------------------------------
(* The invariant of the analysis is inductive *)

LEMMA AnalysingInit == AnalysisInit => Analysing
<1> SUFFICES ASSUME AnalysisInit PROVE Analysing
  OBVIOUS
<1>1. SearchInvariant
  BY SearchInvariantInit DEF AnalysisInit
<1>2. edges \in EdgeFiles /\ 0 \in Nodes
  BY NumNodesAssumption DEF AnalysisInit, Init, Nodes
<1>3. dominator \in [Nodes -> Nodes] /\ dominator[0] = 0
  BY <1>2 DEF AnalysisInit, Zeros
<1>4. QED
  BY <1>1, <1>2, <1>3 DEF AnalysisInit, Analysing

LEMMA SearchInvariantAgain == Init' => SearchInvariant'
BY SearchInvariantInit, PTL

(* What dfs left behind, and sort, is there for the programs after it.     *)
LEMMA FilesKept ==
  ASSUME Finished, Predecessors, Semidominators, UNCHANGED <<edges, n, vertex, parent, preds, semi>>
  PROVE  Finished' /\ Predecessors' /\ Semidominators'
BY TreeKept, PredecessorsKept, SemidominatorsKept DEF Steady

(* Nothing happens. *)
LEMMA DominatingStutters ==
  ASSUME Dominating,
         UNCHANGED <<edges, n, semi, vertex, parent, preds, dominator, ancestor, label, bucket>>,
         UNCHANGED <<i, ptr, arg, calls, unwinding, dots, pc>>
  PROVE  Dominating'
<1>1. Found' = Found /\ num' = num /\ \A w : Doms(w)' = Doms(w)
  BY TreeKept
<1>2. \A v, w : Above(v, w)' <=> Above(v, w)
  BY TreeKept
<1> HIDE DEF Found, num, Above, Doms
<1>3. DominateTypes' /\ Fresh' /\ DominateStuck'
  BY Zenon DEF Dominating, DominateTypes, Fresh, DominateStuck
<1>4. Climbing' /\ Scanning'
  BY <1>1 DEF Dominating, Climbing, Scanning
<1>5. Forest'
  BY ForestKept DEF Dominating
<1>6. AtNode' = AtNode /\ Descending' = Descending /\ Lowest' = Lowest
  BY DEF AtNode, Descending, Lowest
<1>7. Position'
  BY <1>6 DEF Dominating, Position, Ahead, LastLowered
<1>8. Lowered' /\ Linked'
  BY <1>1, <1>6 DEF Dominating, Lowered, Linked
<1>9. \A v : Settled(v)' <=> Settled(v)
  BY <1>1, <1>2 DEF Settled
<1>10. \A v : Final(v)' <=> Final(v)
  BY <1>1 DEF Final
<1>11. \A v, p : InBucket(v, p)' <=> InBucket(v, p)
  BY DEF InBucket
<1> HIDE DEF Settled, Final, InBucket
<1>12. Buckets'
  BY <1>1, <1>6, <1>9, <1>11 DEF Dominating, Buckets
<1>13. Explicitly'
  BY <1>1, <1>9, <1>10 DEF Dominating, Explicitly, AllFinal
<1>14. QED
  BY <1>3, <1>4, <1>5, <1>7, <1>8, <1>12, <1>13 DEF Dominating

LEMMA RetainingStutters ==
  ASSUME Retaining,
         UNCHANGED <<edges, n, vertex, parent, dominator, i, dots, pc>>,
         UNCHANGED <<size, retained, retainedCount, skipped, totalSize>>
  PROVE  Retaining'
<1>1. AllFinal' /\ Found' = Found /\ num' = num /\ \A P, v : CreditedBy(P, v)' = CreditedBy(P, v)
  BY TreeKept, ChainsKept DEF Retaining
<1> HIDE DEF Found, num
<1>2. PassedOn' = PassedOn
  BY <1>1 DEF PassedOn
<1>3. \A v : Credited(v)' = Credited(v)
  BY <1>1, <1>2 DEF Credited
<1>4. pc # "start" => SumsAgree'
  BY <1>2, <1>3 DEF Retaining, SumsAgree
<1>5. QED
  BY <1>1, <1>4 DEF Retaining

LEMMA AnalysingStep ==
  ASSUME Analysing, [AnalysisNext]_vars
  PROVE  Analysing'
<1>0. /\ program \in {"dfs", "dominate", "retain"} /\ edges \in EdgeFiles /\ size = Sizes
      /\ dots \in Dots[edges] /\ dots \in Nat \ {0}
      /\ dominator \in [Nodes -> Nodes] /\ dominator[0] = 0
      /\ "dfs" # "dominate" /\ "dfs" # "retain" /\ "dominate" # "retain"
  BY AnalysisAssumption DEF Analysing
<1>1. CASE RunDfs
  <2>1. SearchInvariant /\ program' = "dfs" /\ Next
        /\ UNCHANGED <<dots, dominator, size>>
    BY <1>1 DEF Analysing, RunDfs, retainOnly
  <2>2. SearchInvariant'
    BY <2>1, SearchInvariantStep
  <2>3. edges' = edges
    BY <2>1 DEF Next, MapFails, CallRoot, Descend, Skip, Return, ReturnToMain
  <2>4. QED
    BY <2>1, <2>2, <2>3, <1>0 DEF Analysing
<1>2. CASE StartDominate
  <2>1. SearchInvariant /\ program' = "dominate" /\ UNCHANGED <<dots, dominator, size, edges>>
    BY <1>2 DEF Analysing, StartDominate, retainOnly, dfsOnly
  <2>2. Finished' /\ Predecessors' /\ Semidominators' /\ Dominating'
    BY <2>1, <1>0, <1>2, StartDominateStep
  <2>3. QED
    BY <2>1, <2>2, <1>0 DEF Analysing
<1>3. CASE RunDominate
  <2>1. /\ Finished /\ Predecessors /\ Semidominators /\ Dominating
        /\ program' = "dominate" /\ UNCHANGED <<dots, size, edges>>
    BY <1>0, <1>3 DEF Analysing, RunDominate, retainOnly, dfsOnly
  <2>2. Finished' /\ Predecessors' /\ Semidominators' /\ Dominating'
    BY <2>1, <1>0, <1>3, DominateStep
  <2>3. dominator' \in [Nodes -> Nodes] /\ dominator'[0] = 0
    BY <2>2 DEF Dominating, DominateTypes
  <2>4. QED
    BY <2>1, <2>2, <2>3, <1>0 DEF Analysing
<1>4. CASE StartRetain \/ RerunRetain
  <2>1. /\ program # "dfs" /\ program' = "retain" /\ pc' = "start" /\ R!Load
        /\ UNCHANGED <<dots, dominator, size, edges, n, vertex, parent, preds, semi>>
    BY <1>0, <1>4 DEF StartRetain, RerunRetain, Rerun, dfsOnly, dominateOnly
  <2>2. Finished /\ Predecessors /\ Semidominators
    BY <2>1 DEF Analysing
  <2>3. AllFinal /\ (NumNodes >= dots \/ NumNodes = 1)
    <3>1. CASE StartRetain
      <4>1. Dominating /\ pc = "done"
        BY <3>1 DEF StartRetain, Analysing
      <4>2. ~ (NumNodes < dots /\ NumNodes > 1)
        BY <4>1 DEF Dominating, DominateStuck
      <4>3. QED
        BY <4>1, <4>2, <1>0, NumNodesAssumption DEF Dominating, Explicitly
    <3>2. CASE RerunRetain
      BY <3>2 DEF RerunRetain, Analysing, Retaining
    <3>3. QED
      BY <1>4, <3>1, <3>2
  <2>4. Retaining'
    BY <2>1, <2>2, <2>3, StartRetainStep
  <2>5. Finished' /\ Predecessors' /\ Semidominators'
    BY <2>1, <2>2, FilesKept
  <2>6. QED
    BY <2>1, <2>4, <2>5, <1>0 DEF Analysing
<1>5. CASE RunRetain
  <2>1. /\ Finished /\ Predecessors /\ Semidominators /\ Retaining
        /\ program' = "retain" /\ UNCHANGED <<dots, edges, n, parent, preds, semi>>
    BY <1>0, <1>5 DEF Analysing, RunRetain, dfsOnly, dominateOnly
  <2>2. UNCHANGED <<dominator, vertex, size>>
    BY <1>5 DEF RunRetain, R!Next, R!Begin, R!DivideByZero, R!Accumulate, R!SkipUnreached, R!Finish
  <2>3. Retaining'
    BY <2>1, <1>0, <1>5, RetainStep DEF Summing
  <2>4. Finished' /\ Predecessors' /\ Semidominators'
    BY <2>1, <2>2, FilesKept
  <2>5. QED
    BY <2>1, <2>2, <2>3, <2>4, <1>0 DEF Analysing
<1>6. CASE RerunDfs
  <2>1. program' = "dfs" /\ UNCHANGED <<edges, dots, dominator, size>>
    BY <1>6 DEF RerunDfs, Rerun, retainOnly
  <2>2. Init'
    BY <2>1, <1>0, <1>6 DEF RerunDfs, Rerun, Init, Zeros
  <2>3. SearchInvariant'
    BY <2>2, SearchInvariantAgain
  <2>4. QED
    BY <2>1, <2>3, <1>0 DEF Analysing
<1>7. CASE RerunDominate
  <2>1. /\ program # "dfs" /\ program' = "dominate" /\ pc' = "start" /\ L!Load
        /\ UNCHANGED <<dots, dominator, size, edges, n, vertex, parent, preds, semi>>
    BY <1>0, <1>7 DEF RerunDominate, Rerun, dfsOnly, retainOnly
  <2>2. Finished /\ Predecessors /\ Semidominators
    BY <2>1 DEF Analysing
  <2>3. Len(preds') \in Nat
    BY <2>1, <2>2, LenProperties DEF Predecessors
  <2>4. Dominating'
    BY <2>1, <2>3, <1>0, LoadStep
  <2>5. Finished' /\ Predecessors' /\ Semidominators'
    BY <2>1, <2>2, FilesKept
  <2>6. QED
    BY <2>1, <2>4, <2>5, <1>0 DEF Analysing
<1>8. CASE UNCHANGED vars
  <2>1. /\ UNCHANGED <<program, pc, reruns, dots, edges, n, pred, stack, semi, vertex, parent>>
        /\ UNCHANGED <<preds, ancestor, label, bucket, ptr, arg, calls, unwinding, dominator, i>>
        /\ UNCHANGED <<size, retained, retainedCount, skipped, totalSize>>
    BY <1>8 DEF vars, dfsOnly, dominateOnly, retainOnly
  <2>2. program = "dfs" => SearchInvariant'
    BY <2>1, SearchInvariantStep DEF Analysing, dfsVars
  <2>3. program # "dfs" => Finished' /\ Predecessors' /\ Semidominators'
    BY <2>1, FilesKept DEF Analysing
  <2>4. program = "dominate" => Dominating'
    <3>1. SUFFICES ASSUME program = "dominate" PROVE Dominating'
      OBVIOUS
    <3>2. Dominating /\ Finished
      BY <3>1, <1>0 DEF Analysing
    <3>3. QED
      BY <2>1, <3>2, DominatingStutters
  <2>5. program = "retain" => Retaining'
    <3>1. SUFFICES ASSUME program = "retain" PROVE Retaining'
      OBVIOUS
    <3>2. Retaining /\ Finished
      BY <3>1, <1>0 DEF Analysing
    <3>3. QED
      BY <2>1, <3>2, RetainingStutters
  <2>6. QED
    BY <2>1, <2>2, <2>3, <2>4, <2>5, <1>0 DEF Analysing
<1>9. QED
  BY <1>1, <1>2, <1>3, <1>4, <1>5, <1>6, <1>7, <1>8 DEF AnalysisNext

------------------------------------------------------------------------------
(* The theorems *)

(* What is said above of dfs, dominate and retain holds at every step of   *)
(* every sequence of runs (dfs.cc, dominate.cc, retain.cc).                *)
THEOREM AnalysisInvariance == AnalysisSpec => []Analysing
<1>1. Analysing /\ [AnalysisNext]_vars => Analysing'
  BY AnalysingStep
<1>2. QED
  BY <1>1, AnalysingInit, PTL DEF AnalysisSpec

(* A linked node's ancestor in the forest is above it in the tree.         *)
LEMMA ForestInTree ==
  ASSUME Finished, Forest, NEW v \in Nodes, ancestor[v] # 0
  PROVE  /\ v \in Found \ {0} /\ ancestor[v] \in Found \ {0} /\ Above(ancestor[v], v)
         /\ L!TreeSegment(v, ancestor[v]) = {x \in Found : Above(x, v) /\ num[ancestor[v]] < num[x]}
         /\ ancestor[v] \in L!TreeSegment(parent[v], 0)
<1>1. v \in Found \ {0} /\ Above(ancestor[v], parent[v])
  BY DEF Forest
<1>2. parent[v] \in Found /\ 0 \in Found /\ v \in Nodes \ {0} /\ num[0] = 0
  BY <1>1, FoundNodes DEF Finished, Tree
<1>3. ancestor[v] \in Found \ {0}
  BY <1>1, <1>2, AboveFound
<1>4. Above(ancestor[v], v)
  BY <1>1, <1>2, AboveLaws
<1>5. num[0] < num[ancestor[v]]
  BY <1>2, <1>3, FoundNodes DEF Finished
<1>6. Above(0, parent[v])
  BY <1>2, AboveFound
<1>7. L!TreeSegment(parent[v], 0) = {x \in Found : Above(x, parent[v]) /\ num[0] < num[x]}
  BY <1>2, <1>6, SegmentMeaning
<1>8. L!TreeSegment(v, ancestor[v]) = {x \in Found : Above(x, v) /\ num[ancestor[v]] < num[x]}
  BY <1>1, <1>3, <1>4, SegmentMeaning
<1> HIDE DEF Found, num, Above
<1>9. QED
  BY <1>1, <1>3, <1>4, <1>5, <1>7, <1>8

(* EVAL answers as if there were no path compression, and COMPRESS calls   *)
(* itself only on nodes further up (dominate.cc:34-56).                    *)
THEOREM CompressionSound == AnalysisSpec => []PathCompressionSound
<1>1. Analysing => PathCompressionSound
  <2> SUFFICES ASSUME Analysing, program = "dominate"
               PROVE  L!PathCompressionSound /\ L!CompressClimbs
    BY DEF PathCompressionSound
  <2>1. Finished /\ Forest /\ Climbing /\ calls \in Seq(Nodes) /\ parent \in [Nodes -> Nodes]
    BY DEF Analysing, Dominating, DominateTypes, Finished, Tree
  <2>2. ASSUME NEW v \in Nodes, ancestor[v] # 0
        PROVE  LET segment == L!TreeSegment(v, ancestor[v])
               IN  /\ ancestor[v] \in L!TreeSegment(parent[v], 0)
                   /\ label[v] \in segment
                   /\ \A x \in segment : ancestor[x] # 0 /\ semi[label[v]] <= semi[x]
    <3> DEFINE segment == L!TreeSegment(v, ancestor[v])
    <3>1. /\ ancestor[v] \in L!TreeSegment(parent[v], 0)
          /\ segment = {x \in Found : Above(x, v) /\ num[ancestor[v]] < num[x]}
      BY <2>1, <2>2, ForestInTree
    <3> HIDE DEF segment, Found, num, Above
    <3>2. /\ label[v] \in Found /\ Above(label[v], v) /\ num[ancestor[v]] < num[label[v]]
          /\ \A x \in Found : Above(x, v) /\ num[ancestor[v]] < num[x] =>
               ancestor[x] # 0 /\ semi[label[v]] <= semi[x]
      BY <2>1, <2>2 DEF Forest
    <3>3. label[v] \in segment /\ \A x \in segment : ancestor[x] # 0 /\ semi[label[v]] <= semi[x]
      BY <3>1, <3>2
    <3>4. QED
      BY <3>1, <3>3 DEF segment
  <2>3. L!PathCompressionSound
    BY <2>2 DEF L!PathCompressionSound, L!Nodes, Nodes
  <2>4. ASSUME NEW k \in 1..Len(calls)
        PROVE  /\ ancestor[calls[k]] # 0
               /\ k > 1 => /\ calls[k] = ancestor[calls[k - 1]]
                           /\ calls[k] \in L!TreeSegment(parent[calls[k - 1]], 0)
    <3>1. ancestor[calls[k]] # 0 /\ (k > 1 => calls[k] = ancestor[calls[k - 1]])
      BY <2>1 DEF Climbing
    <3>2. calls[k] \in Nodes /\ (k > 1 => calls[k - 1] \in Nodes)
      BY <2>1
    <3>3. calls[k] # 0
      BY <3>1, <3>2, <2>1 DEF Forest
    <3>4. QED
      BY <3>1, <3>2, <3>3, <2>1, ForestInTree
  <2>5. L!CompressClimbs
    BY <2>4 DEF L!CompressClimbs
  <2>6. QED
    BY <2>3, <2>5
<1>2. QED
  BY <1>1, AnalysisInvariance, PTL

(* The numbers dominate has still to deal with are those dfs gave, in a    *)
(* first run and in a rerun on a used file (dominate.cc:94, 130).          *)
THEOREM AheadUntouched == AnalysisSpec => []NumbersAheadUntouched
<1>1. Analysing => NumbersAheadUntouched
  <2> SUFFICES ASSUME Analysing, program = "dominate", AtNode,
                      NEW j \in 1..(i - 1), vertex[j] # 0
               PROVE  semi[vertex[j]] = j
    BY DEF NumbersAheadUntouched, AtNode
  <2>1. Finished /\ i \in 1..(n - 1) /\ Ahead(i - 1)
    BY DEF Analysing, Dominating, Position
  <2>2. n \in Nat
    BY <2>1, NumNodesAssumption DEF Finished, Numbering
  <2>3. QED
    BY <2>1, <2>2 DEF Ahead
<1>2. QED
  BY <1>1, AnalysisInvariance, PTL

(* When dominate has ended, every node that dominates another is found     *)
(* above it in the tree of computed dominators (dominate.cc:143-189).      *)
THEOREM DominatorsComplete == AnalysisSpec => []NoDominatorLost
<1>1. Analysing => NoDominatorLost
  <2> SUFFICES ASSUME Analysing, DominateDone, NEW w \in Reached
               PROVE  StrictDominators(w, Nodes, links) \subseteq DominatorChain(w)
    BY DEF NoDominatorLost
  <2>1. /\ Finished /\ AllFinal /\ dominator \in [Nodes -> Nodes] /\ dominator[0] = 0
        /\ w \in Found
    BY DEF Analysing, DominateDone, Dominating, Explicitly, Finished, Tree
  <2>2. Doms(w) \subseteq DominatorChain(w)
    BY <2>1, DominatorsOnChain
  <2>3. QED
    BY <2>2 DEF Doms
<1>2. QED
  BY <1>1, AnalysisInvariance, PTL

(* No heap smaller than the progress display's divisor gets through        *)
(* dominate and retain, unless it has one record (dominate.cc:125,         *)
(* retain.cc:52).                                                          *)
THEOREM NoSmallHeap == AnalysisSpec => []SmallHeapsGiveUp
<1>1. Analysing => SmallHeapsGiveUp
  <2> SUFFICES ASSUME Analysing, program = "retain"
               PROVE  /\ NumNodes >= dots \/ Reached = {0}
                      /\ pc = "done" => NumInstances >= dots \/ NumInstances = 1
    BY DEF SmallHeapsGiveUp, Completed
  <2>1. Finished /\ Retaining /\ dots \in Nat
    BY AnalysisAssumption DEF Analysing
  <2>2. NumNodes = 1 => Reached = {0}
    <3>1. Reached \subseteq Nodes /\ 0 \in Reached
      BY <2>1, FoundNodes DEF Finished, Tree
    <3>2. NumNodes = 1 => Nodes = {0}
      BY DEF Nodes
    <3>3. QED
      BY <3>1, <3>2
  <2>3. QED
    BY <2>1, <2>2, AnalysisAssumption, NumNodesAssumption DEF Retaining
<1>2. QED
  BY <1>1, AnalysisInvariance, PTL

LEMMA SumOverSum ==
  ASSUME NEW S, NEW f
  PROVE  SumOver(S, f) = Sum(S, LAMBDA w : f[w])
BY DEF SumOver, Sum, MapThenSumSet, MapThenFoldSet

(* When retain has left its loop, all that is below a node in the tree of  *)
(* computed dominators is counted at it.                                   *)
LEMMA SummedUpFacts ==
  ASSUME Analysing, SummedUp
  PROVE  /\ Summing /\ SumsAgree /\ PassedOn = Found \ {0}
         /\ \A v : v \in R!Instances =>
              Credited(v) = {w \in Found \ {0} : v \in DominatorChain(w)}
<1>1. Summing /\ SumsAgree /\ i = 0
  BY AnalysisAssumption DEF Analysing, SummedUp, Summing, Retaining
<1>2. PassedOn = Found \ {0}
  <2>1. \A v \in Found \ {0} : num[v] > 0
    BY <1>1, FoundNodes, RetainFacts DEF Summing, Finished
  <2>2. QED
    BY <2>1, <1>1 DEF PassedOn
<1>3. ASSUME NEW v \in R!Instances
      PROVE  Credited(v) = {w \in Found \ {0} : v \in DominatorChain(w)}
  <2>1. ASSUME NEW w \in Found \ {0}, NEW d \in Found \ {0}, d \in DominatorChain(w),
               d = v \/ dominator[d] = v
        PROVE  v \in DominatorChain(w)
    BY <2>1, <1>1, ChainLaws DEF Summing, Retaining
  <2>2. ASSUME NEW w \in Found \ {0}, v \in DominatorChain(w)
        PROVE  \E d \in Found \ {0} : d \in DominatorChain(w) /\ (d = v \/ dominator[d] = v)
    <3>1. CASE v = w
      BY <3>1, <2>2
    <3>2. CASE v # w
      <4>1. PICK d \in DominatorChain(w) \ {0} : dominator[d] = v
        BY <3>2, <2>2, <1>1, ChainLaws DEF Summing, Retaining
      <4>2. d \in Found
        BY <1>1, ChainLaws DEF Summing, Retaining
      <4>3. QED
        BY <4>1, <4>2
    <3>3. QED
      BY <3>1, <3>2
  <2> HIDE DEF Found
  <2>3. QED
    BY <2>1, <2>2, <1>2 DEF Credited, CreditedBy
<1>4. QED
  BY <1>1, <1>2, <1>3

(* What retain writes is the sum over the tree of computed dominators, and *)
(* its two assertions hold, after any sequence of runs (retain.cc:58-66,   *)
(* 72-73).                                                                 *)
THEOREM RetainedSums == AnalysisSpec => []RetainedIsSubtreeSum
<1>1. Analysing => RetainedIsSubtreeSum
  <2> SUFFICES ASSUME Analysing, SummedUp
               PROVE  /\ R!TotalsAgree
                      /\ \A v \in R!Instances :
                           LET below == {w \in Reached \ {0} : v \in DominatorChain(w)}
                           IN  /\ retained[v] = Sum(below, LAMBDA w : size[w])
                               /\ retainedCount[v] = Cardinality(below)
    BY DEF RetainedIsSubtreeSum
  <2>1. /\ Summing /\ SumsAgree /\ PassedOn = Found \ {0}
        /\ \A v \in R!Instances : Credited(v) = {w \in Found \ {0} : v \in DominatorChain(w)}
    BY SummedUpFacts
  <2>2. Found = Reached /\ 0 \in Found /\ IsFiniteSet(Found) /\ Cardinality(Found) = n
        /\ 0 \in R!Instances
    BY <2>1, FoundNodes, FoundInstances DEF Summing, Finished, Tree
  <2>3. R!TotalsAgree
    <3>1. \A w \in Found : 0 \in DominatorChain(w)
      BY <2>1, ChainsReachRoot DEF Summing, Retaining
    <3>2. Credited(0) = Found \ {0}
      BY <2>1, <2>2, <3>1
    <3>3. Cardinality(Found \ {0}) = n - 1
      BY <2>2, FS_RemoveElement
    <3>4. i = 0 /\ n \in Nat \ {0} /\ NumInstances \in Nat
      BY <2>1, RetainFacts DEF SummedUp
    <3>5. totalSize = retained[0]
      BY <2>1, <2>2, <3>2 DEF SumsAgree
    <3> HIDE DEF Found
    <3>6. retainedCount[0] = n - 1 /\ skipped = NumInstances - n
      <4>1. retainedCount[0] = Cardinality(Credited(0))
        BY <2>1, <2>2 DEF SumsAgree
      <4>2. skipped = IF i >= n THEN NumInstances - 1 - i ELSE NumInstances - n
        BY <2>1 DEF SumsAgree
      <4>3. QED
        BY <4>1, <4>2, <3>2, <3>3, <3>4
    <3>7. QED
      BY <3>4, <3>5, <3>6 DEF R!TotalsAgree
  <2>4. ASSUME NEW v \in R!Instances
        PROVE  LET below == {w \in Reached \ {0} : v \in DominatorChain(w)}
               IN  /\ retained[v] = Sum(below, LAMBDA w : size[w])
                   /\ retainedCount[v] = Cardinality(below)
    <3> DEFINE below == {w \in Reached \ {0} : v \in DominatorChain(w)}
    <3>1. Credited(v) = below
      BY <2>1, <2>2
    <3>2. retained[v] = SumOver(below, size) /\ retainedCount[v] = Cardinality(below)
      BY <2>1, <3>1 DEF SumsAgree
    <3> HIDE DEF below
    <3>3. retained[v] = Sum(below, LAMBDA w : size[w])
      BY <3>2, SumOverSum
    <3>4. QED
      BY <3>2, <3>3 DEF below
  <2>5. QED
    BY <2>3, <2>4
<1>2. QED
  BY <1>1, AnalysisInvariance, PTL

(* No object retains more than is reported for it: the result that         *)
(* README.markdown:46-50 lets the user rely on (dominate.cc, retain.cc).   *)
THEOREM NeverUnderstated == AnalysisSpec => []RetainedNeverUnderstated
<1>1. Analysing => RetainedNeverUnderstated
  <2> SUFFICES ASSUME Analysing, SummedUp, NEW v \in Reached \ {0}
               PROVE  Sum(Collectable(v, Nodes, links), LAMBDA w : size[w]) <= retained[v]
    BY DEF RetainedNeverUnderstated
  <2> DEFINE freed == Collectable(v, Nodes, links)
  <2>1. /\ Summing /\ SumsAgree
        /\ \A x \in R!Instances : Credited(x) = {w \in Found \ {0} : x \in DominatorChain(w)}
    BY SummedUpFacts
  <2>2. Found = Reached /\ v \in R!Instances /\ v \in Nodes /\ AddsUp(size, Found)
    BY <2>1, FoundNodes, RetainFacts DEF Summing, Finished, Tree
  <2>3. freed \subseteq Credited(v)
    <3>1. SUFFICES ASSUME NEW w \in freed PROVE w \in Found \ {0} /\ v \in DominatorChain(w)
      BY <2>1, <2>2
    <3>2. w \in Found
      BY <2>2 DEF Collectable, Dominates, Reached
    <3>3. v \in {w} \cup Doms(w)
      BY <2>2 DEF Collectable, Doms, StrictDominators
    <3>4. v \in DominatorChain(w)
      BY <3>2, <3>3, <2>1, <2>2, DominatorsOnChain, ChainLaws DEF Summing, Retaining
    <3>5. w # 0
      <4>1. v \in Doms(0) => num[v] < 0 /\ num[v] \in Nat
        BY <2>1, <2>2, DominatorsAbove, FoundNodes, NumberOfNode DEF Summing, Finished
      <4>2. QED
        BY <4>1, <3>3
    <3>6. QED
      BY <3>2, <3>4, <3>5
  <2>4. Credited(v) \subseteq Found
    BY <2>1, RetainFacts
  <2>5. SumOver(freed, size) <= SumOver(Credited(v), size)
    <3> HIDE DEF freed, Found
    <3>1. QED
      BY <2>2, <2>3, <2>4 DEF AddsUp
  <2>6. retained[v] = SumOver(Credited(v), size)
    BY <2>1, <2>2 DEF SumsAgree
  <2> HIDE DEF freed
  <2>7. Sum(freed, LAMBDA w : size[w]) = SumOver(freed, size)
    BY SumOverSum
  <2>8. Sum(freed, LAMBDA w : size[w]) <= retained[v]
    BY <2>5, <2>6, <2>7
  <2>9. QED
    BY <2>8 DEF freed
<1>2. QED
  BY <1>1, AnalysisInvariance, PTL

------------------------------------------------------------------------------
(* The semidominators, from the other side: how far semi is lowered *)

(* The number of w is lowered as the link from v to w asks for: to v, if v *)
(* has the smaller number, and to what x is lowered to, for all x above v  *)
(* that have larger numbers than w, except for a child of the root if v is *)
(* below it.                                                               *)
LowEnough(v, w) ==
  /\ num[v] < num[w] => semi[w] <= num[v]
  /\ \A x \in Found : Above(x, v) /\ num[w] < num[x] /\ (x = v \/ parent[x] # 0) =>
       semi[w] <= semi[x]

(* So are the numbers of all nodes that have been dealt with, and of the   *)
(* node at hand as far as its predecessors have been.                      *)
LoweredBy(e) == LowEnough(e.src, e.dst)

SemiLow ==
  /\ Descending => \A e \in Kept : e.dst # 0 /\ num[e.dst] >= Lowest => LoweredBy(e)
  /\ pc \in {"explicit", "done"} => \A e \in Kept : e.dst # 0 => LoweredBy(e)
  /\ pc \in {"preds", "lower"} =>
       \A k \in 1..Len(preds) :
         k < ptr /\ preds[k].src = vertex[i] => LowEnough(preds[k].dst, vertex[i])

(* COMPRESS leaves nothing between its argument and a root of the forest.  *)
Compressed ==
  /\ pc \in {"lower", "dominate"} /\ calls = << >> => ancestor[ancestor[arg]] = 0
  /\ calls # << >> => calls[1] = arg
  /\ calls # << >> /\ unwinding => ancestor[ancestor[ancestor[calls[Len(calls)]]]] = 0

(* No node between d and v, v included, is lowered to less than d.         *)
HighEnough(v, d) ==
  \A x \in Found : Above(x, v) /\ num[d] < num[x] => num[d] <= semi[x]

(* Settled, and how: the semidominator, or the node below it that is       *)
(* lowered most.                                                           *)
ByLeast(v) ==
  /\ dominator[v] \in Found \ {0} /\ Above(dominator[v], v)
  /\ semi[v] < num[dominator[v]] /\ num[dominator[v]] < num[v]
  /\ \A x \in Found : Above(x, v) /\ semi[v] < num[x] => semi[dominator[v]] <= semi[x]

SettledWell(v) ==
  \/ dominator[v] = vertex[semi[v]] /\ HighEnough(v, dominator[v])
  \/ ByLeast(v)

(* The nodes that are looked at for that have been dealt with.             *)
AllLinked(v) == \A x \in Found : Above(x, v) /\ semi[v] < num[x] => num[x] >= Lowest

FinalWell(v) == Above(dominator[v], v) /\ HighEnough(v, dominator[v])

DominatorsWell ==
  /\ Descending => \A v \in Found \ {0} : num[v] >= Lowest =>
       \/ \E p \in Nodes : InBucket(v, p)
       \/ pc = "dominate" /\ v = arg
       \/ SettledWell(v) /\ AllLinked(v)
  /\ pc = "explicit" =>
       \A v \in Found \ {0} : IF num[v] < i THEN FinalWell(v) ELSE SettledWell(v)
  /\ pc = "done" => \A v \in Found \ {0} : FinalWell(v)

Exactly == SemiLow /\ Compressed /\ DominatorsWell

------------------------------------------------------------------------------
(* What that makes of the computed dominators *)

(* Every link from a found node has been lowered for.                      *)
AllLow == \A e \in Kept : e.dst # 0 => LoweredBy(e)

LEMMA LowByLink ==
  ASSUME Finished, AllLow, NEW v \in Found, NEW w \in Found \ {0},
         [src |-> v, dst |-> w] \in links
  PROVE  LowEnough(v, w)
<1>1. [src |-> v, dst |-> w] \in Kept
  BY DEF Kept
<1>2. QED
  BY <1>1 DEF AllLow, LoweredBy

(* A child of the root above both ends of a link.                          *)
Together(v, y) == \E s \in Found \ {0} : parent[s] = 0 /\ Above(s, v) /\ Above(s, y)

(* y is below d, and nothing on the way has been lowered to less than d.   *)
Enclosed(d, y) == Above(d, y) /\ num[d] < num[y] /\ HighEnough(y, d)

LEMMA SemiNatural ==
  ASSUME Finished, Semidominators
  PROVE  \A v \in Found : semi[v] \in Nat
<1>1. Found \subseteq Nodes /\ semi \in [Nodes -> Nodes]
  BY FoundNodes DEF Finished, Semidominators
<1> HIDE DEF Found
<1>2. QED
  BY <1>1, NodesAreNaturals

(* No link leads in from elsewhere, except from d itself.                  *)
LEMMA NoWayIn ==
  ASSUME Finished, Semidominators, AllLow, NEW d \in Found \ {0}, NEW v \in Found, NEW y \in Found \ {0},
         [src |-> v, dst |-> y] \in links, v # d, Enclosed(d, y),
         v # 0 /\ parent[v] # 0 => Together(v, y)
  PROVE  Enclosed(d, v)
<1> HIDE DEF Found, num, Above
<1>1. /\ \A x \in Found : num[x] \in Nat
      /\ \A x, z \in Found : num[x] = num[z] => x = z
      /\ num[0] = 0 /\ 0 \in Found /\ Found \subseteq Nodes
  BY NumberOfNode, FoundNodes DEF Finished
<1>2. /\ \A w \in Found : \A x : Above(x, w) => x \in Found /\ num[x] <= num[w]
      /\ \A x, w \in Found : Above(x, w) /\ x # w => num[x] < num[w]
      /\ \A w \in Found : \A u, x : Above(u, w) /\ Above(x, w) /\ num[u] <= num[x] => Above(u, x)
  BY AboveFound
<1>3. /\ \A x : Above(x, x)
      /\ \A u, x, w : Above(u, x) /\ Above(x, w) => Above(u, w)
      /\ \A x : \A w \in Nodes \ {0} : Above(x, w) <=> x = w \/ Above(x, parent[w])
      /\ \A x : Above(x, 0) => x = 0
  BY AboveLaws
<1>4. LowEnough(v, y)
  BY LowByLink
<1>5. Above(d, y) /\ num[d] < num[y] /\ \A x \in Found : Above(x, y) /\ num[d] < num[x] => num[d] <= semi[x]
  BY DEF Enclosed, HighEnough
<1>6. num[d] <= semi[y] /\ semi[y] \in Nat
  BY <1>1, <1>3, <1>5, SemiNatural
<1>7. num[d] \in Nat /\ num[d] > 0
  BY <1>1
<1>8. ASSUME NEW x \in Found \ {0}
      PROVE  /\ parent[x] \in Found /\ num[parent[x]] < num[x] /\ Above(parent[x], x)
             /\ semi[x] <= num[parent[x]]
  <2>1. parent[x] \in Found /\ num[parent[x]] < num[x] /\ [src |-> parent[x], dst |-> x] \in links
    BY DEF Finished, Tree
  <2>2. LowEnough(parent[x], x)
    BY <2>1, LowByLink
  <2>3. QED
    BY <2>1, <2>2, <1>1, <1>3 DEF LowEnough
<1>9. CASE v = y
  BY <1>9
<1>10. CASE num[v] < num[y]
  <2>1. Above(v, y)
    <3>1. [src |-> v, dst |-> y].src = v /\ [src |-> v, dst |-> y].dst = y
      OBVIOUS
    <3>2. QED
      BY <3>1, <1>10 DEF Finished, Tree
  <2>2. num[d] <= num[v]
    BY <1>1, <1>4, <1>6, <1>10 DEF LowEnough
  <2>3. Above(d, v) /\ num[d] < num[v]
    BY <2>1, <2>2, <1>1, <1>2, <1>5
  <2>4. HighEnough(v, d)
    BY <2>1, <1>3, <1>5 DEF HighEnough
  <2>5. QED
    BY <2>3, <2>4 DEF Enclosed
<1>11. CASE num[y] < num[v]
  <2>1. v # 0
    BY <1>1, <1>11
  <2>2. parent[v] # 0
    <3>1. SUFFICES ASSUME parent[v] = 0 PROVE FALSE
      OBVIOUS
    <3>2. semi[v] <= 0
      BY <2>1, <3>1, <1>1, <1>8
    <3>3. semi[y] <= semi[v]
      BY <1>3, <1>4, <1>11 DEF LowEnough
    <3>4. semi[v] \in Nat
      BY SemiNatural
    <3>5. QED
      BY <3>2, <3>3, <3>4, <1>6, <1>7
  <2>3. PICK s \in Found \ {0} : parent[s] = 0 /\ Above(s, v) /\ Above(s, y)
    BY <2>1, <2>2 DEF Together
  <2> DEFINE T == {x \in Found : Above(x, v) /\ num[y] < num[x]}
  <2>4. PICK x0 \in T : \A x \in T : num[x0] <= num[x]
    <3>1. v \in T
      BY <1>3, <1>11
    <3>2. QED
      BY <3>1, LeastNumber DEF Finished
  <2> HIDE DEF T
  <2>5. x0 \in Found \ {0} /\ Above(x0, v) /\ num[y] < num[x0]
    BY <1>1, <2>4 DEF T
  <2> DEFINE z == parent[x0]
  <2>6. z \in Found /\ num[z] < num[x0] /\ Above(z, x0) /\ semi[x0] <= num[z]
    BY <2>5, <1>8
  <2>7. Above(z, v)
    BY <2>5, <2>6, <1>3
  <2>8. num[z] <= num[y]
    <3>1. z \notin T
      BY <2>4, <2>6, <1>1 DEF T
    <3>2. QED
      BY <3>1, <2>6, <2>7, <1>1 DEF T
  <2>9. z # 0
    <3>1. SUFFICES ASSUME z = 0 PROVE FALSE
      OBVIOUS
    <3>2. num[s] <= num[y] /\ num[s] < num[x0]
      BY <2>3, <2>5, <1>1, <1>2
    <3>3. Above(s, x0)
      BY <2>3, <2>5, <3>2, <1>1, <1>2
    <3>4. s # x0 /\ x0 \in Nodes \ {0}
      BY <3>2, <2>5, <1>1
    <3>5. Above(s, z)
      BY <3>3, <3>4, <1>3
    <3>6. QED
      BY <3>1, <3>5, <2>3, <1>3
  <2>10. semi[y] <= semi[x0]
    BY <2>5, <2>9, <1>4 DEF LowEnough
  <2>11. num[d] <= num[z]
    <3>1. num[z] \in Nat /\ semi[x0] \in Nat
      BY <2>5, <2>6, <1>1, SemiNatural
    <3>2. QED
      BY <3>1, <2>6, <2>10, <1>6, <1>7
  <2>12. Above(z, y)
    BY <2>5, <2>6, <2>8, <1>1 DEF Finished, Tree
  <2>13. Above(d, z)
    BY <2>11, <2>12, <1>2, <1>5
  <2>14. Above(d, v) /\ num[d] < num[v]
    <3>1. num[d] < num[x0] /\ num[x0] <= num[v]
      BY <2>5, <2>6, <2>11, <1>1, <1>2
    <3>2. QED
      BY <3>1, <2>5, <2>7, <2>13, <1>1, <1>3
  <2>15. ASSUME NEW x \in Found, Above(x, v), num[d] < num[x]
         PROVE  num[d] <= semi[x]
    <3>1. CASE num[y] < num[x]
      <4>1. x # 0
        BY <3>1, <1>1
      <4>2. parent[x] # 0
        <5>1. SUFFICES ASSUME parent[x] = 0 PROVE FALSE
          OBVIOUS
        <5>2. Above(d, x) /\ d # x
          BY <2>14, <2>15, <1>1, <1>2
        <5>3. Above(d, 0)
          BY <5>1, <5>2, <4>1, <1>1, <1>3
        <5>4. QED
          BY <5>3, <1>3
      <4>3. semi[y] <= semi[x]
        BY <3>1, <4>2, <2>15, <1>4 DEF LowEnough
      <4>4. semi[x] \in Nat
        BY SemiNatural
      <4>5. QED
        BY <4>3, <4>4, <1>6, <1>7
    <3>2. CASE ~ (num[y] < num[x])
      <4>1. num[x] < num[x0]
        BY <3>2, <2>5, <1>1
      <4>2. Above(x, x0) /\ x # x0
        BY <4>1, <2>5, <2>15, <1>1, <1>2
      <4>3. Above(x, z)
        BY <4>2, <2>5, <1>1, <1>3
      <4>4. Above(x, y)
        BY <4>3, <2>12, <1>3
      <4>5. QED
        BY <4>4, <2>15, <1>5
    <3>3. QED
      BY <3>1, <3>2
  <2>16. QED
    BY <2>14, <2>15 DEF Enclosed, HighEnough
<1>12. QED
  BY <1>1, <1>9, <1>10, <1>11

LEMMA LinkParts ==
  ASSUME Finished, NEW e \in links
  PROVE  e = [src |-> e.src, dst |-> e.dst] /\ e.src \in Nodes /\ e.dst \in Nodes
<1>1. e \in Links(Nodes)
  BY DEF Finished, Tree
<1>2. QED
  BY <1>1 DEF Links

LEMMA LinkedAreFound ==
  ASSUME Finished, NEW e \in links, e.src \in Found
  PROVE  e.dst \in Found
<1>1. Found = Reached /\ e.dst \in Nodes
  BY LinkParts DEF Finished, Tree
<1>2. QED
  BY <1>1, ReachableStep DEF Reached

(* A node below the root has one child of the root above it.               *)
LEMMA SubtreeOf ==
  ASSUME Finished, NEW v \in Found \ {0}
  PROVE  Subtree(v) \in Found \ {0} /\ parent[Subtree(v)] = 0 /\ Above(Subtree(v), v)
<1>1. 0 \in Found /\ Above(0, v) /\ num[0] = 0
  BY FoundNodes, AboveFound DEF Finished
<1>2. PICK c \in Found \ {0} : parent[c] = 0 /\ Above(c, v)
  BY <1>1, ChildTowards
<1> HIDE DEF Above
<1>3. L!TreeSegment(v, 0) = {x \in Found : Above(x, v) /\ num[0] < num[x]}
  BY <1>1, SegmentMeaning
<1>4. num[c] > 0
  <2>1. num[c] \in 1..(n - 1)
    BY FoundNodes DEF Finished
  <2>2. QED
    BY <2>1
<1> HIDE DEF Found, num
<1>5. c \in L!TreeSegment(v, 0)
  BY <1>1, <1>2, <1>3, <1>4
<1> DEFINE S == L!TreeSegment(v, 0)
           u == CHOOSE x \in S : parent[x] = 0
<1>6. u \in S /\ parent[u] = 0
  <2> HIDE DEF S
  <2>1. QED
    BY <1>2, <1>5 DEF S
<1>7. Subtree(v) = u
  BY DEF Subtree
<1> HIDE DEF u
<1>8. u \in Found /\ Above(u, v) /\ num[0] < num[u]
  BY <1>3, <1>6
<1>9. u # 0
  BY <1>1, <1>8
<1>10. QED
  BY <1>6, <1>7, <1>8, <1>9

(* Links cross, unless both ends are below the same child of the root.     *)
LEMMA NotCrossing ==
  ASSUME Finished, NEW e \in links, e.src \in Found, ~ Crosses(e),
         0 \notin {e.src, e.dst, parent[e.src], parent[e.dst]}
  PROVE  Together(e.src, e.dst)
<1>1. Found = Reached /\ e.dst \in Found
  BY LinkedAreFound DEF Finished, Tree
<1>2. Subtree(e.src) = Subtree(e.dst)
  BY <1>1 DEF Crosses
<1>3. e.src \in Found \ {0} /\ e.dst \in Found \ {0}
  BY <1>1
<1>4. QED
  BY <1>2, <1>3, SubtreeOf DEF Together

(* No link leads from outside to the nodes of Y that d encloses.           *)
Sealed(d, Y) ==
  \A e \in links :
    e.src \in Found /\ e.dst \in Y /\ Enclosed(d, e.dst) /\ e.src # d =>
      /\ e.src # 0 /\ parent[e.src] # 0 => Together(e.src, e.dst)
      /\ Enclosed(d, e.src) => e.src \in Y

(* These nodes can only be reached through d.                              *)
LEMMA EnclosedIsDominated ==
  ASSUME Finished, Semidominators, AllLow, NEW d \in Found \ {0}, NEW Y, Sealed(d, Y),
         NEW w \in Found, w \in Y, Enclosed(d, w)
  PROVE  d \in Doms(w)
<1>1. 0 \in Found /\ num[0] = 0 /\ Found \subseteq Nodes /\ \A x \in Found : num[x] \in Nat
  BY FoundNodes, NumberOfNode DEF Finished
<1> DEFINE S == {y \in Found \ {d} : ~ (y \in Y /\ Enclosed(d, y))}
<1>2. ~ Enclosed(d, 0) /\ ~ Enclosed(d, d)
  <2> HIDE DEF Found, num
  <2>1. num[d] \in Nat
    BY <1>1
  <2>2. QED
    BY <1>1, <2>1 DEF Enclosed
<1>3. 0 \in S /\ S \in SUBSET (Nodes \ {d})
  BY <1>1, <1>2
<1>4. ASSUME NEW e \in Without(d, links), e.src \in S PROVE e.dst \in S
  <2>1. e \in links /\ e.src # d /\ e.dst # d /\ e.src \in Found
    BY <1>4 DEF Without
  <2>2. e.dst \in Found
    BY <2>1, LinkedAreFound
  <2>3. ASSUME e.dst \in Y, Enclosed(d, e.dst) PROVE FALSE
    <3>1. /\ e.src # 0 /\ parent[e.src] # 0 => Together(e.src, e.dst)
          /\ Enclosed(d, e.src) => e.src \in Y
      BY <2>1, <2>3 DEF Sealed
    <3>2. e.dst # 0
      BY <1>2, <2>3
    <3>3. [src |-> e.src, dst |-> e.dst] \in links
      BY <2>1, LinkParts
    <3>4. Enclosed(d, e.src)
      BY <2>1, <2>2, <2>3, <3>1, <3>2, <3>3, NoWayIn
    <3>5. QED
      BY <1>4, <3>1, <3>4
  <2>4. QED
    BY <2>1, <2>2, <2>3
<1>5. Closed(S, Without(d, links))
  BY <1>4 DEF Closed
<1>6. Avoiding(d) \subseteq S
  BY <1>3, <1>5, ReachableIsLeast DEF Avoiding
<1>7. w \notin Avoiding(d) /\ d # w
  BY <1>2, <1>6
<1>8. QED
  BY <1>7, DominatorMeaning

(* Where no links cross, what encloses a node dominates it.                *)
LEMMA NothingCrosses ==
  ASSUME Finished, NEW d \in Found \ {0}, \A e \in links : ~ Crosses(e)
  PROVE  Sealed(d, Found)
<1> SUFFICES ASSUME NEW e \in links, e.src \in Found, e.dst \in Found, Enclosed(d, e.dst),
                    e.src # 0, parent[e.src] # 0
             PROVE  Together(e.src, e.dst)
  BY DEF Sealed
<1>1. Above(d, e.dst) /\ num[d] < num[e.dst]
  BY DEF Enclosed
<1>2. num[d] \in Nat /\ num[0] = 0 /\ Found \subseteq Nodes
  BY NumberOfNode, FoundNodes DEF Finished
<1> HIDE DEF Found, num, Above
<1>3. e.dst # 0 /\ d # e.dst
  BY <1>1, <1>2
<1>4. Above(d, parent[e.dst])
  BY <1>1, <1>2, <1>3, AboveLaws
<1>5. parent[e.dst] # 0
  BY <1>4, AboveLaws
<1>6. QED
  BY <1>3, <1>5, NotCrossing

(* Nor can one get in past a dominator above d.                            *)
LEMMA DominatedInside ==
  ASSUME Finished, NEW d \in Found \ {0}, NEW x \in Found \ {0}, Above(x, d)
  PROVE  Sealed(d, {y \in Found : x \in Doms(y)})
<1> DEFINE Y == {y \in Found : x \in Doms(y)}
<1> SUFFICES ASSUME NEW e \in links, e.src \in Found, e.dst \in Y, Enclosed(d, e.dst)
             PROVE  /\ Together(e.src, e.dst)
                    /\ Enclosed(d, e.src) => e.src \in Y
  BY DEF Sealed
<1>1. x \in Doms(e.dst) /\ e.dst \in Found /\ [src |-> e.src, dst |-> e.dst] \in links
  BY LinkParts
<1>2. x = e.src \/ x \in Doms(e.src)
  BY <1>1, DominatorOfPred
<1>3. Above(x, e.src) /\ Above(x, e.dst)
  BY <1>1, <1>2, DominatorsAbove, AboveLaws
<1>4. Together(e.src, e.dst)
  <2>1. Subtree(x) \in Found \ {0} /\ parent[Subtree(x)] = 0 /\ Above(Subtree(x), x)
    BY SubtreeOf
  <2>2. Above(Subtree(x), e.src) /\ Above(Subtree(x), e.dst)
    BY <1>3, <2>1, AboveLaws
  <2>3. QED
    BY <2>1, <2>2 DEF Together
<1>5. ASSUME Enclosed(d, e.src) PROVE e.src \in Y
  <2>1. num[d] < num[e.src] /\ num[x] <= num[d]
    BY <1>5, AboveFound DEF Enclosed
  <2>2. num[d] \in Nat /\ num[x] \in Nat
    BY NumberOfNode DEF Finished
  <2> HIDE DEF num, Found
  <2>3. x # e.src
    BY <2>1, <2>2
  <2>4. QED
    BY <1>2, <2>3
<1>6. QED
  BY <1>4, <1>5

(* What dominate ends with: the immediate dominators, unless only the root *)
(* dominates and links cross.                                              *)
LEMMA ComputedIsImmediate ==
  ASSUME Finished, Semidominators, AllLow, NEW w \in Found \ {0}, Final(w), FinalWell(w)
  PROVE  \/ IsImmediateDominator(dominator[w], w, Nodes, links)
         \/ Doms(w) = {0} /\ \E e \in links : Crosses(e)
<1> DEFINE d == dominator[w]
<1>1. d \in Found /\ num[d] < num[w] /\ Doms(w) \subseteq {d} \cup Doms(d)
  BY DEF Final
<1>2. num[w] \in Nat /\ num[d] \in Nat
  BY <1>1, NumberOfNode DEF Finished
<1>3. Enclosed(d, w)
  BY <1>1 DEF FinalWell, Enclosed
<1> HIDE DEF d
<1>4. ASSUME d \in Doms(w) PROVE IsImmediateDominator(d, w, Nodes, links)
  <2>1. ASSUME NEW v \in Doms(w) PROVE Dominates(v, d, Nodes, links)
    <3>1. CASE v = d
      <4>1. d \in Reached
        BY <1>1 DEF Finished, Tree
      <4>2. d \notin Reachable(Nodes \ {d}, Without(d, links))
        BY DEF Reachable
      <4>3. QED
        BY <3>1, <4>1, <4>2 DEF Dominates, Reached
    <3>2. CASE v \in Doms(d)
      BY <3>2 DEF Doms, StrictDominators
    <3>3. QED
      BY <1>1, <2>1, <3>1, <3>2
  <2>2. QED
    BY <1>4, <2>1 DEF IsImmediateDominator, Doms
<1>5. 0 \in Doms(w)
  <2>1. 0 \in Found /\ w # 0
    BY FoundNodes DEF Finished
  <2>2. QED
    BY <2>1, DominatorMeaning
<1>6. CASE d = 0
  BY <1>4, <1>5, <1>6 DEF d
<1>7. CASE d # 0 /\ \A e \in links : ~ Crosses(e)
  <2>1. Sealed(d, Found)
    BY <1>1, <1>7, NothingCrosses
  <2>2. d \in Doms(w)
    BY <1>1, <1>3, <1>7, <2>1, EnclosedIsDominated
  <2>3. QED
    BY <1>4, <2>2 DEF d
<1>8. CASE d # 0 /\ Doms(w) # {0}
  <2>1. PICK x \in Doms(w) : x # 0
    BY <1>5, <1>8
  <2>2. x \in Found \ {0} /\ Above(x, d)
    <3>1. x = d \/ x \in Doms(d)
      BY <1>1
    <3>2. QED
      BY <1>1, <2>1, <3>1, DominatorsAbove, AboveLaws
  <2> DEFINE Y == {y \in Found : x \in Doms(y)}
  <2>3. Sealed(d, Y)
    BY <1>1, <1>8, <2>2, DominatedInside
  <2>4. w \in Y
    OBVIOUS
  <2> HIDE DEF Y
  <2>5. d \in Doms(w)
    BY <1>1, <1>3, <1>8, <2>3, <2>4, EnclosedIsDominated
  <2>6. QED
    BY <1>4, <2>5 DEF d
<1>9. QED
  BY <1>6, <1>7, <1>8

------------------------------------------------------------------------------
(* The steps of dominate do lower semi as far *)

(* What depends on the tree and on semi only, and on the dominator of one  *)
(* node.                                                                   *)
LEMMA WellKept ==
  ASSUME Steady, UNCHANGED semi
  PROVE  /\ Kept' = Kept
         /\ \A v, w : LowEnough(v, w)' <=> LowEnough(v, w)
         /\ \A e : LoweredBy(e)' <=> LoweredBy(e)
         /\ \A v, d : HighEnough(v, d)' <=> HighEnough(v, d)
<1>1. Found' = Found /\ num' = num /\ links' = links /\ UNCHANGED <<parent, semi>>
  BY TreeKept DEF Steady
<1>2. \A v, x : Above(v, x)' <=> Above(v, x)
  BY TreeKept DEF Steady
<1>3. Kept' = Kept
  BY <1>1 DEF Kept
<1> HIDE DEF Found, num, Above
<1>4. \A v, w : LowEnough(v, w)' <=> LowEnough(v, w)
  BY <1>1, <1>2 DEF LowEnough
<1>5. \A v, d : HighEnough(v, d)' <=> HighEnough(v, d)
  BY <1>1, <1>2 DEF HighEnough
<1>6. \A e : LoweredBy(e)' <=> LoweredBy(e)
  BY <1>4 DEF LoweredBy
<1>7. QED
  BY <1>3, <1>4, <1>5, <1>6

LEMMA SettledKept ==
  ASSUME Steady, UNCHANGED semi, NEW v, dominator'[v] = dominator[v]
  PROVE  /\ SettledWell(v)' <=> SettledWell(v)
         /\ FinalWell(v)' <=> FinalWell(v)
<1>1. Found' = Found /\ num' = num /\ UNCHANGED <<parent, semi, vertex>>
  BY TreeKept DEF Steady
<1>2. \A u, x : Above(u, x)' <=> Above(u, x)
  BY TreeKept DEF Steady
<1>3. \A u, d : HighEnough(u, d)' <=> HighEnough(u, d)
  BY WellKept
<1>4. Above(dominator[v], v)' <=> Above(dominator[v], v)
  BY <1>1 DEF Above, Ancestor
<1> HIDE DEF Found, num, Above, HighEnough
<1>5. HighEnough(v, dominator[v])' <=> HighEnough(v, dominator[v])
  BY <1>1, <1>2 DEF HighEnough
<1>6. ByLeast(v)' <=> ByLeast(v)
  BY <1>1, <1>2, <1>4 DEF ByLeast
<1>7. SettledWell(v)' <=> SettledWell(v)
  BY <1>1, <1>5, <1>6 DEF SettledWell
<1>8. FinalWell(v)' <=> FinalWell(v)
  BY <1>4, <1>5 DEF FinalWell
<1>9. QED
  BY <1>7, <1>8

LEMMA AllLinkedKept ==
  ASSUME Steady, UNCHANGED semi, \A x \in Found : num[x] >= Lowest => num[x] >= Lowest',
         NEW v, AllLinked(v)
  PROVE  AllLinked(v)'
<1>1. Found' = Found /\ num' = num
  BY TreeKept DEF Steady
<1>2. \A u, x : Above(u, x)' <=> Above(u, x)
  BY TreeKept DEF Steady
<1> HIDE DEF Found, num, Above
<1>3. QED
  BY <1>1, <1>2 DEF AllLinked

(* Which nodes have been lowered for.                                      *)
LEMMA SemiLowStays ==
  ASSUME SemiLow, Steady, UNCHANGED semi,
         Descending' => \A v \in Found \ {0} : num[v] >= Lowest' =>
           (Descending /\ num[v] >= Lowest) \/ \A e \in Kept : e.dst = v => LoweredBy(e),
         pc' \in {"explicit", "done"} =>
           pc \in {"explicit", "done"} \/ (Descending /\ \A v \in Found \ {0} : num[v] >= Lowest),
         pc' \in {"preds", "lower"} =>
           \A k \in 1..Len(preds) : k < ptr' /\ preds[k].src = vertex[i'] =>
             pc \in {"preds", "lower"} /\ UNCHANGED <<i, ptr>>,
         \A e \in Kept : e.dst \in Found
  PROVE  SemiLow'
<1>1. Found' = Found /\ num' = num /\ UNCHANGED <<vertex, preds>>
  BY TreeKept DEF Steady
<1>2. Kept' = Kept /\ \A e : LoweredBy(e)' <=> LoweredBy(e)
  BY WellKept
<1>3. \A v, w : LowEnough(v, w)' <=> LowEnough(v, w)
  BY WellKept
<1> HIDE DEF Found, num, Kept, LoweredBy, LowEnough, Descending, Lowest
<1>4. Descending' => \A e \in Kept : e.dst # 0 /\ num[e.dst] >= Lowest' => LoweredBy(e)
  BY DEF SemiLow
<1>5. pc' \in {"explicit", "done"} => \A e \in Kept : e.dst # 0 => LoweredBy(e)
  BY DEF SemiLow
<1>6. pc' \in {"preds", "lower"} =>
       \A k \in 1..Len(preds) :
         k < ptr' /\ preds[k].src = vertex[i'] => LowEnough(preds[k].dst, vertex[i'])
  BY DEF SemiLow
<1>7. QED
  BY <1>1, <1>2, <1>3, <1>4, <1>5, <1>6 DEF SemiLow

(* A kept link leads to a found node.                                      *)
LEMMA KeptIsFound ==
  ASSUME Finished
  PROVE  \A e \in Kept : e.dst \in Found /\ e.src \in Found
<1>1. \A e \in Kept : e \in links /\ e.src \in Found
  BY DEF Kept
<1> HIDE DEF Found
<1>2. QED
  BY <1>1, LinkedAreFound

(* The steps that end the program, and the first one.                      *)
LEMMA StopExact ==
  ASSUME Working, Exactly, Steady, UNCHANGED dots, L!MapFails \/ L!DivideByZero \/ L!AssertionFails
  PROVE  Exactly'
<1>1. pc' = "abort" /\ calls = << >> /\ UNCHANGED <<semi, ancestor, arg, calls, unwinding>>
  <2>1. pc \in {"start", "loop"} /\ pc' = "abort"
    BY DEF L!MapFails, L!DivideByZero, L!AssertionFails, L!InLoop
  <2>2. calls = << >>
    BY <2>1 DEF Working, Dominating, Climbing
  <2>3. QED
    BY <2>1, <2>2 DEF L!MapFails, L!DivideByZero, L!AssertionFails, L!forest, L!evaluation
<1>2. QED
  BY <1>1 DEF Exactly, SemiLow, Compressed, DominatorsWell, Descending, AtNode

LEMMA BeginExact ==
  ASSUME Working, Exactly, Steady, UNCHANGED dots, L!Begin
  PROVE  Exactly'
<1>1. /\ pc' = "loop" /\ calls = << >> /\ i = NumNodes - 1
      /\ UNCHANGED <<semi, ancestor, arg, calls, unwinding, i>>
  BY DEF L!Begin, L!forest, L!evaluation, Working, Dominating, Fresh, Climbing
<1>2. Found' = Found /\ num' = num
  BY TreeKept DEF Steady
<1>3. n \in 1..NumNodes /\ \A v \in Found : num[v] \in Nat /\ num[v] < n
  BY NumberOfNode DEF Working, Finished, Numbering
<1>4. Lowest' = NumNodes
  BY <1>1, NumNodesAssumption DEF Lowest
<1> HIDE DEF Found, num
<1>5. \A v \in Found : ~ (num[v] >= Lowest')
  BY <1>3, <1>4, NumNodesAssumption
<1>6. SemiLow'
  <2>1. \A e \in Kept : e.dst \in Found
    BY KeptIsFound DEF Working
  <2>2. QED
    BY <2>1, <1>1, <1>5, SemiLowStays DEF Exactly
<1>7. DominatorsWell'
  BY <1>1, <1>2, <1>5 DEF DominatorsWell
<1>8. Compressed'
  BY <1>1 DEF Compressed
<1>9. QED
  BY <1>6, <1>7, <1>8 DEF Exactly

(* What is not disturbed by a step of COMPRESS.                            *)
LEMMA CallExact ==
  ASSUME Working, Exactly, Steady, UNCHANGED <<dots, pc, semi, dominator, bucket, i, ptr, arg>>,
         pc \in {"lower", "dominate"}
  PROVE  SemiLow' /\ DominatorsWell'
<1>1. Found' = Found /\ num' = num
  BY TreeKept DEF Steady
<1>2. Lowest' = Lowest /\ (Descending' <=> Descending)
  BY DEF Lowest, Descending, AtNode
<1> HIDE DEF Found, num
<1>3. SemiLow'
  <2>1. \A e \in Kept : e.dst \in Found
    BY KeptIsFound DEF Working
  <2>2. QED
    BY <2>1, <1>2, SemiLowStays DEF Exactly
<1>4. \A v : SettledWell(v) => SettledWell(v)'
  BY SettledKept
<1>5. \A v : AllLinked(v) => AllLinked(v)'
  BY <1>2, AllLinkedKept
<1>6. \A p, v : InBucket(v, p)' <=> InBucket(v, p)
  BY DEF InBucket
<1>7. DominatorsWell'
  <2> HIDE DEF SettledWell, AllLinked, InBucket
  <2>1. QED
    BY <1>1, <1>2, <1>4, <1>5, <1>6 DEF DominatorsWell, Exactly
<1>8. QED
  BY <1>3, <1>7

LEMMA CompressAncestorExact ==
  ASSUME Working, Exactly, Steady, UNCHANGED dots, L!CompressAncestor
  PROVE  Exactly'
<1>1. /\ calls # << >> /\ ~ unwinding /\ calls' = Append(calls, ancestor[calls[Len(calls)]])
      /\ UNCHANGED <<pc, semi, dominator, ancestor, label, bucket, i, ptr, arg, unwinding>>
  BY DEF L!CompressAncestor, L!Innermost, L!forest
<1>2. /\ calls \in Seq(Nodes) /\ Len(calls) \in Nat \ {0} /\ ancestor[calls[Len(calls)]] \in Nodes
      /\ pc \in {"lower", "dominate"} /\ 1 \in 1..Len(calls)
  BY <1>1, InnermostFacts
<1>3. calls'[1] = calls[1] /\ calls' # << >>
  BY <1>1, <1>2, AppendProperties
<1>4. Compressed'
  BY <1>1, <1>3 DEF Compressed, Exactly
<1>5. QED
  BY <1>1, <1>2, <1>4, CallExact DEF Exactly

LEMMA CompressBelowRootExact ==
  ASSUME Working, Exactly, Steady, UNCHANGED dots, L!CompressBelowRoot
  PROVE  Exactly'
<1> DEFINE len == Len(calls)
           v == calls[len]
<1>1. /\ calls # << >> /\ calls' = Pop(calls) /\ ancestor[ancestor[v]] = 0
      /\ UNCHANGED <<pc, semi, dominator, ancestor, label, bucket, i, ptr, arg>>
  BY DEF L!CompressBelowRoot, L!Pop, Pop, L!Innermost, L!forest
<1>2. /\ calls \in Seq(Nodes) /\ len \in Nat \ {0} /\ pc \in {"lower", "dominate"}
      /\ len \in 1..len
  BY <1>1, InnermostFacts
<1>3. /\ calls' \in Seq(Nodes) /\ Len(calls') = len - 1
      /\ \A k \in 1..(len - 1) : calls'[k] = calls[k]
  BY <1>1, <1>2, PopProperties
<1>4. Compressed'
  <2>1. ASSUME calls' = << >> PROVE ancestor[ancestor[arg]] = 0
    <3>1. len = 1
      BY <2>1, <1>2, <1>3, EmptySeq
    <3>2. calls[1] = arg
      BY <1>1 DEF Compressed, Exactly
    <3>3. QED
      BY <3>1, <3>2, <1>1
  <2>2. ASSUME calls' # << >>
        PROVE  calls'[1] = arg /\ ancestor[ancestor[ancestor[calls'[Len(calls')]]]] = 0
    <3>1. len - 1 \in 1..(len - 1) /\ 1 \in 1..(len - 1) /\ len > 1
      BY <2>2, <1>2, <1>3, EmptySeq
    <3>2. calls'[len - 1] = calls[len - 1] /\ v = ancestor[calls[len - 1]]
      BY <3>1, <1>2, <1>3 DEF Climbing, Working, Dominating
    <3>3. calls'[1] = arg
      BY <3>1, <1>1, <1>3 DEF Compressed, Exactly
    <3>4. QED
      BY <3>2, <3>3, <1>1, <1>3
  <2>3. QED
    BY <2>1, <2>2, <1>1 DEF Compressed
<1>5. QED
  BY <1>1, <1>2, <1>4, CallExact DEF Exactly

LEMMA CompressUnwindExact ==
  ASSUME Working, Exactly, Steady, UNCHANGED dots, L!CompressUnwind
  PROVE  Exactly'
<1> DEFINE len == Len(calls)
           v == calls[len]
           a == ancestor[v]
           b == ancestor[a]
<1>1. /\ calls # << >> /\ unwinding /\ calls' = Pop(calls)
      /\ ancestor' = [ancestor EXCEPT ![v] = b]
      /\ UNCHANGED <<pc, semi, dominator, bucket, i, ptr, arg, unwinding>>
  BY DEF L!CompressUnwind, L!Innermost, L!Pop, Pop
<1>2. /\ calls \in Seq(Nodes) /\ len \in Nat \ {0} /\ len \in 1..len /\ v \in Nodes
      /\ \A k \in 1..len : calls[k] \in Nodes /\ num[calls[k]] \in Nat
      /\ a # 0 /\ a \in Nodes /\ pc \in {"lower", "dominate"}
  BY <1>1, InnermostFacts, NumberOfNode DEF Working, Finished
<1>3. b # 0
  BY <1>1 DEF Climbing, Working, Dominating
<1>4. v \in Found \ {0} /\ a \in Found /\ num[a] < num[v]
  BY <1>2, AncestorSmaller DEF Working, Dominating
<1>5. b \in Found /\ num[b] < num[a]
  BY <1>2, <1>3, AncestorSmaller DEF Working, Dominating
<1>6. /\ ancestor \in [Nodes -> Nodes] /\ Found \subseteq Nodes
      /\ num[v] \in Nat /\ num[a] \in Nat /\ num[b] \in Nat
  BY <1>4, <1>5, FoundNodes, NumberOfNode DEF Working, Dominating, DominateTypes, Finished
<1>7. ancestor[b] = 0
  BY <1>1 DEF Compressed, Exactly
<1> HIDE DEF Found, num, v, a, b
<1>8. b # v /\ b \in Nodes
  BY <1>4, <1>5, <1>6
<1>9. ancestor'[v] = b /\ ancestor'[b] = 0 /\ \A x \in Nodes : x # v => ancestor'[x] = ancestor[x]
  BY <1>1, <1>2, <1>6, <1>7, <1>8
<1>10. /\ calls' \in Seq(Nodes) /\ Len(calls') = len - 1
       /\ \A k \in 1..(len - 1) : calls'[k] = calls[k]
  BY <1>1, <1>2, PopProperties
<1>11. Compressed'
  <2>1. ASSUME calls' = << >> PROVE ancestor'[ancestor'[arg]] = 0
    <3>1. len = 1
      BY <2>1, <1>2, <1>10, EmptySeq
    <3>2. calls[1] = arg
      BY <1>1 DEF Compressed, Exactly
    <3>3. arg = v
      BY <3>1, <3>2 DEF v
    <3>4. QED
      BY <3>3, <1>9
  <2>2. ASSUME calls' # << >>
        PROVE  calls'[1] = arg /\ ancestor'[ancestor'[ancestor'[calls'[Len(calls')]]]] = 0
    <3>1. len - 1 \in 1..(len - 1) /\ 1 \in 1..(len - 1) /\ len > 1 /\ len - 1 \in 1..len
      BY <2>2, <1>2, <1>10, EmptySeq
    <3> DEFINE c == calls[len - 1]
    <3>2. calls'[len - 1] = c /\ v = ancestor[c] /\ num[calls[len]] < num[c]
      BY <3>1, <1>2, <1>10 DEF Climbing, Working, Dominating, v
    <3>3. c \in Nodes /\ num[c] \in Nat
      BY <3>1, <1>2
    <3>4. c # v
      BY <3>2, <3>3, <1>6 DEF v
    <3>5. ancestor'[c] = v
      BY <3>2, <3>3, <3>4, <1>9
    <3>6. calls'[1] = arg
      BY <3>1, <1>1, <1>10 DEF Compressed, Exactly
    <3>7. QED
      BY <3>2, <3>5, <3>6, <1>9, <1>10
  <2>3. QED
    BY <2>1, <2>2, <1>1 DEF Compressed
<1>12. QED
  BY <1>1, <1>2, <1>11, CallExact DEF Exactly

(* The nodes on the way down stay dealt with.                              *)
LEMMA DescentExact ==
  ASSUME Working, DominatorsWell, Steady, UNCHANGED <<semi, dominator>>, Descending, Descending',
         \A x \in Found : num[x] >= Lowest' <=> num[x] >= Lowest,
         \A v : (\E p \in Nodes : InBucket(v, p)) \/ (pc = "dominate" /\ v = arg) =>
                  (\E p \in Nodes : InBucket(v, p)') \/ (pc' = "dominate" /\ v = arg')
  PROVE  DominatorsWell'
<1>1. Found' = Found /\ num' = num
  BY TreeKept DEF Steady
<1>2. \A v : SettledWell(v) => SettledWell(v)'
  BY SettledKept
<1>3. \A v : AllLinked(v) => AllLinked(v)'
  BY AllLinkedKept
<1>4. pc' # "explicit" /\ pc' # "done"
  BY DEF Descending, AtNode
<1> HIDE DEF Found, num, SettledWell, AllLinked, InBucket, Descending, Lowest
<1>5. \A v \in Found \ {0} : num[v] >= Lowest =>
       \/ \E p \in Nodes : InBucket(v, p)
       \/ pc = "dominate" /\ v = arg
       \/ SettledWell(v) /\ AllLinked(v)
  BY DEF DominatorsWell
<1>6. \A v \in Found \ {0} : num[v] >= Lowest' =>
       \/ \E p \in Nodes : InBucket(v, p)'
       \/ pc' = "dominate" /\ v = arg'
       \/ SettledWell(v)' /\ AllLinked(v)'
  BY <1>2, <1>3, <1>5
<1>7. QED
  BY <1>1, <1>4, <1>6 DEF DominatorsWell

LEMMA SkipUnreachedExact ==
  ASSUME Working, Exactly, Steady, UNCHANGED dots, L!SkipUnreached
  PROVE  Exactly'
<1>1. /\ pc = "loop" /\ pc' = "loop" /\ i > 0 /\ i' = i - 1 /\ vertex[i] = 0
      /\ UNCHANGED <<semi, dominator, ancestor, label, bucket, ptr, arg, calls, unwinding>>
  BY DEF L!SkipUnreached, L!InLoop, L!Node, L!forest, L!evaluation
<1>2. /\ \A v \in Found : num[v] \in Nat /\ num[v] < n
      /\ n \in 1..NumNodes /\ n \in Nat
      /\ \A j \in 0..(n - 1) : vertex[j] \in Found /\ num[vertex[j]] = j
      /\ num[0] = 0
  BY FoundNodes, NumberOfNode DEF Working, Finished, Numbering
<1>3. i \in Nat
  BY DEF Working, Dominating, DominateTypes
<1>4. calls = << >>
  BY <1>1 DEF Working, Dominating, Climbing
<1> HIDE DEF Found, num
<1>5. i >= n
  BY <1>1, <1>2, <1>3
<1>6. Lowest' = i /\ Lowest = i + 1 /\ Descending /\ Descending'
  BY <1>1, <1>3 DEF Lowest, Descending
<1>7. \A v \in Found : num[v] >= Lowest' <=> num[v] >= Lowest
  BY <1>2, <1>3, <1>5, <1>6
<1>8. SemiLow'
  <2>1. \A e \in Kept : e.dst \in Found
    BY KeptIsFound DEF Working
  <2>2. QED
    BY <2>1, <1>1, <1>6, <1>7, SemiLowStays DEF Exactly
<1>9. \A p, v : InBucket(v, p)' <=> InBucket(v, p)
  BY <1>1 DEF InBucket
<1>10. DominatorsWell'
  BY <1>1, <1>6, <1>7, <1>9, DescentExact DEF Exactly
<1>11. Compressed'
  BY <1>1, <1>4 DEF Compressed
<1>12. QED
  BY <1>8, <1>10, <1>11 DEF Exactly

LEMMA StartNodeExact ==
  ASSUME Working, Exactly, Steady, UNCHANGED dots, L!StartNode
  PROVE  Exactly'
<1>1. /\ pc = "loop" /\ pc' = "preds" /\ i > 0 /\ calls = << >>
      /\ ptr' = LinkLowerBound(preds, [src |-> vertex[i], dst |-> 0])
      /\ UNCHANGED <<i, semi, dominator, ancestor, label, bucket, arg, calls, unwinding>>
  BY DEF L!StartNode, L!InLoop, L!Node, L!NodeAsExpected, L!FirstPred, L!forest, L!evaluation,
         L!LinkLowerBound, LinkLowerBound, L!LinkLess, LinkLess, L!PartitionPoint, PartitionPoint,
         Working, Dominating, Climbing
<1>2. Lowest' = Lowest /\ Descending /\ Descending'
  BY <1>1 DEF Lowest, Descending, AtNode
<1>3. vertex[i] \in Nodes
  <2>1. i \in Nodes
    BY <1>1, NumNodesAssumption DEF Nodes, Working, Dominating, DominateTypes, Position
  <2>2. QED
    BY <2>1 DEF Working, Finished, Numbering
<1>4. \A k \in 1..Len(preds) : preds[k].src < vertex[i] <=> k < ptr'
  BY <1>1, <1>3, PredecessorFacts DEF Working
<1>5. vertex' = vertex
  BY DEF Steady
<1> HIDE DEF Found, num, Lowest, Descending
<1>6. \A k \in 1..Len(preds) : ~ (k < ptr' /\ preds[k].src = vertex[i'])
  <2>1. SUFFICES ASSUME NEW k \in 1..Len(preds), k < ptr', preds[k].src = vertex[i] PROVE FALSE
    BY <1>1
  <2>2. preds[k].src < vertex[i] /\ preds[k].src \in Nat
    BY <2>1, <1>4, PredecessorFacts DEF Working
  <2>3. QED
    BY <2>1, <2>2
<1>7. SemiLow'
  <2>1. \A e \in Kept : e.dst \in Found
    BY KeptIsFound DEF Working
  <2>2. QED
    BY <2>1, <1>1, <1>2, <1>6, SemiLowStays DEF Exactly
<1>8. \A p, v : InBucket(v, p)' <=> InBucket(v, p)
  BY <1>1 DEF InBucket
<1>9. DominatorsWell'
  BY <1>1, <1>2, <1>8, DescentExact DEF Exactly
<1>10. Compressed'
  BY <1>1 DEF Compressed
<1>11. QED
  BY <1>7, <1>9, <1>10 DEF Exactly

(* EVAL begins: if its argument is not linked, COMPRESS is not called.     *)
LEMMA EvalCompressed ==
  ASSUME Working, NEW v, arg' = v, calls' = IF ancestor[v] = 0 THEN << >> ELSE <<v>>,
         unwinding' = FALSE, ancestor' = ancestor
  PROVE  Compressed'
<1>1. ancestor[0] = 0
  BY NodesAreNaturals DEF Working, Dominating, Forest
<1>2. ancestor[v] = 0 => ancestor[ancestor[v]] = 0
  BY <1>1
<1>3. ancestor[v] # 0 => calls' # << >> /\ calls'[1] = v
  OBVIOUS
<1>4. QED
  BY <1>2, <1>3 DEF Compressed

LEMMA EvalPredExact ==
  ASSUME Working, Exactly, Steady, UNCHANGED dots, L!EvalPred
  PROVE  Exactly'
<1>1. /\ pc = "preds" /\ pc' = "lower"
      /\ arg' = preds[ptr].dst /\ unwinding' = FALSE
      /\ calls' = IF ancestor[preds[ptr].dst] = 0 THEN << >> ELSE <<preds[ptr].dst>>
      /\ UNCHANGED <<i, semi, dominator, ancestor, label, bucket, ptr>>
  BY DEF L!EvalPred, L!AtPred, L!Node, L!Eval, L!forest
<1>2. Lowest' = Lowest /\ Descending /\ Descending'
  BY <1>1 DEF Lowest, Descending, AtNode
<1> HIDE DEF Found, num, Lowest, Descending
<1>3. SemiLow'
  <2>1. \A e \in Kept : e.dst \in Found
    BY KeptIsFound DEF Working
  <2>2. QED
    BY <2>1, <1>1, <1>2, SemiLowStays DEF Exactly
<1>4. \A p, v : InBucket(v, p)' <=> InBucket(v, p)
  BY <1>1 DEF InBucket
<1>5. DominatorsWell'
  BY <1>1, <1>2, <1>4, DescentExact DEF Exactly
<1>6. Compressed'
  BY <1>1, EvalCompressed
<1>7. QED
  BY <1>3, <1>5, <1>6 DEF Exactly

LEMMA EvalWaitingExact ==
  ASSUME Working, Exactly, Steady, UNCHANGED dots, L!EvalWaiting
  PROVE  Exactly'
<1> DEFINE q == parent[vertex[i]]
           waiting == bucket[q]
           last == Len(waiting)
<1>1. /\ pc = "drain" /\ pc' = "dominate" /\ waiting # << >>
      /\ arg' = waiting[last] /\ unwinding' = FALSE
      /\ calls' = IF ancestor[waiting[last]] = 0 THEN << >> ELSE <<waiting[last]>>
      /\ bucket' = [bucket EXCEPT ![q] = Pop(waiting)]
      /\ UNCHANGED <<i, semi, dominator, ancestor, label, ptr>>
  BY DEF L!EvalWaiting, L!Waiting, L!Node, L!Eval, L!forest, L!Pop, Pop
<1>2. Lowest' = Lowest /\ Descending /\ Descending'
  BY <1>1 DEF Lowest, Descending, AtNode
<1>3. q \in Nodes
  BY <1>1, AtNodeFacts DEF Working, Dominating, AtNode
<1>4. bucket \in [Nodes -> Seq(Nodes)] /\ waiting \in Seq(Nodes)
  BY <1>3 DEF Working, Dominating, DominateTypes
<1> HIDE DEF Found, num, Lowest, Descending, q
<1>5. last \in Nat \ {0}
  BY <1>1, <1>4, EmptySeq, LenProperties
<1> HIDE DEF last
<1>6. /\ Len(Pop(waiting)) = last - 1
      /\ \A k \in 1..(last - 1) : Pop(waiting)[k] = waiting[k]
  BY <1>1, <1>4, PopProperties DEF last
<1>7. /\ bucket'[q] = Pop(waiting)
      /\ \A p \in Nodes : p # q => bucket'[p] = bucket[p]
  BY <1>1, <1>3, <1>4
<1>8. \A p \in Nodes : \A v : InBucket(v, p) => InBucket(v, p)' \/ v = arg'
  <2>1. ASSUME NEW p \in Nodes, NEW v, p # q PROVE InBucket(v, p) => InBucket(v, p)'
    BY <2>1, <1>7 DEF InBucket
  <2>2. ASSUME NEW p \in Nodes, NEW v, p = q, InBucket(v, p) PROVE InBucket(v, p)' \/ v = arg'
    <3>1. PICK k \in 1..last : waiting[k] = v
      BY <2>2 DEF InBucket, last
    <3>2. CASE k = last
      BY <3>1, <3>2, <1>1
    <3>3. CASE k # last
      <4>1. k \in 1..(last - 1) /\ Pop(waiting)[k] = v
        BY <3>1, <3>3, <1>5, <1>6
      <4>2. QED
        BY <4>1, <2>2, <1>6, <1>7 DEF InBucket
    <3>4. QED
      BY <3>2, <3>3
  <2>3. QED
    BY <2>1, <2>2
<1>9. SemiLow'
  <2>1. \A e \in Kept : e.dst \in Found
    BY KeptIsFound DEF Working
  <2>2. QED
    BY <2>1, <1>1, <1>2, SemiLowStays DEF Exactly
<1>10. DominatorsWell'
  BY <1>1, <1>2, <1>8, DescentExact DEF Exactly
<1>11. Compressed'
  BY <1>1, EvalCompressed
<1>12. QED
  BY <1>9, <1>10, <1>11 DEF Exactly

LEMMA NextNodeExact ==
  ASSUME Working, Exactly, Steady, UNCHANGED dots, L!NextNode
  PROVE  Exactly'
<1>1. /\ pc = "drain" /\ pc' = "loop" /\ i' = i - 1 /\ calls = << >>
      /\ UNCHANGED <<semi, dominator, ancestor, label, bucket, ptr, arg, calls, unwinding>>
  BY DEF L!NextNode, L!Waiting, L!Node, L!forest, L!evaluation, Working, Dominating, Climbing
<1>2. i \in Nat
  BY DEF Working, Dominating, DominateTypes
<1>3. Lowest' = Lowest /\ Descending /\ Descending'
  BY <1>1, <1>2 DEF Lowest, Descending, AtNode
<1> HIDE DEF Found, num, Lowest, Descending
<1>4. SemiLow'
  <2>1. \A e \in Kept : e.dst \in Found
    BY KeptIsFound DEF Working
  <2>2. QED
    BY <2>1, <1>1, <1>3, SemiLowStays DEF Exactly
<1>5. \A p, v : InBucket(v, p)' <=> InBucket(v, p)
  BY <1>1 DEF InBucket
<1>6. DominatorsWell'
  BY <1>1, <1>3, <1>5, DescentExact DEF Exactly
<1>7. Compressed'
  BY <1>1 DEF Compressed
<1>8. QED
  BY <1>4, <1>6, <1>7 DEF Exactly

LEMMA BeginStep4Exact ==
  ASSUME Working, Exactly, Steady, UNCHANGED dots, L!BeginStep4
  PROVE  Exactly'
<1>1. /\ pc = "loop" /\ pc' = "explicit" /\ i = 0 /\ i' = 1 /\ calls = << >>
      /\ UNCHANGED <<semi, dominator, ancestor, label, bucket, ptr, arg, calls, unwinding>>
  BY DEF L!BeginStep4, L!forest, L!evaluation, Working, Dominating, Climbing
<1>2. Found' = Found /\ num' = num
  BY TreeKept DEF Steady
<1>3. \A v \in Found \ {0} : num[v] \in Nat /\ num[v] >= 1 /\ v \in Nodes
  <2>1. n \in Nat /\ \A v \in Found \ {0} : num[v] \in 1..(n - 1) /\ v \in Nodes
    BY FoundNodes, NumNodesAssumption DEF Working, Finished, Numbering
  <2> HIDE DEF Found, num
  <2>2. QED
    BY <2>1
<1> HIDE DEF Found, num
<1>4. Lowest = 1 /\ Descending /\ ~ Descending'
  BY <1>1 DEF Lowest, Descending, AtNode
<1>5. \A p \in Nodes : \A v \in Nodes : ~ InBucket(v, p)
  <2>1. SUFFICES ASSUME NEW p \in Nodes, NEW v \in Nodes, InBucket(v, p) PROVE FALSE
    OBVIOUS
  <2>2. \E c \in Found \ {0} : parent[c] = p /\ num[c] <= i
    BY <2>1, <1>4 DEF Working, Dominating, Buckets
  <2>3. QED
    BY <2>2, <1>1, <1>3
<1>6. \A v \in Found \ {0} : num[v] >= Lowest
  BY <1>3, <1>4
<1>7. \A v \in Found \ {0} : SettledWell(v)
  BY <1>1, <1>3, <1>4, <1>5, <1>6 DEF DominatorsWell, Exactly
<1>8. \A v : SettledWell(v) => SettledWell(v)'
  BY <1>1, SettledKept
<1>9. DominatorsWell'
  <2>1. \A v \in Found \ {0} : ~ (num[v] < i')
    BY <1>1, <1>3
  <2> HIDE DEF SettledWell
  <2>2. QED
    BY <2>1, <1>1, <1>2, <1>4, <1>7, <1>8 DEF DominatorsWell
<1>10. SemiLow'
  <2>1. \A e \in Kept : e.dst \in Found
    BY KeptIsFound DEF Working
  <2>2. QED
    BY <2>1, <1>1, <1>4, <1>6, SemiLowStays DEF Exactly
<1>11. Compressed'
  BY <1>1 DEF Compressed
<1>12. QED
  BY <1>9, <1>10, <1>11 DEF Exactly

LEMMA MakeExplicitExact ==
  ASSUME Working, Exactly, Steady, UNCHANGED dots, L!MakeExplicit
  PROVE  Exactly'
<1> DEFINE w == vertex[i]
           d == dominator[w]
<1>1. /\ pc = "explicit" /\ pc' = "explicit" /\ i < NumNodes /\ i' = i + 1 /\ calls = << >>
      /\ dominator' = [dominator EXCEPT ![w] = IF d = vertex[semi[w]] THEN d ELSE dominator[d]]
      /\ UNCHANGED <<semi, ancestor, label, bucket, ptr, arg, calls, unwinding>>
  BY DEF L!MakeExplicit, L!Node, L!Explicit, L!Semidominator, L!forest, L!evaluation,
         Working, Dominating, Climbing
<1>2. Found' = Found /\ num' = num
  BY TreeKept DEF Steady
<1>3. /\ Found \subseteq Nodes /\ \A v \in Found : num[v] \in Nat /\ num[v] < n /\ vertex[num[v]] = v
      /\ \A j \in 0..(n - 1) : vertex[j] \in Found /\ num[vertex[j]] = j
      /\ n \in 1..NumNodes /\ vertex \in [Nodes -> Nodes]
  BY FoundNodes, NumberOfNode DEF Working, Finished, Numbering
<1>4. semi \in [Nodes -> Nodes] /\ \A v \in Nodes : semi[v] \in Nat
  BY NodesAreNaturals DEF Working, Semidominators
<1>5. dominator \in [Nodes -> Nodes]
  BY DEF Working, Dominating, DominateTypes
<1>6. /\ i \in Nat /\ i >= 1 /\ i \in Nodes
      /\ \A v \in Found \ {0} : num[v] < i => Final(v)
  BY <1>1, NumNodesAssumption DEF Working, Dominating, DominateTypes, Explicitly, Nodes
<1>7. \A v \in Found \ {0} : IF num[v] < i THEN FinalWell(v) ELSE SettledWell(v)
  BY <1>1 DEF DominatorsWell, Exactly
<1>8. /\ \A y \in Found : \A x : Above(x, y) => x \in Found
      /\ \A y \in Found : \A u, x : Above(u, y) /\ Above(x, y) /\ num[u] <= num[x] => Above(u, x)
      /\ \A u, x, y : Above(u, x) /\ Above(x, y) => Above(u, y)
      /\ \A x : Above(x, x)
  BY AboveFound, AboveLaws DEF Working
<1>9. \A v, x : Above(v, x)' <=> Above(v, x)
  BY TreeKept DEF Steady
<1>10. w \in Nodes
  BY <1>3, <1>6
<1> HIDE DEF Found, num, Above, Doms, w, d
<1>11. /\ \A v \in Nodes : v # w => dominator'[v] = dominator[v]
       /\ dominator'[w] = IF d = vertex[semi[w]] THEN d ELSE dominator[d]
  BY <1>1, <1>5, <1>10 DEF d
<1>12. \A v \in Found \ {0} : num[v] = i <=> v = w
  <2>1. \A v \in Found : num[v] = i => v = w
    BY <1>3 DEF w
  <2>2. ASSUME w \in Found \ {0} PROVE num[w] = i
    <3>1. ASSUME i >= n PROVE FALSE
      <4>1. w = 0
        BY <3>1, <1>6 DEF w, Working, Finished, Numbering
      <4>2. QED
        BY <4>1, <2>2
    <3>2. i \in 0..(n - 1)
      BY <3>1, <1>3, <1>6
    <3>3. QED
      BY <3>2, <1>3 DEF w
  <2>3. QED
    BY <2>1, <2>2
(* The node at hand.                                                       *)
<1>13. ASSUME w \in Found \ {0}
       PROVE  Above(dominator'[w], w) /\ HighEnough(w, dominator'[w])
  <2>1. num[w] = i /\ SettledWell(w)
    BY <1>6, <1>7, <1>12, <1>13
  <2>2. semi[w] < num[w] /\ Above(vertex[semi[w]], w)
    BY <1>1, <1>13 DEF Working, Semidominators, Dominating, Lowered
  <2>3. semi[w] \in Nat /\ num[vertex[semi[w]]] = semi[w]
    <3>1. semi[w] \in Nat /\ num[w] \in Nat /\ num[w] < n /\ n \in Nat
      BY <1>3, <1>4, <1>13
    <3>2. semi[w] \in 0..(n - 1)
      BY <3>1, <2>2
    <3>3. QED
      BY <3>1, <3>2, <1>3
  <2>4. CASE d = vertex[semi[w]] /\ HighEnough(w, d)
    BY <2>2, <2>4, <1>11
  <2>5. CASE ByLeast(w)
    <3>1. /\ d \in Found \ {0} /\ Above(d, w) /\ semi[w] < num[d] /\ num[d] < num[w]
          /\ \A x \in Found : Above(x, w) /\ semi[w] < num[x] => semi[d] <= semi[x]
      BY <2>5 DEF ByLeast, d
    <3>2. num[d] \in Nat /\ num[d] < i
      BY <3>1, <2>1, <1>3
    <3> DEFINE e == dominator[d]
    <3>3. e \in Found /\ num[e] < num[d] /\ num[e] \in Nat
      BY <3>1, <3>2, <1>3, <1>6 DEF Final
    <3>4. Above(e, d) /\ HighEnough(d, e)
      BY <3>1, <3>2, <1>7 DEF FinalWell
    <3>5. dominator'[w] = e
      <4>1. d # vertex[semi[w]]
        BY <3>1, <3>2, <2>3
      <4>2. QED
        BY <4>1, <1>11
    <3> HIDE DEF e
    <3>6. num[e] <= semi[d] /\ semi[d] \in Nat
      BY <3>1, <3>3, <3>4, <1>3, <1>4, <1>8 DEF HighEnough
    <3>7. ASSUME NEW x \in Found, Above(x, w), num[e] < num[x] PROVE num[e] <= semi[x]
      <4>1. num[x] \in Nat /\ semi[x] \in Nat
        BY <1>3, <1>4
      <4>2. CASE num[x] <= num[d]
        <5>1. Above(x, d)
          BY <4>2, <3>1, <3>7, <1>8, <1>13
        <5>2. QED
          BY <5>1, <3>4, <3>7 DEF HighEnough
      <4>3. CASE num[d] < num[x]
        <5>1. semi[w] < num[x]
          BY <4>1, <4>3, <3>1, <3>2, <2>3
        <5>2. semi[d] <= semi[x]
          BY <5>1, <3>1, <3>7
        <5>3. QED
          BY <5>2, <4>1, <3>3, <3>6
      <4>4. QED
        BY <4>1, <4>2, <4>3, <3>2
    <3>8. HighEnough(w, e)
      BY <3>7 DEF HighEnough
    <3>9. Above(e, w)
      BY <3>1, <3>4, <1>8
    <3>10. QED
      BY <3>5, <3>8, <3>9
  <2>6. QED
    BY <2>1, <2>4, <2>5 DEF SettledWell, d
<1>14. ASSUME NEW u \in Found \ {0}, u = w PROVE FinalWell(u)'
  <2>1. Above(dominator'[u], u) /\ HighEnough(u, dominator'[u])
    BY <1>13, <1>14
  <2>2. Above(dominator[u], u)'
    BY <2>1, <1>9, <1>2 DEF Above, Ancestor, Steady
  <2>3. HighEnough(u, dominator[u])'
    BY <2>1, <1>1, <1>2, <1>9 DEF HighEnough
  <2>4. QED
    BY <2>2, <2>3 DEF FinalWell
<1>15. DominatorsWell'
  <2>1. \A v \in Found \ {0} : v # w => (SettledWell(v) => SettledWell(v)') /\ (FinalWell(v) => FinalWell(v)')
    BY <1>1, <1>3, <1>11, SettledKept
  <2> HIDE DEF SettledWell, FinalWell
  <2>2. \A v \in Found \ {0} : v = w => FinalWell(v)'
    BY <1>14
  <2>3. ASSUME NEW v \in Found \ {0} PROVE IF num[v] < i + 1 THEN FinalWell(v)' ELSE SettledWell(v)'
    <3>1. num[v] \in Nat
      BY <1>3
    <3>2. CASE v = w
      <4>1. num[v] < i + 1
        BY <3>1, <3>2, <1>6, <1>12
      <4>2. QED
        BY <4>1, <3>2, <2>2
    <3>3. CASE v # w
      <4>1. num[v] < i + 1 <=> num[v] < i
        BY <3>1, <3>3, <1>6, <1>12
      <4>2. QED
        BY <4>1, <3>3, <2>1, <1>7
    <3>4. QED
      BY <3>2, <3>3
  <2>4. QED
    BY <2>3, <1>1, <1>2 DEF DominatorsWell, Descending, AtNode
<1>16. SemiLow'
  <2>1. \A e \in Kept : e.dst \in Found
    BY KeptIsFound DEF Working
  <2>2. QED
    BY <2>1, <1>1, SemiLowStays DEF Exactly, Descending, AtNode
<1>17. Compressed'
  BY <1>1 DEF Compressed
<1>18. QED
  BY <1>15, <1>16, <1>17 DEF Exactly

LEMMA FinishExact ==
  ASSUME Working, Exactly, Steady, UNCHANGED dots, L!Finish
  PROVE  Exactly'
<1>1. /\ pc = "explicit" /\ pc' = "done" /\ i = NumNodes /\ calls = << >>
      /\ dominator' = [dominator EXCEPT ![0] = 0]
      /\ UNCHANGED <<i, semi, ancestor, label, bucket, ptr, arg, calls, unwinding>>
  BY DEF L!Finish, L!forest, L!evaluation, Working, Dominating, Climbing
<1>2. Found' = Found /\ num' = num
  BY TreeKept DEF Steady
<1>3. dominator' = dominator
  BY <1>1 DEF Working, Dominating, DominateTypes
<1>4. n \in 1..NumNodes /\ \A v \in Found : num[v] \in Nat /\ num[v] < n
  BY NumberOfNode DEF Working, Finished, Numbering
<1>5. \A v : FinalWell(v) => FinalWell(v)'
  BY <1>1, <1>3, SettledKept
<1> HIDE DEF Found, num
<1>6. \A v \in Found \ {0} : num[v] < i
  BY <1>1, <1>4, NumNodesAssumption
<1>7. DominatorsWell'
  <2> HIDE DEF FinalWell
  <2>1. \A v \in Found \ {0} : FinalWell(v)
    BY <1>1, <1>6 DEF DominatorsWell, Exactly
  <2>2. QED
    BY <2>1, <1>1, <1>2, <1>5 DEF DominatorsWell, Descending, AtNode
<1>8. SemiLow'
  <2>1. \A e \in Kept : e.dst \in Found
    BY KeptIsFound DEF Working
  <2>2. QED
    BY <2>1, <1>1, SemiLowStays DEF Exactly, Descending, AtNode
<1>9. Compressed'
  BY <1>1 DEF Compressed
<1>10. QED
  BY <1>7, <1>8, <1>9 DEF Exactly

(* EVAL, once COMPRESS is done: no node above its argument that has been   *)
(* dealt with is lowered to less than what it returns, except perhaps a    *)
(* child of the root.                                                      *)
LEMMA ResultIsLeast ==
  ASSUME Working, Compressed, calls = << >>, pc \in {"lower", "dominate"}, arg \in Found
  PROVE  \A x \in Found : Above(x, arg) /\ num[x] >= Lowest /\ (x = arg \/ parent[x] # 0) =>
           semi[L!Result] <= semi[x]
<1>1. /\ Found \subseteq Nodes /\ \A v \in Found : num[v] \in Nat /\ num[0] = 0 /\ 0 \in Found
  BY FoundNodes, NumberOfNode DEF Working, Finished
<1>2. \A v \in Nodes : semi[v] \in Nat
  BY NodesAreNaturals DEF Working, Semidominators
<1>3. /\ \A w \in Found : \A u, x : Above(u, w) /\ Above(x, w) /\ num[u] <= num[x] => Above(u, x)
      /\ \A x : \A w \in Nodes \ {0} : Above(x, w) <=> x = w \/ Above(x, parent[w])
      /\ \A x : Above(x, 0) => x = 0
      /\ \A x, w \in Found : Above(x, w) /\ x # w => num[x] < num[w]
  BY AboveFound, AboveLaws DEF Working
<1>4. Lowest \in Nat /\ Lowest > 0 /\ Descending
  <2>1. AtNode /\ Descending
    BY DEF Descending, AtNode
  <2>2. i \in Nat /\ i >= 1
    BY <2>1, AtNodeFacts DEF Working, Dominating
  <2>3. QED
    BY <2>1, <2>2 DEF Lowest
<1>5. L!Result = IF ancestor[arg] = 0 THEN arg ELSE label[arg]
  BY DEF L!Result
<1> DEFINE a == ancestor[arg]
<1>6. ancestor[a] = 0
  BY DEF Compressed
<1>7. a # 0 => /\ a \in Found /\ num[a] < num[arg] /\ Above(a, arg) /\ label[arg] \in Found
               /\ \A x \in Found : Above(x, arg) /\ num[a] < num[x] => semi[label[arg]] <= semi[x]
  <2>1. arg \in Nodes
    BY <1>1
  <2>2. ASSUME a # 0
        PROVE  /\ label[arg] \in Found
               /\ \A x \in Found : Above(x, arg) /\ num[a] < num[x] => semi[label[arg]] <= semi[x]
    BY <2>1, <2>2 DEF Forest, Working, Dominating
  <2>3. a # 0 => a \in Found /\ num[a] < num[arg] /\ Above(a, arg)
    BY <2>1, AncestorSmaller DEF Working, Dominating
  <2>4. QED
    BY <2>2, <2>3
<1>8. \A v \in Found \ {0} : ancestor[v] # 0 <=> (num[v] >= Lowest /\ parent[v] # 0)
  BY <1>4 DEF Linked, Working, Dominating
<1> HIDE DEF Found, num, Above, a, Lowest
<1>9. SUFFICES ASSUME NEW x \in Found, Above(x, arg), num[x] >= Lowest, x = arg \/ parent[x] # 0
               PROVE  semi[L!Result] <= semi[x]
  OBVIOUS
<1>10. x # 0 /\ num[x] \in Nat /\ semi[x] \in Nat
  BY <1>1, <1>2, <1>4, <1>9
<1>11. CASE a = 0
  <2>1. L!Result = arg
    BY <1>5, <1>11 DEF a
  <2>2. CASE x = arg
    BY <2>1, <2>2, <1>10
  <2>3. CASE x # arg
    <3>1. num[x] < num[arg] /\ num[arg] \in Nat /\ arg # 0
      BY <2>3, <1>1, <1>3, <1>9
    <3>2. parent[arg] = 0
      BY <3>1, <1>4, <1>8, <1>9, <1>10, <1>11 DEF a
    <3>3. x = 0
      BY <3>1, <3>2, <2>3, <1>1, <1>3, <1>9
    <3>4. QED
      BY <3>3, <1>10
  <2>4. QED
    BY <2>2, <2>3
<1>12. CASE a # 0
  <2>1. /\ a \in Found /\ num[a] < num[arg] /\ Above(a, arg) /\ num[a] \in Nat
        /\ \A y \in Found : Above(y, arg) /\ num[a] < num[y] => semi[label[arg]] <= semi[y]
    BY <1>1, <1>7, <1>12
  <2>2. L!Result = label[arg]
    BY <1>5, <1>12 DEF a
  <2>3. num[a] < num[x]
    <3>1. CASE num[a] < Lowest
      BY <3>1, <2>1, <1>4, <1>9, <1>10
    <3>2. CASE ~ (num[a] < Lowest)
      <4>1. parent[a] = 0
        BY <3>2, <2>1, <1>4, <1>6, <1>8, <1>12
      <4>2. ASSUME num[x] <= num[a] PROVE FALSE
        <5>1. Above(x, a)
          BY <4>2, <2>1, <1>3, <1>9
        <5>2. x = a
          BY <5>1, <4>1, <2>1, <1>1, <1>3, <1>10, <1>12
        <5>3. x = arg
          BY <5>2, <4>1, <1>9
        <5>4. QED
          BY <5>2, <5>3, <2>1
      <4>3. QED
        BY <4>2, <2>1, <1>10
    <3>3. QED
      BY <3>1, <3>2
  <2>4. QED
    BY <2>1, <2>2, <2>3, <1>9
<1>13. QED
  BY <1>11, <1>12

LEMMA LowerSemiExact ==
  ASSUME Working, Exactly, Steady, UNCHANGED dots, L!LowerSemi
  PROVE  Exactly'
<1> DEFINE w == vertex[i]
           r == L!Result
<1>1. /\ pc = "lower" /\ pc' = "preds" /\ calls = << >> /\ ptr' = ptr + 1
      /\ semi' = IF semi[r] < semi[w] THEN [semi EXCEPT ![w] = semi[r]] ELSE semi
      /\ UNCHANGED <<i, dominator, ancestor, label, bucket, arg, calls, unwinding>>
  BY DEF L!LowerSemi, L!Evaluated, L!Node, L!forest, L!evaluation
<1>2. Found' = Found /\ num' = num /\ links' = links /\ UNCHANGED <<edges, n, vertex, parent, preds>>
  BY TreeKept DEF Steady
<1>3. w \in Found \ {0} /\ w \in Nodes \ {0} /\ num[w] = i /\ i \in 1..(n - 1) /\ i \in Nat /\ n \in Nat
  BY <1>1, AtNodeFacts DEF Working, Dominating, AtNode
<1>4. /\ ptr \in 1..Len(preds) /\ Len(preds) \in Nat /\ preds[ptr].dst = arg /\ arg \in Found
  <2>1. ptr <= Len(preds) /\ preds[ptr].dst = arg
    BY <1>1 DEF Working, Dominating, Scanning
  <2>2. ptr \in 1..Len(preds) /\ Len(preds) \in Nat
    BY <2>1, PredecessorFacts DEF Working, Dominating, DominateTypes
  <2>3. QED
    BY <2>1, <2>2, PredecessorFacts DEF Working
<1>5. /\ Found \subseteq Nodes /\ \A v \in Found : num[v] \in Nat /\ num[v] < n
      /\ \A v \in Found : vertex[num[v]] = v
      /\ \A j \in 0..(n - 1) : vertex[j] \in Found /\ num[vertex[j]] = j
      /\ num[0] = 0 /\ 0 \in Found
  BY FoundNodes, NumberOfNode DEF Working, Finished, Numbering
<1>6. semi \in [Nodes -> Nodes] /\ semi[0] = 0 /\ \A v \in Nodes : semi[v] \in Nat
  BY NodesAreNaturals DEF Working, Semidominators
<1>7. r \in Found /\ (ancestor[arg] = 0 => r = arg)
  BY <1>4, ResultFacts
<1>8. /\ Lowest = i + 1 /\ Lowest' = i + 1 /\ Descending /\ Descending'
  BY <1>1 DEF Lowest, Descending, AtNode
<1>9. \A x \in Found : Above(x, arg) /\ num[x] >= i + 1 /\ (x = arg \/ parent[x] # 0) => semi[r] <= semi[x]
  BY <1>1, <1>4, <1>8, ResultIsLeast DEF Exactly
<1>10. \A v \in Found \ {0} : ancestor[v] # 0 => num[v] >= i + 1
  BY <1>1 DEF Working, Dominating, Linked, Lowest, Descending, AtNode
<1>11. \A j \in 1..(i - 1) : j < n => semi[vertex[j]] = j
  BY <1>1 DEF Working, Dominating, Position, AtNode, Ahead
<1>12. \A v \in Nodes : ancestor[v] # 0 => v \in Found \ {0}
  BY DEF Working, Dominating, Forest
<1>13. \A v, x : Above(v, x)' <=> Above(v, x)
  BY TreeKept DEF Steady
<1>14. Kept' = Kept /\ \A e \in Kept : e.dst \in Found
  BY <1>2, KeptIsFound DEF Kept, Working
<1> HIDE DEF Found, num, Above, Doms, w, r, Kept
<1>15. /\ \A v \in Nodes : v # w => semi'[v] = semi[v]
       /\ semi'[w] <= semi[w] /\ semi'[w] <= semi[r] /\ semi'[w] \in Nat
  BY <1>1, <1>3, <1>5, <1>6, <1>7
(* Nodes with larger numbers than w are not touched.                       *)
<1>16. \A x \in Found : num[x] > i => semi'[x] = semi[x] /\ x # w
  BY <1>3, <1>5, <1>15
<1>17. ASSUME NEW v, NEW u \in Found, num[u] >= i + 1, LowEnough(v, u) PROVE LowEnough(v, u)'
  <2>1. num[u] > i /\ semi'[u] = semi[u]
    BY <1>3, <1>5, <1>16, <1>17
  <2>2. num[v] < num[u] => semi'[u] <= num[v]
    BY <2>1, <1>17 DEF LowEnough
  <2>3. ASSUME NEW x \in Found, Above(x, v), num[u] < num[x], x = v \/ parent[x] # 0
        PROVE  semi'[u] <= semi'[x]
    <3>1. semi[u] <= semi[x]
      BY <2>3, <1>17 DEF LowEnough
    <3>2. num[x] > i
      BY <2>1, <2>3, <1>3, <1>5
    <3>3. QED
      BY <3>1, <3>2, <2>1, <1>16
  <2>4. QED
    BY <2>2, <2>3, <1>2, <1>13 DEF LowEnough
(* The predecessors that had been seen, and the one at hand.               *)
<1>18. ASSUME NEW v \in Found, LowEnough(v, w)
       PROVE  /\ num[v] < num[w] => semi'[w] <= num[v]
              /\ \A x \in Found : Above(x, v) /\ num[w] < num[x] /\ (x = v \/ parent[x] # 0) =>
                   semi'[w] <= semi'[x]
  <2>1. semi[w] \in Nat /\ num[v] \in Nat
    BY <1>3, <1>5, <1>6
  <2>2. ASSUME num[v] < num[w] PROVE semi'[w] <= num[v]
    <3>1. semi[w] <= num[v]
      BY <2>2, <1>18 DEF LowEnough
    <3>2. QED
      BY <3>1, <2>1, <1>15
  <2>3. ASSUME NEW x \in Found, Above(x, v), num[w] < num[x], x = v \/ parent[x] # 0
        PROVE  semi'[w] <= semi'[x]
    <3>1. semi[w] <= semi[x] /\ semi[x] \in Nat
      BY <2>3, <1>5, <1>6, <1>18 DEF LowEnough
    <3>2. semi'[x] = semi[x]
      BY <2>3, <1>3, <1>5, <1>16
    <3>3. QED
      BY <3>1, <3>2, <2>1, <1>15
  <2>4. QED
    BY <2>2, <2>3
<1>19. /\ num[arg] < num[w] => semi'[w] <= num[arg]
       /\ \A x \in Found : Above(x, arg) /\ num[w] < num[x] /\ (x = arg \/ parent[x] # 0) =>
            semi'[w] <= semi'[x]
  <2>1. ASSUME num[arg] < num[w] PROVE semi'[w] <= num[arg]
    <3>1. num[arg] \in Nat /\ num[arg] < i
      BY <2>1, <1>3, <1>4, <1>5
    <3>2. ancestor[arg] = 0
      BY <3>1, <1>3, <1>4, <1>5, <1>10, <1>12
    <3>3. semi[arg] = num[arg]
      <4>1. CASE num[arg] = 0
        BY <4>1, <1>4, <1>5, <1>6
      <4>2. CASE num[arg] # 0
        <5>1. num[arg] \in 1..(i - 1) /\ num[arg] < n
          BY <4>2, <3>1, <1>3, <1>4, <1>5
        <5>2. QED
          BY <5>1, <1>4, <1>5, <1>11
      <4>3. QED
        BY <4>1, <4>2
    <3>4. QED
      BY <3>2, <3>3, <1>7, <1>15
  <2>2. ASSUME NEW x \in Found, Above(x, arg), num[w] < num[x], x = arg \/ parent[x] # 0
        PROVE  semi'[w] <= semi'[x]
    <3>1. num[x] >= i + 1 /\ num[x] > i
      BY <2>2, <1>3, <1>5
    <3>2. semi[r] <= semi[x] /\ semi'[x] = semi[x]
      BY <3>1, <2>2, <1>9, <1>16
    <3>3. semi[r] \in Nat /\ semi[x] \in Nat
      BY <1>5, <1>6, <1>7
    <3>4. QED
      BY <3>2, <3>3, <1>15
  <2>3. QED
    BY <2>1, <2>2
<1>20. SemiLow'
  <2>1. ASSUME NEW e \in Kept, e.dst # 0, num[e.dst] >= i + 1 PROVE LoweredBy(e)'
    <3>1. LoweredBy(e)
      BY <2>1, <1>8 DEF SemiLow, Exactly
    <3>2. QED
      BY <3>1, <2>1, <1>14, <1>17 DEF LoweredBy
  <2>2. ASSUME NEW k \in 1..Len(preds), k < ptr + 1, preds[k].src = w, NEW v, v = preds[k].dst
        PROVE  /\ num[v] < num[w] => semi'[w] <= num[v]
               /\ \A x \in Found : Above(x, v) /\ num[w] < num[x] /\ (x = v \/ parent[x] # 0) =>
                    semi'[w] <= semi'[x]
    <3>1. v \in Found
      BY <2>2, PredecessorFacts DEF Working
    <3>2. CASE k = ptr
      BY <2>2, <3>2, <1>4, <1>19
    <3>3. CASE k # ptr
      <4>1. k < ptr
        BY <3>3, <2>2, <1>4
      <4>2. LowEnough(v, w)
        BY <4>1, <2>2, <1>1 DEF SemiLow, Exactly, w
      <4>3. QED
        BY <4>2, <3>1, <1>18
    <3>4. QED
      BY <3>2, <3>3
  <2>3. pc' = "preds" /\ pc' \notin {"explicit", "done"} /\ ptr' = ptr + 1 /\ vertex'[i'] = w
    BY <1>1, <1>2 DEF w
  <2>4. ASSUME NEW k \in 1..Len(preds), k < ptr', preds[k].src = vertex'[i']
        PROVE  LowEnough(preds[k].dst, vertex[i])'
    <3> DEFINE v == preds[k].dst
    <3>1. /\ num[v] < num[w] => semi'[w] <= num[v]
          /\ \A x \in Found : Above(x, v) /\ num[w] < num[x] /\ (x = v \/ parent[x] # 0) =>
               semi'[w] <= semi'[x]
      BY <2>2, <2>3, <2>4
    <3>2. preds'[k].dst = v
      BY <1>2
    <3> HIDE DEF v
    <3>3. \A u : u = v => LowEnough(u, vertex[i])'
      BY <3>1, <2>3, <1>2, <1>13 DEF LowEnough
    <3>4. QED
      BY <3>2, <3>3 DEF LowEnough
  <2> HIDE DEF LowEnough, LoweredBy
  <2>5. QED
    BY <2>1, <2>3, <2>4, <1>2, <1>8, <1>14 DEF SemiLow
(* What has been settled looks at nodes with larger numbers only.          *)
<1>21. ASSUME NEW v \in Found \ {0}, num[v] >= i + 1, SettledWell(v), AllLinked(v)
       PROVE  SettledWell(v)' /\ AllLinked(v)'
  <2>1. semi'[v] = semi[v] /\ semi[v] \in Nat
    BY <1>3, <1>5, <1>6, <1>16, <1>21
  <2>2. \A x \in Found : Above(x, v) /\ semi[v] < num[x] => num[x] >= i + 1 /\ semi'[x] = semi[x]
    <3>1. \A x \in Found : num[x] >= i + 1 => num[x] > i
      BY <1>3, <1>5
    <3>2. \A x \in Found : Above(x, v) /\ semi[v] < num[x] => num[x] >= i + 1
      BY <1>8, <1>21 DEF AllLinked
    <3>3. QED
      BY <3>1, <3>2, <1>16
  <2>3. num[vertex[semi[v]]] = semi[v]
    <3>1. semi[v] <= num[v] /\ num[v] < n /\ num[v] \in Nat
      BY <1>5, <1>21 DEF Semidominators, Working
    <3>2. semi[v] \in 0..(n - 1)
      BY <3>1, <2>1, <1>3
    <3>3. QED
      BY <3>2, <1>5
  <2>4. AllLinked(v)'
    BY <2>1, <2>2, <1>2, <1>8, <1>13 DEF AllLinked
  <2>5. CASE dominator[v] = vertex[semi[v]] /\ HighEnough(v, dominator[v])
    <3>1. \A x \in Found : Above(x, v) /\ semi[v] < num[x] => semi[v] <= semi'[x]
      BY <2>2, <2>3, <2>5 DEF HighEnough
    <3>2. dominator'[v] = vertex'[semi'[v]] /\ num[dominator'[v]] = semi[v]
      BY <2>1, <2>3, <2>5, <1>1, <1>2
    <3>3. HighEnough(v, dominator[v])'
      BY <3>1, <3>2, <1>2, <1>13 DEF HighEnough
    <3>4. QED
      BY <3>2, <3>3, <2>4 DEF SettledWell
  <2>6. CASE ByLeast(v)
    <3>1. /\ dominator[v] \in Found \ {0} /\ Above(dominator[v], v)
          /\ semi[v] < num[dominator[v]] /\ num[dominator[v]] < num[v]
          /\ \A x \in Found : Above(x, v) /\ semi[v] < num[x] => semi[dominator[v]] <= semi[x]
      BY <2>6 DEF ByLeast
    <3>2. semi'[dominator[v]] = semi[dominator[v]]
      BY <3>1, <2>2
    <3>3. \A x \in Found : Above(x, v) /\ semi[v] < num[x] => semi'[dominator[v]] <= semi'[x]
      BY <3>1, <3>2, <2>2
    <3>4. dominator' = dominator
      BY <1>1
    <3>5. Above(dominator[v], v)'
      BY <3>1, <3>4, <1>2, <1>13 DEF Above, Ancestor
    <3>6. ByLeast(v)'
      BY <3>1, <3>3, <3>4, <3>5, <2>1, <1>2, <1>13 DEF ByLeast
    <3>7. QED
      BY <3>6, <2>4 DEF SettledWell
  <2>7. QED
    BY <2>5, <2>6, <1>21 DEF SettledWell
<1>22. DominatorsWell'
  <2>1. \A p, v : InBucket(v, p)' <=> InBucket(v, p)
    BY <1>1 DEF InBucket
  <2> HIDE DEF InBucket, SettledWell, AllLinked
  <2>2. \A v \in Found \ {0} : num[v] >= i + 1 =>
          (\E p \in Nodes : InBucket(v, p)) \/ (SettledWell(v) /\ AllLinked(v))
    BY <1>1, <1>8 DEF DominatorsWell, Exactly
  <2>3. \A v \in Found \ {0} : num[v] >= i + 1 =>
          (\E p \in Nodes : InBucket(v, p)') \/ (SettledWell(v)' /\ AllLinked(v)')
    BY <2>1, <2>2, <1>21
  <2>4. QED
    BY <2>3, <1>1, <1>2, <1>8 DEF DominatorsWell
<1>23. Compressed'
  BY <1>1 DEF Compressed
<1>24. QED
  BY <1>20, <1>22, <1>23 DEF Exactly

LEMMA FinishNodeExact ==
  ASSUME Working, Exactly, Steady, UNCHANGED dots, L!FinishNode
  PROVE  Exactly'
<1> DEFINE w == vertex[i]
           p0 == vertex[semi[w]]
<1>1. /\ pc = "preds" /\ pc' = "drain" /\ ~ (ptr <= Len(preds) /\ preds[ptr].src = w) /\ calls = << >>
      /\ bucket' = [bucket EXCEPT ![p0] = Append(@, w)]
      /\ UNCHANGED <<i, semi, dominator, label, ptr, arg, calls, unwinding>>
  BY DEF L!FinishNode, L!AtPred, L!Node, L!Semidominator, L!evaluation, Working, Dominating, Climbing
<1>2. Found' = Found /\ num' = num
  BY TreeKept DEF Steady
<1>3. w \in Found \ {0} /\ w \in Nodes \ {0} /\ num[w] = i /\ i \in 1..(n - 1) /\ i \in Nat
  BY <1>1, AtNodeFacts DEF Working, Dominating, AtNode
<1>4. /\ Found \subseteq Nodes /\ \A v \in Found : num[v] \in Nat
      /\ \A v, x \in Found : num[v] = num[x] => v = x
      /\ vertex \in [Nodes -> Nodes]
  BY FoundNodes, NumberOfNode DEF Working, Finished, Numbering
<1>5. semi \in [Nodes -> Nodes] /\ bucket \in [Nodes -> Seq(Nodes)]
  BY DEF Working, Semidominators, Dominating, DominateTypes
<1>6. Lowest' = i /\ Lowest = i + 1 /\ Descending /\ Descending'
  BY <1>1 DEF Lowest, Descending, AtNode
<1> HIDE DEF Found, num, Above, Doms, w
<1>7. p0 \in Nodes
  BY <1>3, <1>4, <1>5
<1> HIDE DEF p0
<1>8. \A v \in Found : num[v] >= i => v = w \/ num[v] >= i + 1
  BY <1>3, <1>4
(* All predecessors of the node have been seen.                            *)
<1>9. \A k \in 1..Len(preds) : preds[k].src = w => k < ptr
  <2>1. SUFFICES ASSUME NEW k \in 1..Len(preds), preds[k].src = w, ~ (k < ptr) PROVE FALSE
    OBVIOUS
  <2>2. ptr \in Nat /\ Len(preds) \in Nat /\ ptr >= 1
    BY PredecessorFacts DEF Working, Dominating, DominateTypes
  <2>3. ptr \in 1..Len(preds)
    BY <2>1, <2>2
  <2>4. preds[ptr].src # w
    BY <1>1, <2>3
  <2>5. ~ (preds[ptr].src < w)
    BY <1>1, <2>3, <2>2 DEF Scanning, Working, Dominating, w
  <2>6. ptr < k
    BY <2>1, <2>3, <2>4
  <2>7. preds[ptr].src <= w /\ preds[ptr].src \in Nat /\ w \in Nat
    BY <2>1, <2>3, <2>6, <1>3, PredecessorFacts, NodesAreNaturals DEF Working
  <2>8. QED
    BY <2>4, <2>5, <2>7
<1>10. \A e \in Kept : e.dst = w => LoweredBy(e)
  <2>1. SUFFICES ASSUME NEW e \in Kept, e.dst = w PROVE LowEnough(e.src, w)
    BY DEF LoweredBy
  <2>2. e \in links /\ e.src \in Found
    BY DEF Kept
  <2>3. PICK k \in 1..Len(preds) : preds[k] = [src |-> e.dst, dst |-> e.src]
    BY <2>2, PredecessorFacts DEF Working
  <2>4. preds[k].src = w /\ preds[k].dst = e.src
    BY <2>1, <2>3
  <2>5. k < ptr
    BY <2>4, <1>9
  <2>6. QED
    BY <2>4, <2>5, <1>1 DEF SemiLow, Exactly, w
<1>11. SemiLow'
  <2>1. \A e \in Kept : e.dst \in Found
    BY KeptIsFound DEF Working
  <2>2. \A v \in Found \ {0} : num[v] >= Lowest' =>
           (Descending /\ num[v] >= Lowest) \/ \A e \in Kept : e.dst = v => LoweredBy(e)
    BY <1>6, <1>8, <1>10
  <2>3. QED
    BY <2>1, <2>2, <1>1, SemiLowStays DEF Exactly
<1>12. /\ \A p \in Nodes : p # p0 => bucket'[p] = bucket[p]
       /\ bucket'[p0] = Append(bucket[p0], w) /\ bucket[p0] \in Seq(Nodes)
  BY <1>1, <1>5, <1>7
<1>13. /\ \A p \in Nodes : \A v : v = w /\ p = p0 => InBucket(v, p)'
       /\ \A p \in Nodes : \A v : InBucket(v, p) => InBucket(v, p)'
  <2> DEFINE last == Len(bucket[p0]) + 1
  <2>1. /\ Len(bucket'[p0]) = last /\ bucket'[p0][last] = w
        /\ \A k \in 1..Len(bucket[p0]) : bucket'[p0][k] = bucket[p0][k]
    BY <1>12, <1>3, AppendProperties
  <2>2. Len(bucket[p0]) \in Nat
    BY <1>12, LenProperties
  <2>3. last \in 1..last /\ \A k \in 1..Len(bucket[p0]) : k \in 1..last
    BY <2>2
  <2> HIDE DEF last
  <2>4. \E k \in 1..Len(bucket'[p0]) : bucket'[p0][k] = w
    BY <2>1, <2>3
  <2>5. ASSUME NEW p \in Nodes, NEW v, InBucket(v, p) PROVE InBucket(v, p)'
    <3>1. CASE p = p0
      BY <3>1, <2>1, <2>3, <2>5 DEF InBucket
    <3>2. CASE p # p0
      BY <3>2, <2>5, <1>12 DEF InBucket
    <3>3. QED
      BY <3>1, <3>2
  <2>6. QED
    BY <2>4, <2>5 DEF InBucket
<1>14. \A v : SettledWell(v) => SettledWell(v)'
  BY <1>1, SettledKept
<1>15. \A v : AllLinked(v) => AllLinked(v)'
  <2>1. \A x \in Found : num[x] >= Lowest => num[x] >= Lowest'
    BY <1>3, <1>4, <1>6
  <2>2. QED
    BY <2>1, <1>1, AllLinkedKept
<1>16. DominatorsWell'
  <2> HIDE DEF InBucket, SettledWell, AllLinked
  <2>1. \A v \in Found \ {0} : num[v] >= i + 1 =>
          (\E p \in Nodes : InBucket(v, p)) \/ (SettledWell(v) /\ AllLinked(v))
    BY <1>1, <1>6 DEF DominatorsWell, Exactly
  <2>2. \A v \in Found \ {0} : num[v] >= i =>
          (\E p \in Nodes : InBucket(v, p)') \/ (SettledWell(v)' /\ AllLinked(v)')
    <3>1. \A v : v = w => \E p \in Nodes : InBucket(v, p)'
      BY <1>7, <1>13
    <3>2. QED
      BY <2>1, <3>1, <1>8, <1>13, <1>14, <1>15
  <2>3. QED
    BY <2>2, <1>1, <1>2, <1>6 DEF DominatorsWell
<1>17. Compressed'
  BY <1>1 DEF Compressed
<1>18. QED
  BY <1>11, <1>16, <1>17 DEF Exactly

LEMMA SetDominatorExact ==
  ASSUME Working, Exactly, Steady, UNCHANGED dots, L!SetDominator
  PROVE  Exactly'
<1> DEFINE w == vertex[i]
           q == parent[w]
           r == L!Result
<1>1. /\ pc = "dominate" /\ pc' = "drain" /\ calls = << >>
      /\ dominator' = [dominator EXCEPT ![arg] = IF semi[r] < semi[arg] THEN r ELSE q]
      /\ UNCHANGED <<i, semi, ancestor, label, bucket, ptr, arg, calls, unwinding>>
  BY DEF L!SetDominator, L!Evaluated, L!Node, L!DominatorOf, L!forest, L!evaluation
<1>2. Found' = Found /\ num' = num
  BY TreeKept DEF Steady
<1>3. /\ w \in Found \ {0} /\ w \in Nodes \ {0} /\ num[w] = i /\ i \in 1..(n - 1) /\ i \in Nat /\ n \in Nat
      /\ q \in Found /\ q \in Nodes /\ num[q] \in Nat /\ num[q] < i
  BY <1>1, AtNodeFacts DEF Working, Dominating, AtNode
<1>4. arg \in Found \ {0} /\ num[arg] >= i /\ vertex[semi[arg]] = q
  BY <1>1 DEF Working, Dominating, Buckets
<1>5. r \in Found /\ Above(r, arg) /\ (r = arg \/ ancestor[r] # 0)
  BY <1>4, ResultFacts
<1>6. /\ Found \subseteq Nodes /\ \A v \in Found : num[v] \in Nat /\ num[v] < n
      /\ \A j \in 0..(n - 1) : num[vertex[j]] = j
      /\ num[0] = 0
      /\ \A v, x \in Found : num[v] = num[x] => v = x
  BY FoundNodes, NumberOfNode DEF Working, Finished, Numbering
<1>7. semi \in [Nodes -> Nodes] /\ \A v \in Nodes : semi[v] \in Nat
  BY NodesAreNaturals DEF Working, Semidominators
<1>8. /\ \A v, x \in Found : Above(v, x) /\ v # x => num[v] < num[x]
      /\ \A y \in Found : \A u, x : Above(u, y) /\ Above(x, y) /\ num[u] <= num[x] => Above(u, x)
      /\ \A x : \A y \in Nodes \ {0} : Above(x, y) <=> x = y \/ Above(x, parent[y])
      /\ \A x : Above(x, 0) => x = 0
      /\ \A x, y \in Found : Above(x, y) => num[x] <= num[y]
  BY AboveFound, AboveLaws DEF Working
<1>9. \A t, y \in Found : Above(t, y) =>
        \A x \in Found : num[t] <= num[x] /\ num[x] <= num[y] => Above(t, x)
  BY DEF Working, Finished, Tree
<1>10. dominator \in [Nodes -> Nodes]
  BY DEF Working, Dominating, DominateTypes
<1>11. Lowest' = i /\ Lowest = i /\ Descending /\ Descending'
  BY <1>1 DEF Lowest, Descending, AtNode
<1>12. \A x \in Found : Above(x, arg) /\ num[x] >= i /\ (x = arg \/ parent[x] # 0) => semi[r] <= semi[x]
  BY <1>1, <1>4, <1>11, ResultIsLeast DEF Exactly
<1>13. \A v, x : Above(v, x)' <=> Above(v, x)
  BY TreeKept DEF Steady
<1>14. Above(q, arg)
  BY <1>4 DEF Working, Semidominators
<1>15. UNCHANGED <<vertex, parent>>
  BY DEF Steady
<1> HIDE DEF Found, num, Above, Doms, w, q, r
<1>16. q = parent[w]
  BY DEF q
<1>17. /\ dominator'[arg] = IF semi[r] < semi[arg] THEN r ELSE q
       /\ \A v \in Nodes : v # arg => dominator'[v] = dominator[v]
  BY <1>1, <1>4, <1>6, <1>10
<1>18. semi[arg] = num[q] /\ semi[arg] \in Nat
  <2>1. semi[arg] <= num[arg]
    BY <1>4 DEF Working, Semidominators
  <2>2. semi[arg] \in 0..(n - 1)
    BY <2>1, <1>3, <1>4, <1>6, <1>7
  <2>3. QED
    BY <2>2, <1>4, <1>6
(* The nodes between the parent and the argument have been dealt with: a   *)
(* node with a smaller number would be above the parent.                   *)
<1>19. ASSUME NEW x \in Found, Above(x, arg), num[q] < num[x] PROVE num[x] >= i
  <2>1. SUFFICES ASSUME ~ (num[x] >= i) PROVE FALSE
    OBVIOUS
  <2>2. num[x] \in Nat /\ num[x] < i /\ num[x] <= num[w] /\ num[w] <= num[arg]
    BY <2>1, <1>3, <1>4, <1>6
  <2>3. Above(x, w) /\ x # w
    BY <2>2, <1>3, <1>4, <1>9, <1>19
  <2>4. Above(x, q)
    BY <2>3, <1>3, <1>8, <1>16
  <2>5. num[x] <= num[q]
    BY <2>4, <1>3, <1>8
  <2>6. QED
    BY <2>2, <2>5, <1>3, <1>19
<1>20. ASSUME NEW x \in Found, Above(x, arg), num[q] < num[x], q # 0 PROVE semi[r] <= semi[x]
  <2>1. num[x] >= i
    BY <1>19, <1>20
  <2>2. parent[x] # 0
    <3>1. SUFFICES ASSUME parent[x] = 0 PROVE FALSE
      OBVIOUS
    <3>2. num[x] \in Nat /\ x \in Nodes \ {0} /\ x # q
      BY <1>3, <1>6, <1>20
    <3>3. Above(q, x)
      BY <3>2, <1>3, <1>4, <1>8, <1>14, <1>20
    <3>4. Above(q, 0)
      BY <3>1, <3>2, <3>3, <1>8
    <3>5. QED
      BY <3>4, <1>8, <1>20
  <2>3. QED
    BY <2>1, <2>2, <1>12, <1>20
<1>21. ASSUME NEW v, v = arg PROVE AllLinked(v)'
  BY <1>1, <1>2, <1>11, <1>13, <1>18, <1>19, <1>21 DEF AllLinked
<1>22. ASSUME NEW v, v = arg PROVE SettledWell(v)'
  <2>1. CASE semi[r] < semi[arg]
    <3>1. semi[r] \in Nat /\ num[q] > 0 /\ q # 0
      BY <2>1, <1>5, <1>6, <1>7, <1>18
    <3>2. r # arg /\ ancestor[r] # 0
      BY <2>1, <3>1, <1>5, <1>18
    <3>3. r # 0
      BY <3>2, <1>5, <1>6 DEF Forest, Working, Dominating
    <3>4. num[r] >= i
      BY <3>2, <3>3, <1>5, <1>11 DEF Linked, Working, Dominating
    <3>5. semi[arg] < num[r] /\ num[r] < num[arg]
      BY <3>2, <3>4, <1>3, <1>4, <1>5, <1>6, <1>8, <1>18
    <3>6. \A x \in Found : Above(x, arg) /\ semi[arg] < num[x] => semi[r] <= semi[x]
      BY <3>1, <1>18, <1>20
    <3>7. dominator'[v] = r
      BY <2>1, <1>17, <1>22
    <3>8. Above(dominator[v], v)'
      BY <3>7, <1>2, <1>5, <1>13, <1>15, <1>22 DEF Above, Ancestor
    <3>9. ByLeast(v)'
      BY <3>3, <3>5, <3>6, <3>7, <3>8, <1>1, <1>2, <1>5, <1>13, <1>22 DEF ByLeast
    <3>10. QED
      BY <3>9 DEF SettledWell
  <2>2. CASE ~ (semi[r] < semi[arg])
    <3>1. dominator'[v] = q
      BY <2>2, <1>17, <1>22
    <3>2. ASSUME NEW x \in Found, Above(x, v), num[q] < num[x] PROVE num[q] <= semi[x]
      <4>1. semi[x] \in Nat /\ semi[r] \in Nat
        BY <1>5, <1>6, <1>7
      <4>2. CASE q = 0
        BY <4>1, <4>2, <1>6
      <4>3. CASE q # 0
        BY <4>1, <4>3, <3>2, <2>2, <1>18, <1>20, <1>22
      <4>4. QED
        BY <4>2, <4>3
    <3>3. HighEnough(v, dominator[v])'
      BY <3>1, <3>2, <1>1, <1>2, <1>13 DEF HighEnough
    <3>4. dominator'[v] = vertex'[semi'[v]]
      BY <3>1, <1>1, <1>4, <1>15, <1>22
    <3>5. QED
      BY <3>3, <3>4 DEF SettledWell
  <2>3. QED
    BY <2>1, <2>2
<1>23. \A v \in Nodes : v # arg => (SettledWell(v) => SettledWell(v)')
  BY <1>1, <1>17, SettledKept
<1>24. \A v : AllLinked(v) => AllLinked(v)'
  BY <1>1, <1>11, AllLinkedKept
<1>25. \A p, v : InBucket(v, p)' <=> InBucket(v, p)
  BY <1>1 DEF InBucket
<1>26. DominatorsWell'
  <2> HIDE DEF InBucket, SettledWell, AllLinked
  <2>1. \A v \in Found \ {0} : num[v] >= i =>
          (\E p \in Nodes : InBucket(v, p)) \/ v = arg \/ (SettledWell(v) /\ AllLinked(v))
    BY <1>1, <1>11 DEF DominatorsWell, Exactly
  <2>2. \A v \in Found \ {0} : num[v] >= i =>
          (\E p \in Nodes : InBucket(v, p)') \/ (SettledWell(v)' /\ AllLinked(v)')
    BY <2>1, <1>6, <1>21, <1>22, <1>23, <1>24, <1>25
  <2>3. QED
    BY <2>2, <1>1, <1>2, <1>11 DEF DominatorsWell
<1>27. SemiLow'
  <2>1. \A e \in Kept : e.dst \in Found
    BY KeptIsFound DEF Working
  <2>2. QED
    BY <2>1, <1>1, <1>11, SemiLowStays DEF Exactly
<1>28. Compressed'
  BY <1>1 DEF Compressed
<1>29. QED
  BY <1>26, <1>27, <1>28 DEF Exactly

(* A run of dominate begins.                                               *)
LEMMA LoadExact ==
  ASSUME L!Load, pc' = "start"
  PROVE  Exactly'
<1>1. calls' = << >> /\ pc' = "start"
  BY DEF L!Load
<1>2. QED
  BY <1>1 DEF Exactly, SemiLow, Compressed, DominatorsWell, Descending, AtNode

LEMMA ExactStutters ==
  ASSUME Finished, Exactly,
         UNCHANGED <<edges, n, semi, vertex, parent, preds, dominator, ancestor, bucket>>,
         UNCHANGED <<i, ptr, arg, calls, unwinding, pc>>
  PROVE  Exactly'
<1>1. Steady /\ Found' = Found /\ num' = num
  BY TreeKept DEF Steady
<1>2. Lowest' = Lowest /\ (Descending' <=> Descending)
  BY DEF Lowest, Descending, AtNode
<1> HIDE DEF Found, num, Descending, Lowest
<1>3. SemiLow'
  <2>1. \A e \in Kept : e.dst \in Found
    BY KeptIsFound
  <2>2. QED
    BY <2>1, <1>1, <1>2, SemiLowStays DEF Exactly
<1>4. \A v : (SettledWell(v)' <=> SettledWell(v)) /\ (FinalWell(v)' <=> FinalWell(v))
  BY <1>1, SettledKept
<1>5. \A v : AllLinked(v) => AllLinked(v)'
  BY <1>1, <1>2, AllLinkedKept
<1>6. \A p, v : InBucket(v, p)' <=> InBucket(v, p)
  BY DEF InBucket
<1>7. DominatorsWell'
  <2> HIDE DEF SettledWell, FinalWell, AllLinked, InBucket
  <2>1. QED
    BY <1>1, <1>2, <1>4, <1>5, <1>6 DEF DominatorsWell, Exactly
<1>8. Compressed'
  BY DEF Compressed, Exactly
<1>9. QED
  BY <1>3, <1>7, <1>8 DEF Exactly

LEMMA DominateExact ==
  ASSUME Working, Exactly, RunDominate
  PROVE  Exactly'
<1>1. Steady /\ UNCHANGED dots
  BY DEF RunDominate, L!Next, L!MapFails, L!Begin, L!CompressAncestor, L!CompressBelowRoot,
         L!CompressUnwind, L!DivideByZero, L!SkipUnreached, L!AssertionFails, L!StartNode,
         L!EvalPred, L!LowerSemi, L!FinishNode, L!EvalWaiting, L!SetDominator, L!NextNode,
         L!BeginStep4, L!MakeExplicit, L!Finish, L!inputs, Steady, dfsOnly
<1>2. CASE L!MapFails \/ L!DivideByZero \/ L!AssertionFails
  BY <1>1, <1>2, StopExact
<1>3. CASE L!Begin
  BY <1>1, <1>3, BeginExact
<1>4. CASE L!CompressAncestor
  BY <1>1, <1>4, CompressAncestorExact
<1>5. CASE L!CompressBelowRoot
  BY <1>1, <1>5, CompressBelowRootExact
<1>6. CASE L!CompressUnwind
  BY <1>1, <1>6, CompressUnwindExact
<1>7. CASE L!SkipUnreached
  BY <1>1, <1>7, SkipUnreachedExact
<1>8. CASE L!StartNode
  BY <1>1, <1>8, StartNodeExact
<1>9. CASE L!EvalPred
  BY <1>1, <1>9, EvalPredExact
<1>10. CASE L!LowerSemi
  BY <1>1, <1>10, LowerSemiExact
<1>11. CASE L!FinishNode
  BY <1>1, <1>11, FinishNodeExact
<1>12. CASE L!EvalWaiting
  BY <1>1, <1>12, EvalWaitingExact
<1>13. CASE L!SetDominator
  BY <1>1, <1>13, SetDominatorExact
<1>14. CASE L!NextNode
  BY <1>1, <1>14, NextNodeExact
<1>15. CASE L!BeginStep4
  BY <1>1, <1>15, BeginStep4Exact
<1>16. CASE L!MakeExplicit
  BY <1>1, <1>16, MakeExplicitExact
<1>17. CASE L!Finish
  BY <1>1, <1>17, FinishExact
<1>18. QED
  BY <1>2, <1>3, <1>4, <1>5, <1>6, <1>7, <1>8, <1>9, <1>10, <1>11, <1>12, <1>13, <1>14, <1>15,
     <1>16, <1>17 DEF RunDominate, L!Next

(* What holds besides while dominate runs.                                 *)
ExactWhileRunning == program = "dominate" => Exactly

LEMMA ExactStep ==
  ASSUME Analysing, ExactWhileRunning, [AnalysisNext]_vars
  PROVE  ExactWhileRunning'
<1> SUFFICES ASSUME program' = "dominate" PROVE Exactly'
  BY DEF ExactWhileRunning
<1>1. CASE StartDominate \/ RerunDominate
  <2>1. L!Load /\ pc' = "start"
    BY <1>1 DEF StartDominate, RerunDominate, Rerun
  <2>2. QED
    BY <2>1, LoadExact
<1>2. CASE RunDominate
  <2>1. program = "dominate" /\ "dominate" # "dfs"
    BY <1>2 DEF RunDominate
  <2>2. Working /\ Exactly
    BY <2>1 DEF Working, Analysing, ExactWhileRunning
  <2>3. QED
    BY <2>2, <1>2, DominateExact
<1>3. CASE RunDfs \/ StartRetain \/ RunRetain \/ RerunDfs \/ RerunRetain
  <2>1. program' \in {"dfs", "retain"}
    BY <1>3 DEF RunDfs, StartRetain, RunRetain, RerunDfs, RerunRetain, Rerun
  <2>2. QED
    BY <2>1
<1>4. CASE UNCHANGED vars
  <2>1. /\ UNCHANGED <<program, pc, edges, n, semi, vertex, parent>>
        /\ UNCHANGED <<preds, ancestor, bucket, ptr, arg, calls, unwinding, dominator, i>>
    BY <1>4 DEF vars, dfsOnly, dominateOnly
  <2>2. program = "dominate" /\ "dominate" # "dfs"
    BY <2>1
  <2>3. Finished /\ Exactly
    BY <2>2 DEF Analysing, ExactWhileRunning
  <2>4. QED
    BY <2>1, <2>3, ExactStutters
<1>5. QED
  BY <1>1, <1>2, <1>3, <1>4 DEF AnalysisNext

(* dominate ends with the immediate dominator of each node, except where   *)
(* that is the root and links cross between subtrees of the root: what     *)
(* ancestor's 0 stands for costs nothing else (dominate.cc:36, 46).        *)
THEOREM DominatorsExact == AnalysisSpec => []ExactUnlessSubtreesCross
<1>1. AnalysisInit => ExactWhileRunning
  BY DEF AnalysisInit, ExactWhileRunning
<1>2. Analysing /\ ExactWhileRunning /\ [AnalysisNext]_vars => ExactWhileRunning'
  BY ExactStep
<1>3. Analysing /\ ExactWhileRunning => ExactUnlessSubtreesCross
  <2> SUFFICES ASSUME Analysing, ExactWhileRunning, DominateDone, NEW w \in Reached \ {0}
               PROVE  \/ IsImmediateDominator(dominator[w], w, Nodes, links)
                      \/ StrictDominators(w, Nodes, links) = {0} /\ \E e \in links : Crosses(e)
    BY DEF ExactUnlessSubtreesCross
  <2>1. program = "dominate" /\ "dominate" # "dfs" /\ pc = "done"
    BY DEF DominateDone
  <2>2. Finished /\ Semidominators /\ Dominating /\ Exactly
    BY <2>1 DEF Analysing, ExactWhileRunning
  <2>3. Found = Reached
    BY <2>2 DEF Finished, Tree
  <2>4. AllLow
    BY <2>1, <2>2 DEF Exactly, SemiLow, AllLow
  <2> HIDE DEF Found
  <2>5. Final(w) /\ FinalWell(w)
    BY <2>1, <2>2, <2>3 DEF Dominating, Explicitly, AllFinal, Exactly, DominatorsWell
  <2>6. \/ IsImmediateDominator(dominator[w], w, Nodes, links)
        \/ Doms(w) = {0} /\ \E e \in links : Crosses(e)
    BY <2>2, <2>3, <2>4, <2>5, ComputedIsImmediate
  <2>7. QED
    BY <2>6 DEF Doms
<1>4. QED
  BY <1>1, <1>2, <1>3, AnalysisInvariance, PTL DEF AnalysisSpec

==============================================================================
