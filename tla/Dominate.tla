------------------------------ MODULE Dominate -------------------------------
(***************************************************************************)
(* The program dominate (src/src/dominate.cc): Lengauer and Tarjan's       *)
(* dominator algorithm over the files dfs left behind.  It reads           *)
(* pred.sorted (here preds), vertex and parent, lowers semi IN PLACE (the  *)
(* file is mapped shared), and writes dominator.  The LINK/EVAL forest     *)
(* (ancestor, label) and the buckets live only as long as the run.         *)
(*                                                                         *)
(* The recursion of COMPRESS is the explicit stack "calls": it descends to *)
(* the call that has nothing to do and then unwinds.                       *)
(*                                                                         *)
(* bucket, a map of vectors, is a function to sequences: a key that is     *)
(* absent stands for the empty vector, which the code treats alike.        *)
(***************************************************************************)
EXTENDS LinkFiles, FiniteSets

CONSTANT
  NumNodes    \* length of the semi file

Nodes == 0..(NumNodes - 1)

VARIABLES
  preds,      \* reversed links, sorted: src is the node, dst a predecessor
  semi,       \* number of a node, lowered to that of its semidominator
  vertex,     \* node with a given number
  parent,     \* parent in the depth-first tree
  dominator,  \* the result
  ancestor,   \* parent in the forest of LINK/EVAL, 0 for none
  label,      \* candidate of smallest semi between a node and its ancestor
  bucket,     \* nodes that wait for the semidominator they are filed under
  i,          \* the number being processed
  ptr,        \* position in preds
  arg,        \* argument of the EVAL in progress
  calls,      \* active calls of COMPRESS
  unwinding,  \* the innermost call has returned
  dots,       \* the code's 80: it prints a dot every NumNodes / 80 nodes
  pc

inputs == <<preds, vertex, parent>>
forest == <<ancestor, label>>
evaluation == <<arg, calls, unwinding>>
dominateVars ==
  <<inputs, semi, dominator, forest, bucket, i, ptr, evaluation, pc>>

Zeros == [v \in Nodes |-> 0]

(* The process begins: its memory is as if zeroed, whatever files it finds. *)
Load ==
  /\ ancestor' = Zeros
  /\ label' = [v \in Nodes |-> v]
  /\ bucket' = [v \in Nodes |-> << >>]
  /\ i' = NumNodes - 1
  /\ ptr' = 1
  /\ arg' = 0
  /\ calls' = << >>
  /\ unwinding' = FALSE

(* The dominator file is truncated first, then the inputs are mapped, and  *)
(* mmap refuses an empty pred file.                                        *)
MapFails ==
  /\ pc = "start"
  /\ preds = << >>
  /\ dominator' = Zeros
  /\ pc' = "abort"
  /\ UNCHANGED <<inputs, semi, forest, bucket, i, ptr, evaluation>>

Begin ==
  /\ pc = "start"
  /\ preds # << >>
  /\ dominator' = Zeros
  /\ pc' = "loop"
  /\ UNCHANGED <<inputs, semi, forest, bucket, i, ptr, evaluation>>

------------------------------------------------------------------------------
(* EVAL, COMPRESS and LINK *)

(* EVAL(v) up to the call of COMPRESS; it will return to the point next.   *)
Eval(v, next) ==
  /\ arg' = v
  /\ calls' = IF ancestor[v] = 0 THEN << >> ELSE <<v>>
  /\ unwinding' = FALSE
  /\ pc' = next

Evaluated == calls = << >>

(* Faulty variants, which the properties must tell from the code, are the  *)
(* definitions whose name says what is wrong; nothing uses them.           *)
Result_WithoutLabel == arg

(* What EVAL(arg) returns once COMPRESS is done. *)
Result == IF ancestor[arg] = 0 THEN arg ELSE label[arg]

Innermost == calls[Len(calls)]

CompressAncestor ==
  /\ calls # << >> /\ ~ unwinding
  /\ ancestor[ancestor[Innermost]] # 0
  /\ calls' = Append(calls, ancestor[Innermost])
  /\ UNCHANGED <<inputs, semi, dominator, forest, bucket, i, ptr, arg, unwinding, pc>>

(* The ancestor is a root of the forest: nothing to do, return.            *)
CompressBelowRoot ==
  /\ calls # << >> /\ ~ unwinding
  /\ ancestor[ancestor[Innermost]] = 0
  /\ calls' = Pop(calls)
  /\ unwinding' = TRUE
  /\ UNCHANGED <<inputs, semi, dominator, forest, bucket, i, ptr, arg, pc>>

BetterLabel_ComparesNodes(v, a) == IF semi[a] < semi[v] THEN label[a] ELSE label[v]

BetterLabel(v, a) == IF semi[label[a]] < semi[label[v]] THEN label[a] ELSE label[v]

(* The call on the ancestor came back: take over its label and ancestor.   *)
CompressUnwind ==
  /\ calls # << >> /\ unwinding
  /\ LET v == Innermost
     IN  /\ label' = [label EXCEPT ![v] = BetterLabel(v, ancestor[v])]
         /\ ancestor' = [ancestor EXCEPT ![v] = ancestor[ancestor[v]]]
  /\ calls' = Pop(calls)
  /\ UNCHANGED <<inputs, semi, dominator, bucket, i, ptr, arg, unwinding, pc>>

Link(v, w) == ancestor' = [ancestor EXCEPT ![w] = v]

------------------------------------------------------------------------------
(* Steps 2 and 3: the numbers downwards *)

Node == vertex[i]

InLoop == pc = "loop" /\ i > 0

DotInterval_RoundedUp == (NumNodes + dots - 1) \div dots

DotInterval == NumNodes \div dots

(* The semidominator of a node whose predecessors have been seen.          *)
Semidominator(v) == vertex[semi[v]]

(* i % (numNodes/80): the divisor of the progress display is zero.         *)
DivideByZero ==
  /\ InLoop
  /\ DotInterval = 0
  /\ pc' = "abort"
  /\ UNCHANGED <<inputs, semi, dominator, forest, bucket, i, ptr, evaluation>>

SkipUnreached_StaysThere ==
  /\ InLoop
  /\ DotInterval # 0
  /\ Node = 0
  /\ UNCHANGED dominateVars

SkipUnreached ==
  /\ InLoop
  /\ DotInterval # 0
  /\ Node = 0
  /\ i' = i - 1
  /\ UNCHANGED <<inputs, semi, dominator, forest, bucket, ptr, evaluation, pc>>

FirstPred == LinkLowerBound(preds, [src |-> Node, dst |-> 0])

NodeAsExpected_SemiUnchecked ==
  /\ FirstPred <= Len(preds)
  /\ FirstPred > 1 => LinkLess(preds[FirstPred - 1], preds[FirstPred])
  /\ preds[FirstPred].src = Node

NodeAsExpected_LastRefused ==
  /\ semi[Node] = i
  /\ FirstPred < Len(preds)
  /\ preds[FirstPred].src = Node

(* The assertions before the loop over the predecessors.                   *)
NodeAsExpected ==
  /\ semi[Node] = i
  /\ FirstPred <= Len(preds)
  /\ FirstPred > 1 => LinkLess(preds[FirstPred - 1], preds[FirstPred])
  /\ preds[FirstPred].src = Node

AssertionFails ==
  /\ InLoop
  /\ DotInterval # 0
  /\ Node # 0
  /\ ~ NodeAsExpected
  /\ pc' = "abort"
  /\ UNCHANGED <<inputs, semi, dominator, forest, bucket, i, ptr, evaluation>>

StartNode ==
  /\ InLoop
  /\ DotInterval # 0
  /\ Node # 0
  /\ NodeAsExpected
  /\ ptr' = FirstPred
  /\ pc' = "preds"
  /\ UNCHANGED <<inputs, semi, dominator, forest, bucket, i, evaluation>>

AtPred == ptr <= Len(preds) /\ preds[ptr].src = Node

EvalPred ==
  /\ pc = "preds"
  /\ AtPred
  /\ Eval(preds[ptr].dst, "lower")
  /\ UNCHANGED <<inputs, semi, dominator, forest, bucket, i, ptr>>

LowerSemi ==
  /\ pc = "lower"
  /\ Evaluated
  /\ semi' = IF semi[Result] < semi[Node] THEN [semi EXCEPT ![Node] = semi[Result]] ELSE semi
  /\ ptr' = ptr + 1
  /\ pc' = "preds"
  /\ UNCHANGED <<inputs, dominator, forest, bucket, i, evaluation>>

(* All predecessors seen: file the node under its semidominator, link it.  *)
FinishNode ==
  /\ pc = "preds"
  /\ ~ AtPred
  /\ bucket' = [bucket EXCEPT ![Semidominator(Node)] = Append(@, Node)]
  /\ Link(parent[Node], Node)
  /\ pc' = "drain"
  /\ UNCHANGED <<inputs, semi, dominator, label, i, ptr, evaluation>>

(* The bucket of the parent, last filed first. *)
Waiting == bucket[parent[Node]]

EvalWaiting ==
  /\ pc = "drain"
  /\ Waiting # << >>
  /\ Eval(Waiting[Len(Waiting)], "dominate")
  /\ bucket' = [bucket EXCEPT ![parent[Node]] = Pop(Waiting)]
  /\ UNCHANGED <<inputs, semi, dominator, forest, i, ptr>>

DominatorOf(v) == IF semi[Result] < semi[v] THEN Result ELSE parent[Node]

SetDominator ==
  /\ pc = "dominate"
  /\ Evaluated
  /\ dominator' = [dominator EXCEPT ![arg] = DominatorOf(arg)]
  /\ pc' = "drain"
  /\ UNCHANGED <<inputs, semi, forest, bucket, i, ptr, evaluation>>

NextNode ==
  /\ pc = "drain"
  /\ Waiting = << >>
  /\ i' = i - 1
  /\ pc' = "loop"
  /\ UNCHANGED <<inputs, semi, dominator, forest, bucket, ptr, evaluation>>

------------------------------------------------------------------------------
(* Step 4: the numbers upwards *)

BeginStep4 ==
  /\ pc = "loop"
  /\ i = 0
  /\ i' = 1
  /\ pc' = "explicit"
  /\ UNCHANGED <<inputs, semi, dominator, forest, bucket, ptr, evaluation>>

Explicit_Always(v) == dominator[dominator[v]]

Explicit(v) ==
  IF dominator[v] = Semidominator(v) THEN dominator[v] ELSE dominator[dominator[v]]

MakeExplicit ==
  /\ pc = "explicit"
  /\ i < NumNodes
  /\ dominator' = [dominator EXCEPT ![Node] = Explicit(Node)]
  /\ i' = i + 1
  /\ UNCHANGED <<inputs, semi, forest, bucket, ptr, evaluation, pc>>

Finish ==
  /\ pc = "explicit"
  /\ i = NumNodes
  /\ dominator' = [dominator EXCEPT ![0] = 0]
  /\ pc' = "done"
  /\ UNCHANGED <<inputs, semi, forest, bucket, i, ptr, evaluation>>

Next ==
  \/ MapFails \/ Begin
  \/ CompressAncestor \/ CompressBelowRoot \/ CompressUnwind
  \/ DivideByZero \/ SkipUnreached \/ AssertionFails \/ StartNode
  \/ EvalPred \/ LowerSemi \/ FinishNode
  \/ EvalWaiting \/ SetDominator \/ NextNode
  \/ BeginStep4 \/ MakeExplicit \/ Finish

------------------------------------------------------------------------------

(* The nodes of the depth-first tree from v upwards, as long as they are   *)
(* below a: v, parent[v], ... .                                            *)
TreeSegment(v, a) ==
  LET up[x \in Nodes] == IF x = a \/ x = 0 THEN {} ELSE {x} \cup up[parent[x]] IN up[v]

(***************************************************************************)
(* Path compression never changes an answer of EVAL: a linked node's       *)
(* ancestor is above it in the tree, and its label is a node of smallest   *)
(* semi strictly below that ancestor; every node skipped is linked.  Holds *)
(* in the middle of COMPRESS too (dominate.cc:34-56).                      *)
(***************************************************************************)
PathCompressionSound ==
  \A v \in Nodes : ancestor[v] # 0 =>
    LET segment == TreeSegment(v, ancestor[v])
    IN  /\ ancestor[v] \in TreeSegment(parent[v], 0)
        /\ label[v] \in segment
        /\ \A x \in segment : ancestor[x] # 0 /\ semi[label[v]] <= semi[x]

(***************************************************************************)
(* The assertion of COMPRESS (dominate.cc:35), and what it is for: each    *)
(* active call works on the ancestor of its caller, in the tree above it,  *)
(* so that the recursion cannot run in a circle.                           *)
(***************************************************************************)
CompressClimbs ==
  \A k \in 1..Len(calls) :
    /\ ancestor[calls[k]] # 0
    /\ k > 1 => calls[k] = ancestor[calls[k - 1]] /\ calls[k] \in TreeSegment(parent[calls[k - 1]], 0)

==============================================================================
