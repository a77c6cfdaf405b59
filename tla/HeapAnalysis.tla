---------------------------- MODULE HeapAnalysis -----------------------------
(***************************************************************************)
(* The second half of fhat.sh: dfs, sort pred, dominate and retain run one *)
(* after the other on the sorted, packed references and hand each other    *)
(* files.  What holds at the end is what README.markdown promises to the   *)
(* user: how much memory an object retains.                                *)
(*                                                                         *)
(* A run of a program can be killed at any step, and its user may run it   *)
(* or an earlier one again by hand, as README.markdown shows the commands: *)
(* files survive as they are, memory does not.  MaxReruns bounds that.     *)
(*                                                                         *)
(* This module extends dfs, whose Init and Next start it, by the other two *)
(* programs; it reads their names with L! and R!.  NumNodes is the number  *)
(* of records of instances.binary, EdgeFiles are files                     *)
(* references.packed.sorted to start from.                                 *)
(***************************************************************************)
EXTENDS Dfs, FiniteSetsExt

CONSTANTS
  NumInstances,  \* records of instances.sorted, without duplicates
  Sizes,         \* the column instances.size.sorted
  Dots,          \* what to try for the progress divisor 80 on each file: the
                 \* heaps here are small, and real ones below or above it
  MaxReruns      \* bound on the number of reruns, for each file

VARIABLES
  program,       \* the program running, at its pc: "dfs", "dominate" or "retain"
  reruns,        \* reruns so far
  dots,          \* the progress divisor of dominate and retain
  preds, dominator, ancestor, label, bucket, i, ptr, arg, calls, unwinding,
  size, retained, retainedCount, skipped, totalSize                 \* retain

dfsOnly == <<edges, n, pred, stack>>
dominateOnly == <<preds, ancestor, label, bucket, ptr, arg, calls, unwinding>>
retainOnly == <<size, retained, retainedCount, skipped, totalSize>>
vars == <<program, pc, reruns, dots, dfsOnly, semi, vertex, parent, dominateOnly,
          dominator, i, retainOnly>>

L == INSTANCE Dominate
R == INSTANCE Retain

(* The packed references are positions in instances.sorted: what           *)
(* Preparation shows.                                                      *)
ASSUME AnalysisAssumption ==
  /\ NumInstances \in 1..NumNodes
  /\ \A f \in EdgeFiles : f \in Seq(Links(0..(NumInstances - 1)))
  /\ Sizes \in [0..(NumInstances - 1) -> Nat]
  /\ Dots \in [EdgeFiles -> SUBSET (Nat \ {0})]
  /\ MaxReruns \in [EdgeFiles -> Nat]

AnalysisInit ==
  /\ Init
  /\ program = "dfs"
  /\ reruns = 0
  /\ dots \in Dots[edges]
  /\ preds = << >>
  /\ dominator = Zeros
  /\ ancestor = Zeros
  /\ label = Zeros
  /\ bucket = [v \in Nodes |-> << >>]
  /\ i = 0
  /\ ptr = 1
  /\ arg = 0
  /\ calls = << >>
  /\ unwinding = FALSE
  /\ size = Sizes
  /\ retained = [v \in R!Instances |-> 0]
  /\ retainedCount = [v \in R!Instances |-> 0]
  /\ skipped = 0
  /\ totalSize = 0

RunDfs ==
  /\ program = "dfs"
  /\ Next
  /\ UNCHANGED <<program, reruns, dots, dominateOnly, dominator, i, retainOnly>>

(* sort pred pred.sorted link; the program itself is ExternalSort. *)
StartDominate ==
  /\ program = "dfs" /\ pc = "done"
  /\ program' = "dominate" /\ pc' = "start"
  /\ preds' = SortedLinks(pred)
  /\ L!Load
  /\ UNCHANGED <<reruns, dots, dfsOnly, semi, vertex, parent, dominator, retainOnly>>

RunDominate ==
  /\ program = "dominate"
  /\ L!Next
  /\ UNCHANGED <<program, reruns, dots, dfsOnly, retainOnly>>

StartRetain ==
  /\ program = "dominate" /\ pc = "done"
  /\ program' = "retain" /\ pc' = "start"
  /\ R!Load
  /\ UNCHANGED <<reruns, dots, dfsOnly, semi, vertex, parent, dominateOnly, dominator,
                 size, retained, retainedCount>>

RunRetain ==
  /\ program = "retain"
  /\ R!Next
  /\ UNCHANGED <<program, reruns, dots, dfsOnly, semi, parent, dominateOnly>>

(***************************************************************************)
(* The current program is killed, or has ended, and is run again, or an    *)
(* earlier one is.  dfs creates its output files anew; dominate finds semi *)
(* as the last run left it.                                                *)
(***************************************************************************)
Rerun(again) ==
  /\ reruns < MaxReruns[edges]
  /\ reruns' = reruns + 1
  /\ program' = again
  /\ pc' = "start"
  /\ UNCHANGED dots

RerunDfs ==
  /\ Rerun("dfs")
  /\ semi' = Zeros
  /\ vertex' = Zeros
  /\ parent' = Zeros
  /\ pred' = << >>
  /\ n' = 0
  /\ stack' = << >>
  /\ UNCHANGED <<edges, dominateOnly, dominator, i, retainOnly>>

RerunDominate ==
  /\ program \in {"dominate", "retain"}
  /\ Rerun("dominate")
  /\ L!Load
  /\ UNCHANGED <<dfsOnly, semi, vertex, parent, preds, dominator, retainOnly>>

RerunRetain ==
  /\ program = "retain"
  /\ Rerun("retain")
  /\ R!Load
  /\ UNCHANGED <<dfsOnly, semi, vertex, parent, dominateOnly, dominator,
                 size, retained, retainedCount>>

AnalysisNext ==
  \/ RunDfs \/ StartDominate \/ RunDominate \/ StartRetain \/ RunRetain
  \/ RerunDfs \/ RerunDominate \/ RerunRetain

AnalysisSpec == AnalysisInit /\ [][AnalysisNext]_vars

(* The shell starts each program when the one before has ended, and a      *)
(* program runs until it ends; nobody has to kill or rerun one.            *)
AnalysisFairSpec ==
  AnalysisSpec /\ WF_vars(RunDfs \/ StartDominate \/ RunDominate \/ StartRetain \/ RunRetain)

------------------------------------------------------------------------------
links == LinksOf(edges)
Reached == Reachable(Nodes, links)

DominateDone == program = "dominate" /\ pc = "done"
Completed == program = "retain" /\ pc = "done"

(* retain has left its loop, before or after its assertions. *)
SummedUp == program = "retain" /\ pc # "start" /\ i = 0

(* v and its dominator, the dominator of that, and so on. *)
DominatorChain(v) ==
  {x \in Nodes : \A S \in SUBSET Nodes :
     v \in S /\ (\A y \in S : dominator[y] \in S) => x \in S}

(***************************************************************************)
(* Every node that dominates w is on w's chain of computed dominators:     *)
(* dominate may credit a node with too much, never with too little.  It    *)
(* does not depend on what 0 stands for in ancestor (dominate.cc:143-189). *)
(***************************************************************************)
NoDominatorLost ==
  DominateDone =>
    \A w \in Reached : StrictDominators(w, Nodes, links) \subseteq DominatorChain(w)

(* The child of the root whose subtree holds v. *)
Subtree(v) == CHOOSE u \in L!TreeSegment(v, 0) : parent[u] = 0

(* A link between different subtrees of the root, from below the root's    *)
(* child to below the root's child.                                        *)
Crosses(e) ==
  /\ e.src \in Reached
  /\ 0 \notin {e.src, e.dst, parent[e.src], parent[e.dst]}
  /\ Subtree(e.src) # Subtree(e.dst)

(***************************************************************************)
(* The computed dominator is the immediate one, unless the root itself is  *)
(* and links cross between subtrees of the root: EVAL takes a child of the *)
(* root for unlinked, because its ancestor is 0 (dominate.cc:36, 46), and  *)
(* this is all the harm that does.                                         *)
(***************************************************************************)
ExactUnlessSubtreesCross ==
  DominateDone =>
    \A w \in Reached \ {0} :
      \/ IsImmediateDominator(dominator[w], w, Nodes, links)
      \/ StrictDominators(w, Nodes, links) = {0} /\ \E e \in links : Crosses(e)

(***************************************************************************)
(* "this will hold the immediate dominator for each node": the comment on  *)
(* the array dominator (dominate.cc:24-25), which the code does not meet.  *)
(***************************************************************************)
HoldsImmediateDominators ==
  DominateDone =>
    \A w \in Reached \ {0} : IsImmediateDominator(dominator[w], w, Nodes, links)

(***************************************************************************)
(* The main loop of dominate never works on numbers a previous run has     *)
(* lowered: what semi holds ahead of it are dfs's own numbers.  A rerun on *)
(* a used semi file stops at the assertion of line 130, before it has      *)
(* computed anything (dominate.cc:94, 130).                                *)
(***************************************************************************)
NumbersAheadUntouched ==
  program = "dominate" /\ pc \in {"preds", "lower", "drain", "dominate"} =>
    \A j \in 1..(i - 1) : vertex[j] # 0 => semi[vertex[j]] = j

(* The answers of EVAL are not changed by path compression, and no call of *)
(* COMPRESS goes astray, in a first run and in a rerun (dominate.cc:34-52).*)
PathCompressionSound ==
  program = "dominate" => L!PathCompressionSound /\ L!CompressClimbs

Sum(S, f(_)) == MapThenSumSet(f, S)

(***************************************************************************)
(* What is written as retained is the sum over the nodes below in the      *)
(* computed dominator tree, each counted once; an unreachable instance     *)
(* retains nothing.  The assertions that end retain then hold, on the      *)
(* files of any sequence of runs (retain.cc:58-66, 72-73).                 *)
(***************************************************************************)
RetainedIsSubtreeSum ==
  SummedUp =>
    /\ R!TotalsAgree
    /\ \A v \in R!Instances :
         LET below == {w \in Reached \ {0} : v \in DominatorChain(w)}
         IN  /\ retained[v] = Sum(below, LAMBDA w : size[w])
             /\ retainedCount[v] = Cardinality(below)

(***************************************************************************)
(* An object never retains more than is reported for it: what would become *)
(* collectable without it is at most the reported sum                      *)
(* (README.markdown:46-50, retain.cc:58-66).                               *)
(***************************************************************************)
RetainedNeverUnderstated ==
  SummedUp =>
    \A v \in Reached \ {0} :
      Sum(Collectable(v, Nodes, links), LAMBDA w : size[w]) <= retained[v]

(***************************************************************************)
(* The progress display divides by the number of records divided by 80:    *)
(* a heap with fewer records than that is never analysed, and it depends   *)
(* on duplicate records which of the two programs gives up                 *)
(* (dominate.cc:125, retain.cc:52).                                        *)
(***************************************************************************)
SmallHeapsGiveUp ==
  /\ program = "retain" => NumNodes >= dots \/ Reached = {0}
  /\ Completed => NumInstances >= dots \/ NumInstances = 1

(* However often a program is rerun, the pipeline comes to an end, with a  *)
(* result or with a failed program.                                        *)
Ends == <>[](Completed \/ pc = "abort")

HasRoots == \E e \in links : e.src = 0

(* Left alone, the pipeline completes on every heap that has a root and is *)
(* not too small: no assertion fails and no file is missing.               *)
Succeeds ==
  HasRoots /\ NumInstances >= dots /\ [](reruns = 0) => <>Completed

==============================================================================
