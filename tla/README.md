# fhat, verified

fhat is a chain of small C++ programs, tied together by the shell script
`fhat.sh`, that finds out which objects of a Java heap dump retain the most
memory. It is meant for dumps that do not fit into memory, so the programs hand
each other *files*: columns of 64-bit records, sorted by an external sort, and
arrays that are mapped into memory. This directory holds TLA+ models of these
programs, TLC configurations that check them, and proofs about them.

## 1. The system

| component | source | keeps | does | what makes it correct |
|---|---|---|---|---|
| `parse` | `src/src/parse.cc` | maps of names and classes, position in the dump | reads an hprof dump, writes columns of instances, classes and names and the references as id pairs; writes one instance 0, the *virtual root*, per heap dump record and a reference from it to every GC root | objects without lengths are kept apart by position alone; every instance's columns have the same rows; every reference starts at an instance; input that ends early is noticed |
| `sort` | `sort.cc`, `util.h` | a buffer, temporary files, a priority queue | external merge sort, drops duplicates | output is the distinct records in order; losing records does not go unnoticed |
| `sortcolumns` | `sortcolumns.cc` | two mapped columns | puts the values of a column into the order of the sorted keys | a row's value is one that was read with the row's key |
| `translate` | `translate.cc` | the mapped key column | replaces ids by positions; an *orphan*, an id without a row, becomes 0 (flag 1) or aborts (flag 0) | reachability in the reference graph survives |
| `dfs` | `dfs.cc` | mapped `semi`, `vertex`, `parent`; file `pred`; call stack | preorder numbers, spanning tree, reversed links | exactly the reachable nodes are numbered; depth-first numbers |
| `dominate` | `dominate.cc` | `semi` (shared with the file), `dominator`, `ancestor`, `label`, buckets | Lengauer and Tarjan's dominator algorithm | see section 4 |
| `retain` | `retain.cc` | `retained`, `retainedCount` | sums sizes up the dominator tree | every reported sum is complete |
| `unpack`, `zipfiles` | `unpack.cc`, `zipfiles.cc` | – | positions back to ids; columns to rows and back | no position is beyond the table; rows stay aligned |
| `fhat.sh` | `fhat.sh` | files | runs the programs in order, `set -e`, pipelines without `pipefail` | stops at a failed program |
| SQL closure | `class_closure.sh`, `*.sql`, README.markdown | sqlite tables | iterates "reachable from a set of instances", by the script or by a user who follows README.markdown | the query is joined with what is new, misses nothing by that, and the repetition stops at the fixed point |
| `closure` | `closure.cc` | – | unfinished, not built, `main` does nothing | – |

The programs interact only through files, one program at a time, except in the
pipelines of `fhat.sh`. The hard behaviours are:

* **files as interfaces**: each program relies on an order, an absence of
  duplicates or a numbering that another one established;
* **0 with several meanings**: it is the virtual root, the number of the root,
  "not discovered" (`semi`), "no ancestor" (`ancestor`) and what orphans turn
  into; each of these meets another one somewhere;
* **recursion** (`dfs()`, `COMPRESS`), in-place updates under it, and orders of
  processing that several loops must agree on;
* **reruns**: a killed program leaves its shared mappings behind, and
  `dominate` changes one of its inputs;
* **partial failure**: results of `fwrite` and `fclose` that nobody looks at;
* **pipelines** of up to seven processes, of which one may die, or leave early
  as `head` does, and only the last one's status counts;
* **an input without structure**: `parse` reads a stream whose end may be
  missing, in which nothing tells where an object ends but the class of
  it, described earlier or later in the same stream;
* **boundaries**: 32-bit lengths, run sizes, empty files, fewer records than a progress display
  divides by, orphans beyond the last key.

`PROJECT.json` lists these as `hazards`, each at its line with the properties
that cover it.

## 2. Modules

```
LinkFiles  HeapGraph                    files of links; reachability, dominance
   |          |
   +-- Columns (key columns)
   |      +-- SortColumns, Translate --- Preparation --- MCPreparation, PreparationProofs
   |      +-- Programs -- Pipeline -- ClassNames --- MCClassNames, ClassNamesProofs
   |                          +------ Report (uses ClassNames) --- MCReport, ReportProofs
   +-- HprofDump --- Parse --- MCParse, ParseProofs
   +-- Dfs --- MCDfs
   |    +-- GraphSearch (abstract)
   |    +-- LinkFilesTheorems
   |    +-- HeapAnalysis (with Dominate, Retain) --- MCHeapAnalysis, HeapAnalysisProofs
   +-- Dominate
       Retain
UniqueSort (abstract) -- ExternalSort --- MCExternalSort, ExternalSortProofs
ClosureQuery (abstract) -- Closure --- MCClosure, ClosureProofs
```

* **LinkFiles**: `struct Link`, its order, `lower_bound`. A file is a sequence;
  index *j* stands for the array element *j - 1*.
* **HeapGraph**: the reference definitions. `Reachable` is a least fixed point,
  `Dominates(v, w)` is "w is not reachable without v". Nothing in it is taken
  from an algorithm.
* **Dfs**: `dfs()` with an explicit call stack, a frame per active call (node,
  pointer into the links, number of descendants). `Descend` is the recursive
  call with the callee's prologue, `Skip` a link to a known node, `Return` the
  end of a call together with the rest of the caller's loop body (lines 59 to
  70). **GraphSearch** is what it implements: add the root, then any
  undiscovered end of a link from a found node, finish when there is none.
* **Dominate**: EVAL with an explicit stack of COMPRESS calls, one action per
  call that goes down and per call that unwinds; the loop over the numbers with
  its assertions (`AssertionFails`), the loop over predecessors, the bucket of
  the parent, step 4.
* **Retain**: the loop of `retain.cc`, its progress divisor and its assertions.
* **HeapAnalysis**: Dfs, extended by the other two programs as instances over shared variables, with
  `fhat.sh` starting each when the one before has ended, and a user who kills
  the current program at any step, or reruns an earlier one. Files survive,
  memory does not; `dfs` truncates its outputs, `dominate` finds `semi` as left.
* **ExternalSort**: runs, merge, short circuit. What a full disk does is
  modelled where the code looks (`WriteFails`: an assertion) and where it does
  not (`Closed`: a file that lost its end; `Emit`: a record not written).
  **UniqueSort** is what it implements.
* **SortColumns**, **Translate**: the loops of the two programs.
  **Preparation** composes them as `fhat.sh` lines 33 to 53 do, on columns that
  `parse` wrote, possibly cut off by a full disk, with the orphan flag of
  `fhat.sh` and with that of README.markdown.
* **HprofDump**: what a dump holds and how many bytes it takes, stated object by
  object (`SizeOf`, `ObjectStart`, `LinksIn`) and without a parser, and what the
  format promises (`WellFormed`, `Describes`). It is what Parse is compared with.
* **Parse**: `parse.cc` as a loop over records and one over the objects of a heap
  dump, one action per kind, with the maps (`superId`, `fieldInfo`, `toRoot`, ...),
  the position, the byte counts in `size_t` and their way through `int`
  (`AsSize`, `AsInt`), and an input of which only `cut` bytes arrive. What
  `fread` finds missing is an assertion (`Arrived`); what is skipped is not
  looked at. `RecordFails` and `ObjectFails` are the failed assertions.
* **Programs**: what each program of a pipeline writes for what it has read so
  far (`Results`), when it fails and when it has enough. **Pipeline**: the
  programs side by side: `Read`, `Write` into a pipe that holds `Capacity`
  items, up to `Buffered` items held back by stdio and lost when the program
  dies, SIGPIPE (`WriteToNobody`), a failed assertion (`Fail`), `End`, and
  `Kill`. **ClassNames** is the pipeline of `fhat.sh:82`; **Report** the
  script from line 67 to its end, pipeline after pipeline.
* **Closure**: the statements of `transitive_closure.sql` and its reverse
  (`forward`), with a transaction's view of the tables apart from the
  database, run by `class_closure.sh` (`script`) or repeated by a user until the count
  remains the same, as README.markdown:134 has it. Both insert the seeds into `closure`
  alone; `closure_delta` holds `first`, which is empty after `transitive_closure.schema.sql` and
  anything that a user has left or put there otherwise. **ClosureQuery** is README.markdown's
  query and what it would gather.

Inside a composition, a sort whose own steps do not matter is one step with the
result that UniqueSort promises (`SortedLinks`, `SortedKeys`).

Definitions such as `AtLink_AnySource` are deliberately wrong variants of the
definition before the underscore. No specification uses them; they document, for each
property, a bug it would catch (`mutants` in `PROJECT.json`).

## 3. Runs

| run | configuration | instance | asks |
|---|---|---|---|
| `dfs` | `Dfs.cfg` | all 2048 graphs over 4 nodes from 11 links | numbering, spanning tree, reachability, reversed links, no link to a larger number except down the tree, refinement of GraphSearch |
| `analysis` | `Analysis.cfg` | all 2048 graphs over 6 nodes from 11 links; all 128 graphs over 4 nodes from 7 links with up to 2 kills or reruns, divisor 2, 7 or 8; 7 records for 6 instances | what computed dominators and sums are worth, path compression, success; whether leftovers of a previous run do harm; who gives up when there are fewer records than the divisor |
| `sort` | `Sort.cfg` | 3280 inputs of up to 7 records over 3 values, runs of 3, a disk with room or one that may fill up at any write or close | refinement of UniqueSort, the merge, lost records of runs, termination |
| `preparation` | `Preparation.cfg` | 93 reference files over 2 instances, a duplicate, 2 orphans, null references, any prefix of each column, either orphan flag | columns stay aligned, reachability survives packing, output fits the analysis |
| `parse` | `Parse.cfg` | dumps of a class, its superclass, an instance, arrays and a root in all orders, in one or two heap dumps, names or loaded classes missing, each whole and cut in and around every record and object | position and count stay on the boundaries, what is read is what is there, early ends are noticed, `parse` ends |
| `closure` | `Closure.cfg` | all 512 sets of 9 references between 3 objects and null, 3 seed sets, 4 contents of `closure_delta`, both directions, script and user, one kill | what is gathered is what `closure_delta` leads to at first; every commit is a step of README.markdown's query on what has been joined; the repetition ends |
| `class_names` | `ClassNames.cfg` | 5 columns of rows over known, unknown and orphan classes, pipes and buffers of one item, one kill | names stay beside their rows, in any schedule |
| `report` | `Report.cfg` | 2 heaps of 3 rows, ties, a duplicate, `head` after 2, with and without `pv`, one kill | lines are not mixed, with `pv` the report is of the top rows, the script ends |
| `immediate_dominators` | `ImmediateDominators.cfg` | as `analysis` | **violated**: `dominator` need not hold immediate dominators |
| `sort_silent_loss` | `SortSilentLoss.cfg` | as `sort`, up to 5 records | **violated**: a lost output record does not stop sort |
| `class_closure` | `ClassClosure.cfg` | references without null, the same seeds, `closure_delta` as the schema creates it, script and user | **violated**: nothing is gathered but the seeds |
| `report_as_documented` | `ReportAsDocumented.cfg` | the heaps of `report`, nothing killed | **violated**: the report is empty without `pv`, and its sixth column is not the class id |

Bounds and why they are enough:

* **Graphs.** Four nodes with all links between non-root nodes give `dfs` every
  shape of tree over three nodes, cycles, a self reference and a link to the
  root. Six nodes are needed for `dominate`: COMPRESS recurses twice only on
  a path of four nodes below the root, and the smallest wrong dominator needs two
  subtrees of the root with a crossing link below their tops. `SixNodes` holds
  such a graph, and every subset of its links is an input.
* **Dots** are values for the code's 80. On six nodes it is 2, below the number of
  nodes, as a real heap is far above 80; on four nodes it may also be 7, which only
  the raw number of records reaches, and 8, which neither number does.
* **MaxReruns** is 2 on the graphs over four nodes: any program killed at any step, or
  ended, and it or an earlier one run again, twice. Among them are `dominate` killed
  and run again on what it has lowered, twice, `dfs` run again after `dominate`, and
  `retain` killed and run again. Longer sequences, and kills on six nodes, are
  not run; the theorems of section 5 hold for them.
* **Sizes** are powers of two: different sets of instances have different sums.
* **Sort.** Three runs, ties within a run and between runs, an input that ends
  exactly with a run, an empty last run and an empty input all occur with seven records
  in runs of three; an input that fits into the buffer can hold equal records.
* **Preparation.** One orphan lies between two keys and one beyond the last;
  a cut-off key column makes an orphan of a referrer too.
* **Parse.** `IntValues` = 1024 and `SizeValues` = 65536 stand for 2^32 and 2^64: a
  heap dump of two primitive arrays has more than half of `IntValues`, so
  that its length is negative as an int. Identifiers have 8 bytes. Classes
  have two levels, so that fields come from a superclass, and every order puts an
  instance before and after its classes.
* **Closure.** Four identifiers give layers up to the third, layers of equal size, cycles
  through the seeds, self references and several ways to one object. `closure_delta` is empty,
  equal to the seeds, a part of them, overlaps them, or has nothing to do with them.
* **Pipelines.** One item per pipe and one kill: a program can be blocked on
  both sides, and die with items lost on both. `head` leaves after 2 of 3 lines.

Symmetry is not used: node numbers are ordered and 0 is special.

**Fairness.** Outside the pipelines every program is one thread that neither
waits nor blocks, and the shell starts the next when the last ended: weak
fairness of the whole step is all that liveness properties assume. In a
pipeline each process has weak fairness of its own, as the scheduler gives it:
one that can read, write or end for good does so. The shell's own step is
weakly fair. Kills and reruns have no fairness; with
any number of them up to the bound, `Ends` holds. `CHECK_DEADLOCK FALSE` is set
everywhere because the programs end.

## 4. What the checks show

* `dfs` is right in full generality, and so is `sort` (section 5).
* `dominate` is not a correct Lengauer-Tarjan, and the runs say exactly how far
  it is off. `EVAL` takes a node whose ancestor is 0 for unlinked, although 0 is
  also the root. `NoDominatorLost`: every real dominator of a node is found on its
  chain of computed ones. `ExactUnlessSubtreesCross`: the computed dominator is the
  immediate one unless the real one is the root *and* some link crosses between
  subtrees of the root, below their top nodes on both ends. So `retain` may report
  too much for an object, and never too little (`RetainedNeverUnderstated`).
* Running `dominate` twice on one `semi` is safe: the assertion of line 130
  stops it before it computes with lowered numbers, or nothing had been lowered
  ahead of it (`NumbersAheadUntouched`).
* Rerunning `retain` at any time is safe.
* Heaps with fewer than 80 records end in a division by zero in `sortcolumns`,
  `dominate` or `retain`.
* `sort` notices lost temporary runs by its counters, and does not notice a lost
  output record.
* Turning orphans into 0 neither creates nor loses reachable objects, provided
  referrers are instances, but it does unsort the references: the second sort in
  `fhat.sh` is needed. With flag 0 it would not be. The usage message says
  "1=>turn to zero" (`translate.cc:21`), but an orphan greater than every key
  fails the assertion of line 69 first; `Succeeds` of Preparation excludes it.
* `parse` stays on the boundaries of records and objects in every order of
  them (`StaysInFrame`), reads the references of an instance with the fields of
  all its superclasses, and writes no reference whose source is not a row
  (`ReferrersAreInstances`, which Preparation takes for granted). It needs classes
  before their instances and superclasses before the first instance, and says so by
  assertions. A dump that ends in bytes that are skipped, those of a
  primitive array or a primitive field, passes for a whole one
  (`TruncationIsNoticed` names exactly these cases). A heap dump of 2 GB or more never
  ends by its count: whatever follows is taken for objects, and parse aborts or
  ends with the input. An *array* of 2 GB or more (`readPrimitiveArray` returns an
  int) makes count and position differ, so that the assertion of line 753
  fails; the inputs of the run hold none, and `StaysInFrame` fails with one.
* The SQL queries gather what `closure_delta` leads to at first, and nothing else, with
  sqlite3 killed anywhere (`GathersFromDelta`, `OnlyDeltaLeadsOut`). Followed as
  documented they gather nothing: `class_closure.sh` and README.markdown:123-127 seed
  `closure` and not `closure_delta` (`GathersReachable`, violated for either). The query
  printed in README.markdown:131 would do, as it joins `closure`; it is not the one in the file.
  The rule to stop is wrong as well: the count printed is that of `closure_delta`, so
  that it remains the same when two layers have the same size. That is why `GathersFromDelta`
  and `ReachableFromSeeds` promise the whole closure where the last count is 0, and not
  wherever the repetition ends. The loop condition of `class_closure.sh` is no command,
  so that the script ends after one query.
* A class name is never beside the wrong row, whatever dies in whatever order
  (`NamesInOrder`), and every position `unpack` looks up is inside its table,
  although it does not check (`PositionsInRange`). Orphan classes get the name of
  the first class.
* A line of the report is always about one instance, at worst cut short or
  without its name (`LinesAligned`). No process waits for `head` or for a
  dead one. With `pv` the report is of the instances that retain most, each with the columns in
  which the script and README.markdown agree (`ReportsTopRows`). It is not the
  report that README.markdown describes (`ReportAsDocumented`, violated for two reasons): where `pv` is
  not installed it is empty and the script ends with status 0, although there is a
  fallback (`fhat.sh:4-5`), which lines 75 and 84 do not use; and the sixth column is the
  offset of the instance (`i.o`), where README.markdown:47 and the comment in line 78 have its class id.

## 5. Proofs

The first part of `HeapAnalysisProofs` proves, for **every** number of nodes and **every** set of link files
(assumptions `NumNodesAssumption`, `EdgeFilesAssumption`: files are strictly
sorted links between nodes, which `FitsAlways` below proves of what the
preparation hands over), that `Spec` of `Dfs` implies

| theorem | property |
|---|---|
| `TypeCorrect` | `[]TypeOK` |
| `NumberingCorrect` | `[]NumberingIsBijective` |
| `SpanningTree` | `[]ParentTree` |
| `SearchComplete` | `[]NothingOverlooked` |
| `SearchCorrect` | `[]FindsReachable` |
| `NumbersStayFinal` | `NumbersAreFinal` |
| `ImplementsSearch` | `SearchesGraph`, the refinement of GraphSearch |
| `PredComplete` | `[]PredIsReversedGraph` |
| `DepthFirst` | `[]NoForwardCrossLink` |

The argument. `Numbered` (types and the bijective numbering) is
inductive because `Undiscovered` and `Discovered` are complementary while the
search runs: a node other than the root has `semi = 0` exactly when it has no
number, and the root's `semi` stays 0 because it is never `Undiscovered`. That
`n < NumNodes` when a new node is numbered is not checked by the code; it follows
from the bijection, by which `n` is the number of discovered nodes and a further
one exists. `Searching` adds the parent tree and what `FindsReachable` needs: the active calls form a
path of links (`CallsFollowLinks`), links before a frame's pointer lead to
discovered nodes, and every discovered node is active or explored
(`NothingOverlooked`). When the stack is empty all discovered nodes are
explored, hence closed under the links; and each is in every closed set that
contains the root, by induction along the steps. `lower_bound` enters by the lemmas of
`LinkFilesTheorems`: it returns the first link of the node if there is one.
No assertion of the code is assumed.

For the links, it adds the *handled* ones: those before the pointer of the active
call at their source, or whose source has returned. `Skip` and `Return` handle one more
link and write it to `pred`, the other steps neither (`Written`). At the end all links
of found nodes are handled; since the links are strictly sorted, each occurs in
`pred` once. For the depth-first property, numbers grow towards the innermost
call (`CallsAscend`), and everything numbered from an active call's number on is
below its node (`Nested`); a link is handled while its source is active, so if its end
has a larger number, it is below. `Ancestor` states "below" without recursion, and one
lemma shows that it is what the recursive function `TreePath` computes.

The rest of `HeapAnalysisProofs` proves, for every number of nodes and instances, every set of
link files, all sizes, every progress divisor and any number of kills and reruns
(`AnalysisAssumption`: links are between instances, which `FitsAlways` proves of
what the preparation hands over), that `AnalysisSpec` of `HeapAnalysis` implies

| theorem | property |
|---|---|
| `AnalysisInvariance` | `[]Analysing`, the inductive invariant |
| `CompressionSound` | `[]PathCompressionSound` |
| `AheadUntouched` | `[]NumbersAheadUntouched` |
| `DominatorsComplete` | `[]NoDominatorLost` |
| `RetainedSums` | `[]RetainedIsSubtreeSum` |
| `NeverUnderstated` | `[]RetainedNeverUnderstated` |
| `NoSmallHeap` | `[]SmallHeapsGiveUp` |
| `DominatorsExact` | `[]ExactUnlessSubtreesCross` |

This is a correctness proof of an *incorrect* Lengauer-Tarjan, and the invariant is
shaped by that. The usual one says that a lowered `semi` is the semidominator; here
it need not be. What does hold, and is inductive, is (`Semidominators`): `semi[w]` is
the number of a node above `w`, at most `w`'s own, and every dominator of `w` has a
number of at most `semi[w]`. It holds for dfs's own numbers, for lowered ones, and
for a mixture, so it covers reruns of a killed `dominate` too. It is kept because EVAL
never returns a node with too small a `semi`: whatever it returns is above the
predecessor and not above the lowest node linked, so a dominator of `w` dominates it or
lies above it. Taking a linked child of the root for unlinked only makes EVAL look
at fewer nodes (`Linked` says exactly which: those whose parent is not the root).
The converse, that it looks at enough of them, is where the code is wrong, and
`DominatorsExact` says how little that costs (the last two items).

* `Forest` is `PathCompressionSound` in the terms of the tree; COMPRESS keeps it
  because an ancestor's label already stands for all nodes between the ancestor and
  its own ancestor, and `Climbing` says that the active calls are a chain of ancestors
  with numbers going down, so that an outer call finds its own entry untouched.
* `Buckets` and `Settled` follow step 3: a node that has been dealt with is in the
  bucket of its semidominator, or being taken out, or has a dominator that is
  its semidominator or a node below that with a smaller `semi`. `Lowered` (a node
  that has been dealt with has a `semi` below its number, since its tree parent is
  a predecessor) makes every such dominator smaller than the node.
* `Final` follows step 4, in the order of the numbers: the dominators of `v` are its
  computed dominator and dominators of that. `NoDominatorLost` is then an induction
  along the numbers.
* `Position` is the argument about reruns. Either the numbers ahead are dfs's own, or the
  last node found has been lowered (`LastLowered`) and the loop has not passed it
  yet: there the assertion of line 130 stops the run. A rerun that lowers nothing before it
  is killed leaves the file as it was.
* `SumsAgree` says what `retained` holds in the middle of retain: at `v` are counted the
  nodes below `v`'s children in the dominator tree that have been passed on
  (`Credited`), and `v` itself once it has been. A step adds the node with the
  number `i` to its own sum and that to its dominator's; the sets are disjoint, because
  chains of dominators are linear (`ChainIsLinear`).
* `Exactly` bounds `semi` from the other side, and holds relative to `Analysing` in every step
  (TLC had checked it on the runs' heaps and on one of six nodes before it was proved).
  `SemiLow`: a node that has been dealt with is lowered as far as each of its links asks
  for, to the number of the link's source and to what the nodes above the source are
  lowered to, *except* a child of the root that is above the source. `Compressed`: COMPRESS
  leaves its argument directly below a root of the forest, so that EVAL looks at all linked
  nodes (`ResultIsLeast`). `DominatorsWell`: no node between the computed dominator
  `d` and the node is lowered beyond `d` (`HighEnough`), or the node found below the
  semidominator is the one lowered most (`ByLeast`), from which step 4 makes the former.
* From that, `d` dominates the node: a link into the nodes that `d` encloses this way
  (`Enclosed`) comes from `d` or from one of them (`NoWayIn`). That fails
  only for a link whose source shares no child of the root with its end. If none
  crosses between subtrees there is no such link, and if some other node than the root
  dominates, both ends are below that (`Sealed`, `ComputedIsImmediate`).

Induction over data is out of the provers' reach as a rule of the library, but not
as an argument: among the nodes that violate a claim there is one with the
smallest number (`LeastNumber`, from the least element of a set of naturals), among
sets one with the fewest elements (`SmallestSet`). With these, the sum
`MapThenSumSet` is shown to be *the* additive function on finite sets (`SumExists`,
`SumIsUnique`, `SumLaws`), and `TreeSegment`, a recursive function, to be the part of the
tree path it is meant to be (`SegmentRecursion`, `SegmentMeaning`).

`ExternalSortProofs` proves, for every set of inputs over any integers, every
`Capacity` and whatever a full disk cuts off:

| theorem | property |
|---|---|
| `SortInvariance` | `[]SortInv`, the inductive invariant |
| `MergeNeverGoesBack` | `[]MergeAscends` |
| `LossesNoticed` | `[]LostRunsAreNoticed` |
| `SortImplements` | `SortsUnique`, the refinement of UniqueSort |

The invariant compares the temporary files with the runs as they would be on a disk with
room (`CutFrom`), and reads the counters as sizes of sets of places, pairs of a
run and a position: `itemsWrittenToRuns` counts the places of the uncut runs,
`itemsMerged` those taken so far. When the counters agree, a subset has the size of its
superset, so nothing was cut. A place that is not taken lies at or behind its
run's next record, whence the record that the queue yields is the smallest
missing one. `Sorted` and `Run` are stated by what `std::sort` promises, with
CHOOSE; that such a permutation and such an enumeration exist is proved
(`Ranking`), not assumed.

`PreparationProofs` proves, for every set of dumps that starts with the virtual root,
columns that are cut off anywhere and both orphan flags:

| theorem | property |
|---|---|
| `FitsAlways` | `[]FitsAnalysis` |
| `AlignedAlways` | `[]ColumnsAligned` |
| `ReachableAlways` | `[]ReachableKept` |
| `GarbageAlways` | `[]GarbageStaysGarbage` |

The invariant `PrepInv` describes each file by those it was made from: a row has a
size as soon as a record with its key was read (`Aligned`), and a packed
position stands for an identifier in exactly one way (`Packs`, `PackedOnce`): the
row of the key, or row 0 for an orphan. The two statements about reachability turn a set
that the references do not leave into a set of rows that the packed references do not
leave, and back. With the orphan flag 0 positions keep the order of keys, so the
packed links are sorted already, and sorting a sorted file changes nothing
(`SortedAlready` of `LinkFilesTheorems`). The proof does not use that referrers are
instances: `GarbageStaysGarbage` names it as its condition, and `ReferrersWritten`
below proves it of `parse`.

`ParseProofs` proves, for every set of dumps and cuts, widths and sizes of records:

| theorem | property |
|---|---|
| `ReferrersWritten` | `[]ReferrersAreInstances` |
| `ClassesNamed` | `[]ClassNamesAreNames`: the name of every class in the columns is in the columns |
| `PositionsKept` | `[](ObjectsFit => StaysInFrame)` |
| `EarlyEndNoticed` | `[]TruncationIsNoticed` |
| `ColumnsHoldTheDump` | `[]ReadsWhatIsThere` |

The first two hold because a class is made a row in the step that writes the references
of its statics, the virtual root in the step that opens a heap dump, and an instance in
the step that writes those of its fields; and because `LoadClass` looks its name up.

The other three rest on where things are in a dump. `Total` is recursive; by least
elements it is shown to be the running sum (`PrefixIsRunning`), from which records
and objects follow each other without gaps (`RecordStarts`, `ObjectStarts`), whatever
they are made of. The invariant `Framed` has the position on such a start, and after the
end of the input only behind an object of which something is skipped (`ReadAcross`).
Every reader moves by the size of its object (`ReadingPasses`); a heap dump whose
length is negative as an int becomes a size larger than its bytes, so that a loop that
ends where the length says has read all objects and nothing else (`HeapDumpRead`).
`Counted` relates the count of bytes left to the position modulo 2^64, for which no object
may have 2 GB (`ObjectsFit`): what `readClass` and the readers of arrays return is an
`int`, and the assertion of `parse.cc:753` fails after a larger one.

For the columns, `ColumnsHold` says that they are those of the objects that start before
the position. An instance is the hard case: the fields that `resolveClassToRoot` collects
have to be the layout of its class (`ResolvedIsLayout`), through two recursions over
superclasses that exist as no class is its own superclass (`FieldsUnfold`, by a largest
set of classes for which the recursion has a solution), a cache, and classes that are
dumped again; and no two fields have the same offset (`OffsetsDiffer`).

Assumed of dumps is their format: identifiers of classes are not the numbers of
primitive types, lengths fit into their four bytes, types are types
(`InputsAssumption`); for `ColumnsHoldTheDump`, that instances have the fields of their
class before those of its superclasses, and that a class dumped twice is the same
class (`LayoutAssumption`). TLC evaluates both on every dump of the run.

`ClosureProofs` proves, for every finite set of objects, every table of
references and seeds, any contents of `closure_delta` at first, both directions, the script and
the user, and any number of kills:

| theorem | property |
|---|---|
| `GatheredAlways` | `[]Gathered`, the inductive invariant |
| `ClosureTyped` | `[]TypeOK` |
| `DeltaSuffices` | `[]OnlyDeltaLeadsOut` |
| `ClosureFromDelta` | `[]GathersFromDelta` |
| `CommitsInsert` | `CommitsQuery` |
| `NothingFromTheSchema` | `[](first = {} => closure = seeds)`: the documented procedures |
| `ReachableFromSeeds` | with the seeds in `closure_delta` and a last count of 0, the closure is what they lead to |

The invariant `Gathered` follows the transaction statement by statement
(`Progress`: what `view` and `cd2` hold in terms of the tables at its start) and adds
that objects that have been joined, and are not in the last layer, lead nowhere new. `Commit`
is the only step that changes the tables: the new layer is what the old one leads to, and
what older objects lead to was there already. An empty layer leaves nothing out of what
`first` leads to. Seeds that are not in `first` are in `closure` without having been joined: ways
through them lead nowhere (`Beyond`), and only if `first` is all of the seeds do all ways count.

`ClassNamesProofs` proves, for all files that meet `TablesAssumption` (which
`FitsAlways`, `AlignedAlways` and `ClassesNamed` above are about), all capacities, buffer sizes and numbers of kills:

| theorem | property |
|---|---|
| `ClassNamesTyped` | `[]TypeOK` |
| `NamesBesideTheirRows` | `[]NamesInOrder` |
| `PositionsStayInRange` | `[]PositionsInRange` |

The invariant says of each of the seven programs that what it has written is a
prefix of what it makes of what it has read, item by item, and of each pipe
that its reader has read a prefix of what is written. Since every program is a function on
items, the k-th item at any place is the k-th row's, translated so far.

`ReportProofs` proves, for all heaps that meet `HeapsAssumption`, any number of rows in
the report, with and without `pv`, all capacities, buffer sizes and numbers of kills:

| theorem | property |
|---|---|
| `ReportInvariance` | `[]ReportInv`, the inductive invariant |
| `LinesAreAligned` | `[]LinesAligned` |
| `TopInvariance` | `[]TopInv`, the invariant that nothing is missing |
| `ReportWritten` | the whole report of the script as it is: with the offset as sixth column, empty without `pv` |
| `ReportIsTopRows` | `[]ReportsTopRows` |

Here the programs of a pipeline are not functions on items: `zipfiles` cuts columns into
words and `unzipfiles` words into columns, `sort` writes nothing until its input has
ended and may have read a part of a row, `od` and `paste` put lines together. What they have in common is that nothing
a program has written is taken back: what it writes for the first part of an input
is the first part of what it writes for all of it, and at the end of the input it only adds
to it (`ResultGrows`). Hence `Flow`, an invariant of any pipeline of such
programs: each has written a first part of what it makes of what it has read,
and a program that ended normally all of it. The four pipelines are instances.

From `Flow` follows what each pipeline leaves (`DominatorsRight`, `RowsRight`, `NamesRight`), whatever
was lost on its way: the c-th of the files that `unzip` wrote may be
shorter than another, but where they have a k-th entry these come from one row of the heap
(`ZippedRow`, `UnzippedLaws`; the sort keeps rows whole, `SortedWords`), and the k-th name, if there is
one, is that of the k-th class. A line then is a first part of a row beside its name:
only the last line that `od` makes can be cut, and lines after that have no row
(`TheReport`). The lemmas reach down to quotients and remainders of places (`Place`, `PlaceInRow`).

That the report is complete if nothing is killed needs more: the last of a pipeline's
programs must not end before its input is there, and `head` must be the only reason
why a program dies of SIGPIPE. `Outputs` states what the programs would make of whole inputs;
`Orderly` says that as long as the last program runs, no program before it is dead or has ended
before the one it reads from (`Undisturbed`), and that what it leaves is all of its output, or as
much as `head` wants (`Delivered`). Any step of a program keeps this (`OrderIsKept`),
only `Kill` does not. `sort` is shown to put every row at its rank: rows are pairwise
different, by their own number in the last place, so that the number of rows before
one decides its place (`RankedBy`, `RankedRows`). `TopInv` carries whole files from each
pipeline to the next; without `pv` it carries that they are empty (`NothingSorted`,
`NothingReported`). `ClassesKnown` is an assumption of the property itself: the orphan
flag of `translate` does not cover a class greater than all known ones
(`translate.cc:69`), at which it aborts, and the report then has lines without names.

Only model-checked is liveness (fairness and ENABLED are out of the prover's reach): `Succeeds`,
`Ends`, `Terminates` and `NamesEveryRow`. Every other property of a passing run is a theorem.

## 6. Not modelled

* `closure.cc`, which is not built and whose `main` does nothing; `schema.sql` and
  `indexes.sql`, which are declarations; the build files.
* `fhat.sh` 20-31: names and classes go through the same programs, in the same way,
  as the instances of lines 33-41.
* Text: the contents of names, the text output files of `parse`, which nothing
  reads, the formats of `od` and `sed`, `pv`'s display, dates, counters that are
  only printed.
* Machine widths outside `parse`: 64-bit sums, `int` results of `lseek` (`util.h:68`)
  and `atoi` (`dfs.cc:82`). The depth of the stack (`dfs.cc:59`). `SIGBUS` from mappings
  longer than their file.
* The statistics that `transitive_closure.sql` prints besides the count.

Some details are coarser than the code without being left out. The seven stdio buffers of
`unzip` are one stream, so that an `unzip` that dies leaves files that end within
one row, where the real ones may end further apart; `od | sed | sed` is one process; `num`
of `parse.cc:519`, an `int` that a dump could make negative, is a natural number; the
assertions of `dfs.cc` that its invariants imply are not guards of their own.

## 7. What could come next

1. **Composition**: Parse's columns as Preparation's input, and its result as
   HeapAnalysis's: an end-to-end property from a dump to retained sizes.
2. **Proofs**: the composition, from the theorems about its parts.
