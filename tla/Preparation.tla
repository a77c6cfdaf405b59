----------------------------- MODULE Preparation -----------------------------
(***************************************************************************)
(* The first half of fhat.sh: what parse wrote is sorted, and identifiers  *)
(* are packed into positions, for dfs, dominate and retain to work on.     *)
(* The script stops at the first command that fails (set -e).              *)
(*                                                                         *)
(* A dump is the columns parse writes for it.  parse never looks at the    *)
(* result of a write: when the disk fills up, each column may end early.   *)
(* The class and offset columns go the way of the size column.             *)
(***************************************************************************)
EXTENDS HeapGraph, Columns

CONSTANTS
  Dumps,          \* records [ids, sizes, references]
  DiskMayFill,    \* whether parse may lose the end of a column
  Dots,           \* the progress divisor 80 of sortcolumns
  OrphanFlags     \* the orphan flags to consider: fhat.sh gives 1, TRUE, and
                  \* README.markdown what is now 0, FALSE

ASSUME DotsAssumption == Dots \in Nat \ {0} /\ OrphanFlags \subseteq BOOLEAN

(* Every dump starts with the virtual root, 0; references lead from        *)
(* instances and from the virtual root, to any identifier.                 *)
ASSUME DumpsAssumption == \A dump \in Dumps :
  /\ dump.ids \in Seq(Nat) /\ dump.ids # << >> /\ dump.ids[1] = 0
  /\ dump.sizes \in [1..Len(dump.ids) -> Nat]
  /\ dump.references \in Seq(Links(Nat))
  /\ \A link \in LinksOf(dump.references) : link.src \in Range(dump.ids)

VARIABLES
  instances, instancesSize, references, \* parse's columns
  instancesSorted, sizeSorted,          \* instances.sorted and its sizes
  referencesSorted,
  stream,                               \* referencesSorted, two nodes a link
  packed, packedSorted,                 \* references.packed[.sorted]
  command,                              \* the command of the script
  orphansToZero,                        \* the orphan flag for translate
  recordsSorted, orphans,               \* sortcolumns', translate's
  pc                                    \* where the command is

parseVars == <<instances, instancesSize, references, orphansToZero>>
sortVars == <<referencesSorted, stream, packedSorted, command>>
columnVars == <<instancesSorted, sizeSorted, recordsSorted>>
translateVars == <<packed, orphans>>
vars == <<parseVars, sortVars, columnVars, translateVars, pc>>

C == INSTANCE SortColumns WITH
  keys <- instancesSorted, unsortedKey <- instances,
  unsortedValue <- instancesSize, sortedValue <- sizeSorted

T == INSTANCE Translate WITH keys <- instancesSorted, toTranslate <- stream

(* What reaches the disk of a column.                                      *)
Written(column) == IF DiskMayFill THEN Prefixes(column) ELSE {column}

Init ==
  /\ \E dump \in Dumps :
       /\ instances \in Written(dump.ids)
       /\ instancesSize \in Written(dump.sizes)
       /\ references \in Written(dump.references)
  /\ orphansToZero \in OrphanFlags
  /\ instancesSorted = << >> /\ sizeSorted = << >>
  /\ referencesSorted = << >> /\ stream = << >>
  /\ packed = << >> /\ packedSorted = << >>
  /\ recordsSorted = 0 /\ orphans = 0
  /\ command = "sort instances" /\ pc = "start"

SortInstances ==
  /\ command = "sort instances"
  /\ instancesSorted' = SortedKeys(instances)
  /\ command' = "sortcolumns" /\ pc' = "start"
  /\ C!Load
  /\ UNCHANGED <<parseVars, sizeSorted, referencesSorted, stream, packedSorted, translateVars>>

RunSortColumns ==
  /\ command = "sortcolumns"
  /\ C!Next
  /\ UNCHANGED <<parseVars, sortVars, translateVars>>

(* A link is two nodes to translate.                                       *)
Flattened(file) == [i \in 1..(2 * Len(file)) |->
                      LET link == file[(i + 1) \div 2]
                      IN  IF i % 2 = 1 THEN link.src ELSE link.dst]

SortReferences ==
  /\ command = "sortcolumns" /\ pc = "done"
  /\ referencesSorted' = SortedLinks(references)
  /\ stream' = Flattened(referencesSorted')
  /\ command' = "translate" /\ pc' = "start"
  /\ T!Load
  /\ UNCHANGED <<parseVars, columnVars, packedSorted>>

RunTranslate ==
  /\ command = "translate"
  /\ T!Next
  /\ UNCHANGED <<parseVars, sortVars, columnVars>>

(* Two nodes are a link to the next command.                               *)
PackedLinks == [k \in 1..(Len(packed) \div 2) |->
                  [src |-> packed[2 * k - 1], dst |-> packed[2 * k]]]

Resorted_NotAtAll(file) == file

Resorted(file) == SortedLinks(file)

SortPacked ==
  /\ command = "translate" /\ pc = "done"
  /\ packedSorted' = Resorted(PackedLinks)
  /\ command' = "prepared"
  /\ UNCHANGED <<parseVars, columnVars, translateVars, referencesSorted, stream, pc>>

Next == SortInstances \/ RunSortColumns \/ SortReferences \/ RunTranslate \/ SortPacked

Spec == Init /\ [][Next]_vars

(* One command after the other, each a loop over its input.                *)
FairSpec == Spec /\ WF_vars(Next)

Prepared == command = "prepared"

------------------------------------------------------------------------------

Ids == Range(instances)

(* Identifiers that are no instances have no row. *)
AllIds == Ids \union UNION {{e.src, e.dst} : e \in LinksOf(references)}

(* Whether the virtual root reaches an instance, before and after packing. *)
WasReached(row) == instancesSorted[row] \in Reachable(AllIds, LinksOf(references))
IsReached(row) == row - 1 \in Reachable(0..(Len(instancesSorted) - 1), LinksOf(packedSorted))

(***************************************************************************)
(* What dfs, dominate and retain take for granted: strictly sorted links   *)
(* between rows of instances.sorted, row 0 the virtual root, one size per  *)
(* row and no more rows than dfs is given nodes (fhat.sh:56).  With the    *)
(* orphan flag 0 packing alone keeps the order: "assert it's still sorted" *)
(* (README.markdown:164-166, translate.cc:70-77).                          *)
(***************************************************************************)
FitsAnalysis == Prepared =>
  /\ packedSorted \in Seq(Links(0..(Len(instancesSorted) - 1)))
  /\ StrictlySorted(packedSorted)
  /\ instancesSorted[1] = 0
  /\ Len(sizeSorted) = Len(instancesSorted)
  /\ Len(instancesSorted) <= Len(instances)
  /\ ~ orphansToZero => packedSorted = PackedLinks

(***************************************************************************)
(* The size in a row is one the dump gives for the instance in that row,   *)
(* although its key and its size were sorted apart, and duplicates fell    *)
(* together; a column that is cut off is noticed (sortcolumns.cc:20-26).   *)
(***************************************************************************)
ColumnsAligned == Prepared =>
  \A row \in 1..Len(instancesSorted) :
    \E k \in DOMAIN instances \intersect DOMAIN instancesSize :
      instances[k] = instancesSorted[row] /\ sizeSorted[row] = instancesSize[k]

(***************************************************************************)
(* An instance that the parsed references reach from the virtual root is   *)
(* reached in the packed ones: also when its referrer was lost to a full   *)
(* disk and became node 0 (translate.cc:70-74).                            *)
(***************************************************************************)
ReachableKept == Prepared =>
  \A row \in 1..Len(instancesSorted) : WasReached(row) => IsReached(row)

(***************************************************************************)
(* As long as the referrers are instances, orphans do no harm: garbage is  *)
(* not reached in the packed references either (translate.cc:70-74).       *)
(***************************************************************************)
GarbageStaysGarbage ==
  Prepared /\ (\A e \in LinksOf(references) : e.src \in Ids) =>
    \A row \in 1..Len(instancesSorted) : IsReached(row) => WasReached(row)

(***************************************************************************)
(* The preparation succeeds, unless there are fewer instances than Dots,   *)
(* or sizes are missing, or a reference leads beyond the last instance     *)
(* (sortcolumns.cc:17-25, translate.cc:69).                                *)
(***************************************************************************)
Complete ==
  /\ Cardinality(Ids) >= Dots
  /\ Len(instancesSize) >= Len(instances)
  /\ \A id \in AllIds : \E last \in Ids : id <= last

Succeeds == Complete /\ orphansToZero => <>Prepared

==============================================================================
