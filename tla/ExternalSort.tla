---------------------------- MODULE ExternalSort -----------------------------
(***************************************************************************)
(* The program sort (src/src/sort.cc), with unique = true as main() always *)
(* calls it: sorted runs of what fits into the buffer go to temporary      *)
(* files, which are then merged; an input that fits into the buffer is     *)
(* written directly.                                                       *)
(*                                                                         *)
(* Records are integers: the record types differ only in their comparison, *)
(* a strict total order for each.  Output goes through buffered streams to *)
(* a disk that may fill up: a write then fails at once, or its loss shows  *)
(* at fclose, whose result the code never looks at.                        *)
(***************************************************************************)
EXTENDS Integers, FiniteSets, Sequences, Functions

CONSTANTS
  Records,     \* the records there can be
  Inputs,      \* the input files
  Capacity,    \* records of a run: SORT_BUFFER_SIZE / sizeof(T) - 1
  DiskMayFill  \* whether to consider disks that are too small

ASSUME SortAssumption ==
  /\ Records \subseteq Int
  /\ \A file \in Inputs : file \in Seq(Records)
  /\ Capacity \in Nat \ {0}
  /\ DiskMayFill \in BOOLEAN

VARIABLES
  input,       \* the input file
  diskFills,   \* writes may fail
  itemsRead,   \* records of it read
  buffer, ptr, \* the buffer and the position in it, when written directly
  tempFiles,   \* the sorted runs on disk
  itemsWrittenToRuns,
  runs,        \* the runs in the priority queue
  next,        \* position in each run of its next record
  tempItemsRead, itemsMerged,
  last,        \* the last record the merge wrote, as a set of at most one
  out,         \* the output file
  lost,        \* records of out were lost
  pc

readVars == <<itemsRead, tempFiles, itemsWrittenToRuns>>
directVars == <<buffer, ptr>>
mergeVars == <<runs, next, tempItemsRead, itemsMerged, last>>
vars == <<input, diskFills, readVars, directVars, mergeVars, out, lost, pc>>

Init ==
  /\ input \in Inputs
  /\ diskFills \in BOOLEAN /\ (diskFills => DiskMayFill)
  /\ itemsRead = 0
  /\ buffer = << >> /\ ptr = 1
  /\ tempFiles = << >> /\ itemsWrittenToRuns = 0
  /\ runs = {} /\ next = << >>
  /\ tempItemsRead = 0 /\ itemsMerged = 0
  /\ last = {}
  /\ out = << >> /\ lost = FALSE
  /\ pc = "read"

(* What of a file survives on disk when its stream is closed.              *)
Closed(file) ==
  IF diskFills THEN {SubSeq(file, 1, k) : k \in 0..Len(file)} ELSE {file}

------------------------------------------------------------------------------
(* Sorted runs *)

(* Faulty variants, which the properties must tell from the code, are the  *)
(* definitions whose name says what is wrong; nothing uses them.           *)
FoundEOF_Immediately == TRUE

(* The end is only seen by a read that fails: not when the rest of the     *)
(* input exactly fills the buffer.                                         *)
FoundEOF == Len(input) - itemsRead < Capacity

Chunk ==
  LET left == Len(input) - itemsRead
  IN  SubSeq(input, itemsRead + 1, itemsRead + IF left < Capacity THEN left ELSE Capacity)

(* What std::sort makes of a buffer. *)
Sorted(chunk) ==
  LET order == CHOOSE p \in Bijection(DOMAIN chunk, DOMAIN chunk) :
                 \A i, j \in DOMAIN chunk : i < j => chunk[p[i]] <= chunk[p[j]]
  IN  [i \in DOMAIN chunk |-> chunk[order[i]]]

(* A buffer as it is written to disk: sorted, each value once.             *)
Run(chunk) ==
  CHOOSE run \in [1..Cardinality(Range(chunk)) -> Range(chunk)] :
    \A i, j \in DOMAIN run : i < j => run[i] < run[j]

(* The whole input fits into the buffer: no temporary file.                *)
FitsInMemory ==
  /\ pc = "read"
  /\ FoundEOF /\ tempFiles = << >>
  /\ itemsRead' = itemsRead + Len(Chunk)
  /\ buffer' = Sorted(Chunk)
  /\ pc' = "direct"
  /\ UNCHANGED <<input, diskFills, ptr, tempFiles, itemsWrittenToRuns, mergeVars, out, lost>>

(* The result of fclose is ignored: the run may be cut off.                *)
WriteRun ==
  /\ pc = "read"
  /\ ~ (FoundEOF /\ tempFiles = << >>)
  /\ itemsRead' = itemsRead + Len(Chunk)
  /\ itemsWrittenToRuns' = itemsWrittenToRuns + Len(Run(Chunk))
  /\ \E file \in Closed(Run(Chunk)) : tempFiles' = Append(tempFiles, file)
  /\ pc' = IF FoundEOF THEN "open" ELSE "read"
  /\ UNCHANGED <<input, diskFills, directVars, mergeVars, out, lost>>

(* Of equal records, which are neighbours now, only the first is written.  *)
IsNew == ptr # 1 => buffer[ptr - 1] < buffer[ptr]

(* A write to a temporary file, or to the output in the direct case, that  *)
(* fails at once runs into an assertion.                                   *)
WriteFails ==
  /\ diskFills
  /\ \/ pc = "read" /\ Chunk # << >> /\ ~ (FoundEOF /\ tempFiles = << >>)
     \/ pc = "direct" /\ ptr <= Len(buffer) /\ IsNew
  /\ pc' = "abort"
  /\ UNCHANGED <<input, diskFills, readVars, directVars, mergeVars, out, lost>>

------------------------------------------------------------------------------
(* Directly *)

WriteDirect ==
  /\ pc = "direct"
  /\ ptr <= Len(buffer)
  /\ out' = IF IsNew THEN Append(out, buffer[ptr]) ELSE out
  /\ ptr' = ptr + 1
  /\ UNCHANGED <<input, diskFills, readVars, buffer, mergeVars, lost, pc>>

(* main() closes the output, and ignores the result. *)
CloseOutput ==
  /\ out' \in Closed(out)
  /\ lost' = (lost \/ out' # out)

FinishDirect ==
  /\ pc = "direct"
  /\ ptr > Len(buffer)
  /\ CloseOutput
  /\ pc' = "done"
  /\ UNCHANGED <<input, diskFills, readVars, directVars, mergeVars>>

------------------------------------------------------------------------------
(* The merge *)

(* Every run's first record is read; a run without one is left out.        *)
OpenRuns ==
  /\ pc = "open"
  /\ runs' = {r \in 1..Len(tempFiles) : tempFiles[r] # << >>}
  /\ next' = [r \in 1..Len(tempFiles) |-> 1]
  /\ tempItemsRead' = Cardinality(runs')
  /\ pc' = "merge"
  /\ UNCHANGED <<input, diskFills, readVars, directVars, itemsMerged, last, out, lost>>

NextOf(r) == tempFiles[r][next[r]]

Smallest_AnyRun == runs

(* The runs the priority queue may yield: those with a smallest record.    *)
Smallest == {r \in runs : \A s \in runs : NextOf(r) <= NextOf(s)}

(* A record that repeats the last one is dropped; the result of writing    *)
(* the others is ignored.                                                  *)
Emit(record) ==
  IF \E r \in last : ~ (r < record)
    THEN UNCHANGED <<last, out, lost>>
    ELSE /\ last' = {record}
         /\ \/ out' = Append(out, record) /\ UNCHANGED lost
            \/ diskFills /\ out' = out /\ lost' = TRUE

Advance_DropsTail(r) ==
  IF next[r] + 1 < Len(tempFiles[r])
    THEN /\ next' = [next EXCEPT ![r] = @ + 1]
         /\ tempItemsRead' = tempItemsRead + 1
         /\ UNCHANGED runs
    ELSE runs' = runs \ {r} /\ UNCHANGED <<next, tempItemsRead>>

(* readNext(): the run goes back on the queue if it has another record.    *)
Advance(r) ==
  IF next[r] < Len(tempFiles[r])
    THEN /\ next' = [next EXCEPT ![r] = @ + 1]
         /\ tempItemsRead' = tempItemsRead + 1
         /\ UNCHANGED runs
    ELSE runs' = runs \ {r} /\ UNCHANGED <<next, tempItemsRead>>

Merge ==
  /\ pc = "merge"
  /\ \E r \in Smallest : Emit(NextOf(r)) /\ Advance(r)
  /\ itemsMerged' = itemsMerged + 1
  /\ UNCHANGED <<input, diskFills, readVars, directVars, pc>>

CountsAgree_Unchecked == TRUE

(* The assertions that end the merge: what went into the temporary files   *)
(* has come out of them again.                                             *)
CountsAgree == itemsWrittenToRuns = tempItemsRead /\ itemsWrittenToRuns = itemsMerged

FinishMerge ==
  /\ pc = "merge"
  /\ runs = {}
  /\ CountsAgree
  /\ CloseOutput
  /\ pc' = "done"
  /\ UNCHANGED <<input, diskFills, readVars, directVars, mergeVars>>

CountsDiffer ==
  /\ pc = "merge"
  /\ runs = {}
  /\ ~ CountsAgree
  /\ pc' = "abort"
  /\ UNCHANGED <<input, diskFills, readVars, directVars, mergeVars, out, lost>>

Next ==
  \/ FitsInMemory \/ WriteRun \/ WriteFails \/ WriteDirect \/ FinishDirect
  \/ OpenRuns \/ Merge \/ FinishMerge \/ CountsDiffer

Spec == Init /\ [][Next]_vars

(* sort is one thread that reads and writes files: it runs until it ends.  *)
FairSpec == Spec /\ WF_vars(Next)

------------------------------------------------------------------------------

(***************************************************************************)
(* The assertion of the merge (sort.cc:155), with its reason: no run holds *)
(* back a record smaller than what was written, however the queue breaks   *)
(* ties and wherever the runs were cut.                                    *)
(***************************************************************************)
MergeAscends == \A r \in runs : \A record \in last : record <= NextOf(r)

(***************************************************************************)
(* A run that lost records on a full disk does not go unnoticed: when sort *)
(* ends normally and the output file itself was written in full, it holds  *)
(* every record of the input, in order and once (sort.cc:129, 181-182).    *)
(***************************************************************************)
LostRunsAreNoticed ==
  pc = "done" /\ ~ lost =>
    /\ Range(out) = Range(input)
    /\ \A i, j \in 1..Len(out) : i < j => out[i] < out[j]

(***************************************************************************)
(* A record that cannot be written stops the program, as the assertions on *)
(* writeRecord in the other two loops have it (sort.cc:93, 114).  The     *)
(* merge ignores the result (sort.cc:158), and main() that of fclose.      *)
(***************************************************************************)
StopsWhenDiskIsFull == pc = "done" => ~ lost

(* sort ends, and normally unless the disk fills up, on an input of any    *)
(* length, an empty one and one that exactly fills the buffer among them   *)
(* (sort.cc:72-84).                                                        *)
Terminates == <>(pc = "done" \/ (diskFills /\ pc = "abort"))

(* sort implements UniqueSort: it writes the distinct records in order,    *)
(* each as soon as its turn comes (sort.cc:89-98, 148-176).  That is       *)
(* promised if there is room: otherwise nothing is taken for a sort.       *)
Sort == INSTANCE UniqueSort WITH
  given <- IF diskFills THEN {} ELSE Range(input),
  out <- IF diskFills THEN << >> ELSE out,
  finished <- ~ diskFills /\ pc = "done"

SortsUnique == Sort!SortSpec

==============================================================================
