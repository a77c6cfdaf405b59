------------------------------- MODULE Report -------------------------------
(***************************************************************************)
(* The last part of fhat.sh: its four pipelines, one after the other, from *)
(* the columns of the analysis to instances.data.full, whose lines are the *)
(* instances that retain most, each beside the name of its class.  The     *)
(* script goes on if the last program of a pipeline has ended well.        *)
(*                                                                         *)
(* Where the script falls back to cat, pv is cat: they differ in what they *)
(* show on a terminal.                                                     *)
(***************************************************************************)
EXTENDS Pipeline

CONSTANTS
  Heaps,         \* what the analysis leaves
  PvInstalled,   \* whether pv is, on the machines to consider
  MaxRows        \* 1000

(* fhat.sh:74 *)
HeapColumns(h) ==
  <<h.retained, h.sizes, h.counts, h.dominators, h.ids, h.classOf, h.offsets>>

VARIABLES
  heap,
  pv,            \* pv is installed
  files,         \* what the pipelines have left
  command        \* the pipeline that runs, "done" or "stopped"

inputs == <<heap, pv>>
vars == <<inputs, files, command, pipeVars>>

NT == INSTANCE ClassNames WITH Tables <- {}, tables <- heap.tables

(* A heap has a row for every instance, in the order of their identifiers; *)
(* dominators are rows, counted from 0.  There is an entry of dominator    *)
(* for every instance parse has written, duplicates too (fhat.sh:56).      *)
ASSUME HeapsAssumption ==
  /\ MaxRows \in Nat \ {0} /\ PvInstalled \subseteq BOOLEAN
  /\ \A h \in Heaps :
       LET n == Len(h.ids)
       IN  /\ \A c \in 1..7 : HeapColumns(h)[c] \in Seq(Nat) /\ Len(HeapColumns(h)[c]) >= n
           /\ \A i, j \in 1..n : i < j => h.ids[i] < h.ids[j]
           /\ Range(h.dominators) \subseteq 0..(n - 1)
           /\ Len(h.retained) = n
           /\ NT!AreTables(h.tables)

Pv == IF pv THEN Copy ELSE Absent

(* fhat.sh:67-68 *)
DominatorPrograms == <<Cat(heap.dominators), Unpack(heap.ids)>>

(* fhat.sh:74-75 *)
RowPrograms ==
  <<ZipFiles([HeapColumns(heap) EXCEPT ![4] = files.dominators]), Pv,
    SortRows(7), UnzipFiles(7), FirstLines(MaxRows)>>

NamePrograms == NT!NamePrograms([heap.tables EXCEPT !.ofRows = files.rows[6]])

(* i, i.r, i.rc, i.s, i.d and i.o (fhat.sh:84). *)
ReportColumns_InFileOrder(rows) == <<rows[5], rows[1], rows[2], rows[3], rows[4], rows[7]>>

ReportColumns(rows) == <<rows[5], rows[1], rows[3], rows[2], rows[4], rows[7]>>

(* fhat.sh:84 *)
ReportPrograms ==
  <<ZipFiles(ReportColumns(files.rows)), Pv, RowLines(6), Paste(files.names),
    FirstLines(MaxRows)>>

Init ==
  /\ heap \in Heaps /\ pv \in PvInstalled
  /\ files = [dominators |-> << >>, rows |-> [c \in 1..7 |-> << >>],
              names |-> << >>, report |-> << >>]
  /\ command = "dominators"
  /\ programs = DominatorPrograms
  /\ Started(programs, read, written, status)
  /\ kills = 0

RunPrograms ==
  /\ \E p \in Stages : Step(p) \/ Kill(p)
  /\ UNCHANGED <<inputs, files, command>>

Run(name, ps) ==
  /\ UNCHANGED <<inputs, kills>>
  /\ command' = name
  /\ programs' = ps
  /\ Started(ps, read', written', status')

Finished(name) == command = name /\ Over /\ Succeeded

SortTheRows ==
  /\ Finished("dominators")
  /\ files' = [files EXCEPT !.dominators = written[Final]]
  /\ Run("rows", RowPrograms')

NameTheRows ==
  /\ Finished("rows")
  /\ files' = [files EXCEPT !.rows = [c \in 1..7 |-> UnzippedWords(written[4], 7, c)]]
  /\ Run("names", NamePrograms')

WriteReport ==
  /\ Finished("names")
  /\ files' = [files EXCEPT !.names = written[Final]]
  /\ Run("report", ReportPrograms')

Done ==
  /\ Finished("report")
  /\ files' = [files EXCEPT !.report = written[Final]]
  /\ command' = "done"
  /\ UNCHANGED <<inputs, pipeVars>>

(* set -e *)
StopScript ==
  /\ command \notin {"done", "stopped"} /\ Over /\ ~ Succeeded
  /\ command' = "stopped"
  /\ UNCHANGED <<inputs, files, pipeVars>>

Script == SortTheRows \/ NameTheRows \/ WriteReport \/ Done \/ StopScript

Next == RunPrograms \/ Script

Spec == Init /\ [][Next]_vars

FairSpec ==
  /\ Spec
  /\ WF_vars(Script)
  /\ \A p \in 1..7 : WF_vars(p \in Stages /\ Step(p) /\ UNCHANGED <<inputs, files, command>>)

------------------------------------------------------------------------------
(* The line of the report on a row of the heap, with the dominator's       *)
(* identifier.                                                             *)
RowLine(row) ==
  <<heap.ids[row], heap.retained[row], heap.counts[row], heap.sizes[row],
    heap.ids[heap.dominators[row] + 1], heap.offsets[row]>>

RowName(row) == NT!NameOf(heap.tables, heap.classOf[row])

HeapRows == DOMAIN heap.ids

(* What is, or is being, written to instances.data.full.                   *)
ReportSoFar == IF command = "report" THEN written[Final] ELSE files.report

(***************************************************************************)
(* Every line of the report is about one instance: its numbers, or the     *)
(* first of them, and the name of its class, if there is one.  This holds  *)
(* whichever program dies, although the columns of a row have gone through *)
(* three pipelines and nine files (fhat.sh:75-84).                         *)
(***************************************************************************)
LinesAligned ==
  \A k \in DOMAIN ReportSoFar :
    LET line == ReportSoFar[k]
    IN  line.row = << >> \/
        \E row \in HeapRows :
          IsPrefix(line.row, RowLine(row)) /\ line.name \in {NoName, RowName(row)}

(* What comes before a row: by what it retains, its size, its count, its   *)
(* dominator and then itself.                                              *)
Key(row) ==
  <<heap.retained[row], heap.sizes[row], heap.counts[row], RowLine(row)[5], row>>

Above(row) == {r \in HeapRows : RowGreater(Key(r), Key(row))}

Ranked(k) == CHOOSE row \in HeapRows : Cardinality(Above(row)) = k - 1

(* translate aborts at the class that is greater than all the known ones,  *)
(* although orphans become 0 (translate.cc:69, fhat.sh:82).                *)
ClassesKnown ==
  \A row \in HeapRows : InColumn(heap.tables.classes, heap.classOf[row])

HowMany == Min({MaxRows, Cardinality(HeapRows)})

(***************************************************************************)
(* If nothing is killed, pv is there and the script ends well, its report  *)
(* is of the instances that retain most, unless translate has given up.    *)
(* Each has its line, which begins with the columns in which               *)
(* README.markdown:47 and the script agree: its identifier, what it        *)
(* retains, in bytes and instances, its size and its dominator; and ends   *)
(* with the name of its class (fhat.sh:75-84).                             *)
(***************************************************************************)
ReportsTopRows ==
  command = "done" /\ kills = 0 /\ ClassesKnown /\ pv =>
    /\ Len(files.report) = HowMany
    /\ \A k \in 1..HowMany :
         /\ SubSeq(files.report[k].row, 1, 5) = SubSeq(RowLine(Ranked(k)), 1, 5)
         /\ files.report[k].name = RowName(Ranked(k))

(* id, retained heap, retained count, object size, dominator, class id     *)
DocumentedLine(row) == Append(SubSeq(RowLine(row), 1, 5), heap.classOf[row])

(***************************************************************************)
(* The script generates "a usable report in instances.data.full", whose    *)
(* columns are "id, retained heap, retained count, object size, dominator, *)
(* class id, class name" (README.markdown:45-47), with pv or without, for  *)
(* which it has a fallback (fhat.sh:4-5).                                  *)
(***************************************************************************)
ReportAsDocumented ==
  command = "done" /\ kills = 0 /\ ClassesKnown =>
    files.report =
      [k \in 1..HowMany |-> Line(DocumentedLine(Ranked(k)), RowName(Ranked(k)))]

(***************************************************************************)
(* Whatever dies, the script comes to its end: no program waits for a dead *)
(* one, and none for head, which leaves early.  Unless one is killed it    *)
(* ends well (fhat.sh:2, 75, 84).                                          *)
(***************************************************************************)
Ends == <>(command = "done" \/ (command = "stopped" /\ kills > 0))

==============================================================================
