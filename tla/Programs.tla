------------------------------ MODULE Programs ------------------------------
(***************************************************************************)
(* The programs in the pipelines of fhat.sh, as what they write to their   *)
(* output for what they have read, and when they fail.  A program reads    *)
(* and writes a sequence: of words of 64 bits, or of lines.                *)
(*                                                                         *)
(* A program is a record whose field does is one of                        *)
(*   "cat"        words      writes a file                                 *)
(*   "zip"        columns    writes the rows of files, word by word        *)
(*   "copy"                  writes what it reads (pv)                     *)
(*   "absent"                is not installed                              *)
(*   "translate"  keys, orphansToZero                                      *)
(*   "unpack"     table      a name is a position in a table of bytes      *)
(*   "sort"       width      sorts rows, the greatest first                *)
(*   "unzip"      width      writes the words of a row to as many files    *)
(*   "rows"       width      makes rows lines (od and sed)                 *)
(*   "paste"      lines      writes lines beside those it reads            *)
(*   "head"       count                                                    *)
(***************************************************************************)
EXTENDS Columns

Copy == [does |-> "copy"]
Absent == [does |-> "absent"]
Cat(words) == [does |-> "cat", words |-> words]
ZipFiles(columns) == [does |-> "zip", columns |-> columns]
Translate(keys, orphansToZero) ==
  [does |-> "translate", keys |-> keys, orphansToZero |-> orphansToZero]
Unpack(table) == [does |-> "unpack", table |-> table]
SortRows(width) == [does |-> "sort", width |-> width]
UnzipFiles(width) == [does |-> "unzip", width |-> width]
RowLines(width) == [does |-> "rows", width |-> width]
Paste(lines) == [does |-> "paste", lines |-> lines]
FirstLines(count) == [does |-> "head", count |-> count]

(***************************************************************************)
(* zip: the first column decides how many rows there are, and has to be    *)
(* the shortest.                                                           *)
(***************************************************************************)
Shortest(columns) == Min({Len(columns[c]) : c \in DOMAIN columns})
ZipFails(columns) == Len(columns[1]) > Shortest(columns)

(* The words before the one that is missing, if one is.                    *)
ZippedWords(columns) ==
  LET n == Len(columns)
      missing == Min({c \in DOMAIN columns : Len(columns[c]) = Shortest(columns)})
      count == Shortest(columns) * n + (IF ZipFails(columns) THEN missing - 1 ELSE 0)
      word(j) == columns[((j - 1) % n) + 1][((j - 1) \div n) + 1]
  IN  [j \in 1..count |-> word(j)]

(* What unzip makes of words: the c-th file. *)
UnzippedWords(words, width, c) ==
  [k \in 1..((Len(words) - c + width) \div width) |-> words[(k - 1) * width + c]]

(***************************************************************************)
(* translate and unpack replace a word by a word.                          *)
(***************************************************************************)
InColumn(keys, node) == KeyLowerBound(keys, node) <= Len(keys)

(* Faulty variants, which the properties must tell from the code, are the  *)
(* definitions whose name says what is wrong; nothing uses them.           *)
Translatable_OrphansAbort(program, node) == node \in Range(program.keys)

Translatable(program, node) ==
  /\ InColumn(program.keys, node)
  /\ program.orphansToZero \/ node \in Range(program.keys)

PositionOf_FromOne(keys, node) ==
  IF node \in Range(keys) THEN KeyLowerBound(keys, node) ELSE 0

PositionOf(keys, node) ==
  IF node \in Range(keys) THEN KeyLowerBound(keys, node) - 1 ELSE 0

InTable(program, position) == position + 1 \in DOMAIN program.table

Replaceable(program, word) ==
  IF program.does = "translate" THEN Translatable(program, word) ELSE InTable(program, word)

Replaced(program, word) ==
  IF program.does = "translate" THEN PositionOf(program.keys, word)
                                ELSE program.table[word + 1]

Replaces(program) == program.does \in {"translate", "unpack"}

(* Such a program stops at the first word it cannot replace.               *)
Refused(program, in) == in # << >> /\ ~ Replaceable(program, in[Len(in)])

ReplacedWords_OrphansDropped(program, in) ==
  LET known == IF program.does = "translate"
               THEN SelectSeq(in, LAMBDA word : word \in Range(program.keys)) ELSE in
  IN  [k \in DOMAIN known |-> Replaced(program, known[k])]

ReplacedWords(program, in) ==
  [k \in 1..(IF Refused(program, in) THEN Len(in) - 1 ELSE Len(in)) |-> Replaced(program, in[k])]

(***************************************************************************)
(* Rows: words that are cut into rows.                                     *)
(***************************************************************************)
FullRows(words, width) ==
  [k \in 1..(Len(words) \div width) |-> SubSeq(words, (k - 1) * width + 1, k * width)]

PartOfRow(words, width) ==
  LET full == (Len(words) \div width) * width
  IN  IF full = Len(words) THEN << >> ELSE <<SubSeq(words, full + 1, Len(words))>>

RowGreater(r, s) ==
  \E k \in DOMAIN r : r[k] > s[k] /\ \A j \in 1..(k - 1) : r[j] = s[j]

(* A row that is not whole at the end is not read.                         *)
SortedRows(rows) ==
  LET above(row) == {r \in Range(rows) : RowGreater(r, row)}
  IN  [k \in 1..Cardinality(Range(rows)) |->
         CHOOSE row \in Range(rows) : Cardinality(above(row)) = k - 1]

Line(row, name) == [row |-> row, name |-> name]
NoName == 0 - 1

PastedLines(in, names, eof) ==
  [k \in 1..(IF eof /\ Len(names) > Len(in) THEN Len(names) ELSE Len(in)) |->
     Line(IF k <= Len(in) THEN in[k] ELSE << >>, IF k <= Len(names) THEN names[k] ELSE NoName)]

(***************************************************************************)
(* What a program writes in all for what it has read, which at the end of  *)
(* its input may be more, and whether it fails then.                       *)
(***************************************************************************)
Results(program, in, eof) ==
  CASE program.does = "cat"    -> program.words
    [] program.does = "zip"    -> ZippedWords(program.columns)
    [] program.does = "absent" -> << >>
    [] Replaces(program)       -> ReplacedWords(program, in)
    [] program.does = "sort"   -> IF eof THEN FlattenSeq(SortedRows(FullRows(in, program.width)))
                                         ELSE << >>
    [] program.does = "rows"   -> FullRows(in, program.width)
                                  \o (IF eof THEN PartOfRow(in, program.width) ELSE << >>)
    [] program.does = "paste"  -> PastedLines(in, program.lines, eof)
    [] OTHER                   -> in

Fails(program, in, eof) ==
  CASE program.does = "zip"    -> ZipFails(program.columns)
    [] program.does = "absent" -> TRUE
    [] Replaces(program)       -> Refused(program, in)
    [] program.does = "unzip"  -> eof /\ Len(in) % program.width # 0
    [] OTHER                   -> FALSE

(* head does not wait for the end of its input.                            *)
HasEnough_OneMore(program, in) == program.does = "head" /\ Len(in) > program.count

HasEnough(program, in) == program.does = "head" /\ Len(in) >= program.count

==============================================================================
