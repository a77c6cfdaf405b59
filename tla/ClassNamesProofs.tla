-------------------------- MODULE ClassNamesProofs --------------------------
(***************************************************************************)
(* For any files, any size of pipes and buffers and any programs that      *)
(* die: names are beside the right rows and no position is outside its     *)
(* table.  What every program writes is, word by word, what its row        *)
(* deserves, so that a reader never sees anything else.                    *)
(***************************************************************************)
EXTENDS ClassNames, SequenceTheorems, TLAPS

(* The word the p-th program writes for the k-th row.                      *)
Word(t, p, k) ==
  LET class == t.ofRows[k]
      name == t.classNames[PositionOf(t.classes, class) + 1]
      offset == t.nameOffsets[PositionOf(t.names, name) + 1]
  IN  CASE p = 1 -> class
        [] p = 2 -> PositionOf(t.classes, class)
        [] p = 3 -> name
        [] p = 4 -> PositionOf(t.names, name)
        [] p = 5 -> offset
        [] OTHER -> t.strings[offset + 1]

Typed ==
  /\ tables \in Tables /\ programs = NamePrograms(tables)
  /\ read \in [1..7 -> Nat] /\ written \in [1..7 -> Seq(Nat)]
  /\ status \in [1..7 -> {"running", "ended", "dead"}]
  /\ kills \in 0..MaxKills

Connected ==
  /\ read[1] = 0
  /\ \A p \in 2..7 : /\ read[p] <= Len(written[p - 1])
                     /\ Len(written[p - 1]) - read[p] <= Capacity

WordsRight ==
  \A p \in 1..7 :
    /\ Len(written[p]) <= Len(tables.ofRows)
    /\ \A k \in 1..Len(written[p]) : written[p][k] = Word(tables, p, k)

Inv == Typed /\ Connected /\ WordsRight

------------------------------------------------------------------------------
(* std::lower_bound finds a key that is there.                             *)
LEMMA KeyFound ==
  ASSUME NEW keys \in Seq(Nat), NEW node \in Range(keys),
         \A i, j \in DOMAIN keys : i < j => keys[i] < keys[j]
  PROVE  KeyLowerBound(keys, node) \in 1..Len(keys)
<1> DEFINE below == {j \in 1..Len(keys) : keys[j] < node}
<1>1. Len(keys) \in Nat /\ DOMAIN keys = 1..Len(keys)
      /\ \A j \in 1..Len(keys) : keys[j] \in Nat
  BY LenProperties, ElementOfSeq
<1>2. PICK i \in 1..Len(keys) : keys[i] = node
  BY <1>1 DEF Range
<1>3. \A j \in 1..Len(keys) : j \in below <=> j < i
  <2>1. ASSUME NEW j \in 1..Len(keys) PROVE keys[j] < node <=> j < i
    <3>1. CASE j < i
      BY <1>1, <1>2, <3>1
    <3>2. CASE j = i
      BY <1>1, <1>2, <3>2
    <3>3. CASE i < j
      <4>1. node < keys[j]
        BY <1>1, <1>2, <3>3
      <4>2. node \in Nat /\ keys[j] \in Nat
        BY <1>1, <1>2
      <4>3. QED
        BY <1>1, <3>3, <4>1, <4>2
    <3>4. QED
      BY <1>1, <3>1, <3>2, <3>3
  <2>2. QED
    BY <2>1
<1> HIDE DEF below
<1> DEFINE Splits(p) == \A j \in 1..Len(keys) : j \in below <=> j < p
           q == CHOOSE p \in 1..(Len(keys) + 1) : Splits(p)
<1>4. \E p \in 1..(Len(keys) + 1) : Splits(p)
  BY <1>1, <1>3
<1>5. q \in 1..(Len(keys) + 1) /\ Splits(q)
  BY <1>4
<1>6. q <= i
  BY <1>1, <1>3, <1>5
<1>7. KeyLowerBound(keys, node) = q
  BY DEF KeyLowerBound, PartitionPoint, below
<1> HIDE DEF q
<1>8. QED
  BY <1>1, <1>5, <1>6, <1>7

LEMMA PositionIsInColumn ==
  ASSUME NEW keys \in Seq(Nat), keys # << >>, NEW node,
         \A i, j \in DOMAIN keys : i < j => keys[i] < keys[j]
  PROVE  PositionOf(keys, node) \in 0..(Len(keys) - 1)
<1>1. Len(keys) \in Nat \ {0}
  BY EmptySeq
<1>2. CASE node \in Range(keys)
  BY <1>1, <1>2, KeyFound DEF PositionOf
<1>3. CASE node \notin Range(keys)
  BY <1>1, <1>3 DEF PositionOf
<1>4. QED
  BY <1>2, <1>3

LEMMA TablesTypes ==
  ASSUME NEW t \in Tables
  PROVE  /\ t.ofRows \in Seq(Nat) /\ Len(t.ofRows) \in Nat
         /\ \A k \in 1..Len(t.ofRows) : t.ofRows[k] \in Nat
         /\ t.classes \in Seq(Nat) /\ t.classes # << >> /\ Len(t.classes) \in Nat
         /\ t.names \in Seq(Nat) /\ t.names # << >> /\ Len(t.names) \in Nat
         /\ \A k \in 1..Len(t.names) : t.names[k] \in Nat
         /\ t.strings \in Seq(Nat) /\ Len(t.strings) \in Nat
         /\ \A k \in 1..Len(t.strings) : t.strings[k] \in Nat
         /\ DOMAIN t.strings = 1..Len(t.strings) /\ DOMAIN t.names = 1..Len(t.names)
         /\ t.classNames \in [1..Len(t.classes) -> Range(t.names)]
         /\ t.nameOffsets \in [1..Len(t.names) -> 0..(Len(t.strings) - 1)]
<1>1. /\ t.ofRows \in Seq(Nat) /\ t.strings \in Seq(Nat)
      /\ t.classes \in Seq(Nat) /\ t.classes # << >>
      /\ t.names \in Seq(Nat) /\ t.names # << >>
      /\ t.classNames \in [1..Len(t.classes) -> Range(t.names)]
      /\ t.nameOffsets \in [1..Len(t.names) -> 0..(Len(t.strings) - 1)]
  BY TablesAssumption DEF AreTables
<1>2. \A s \in Seq(Nat) : /\ Len(s) \in Nat /\ DOMAIN s = 1..Len(s)
                          /\ \A k \in 1..Len(s) : s[k] \in Nat
  BY LenProperties, ElementOfSeq
<1>3. QED
  BY <1>1, <1>2

(* Every word is a number, and every position one of the next table.       *)
LEMMA WordTypes ==
  ASSUME NEW t \in Tables, NEW k \in 1..Len(t.ofRows)
  PROVE  /\ \A p \in 1..7 : Word(t, p, k) \in Nat
         /\ Word(t, 2, k) + 1 \in DOMAIN t.classNames
         /\ Word(t, 4, k) + 1 \in DOMAIN t.nameOffsets
         /\ Word(t, 5, k) + 1 \in DOMAIN t.strings
<1> DEFINE class == t.ofRows[k]
           atClass == PositionOf(t.classes, class)
           name == t.classNames[atClass + 1]
           atName == PositionOf(t.names, name)
           offset == t.nameOffsets[atName + 1]
<1>1. class \in Nat
  BY TablesTypes
<1>2. atClass \in 0..(Len(t.classes) - 1)
  BY TablesAssumption, PositionIsInColumn DEF AreTables
<1>3. Len(t.classes) \in Nat /\ Len(t.names) \in Nat /\ Len(t.strings) \in Nat
      /\ DOMAIN t.strings = 1..Len(t.strings)
  BY TablesTypes
<1>4. name \in Range(t.names) /\ atClass + 1 \in DOMAIN t.classNames
  <2>1. atClass + 1 \in 1..Len(t.classes)
    BY <1>2, <1>3
  <2>2. t.classNames \in [1..Len(t.classes) -> Range(t.names)]
    BY TablesTypes
  <2> HIDE DEF atClass
  <2>3. QED
    BY <2>1, <2>2
<1>5. name \in Nat
  <2>1. DOMAIN t.names = 1..Len(t.names) /\ \A j \in 1..Len(t.names) : t.names[j] \in Nat
    BY TablesTypes
  <2>2. \A s \in Range(t.names) : s \in Nat
    BY <2>1 DEF Range
  <2>3. QED
    BY <1>4, <2>2
<1>6. atName \in 0..(Len(t.names) - 1)
  BY TablesAssumption, PositionIsInColumn DEF AreTables
<1>7. offset \in 0..(Len(t.strings) - 1) /\ atName + 1 \in DOMAIN t.nameOffsets
  <2>1. atName + 1 \in 1..Len(t.names)
    BY <1>3, <1>6
  <2>2. t.nameOffsets \in [1..Len(t.names) -> 0..(Len(t.strings) - 1)]
    BY TablesTypes
  <2> HIDE DEF atName
  <2>3. QED
    BY <2>1, <2>2
<1>8. t.strings[offset + 1] \in Nat /\ offset + 1 \in DOMAIN t.strings
  <2>1. offset + 1 \in 1..Len(t.strings)
    BY <1>3, <1>7
  <2> HIDE DEF offset
  <2>2. QED
    BY <2>1, TablesTypes
<1>9. /\ Word(t, 1, k) = class /\ Word(t, 2, k) = atClass /\ Word(t, 3, k) = name
      /\ Word(t, 4, k) = atName /\ Word(t, 5, k) = offset
      /\ Word(t, 6, k) = t.strings[offset + 1] /\ Word(t, 7, k) = t.strings[offset + 1]
  BY DEF Word
<1> HIDE DEF class, atClass, name, atName, offset
<1>10. /\ atClass \in Nat /\ atName \in Nat /\ offset \in Nat
  BY <1>2, <1>6, <1>7
<1>11. \A p \in 1..7 : p = 1 \/ p = 2 \/ p = 3 \/ p = 4 \/ p = 5 \/ p = 6 \/ p = 7
  OBVIOUS
<1>12. QED
  BY <1>1, <1>4, <1>5, <1>7, <1>8, <1>9, <1>10, <1>11

------------------------------------------------------------------------------
LEMMA NamePipeline ==
  ASSUME Typed
  PROVE  /\ Stages = 1..7 /\ Final = 7
         /\ programs[1] = Cat(tables.ofRows)
         /\ programs[2] = Translate(tables.classes, TRUE)
         /\ programs[3] = Unpack(tables.classNames)
         /\ programs[4] = Translate(tables.names, FALSE)
         /\ programs[5] = Unpack(tables.nameOffsets)
         /\ programs[6] = Unpack(tables.strings)
         /\ programs[7] = Copy
BY DEF Typed, NamePrograms, Stages, Final

LEMMA NoUnzip ==
  ASSUME Typed
  PROVE  \A p \in 1..7 : Piped(p) = written[p] /\ (ToFile(p) <=> p = 7)
<1>1. \A p \in 1..7 : programs[p].does # "unzip"
  <2>1. \A p \in 1..7 : p = 1 \/ p = 2 \/ p = 3 \/ p = 4 \/ p = 5 \/ p = 6 \/ p = 7
    OBVIOUS
  <2>2. QED
    BY <2>1, NamePipeline DEF Cat, Translate, Unpack, Copy
<1>2. QED
  BY <1>1, NamePipeline DEF Piped, ToFile

LEMMA InvFacts ==
  ASSUME Inv
  PROVE  /\ tables \in Tables /\ tables.ofRows \in Seq(Nat) /\ Len(tables.ofRows) \in Nat
         /\ Capacity \in Nat /\ read[1] = 0
         /\ \A p \in 1..7 : /\ read[p] \in Nat /\ written[p] \in Seq(Nat)
                            /\ Len(written[p]) \in Nat
                            /\ Len(written[p]) <= Len(tables.ofRows)
                            /\ \A k \in 1..Len(written[p]) :
                                 written[p][k] = Word(tables, p, k) /\ written[p][k] \in Nat
         /\ \A p \in 2..7 : /\ p - 1 \in 1..7 /\ read[p] \in Nat
                            /\ written[p - 1] \in Seq(Nat) /\ Len(written[p - 1]) \in Nat
                            /\ read[p] <= Len(written[p - 1])
                            /\ Len(written[p - 1]) - read[p] <= Capacity
<1>1. tables \in Tables /\ tables.ofRows \in Seq(Nat) /\ Len(tables.ofRows) \in Nat
  <2>1. tables \in Tables
    BY DEF Inv, Typed
  <2>2. QED
    BY <2>1, TablesTypes
<1>2. Capacity \in Nat
  BY PipeAssumption
<1>3. \A p \in 1..7 : read[p] \in Nat /\ written[p] \in Seq(Nat) /\ Len(written[p]) \in Nat
  <2>1. read \in [1..7 -> Nat] /\ written \in [1..7 -> Seq(Nat)]
    BY DEF Inv, Typed
  <2>2. QED
    BY <2>1, LenProperties
<1>4. \A p \in 1..7 : \A k \in 1..Len(written[p]) : written[p][k] \in Nat
  BY <1>3, ElementOfSeq
<1>5. \A p \in 2..7 : p - 1 \in 1..7
  OBVIOUS
<1>6. Connected /\ WordsRight
  BY DEF Inv
<1>7. read[1] = 0
  BY <1>6 DEF Connected
<1>8. \A p \in 2..7 : read[p] <= Len(written[p - 1]) /\ Len(written[p - 1]) - read[p] <= Capacity
  BY <1>6 DEF Connected
<1>9. \A p \in 1..7 : /\ Len(written[p]) <= Len(tables.ofRows)
                      /\ \A k \in 1..Len(written[p]) : written[p][k] = Word(tables, p, k)
  BY <1>6 DEF WordsRight
<1>10. \A p \in 2..7 : /\ p \in 1..7 /\ read[p] \in Nat
                       /\ written[p - 1] \in Seq(Nat) /\ Len(written[p - 1]) \in Nat
  <2>1. ASSUME NEW p \in 2..7
        PROVE  /\ p \in 1..7 /\ read[p] \in Nat
               /\ written[p - 1] \in Seq(Nat) /\ Len(written[p - 1]) \in Nat
    <3>1. p \in 1..7 /\ p - 1 \in 1..7
      OBVIOUS
    <3>2. read[p] \in Nat
      BY <1>3, <3>1
    <3>3. written[p - 1] \in Seq(Nat) /\ Len(written[p - 1]) \in Nat
      BY <1>3, <3>1
    <3>4. QED
      BY <3>1, <3>2, <3>3
  <2>2. QED
    BY <2>1
<1>11. QED
  BY <1>1, <1>2, <1>3, <1>4, <1>5, <1>7, <1>8, <1>9, <1>10

(* What a program has read are the words of the first rows.                *)
LEMMA InputRight ==
  ASSUME Inv, NEW p \in 2..7
  PROVE  /\ Before(p) = written[p - 1]
         /\ Input(p) \in Seq(Nat) /\ Len(Input(p)) = read[p]
         /\ read[p] <= Len(tables.ofRows)
         /\ \A k \in 1..read[p] : Input(p)[k] = Word(tables, p - 1, k)
<1>1. Before(p) = written[p - 1]
  BY NoUnzip DEF Inv, Before
<1>2. written[p - 1] \in Seq(Nat) /\ read[p] \in Nat /\ read[p] <= Len(written[p - 1])
  BY InvFacts
<1>3. Len(written[p - 1]) \in Nat /\ \A k \in 1..Len(written[p - 1]) : written[p - 1][k] \in Nat
  BY InvFacts
<1>4. \A k \in 1..read[p] : written[p - 1][k] \in Nat
  BY <1>2, <1>3
<1>5. /\ SubSeq(written[p - 1], 1, read[p]) \in Seq(Nat)
      /\ Len(SubSeq(written[p - 1], 1, read[p])) = IF 1 <= read[p] THEN read[p] - 1 + 1 ELSE 0
      /\ \A k \in 1..(read[p] - 1 + 1) :
           SubSeq(written[p - 1], 1, read[p])[k] = written[p - 1][1 + k - 1]
  <2>1. 1 \in Int /\ read[p] \in Int
    BY <1>2
  <2>2. QED
    BY <1>4, <2>1, SubSeqProperties
<1>6. /\ Len(Input(p)) = read[p] /\ Input(p) \in Seq(Nat)
      /\ \A k \in 1..read[p] : Input(p)[k] = written[p - 1][k]
  BY <1>1, <1>2, <1>5 DEF Input
<1>7. /\ Len(written[p - 1]) <= Len(tables.ofRows)
      /\ \A k \in 1..Len(written[p - 1]) : written[p - 1][k] = Word(tables, p - 1, k)
  BY InvFacts
<1>8. Len(tables.ofRows) \in Nat
  BY InvFacts
<1>9. QED
  BY <1>1, <1>2, <1>3, <1>6, <1>7, <1>8

(* A program in between replaces the word of a row by the next word of it. *)
LEMMA ReplacedRight ==
  ASSUME Inv, NEW p \in 2..6, NEW k \in 1..Len(tables.ofRows)
  PROVE  /\ Replaces(programs[p])
         /\ Replaced(programs[p], Word(tables, p - 1, k)) = Word(tables, p, k)
         /\ programs[p].does = "unpack" => InTable(programs[p], Word(tables, p - 1, k))
<1>1. tables \in Tables /\ (p = 2 \/ p = 3 \/ p = 4 \/ p = 5 \/ p = 6) /\ Typed
  BY DEF Inv, Typed
<1>2. CASE p = 2
  <2>1. programs[p] = Translate(tables.classes, TRUE)
    BY <1>1, <1>2, NamePipeline
  <2>2. programs[p].does = "translate" /\ programs[p].keys = tables.classes
    BY <2>1 DEF Translate
  <2>3. Replaced(programs[p], Word(tables, 1, k)) = Word(tables, 2, k)
    BY <2>2 DEF Replaced, Word
  <2>4. QED
    BY <1>2, <2>2, <2>3 DEF Replaces
<1>3. CASE p = 3
  <2>1. programs[p] = Unpack(tables.classNames)
    BY <1>1, <1>3, NamePipeline
  <2>2. programs[p].does = "unpack" /\ programs[p].table = tables.classNames
    BY <2>1 DEF Unpack
  <2>3. Replaced(programs[p], Word(tables, 2, k)) = Word(tables, 3, k)
    BY <2>2 DEF Replaced, Word
  <2>4. InTable(programs[p], Word(tables, 2, k))
    BY <1>1, <2>2, WordTypes DEF InTable
  <2>5. QED
    BY <1>3, <2>2, <2>3, <2>4 DEF Replaces
<1>4. CASE p = 4
  <2>1. programs[p] = Translate(tables.names, FALSE)
    BY <1>1, <1>4, NamePipeline
  <2>2. programs[p].does = "translate" /\ programs[p].keys = tables.names
    BY <2>1 DEF Translate
  <2>3. Replaced(programs[p], Word(tables, 3, k)) = Word(tables, 4, k)
    BY <2>2 DEF Replaced, Word
  <2>4. QED
    BY <1>4, <2>2, <2>3 DEF Replaces
<1>5. CASE p = 5
  <2>1. programs[p] = Unpack(tables.nameOffsets)
    BY <1>1, <1>5, NamePipeline
  <2>2. programs[p].does = "unpack" /\ programs[p].table = tables.nameOffsets
    BY <2>1 DEF Unpack
  <2>3. Replaced(programs[p], Word(tables, 4, k)) = Word(tables, 5, k)
    BY <2>2 DEF Replaced, Word
  <2>4. InTable(programs[p], Word(tables, 4, k))
    BY <1>1, <2>2, WordTypes DEF InTable
  <2>5. QED
    BY <1>5, <2>2, <2>3, <2>4 DEF Replaces
<1>6. CASE p = 6
  <2>1. programs[p] = Unpack(tables.strings)
    BY <1>1, <1>6, NamePipeline
  <2>2. programs[p].does = "unpack" /\ programs[p].table = tables.strings
    BY <2>1 DEF Unpack
  <2>3. Replaced(programs[p], Word(tables, 5, k)) = Word(tables, 6, k)
    BY <2>2 DEF Replaced, Word
  <2>4. InTable(programs[p], Word(tables, 5, k))
    BY <1>1, <2>2, WordTypes DEF InTable
  <2>5. QED
    BY <1>6, <2>2, <2>3, <2>4 DEF Replaces
<1>7. QED
  BY <1>1, <1>2, <1>3, <1>4, <1>5, <1>6

(* Whatever a program still has to write is right, too.                    *)
LEMMA ResultRight ==
  ASSUME Inv, NEW p \in 1..7
  PROVE  /\ Len(Result(p)) \in 0..Len(tables.ofRows)
         /\ \A k \in 1..Len(Result(p)) : Result(p)[k] = Word(tables, p, k)
<1>1. tables \in Tables /\ Len(tables.ofRows) \in Nat /\ Typed
  BY InvFacts DEF Inv
<1>2. CASE p = 1
  <2>1. Result(p) = tables.ofRows
    <3>1. programs[p] = Cat(tables.ofRows)
      BY <1>1, <1>2, NamePipeline
    <3>2. programs[p].does = "cat" /\ programs[p].words = tables.ofRows
      BY <3>1 DEF Cat
    <3>3. QED
      BY <3>2 DEF Result, Results, Replaces
  <2>2. QED
    BY <1>1, <1>2, <2>1 DEF Word
<1>3. CASE p = 7
  <2>1. Result(p) = Input(p)
    <3>1. programs[p] = [does |-> "copy"]
      BY <1>1, <1>3, NamePipeline DEF Copy
    <3>2. programs[p].does = "copy"
      BY <3>1
    <3>3. QED
      BY <3>2 DEF Result, Results, Replaces
  <2>2. \A k \in 1..Len(Input(p)) : Input(p)[k] = Word(tables, 6, k)
    <3>1. p \in 2..7 /\ p - 1 = 6
      BY <1>3
    <3>2. QED
      BY <3>1, InputRight
  <2>3. \A k : Word(tables, 6, k) = Word(tables, 7, k)
    BY DEF Word
  <2>4. Len(Input(p)) \in 0..Len(tables.ofRows)
    <3>1. p \in 2..7 /\ read[p] \in Nat
      BY <1>3, InvFacts
    <3>2. Len(Input(p)) = read[p] /\ read[p] <= Len(tables.ofRows)
      BY <3>1, InputRight
    <3>3. QED
      BY <1>1, <3>1, <3>2
  <2>5. QED
    BY <1>3, <2>1, <2>2, <2>3, <2>4
<1>4. CASE p \in 2..6
  <2> DEFINE n == IF Refused(programs[p], Input(p)) THEN Len(Input(p)) - 1 ELSE Len(Input(p))
             f == [k \in 1..n |-> Replaced(programs[p], Input(p)[k])]
  <2>1. Replaces(programs[p])
    <3>1. p = 2 \/ p = 3 \/ p = 4 \/ p = 5 \/ p = 6
      BY <1>4
    <3>2. QED
      BY <1>1, <3>1, NamePipeline DEF Replaces, Translate, Unpack
  <2>2. Result(p) = f
    BY <2>1 DEF Result, Results, Replaces, ReplacedWords
  <2>3. /\ Input(p) \in Seq(Nat) /\ Len(Input(p)) = read[p]
        /\ read[p] \in 0..Len(tables.ofRows)
    <3>1. p \in 2..7
      BY <1>4
    <3>2. read[p] \in Nat
      BY <3>1, InvFacts
    <3>3. /\ Input(p) \in Seq(Nat) /\ Len(Input(p)) = read[p]
          /\ read[p] <= Len(tables.ofRows)
      BY <1>1, <3>1, InputRight
    <3>4. Len(tables.ofRows) \in Nat
      BY <1>1, InvFacts
    <3>5. QED
      BY <3>2, <3>3, <3>4
  <2>4. Refused(programs[p], Input(p)) => Len(Input(p)) > 0
    BY <2>3, EmptySeq DEF Refused
  <2>5. n \in 0..read[p]
    BY <2>3, <2>4
  <2> HIDE DEF n
  <2>6. \A k \in 1..n : f[k] = Word(tables, p, k)
    <3>1. ASSUME NEW k \in 1..n PROVE f[k] = Word(tables, p, k)
      <4>1. k \in 1..read[p] /\ k \in 1..Len(tables.ofRows)
        BY <1>1, <2>3, <2>5
      <4>2. Input(p)[k] = Word(tables, p - 1, k)
        <5>1. p \in 2..7
          BY <1>4
        <5>2. QED
          BY <4>1, <5>1, InputRight
      <4>3. Replaced(programs[p], Word(tables, p - 1, k)) = Word(tables, p, k)
        BY <1>4, <4>1, ReplacedRight
      <4>4. QED
        BY <4>2, <4>3
    <3>2. QED
      BY <3>1
  <2>7. \A k \in 1..n : f[k] \in Nat
    <3>1. ASSUME NEW k \in 1..n PROVE f[k] \in Nat
      <4>1. k \in 1..Len(tables.ofRows)
        BY <1>1, <2>3, <2>5
      <4>2. Word(tables, p, k) \in Nat
        BY <1>1, <4>1, WordTypes
      <4>3. QED
        BY <2>6, <4>2
    <3>2. QED
      BY <3>1
  <2>8. f \in Seq(Nat) /\ Len(f) = n
    <3>1. f \in [1..n -> Nat]
      BY <2>7
    <3>2. n \in Nat
      BY <2>5
    <3>3. QED
      BY <3>1, <3>2
  <2> HIDE DEF f
  <2>9. QED
    BY <1>1, <2>2, <2>3, <2>5, <2>6, <2>8
<1>5. QED
  BY <1>2, <1>3, <1>4

------------------------------------------------------------------------------
LEMMA ReadKeepsInv ==
  ASSUME Inv, NEW p \in 1..7, Read(p), UNCHANGED tables
  PROVE  Inv'
<1>1. p \in 2..7
  <2>1. CASE p = 1
    <3>1. Before(p) = << >> /\ read[p] = 0
      BY <2>1, InvFacts DEF Before
    <3>2. QED
      BY <3>1 DEF Read
  <2>2. QED
    BY <2>1
<1>2. read[p] < Len(written[p - 1])
  BY <1>1, InputRight DEF Read
<1>3. /\ read' = [read EXCEPT ![p] = @ + 1] /\ written' = written /\ status' = status
      /\ programs' = programs /\ kills' = kills
  BY DEF Read
<1>4. read[p] \in Nat /\ \A q \in 1..7 : Len(written[q]) \in Nat
  BY InvFacts
<1>5. Typed'
  <2>1. read' \in [1..7 -> Nat]
    <3>1. read \in [1..7 -> Nat]
      BY DEF Inv, Typed
    <3>2. read[p] + 1 \in Nat
      BY <1>4
    <3>3. QED
      BY <1>3, <3>1, <3>2
  <2>2. QED
    BY <1>3, <2>1 DEF Inv, Typed
<1>6. Connected'
  <2>1. read'[1] = 0
    <3>1. read[1] = 0 /\ p # 1
      BY <1>1, InvFacts
    <3>2. read \in [1..7 -> Nat]
      BY DEF Inv, Typed
    <3>3. QED
      BY <1>3, <3>1, <3>2
  <2>2. ASSUME NEW q \in 2..7
        PROVE  read'[q] <= Len(written[q - 1]) /\ Len(written[q - 1]) - read'[q] <= Capacity
    <3>1. /\ read[q] \in Nat /\ Len(written[q - 1]) \in Nat /\ Capacity \in Nat
          /\ read[q] <= Len(written[q - 1]) /\ Len(written[q - 1]) - read[q] <= Capacity
      BY InvFacts
    <3>2. read \in [1..7 -> Nat]
      BY DEF Inv, Typed
    <3>3. CASE q = p
      <4>1. read'[q] = read[q] + 1
        BY <1>3, <3>2, <3>3
      <4>2. QED
        BY <1>2, <3>1, <3>3, <4>1
    <3>4. CASE q # p
      <4>1. read'[q] = read[q]
        BY <1>3, <3>2, <3>4
      <4>2. QED
        BY <3>1, <4>1
    <3>5. QED
      BY <3>3, <3>4
  <2>3. QED
    BY <1>3, <2>1, <2>2 DEF Connected
<1>7. WordsRight'
  BY <1>3 DEF Inv, WordsRight
<1>8. QED
  BY <1>5, <1>6, <1>7 DEF Inv

LEMMA WriteKeepsInv ==
  ASSUME Inv, NEW p \in 1..7, Write(p), UNCHANGED tables
  PROVE  Inv'
<1> DEFINE n == Len(written[p])
           word == Result(p)[n + 1]
<1>1. /\ written' = [written EXCEPT ![p] = Append(written[p], word)]
      /\ read' = read /\ status' = status /\ programs' = programs /\ kills' = kills
  BY DEF Write
<1>2. n \in Nat /\ written[p] \in Seq(Nat) /\ Len(tables.ofRows) \in Nat /\ tables \in Tables
  BY InvFacts
<1>3. n < Len(Result(p)) /\ Len(Result(p)) \in 0..Len(tables.ofRows)
  BY ResultRight DEF Write
<1>4. n + 1 \in 1..Len(tables.ofRows) /\ word = Word(tables, p, n + 1)
  <2>1. \A k \in 1..Len(Result(p)) : Result(p)[k] = Word(tables, p, k)
    BY ResultRight
  <2> HIDE DEF n
  <2>2. n + 1 \in 1..Len(Result(p)) /\ n + 1 \in 1..Len(tables.ofRows)
    BY <1>2, <1>3
  <2>3. QED
    BY <2>1, <2>2
<1>5. word \in Nat
  BY <1>2, <1>4, WordTypes
<1> HIDE DEF word
<1> DEFINE longer == Append(written[p], word)
<1>6. /\ longer \in Seq(Nat) /\ Len(longer) = n + 1
      /\ \A k \in 1..n : longer[k] = written[p][k]
      /\ longer[n + 1] = word
  BY <1>2, <1>5
<1> HIDE DEF longer
<1>7. /\ written'[p] = longer
      /\ \A q \in 1..7 : q # p => written'[q] = written[q]
      /\ written' \in [1..7 -> Seq(Nat)]
  BY <1>1, <1>6 DEF Inv, Typed, longer
<1>8. Typed'
  BY <1>1, <1>7 DEF Inv, Typed
<1>9. p # 7 => n - read[p + 1] < Capacity
  BY NoUnzip DEF Inv, Write, Room
<1>10. Connected'
  <2>1. ASSUME NEW q \in 2..7
        PROVE  read[q] <= Len(written'[q - 1]) /\ Len(written'[q - 1]) - read[q] <= Capacity
    <3>1. read[q] \in Nat /\ Capacity \in Nat /\ Connected
      BY InvFacts DEF Inv
    <3>2. read[q] <= Len(written[q - 1]) /\ Len(written[q - 1]) - read[q] <= Capacity
      BY <3>1 DEF Connected
    <3>3. CASE q - 1 = p
      <4>1. q = p + 1 /\ p # 7
        BY <3>3
      <4>2. n - read[q] < Capacity /\ read[q] <= n
        BY <1>9, <3>2, <3>3, <4>1
      <4>3. Len(written'[q - 1]) = n + 1
        BY <1>6, <1>7, <3>3
      <4> HIDE DEF n
      <4>4. QED
        BY <1>2, <3>1, <4>2, <4>3
    <3>4. CASE q - 1 # p
      <4>1. q - 1 \in 1..7
        OBVIOUS
      <4>2. written'[q - 1] = written[q - 1]
        BY <1>7, <3>4, <4>1
      <4>3. QED
        BY <3>2, <4>2
    <3>5. QED
      BY <3>3, <3>4
  <2>2. QED
    BY <1>1, <2>1 DEF Inv, Connected
<1>11. WordsRight'
  <2>1. ASSUME NEW q \in 1..7
        PROVE  /\ Len(written'[q]) <= Len(tables.ofRows)
               /\ \A k \in 1..Len(written'[q]) : written'[q][k] = Word(tables, q, k)
    <3>1. CASE q = p
      <4>1. \A k \in 1..n : written[p][k] = Word(tables, p, k)
        BY DEF Inv, WordsRight
      <4>2. ASSUME NEW k \in 1..(n + 1) PROVE longer[k] = Word(tables, p, k)
        <5>1. CASE k = n + 1
          BY <1>4, <1>6, <5>1
        <5>2. CASE k \in 1..n
          BY <1>6, <4>1, <5>2
        <5>3. QED
          BY <1>2, <5>1, <5>2
      <4>3. Len(longer) <= Len(tables.ofRows)
        BY <1>2, <1>4, <1>6
      <4>4. QED
        BY <1>6, <1>7, <3>1, <4>2, <4>3
    <3>2. CASE q # p
      BY <1>7, <3>2 DEF Inv, WordsRight
    <3>3. QED
      BY <3>1, <3>2
  <2>2. QED
    BY <2>1 DEF WordsRight
<1>12. QED
  BY <1>8, <1>10, <1>11 DEF Inv

LEMMA InvAlways == Spec => []Inv
<1>1. Init => Inv
  <2> SUFFICES ASSUME Init PROVE Inv
    OBVIOUS
  <2>1. DOMAIN programs = 1..7
    BY DEF Init, NamePrograms
  <2>2. /\ read = [p \in 1..7 |-> 0] /\ written = [p \in 1..7 |-> << >>]
        /\ status = [p \in 1..7 |-> "running"]
    BY <2>1 DEF Init, Started
  <2>3. Typed
    BY <2>2, PipeAssumption DEF Init, Typed
  <2>4. Len(tables.ofRows) \in Nat
    BY TablesAssumption, LenProperties DEF Init, AreTables
  <2>5. QED
    BY <2>2, <2>3, <2>4, PipeAssumption DEF Inv, Connected, WordsRight
<1>2. Inv /\ [Next]_vars => Inv'
  <2> SUFFICES ASSUME Inv, [Next]_vars PROVE Inv'
    OBVIOUS
  <2>1. ASSUME NEW p \in 1..7, UNCHANGED tables,
               WriteToNobody(p) \/ Fail(p) \/ End(p) \/ Kill(p)
        PROVE  Inv'
    <3>1. /\ UNCHANGED <<programs, read, written>>
          /\ status' \in [1..7 -> {"running", "ended", "dead"}]
          /\ kills' \in 0..MaxKills
      <4>1. /\ UNCHANGED <<programs, read, written>>
            /\ \E s \in {"ended", "dead"} : status' = [status EXCEPT ![p] = s]
            /\ kills' = kills \/ (kills < MaxKills /\ kills' = kills + 1)
        BY <2>1 DEF WriteToNobody, Fail, End, Kill, Dies, streams
      <4>2. status \in [1..7 -> {"running", "ended", "dead"}] /\ kills \in 0..MaxKills
        BY DEF Inv, Typed
      <4>3. kills' \in 0..MaxKills
        BY <4>1, <4>2, PipeAssumption
      <4>4. status' \in [1..7 -> {"running", "ended", "dead"}]
        BY <4>1, <4>2
      <4>5. QED
        BY <4>1, <4>3, <4>4
    <3>2. QED
      BY <2>1, <3>1 DEF Inv, Typed, Connected, WordsRight
  <2>2. CASE UNCHANGED vars
    BY <2>2 DEF vars, pipeVars, streams, Inv, Typed, Connected, WordsRight
  <2>3. Stages = 1..7
    BY NamePipeline DEF Inv
  <2>4. QED
    BY <2>1, <2>2, <2>3, ReadKeepsInv, WriteKeepsInv DEF Next, Step
<1>3. QED
  BY <1>1, <1>2, PTL DEF Spec

(* Programs read what has been written, and pipes hold what they can.      *)
THEOREM ClassNamesTyped == Spec => []TypeOK
<1>1. Inv => TypeOK
  <2> SUFFICES ASSUME Inv PROVE TypeOK
    OBVIOUS
  <2>1. Typed /\ Stages = 1..7 /\ Final = 7
    BY NamePipeline DEF Inv
  <2>2. \A p \in 1..7 : read[p] <= Len(Before(p))
    <3>1. \A p \in 2..7 : read[p] <= Len(Before(p))
      BY InputRight DEF Inv, Connected
    <3>2. read[1] <= Len(Before(1))
      BY DEF Inv, Connected, Before
    <3>3. \A p \in 1..7 : p = 1 \/ p \in 2..7
      OBVIOUS
    <3>4. QED
      BY <3>1, <3>2, <3>3
  <2>3. \A p \in 1..7 : p # 7 => Len(written[p]) - read[p + 1] <= Capacity
    <3>1. ASSUME NEW p \in 1..7, p # 7 PROVE Len(written[p]) - read[p + 1] <= Capacity
      <4>1. p + 1 \in 2..7 /\ (p + 1) - 1 = p
        BY <3>1
      <4>2. QED
        BY <4>1 DEF Inv, Connected
    <3>2. QED
      BY <3>1
  <2>4. QED
    BY <2>1, <2>2, <2>3 DEF Typed, TypeOK
<1>2. QED
  BY <1>1, InvAlways, PTL

(***************************************************************************)
(* A name is never beside another row than its own, whichever programs of  *)
(* the pipeline die and however they are scheduled (fhat.sh:82).           *)
(***************************************************************************)
THEOREM NamesBesideTheirRows == Spec => []NamesInOrder
<1>1. Inv => NamesInOrder
  <2> SUFFICES ASSUME Inv PROVE NamesInOrder
    OBVIOUS
  <2>1. Final = 7 /\ tables.ofRows \in Seq(Nat) /\ written[7] \in Seq(Nat)
    <3>1. Typed
      BY DEF Inv
    <3>2. Final = 7
      BY <3>1, NamePipeline
    <3>3. QED
      BY <3>2, InvFacts
  <2>2. /\ DOMAIN written[7] = 1..Len(written[7])
        /\ DOMAIN tables.ofRows = 1..Len(tables.ofRows)
        /\ Len(written[7]) \in Nat /\ Len(tables.ofRows) \in Nat
    BY <2>1, LenProperties
  <2>3. \A k : Word(tables, 7, k) = NameOf(tables, tables.ofRows[k])
    BY DEF Word, NameOf
  <2>4. Len(written[7]) <= Len(tables.ofRows)
        /\ \A k \in 1..Len(written[7]) : written[7][k] = Word(tables, 7, k)
    BY DEF Inv, WordsRight
  <2>5. QED
    BY <2>1, <2>2, <2>3, <2>4 DEF NamesInOrder
<1>2. QED
  BY <1>1, InvAlways, PTL

(***************************************************************************)
(* unpack, which does not compare a position with the size of its table,   *)
(* never reads outside of it (unpack.cc:43).                               *)
(***************************************************************************)
THEOREM PositionsStayInRange == Spec => []PositionsInRange
<1>1. Inv => PositionsInRange
  <2> SUFFICES ASSUME Inv, NEW p \in 1..7, programs[p].does = "unpack", NEW k \in 1..read[p]
               PROVE  InTable(programs[p], Before(p)[k])
    BY NamePipeline DEF Inv, PositionsInRange
  <2>1. p \in 2..6
    <3>1. p # 1 /\ p # 7
      BY NamePipeline DEF Inv, Cat, Copy
    <3>2. QED
      BY <3>1
  <2>2. /\ Before(p) = written[p - 1] /\ read[p] <= Len(tables.ofRows)
        /\ read[p] <= Len(written[p - 1])
    <3>1. p \in 2..7 /\ Connected
      BY <2>1 DEF Inv
    <3>2. QED
      BY <3>1, InputRight DEF Connected
  <2>3. /\ read[p] \in Nat /\ Len(tables.ofRows) \in Nat /\ Len(written[p - 1]) \in Nat
    <3>1. p - 1 \in 1..7 /\ Typed
      BY <2>1 DEF Inv
    <3>2. written[p - 1] \in Seq(Nat) /\ read[p] \in Nat /\ tables \in Tables
      BY <3>1 DEF Typed
    <3>3. QED
      BY <3>2, TablesAssumption, LenProperties DEF AreTables
  <2>4. k \in 1..Len(tables.ofRows) /\ k \in 1..Len(written[p - 1])
    BY <2>2, <2>3
  <2>5. Before(p)[k] = Word(tables, p - 1, k)
    BY <2>1, <2>2, <2>4 DEF Inv, WordsRight
  <2>6. QED
    BY <2>1, <2>4, <2>5, ReplacedRight
<1>2. QED
  BY <1>1, InvAlways, PTL

==============================================================================
