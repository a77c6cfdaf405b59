----------------------------- MODULE ClassNames -----------------------------
(***************************************************************************)
(* The names of classes, one for every row of the report (fhat.sh:82):     *)
(* class identifiers become positions in classes.sorted, these the         *)
(* identifiers of names, positions in names.sorted, offsets in             *)
(* names.name.binary and names, in a pipeline of seven programs.           *)
(***************************************************************************)
EXTENDS Pipeline

CONSTANT Tables
(* Records of the files                                                    *)
(*   ofRows                    i.c                                         *)
(*   classes, classNames       classes.sorted, classes.name.sorted         *)
(*   names, nameOffsets        names.sorted, names.offset.sorted           *)
(*   strings                   names.name.binary: what starts at each byte *)

(* What parse, sort and sortcolumns leave: strictly sorted keys, a value   *)
(* for every key (Preparation), names of classes that are names (Parse).   *)
AreTables(t) ==
  /\ t \in [ofRows : Seq(Nat), classes : Seq(Nat), classNames : Seq(Nat),
            names : Seq(Nat), nameOffsets : Seq(Nat), strings : Seq(Nat)]
  /\ t.classes # << >> /\ t.names # << >>
  /\ \A i, j \in DOMAIN t.classes : i < j => t.classes[i] < t.classes[j]
  /\ \A i, j \in DOMAIN t.names : i < j => t.names[i] < t.names[j]
  /\ t.classNames \in [1..Len(t.classes) -> Range(t.names)]
  /\ t.nameOffsets \in [1..Len(t.names) -> 0..(Len(t.strings) - 1)]

ASSUME TablesAssumption == \A t \in Tables : AreTables(t)

VARIABLE tables

NamePrograms(t) ==
  <<Cat(t.ofRows), Translate(t.classes, TRUE), Unpack(t.classNames),
    Translate(t.names, FALSE), Unpack(t.nameOffsets), Unpack(t.strings), Copy>>

vars == <<tables, pipeVars>>

Init ==
  /\ tables \in Tables
  /\ programs = NamePrograms(tables)
  /\ Started(programs, read, written, status)
  /\ kills = 0

Next == (\E p \in Stages : Step(p) \/ Kill(p)) /\ UNCHANGED tables

Spec == Init /\ [][Next]_vars

(* The programs run side by side, each as long as it can.                  *)
FairSpec == Spec /\ \A p \in 1..7 : WF_vars(p \in Stages /\ Step(p) /\ UNCHANGED tables)

------------------------------------------------------------------------------
(* The name of a class; a class of which nothing is known has the name of  *)
(* the first one.                                                          *)
NameOf(t, class) ==
  LET name == t.classNames[PositionOf(t.classes, class) + 1]
  IN  t.strings[t.nameOffsets[PositionOf(t.names, name) + 1] + 1]

(* Type invariant: programs read what has been written, and pipes hold no  *)
(* more than they can (fhat.sh:82).                                        *)
TypeOK ==
  /\ programs = NamePrograms(tables)
  /\ read \in [1..7 -> Nat] /\ written \in [1..7 -> Seq(Nat)]
  /\ \A p \in Stages : read[p] <= Len(Before(p))
  /\ \A p \in Stages : p # Final => Len(written[p]) - read[p + 1] <= Capacity
  /\ status \in [1..7 -> {"running", "ended", "dead"}]
  /\ kills \in 0..MaxKills

(***************************************************************************)
(* The k-th name is that of the class of the k-th row, whichever programs  *)
(* die, and in whatever order the programs run: a name may be missing at   *)
(* the end, but is never beside another row (fhat.sh:82).                  *)
(***************************************************************************)
NamesInOrder ==
  \A k \in DOMAIN written[Final] :
    k \in DOMAIN tables.ofRows /\ written[Final][k] = NameOf(tables, tables.ofRows[k])

(***************************************************************************)
(* unpack does not look at how many nodes there are: every position it     *)
(* reads is one of its table (unpack.cc:43).                               *)
(***************************************************************************)
PositionsInRange ==
  \A p \in Stages : programs[p].does = "unpack" =>
    \A k \in 1..read[p] : InTable(programs[p], Before(p)[k])

(***************************************************************************)
(* Whatever dies, no program waits for another forever, and if nobody      *)
(* kills one there is a name for every row, unless the class of one is     *)
(* beyond the last (fhat.sh:82, translate.cc:69).                          *)
(***************************************************************************)
NamesEveryRow ==
  <>(/\ Over
     /\ kills = 0 /\ (\A k \in DOMAIN tables.ofRows : InColumn(tables.classes, tables.ofRows[k])) =>
          Len(written[Final]) = Len(tables.ofRows))

==============================================================================
