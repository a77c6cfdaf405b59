------------------------------ MODULE Translate ------------------------------
(***************************************************************************)
(* The program translate (src/src/translate.cc), which README.markdown     *)
(* still calls pack: it replaces identifiers by their positions, counted   *)
(* from zero, in a sorted key column.                                      *)
(***************************************************************************)
EXTENDS Columns

VARIABLES
  orphansToZero,         \* orphan_flags = 1: an identifier that is not in
                         \* the column becomes 0
  keys,                  \* the nodes file
  toTranslate,           \* the input
  packed,                \* the output
  orphans,               \* number of orphans, each written to packorphans
  pc

Files == <<orphansToZero, keys, toTranslate>>

(* The program is loaded: the output is created.                           *)
Load ==
  /\ packed' = << >>
  /\ orphans' = 0

Open ==
  /\ pc = "start"
  /\ pc' = "translating"
  /\ UNCHANGED <<Files, packed, orphans>>

More == Len(packed) < Len(toTranslate)
Node == toTranslate[Len(packed) + 1]
Position == KeyLowerBound(keys, Node)

(* Faulty variants: see SortColumns.                                       *)
InColumn_LastRefused == Position < Len(keys)

(* The assertion that follows the search: it fails on every node that is   *)
(* greater than all keys, whatever is to become of orphans.                *)
InColumn == Position <= Len(keys)

IsOrphan_NeverChecked == FALSE

IsOrphan == keys[Position] # Node

PositionOf_FromOne(node) == KeyLowerBound(keys, node)

PositionOf(node) == KeyLowerBound(keys, node) - 1

TranslateNode ==
  /\ pc = "translating"
  /\ More
  /\ InColumn /\ ~ IsOrphan
  /\ packed' = Append(packed, PositionOf(Node))
  /\ UNCHANGED <<Files, orphans, pc>>

TurnOrphan ==
  /\ pc = "translating"
  /\ More
  /\ InColumn /\ IsOrphan
  /\ orphansToZero
  /\ packed' = Append(packed, 0)
  /\ orphans' = orphans + 1
  /\ UNCHANGED <<Files, pc>>

Refuse ==
  /\ pc = "translating"
  /\ More
  /\ InColumn => IsOrphan /\ ~ orphansToZero
  /\ pc' = "abort"
  /\ UNCHANGED <<Files, packed, orphans>>

Finish ==
  /\ pc = "translating"
  /\ ~ More
  /\ pc' = "done"
  /\ UNCHANGED <<Files, packed, orphans>>

Next == Open \/ TranslateNode \/ TurnOrphan \/ Refuse \/ Finish

==============================================================================
