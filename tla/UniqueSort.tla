----------------------------- MODULE UniqueSort ------------------------------
(***************************************************************************)
(* What sort promises: the distinct records of its input, in increasing    *)
(* order, and an end only when all of them are written.                    *)
(***************************************************************************)
EXTENDS Integers, Sequences, FiniteSetsExt, Functions

CONSTANT Records       \* the records there can be, ordered as integers
VARIABLES
  given,               \* the set of records of the input
  out,                 \* the output written so far
  finished

sortVars == <<given, out, finished>>

Missing == given \ Range(out)

SortInit ==
  /\ given \subseteq Records
  /\ out = << >>
  /\ finished = FALSE

Write ==
  /\ ~ finished
  /\ Missing # {}
  /\ out' = Append(out, Min(Missing))
  /\ UNCHANGED <<given, finished>>

Finish ==
  /\ ~ finished
  /\ Missing = {}
  /\ finished' = TRUE
  /\ UNCHANGED <<given, out>>

SortNext == Write \/ Finish

SortSpec == SortInit /\ [][SortNext]_sortVars

==============================================================================
