------------------------------- MODULE Closure -------------------------------
(***************************************************************************)
(* The transitive closure on an sqlite database: transitive_closure.sql    *)
(* and reverse_transitive_closure.sql, each a transaction that adds one    *)
(* more layer of objects, repeated by class_closure.sh or by a user who    *)
(* follows README.markdown.  The queries join the references with          *)
(* closure_delta, the layer added last, and not with all of closure.       *)
(*                                                                         *)
(* Both procedures insert their seeds into closure only, and find          *)
(* closure_delta empty if transitive_closure.schema.sql has just made it.  *)
(* It may hold something else: nobody empties it before another closure    *)
(* (README.markdown:123 empties closure), and it takes any rows a user     *)
(* puts there.  So the transaction is described for all of its contents.   *)
(*                                                                         *)
(* The tables as the transaction sees them are in view; they reach the     *)
(* database when it commits, and are dropped when sqlite3 is killed.       *)
(***************************************************************************)
EXTENDS Integers, FiniteSets

CONSTANTS
  Objects,       \* the identifiers in refs
  RefTables,     \* the contents of refs to consider
  SeedSets,      \* the instances to start from
  DeltaTables,   \* what closure_delta may hold before the first query
  Directions,    \* the queries to consider: TRUE for the one that follows
                 \* references, FALSE for the reverse_ one, back to referrers
  Scripts,       \* who repeats them: TRUE for class_closure.sh, FALSE for a
                 \* user, until the count remains the same
  MaxKills       \* how often sqlite3 may be killed

ASSUME ObjectsAssumption ==
  /\ IsFiniteSet(Objects)
  /\ RefTables \subseteq SUBSET [src : Objects, dst : Objects]
  /\ SeedSets \subseteq SUBSET Objects /\ DeltaTables \subseteq SUBSET Objects
  /\ Directions \subseteq BOOLEAN /\ Scripts \subseteq BOOLEAN /\ MaxKills \in Nat

VARIABLES
  refs, seeds,
  first,                   \* closure_delta before the first query
  forward,                 \* which of the queries is run
  script,                  \* who runs it
  closure, closure_delta,  \* the tables in the database
  view,                    \* the tables in the transaction
  cd2,                     \* the temporary table
  count, lastCount,        \* what the query printed last, and the time before
  kills,
  pc

inputs == <<refs, seeds, first, forward, script>>
tables == <<closure, closure_delta>>
vars == <<inputs, tables, view, cd2, count, lastCount, kills, pc>>

NoCount == -1

Init ==
  /\ refs \in RefTables /\ seeds \in SeedSets /\ first \in DeltaTables
  /\ forward \in Directions /\ script \in Scripts
  /\ closure = seeds /\ closure_delta = first
  /\ lastCount = IF script THEN Cardinality(seeds) ELSE NoCount
  /\ view = [closure |-> {}, delta |-> {}]
  /\ cd2 = {} /\ count = 0 /\ kills = 0
  /\ pc = "begin"

Goto(from, to) == pc = from /\ pc' = to

Begin ==
  /\ Goto("begin", "select")
  /\ cd2' = {}
  /\ view' = [closure |-> closure, delta |-> closure_delta]
  /\ UNCHANGED <<inputs, tables, count, lastCount, kills>>

(* Faulty variants, which the properties must tell from the code, are the  *)
(* definitions whose name says what is wrong; nothing uses them.           *)
NewObjects_KnownToo == {e.dst : e \in {f \in refs : f.src \in view.delta}}

NewObjects_EitherEnd ==
  UNION {{e.src, e.dst} : e \in {f \in refs : {f.src, f.dst} \intersect view.delta # {}}}
    \ view.closure

NewObjects_AlwaysForward ==
  {e.dst : e \in {f \in refs : f.src \in view.delta}} \ view.closure

(* The other ends of the references that the join finds, without those     *)
(* already in closure (LEFT OUTER JOIN closure ... WHERE id IS NULL).      *)
NewObjects ==
  IF forward THEN {e.dst : e \in {f \in refs : f.src \in view.delta}} \ view.closure
             ELSE {e.src : e \in {f \in refs : f.dst \in view.delta}} \ view.closure

SelectNew ==
  /\ Goto("select", "delete")
  /\ cd2' = NewObjects
  /\ UNCHANGED <<inputs, tables, view, count, lastCount, kills>>

DeleteDelta ==
  /\ Goto("delete", "insert closure")
  /\ view' = [view EXCEPT !.delta = {}]
  /\ UNCHANGED <<inputs, tables, cd2, count, lastCount, kills>>

InsertClosure ==
  /\ Goto("insert closure", "insert delta")
  /\ view' = [view EXCEPT !.closure = @ \union cd2]
  /\ UNCHANGED <<inputs, tables, cd2, count, lastCount, kills>>

Counted(delta) == Cardinality(delta)

InsertDelta ==
  /\ Goto("insert delta", "commit")
  /\ view' = [view EXCEPT !.delta = @ \union cd2]
  /\ count' = Counted(view'.delta)
  /\ UNCHANGED <<inputs, tables, cd2, lastCount, kills>>

Commit_DeltaKept ==
  /\ Goto("commit", "again?")
  /\ closure' = view.closure
  /\ UNCHANGED <<inputs, closure_delta, view, cd2, count, lastCount, kills>>

Commit ==
  /\ Goto("commit", "again?")
  /\ closure' = view.closure /\ closure_delta' = view.delta
  /\ UNCHANGED <<inputs, view, cd2, count, lastCount, kills>>

(* "[ nextCount -neq lastCount]" is no condition: [ complains, and what it *)
(* returns ends the loop.  A user goes on until the count remains the same *)
(* from one iteration to the next (README.markdown:134).                   *)
GoesOn == ~ script /\ count # lastCount

Repeat ==
  /\ GoesOn
  /\ Goto("again?", "begin")
  /\ lastCount' = count
  /\ UNCHANGED <<inputs, tables, view, cd2, count, kills>>

Stop ==
  /\ ~ GoesOn
  /\ Goto("again?", "done")
  /\ UNCHANGED <<inputs, tables, view, cd2, count, lastCount, kills>>

InTransaction == pc \in {"select", "delete", "insert closure", "insert delta", "commit"}

(* The database rolls back, and the temporary table is gone.               *)
Kill ==
  /\ InTransaction
  /\ kills < MaxKills
  /\ kills' = kills + 1
  /\ pc' = "begin"
  /\ UNCHANGED <<inputs, tables, view, cd2, count, lastCount>>

Step == Begin \/ SelectNew \/ DeleteDelta \/ InsertClosure \/ InsertDelta
        \/ Commit \/ Repeat \/ Stop

Next == Step \/ Kill

Spec == Init /\ [][Next]_vars

(* sqlite3 and the shell run alone and do not wait for anything.           *)
FairSpec == Spec /\ WF_vars(Step)

------------------------------------------------------------------------------
(* The references in the direction that is followed.                       *)
Followed == IF forward THEN refs ELSE {[src |-> e.dst, dst |-> e.src] : e \in refs}

Q == INSTANCE ClosureQuery WITH links <- Followed

(* What closure_delta leads to at first, by ways that pass no seed: seeds  *)
(* are in closure, and are not joined unless they are in closure_delta.    *)
Beyond == INSTANCE ClosureQuery WITH links <- {e \in Followed : e.dst \notin seeds}

LedTo == Beyond!Successors(Beyond!ReachableFrom(Objects, first))

(* What is joined in one transaction or another: what was in closure_delta *)
(* at first, and what has been gathered since.                             *)
Joined == first \union (closure \ seeds)

(* Type invariant: both tables hold identifiers of refs
   (transitive_closure.schema.sql:1-2).                                    *)
TypeOK ==
  /\ refs \in SUBSET [src : Objects, dst : Objects]
  /\ seeds \subseteq Objects /\ first \subseteq Objects
  /\ forward \in BOOLEAN /\ script \in BOOLEAN /\ cd2 \subseteq Objects
  /\ closure \subseteq Objects /\ closure_delta \subseteq Objects
  /\ view \in [closure : SUBSET Objects, delta : SUBSET Objects]
  /\ count \in 0..Cardinality(Objects) /\ lastCount \in NoCount..Cardinality(Objects)
  /\ kills \in 0..MaxKills
  /\ pc \in {"begin", "select", "delete", "insert closure", "insert delta",
             "commit", "again?", "done"}

(***************************************************************************)
(* Whenever a transaction has ended, however it did, what has been joined  *)
(* and is not in the last layer leads nowhere new: joining closure_delta   *)
(* alone misses nothing but the references of seeds that nobody has put    *)
(* there (transitive_closure.sql:4).                                       *)
(***************************************************************************)
OnlyDeltaLeadsOut ==
  \A e \in Followed : e.src \in Joined \ closure_delta => e.dst \in closure

(***************************************************************************)
(* The procedure gathers what closure_delta leads to at first, whatever    *)
(* that is: never anything else, and all of it once a query adds nothing   *)
(* (transitive_closure.sql:4-8).  Where it is empty at first, as after     *)
(* transitive_closure.schema.sql, that is nothing; where it holds the      *)
(* seeds, it is what the seeds lead to.                                    *)
(***************************************************************************)
GathersFromDelta ==
  /\ closure \subseteq seeds \union LedTo
  /\ pc \in {"again?", "done"} /\ count = 0 => closure = seeds \union LedTo

(***************************************************************************)
(* A transaction that commits inserts what the query of                    *)
(* README.markdown:131 inserts, if that were run on closure without the    *)
(* seeds that have never been in closure_delta: on Joined.                 *)
(***************************************************************************)
CommitsQuery == [][Commit => Q!InsertFrom(Joined)]_vars

(***************************************************************************)
(* The procedure ends with the objects reachable from the seeds, all of    *)
(* them (README.markdown:121, "to gather all reachable objects").          *)
(***************************************************************************)
GathersReachable == pc = "done" => closure = Q!ReachableFrom(Objects, seeds)

(* The count remains the same some time, on cyclic references too, if      *)
(* sqlite3 is not killed forever (README.markdown:134).                    *)
Ends == <>(pc = "done")

==============================================================================
