---------------------------- MODULE ClosureProofs ----------------------------
(***************************************************************************)
(* On every table of references, from every set of seeds and whatever      *)
(* closure_delta holds at first, the queries gather exactly what that      *)
(* leads to: nothing for class_closure.sh and a user who follows           *)
(* README.markdown, and the reachable objects where it holds the seeds.    *)
(***************************************************************************)
EXTENDS Closure, FiniteSetTheorems, TLAPS

(* What the transaction has done so far, in terms of the tables at its     *)
(* start.                                                                  *)
Layer == Q!Successors(closure_delta) \ closure

Progress ==
  /\ pc = "select" => view = [closure |-> closure, delta |-> closure_delta]
  /\ pc = "delete" => /\ view = [closure |-> closure, delta |-> closure_delta]
                      /\ cd2 = Layer
  /\ pc = "insert closure" => /\ view = [closure |-> closure, delta |-> {}]
                              /\ cd2 = Layer
  /\ pc = "insert delta" => /\ view = [closure |-> closure \union cd2, delta |-> {}]
                            /\ cd2 = Layer
  /\ pc = "commit" => /\ view = [closure |-> closure \union cd2, delta |-> cd2]
                      /\ cd2 = Layer
                      /\ count = Cardinality(cd2)
  /\ pc \in {"again?", "done"} => count = Cardinality(closure_delta)

Gathered ==
  /\ TypeOK
  /\ Progress
  /\ OnlyDeltaLeadsOut
  /\ seeds \subseteq closure
  /\ closure \subseteq seeds \union LedTo
  /\ closure_delta \subseteq Joined
  /\ closure_delta \subseteq Beyond!ReachableFrom(Objects, first)

------------------------------------------------------------------------------
LEMMA FollowedTypes ==
  ASSUME TypeOK
  PROVE  /\ Followed \subseteq [src : Objects, dst : Objects]
         /\ \A e \in Followed : e.src \in Objects /\ e.dst \in Objects
<1>1. CASE forward
  BY <1>1 DEF Followed, TypeOK
<1>2. CASE ~ forward
  <2>1. \A e \in refs : e.src \in Objects /\ e.dst \in Objects
    BY DEF TypeOK
  <2>2. QED
    BY <1>2, <2>1 DEF Followed
<1>3. QED
  BY <1>1, <1>2

LEMMA LayerTypes ==
  ASSUME TypeOK
  PROVE  /\ Layer \subseteq Objects
         /\ IsFiniteSet(Layer)
         /\ Cardinality(Layer) \in 0..Cardinality(Objects)
<1>1. Layer \subseteq Objects
  BY FollowedTypes DEF Layer, Q!Successors
<1>2. QED
  BY <1>1, FS_Subset, FS_CardinalityType, ObjectsAssumption

(* What is led to leads nowhere but to what is led to, and to seeds.       *)
LEMMA LedToIsClosed ==
  ASSUME TypeOK
  PROVE  /\ first \subseteq Beyond!ReachableFrom(Objects, first)
         /\ LedTo \subseteq Beyond!ReachableFrom(Objects, first)
         /\ \A e \in Followed : e.src \in Beyond!ReachableFrom(Objects, first)
              => e.dst \in seeds \union LedTo
<1> DEFINE reached == Beyond!ReachableFrom(Objects, first)
<1>1. first \subseteq reached
  BY DEF Beyond!ReachableFrom, TypeOK
<1>2. \A e \in Followed : e.dst \notin seeds /\ e.src \in reached => e.dst \in reached
  BY FollowedTypes DEF Beyond!ReachableFrom, Beyond!Closed
<1>3. \A x : x \in LedTo <=> \E e \in Followed : e.dst \notin seeds /\ e.src \in reached /\ x = e.dst
  BY DEF LedTo, Beyond!Successors
<1>4. QED
  BY <1>1, <1>2, <1>3

(* Both queries find what the closure's last layer leads to, each in its   *)
(* direction.                                                              *)
LEMMA NewObjectsAreSuccessors == NewObjects = Q!Successors(view.delta) \ view.closure
<1>1. CASE forward
  BY <1>1 DEF NewObjects, Q!Successors, Followed
<1>2. CASE ~ forward
  <2>1. Q!Successors(view.delta) = {e.src : e \in {f \in refs : f.dst \in view.delta}}
    <3>1. Followed = {[src |-> e.dst, dst |-> e.src] : e \in refs}
      BY <1>2 DEF Followed
    <3>2. \A x : x \in Q!Successors(view.delta) <=> \E g \in Followed : g.src \in view.delta /\ x = g.dst
      BY DEF Q!Successors
    <3>3. \A x : (\E g \in Followed : g.src \in view.delta /\ x = g.dst)
                 <=> \E e \in refs : e.dst \in view.delta /\ x = e.src
      <4> DEFINE back(e) == [src |-> e.dst, dst |-> e.src]
      <4>1. \A e : back(e).src = e.dst /\ back(e).dst = e.src
        OBVIOUS
      <4>2. \A g : g \in Followed <=> \E e \in refs : g = back(e)
        BY <3>1
      <4> HIDE DEF back
      <4>3. QED
        BY <4>1, <4>2
    <3>4. QED
      BY <3>2, <3>3
  <2>2. QED
    BY <1>2, <2>1 DEF NewObjects
<1>3. QED
  BY <1>1, <1>2

(* The tables change only when a transaction commits.                      *)
LEMMA UnchangedFollowed ==
  ASSUME UNCHANGED inputs
  PROVE  /\ Followed' = Followed
         /\ \A S : Q!Successors(S)' = Q!Successors(S)
         /\ LedTo' = LedTo
         /\ Beyond!ReachableFrom(Objects, first)' = Beyond!ReachableFrom(Objects, first)
<1>1. Followed' = Followed /\ seeds' = seeds /\ first' = first
  BY DEF inputs, Followed
<1>2. QED
  BY <1>1 DEF LedTo, Q!Successors, Beyond!ReachableFrom, Beyond!Successors, Beyond!Closed

------------------------------------------------------------------------------
LEMMA InitGathered == Init => Gathered
<1> SUFFICES ASSUME Init PROVE Gathered
  OBVIOUS
<1>1. TypeOK
  <2>1. Cardinality(Objects) \in Nat
    BY ObjectsAssumption, FS_CardinalityType
  <2>2. seeds \subseteq Objects
    BY ObjectsAssumption DEF Init
  <2>3. Cardinality(seeds) \in Nat /\ Cardinality(seeds) <= Cardinality(Objects)
    BY <2>2, ObjectsAssumption, FS_Subset, FS_CardinalityType
  <2>4. lastCount \in NoCount..Cardinality(Objects)
    BY <2>1, <2>3 DEF Init, NoCount
  <2>5. QED
    BY <2>1, <2>2, <2>4, ObjectsAssumption DEF Init, TypeOK
<1>2. Progress
  BY DEF Init, Progress
<1>3. OnlyDeltaLeadsOut
  BY DEF Init, OnlyDeltaLeadsOut, Joined
<1>4. seeds \subseteq closure /\ closure \subseteq seeds \union LedTo /\ closure_delta \subseteq Joined
  BY DEF Init, Joined
<1>5. closure_delta \subseteq Beyond!ReachableFrom(Objects, first)
  BY <1>1, LedToIsClosed DEF Init
<1>6. QED
  BY <1>1, <1>2, <1>3, <1>4, <1>5 DEF Gathered

(* Steps inside a transaction leave the tables alone.                      *)
LEMMA TablesUnchanged ==
  ASSUME Gathered, UNCHANGED <<inputs, tables>>, TypeOK', Progress'
  PROVE  Gathered'
BY UnchangedFollowed DEF Gathered, OnlyDeltaLeadsOut, Joined, tables, inputs

LEMMA CommitGathers ==
  ASSUME Gathered, Commit
  PROVE  Gathered'
<1>1. /\ closure' = closure \union Layer
      /\ closure_delta' = Layer
      /\ count' = Cardinality(closure_delta')
  BY DEF Gathered, Progress, Commit, Goto
<1>2. TypeOK'
  BY <1>1, LayerTypes DEF Gathered, TypeOK, Commit, Goto, inputs
<1>3. Progress'
  BY <1>1 DEF Progress, Commit, Goto
<1>4. /\ Followed' = Followed /\ LedTo' = LedTo
      /\ Beyond!ReachableFrom(Objects, first)' = Beyond!ReachableFrom(Objects, first)
      /\ seeds' = seeds /\ first' = first
  BY UnchangedFollowed DEF Commit, inputs
<1>5. Joined' = Joined \union Layer
  BY <1>1, <1>4 DEF Gathered, Joined, Layer
<1>6. OnlyDeltaLeadsOut'
  <2> SUFFICES ASSUME NEW e \in Followed, e.src \in Joined \ Layer
               PROVE  e.dst \in closure \union Layer
    BY <1>1, <1>4, <1>5 DEF OnlyDeltaLeadsOut
  <2>1. CASE e.src \in closure_delta
    BY <2>1 DEF Layer, Q!Successors
  <2>2. CASE e.src \in Joined \ closure_delta
    BY <2>2 DEF Gathered, OnlyDeltaLeadsOut
  <2>3. QED
    BY <2>1, <2>2
<1>7. seeds' \subseteq closure' /\ closure_delta' \subseteq Joined'
  BY <1>1, <1>4, <1>5 DEF Gathered
<1>8. Layer \subseteq LedTo
  <2>1. \A x \in Layer : /\ x \notin seeds
                         /\ \E e \in Followed : e.src \in closure_delta /\ x = e.dst
    BY DEF Gathered, Layer, Q!Successors
  <2>2. QED
    BY <2>1, LedToIsClosed DEF Gathered
<1>9. /\ closure' \subseteq seeds' \union LedTo'
      /\ closure_delta' \subseteq Beyond!ReachableFrom(Objects, first)'
  BY <1>1, <1>4, <1>8, LedToIsClosed DEF Gathered
<1>10. QED
  BY <1>2, <1>3, <1>6, <1>7, <1>9 DEF Gathered

LEMMA StepGathers == Gathered /\ [Next]_vars => Gathered'
<1> SUFFICES ASSUME Gathered, [Next]_vars PROVE Gathered'
  OBVIOUS
<1> USE DEF Goto
<1>1. CASE Begin
  <2>1. TypeOK'
    BY <1>1 DEF Gathered, TypeOK, Begin, inputs, tables
  <2>2. Progress'
    BY <1>1 DEF Progress, Begin, tables
  <2>3. QED
    BY <1>1, <2>1, <2>2, TablesUnchanged DEF Begin
<1>2. CASE SelectNew
  <2>1. NewObjects = Layer
    <3>1. view.delta = closure_delta /\ view.closure = closure
      BY <1>2 DEF Gathered, Progress, SelectNew
    <3>2. QED
      BY <3>1, NewObjectsAreSuccessors DEF Layer
  <2>2. TypeOK'
    BY <1>2, <2>1, LayerTypes DEF Gathered, TypeOK, SelectNew, inputs, tables
  <2>3. Layer' = Layer
    BY <1>2, UnchangedFollowed DEF SelectNew, Layer, tables
  <2>4. Progress'
    BY <1>2, <2>1, <2>3 DEF Gathered, Progress, SelectNew, tables
  <2>5. QED
    BY <1>2, <2>2, <2>4, TablesUnchanged DEF SelectNew
<1>3. CASE DeleteDelta
  <2>1. TypeOK'
    BY <1>3 DEF Gathered, TypeOK, DeleteDelta, inputs, tables
  <2>2. Layer' = Layer
    BY <1>3, UnchangedFollowed DEF DeleteDelta, Layer, tables
  <2>3. view = [closure |-> closure, delta |-> closure_delta] /\ cd2 = Layer
    BY <1>3 DEF Gathered, Progress, DeleteDelta
  <2>4. view' = [closure |-> closure, delta |-> {}] /\ cd2' = Layer
    <3>1. [view EXCEPT !.delta = {}] = [closure |-> closure, delta |-> {}]
      BY <2>3
    <3>2. QED
      BY <1>3, <2>3, <3>1 DEF DeleteDelta
  <2>5. Progress'
    BY <1>3, <2>2, <2>4 DEF Progress, DeleteDelta, tables
  <2>6. QED
    BY <1>3, <2>1, <2>5, TablesUnchanged DEF DeleteDelta
<1>4. CASE InsertClosure
  <2>1. TypeOK'
    BY <1>4 DEF Gathered, TypeOK, InsertClosure, inputs, tables
  <2>2. Layer' = Layer
    BY <1>4, UnchangedFollowed DEF InsertClosure, Layer, tables
  <2>3. view = [closure |-> closure, delta |-> {}] /\ cd2 = Layer
    BY <1>4 DEF Gathered, Progress, InsertClosure
  <2>4. view' = [closure |-> closure \union cd2, delta |-> {}] /\ cd2' = Layer
    <3>1. [view EXCEPT !.closure = @ \union cd2] = [closure |-> closure \union cd2, delta |-> {}]
      BY <2>3
    <3>2. QED
      BY <1>4, <2>3, <3>1 DEF InsertClosure
  <2>5. Progress'
    BY <1>4, <2>2, <2>3, <2>4 DEF Progress, InsertClosure, tables
  <2>6. QED
    BY <1>4, <2>1, <2>5, TablesUnchanged DEF InsertClosure
<1>5. CASE InsertDelta
  <2> DEFINE after == [closure |-> closure \union cd2, delta |-> cd2]
  <2>1. view' = after /\ cd2 = Layer
    <3>1. view = [closure |-> closure \union cd2, delta |-> {}] /\ cd2 = Layer
      BY <1>5 DEF Gathered, Progress, InsertDelta
    <3>2. [view EXCEPT !.delta = @ \union cd2] = after
      BY <3>1
    <3>3. QED
      BY <1>5, <3>1, <3>2 DEF InsertDelta
  <2>2. count' = Cardinality(cd2) /\ cd2' = cd2 /\ pc' = "commit"
    <3>1. (view').delta = cd2
      BY <2>1
    <3>2. QED
      BY <1>5, <3>1 DEF InsertDelta, Counted
  <2>3. TypeOK'
    <3>1. view' \in [closure : SUBSET Objects, delta : SUBSET Objects]
      BY <2>1, LayerTypes DEF Gathered, TypeOK
    <3>2. count' \in 0..Cardinality(Objects)
      BY <2>1, <2>2, LayerTypes DEF Gathered
    <3>3. QED
      BY <1>5, <2>2, <3>1, <3>2 DEF Gathered, TypeOK, InsertDelta, inputs, tables
  <2>4. Layer' = Layer
    BY <1>5, UnchangedFollowed DEF InsertDelta, Layer, tables
  <2>5. Progress'
    BY <1>5, <2>1, <2>2, <2>4 DEF Progress, InsertDelta, tables
  <2>6. QED
    BY <1>5, <2>3, <2>5, TablesUnchanged DEF InsertDelta
<1>6. CASE Commit
  BY <1>6, CommitGathers
<1>7. CASE Repeat
  <2>1. TypeOK'
    <3>1. lastCount' \in NoCount..Cardinality(Objects)
      BY <1>7, ObjectsAssumption, FS_CardinalityType DEF Gathered, TypeOK, Repeat, NoCount
    <3>2. QED
      BY <1>7, <3>1 DEF Gathered, TypeOK, Repeat, inputs, tables
  <2>2. Progress'
    BY <1>7 DEF Gathered, Progress, Repeat, tables
  <2>3. QED
    BY <1>7, <2>1, <2>2, TablesUnchanged DEF Repeat
<1>8. CASE Stop
  <2>1. TypeOK'
    BY <1>8 DEF Gathered, TypeOK, Stop, inputs, tables
  <2>2. Progress'
    BY <1>8 DEF Gathered, Progress, Stop, tables
  <2>3. QED
    BY <1>8, <2>1, <2>2, TablesUnchanged DEF Stop
<1>9. CASE Kill
  <2>1. TypeOK'
    <3>1. kills' \in 0..MaxKills
      <4>1. kills \in 0..MaxKills /\ MaxKills \in Nat
        BY ObjectsAssumption DEF Gathered, TypeOK
      <4>2. kills < MaxKills /\ kills' = kills + 1
        BY <1>9 DEF Kill
      <4>3. QED
        BY <4>1, <4>2
    <3>2. QED
      BY <1>9, <3>1 DEF Gathered, TypeOK, Kill, inputs, tables
  <2>2. Progress'
    BY <1>9 DEF Gathered, Progress, Kill, tables
  <2>3. QED
    BY <1>9, <2>1, <2>2, TablesUnchanged DEF Kill
<1>10. CASE UNCHANGED vars
  <2>1. TypeOK'
    BY <1>10 DEF Gathered, TypeOK, vars, inputs, tables
  <2>2. Layer' = Layer
    BY <1>10, UnchangedFollowed DEF Layer, vars, tables
  <2>3. Progress'
    BY <1>10, <2>2 DEF Gathered, Progress, vars, tables
  <2>4. QED
    BY <1>10, <2>1, <2>3, TablesUnchanged DEF vars
<1>11. QED
  BY <1>1, <1>2, <1>3, <1>4, <1>5, <1>6, <1>7, <1>8, <1>9, <1>10 DEF Next, Step

------------------------------------------------------------------------------
(* The invariant holds in every reachable state of the closure.            *)
THEOREM GatheredAlways == Spec => []Gathered
BY InitGathered, StepGathers, PTL DEF Spec

(* The tables hold identifiers of refs, and the printed count is bounded   *)
(* by their number.                                                        *)
THEOREM ClosureTyped == Spec => []TypeOK
<1>1. Gathered => TypeOK
  BY DEF Gathered
<1>2. QED
  BY <1>1, GatheredAlways, PTL

(* Joining with closure_delta alone overlooks nothing but what seeds that  *)
(* have never been in it refer to (transitive_closure.sql:4).              *)
THEOREM DeltaSuffices == Spec => []OnlyDeltaLeadsOut
<1>1. Gathered => OnlyDeltaLeadsOut
  BY DEF Gathered
<1>2. QED
  BY <1>1, GatheredAlways, PTL

(* When a query has added nothing, no object that has been joined leads    *)
(* out of the closure.                                                     *)
LEMMA NothingLeft ==
  ASSUME Gathered, pc \in {"again?", "done"}, count = 0
  PROVE  \A e \in Followed : e.src \in Joined => e.dst \in closure
<1>1. closure_delta \subseteq Objects /\ Cardinality(closure_delta) = 0
  BY DEF Gathered, TypeOK, Progress
<1>2. closure_delta = {}
  BY <1>1, FS_Subset, FS_EmptySet, ObjectsAssumption
<1>3. QED
  BY <1>2 DEF Gathered, OnlyDeltaLeadsOut

(***************************************************************************)
(* The procedure gathers exactly what closure_delta leads to at first,     *)
(* whatever that is, once a query adds nothing.                            *)
(***************************************************************************)
THEOREM ClosureFromDelta == Spec => []GathersFromDelta
<1>1. ASSUME Gathered, pc \in {"again?", "done"}, count = 0
      PROVE  LedTo \subseteq closure
  <2>1. \A e \in Followed : e.src \in Joined => e.dst \in closure
    BY <1>1, NothingLeft
  <2>2. Joined \subseteq Objects /\ first \subseteq Joined
    BY <1>1 DEF Gathered, TypeOK, Joined
  <2>3. Beyond!Closed(Joined, {e \in Followed : e.dst \notin seeds})
    BY <2>1 DEF Beyond!Closed, Joined
  <2>4. Beyond!ReachableFrom(Objects, first) \subseteq Joined
    BY <2>2, <2>3 DEF Beyond!ReachableFrom
  <2>5. QED
    BY <2>1, <2>4 DEF LedTo, Beyond!Successors
<1>2. Gathered => GathersFromDelta
  BY <1>1 DEF Gathered, GathersFromDelta
<1>3. QED
  BY <1>2, GatheredAlways, PTL

(***************************************************************************)
(* A transaction inserts what the query of README.markdown would insert on *)
(* what has been in closure_delta, and no other step touches the closure.  *)
(***************************************************************************)
THEOREM CommitsInsert == Spec => CommitsQuery
<1>1. ASSUME Gathered, Commit PROVE Q!InsertFrom(Joined)
  <2>1. closure' = closure \union Layer /\ Followed' = Followed
    BY <1>1, UnchangedFollowed DEF Gathered, Progress, Commit, Goto
  <2>2. Q!Successors(Joined) \subseteq closure \union Layer
    BY <1>1 DEF Gathered, OnlyDeltaLeadsOut, Q!Successors, Layer
  <2>3. Layer \subseteq Q!Successors(Joined)
    BY <1>1 DEF Gathered, Q!Successors, Layer
  <2>4. QED
    BY <2>1, <2>2, <2>3 DEF Q!InsertFrom
<1>2. Gathered /\ [Next]_vars => [Commit => Q!InsertFrom(Joined)]_vars
  BY <1>1
<1>3. QED
  BY <1>2, GatheredAlways, PTL DEF Spec, CommitsQuery

(***************************************************************************)
(* With closure_delta as transitive_closure.schema.sql leaves it, nothing  *)
(* is ever gathered, by class_closure.sh or by a user, whatever the seeds  *)
(* refer to (class_closure.sh:5-8, README.markdown:123-134).               *)
(***************************************************************************)
THEOREM NothingFromTheSchema == Spec => [](first = {} => closure = seeds)
<1>1. ASSUME Gathered, first = {} PROVE closure = seeds
  <2>1. Beyond!ReachableFrom(Objects, first) = {}
    BY <1>1 DEF Beyond!ReachableFrom, Beyond!Closed
  <2>2. LedTo = {}
    BY <2>1 DEF LedTo, Beyond!Successors
  <2>3. QED
    BY <1>1, <2>2 DEF Gathered
<1>2. QED
  BY <1>1, GatheredAlways, PTL

(***************************************************************************)
(* Where somebody has put the seeds into closure_delta too and goes on     *)
(* until the count is 0, all objects reachable from them are gathered, and *)
(* nothing else.                                                           *)
(***************************************************************************)
THEOREM ReachableFromSeeds ==
  Spec => [](first = seeds /\ pc = "done" /\ count = 0
               => closure = Q!ReachableFrom(Objects, seeds))
<1>1. ASSUME Gathered, first = seeds, pc = "done", count = 0
      PROVE  closure = Q!ReachableFrom(Objects, seeds)
  <2> DEFINE reachable == Q!ReachableFrom(Objects, seeds)
  <2>1. closure \subseteq Objects /\ seeds \subseteq closure /\ Joined = closure
    BY <1>1 DEF Gathered, TypeOK, Joined
  <2>2. Q!Closed(closure, Followed)
    BY <1>1, <2>1, NothingLeft DEF Q!Closed
  <2>3. reachable \subseteq closure
    BY <2>1, <2>2 DEF Q!ReachableFrom
  <2>4. /\ seeds \subseteq reachable
        /\ \A e \in Followed : e.src \in reachable => e.dst \in reachable
    BY <1>1, FollowedTypes DEF Gathered, TypeOK, Q!ReachableFrom, Q!Closed
  <2>5. \A x \in Beyond!ReachableFrom(Objects, first) : x \in reachable
    BY <1>1, <2>4 DEF Q!ReachableFrom, Beyond!ReachableFrom, Q!Closed, Beyond!Closed
  <2>6. LedTo \subseteq reachable
    BY <2>4, <2>5 DEF LedTo, Beyond!Successors
  <2>7. QED
    BY <1>1, <2>3, <2>4, <2>6 DEF Gathered
<1>2. QED
  BY <1>1, GatheredAlways, PTL

==============================================================================
