------------------------------- MODULE MCParse -------------------------------
(***************************************************************************)
(* Dumps of a class with a superclass, an instance of it that refers to    *)
(* itself by way of an array, a primitive array and a root, in every order *)
(* of the first three, as one heap dump or as two segments, with names or  *)
(* a loaded class missing, and cut in the body of every record, wherever   *)
(* an object starts, a byte later, and a byte before it ends.              *)
(***************************************************************************)
EXTENDS Parse

Field(name, type) == [name |-> name, type |-> type]
Static(name, type, value) == [name |-> name, type |-> type, value |-> value]

Super == [kind |-> "class", id |-> 20, super |-> 0, pool |-> << >>,
          statics |-> << >>, fields |-> <<Field(102, 10)>>]

Sub == [kind |-> "class", id |-> 21, super |-> 20, pool |-> <<5>>,
        statics |-> <<Static(102, 2, 31), Static(102, 11, 0)>>,
        fields |-> <<Field(101, 2), Field(102, 4)>>]

Instance == [kind |-> "instance", id |-> 30, class |-> 21,
             types |-> <<2, 4, 10>>, values |-> <<31, 0, 0>>]

Objects == [kind |-> "objects", id |-> 31, class |-> 21, values |-> <<30, 0>>]

Array(num) == [kind |-> "primitives", id |-> 32, type |-> 11, num |-> num]

Root == [kind |-> "root", id |-> 30, extra |-> 8]

Orders == {<<p[1], p[2], p[3]>> : p \in
             {p \in [1..3 -> {Super, Sub, Instance}] : Cardinality(Range(p)) = 3}}

Heaps == {<<Root>> \o order \o <<Objects, Array(3)>> : order \in Orders}
         \union {<<Array(3), Objects>> \o order \o <<Root>> : order \in Orders}
         \union {<<Root, Objects, Super, Sub, Instance>>}

Name(id) == [tag |-> "name", id |-> id]
Class(id) == [tag |-> "class", id |-> id, name |-> 101]
Heap(objects) == [tag |-> "heap", objects |-> objects]
Skipped == [tag |-> "skipped", length |-> 20]
Other(length) == [tag |-> "other", length |-> length]

Prelude == <<Name(101), Name(102), Class(20), Class(21)>>

Preludes == {Prelude, <<Name(101), Class(20), Class(21)>>,
             <<Name(102), Class(20), Class(21)>>,
             <<Name(101), Class(20), Name(102)>>}

Splits(heap) == {<<Heap(heap)>>} \union
  {<<Heap(SubSeq(heap, 1, k)), Skipped, Heap(SubSeq(heap, k + 1, Len(heap))), Other(0)>> :
     k \in DOMAIN heap}

Dumps == {prelude \o split : prelude \in Preludes, split \in UNION {Splits(heap) : heap \in Heaps}}

(* Two heap dumps in a file; a record of half of IntValues, of small       *)
(* objects; one that does not fit in memory.                               *)
Ordered == <<Root, Super, Sub, Objects, Instance, Array(3)>>
Odd == {Prelude \o <<Heap(Ordered), Heap(Ordered)>>,
        Prelude \o <<Heap(<<Array(40), Array(40)>>)>>,
        Prelude \o <<Heap(<<Array(40), Array(40)>>), Name(101), Heap(Ordered)>>,
        Prelude \o <<Other(MaxRecordSize + 1)>>}

End(dump_) == RecordStart(dump_, Len(dump_) + 1)

Cuts(dump_) == {End(dump_)}
  \union {RecordStart(dump_, k) + RecordHeader + 1 : k \in {k \in DOMAIN dump_ : LengthOf(dump_[k]) > 0}}
  \union UNION
  {{ObjectStart(dump_, p[1], p[2]), ObjectStart(dump_, p[1], p[2]) + 1,
    ObjectStart(dump_, p[1], p[2] + 1) - 1} : p \in ObjectsBefore(dump_, End(dump_))}

Layout == (20 :> <<10>>) @@ (21 :> <<2, 4, 10>>)

MCInputs ==
  UNION {{[dump |-> d, cut |-> c, layout |-> Layout] : c \in Cuts(d)} : d \in Dumps \union Odd}

==============================================================================
