----------------------------- MODULE ParseProofs -----------------------------
(***************************************************************************)
(* Of every dump, however it is cut: a reference is never written without  *)
(* its source, nor a class without its name; what parse takes for the      *)
(* start of a record or an object is one; and if parse succeeds, what it   *)
(* has written is what the objects that arrived hold, no less and no more. *)
(*                                                                         *)
(* Records and objects are as long as what they are made of, so that the   *)
(* module starts with sums: of lengths that follow each other (Prefix),    *)
(* and of what is where in a dump (RecordsFollow, ObjectsFollow).  Framed  *)
(* is the inductive invariant of the position, and Counted that of the     *)
(* count of bytes next to it.  For the columns, Knows says that the maps   *)
(* of classes agree with the dump, and ColumnsHold that the columns hold   *)
(* what starts before the position.                                        *)
(***************************************************************************)
EXTENDS Parse, LinkFilesTheorems

Rooted == pc = "heap" => 0 \in Ids

(* What the maps hold, and where the parser is, as far as names need it.   *)
NamesKept ==
  /\ \A id \in DOMAIN classNameId : classNameId[id] \in names
  /\ \E i \in Inputs : dump = i.dump /\ cut = i.cut
  /\ pc = "heap" => at \in DOMAIN dump /\ Record.tag = "heap"

LEMMA ColumnsGrow ==
  ASSUME Next
  PROVE  instances \subseteq instances' /\ Ids \subseteq Ids'
<1>1. instances \subseteq instances'
  BY DEF Next, ReadRecord, ReadObject, ReadName, LoadClass, IgnoreRecord, SkipRecord,
         OpenHeapDump, EndOfInput, RecordFails, ReadRoot, ReadClass, ReadInstance,
         ReadObjectArray, ReadPrimitiveArray, ObjectFails, CloseHeapDump, columns,
         WithVirtualRoot, WithClass
<1>2. QED
  BY <1>1 DEF Ids

LEMMA HeapStaysOpen ==
  ASSUME Next, pc' = "heap"
  PROVE  pc = "heap" \/ OpenHeapDump
BY DEF Next, ReadRecord, ReadObject, ReadName, LoadClass, IgnoreRecord, SkipRecord,
       EndOfInput, RecordFails, ReadRoot, ReadClass, ReadInstance, ReadObjectArray,
       ReadPrimitiveArray, ObjectFails, CloseHeapDump, AtRecord, AtObject, InDump

(* Whoever holds a new reference has its row by the end of the step.       *)
LEMMA NewReferrers ==
  ASSUME Next, Rooted
  PROVE  \A link \in references' \ references : link.src \in Ids'
<1>1. CASE ReadRoot
  <2>1. 0 \in Ids
    BY <1>1 DEF Rooted, ReadRoot, AtObject, InDump
  <2>2. \A link \in references' \ references : link.src = 0
    BY <1>1 DEF ReadRoot, LinkTo
  <2>3. QED
    BY <2>1, <2>2, ColumnsGrow
<1>2. CASE ReadClass
  <2>1. 0 \in Ids
    BY <1>2 DEF Rooted, ReadClass, AtObject, InDump
  <2>2. Row(Object.id, Object.id, SizeOf(Object) - 1) \in instances'
    BY <1>2 DEF ReadClass, WithClass
  <2>3. Object.id \in Ids'
    BY <2>2 DEF Ids, Row
  <2>4. references' = references \union StaticLinks(Object)
    BY <1>2 DEF ReadClass
  <2>5. \A link \in StaticLinks(Object) : link.src \in {Object.id, 0}
    BY DEF StaticLinks, LinkTo
  <2>6. QED
    BY <2>1, <2>3, <2>4, <2>5, ColumnsGrow
<1>3. CASE ReadInstance
  <2>1. Row(Object.id, Object.class, SizeOf(Object) - 1) \in instances'
    BY <1>3 DEF ReadInstance
  <2>2. Object.id \in Ids'
    BY <2>1 DEF Ids, Row
  <2>3. references' = references \union FieldLinks(Object, Resolved(Object.class))
    BY <1>3 DEF ReadInstance
  <2>4. \A link \in FieldLinks(Object, Resolved(Object.class)) : link.src = Object.id
    BY DEF FieldLinks, LinkTo
  <2>5. QED
    BY <2>2, <2>3, <2>4
<1>4. CASE ReadObjectArray
  <2>1. Row(Object.id, Object.class, IdentifierSize * Len(Object.values)) \in instances'
    BY <1>4 DEF ReadObjectArray
  <2>2. Object.id \in Ids'
    BY <2>1 DEF Ids, Row
  <2>3. \A link \in references' \ references : link.src = Object.id
    BY <1>4 DEF ReadObjectArray, LinkTo
  <2>4. QED
    BY <2>2, <2>3
<1>5. CASE ~ (ReadRoot \/ ReadClass \/ ReadInstance \/ ReadObjectArray)
  BY <1>5 DEF Next, ReadRecord, ReadObject, ReadName, LoadClass, IgnoreRecord, SkipRecord,
              OpenHeapDump, EndOfInput, RecordFails, ReadPrimitiveArray, ObjectFails,
              CloseHeapDump, columns
<1>6. QED
  BY <1>1, <1>2, <1>3, <1>4, <1>5

(***************************************************************************)
(* No reference of any dump is written before its source is an instance:   *)
(* roots and static fields have the virtual root, which every heap dump    *)
(* writes first (parse.cc:744), and objects are written before what they   *)
(* hold.                                                                   *)
(***************************************************************************)
THEOREM ReferrersWritten == Spec => []ReferrersAreInstances
<1>1. Init => ReferrersAreInstances /\ Rooted
  BY DEF Init, ReferrersAreInstances, Rooted
<1>2. ReferrersAreInstances /\ Rooted /\ [Next]_vars => (ReferrersAreInstances /\ Rooted)'
  <2>1. CASE UNCHANGED vars
    BY <2>1 DEF vars, columns, ReferrersAreInstances, Rooted, Ids
  <2>2. ASSUME ReferrersAreInstances, Rooted, Next
        PROVE  ReferrersAreInstances' /\ Rooted'
    <3>1. ReferrersAreInstances'
      BY <2>2, NewReferrers, ColumnsGrow DEF ReferrersAreInstances
    <3>2. ASSUME OpenHeapDump PROVE 0 \in Ids'
      <4>1. Row(0, 0, 0) \in instances'
        BY <3>2 DEF OpenHeapDump, WithVirtualRoot
      <4>2. QED
        BY <4>1 DEF Ids, Row
    <3>3. Rooted'
      BY <2>2, <3>2, HeapStaysOpen, ColumnsGrow DEF Rooted
    <3>4. QED
      BY <3>1, <3>3
  <2>3. QED
    BY <2>1, <2>2
<1>3. QED
  BY <1>1, <1>2, PTL DEF Spec

------------------------------------------------------------------------------
(***************************************************************************)
(* Every class of any dump has a name that is in the name columns: a class *)
(* is named when it is loaded, by a name that came before (parse.cc:1070), *)
(* and is described after that (parse.cc:594).                             *)
(***************************************************************************)
THEOREM ClassesNamed == Spec => []ClassNamesAreNames
<1> DEFINE Inv == NamesKept /\ ClassNamesAreNames
<1>1. Init => Inv
  BY DEF Init, NamesKept, ClassNamesAreNames, Synthetic, Empty
<1>2. Inv /\ [Next]_vars => Inv'
  <2> SUFFICES ASSUME Inv, [Next]_vars PROVE Inv'
    OBVIOUS
  <2>1. CASE ReadName
    BY <2>1 DEF NamesKept, ClassNamesAreNames, ReadName, AtRecord, input, hierarchy,
                columns, Record
  <2>2. CASE LoadClass
    BY <2>2 DEF NamesKept, ClassNamesAreNames, LoadClass, AtRecord, input, hierarchy,
                columns, Put, NameKnown, Record
  <2>3. CASE OpenHeapDump
    BY <2>3 DEF NamesKept, ClassNamesAreNames, OpenHeapDump, AtRecord, input, loaded, Record
  <2>4. CASE ReadClass
    <3>1. at \in DOMAIN dump /\ Record.tag = "heap" /\ sub \in DOMAIN Record.objects
      BY <2>4 DEF NamesKept, ReadClass, AtObject, InDump
    <3>2. Object.id \notin Primitives
      BY <2>4, <3>1, InputsAssumption DEF NamesKept, ReadClass, AtObject, Object, Record
    <3>3. NameIdOf(Object.id) \in names
      BY <2>4, <3>2 DEF NamesKept, ReadClass, ClassKnown, NameIdOf
    <3>4. ClassNamesAreNames'
      BY <2>4, <3>3 DEF ReadClass, ClassNamesAreNames, loaded
    <3>5. NamesKept'
      BY <2>4 DEF ReadClass, AtObject, InDump, NamesKept, loaded, input, Record
    <3>6. QED
      BY <3>4, <3>5
  <2>5. CASE ReadRoot \/ ReadInstance \/ ReadObjectArray \/ ReadPrimitiveArray
    BY <2>5 DEF ReadRoot, ReadInstance, ReadObjectArray, ReadPrimitiveArray, AtObject,
                InDump, NamesKept, ClassNamesAreNames, input, loaded, hierarchy, Record
  <2>6. CASE IgnoreRecord \/ SkipRecord
    BY <2>6 DEF IgnoreRecord, SkipRecord, AtRecord, NamesKept, ClassNamesAreNames, input,
                loaded, columns, Record
  <2>7. CASE EndOfInput \/ RecordFails \/ ObjectFails \/ CloseHeapDump
    BY <2>7 DEF EndOfInput, RecordFails, ObjectFails, CloseHeapDump, NamesKept,
                ClassNamesAreNames, input, loaded, columns, Record
  <2>8. CASE UNCHANGED vars
    BY <2>8 DEF vars, NamesKept, ClassNamesAreNames, input, loaded, columns, Record
  <2>9. QED
    BY <2>1, <2>2, <2>3, <2>4, <2>5, <2>6, <2>7, <2>8 DEF Next, ReadRecord, ReadObject
<1>3. QED
  BY <1>1, <1>2, PTL DEF Spec

------------------------------------------------------------------------------
(* Lengths that add up *)

(* Lengths of things that follow each other, and u with where each starts. *)
Lengths(f, n) == \A k \in 1..n : f[k] \in Nat

Running(u, f, n) ==
  /\ u[0] = 0
  /\ \A k \in 0..n : u[k] \in Nat
  /\ \A k \in 1..n : u[k] = u[k - 1] + f[k]

(* Such a u exists, by induction on n. *)
LEMMA RunningExists ==
  ASSUME NEW n \in Nat, NEW f, Lengths(f, n)
  PROVE  \E u : Running(u, f, n)
<1> DEFINE Bad == {m \in 0..n : ~ \E u \in [0..m -> Nat] : Running(u, f, m)}
<1>1. 0 \notin Bad
  <2>1. [k \in 0..0 |-> 0] \in [0..0 -> Nat] /\ Running([k \in 0..0 |-> 0], f, 0)
    BY DEF Running
  <2>2. QED
    BY <2>1
<1>2. ASSUME NEW m \in 1..n, m - 1 \notin Bad PROVE m \notin Bad
  <2>1. PICK u \in [0..(m - 1) -> Nat] : Running(u, f, m - 1)
    BY <1>2
  <2> DEFINE v == [k \in 0..m |-> IF k = m THEN u[m - 1] + f[m] ELSE u[k]]
  <2>2. u[m - 1] \in Nat /\ f[m] \in Nat
    BY DEF Lengths
  <2>3. v \in [0..m -> Nat]
    BY <2>2
  <2>4. v[m] = u[m - 1] + f[m] /\ \A k \in 0..(m - 1) : v[k] = u[k]
    OBVIOUS
  <2> HIDE DEF v
  <2>5. Running(v, f, m)
    <3>1. v[0] = 0 /\ \A k \in 0..m : v[k] \in Nat
      BY <2>1, <2>3, <2>4 DEF Running
    <3>2. ASSUME NEW k \in 1..m PROVE v[k] = v[k - 1] + f[k]
      <4>1. CASE k = m
        BY <2>4, <4>1
      <4>2. CASE k # m
        <5>1. k \in 1..(m - 1) /\ k \in 0..(m - 1) /\ k - 1 \in 0..(m - 1)
          BY <4>2
        <5>2. QED
          BY <2>1, <2>4, <5>1 DEF Running
      <4>3. QED
        BY <4>1, <4>2
    <3>3. QED
      BY <3>1, <3>2 DEF Running
  <2>6. QED
    BY <2>3, <2>5
<1> HIDE DEF Bad
<1>3. Bad = {}
  <2>1. SUFFICES ASSUME Bad # {} PROVE FALSE
    OBVIOUS
  <2>2. Bad \subseteq 0..n /\ Bad \subseteq Nat
    BY DEF Bad
  <2>3. PICK m \in Bad : \A k \in Bad : m <= k
    BY <2>1, <2>2, LeastElement
  <2>4. m \in 1..n /\ m - 1 \notin Bad
    BY <1>1, <2>2, <2>3
  <2>5. QED
    BY <1>2, <2>3, <2>4
<1>4. QED
  BY <1>3 DEF Bad

Prefix(f, m) == Total([k \in 1..m |-> f[k]])

(* Total, a recursive function, is where the last of them ends. *)
LEMMA PrefixIsRunning ==
  ASSUME NEW n \in Nat, NEW f, NEW u, Running(u, f, n), NEW m \in 0..n
  PROVE  Prefix(f, m) = u[m]
<1> DEFINE e == [k \in 1..m |-> f[k]]
           Step(h) == [k \in 0..m |-> IF k = 0 THEN 0 ELSE h[k - 1] + e[k]]
           upTo == CHOOSE h : h = Step(h)
           part == [k \in 0..m |-> u[k]]
<1>1. Len(e) = m
  OBVIOUS
<1>2. Prefix(f, m) = upTo[m]
  BY <1>1 DEF Prefix, Total
<1>3. part = Step(part)
  <2>1. ASSUME NEW k \in 0..m PROVE part[k] = IF k = 0 THEN 0 ELSE part[k - 1] + e[k]
    BY DEF Running
  <2>2. QED
    BY <2>1
<1>4. upTo = Step(upTo)
  BY <1>3
<1> HIDE DEF upTo
<1>5. \A k \in 0..m : upTo[k] = IF k = 0 THEN 0 ELSE upTo[k - 1] + f[k]
  <2>1. \A k \in 1..m : e[k] = f[k]
    OBVIOUS
  <2> HIDE DEF e
  <2>2. \A k \in 0..m : upTo[k] = IF k = 0 THEN 0 ELSE upTo[k - 1] + e[k]
    BY <1>4
  <2>3. QED
    BY <2>1, <2>2
<1> DEFINE Bad == {k \in 0..m : upTo[k] # u[k]}
<1>6. 0 \notin Bad
  BY <1>5 DEF Running
<1>7. ASSUME NEW k \in 1..m, k - 1 \notin Bad PROVE k \notin Bad
  <2>1. upTo[k - 1] = u[k - 1] /\ u[k] = u[k - 1] + f[k]
    BY <1>7 DEF Running
  <2>2. QED
    BY <1>5, <2>1
<1>8. Bad \subseteq 0..m /\ Bad \subseteq Nat
  OBVIOUS
<1> HIDE DEF Bad
<1>9. Bad = {}
  <2>1. SUFFICES ASSUME Bad # {} PROVE FALSE
    OBVIOUS
  <2>2. PICK k \in Bad : \A j \in Bad : k <= j
    BY <1>8, <2>1, LeastElement
  <2>3. k \in 1..m /\ k - 1 \notin Bad
    BY <1>6, <1>8, <2>2
  <2>4. QED
    BY <1>7, <2>2, <2>3
<1>10. QED
  BY <1>2, <1>9 DEF Bad

PrefixSums(f, n) ==
  /\ Prefix(f, 0) = 0
  /\ \A m \in 0..n : Prefix(f, m) \in Nat
  /\ \A m \in 1..n : Prefix(f, m) = Prefix(f, m - 1) + f[m]

(* The recursion of Total, one length at a time. *)
LEMMA PrefixLaws ==
  ASSUME NEW n \in Nat, NEW f, Lengths(f, n)
  PROVE  PrefixSums(f, n)
<1>1. PICK u : Running(u, f, n)
  BY RunningExists
<1>2. \A m \in 0..n : Prefix(f, m) = u[m]
  BY <1>1, PrefixIsRunning
<1>3. QED
  BY <1>1, <1>2 DEF PrefixSums, Running

(* Things that come later start later. *)
LEMMA PrefixMonotone ==
  ASSUME NEW n \in Nat, NEW f, Lengths(f, n), NEW i \in 0..n, NEW j \in i..n
  PROVE  Prefix(f, i) <= Prefix(f, j)
<1> DEFINE Bad == {m \in i..n : ~ Prefix(f, i) <= Prefix(f, m)}
<1>1. PrefixSums(f, n)
  BY PrefixLaws
<1>2. i \notin Bad
  BY <1>1 DEF PrefixSums
<1>3. ASSUME NEW m \in (i + 1)..n, m - 1 \notin Bad PROVE m \notin Bad
  <2>1. /\ Prefix(f, m) = Prefix(f, m - 1) + f[m] /\ f[m] \in Nat
        /\ Prefix(f, m - 1) \in Nat /\ Prefix(f, i) \in Nat /\ Prefix(f, i) <= Prefix(f, m - 1)
    BY <1>1, <1>3 DEF PrefixSums, Lengths
  <2>2. QED
    BY <2>1
<1>4. Bad \subseteq i..n
  OBVIOUS
<1> HIDE DEF Bad
<1>5. Bad = {}
  <2>1. SUFFICES ASSUME Bad # {} PROVE FALSE
    OBVIOUS
  <2>2. Bad \subseteq Nat
    BY <1>4
  <2>3. PICK k \in Bad : \A m \in Bad : k <= m
    BY <2>1, <2>2, LeastElement
  <2>4. k \in (i + 1)..n /\ k - 1 \notin Bad
    BY <1>2, <1>4, <2>3
  <2>5. QED
    BY <1>3, <2>3, <2>4
<1>6. QED
  BY <1>5 DEF Bad

------------------------------------------------------------------------------
(* What takes how many bytes *)

LEMMA ListLaws ==
  ASSUME NEW s, IsList(s)
  PROVE  Len(s) \in Nat /\ DOMAIN s = 1..Len(s)
BY LenProperties DEF IsList

LEMMA TotalIsNat ==
  ASSUME NEW n \in Nat, NEW f, DOMAIN f = 1..n, f = [k \in DOMAIN f |-> f[k]], Lengths(f, n)
  PROVE  Total(f) \in Nat /\ Total(f) = Prefix(f, n)
<1>1. f = [k \in 1..n |-> f[k]]
  OBVIOUS
<1>2. Total(f) = Prefix(f, n)
  BY <1>1 DEF Prefix
<1>3. PrefixSums(f, n) /\ n \in 0..n
  BY PrefixLaws
<1>4. QED
  BY <1>2, <1>3 DEF PrefixSums

LEMMA TypeSizes ==
  ASSUME NEW type \in Types
  PROVE  TypeSize(type) \in Nat \ {0}
BY IdentifierSizeAssumption DEF TypeSize, Types, Reference, Primitives

LEMMA SizesOfAll ==
  ASSUME NEW types \in Seq(Types)
  PROVE  SizeOfAll(types) \in Nat
<1> DEFINE f == [k \in DOMAIN types |-> TypeSize(types[k])]
           n == Len(types)
<1>1. n \in Nat /\ DOMAIN f = 1..n /\ f = [k \in DOMAIN f |-> f[k]]
  BY LenProperties
<1>2. \A k \in 1..n : types[k] \in Types
  BY ElementOfSeq
<1>3. \A k \in 1..n : f[k] \in Nat
  BY <1>1, <1>2, TypeSizes
<1>4. Lengths(f, n)
  BY <1>3 DEF Lengths
<1> HIDE DEF f, n
<1>5. Total(f) \in Nat
  BY <1>1, <1>4, TotalIsNat
<1>6. QED
  BY <1>5 DEF f, SizeOfAll

(* Every object has at least its tag. *)
LEMMA SizesOfObjects ==
  ASSUME NEW object, WellFormedObject(object)
  PROVE  SizeOf(object) \in Nat \ {0}
<1>0. IdentifierSize \in Nat
  BY IdentifierSizeAssumption
<1>1. CASE object.kind = "root"
  BY <1>0, <1>1 DEF WellFormedObject, SizeOf
<1>2. CASE object.kind = "class"
  <2>1. /\ SizeOfAll(object.pool) \in Nat /\ Len(object.pool) \in Nat
        /\ SizeOfAll(TypesOf(object.statics)) \in Nat /\ Len(object.statics) \in Nat
        /\ Len(object.fields) \in Nat
    BY <1>2, SizesOfAll, ListLaws, LenProperties DEF WellFormedObject
  <2> DEFINE pool == SizeOfAll(object.pool)
             statics == SizeOfAll(TypesOf(object.statics))
             a == Len(object.pool)
             b == (IdentifierSize + 1) * Len(object.statics)
             c == (IdentifierSize + 1) * Len(object.fields)
  <2>2. {pool, statics, a, b, c} \subseteq Nat
    <3>1. IdentifierSize + 1 \in Nat
      BY <1>0
    <3>2. b \in Nat /\ c \in Nat
      BY <2>1, <3>1
    <3>3. QED
      BY <2>1, <3>2
  <2>3. SizeOf(object) = 1 + (7 * IdentifierSize + 8 + 6 + pool + 3 * a + statics + b + c)
    BY <1>2 DEF SizeOf, ClassHeader
  <2> HIDE DEF pool, statics, a, b, c
  <2>4. QED
    BY <1>0, <2>2, <2>3
<1>3. CASE object.kind = "instance"
  <2>1. SizeOfAll(object.types) \in Nat
    BY <1>3, SizesOfAll DEF WellFormedObject
  <2>2. QED
    BY <1>0, <1>3, <2>1 DEF SizeOf, InstanceHeader
<1>4. CASE object.kind = "objects"
  <2>1. Len(object.values) \in Nat
    BY <1>4, ListLaws DEF WellFormedObject
  <2>2. IdentifierSize * Len(object.values) \in Nat
    BY <1>0, <2>1
  <2>3. QED
    BY <1>0, <1>4, <2>2 DEF SizeOf, InstanceHeader
<1>5. CASE object.kind = "primitives"
  <2>1. TypeSize(object.type) \in Nat /\ object.num \in Nat
    BY <1>5, TypeSizes DEF WellFormedObject, Types
  <2>2. TypeSize(object.type) * object.num \in Nat
    BY <2>1
  <2>3. QED
    BY <1>0, <1>5, <2>2 DEF SizeOf
<1>6. QED
  BY <1>1, <1>2, <1>3, <1>4, <1>5 DEF WellFormedObject

(* The objects of a record, and how many bytes each takes. *)
Sizes(objects) == [k \in DOMAIN objects |-> SizeOf(objects[k])]

LEMMA SizesInHeap ==
  ASSUME NEW d, WellFormed(d), NEW at_ \in DOMAIN d, d[at_].tag = "heap"
  PROVE  /\ Len(d[at_].objects) \in Nat /\ DOMAIN d[at_].objects = 1..Len(d[at_].objects)
         /\ \A k \in DOMAIN d[at_].objects : /\ WellFormedObject(d[at_].objects[k])
                                            /\ SizeOf(d[at_].objects[k]) \in Nat \ {0}
         /\ Lengths(Sizes(d[at_].objects), Len(d[at_].objects))
<1> DEFINE objects == d[at_].objects
<1>1. IsList(objects) /\ \A o \in Range(objects) : WellFormedObject(o)
  BY DEF WellFormed
<1> HIDE DEF objects
<1>2. Len(objects) \in Nat /\ DOMAIN objects = 1..Len(objects)
  BY <1>1, ListLaws
<1>3. \A k \in DOMAIN objects : WellFormedObject(objects[k])
  BY <1>1 DEF Range
<1>4. \A k \in DOMAIN objects : SizeOf(objects[k]) \in Nat \ {0}
  BY <1>3, SizesOfObjects
<1>5. Lengths(Sizes(objects), Len(objects))
  BY <1>2, <1>4 DEF Lengths, Sizes
<1>6. QED
  BY <1>2, <1>3, <1>4, <1>5 DEF objects

(* A heap dump is as long as its objects. *)
LEMMA LengthsOfRecords ==
  ASSUME NEW d, WellFormed(d), NEW at_ \in DOMAIN d
  PROVE  /\ LengthOf(d[at_]) \in Nat
         /\ d[at_].tag = "heap" =>
              LengthOf(d[at_]) = Prefix(Sizes(d[at_].objects), Len(d[at_].objects))
<1> DEFINE record == d[at_]
<1>1. /\ record.tag \in {"name", "class", "skipped", "other", "heap"}
      /\ record.tag \in {"skipped", "other"} => record.length \in Nat
  BY DEF WellFormed
<1>2. ASSUME record.tag = "heap"
      PROVE  /\ LengthOf(record) \in Nat
             /\ LengthOf(record) = Prefix(Sizes(record.objects), Len(record.objects))
  <2>1. /\ Len(record.objects) \in Nat /\ DOMAIN record.objects = 1..Len(record.objects)
        /\ Lengths(Sizes(record.objects), Len(record.objects))
    BY <1>2, SizesInHeap
  <2>2. LengthOf(record) = Total(Sizes(record.objects))
    BY <1>2 DEF LengthOf, Sizes
  <2> DEFINE f == Sizes(record.objects)
             n == Len(record.objects)
  <2>3. n \in Nat /\ DOMAIN f = 1..n /\ f = [k \in DOMAIN f |-> f[k]] /\ Lengths(f, n)
    BY <2>1 DEF Sizes
  <2> HIDE DEF f, n
  <2>4. Total(f) \in Nat /\ Total(f) = Prefix(f, n)
    BY <2>3, TotalIsNat
  <2>5. QED
    BY <2>2, <2>4 DEF f, n
<1> HIDE DEF record
<1>3. IdentifierSize \in Nat
  BY IdentifierSizeAssumption
<1>4. CASE record.tag = "name"
  <2>1. LengthOf(record) = IdentifierSize + 1
    BY <1>4 DEF LengthOf
  <2>2. QED
    BY <1>3, <1>4, <2>1 DEF record
<1>5. CASE record.tag = "class"
  <2>1. LengthOf(record) = 2 * IdentifierSize + 8
    BY <1>5 DEF LengthOf
  <2>2. QED
    BY <1>3, <1>5, <2>1 DEF record
<1>6. CASE record.tag \in {"skipped", "other"}
  <2>1. LengthOf(record) = record.length
    BY <1>6 DEF LengthOf
  <2>2. QED
    BY <1>1, <1>6, <2>1 DEF record
<1>7. QED
  BY <1>1, <1>2, <1>4, <1>5, <1>6 DEF record

------------------------------------------------------------------------------
(* What starts where *)

RecordsFollow(d) ==
  /\ Len(d) \in Nat /\ DOMAIN d = 1..Len(d)
  /\ \A k \in 1..Len(d) : LengthOf(d[k]) \in Nat
  /\ RecordStart(d, 1) = 0
  /\ \A k \in 1..(Len(d) + 1) : RecordStart(d, k) \in Nat
  /\ \A k \in 1..Len(d) : RecordStart(d, k + 1) = RecordStart(d, k) + RecordHeader + LengthOf(d[k])
  /\ \A i, j \in 1..(Len(d) + 1) : i <= j => RecordStart(d, i) <= RecordStart(d, j)

(* Records follow each other without gaps, *)
LEMMA RecordStarts ==
  ASSUME NEW d, WellFormed(d)
  PROVE  RecordsFollow(d)
<1> DEFINE n == Len(d)
           f == [k \in 1..n |-> RecordHeader + LengthOf(d[k])]
<1>1. n \in Nat /\ DOMAIN d = 1..n
  BY ListLaws DEF WellFormed
<1>2. \A k \in 1..n : LengthOf(d[k]) \in Nat
  BY <1>1, LengthsOfRecords
<1>3. \A k \in 1..n : f[k] \in Nat /\ f[k] = RecordHeader + LengthOf(d[k])
  BY <1>2 DEF RecordHeader
<1>4. \A k \in 1..(n + 1) : RecordStart(d, k) = Prefix(f, k - 1)
  <2>1. ASSUME NEW k \in 1..(n + 1)
        PROVE  [j \in 1..(k - 1) |-> RecordHeader + LengthOf(d[j])] = [j \in 1..(k - 1) |-> f[j]]
    BY <1>1
  <2>2. QED
    BY <2>1 DEF RecordStart, Prefix
<1> HIDE DEF f, n
<1>5. Lengths(f, n)
  BY <1>3 DEF Lengths
<1>6. PrefixSums(f, n)
  BY <1>1, <1>5, PrefixLaws
<1>7. \A i \in 0..n : \A j \in i..n : Prefix(f, i) <= Prefix(f, j)
  BY <1>1, <1>5, PrefixMonotone
<1>8. RecordStart(d, 1) = 0 /\ \A k \in 1..(n + 1) : RecordStart(d, k) \in Nat
  BY <1>1, <1>4, <1>6 DEF PrefixSums
<1>9. ASSUME NEW k \in 1..n PROVE RecordStart(d, k + 1) = RecordStart(d, k) + RecordHeader + LengthOf(d[k])
  <2>1. /\ RecordStart(d, k + 1) = Prefix(f, k) /\ RecordStart(d, k) = Prefix(f, k - 1)
        /\ Prefix(f, k) = Prefix(f, k - 1) + f[k] /\ Prefix(f, k - 1) \in Nat
    BY <1>1, <1>4, <1>6 DEF PrefixSums
  <2>2. QED
    BY <1>2, <1>3, <2>1 DEF RecordHeader
<1>10. ASSUME NEW i \in 1..(n + 1), NEW j \in 1..(n + 1), i <= j
       PROVE  RecordStart(d, i) <= RecordStart(d, j)
  <2>1. i - 1 \in 0..n /\ j - 1 \in (i - 1)..n
    BY <1>1, <1>10
  <2>2. QED
    BY <1>4, <1>7, <2>1
<1>11. QED
  BY <1>1, <1>2, <1>8, <1>9, <1>10 DEF RecordsFollow, n

ObjectsFollow(d, r) ==
  LET objects == d[r].objects
      n == Len(objects)
  IN  /\ n \in Nat /\ DOMAIN objects = 1..n
      /\ \A k \in 1..n : SizeOf(objects[k]) \in Nat \ {0}
      /\ ObjectStart(d, r, 1) = RecordStart(d, r) + RecordHeader
      /\ \A k \in 1..(n + 1) : ObjectStart(d, r, k) \in Nat
      /\ \A k \in 1..n : ObjectStart(d, r, k + 1) = ObjectStart(d, r, k) + SizeOf(objects[k])
      /\ \A i, j \in 1..(n + 1) : i <= j => ObjectStart(d, r, i) <= ObjectStart(d, r, j)
      /\ ObjectStart(d, r, n + 1) = RecordStart(d, r) + RecordHeader + LengthOf(d[r])

(* and so do the objects of a heap dump, which ends where they end. *)
LEMMA ObjectStarts ==
  ASSUME NEW d, WellFormed(d), NEW r \in DOMAIN d, d[r].tag = "heap"
  PROVE  ObjectsFollow(d, r)
<1> DEFINE objects == d[r].objects
           n == Len(objects)
           f == Sizes(objects)
           base == RecordStart(d, r) + RecordHeader
<1>1. n \in Nat /\ DOMAIN objects = 1..n /\ Lengths(f, n)
  BY SizesInHeap
<1>2. \A k \in 1..n : SizeOf(objects[k]) \in Nat \ {0} /\ f[k] = SizeOf(objects[k])
  BY <1>1, SizesInHeap DEF Sizes
<1>3. base \in Nat
  BY RecordStarts DEF RecordsFollow, RecordHeader
<1>4. LengthOf(d[r]) = Prefix(f, n)
  BY LengthsOfRecords
<1>5. \A k \in 1..(n + 1) : ObjectStart(d, r, k) = base + Prefix(f, k - 1)
  <2>1. ASSUME NEW k \in 1..(n + 1)
        PROVE  [j \in 1..(k - 1) |-> SizeOf(objects[j])] = [j \in 1..(k - 1) |-> f[j]]
    BY <1>1 DEF Sizes
  <2>2. QED
    BY <2>1 DEF ObjectStart, Prefix
<1> HIDE DEF f, n, objects, base
<1>6. PrefixSums(f, n)
  BY <1>1, PrefixLaws
<1>7. \A i \in 0..n : \A j \in i..n : Prefix(f, i) <= Prefix(f, j)
  BY <1>1, PrefixMonotone
<1>8. \A k \in 0..n : Prefix(f, k) \in Nat
  BY <1>6 DEF PrefixSums
<1>9. ObjectStart(d, r, 1) = base /\ \A k \in 1..(n + 1) : ObjectStart(d, r, k) \in Nat
  <2>1. 1 \in 1..(n + 1) /\ Prefix(f, 1 - 1) = 0
    BY <1>1, <1>6 DEF PrefixSums
  <2>2. QED
    BY <1>1, <1>3, <1>5, <1>8, <2>1
<1>10. ASSUME NEW k \in 1..n PROVE ObjectStart(d, r, k + 1) = ObjectStart(d, r, k) + SizeOf(objects[k])
  <2>1. /\ ObjectStart(d, r, k + 1) = base + Prefix(f, k) /\ ObjectStart(d, r, k) = base + Prefix(f, k - 1)
        /\ Prefix(f, k) = Prefix(f, k - 1) + f[k] /\ Prefix(f, k - 1) \in Nat
    BY <1>1, <1>5, <1>6 DEF PrefixSums
  <2>2. QED
    BY <1>2, <1>3, <2>1
<1>11. ASSUME NEW i \in 1..(n + 1), NEW j \in 1..(n + 1), i <= j
       PROVE  ObjectStart(d, r, i) <= ObjectStart(d, r, j)
  <2>1. i - 1 \in 0..n /\ j - 1 \in (i - 1)..n
    BY <1>1, <1>11
  <2>2. Prefix(f, i - 1) \in Nat /\ Prefix(f, j - 1) \in Nat /\ Prefix(f, i - 1) <= Prefix(f, j - 1)
    BY <1>1, <1>7, <1>8, <2>1
  <2>3. QED
    BY <1>3, <1>5, <2>2
<1>12. ObjectStart(d, r, n + 1) = base + LengthOf(d[r])
  BY <1>1, <1>4, <1>5
<1>13. QED
  BY <1>1, <1>2, <1>9, <1>10, <1>11, <1>12 DEF ObjectsFollow, n, objects, base

------------------------------------------------------------------------------
(* Sizes pass through ints *)

LEMMA Remainder ==
  ASSUME NEW m \in Nat \ {0}, NEW x \in Int
  PROVE  x % m \in 0..(m - 1) /\ \E q \in Int : x = q * m + (x % m)
<1>1. x % m \in 0..(m - 1)
  OBVIOUS
<1>2. x \div m \in Int
  OBVIOUS
<1>3. x = (x \div m) * m + (x % m)
  OBVIOUS
<1>4. QED
  BY <1>1, <1>2, <1>3

(* There is one remainder. *)
LEMMA SameRemainder ==
  ASSUME NEW m \in Nat \ {0}, NEW x \in Int, NEW r \in 0..(m - 1), NEW q \in Int, x = q * m + r
  PROVE  x % m = r
<1>1. x % m \in 0..(m - 1)
  OBVIOUS
<1>2. PICK p \in Int : x = p * m + (x % m)
  BY Remainder
<1> DEFINE s == x % m
<1>3. q * m + r = p * m + s /\ s \in 0..(m - 1)
  <2>1. x = p * m + s
    BY <1>2
  <2>2. s \in 0..(m - 1)
    BY <1>1
  <2> HIDE DEF s
  <2>3. QED
    BY <2>1, <2>2
<1> HIDE DEF s
<1>4. (q - p) * m = s - r
  BY <1>3
<1>5. q - p <= 0
  <2>1. SUFFICES ASSUME q - p >= 1 PROVE FALSE
    OBVIOUS
  <2>2. (q - p) * m >= m
    BY <2>1
  <2>3. QED
    BY <1>3, <1>4, <2>2
<1>6. q - p >= 0
  <2>1. SUFFICES ASSUME q - p <= 0 - 1 PROVE FALSE
    OBVIOUS
  <2>2. (q - p) * m <= 0 - m
    BY <2>1
  <2>3. QED
    BY <1>3, <1>4, <2>2
<1>7. q = p
  BY <1>5, <1>6
<1>8. QED
  BY <1>3, <1>7 DEF s

LEMMA OwnRemainder ==
  ASSUME NEW m \in Nat \ {0}, NEW x \in 0..(m - 1)
  PROVE  x % m = x
<1>1. x \in Int /\ x = 0 * m + x
  OBVIOUS
<1>2. QED
  BY <1>1, SameRemainder

(* Wrapping may be put off to the end of a sum. *)
LEMMA Wrapping ==
  ASSUME NEW m \in Nat \ {0}, NEW x \in Int, NEW y \in Int
  PROVE  /\ ((x % m) - y) % m = (x - y) % m
         /\ (x - (y % m)) % m = (x - y) % m
<1>1. PICK p \in Int : x = p * m + (x % m)
  BY Remainder
<1>2. PICK q \in Int : y = q * m + (y % m)
  BY Remainder
<1>3. PICK r \in Int : x - y = r * m + ((x - y) % m)
  <2>1. x - y \in Int
    OBVIOUS
  <2>2. \A z \in Int : \E r \in Int : z = r * m + (z % m)
    BY Remainder
  <2>3. QED
    BY <2>1, <2>2
<1> DEFINE a == x % m
           b == y % m
           c == (x - y) % m
<1>4. a \in 0..(m - 1) /\ b \in 0..(m - 1) /\ c \in 0..(m - 1)
  BY Remainder
<1> HIDE DEF a, b, c
<1>5. (a - y) % m = c
  <2>1. a - y = (r - p) * m + c
    BY <1>1, <1>3, <1>4 DEF a, c
  <2>2. QED
    BY <1>4, <2>1, SameRemainder
<1>6. (x - b) % m = c
  <2>1. x - b = (r + q) * m + c
    BY <1>2, <1>3, <1>4 DEF b, c
  <2>2. QED
    BY <1>4, <2>1, SameRemainder
<1>7. QED
  BY <1>5, <1>6 DEF a, b, c

LEMMA Widths ==
  /\ IntValues \in Nat \ {0} /\ SizeValues \in Nat \ {0} /\ IntValues <= SizeValues
  /\ IntValues \div 2 \in Nat /\ 2 * (IntValues \div 2) = IntValues
<1>1. IntValues \in Nat \ {0} /\ SizeValues \in Nat \ {0}
      /\ IntValues % 2 = 0 /\ SizeValues % IntValues = 0
  BY WidthAssumption
<1>2. IntValues \div 2 \in Nat /\ 2 * (IntValues \div 2) = IntValues
  BY <1>1
<1>3. IntValues <= SizeValues
  <2>1. SUFFICES ASSUME SizeValues < IntValues PROVE FALSE
    BY <1>1
  <2>2. SizeValues % IntValues = SizeValues
    BY <1>1, <2>1, OwnRemainder
  <2>3. QED
    BY <1>1, <2>2
<1>4. QED
  BY <1>1, <1>2, <1>3

LEMMA SmallAsInt ==
  ASSUME NEW n \in Nat, n < IntValues \div 2
  PROVE  AsInt(n) = n
<1>1. n \in 0..(IntValues - 1)
  BY Widths
<1>2. n % IntValues = n
  BY <1>1, Widths, OwnRemainder
<1>3. QED
  BY <1>2 DEF AsInt

(* A length of 2 GB or more becomes a size that is larger, if it changes.  *)
LEMMA LengthAsSize ==
  ASSUME NEW n \in Nat, n < IntValues
  PROVE  /\ AsSize(AsInt(n)) \in 0..(SizeValues - 1)
         /\ AsSize(AsInt(n)) <= n => AsSize(AsInt(n)) = n
<1>1. n % IntValues = n
  <2>1. n \in 0..(IntValues - 1)
    BY Widths
  <2>2. QED
    BY <2>1, Widths, OwnRemainder
<1>2. CASE n < IntValues \div 2
  <2>1. AsInt(n) = n /\ n \in 0..(SizeValues - 1)
    BY <1>2, SmallAsInt, Widths
  <2>2. QED
    BY <2>1, Widths, OwnRemainder DEF AsSize
<1>3. CASE ~ n < IntValues \div 2
  <2>1. AsInt(n) = n - IntValues
    BY <1>1, <1>3 DEF AsInt
  <2>2. n - IntValues = (0 - 1) * SizeValues + (SizeValues + n - IntValues)
    BY Widths
  <2>3. SizeValues + n - IntValues \in 0..(SizeValues - 1)
    BY Widths
  <2>4. (n - IntValues) % SizeValues = SizeValues + n - IntValues
    BY <2>2, <2>3, Widths, SameRemainder
  <2>5. QED
    BY <2>1, <2>3, <2>4, Widths DEF AsSize
<1>4. QED
  BY <1>2, <1>3

------------------------------------------------------------------------------
(* Where parse is *)

Given == \E i \in Inputs : dump = i.dump /\ cut = i.cut

(* The last object read starts in what arrived, but may end after it.      *)
ReadAcross(r, k) ==
  /\ r \in DOMAIN dump /\ dump[r].tag = "heap" /\ k \in DOMAIN dump[r].objects
  /\ dump[r].objects[k].kind \in {"primitives", "instance"}
  /\ ObjectStart(dump, r, k) < cut

AtRecordStart ==
  pc = "records" =>
    /\ at \in 1..(Len(dump) + 1)
    /\ positionInFile = RecordStart(dump, at)
    /\ positionInFile > cut => at > 1 /\ ReadAcross(at - 1, Len(dump[at - 1].objects))

AtObjectStart ==
  pc = "heap" =>
    /\ at \in DOMAIN dump /\ Record.tag = "heap"
    /\ sub \in 1..(Len(Record.objects) + 1)
    /\ positionInFile = ObjectStart(dump, at, sub)
    /\ dumpStart = ObjectStart(dump, at, 1) /\ dumpSize = RecordLength
    /\ positionInFile > cut => ReadAcross(at, sub - 1)

Framed == Given /\ AtRecordStart /\ AtObjectStart /\ TruncationIsNoticed

(* What readClass and the readers of arrays return is an int.              *)
ObjectsFit ==
  \A r \in DOMAIN dump : dump[r].tag = "heap" =>
    \A object \in Range(dump[r].objects) : SizeOf(object) <= IntValues \div 2

Counted == 
  pc = "heap" /\ ObjectsFit => bytesLeft = AsSize(dumpSize - (positionInFile - dumpStart))

(* What the inputs are known to be. *)
LEMMA GivenDump ==
  ASSUME Given
  PROVE  /\ WellFormed(dump) /\ cut \in Nat /\ RecordsFollow(dump)
         /\ \A r \in DOMAIN dump : LengthOf(dump[r]) < IntValues
         /\ \A r \in DOMAIN dump : dump[r].tag = "heap" => ObjectsFollow(dump, r)
<1>1. /\ WellFormed(dump) /\ cut \in Nat
      /\ \A r \in DOMAIN dump : LengthOf(dump[r]) < IntValues
  BY InputsAssumption DEF Given
<1>2. QED
  BY <1>1, RecordStarts, ObjectStarts

(* A record that is read at once. *)
LEMMA FramedAfterRecord ==
  ASSUME Framed, ReadName \/ LoadClass \/ IgnoreRecord \/ SkipRecord
  PROVE  Framed'
<1>1. /\ pc = "records" /\ pc' = "records" /\ dump' = dump /\ cut' = cut
      /\ at \in DOMAIN dump /\ NextRecord
      /\ positionInFile + (RecordHeader + LengthOf(Record)) <= cut
  BY DEF ReadName, LoadClass, IgnoreRecord, SkipRecord, AtRecord, input, BodyArrived, Arrived
<1>2. /\ WellFormed(dump) /\ cut \in Nat /\ RecordsFollow(dump)
  BY GivenDump DEF Framed
<1>3. positionInFile = RecordStart(dump, at)
  BY <1>1 DEF Framed, AtRecordStart
<1>4. /\ at \in 1..Len(dump) /\ Len(dump) \in Nat /\ LengthOf(Record) \in Nat
      /\ RecordStart(dump, at) \in Nat
      /\ RecordStart(dump, at + 1) = RecordStart(dump, at) + RecordHeader + LengthOf(Record)
  BY <1>1, <1>2 DEF RecordsFollow, Record
<1>5. /\ at' = at + 1 /\ at' \in 1..(Len(dump) + 1)
      /\ positionInFile' = positionInFile + RecordHeader + LengthOf(Record)
  BY <1>1, <1>4 DEF NextRecord
<1>6. positionInFile' = RecordStart(dump', at') /\ positionInFile' \in Nat /\ positionInFile' <= cut'
  BY <1>1, <1>2, <1>3, <1>4, <1>5 DEF RecordHeader
<1>7. AtRecordStart'
  BY <1>1, <1>2, <1>5, <1>6 DEF AtRecordStart
<1>8. Given' /\ AtObjectStart' /\ TruncationIsNoticed'
  BY <1>1 DEF Framed, Given, AtObjectStart, TruncationIsNoticed
<1>9. QED
  BY <1>7, <1>8 DEF Framed

(* The header of a heap dump. *)
LEMMA FramedAfterOpen ==
  ASSUME Framed, OpenHeapDump
  PROVE  Framed'
<1>1. /\ pc = "records" /\ pc' = "heap" /\ dump' = dump /\ cut' = cut /\ at' = at
      /\ at \in DOMAIN dump /\ Record.tag = "heap" /\ sub' = 1
      /\ positionInFile' = positionInFile + RecordHeader
      /\ dumpStart' = positionInFile' /\ dumpSize' = RecordLength
      /\ positionInFile + RecordHeader <= cut
  BY DEF OpenHeapDump, AtRecord, Arrived, input
<1>2. cut \in Nat /\ RecordsFollow(dump) /\ ObjectsFollow(dump, at)
  BY <1>1, GivenDump DEF Framed, Record
<1>3. positionInFile' = RecordStart(dump, at) + RecordHeader
  BY <1>1 DEF Framed, AtRecordStart
<1>4. /\ Len(Record.objects) \in Nat
      /\ ObjectStart(dump, at, 1) = RecordStart(dump, at) + RecordHeader
      /\ RecordStart(dump, at) \in Nat
  BY <1>1, <1>2 DEF ObjectsFollow, RecordsFollow, Record
<1>5. RecordLength' = RecordLength /\ Record' = Record
  BY <1>1 DEF RecordLength, Record
<1>6. ~ positionInFile' > cut
  BY <1>1, <1>2, <1>3, <1>4 DEF RecordHeader
<1>7. AtObjectStart'
  BY <1>1, <1>3, <1>4, <1>5, <1>6 DEF AtObjectStart
<1>8. Given' /\ AtRecordStart' /\ TruncationIsNoticed'
  BY <1>1 DEF Framed, Given, AtRecordStart, TruncationIsNoticed
<1>9. QED
  BY <1>7, <1>8 DEF Framed

(* What reading an object does to where parse is. *)
PastObject ==
  /\ pc = "heap" /\ pc' = "heap"
  /\ UNCHANGED <<dump, cut, at, dumpStart, dumpSize>>
  /\ sub \in DOMAIN Record.objects /\ sub' = sub + 1
  /\ positionInFile' = positionInFile + SizeOf(Object)
  /\ \/ positionInFile' <= cut
     \/ Object.kind \in {"primitives", "instance"} /\ positionInFile < cut
  /\ \/ bytesLeft' = AsSize(bytesLeft - 1 - (SizeOf(Object) - 1))
     \/ bytesLeft' = AsSize(bytesLeft - 1 - AsInt(SizeOf(Object) - 1))

(* The object that is next, and what is known of it. *)
LEMMA ObjectAhead ==
  ASSUME Framed, pc = "heap"
  PROVE  /\ at \in DOMAIN dump /\ Record.tag = "heap" /\ cut \in Nat
         /\ RecordsFollow(dump) /\ ObjectsFollow(dump, at)
         /\ positionInFile = ObjectStart(dump, at, sub) /\ positionInFile \in Nat
         /\ sub \in 1..(Len(Record.objects) + 1)
         /\ dumpStart = ObjectStart(dump, at, 1) /\ dumpStart \in Nat /\ dumpStart <= positionInFile
         /\ \A k \in DOMAIN Record.objects : /\ WellFormedObject(Record.objects[k])
                                             /\ SizeOf(Record.objects[k]) \in Nat \ {0}
<1>1. /\ at \in DOMAIN dump /\ Record.tag = "heap" /\ sub \in 1..(Len(Record.objects) + 1)
      /\ positionInFile = ObjectStart(dump, at, sub) /\ dumpStart = ObjectStart(dump, at, 1)
  BY DEF Framed, AtObjectStart
<1>2. cut \in Nat /\ RecordsFollow(dump) /\ ObjectsFollow(dump, at)
  BY <1>1, GivenDump DEF Framed, Record
<1>3. \A k \in DOMAIN Record.objects : /\ WellFormedObject(Record.objects[k])
                                       /\ SizeOf(Record.objects[k]) \in Nat \ {0}
  BY <1>1, GivenDump, SizesInHeap DEF Framed, Record
<1>4. /\ positionInFile \in Nat /\ dumpStart \in Nat /\ dumpStart <= positionInFile
  BY <1>1, <1>2 DEF ObjectsFollow, Record
<1>5. QED
  BY <1>1, <1>2, <1>3, <1>4

(* Every reader of an object moves by its size. *)
LEMMA ReadingPasses ==
  ASSUME Framed, ReadObject
  PROVE  PastObject
<1>0. pc = "heap" /\ sub \in DOMAIN Record.objects /\ IdentifierSize \in Nat
  BY IdentifierSizeAssumption DEF ReadObject, ReadRoot, ReadClass, ReadInstance, ReadObjectArray,
         ReadPrimitiveArray, AtObject, InDump
<1>1. /\ positionInFile \in Nat /\ SizeOf(Object) \in Nat \ {0} /\ cut \in Nat
      /\ WellFormedObject(Object)
  BY <1>0, ObjectAhead DEF Object
<1>2. CASE ReadRoot
  <2>1. SizeOf(Object) = 1 + RootBytes(Object)
    BY <1>2 DEF ReadRoot, AtObject, SizeOf, RootBytes
  <2>2. /\ Arrived(SizeOf(Object)) /\ NextObject(SizeOf(Object) - 1, RootBytes(Object))
    BY <1>2 DEF ReadRoot
  <2>3. RootBytes(Object) = SizeOf(Object) - 1
    <3>1. Object.extra \in Nat
      BY <1>1, <1>2 DEF WellFormedObject, ReadRoot, AtObject
    <3>2. QED
      BY <1>0, <2>1, <3>1 DEF RootBytes
  <2>4. QED
    BY <1>0, <1>1, <1>2, <2>2, <2>3 DEF PastObject, ReadRoot, NextObject, Arrived, input
<1>3. CASE ReadClass
  BY <1>0, <1>1, <1>3 DEF PastObject, ReadClass, NextObject, Arrived, input
<1>4. CASE ReadInstance
  <2> DEFINE bytes == InstanceHeader + SizeOfAll(Resolved(Object.class))
  <2>1. SizeOf(Object) = 1 + bytes
    BY <1>4 DEF ReadInstance, AtObject, SizeOf, InstanceReadable
  <2>2. NextObject(bytes, bytes) /\ Arrived(1 + InstanceHeader)
    BY <1>4 DEF ReadInstance, InstanceReadable
  <2>3. bytes = SizeOf(Object) - 1
    <3>1. Object.types \in Seq(Types) /\ bytes = InstanceHeader + SizeOfAll(Object.types)
      BY <1>1, <1>4 DEF WellFormedObject, ReadInstance, AtObject, InstanceReadable
    <3>2. bytes \in Nat
      BY <1>0, <3>1, SizesOfAll DEF InstanceHeader
    <3> HIDE DEF bytes
    <3>3. QED
      BY <2>1, <3>2
  <2> HIDE DEF bytes
  <2>4. positionInFile < cut
    BY <1>0, <1>1, <2>2 DEF Arrived, InstanceHeader
  <2>5. /\ pc' = "heap" /\ UNCHANGED <<dump, cut, at, dumpStart, dumpSize>>
        /\ Object.kind = "instance"
    BY <1>0, <1>4 DEF ReadInstance, AtObject, input
  <2>6. QED
    BY <1>0, <1>1, <2>2, <2>3, <2>4, <2>5 DEF PastObject, NextObject
<1>5. CASE ReadObjectArray
  <2> DEFINE bytes == InstanceHeader + IdentifierSize * Len(Object.values)
  <2>1. SizeOf(Object) = 1 + bytes
    BY <1>5 DEF ReadObjectArray, AtObject, SizeOf
  <2>2. NextObject(bytes, AsInt(bytes)) /\ Arrived(SizeOf(Object))
    BY <1>5 DEF ReadObjectArray
  <2>3. bytes = SizeOf(Object) - 1
    <3>1. Len(Object.values) \in Nat
      BY <1>1, <1>5, ListLaws DEF WellFormedObject, ReadObjectArray, AtObject
    <3> DEFINE held == IdentifierSize * Len(Object.values)
    <3>2. held \in Nat
      BY <1>0, <3>1
    <3>3. bytes \in Nat
      <4>1. bytes = 2 * IdentifierSize + 8 + held
        BY DEF InstanceHeader
      <4> HIDE DEF held, bytes
      <4>2. QED
        BY <1>0, <3>2, <4>1
    <3> HIDE DEF bytes
    <3>4. QED
      BY <2>1, <3>3
  <2> HIDE DEF bytes
  <2>4. /\ pc' = "heap" /\ UNCHANGED <<dump, cut, at, dumpStart, dumpSize>>
    BY <1>0, <1>5 DEF ReadObjectArray, AtObject, input
  <2>5. QED
    BY <1>0, <1>1, <2>2, <2>3, <2>4 DEF PastObject, NextObject, Arrived
<1>6. CASE ReadPrimitiveArray
  <2> DEFINE bytes == IdentifierSize + 9 + ArrayBytes(Object)
  <2>1. SizeOf(Object) = 1 + bytes
    BY <1>6 DEF ReadPrimitiveArray, AtObject, SizeOf, ArrayBytes
  <2>2. NextObject(bytes, AsInt(bytes)) /\ Arrived(1 + IdentifierSize + 9)
    BY <1>6 DEF ReadPrimitiveArray
  <2>3. bytes = SizeOf(Object) - 1
    <3>1. TypeSize(Object.type) \in Nat /\ Object.num \in Nat
      BY <1>1, <1>6, TypeSizes DEF WellFormedObject, Types, ReadPrimitiveArray, AtObject
    <3>2. ArrayBytes(Object) \in Nat
      BY <3>1 DEF ArrayBytes
    <3>3. bytes \in Nat
      BY <1>0, <3>2
    <3> HIDE DEF bytes
    <3>4. QED
      BY <2>1, <3>3
  <2> HIDE DEF bytes
  <2>4. positionInFile < cut
    BY <1>0, <1>1, <2>2 DEF Arrived
  <2>5. /\ pc' = "heap" /\ UNCHANGED <<dump, cut, at, dumpStart, dumpSize>>
        /\ Object.kind = "primitives"
    BY <1>0, <1>6 DEF ReadPrimitiveArray, AtObject, input
  <2>6. QED
    BY <1>0, <1>1, <2>2, <2>3, <2>4, <2>5 DEF PastObject, NextObject
<1>7. QED
  BY <1>2, <1>3, <1>4, <1>5, <1>6 DEF ReadObject

(* So the next one starts where it should. *)
LEMMA FramedAfterObject ==
  ASSUME Framed, PastObject
  PROVE  Framed'
<1>1. /\ pc = "heap" /\ pc' = "heap" /\ UNCHANGED <<dump, cut, at, dumpStart, dumpSize>>
      /\ sub \in DOMAIN Record.objects /\ sub' = sub + 1
      /\ positionInFile' = positionInFile + SizeOf(Object)
      /\ \/ positionInFile' <= cut
         \/ Object.kind \in {"primitives", "instance"} /\ positionInFile < cut
  BY DEF PastObject
<1>2. /\ at \in DOMAIN dump /\ Record.tag = "heap" /\ cut \in Nat
      /\ RecordsFollow(dump) /\ ObjectsFollow(dump, at)
      /\ positionInFile = ObjectStart(dump, at, sub) /\ positionInFile \in Nat
      /\ SizeOf(Object) \in Nat \ {0}
      /\ dumpStart = ObjectStart(dump, at, 1) /\ dumpSize = RecordLength
  BY <1>1, ObjectAhead DEF Object, Framed, AtObjectStart
<1>3. /\ sub \in 1..Len(Record.objects) /\ Len(Record.objects) \in Nat
      /\ ObjectStart(dump, at, sub + 1) = ObjectStart(dump, at, sub) + SizeOf(Object)
  BY <1>1, <1>2 DEF ObjectsFollow, Record, Object
<1>4. Record' = Record /\ RecordLength' = RecordLength
  BY <1>1 DEF RecordLength, Record
<1>5. positionInFile' = ObjectStart(dump, at, sub') /\ sub' \in 1..(Len(Record.objects) + 1)
  BY <1>1, <1>2, <1>3
<1>6. ASSUME positionInFile' > cut PROVE ReadAcross(at, sub)
  <2>1. Object.kind \in {"primitives", "instance"} /\ positionInFile < cut
    BY <1>1, <1>2, <1>6
  <2>2. QED
    BY <1>1, <1>2, <2>1 DEF ReadAcross, Record, Object
<1>7. \A r, k : ReadAcross(r, k)' <=> ReadAcross(r, k)
  BY <1>1 DEF ReadAcross
<1>8. sub' - 1 = sub
  BY <1>1, <1>3
<1>9. AtObjectStart'
  BY <1>1, <1>2, <1>4, <1>5, <1>6, <1>7, <1>8 DEF AtObjectStart
<1>10. Given' /\ AtRecordStart' /\ TruncationIsNoticed'
  BY <1>1 DEF Framed, Given, AtRecordStart, TruncationIsNoticed
<1>11. QED
  BY <1>9, <1>10 DEF Framed

(* A heap dump that ends where its length says has been read to its end.   *)
LEMMA HeapDumpRead ==
  ASSUME Framed, pc = "heap", positionInFile - dumpStart = dumpSize
  PROVE  /\ sub = Len(Record.objects) + 1
         /\ positionInFile = RecordStart(dump, at + 1)
<1>1. /\ at \in DOMAIN dump /\ RecordsFollow(dump) /\ ObjectsFollow(dump, at)
      /\ positionInFile = ObjectStart(dump, at, sub) /\ positionInFile \in Nat
      /\ sub \in 1..(Len(Record.objects) + 1)
      /\ dumpStart = ObjectStart(dump, at, 1) /\ dumpStart \in Nat
  BY ObjectAhead
<1> DEFINE n == Len(Record.objects)
           length == LengthOf(Record)
<1>2. /\ dumpSize = AsSize(AsInt(length)) /\ length \in Nat /\ length < IntValues
  BY <1>1, GivenDump DEF Framed, AtObjectStart, RecordLength, Record, RecordsFollow
<1>3. /\ n \in Nat /\ \A k \in 1..n : SizeOf(Record.objects[k]) \in Nat \ {0}
      /\ \A k \in 1..n : ObjectStart(dump, at, k + 1) = ObjectStart(dump, at, k) + SizeOf(Record.objects[k])
      /\ \A k \in 1..(n + 1) : ObjectStart(dump, at, k) \in Nat
      /\ \A i, j \in 1..(n + 1) : i <= j => ObjectStart(dump, at, i) <= ObjectStart(dump, at, j)
      /\ ObjectStart(dump, at, 1) = RecordStart(dump, at) + RecordHeader
      /\ ObjectStart(dump, at, n + 1) = RecordStart(dump, at) + RecordHeader + length
  BY <1>1 DEF ObjectsFollow, Record
<1>4. /\ RecordStart(dump, at) \in Nat
      /\ RecordStart(dump, at + 1) = RecordStart(dump, at) + RecordHeader + length
  BY <1>1 DEF RecordsFollow, Record
<1> HIDE DEF n, length
<1>5. positionInFile <= ObjectStart(dump, at, n + 1)
  <2>1. sub \in 1..(n + 1) /\ n + 1 \in 1..(n + 1) /\ sub <= n + 1
    BY <1>1, <1>3 DEF n
  <2>2. QED
    BY <1>1, <1>3, <2>1
<1>6. ObjectStart(dump, at, n + 1) = dumpStart + length
  BY <1>1, <1>2, <1>3, <1>4 DEF RecordHeader
<1>7. dumpSize = length
  <2>1. dumpSize <= length
    BY <1>1, <1>2, <1>5, <1>6
  <2>2. QED
    BY <1>2, <2>1, LengthAsSize
<1>8. positionInFile = ObjectStart(dump, at, n + 1)
  BY <1>1, <1>2, <1>6, <1>7
<1>9. sub = n + 1
  <2>1. SUFFICES ASSUME sub # n + 1 PROVE FALSE
    OBVIOUS
  <2>2. sub \in 1..n /\ sub + 1 \in 1..(n + 1) /\ n + 1 \in 1..(n + 1) /\ sub + 1 <= n + 1
    BY <1>1, <1>3, <2>1 DEF n
  <2>3. /\ ObjectStart(dump, at, sub + 1) <= ObjectStart(dump, at, n + 1)
        /\ ObjectStart(dump, at, sub + 1) = ObjectStart(dump, at, sub) + SizeOf(Record.objects[sub])
        /\ SizeOf(Record.objects[sub]) \in Nat \ {0}
    BY <1>3, <2>2
  <2>4. QED
    BY <1>1, <1>8, <2>3
<1>10. positionInFile = RecordStart(dump, at + 1)
  BY <1>3, <1>4, <1>8
<1>11. QED
  BY <1>9, <1>10 DEF n

(* What follows a heap dump is a record. *)
LEMMA FramedAfterClose ==
  ASSUME Framed, CloseHeapDump
  PROVE  Framed'
<1>1. /\ pc = "heap" /\ pc' \in {"records", "abort"} /\ at' = at + 1
      /\ UNCHANGED <<dump, cut, positionInFile>>
      /\ pc' = "records" => positionInFile - dumpStart = dumpSize
  BY DEF CloseHeapDump, input
<1>2. /\ at \in DOMAIN dump /\ Record.tag = "heap" /\ RecordsFollow(dump)
      /\ sub \in 1..(Len(Record.objects) + 1)
  BY <1>1, ObjectAhead
<1>3. \A r, k : ReadAcross(r, k)' <=> ReadAcross(r, k)
  BY <1>1 DEF ReadAcross
<1>4. at \in 1..Len(dump) /\ Len(dump) \in Nat /\ at' \in 1..(Len(dump) + 1) /\ at' > 1 /\ at' - 1 = at
  BY <1>1, <1>2 DEF RecordsFollow
<1>5. AtRecordStart'
  <2>1. SUFFICES ASSUME pc' = "records" PROVE AtRecordStart'
    BY DEF AtRecordStart
  <2>2. /\ sub = Len(Record.objects) + 1
        /\ positionInFile = RecordStart(dump, at + 1)
    BY <1>1, <2>1, HeapDumpRead
  <2>3. positionInFile > cut => ReadAcross(at, sub - 1)
    BY <1>1 DEF Framed, AtObjectStart
  <2>4. Len(Record.objects) \in Nat
    BY <1>1, ObjectAhead DEF ObjectsFollow, Record
  <2>5. sub - 1 = Len(dump[at].objects)
    BY <2>2, <2>4 DEF Record
  <2>6. positionInFile' > cut' => ReadAcross(at - 1, Len(dump[at - 1].objects))'
    <3>1. positionInFile > cut => ReadAcross(at, Len(dump[at].objects))
      BY <2>3, <2>5
    <3>2. \A r, k : r = at' - 1 /\ k = Len(dump'[at' - 1].objects) =>
            (positionInFile' > cut' => ReadAcross(r, k)')
      BY <1>1, <1>3, <1>4, <3>1
    <3>3. QED
      BY <3>2
  <2>7. positionInFile' = RecordStart(dump', at')
    BY <1>1, <2>2
  <2>8. QED
    BY <1>1, <1>4, <2>6, <2>7 DEF AtRecordStart
<1>6. Given' /\ AtObjectStart' /\ TruncationIsNoticed'
  BY <1>1 DEF Framed, Given, AtObjectStart, TruncationIsNoticed
<1>7. QED
  BY <1>5, <1>6 DEF Framed

(* At the end there is nothing to read, or something was skipped. *)
LEMMA FramedAtTheEnd ==
  ASSUME Framed, EndOfInput
  PROVE  Framed'
<1>1. /\ pc = "records" /\ pc' = "done" /\ UNCHANGED <<dump, cut>>
      /\ ~ positionInFile + 1 <= cut
  BY DEF EndOfInput, input, Arrived
<1>2. /\ cut \in Nat /\ RecordsFollow(dump)
  BY GivenDump DEF Framed
<1>3. /\ at \in 1..(Len(dump) + 1) /\ positionInFile = RecordStart(dump, at)
      /\ positionInFile > cut => at > 1 /\ ReadAcross(at - 1, Len(dump[at - 1].objects))
      /\ positionInFile \in Nat
  BY <1>1, <1>2 DEF Framed, AtRecordStart, RecordsFollow
<1>4. LostUnread \/ \E k \in 1..(Len(dump) + 1) : RecordStart(dump, k) = cut
  <2>1. CASE positionInFile = cut
    BY <1>3, <2>1
  <2>2. CASE positionInFile > cut
    <3> DEFINE r == at - 1
               n == Len(dump[r].objects)
    <3>1. ReadAcross(r, n)
      BY <1>3, <2>2
    <3>2. /\ r \in DOMAIN dump /\ dump[r].tag = "heap" /\ n \in DOMAIN dump[r].objects
          /\ dump[r].objects[n].kind \in {"primitives", "instance"}
          /\ ObjectStart(dump, r, n) < cut
      BY <3>1 DEF ReadAcross
    <3>3. <<r, n>> \in ObjectsBefore(dump, cut)
      BY <3>2 DEF ObjectsBefore
    <3>4. ObjectStart(dump, r, n + 1) = RecordStart(dump, r + 1)
      BY <1>2, <3>2, GivenDump DEF Framed, ObjectsFollow, RecordsFollow
    <3>5. ObjectStart(dump, r, n + 1) > cut
      BY <1>3, <2>2, <3>4
    <3>6. QED
      BY <3>2, <3>3, <3>5 DEF LostUnread
  <2>3. QED
    BY <1>1, <1>2, <1>3, <2>1, <2>2
<1>5. TruncationIsNoticed'
  BY <1>1, <1>4 DEF TruncationIsNoticed, LostUnread
<1>6. Given' /\ AtObjectStart' /\ AtRecordStart'
  BY <1>1 DEF Framed, Given, AtObjectStart, AtRecordStart
<1>7. QED
  BY <1>5, <1>6 DEF Framed

LEMMA FramedInitially ==
  ASSUME Init
  PROVE  Framed
<1>1. Given
  BY DEF Init, Given
<1>2. RecordStart(dump, 1) = 0 /\ Len(dump) \in Nat /\ cut \in Nat
  BY <1>1, GivenDump DEF RecordsFollow
<1>3. QED
  BY <1>1, <1>2 DEF Init, Framed, AtRecordStart, AtObjectStart, TruncationIsNoticed

LEMMA FramedStep ==
  ASSUME Framed, [Next]_vars
  PROVE  Framed'
<1>1. CASE UNCHANGED vars
  BY <1>1 DEF vars, input, heapDump, Framed, Given, AtRecordStart, AtObjectStart, ReadAcross, Record,
              RecordLength, TruncationIsNoticed, LostUnread
<1>2. CASE RecordFails \/ ObjectFails
  BY <1>2 DEF RecordFails, ObjectFails, input, Framed, Given, AtRecordStart, AtObjectStart,
              TruncationIsNoticed
<1>3. QED
  BY <1>1, <1>2, FramedAfterRecord, FramedAfterOpen, FramedAfterObject, ReadingPasses,
     FramedAfterClose, FramedAtTheEnd DEF Next, ReadRecord

LEMMA DumpSizes ==
  ASSUME Given, at \in DOMAIN dump
  PROVE  RecordLength \in 0..(SizeValues - 1)
<1>1. LengthOf(Record) \in Nat /\ LengthOf(Record) < IntValues
  BY GivenDump DEF RecordsFollow, Record
<1>2. QED
  BY <1>1, LengthAsSize DEF RecordLength

(* The count of bytes left goes down as the position goes up. *)
LEMMA CountedStep ==
  ASSUME Framed, Counted, [Next]_vars
  PROVE  Counted'
<1> SUFFICES ASSUME pc' = "heap", ObjectsFit'
             PROVE  bytesLeft' = AsSize(dumpSize' - (positionInFile' - dumpStart'))
  BY DEF Counted, AsSize
<1>1. CASE UNCHANGED vars
  BY <1>1 DEF vars, input, heapDump, Counted, ObjectsFit
<1>2. CASE OpenHeapDump
  <2>1. /\ bytesLeft' = dumpSize' /\ dumpStart' = positionInFile' /\ dumpSize' = RecordLength
        /\ at \in DOMAIN dump /\ pc = "records" /\ positionInFile' = positionInFile + RecordHeader
    BY <1>2 DEF OpenHeapDump, AtRecord
  <2>2. dumpSize' \in 0..(SizeValues - 1)
    BY <2>1, DumpSizes DEF Framed
  <2>3. positionInFile' \in Nat
    BY <2>1, GivenDump DEF Framed, AtRecordStart, RecordsFollow, RecordHeader
  <2>4. dumpSize' - (positionInFile' - dumpStart') = dumpSize'
    BY <2>1, <2>2, <2>3
  <2>5. dumpSize' % SizeValues = dumpSize'
    BY <2>2, Widths, OwnRemainder
  <2>6. QED
    BY <2>1, <2>4, <2>5 DEF AsSize
<1>3. CASE ReadObject
  <2>1. PastObject
    BY <1>3, ReadingPasses
  <2>2. /\ pc = "heap" /\ UNCHANGED <<dump, dumpStart, dumpSize>> /\ sub \in DOMAIN Record.objects
        /\ positionInFile' = positionInFile + SizeOf(Object)
        /\ \/ bytesLeft' = AsSize(bytesLeft - 1 - (SizeOf(Object) - 1))
           \/ bytesLeft' = AsSize(bytesLeft - 1 - AsInt(SizeOf(Object) - 1))
    BY <2>1 DEF PastObject
  <2>3. /\ at \in DOMAIN dump /\ Record.tag = "heap" /\ positionInFile \in Nat /\ dumpStart \in Nat
        /\ SizeOf(Object) \in Nat \ {0}
    BY <2>2, ObjectAhead DEF Object
  <2>4. SizeOf(Object) <= IntValues \div 2
    BY <2>2, <2>3 DEF ObjectsFit, Object, Record, Range
  <2>5. AsInt(SizeOf(Object) - 1) = SizeOf(Object) - 1
    BY <2>3, <2>4, SmallAsInt, Widths
  <2>6. dumpSize \in 0..(SizeValues - 1)
    BY <2>2, <2>3, DumpSizes DEF Framed, AtObjectStart
  <2>7. bytesLeft = AsSize(dumpSize - (positionInFile - dumpStart))
    BY <2>2 DEF Counted, ObjectsFit
  <2> DEFINE x == dumpSize - (positionInFile - dumpStart)
             n == SizeOf(Object)
  <2>8. x \in Int /\ n \in Nat \ {0}
    BY <2>3, <2>6
  <2>9. dumpSize' - (positionInFile' - dumpStart') = x - n
    BY <2>2, <2>3, <2>6
  <2> HIDE DEF x, n
  <2>10. (x % SizeValues) \in Int
    BY <2>8, Widths, Remainder
  <2>11. bytesLeft' = ((x % SizeValues) - n) % SizeValues
    BY <2>2, <2>5, <2>7, <2>8, <2>10 DEF AsSize, x, n
  <2>12. bytesLeft' = (x - n) % SizeValues
    <3>1. x \in Int /\ n \in Int /\ SizeValues \in Nat \ {0}
      BY <2>8, Widths
    <3>2. ((x % SizeValues) - n) % SizeValues = (x - n) % SizeValues
      BY <3>1, Wrapping
    <3>3. QED
      BY <2>11, <3>2
  <2>13. QED
    BY <2>9, <2>12 DEF AsSize
<1>4. CASE ReadName \/ LoadClass \/ IgnoreRecord \/ SkipRecord \/ EndOfInput \/ RecordFails
           \/ ObjectFails \/ CloseHeapDump
  <2>1. FALSE
    BY <1>4 DEF ReadName, LoadClass, IgnoreRecord, SkipRecord, EndOfInput, RecordFails, ObjectFails,
                CloseHeapDump, AtRecord
  <2>2. QED
    BY <2>1
<1>5. QED
  BY <1>1, <1>2, <1>3, <1>4 DEF Next, ReadRecord

(* So the assertion at the head of the loop holds. *)
LEMMA CountMatches ==
  ASSUME Framed, Counted, ObjectsFit
  PROVE  StaysInFrame
<1>1. ASSUME pc = "heap" PROVE BytesAccounted
  <2>1. at \in DOMAIN dump /\ positionInFile \in Nat /\ dumpStart \in Nat
    BY <1>1, ObjectAhead
  <2>2. dumpSize \in 0..(SizeValues - 1)
    BY <1>1, <2>1, DumpSizes DEF Framed, AtObjectStart
  <2> DEFINE p == positionInFile - dumpStart
             y == dumpSize - p
  <2>3. bytesLeft = AsSize(y)
    BY <1>1 DEF Counted
  <2>4. p \in Int /\ y \in Int /\ dumpSize \in Int /\ dumpSize - y = p
    BY <2>1, <2>2
  <2> HIDE DEF p, y
  <2>5. (dumpSize - (y % SizeValues)) % SizeValues = (dumpSize - y) % SizeValues
    BY <2>4, Widths, Wrapping
  <2>6. AsSize(dumpSize - bytesLeft) = AsSize(p)
    BY <2>3, <2>4, <2>5 DEF AsSize
  <2>7. QED
    BY <2>6 DEF BytesAccounted, BytesRead, p
<1>2. QED
  BY <1>1 DEF Framed, AtRecordStart, AtObjectStart, StaysInFrame, InDump

(***************************************************************************)
(* Of a dump without an object of 2 GB, parse.cc:752 holds, the assertion  *)
(* that is commented out, and parse.cc:753, the one that is not, whatever  *)
(* the order of the objects and wherever the input ends.  For larger ones  *)
(* parse.cc:753 fails, as what readers of objects return are ints; the     *)
(* position is right even then (Framed).                                   *)
(***************************************************************************)
THEOREM PositionsKept == Spec => [](ObjectsFit => StaysInFrame)
<1>1. Init => Framed /\ Counted
  BY FramedInitially DEF Init, Counted
<1>2. Framed /\ Counted /\ [Next]_vars => (Framed /\ Counted)'
  BY FramedStep, CountedStep
<1>3. Framed /\ Counted => (ObjectsFit => StaysInFrame)
  BY CountMatches
<1>4. QED
  BY <1>1, <1>2, <1>3, PTL DEF Spec

(***************************************************************************)
(* Of no dump does parse lose more at the end of its input than what it    *)
(* skips there (parse.cc:565, 502): if it succeeds, the input ended        *)
(* between records, or in the last object of one, a primitive array or the *)
(* primitive fields of an instance.                                        *)
(***************************************************************************)
THEOREM EarlyEndNoticed == Spec => []TruncationIsNoticed
<1>1. Init => Framed
  BY FramedInitially
<1>2. Framed /\ [Next]_vars => Framed'
  BY FramedStep
<1>3. Framed => TruncationIsNoticed
  BY DEF Framed
<1>4. QED
  BY <1>1, <1>2, <1>3, PTL DEF Spec

------------------------------------------------------------------------------
(* Where the references of an instance are *)

(* No two fields of an instance start at the same offset. *)
LEMMA OffsetsDiffer ==
  ASSUME NEW types \in Seq(Types), NEW j \in DOMAIN types, NEW k \in DOMAIN types,
         Offset(types, j) = Offset(types, k)
  PROVE  j = k
<1> DEFINE n == Len(types)
           f == [i \in 1..n |-> TypeSize(types[i])]
<1>1. n \in Nat /\ DOMAIN types = 1..n
  BY LenProperties
<1>2. \A i \in 1..n : types[i] \in Types
  BY ElementOfSeq
<1>3. \A i \in 1..n : f[i] \in Nat \ {0} /\ f[i] = TypeSize(types[i])
  BY <1>2, TypeSizes
<1>4. ASSUME NEW m \in 0..n PROVE SizeOfAll(SubSeq(types, 1, m)) = Prefix(f, m)
  <2> DEFINE s == SubSeq(types, 1, m)
  <2>1. \A i \in 1..m : types[i] \in Types /\ i \in 1..n
    BY <1>1, <1>2
  <2>2. /\ s \in Seq(Types) /\ Len(s) = (IF 1 <= m THEN m - 1 + 1 ELSE 0)
        /\ \A i \in 1..(m - 1 + 1) : s[i] = types[1 + i - 1]
    BY <2>1, SubSeqProperties
  <2> HIDE DEF s
  <2>3. DOMAIN s = 1..m /\ \A i \in 1..m : s[i] = types[i]
    BY <2>2, LenProperties
  <2>4. [i \in DOMAIN s |-> TypeSize(s[i])] = [i \in 1..m |-> f[i]]
    BY <2>1, <2>3
  <2>5. QED
    BY <2>4 DEF s, SizeOfAll, Prefix
<1> HIDE DEF f, n
<1>5. Lengths(f, n)
  BY <1>3 DEF Lengths
<1>6. PrefixSums(f, n)
  BY <1>1, <1>5, PrefixLaws
<1>7. ASSUME NEW a \in 1..n, NEW b \in 1..n, a < b
      PROVE  Prefix(f, a - 1) # Prefix(f, b - 1)
  <2>1. a \in 0..n /\ b - 1 \in a..n /\ a - 1 \in 0..n /\ b - 1 \in 0..n
    BY <1>1, <1>7
  <2>2. Prefix(f, a) <= Prefix(f, b - 1)
    BY <1>1, <1>5, <2>1, PrefixMonotone
  <2>3. Prefix(f, a) = Prefix(f, a - 1) + f[a] /\ f[a] \in Nat \ {0}
    BY <1>3, <1>6 DEF PrefixSums
  <2>4. Prefix(f, a - 1) \in Nat /\ Prefix(f, b - 1) \in Nat
    BY <1>6, <2>1 DEF PrefixSums
  <2>5. QED
    BY <2>2, <2>3, <2>4
<1>8. \A m \in 1..n : m - 1 \in 0..n /\ Offset(types, m) = Prefix(f, m - 1)
  <2>1. ASSUME NEW m \in 1..n PROVE m - 1 \in 0..n
    BY <1>1
  <2>2. QED
    BY <1>4, <2>1 DEF Offset
<1>9. j \in 1..n /\ k \in 1..n
  BY <1>1
<1>10. ~ j < k /\ ~ k < j
  BY <1>7, <1>8, <1>9
<1>11. QED
  BY <1>1, <1>9, <1>10

(* The references of an instance are where its types say. *)
LEMMA LinksOfInstance ==
  ASSUME NEW instance, instance.kind = "instance", instance.types \in Seq(Types)
  PROVE  FieldLinks(instance, instance.types) = LinksIn(instance)
<1> DEFINE types == instance.types
<1>1. ASSUME NEW k \in References(types) PROVE ValueAt(instance, Offset(types, k)) = instance.values[k]
  <2> DEFINE there == {j \in References(types) : Offset(types, j) = Offset(types, k)}
  <2>1. k \in there
    OBVIOUS
  <2>2. \A j \in there : j = k
    BY OffsetsDiffer DEF References
  <2>3. there = {k}
    BY <2>1, <2>2
  <2>4. ValueAt(instance, Offset(types, k)) =
          IF there = {} THEN Garbage ELSE instance.values[CHOOSE j \in there : TRUE]
    BY DEF ValueAt
  <2> HIDE DEF there
  <2>5. (CHOOSE j \in there : TRUE) = k
    BY <2>3
  <2>6. QED
    BY <2>3, <2>4, <2>5
<1>2. FieldLinks(instance, types) = {LinkTo(instance.id, instance.values[k]) : k \in References(types)}
  BY <1>1 DEF FieldLinks
<1>3. QED
  BY <1>2 DEF LinksIn

------------------------------------------------------------------------------
(* Classes and their superclasses *)

LEMMA FiniteRange ==
  ASSUME NEW D, IsFiniteSet(D), NEW f, f = [x \in D |-> f[x]]
  PROVE  IsFiniteSet({f[x] : x \in D})
<1>1. f \in Surjection(D, {f[x] : x \in D})
  BY DEF Surjection
<1>2. QED
  BY <1>1, FS_Surjection

(* A dump has finitely many objects. *)
LEMMA ObjectsAreFinite ==
  ASSUME NEW d, WellFormed(d)
  PROVE  IsFiniteSet(ObjectsIn(d)) /\ \A object \in ObjectsIn(d) : WellFormedObject(object)
<1> DEFINE heaps == {k \in DOMAIN d : d[k].tag = "heap"}
           held == {Range(d[k].objects) : k \in heaps}
<1>1. IsFiniteSet(heaps)
  <2>1. Len(d) \in Nat /\ DOMAIN d = 1..Len(d)
    BY ListLaws DEF WellFormed
  <2>2. IsFiniteSet(1..Len(d))
    BY <2>1, FS_Interval
  <2>3. QED
    BY <2>1, <2>2, FS_Subset
<1>2. ASSUME NEW k \in heaps PROVE IsFiniteSet(Range(d[k].objects))
  <2> DEFINE objects == d[k].objects
  <2>1. IsList(objects)
    BY DEF WellFormed
  <2> HIDE DEF objects
  <2>2. Len(objects) \in Nat /\ DOMAIN objects = 1..Len(objects)
    BY <2>1, ListLaws
  <2>3. IsFiniteSet(1..Len(objects)) /\ objects = [i \in 1..Len(objects) |-> objects[i]]
    <3>1. objects \in [1..Len(objects) -> Range(objects)]
      BY <2>1, LenProperties DEF IsList
    <3>2. IsFiniteSet(1..Len(objects))
      BY <2>2, FS_Interval
    <3>3. QED
      BY <3>1, <3>2
  <2>4. IsFiniteSet({objects[i] : i \in 1..Len(objects)})
    BY <2>3, FiniteRange
  <2>5. QED
    BY <2>2, <2>4 DEF Range, objects
<1>3. IsFiniteSet(held)
  <2> DEFINE f == [k \in heaps |-> Range(d[k].objects)]
  <2>1. f = [k \in heaps |-> f[k]] /\ held = {f[k] : k \in heaps}
    OBVIOUS
  <2> HIDE DEF heaps, f, held
  <2>2. QED
    BY <1>1, <2>1, FiniteRange
<1>4. IsFiniteSet(UNION held)
  <2>1. \A s \in held : IsFiniteSet(s)
    BY <1>2
  <2> HIDE DEF held
  <2>2. QED
    BY <1>3, <2>1, FS_UNION
<1>5. \A object \in ObjectsIn(d) : WellFormedObject(object)
  BY DEF WellFormed, ObjectsIn
<1>6. QED
  BY <1>4, <1>5 DEF ObjectsIn

(* Parse's maps hold what the classes read so far say. *)
Hierarchy(layout) ==
  /\ DOMAIN superId = DOMAIN fieldInfo
  /\ \A c \in DOMAIN fieldInfo :
       \E class \in ClassesIn(dump) :
         class.id = c /\ superId[c] = class.super /\ fieldInfo[c] = TypesOf(class.fields)
  /\ \A c \in DOMAIN toRoot : toRoot[c] = layout[c]

(* What that leaves of the dump, for the recursions over superclasses. *)
Chained(layout) ==
  LET known == DOMAIN fieldInfo
  IN  /\ DOMAIN superId = known /\ known \subseteq Nat \ {0} /\ IsFiniteSet(known)
      /\ \A c \in known : superId[c] \in Nat
      /\ \A c \in known :
           layout[c] = fieldInfo[c] \o IF superId[c] = 0 THEN << >> ELSE layout[superId[c]]
      /\ \A ids \in SUBSET known : ids # {} => \E c \in ids : superId[c] \notin ids

(* Superclasses, as parse knows them, lead to one that is not known.       *)
LEMMA ClassesAreChained ==
  ASSUME NEW layout, WellFormed(dump), Describes(layout, dump), Hierarchy(layout)
  PROVE  Chained(layout)
<1> DEFINE known == DOMAIN fieldInfo
           all == {class.id : class \in ClassesIn(dump)}
<1>1. /\ DOMAIN superId = known
      /\ \A c \in known :
           \E class \in ClassesIn(dump) :
             class.id = c /\ superId[c] = class.super /\ fieldInfo[c] = TypesOf(class.fields)
  BY DEF Hierarchy
<1>2. /\ \A class \in ClassesIn(dump) :
           /\ class.id \in Nat /\ class.super \in Nat
           /\ layout[class.id] = TypesOf(class.fields)
                                   \o IF class.super = 0 THEN << >> ELSE layout[class.super]
      /\ \A class, again \in ClassesIn(dump) :
           again.id = class.id => again.super = class.super
      /\ \A ids \in SUBSET all :
           ids # {} => \E class \in ClassesIn(dump) : class.id \in ids /\ class.super \notin ids
  BY DEF Describes
<1>3. \A class \in ClassesIn(dump) : class.id # 0
  BY ObjectsAreFinite DEF ClassesIn, WellFormedObject, IsInstance
<1>4. IsFiniteSet(all)
  <2> DEFINE f == [class \in ClassesIn(dump) |-> class.id]
  <2>1. IsFiniteSet(ClassesIn(dump))
    BY ObjectsAreFinite, FS_Subset DEF ClassesIn
  <2>2. f = [x \in ClassesIn(dump) |-> f[x]]
        /\ all = {f[x] : x \in ClassesIn(dump)}
    OBVIOUS
  <2> HIDE DEF f, all
  <2>3. QED
    BY <2>1, <2>2, FiniteRange
<1>5. known \subseteq all
  BY <1>1
<1>6. IsFiniteSet(known)
  BY <1>4, <1>5, FS_Subset
<1>7. ASSUME NEW c \in known
      PROVE  /\ c \in Nat \ {0} /\ superId[c] \in Nat
             /\ layout[c] = fieldInfo[c] \o IF superId[c] = 0 THEN << >> ELSE layout[superId[c]]
  <2>1. PICK class \in ClassesIn(dump) :
           class.id = c /\ superId[c] = class.super /\ fieldInfo[c] = TypesOf(class.fields)
    BY <1>1
  <2>2. /\ class.id \in Nat /\ class.super \in Nat /\ class.id # 0
        /\ layout[class.id] = TypesOf(class.fields)
                                \o IF class.super = 0 THEN << >> ELSE layout[class.super]
    BY <1>2, <1>3
  <2>3. QED
    BY <2>1, <2>2
<1>8. known \subseteq Nat \ {0}
  BY <1>7
<1>9. ASSUME NEW ids \in SUBSET known, ids # {} PROVE \E c \in ids : superId[c] \notin ids
  <2>1. PICK class \in ClassesIn(dump) : class.id \in ids /\ class.super \notin ids
    BY <1>2, <1>5, <1>9
  <2>2. superId[class.id] = class.super
    BY <1>1, <1>2, <2>1
  <2>3. QED
    BY <2>1, <2>2
<1>10. QED
  BY <1>1, <1>6, <1>7, <1>8, <1>9 DEF Chained

(* resolveClassToRoot finds the fields of the classes that are there. *)
LEMMA FieldsUnfold ==
  ASSUME NEW layout, Chained(layout)
  PROVE  /\ \A c \in DOMAIN fieldInfo : FieldsToRoot(c) = fieldInfo[c] \o FieldsToRoot(superId[c])
         /\ FieldsToRoot(0) = << >>
<1> DEFINE known == DOMAIN fieldInfo
           Down(T) == \A c \in T : superId[c] \in known => superId[c] \in T
           Solves(f, T) == \A c \in T : f[c] = fieldInfo[c] \o IF superId[c] \in T THEN f[superId[c]] ELSE << >>
           solved == {T \in SUBSET known : Down(T) /\ \E f : Solves(f, T)}
           size == [T \in solved |-> Cardinality(known \ T)]
<1>1. /\ known \subseteq Nat \ {0} /\ IsFiniteSet(known)
      /\ \A c \in known : superId[c] \in Nat
      /\ \A ids \in SUBSET known : ids # {} => \E c \in ids : superId[c] \notin ids
  BY DEF Chained
<1>2. {} \in solved
  OBVIOUS
<1>3. ASSUME NEW T \in solved, known \ T # {}
      PROVE  \E c \in known \ T : T \union {c} \in solved
  <2>1. PICK c \in known \ T : superId[c] \notin known \ T
    BY <1>1, <1>3
  <2>2. PICK f : Solves(f, T)
    OBVIOUS
  <2> DEFINE U == T \union {c}
             g == [x \in U |-> IF x = c THEN fieldInfo[c] \o IF superId[c] \in T THEN f[superId[c]] ELSE << >>
                               ELSE f[x]]
  <2>3. c \notin T /\ superId[c] # c /\ T \subseteq known /\ Down(T)
    BY <2>1
  <2>4. Down(U) /\ U \in SUBSET known
    BY <2>1, <2>3
  <2>5. \A x \in T : superId[x] # c
    BY <2>1, <2>3
  <2>6. Solves(g, U)
    <3>1. \A x \in T : g[x] = f[x]
      BY <2>3
    <3>2. g[c] = fieldInfo[c] \o IF superId[c] \in T THEN f[superId[c]] ELSE << >>
      OBVIOUS
    <3> HIDE DEF g
    <3>3. g[c] = fieldInfo[c] \o IF superId[c] \in U THEN g[superId[c]] ELSE << >>
      BY <2>3, <3>1, <3>2
    <3>4. ASSUME NEW x \in T
          PROVE  g[x] = fieldInfo[x] \o IF superId[x] \in U THEN g[superId[x]] ELSE << >>
      BY <2>2, <2>5, <3>1
    <3>5. QED
      BY <3>3, <3>4
  <2> HIDE DEF g
  <2>7. QED
    BY <2>1, <2>4, <2>6
<1>4. \A T \in solved : IsFiniteSet(known \ T) /\ Cardinality(known \ T) \in Nat
  BY <1>1, FS_Subset, FS_CardinalityType
<1>5. PICK T \in solved : \A U \in solved : Cardinality(known \ T) <= Cardinality(known \ U)
  <2> DEFINE sizes == {Cardinality(known \ U) : U \in solved}
  <2>1. sizes \subseteq Nat /\ sizes # {}
    <3> HIDE DEF solved, known
    <3>1. QED
      BY <1>2, <1>4
  <2> HIDE DEF sizes
  <2>2. PICK m \in sizes : \A k \in sizes : m <= k
    BY <2>1, LeastElement
  <2>3. PICK T \in solved : m = Cardinality(known \ T)
    BY <2>2 DEF sizes
  <2>4. \A U \in solved : Cardinality(known \ U) \in sizes
    BY DEF sizes
  <2> HIDE DEF solved, known
  <2>5. QED
    BY <2>2, <2>3, <2>4
<1>6. T = known
  <2>1. SUFFICES ASSUME known \ T # {} PROVE FALSE
    OBVIOUS
  <2>2. PICK c \in known \ T : T \union {c} \in solved
    BY <1>3, <2>1
  <2>3. known \ (T \union {c}) = (known \ T) \ {c}
    OBVIOUS
  <2>4. Cardinality(known \ T) <= Cardinality((known \ T) \ {c})
    BY <1>5, <2>2, <2>3
  <2>5. IsFiniteSet(known \ T)
    BY <1>4
  <2>6. Cardinality((known \ T) \ {c}) = Cardinality(known \ T) - 1 /\ Cardinality(known \ T) \in Nat
    BY <2>5, <2>2, FS_RemoveElement, FS_CardinalityType
  <2>7. QED
    BY <2>4, <2>6
<1>7. PICK f : Solves(f, known)
  BY <1>6
<1> HIDE DEF solved
<1> DEFINE Step(h) == [c \in Nat |-> IF c \in known THEN fieldInfo[c] \o h[superId[c]] ELSE << >>]
           g == [c \in Nat |-> IF c \in known THEN f[c] ELSE << >>]
           fields == CHOOSE h : h = Step(h)
<1>8. g = Step(g)
  <2>1. ASSUME NEW c \in Nat PROVE g[c] = IF c \in known THEN fieldInfo[c] \o g[superId[c]] ELSE << >>
    BY <1>1, <1>7
  <2>2. QED
    BY <2>1
<1>9. fields = Step(fields)
  BY <1>8
<1> HIDE DEF fields
<1>10. \A c \in Nat : fields[c] = IF c \in known THEN fieldInfo[c] \o fields[superId[c]] ELSE << >>
  BY <1>9
<1>11. \A c : FieldsToRoot(c) = fields[c]
  BY DEF FieldsToRoot, fields
<1>12. QED
  BY <1>1, <1>10, <1>11

(* resolveClassToRoot succeeds if all superclasses are there, *)
LEMMA KnownUnfolds ==
  ASSUME NEW layout, Chained(layout), NEW class \in Nat, HierarchyKnown(class), class \notin DOMAIN toRoot
  PROVE  class = 0 \/ \E S \in SUBSET DOMAIN fieldInfo :
           class \in S /\ \A c \in S : superId[c] = 0 \/ superId[c] \in S
<1> DEFINE known == DOMAIN fieldInfo
           Step(h) == [c \in Nat |-> c = 0 \/ (c \in known /\ h[superId[c]])]
           Closed(S) == \A c \in S \ {0} : c \in known /\ superId[c] \in S
           reach == [c \in Nat |-> \E S \in SUBSET Nat : c \in S /\ Closed(S)]
           chain == CHOOSE h : h = Step(h)
<1>1. /\ known \subseteq Nat \ {0} /\ \A c \in known : superId[c] \in Nat
  BY DEF Chained
<1>2. reach = Step(reach)
  <2>1. ASSUME NEW c \in Nat PROVE reach[c] <=> (c = 0 \/ (c \in known /\ reach[superId[c]]))
    <3>1. reach[0]
      <4>1. {0} \in SUBSET Nat /\ 0 \in {0} /\ Closed({0})
        OBVIOUS
      <4>2. QED
        BY <4>1
    <3>2. ASSUME c # 0, reach[c] PROVE c \in known /\ reach[superId[c]]
      BY <1>1, <3>2
    <3>3. ASSUME c \in known, reach[superId[c]] PROVE reach[c]
      <4>1. PICK S \in SUBSET Nat : superId[c] \in S /\ Closed(S)
        BY <1>1, <3>3
      <4>2. S \union {c} \in SUBSET Nat /\ c \in S \union {c} /\ Closed(S \union {c})
        BY <3>3, <4>1
      <4>3. QED
        BY <4>2
    <3>4. QED
      BY <3>1, <3>2, <3>3
  <2>2. QED
    BY <2>1, Zenon
<1>3. chain = Step(chain)
  BY <1>2
<1> HIDE DEF chain
<1>4. \A c \in Nat : chain[c] <=> c = 0 \/ (c \in known /\ chain[superId[c]])
  BY <1>3
<1>5. chain[class]
  BY DEF HierarchyKnown, chain
<1> DEFINE S == {c \in known : chain[c]}
<1>6. class = 0 \/ class \in S
  BY <1>4, <1>5
<1>7. \A c \in S : superId[c] = 0 \/ superId[c] \in S
  BY <1>1, <1>4
<1>8. QED
  BY <1>6, <1>7

(* and then finds the layout of the instances. *)
LEMMA ResolvedIsLayout ==
  ASSUME NEW layout, Chained(layout), NEW class \in Nat \ {0}, HierarchyKnown(class),
         \A c \in DOMAIN toRoot : toRoot[c] = layout[c]
  PROVE  Resolved(class) = layout[class]
<1>1. CASE class \in DOMAIN toRoot
  BY <1>1 DEF Resolved
<1>2. CASE class \notin DOMAIN toRoot
  <2>1. PICK S \in SUBSET DOMAIN fieldInfo :
           class \in S /\ \A c \in S : superId[c] = 0 \/ superId[c] \in S
    BY <1>2, KnownUnfolds
  <2>2. /\ \A c \in DOMAIN fieldInfo : FieldsToRoot(c) = fieldInfo[c] \o FieldsToRoot(superId[c])
        /\ FieldsToRoot(0) = << >>
    BY FieldsUnfold
  <2> DEFINE bad == {c \in S : FieldsToRoot(c) # layout[c]}
  <2>3. ASSUME NEW c \in S, superId[c] \notin bad PROVE FieldsToRoot(c) = layout[c]
    <3>1. FieldsToRoot(superId[c]) = IF superId[c] = 0 THEN << >> ELSE layout[superId[c]]
      BY <2>1, <2>2, <2>3
    <3>2. layout[c] = fieldInfo[c] \o IF superId[c] = 0 THEN << >> ELSE layout[superId[c]]
      BY DEF Chained
    <3>3. FieldsToRoot(c) = fieldInfo[c] \o FieldsToRoot(superId[c])
      BY <2>2
    <3>4. QED
      BY <3>1, <3>2, <3>3
  <2>4. bad \in SUBSET DOMAIN fieldInfo
    OBVIOUS
  <2>5. bad # {} => \E c \in bad : superId[c] \notin bad
    <3> HIDE DEF bad
    <3>1. QED
      BY <2>4 DEF Chained
  <2>6. bad = {}
    BY <2>3, <2>5
  <2>7. QED
    BY <1>2, <2>1, <2>6 DEF Resolved
<1>3. QED
  BY <1>1, <1>2

------------------------------------------------------------------------------
(* What has been read *)

(* The objects that start before a position, and columns of them.          *)
HeldBefore(end) == {dump[p[1]].objects[p[2]] : p \in ObjectsBefore(dump, end)}

LinksHeld(objects) == UNION {LinksIn(object) : object \in objects}

IdsHeld(objects) == {object.id : object \in {o \in objects : IsInstance(o)}}

ColumnsHold ==
  pc \in {"records", "heap"} =>
    references = LinksHeld(HeldBefore(positionInFile)) /\ Ids \ {0} = IdsHeld(HeldBefore(positionInFile))

Knows == \E i \in Inputs : dump = i.dump /\ cut = i.cut /\ Hierarchy(i.layout)

(* Where the objects are. *)
At(r, k) == r \in DOMAIN dump /\ dump[r].tag = "heap" /\ k \in DOMAIN dump[r].objects

(* An object lies between the start of its record and that of the next. *)
LEMMA ObjectsPlaced ==
  ASSUME Given, NEW r, NEW k, At(r, k)
  PROVE  /\ r \in 1..Len(dump) /\ k \in 1..Len(dump[r].objects)
         /\ ObjectStart(dump, r, k) \in Nat
         /\ RecordStart(dump, r) \in Nat /\ RecordStart(dump, r + 1) \in Nat
         /\ RecordStart(dump, r) + RecordHeader <= ObjectStart(dump, r, k)
         /\ ObjectStart(dump, r, k) < RecordStart(dump, r + 1)
<1>1. RecordsFollow(dump) /\ ObjectsFollow(dump, r)
  BY GivenDump DEF At
<1> DEFINE n == Len(dump[r].objects)
<1>2. /\ r \in 1..Len(dump) /\ Len(dump) \in Nat
      /\ RecordStart(dump, r) \in Nat /\ RecordStart(dump, r + 1) \in Nat
      /\ LengthOf(dump[r]) \in Nat
      /\ RecordStart(dump, r + 1) = RecordStart(dump, r) + RecordHeader + LengthOf(dump[r])
  BY <1>1 DEF RecordsFollow, At
<1>3. /\ k \in 1..n /\ n \in Nat /\ SizeOf(dump[r].objects[k]) \in Nat \ {0}
      /\ ObjectStart(dump, r, 1) = RecordStart(dump, r) + RecordHeader
      /\ \A j \in 1..(n + 1) : ObjectStart(dump, r, j) \in Nat
      /\ ObjectStart(dump, r, k + 1) = ObjectStart(dump, r, k) + SizeOf(dump[r].objects[k])
      /\ \A i, j \in 1..(n + 1) : i <= j => ObjectStart(dump, r, i) <= ObjectStart(dump, r, j)
      /\ ObjectStart(dump, r, n + 1) = RecordStart(dump, r) + RecordHeader + LengthOf(dump[r])
  BY <1>1 DEF ObjectsFollow, At
<1> HIDE DEF n
<1>4. /\ 1 \in 1..(n + 1) /\ k \in 1..(n + 1) /\ k + 1 \in 1..(n + 1) /\ n + 1 \in 1..(n + 1)
      /\ 1 <= k /\ k + 1 <= n + 1
  BY <1>3
<1>5. /\ ObjectStart(dump, r, 1) <= ObjectStart(dump, r, k)
      /\ ObjectStart(dump, r, k + 1) <= ObjectStart(dump, r, n + 1)
      /\ ObjectStart(dump, r, k) \in Nat
  BY <1>3, <1>4
<1>6. ObjectStart(dump, r, k) < RecordStart(dump, r + 1)
  <2>1. ObjectStart(dump, r, n + 1) = RecordStart(dump, r + 1)
    BY <1>2, <1>3
  <2>2. QED
    BY <1>2, <1>3, <1>5, <2>1
<1>7. QED
  BY <1>2, <1>3, <1>5, <1>6 DEF n

(* HeldBefore, by indices. *)
LEMMA HeldMeaning ==
  ASSUME NEW end
  PROVE  \A object : object \in HeldBefore(end) <=>
           \E r, k : At(r, k) /\ ObjectStart(dump, r, k) < end /\ object = dump[r].objects[k]
<1>1. ASSUME NEW object \in HeldBefore(end)
      PROVE  \E r, k : At(r, k) /\ ObjectStart(dump, r, k) < end /\ object = dump[r].objects[k]
  BY DEF HeldBefore, ObjectsBefore, At
<1>2. ASSUME NEW r, NEW k, At(r, k), ObjectStart(dump, r, k) < end
      PROVE  dump[r].objects[k] \in HeldBefore(end)
  <2>1. <<r, k>> \in ObjectsBefore(dump, end)
    BY <1>2 DEF ObjectsBefore, At
  <2>2. QED
    BY <2>1 DEF HeldBefore
<1>3. QED
  BY <1>1, <1>2

(* Where no object starts between two positions.                           *)
LEMMA NothingBetween ==
  ASSUME Given, NEW x \in Nat, NEW y \in Nat, x <= y,
         \A r, k : At(r, k) /\ x <= ObjectStart(dump, r, k) => y <= ObjectStart(dump, r, k)
  PROVE  HeldBefore(x) = HeldBefore(y)
<1>1. ASSUME NEW r, NEW k, At(r, k)
      PROVE  ObjectStart(dump, r, k) < x <=> ObjectStart(dump, r, k) < y
  <2>1. ObjectStart(dump, r, k) \in Nat
    BY <1>1, ObjectsPlaced
  <2>2. x <= ObjectStart(dump, r, k) => y <= ObjectStart(dump, r, k)
    BY <1>1
  <2>3. QED
    BY <2>1, <2>2
<1>2. \A object : object \in HeldBefore(x) <=> object \in HeldBefore(y)
  BY <1>1, HeldMeaning
<1>3. QED
  BY <1>2

(* Before the record that is next there are the objects of those before.   *)
LEMMA RecordsInOrder ==
  ASSUME Given, NEW a \in 1..(Len(dump) + 1), NEW r, NEW k, At(r, k)
  PROVE  /\ r < a => ObjectStart(dump, r, k) < RecordStart(dump, a)
         /\ a <= r => RecordStart(dump, a) + RecordHeader <= ObjectStart(dump, r, k)
<1>1. /\ r \in 1..Len(dump) /\ ObjectStart(dump, r, k) \in Nat
      /\ RecordStart(dump, r) \in Nat /\ RecordStart(dump, r + 1) \in Nat
      /\ RecordStart(dump, r) + RecordHeader <= ObjectStart(dump, r, k)
      /\ ObjectStart(dump, r, k) < RecordStart(dump, r + 1)
  BY ObjectsPlaced
<1>2. /\ Len(dump) \in Nat /\ RecordStart(dump, a) \in Nat
      /\ \A i, j \in 1..(Len(dump) + 1) : i <= j => RecordStart(dump, i) <= RecordStart(dump, j)
  BY GivenDump DEF RecordsFollow
<1>3. r \in 1..(Len(dump) + 1) /\ r + 1 \in 1..(Len(dump) + 1)
  BY <1>1, <1>2
<1>4. ASSUME r < a PROVE ObjectStart(dump, r, k) < RecordStart(dump, a)
  <2>1. RecordStart(dump, r + 1) <= RecordStart(dump, a)
    BY <1>1, <1>2, <1>3, <1>4
  <2>2. QED
    BY <1>1, <1>2, <2>1
<1>5. ASSUME a <= r PROVE RecordStart(dump, a) + RecordHeader <= ObjectStart(dump, r, k)
  <2>1. RecordStart(dump, a) <= RecordStart(dump, r)
    BY <1>1, <1>2, <1>3, <1>5
  <2>2. QED
    BY <1>1, <1>2, <2>1 DEF RecordHeader
<1>6. QED
  BY <1>4, <1>5

(* No object starts in a record that is no heap dump, *)
LEMMA HeldAfterRecord ==
  ASSUME Given, at \in DOMAIN dump, dump[at].tag # "heap"
  PROVE  HeldBefore(RecordStart(dump, at)) = HeldBefore(RecordStart(dump, at + 1))
<1>1. /\ Len(dump) \in Nat /\ at \in 1..Len(dump) /\ at + 1 \in 1..(Len(dump) + 1) /\ at \in 1..(Len(dump) + 1)
      /\ RecordStart(dump, at) \in Nat /\ RecordStart(dump, at + 1) \in Nat
      /\ RecordStart(dump, at) <= RecordStart(dump, at + 1)
  BY GivenDump DEF RecordsFollow
<1>2. ASSUME NEW r, NEW k, At(r, k), RecordStart(dump, at) <= ObjectStart(dump, r, k)
      PROVE  RecordStart(dump, at + 1) <= ObjectStart(dump, r, k)
  <2>1. r \in 1..Len(dump) /\ ObjectStart(dump, r, k) \in Nat
    BY <1>2, ObjectsPlaced
  <2>2. ~ r < at
    BY <1>1, <1>2, <2>1, RecordsInOrder
  <2>3. r # at
    BY <1>2 DEF At
  <2>4. at + 1 <= r
    BY <1>1, <2>1, <2>2, <2>3
  <2>5. RecordStart(dump, at + 1) + RecordHeader <= ObjectStart(dump, r, k)
    BY <1>1, <1>2, <2>4, RecordsInOrder
  <2>6. QED
    BY <1>1, <2>1, <2>5 DEF RecordHeader
<1>3. QED
  BY <1>1, <1>2, NothingBetween

(* none in the header of one that is, *)
LEMMA HeldAfterOpen ==
  ASSUME Given, at \in DOMAIN dump
  PROVE  HeldBefore(RecordStart(dump, at)) = HeldBefore(RecordStart(dump, at) + RecordHeader)
<1>1. /\ at \in 1..(Len(dump) + 1) /\ at \in 1..Len(dump) /\ Len(dump) \in Nat /\ RecordStart(dump, at) \in Nat
      /\ RecordStart(dump, at) + RecordHeader \in Nat
      /\ RecordStart(dump, at) <= RecordStart(dump, at) + RecordHeader
  BY GivenDump DEF RecordsFollow, RecordHeader
<1>2. ASSUME NEW r, NEW k, At(r, k), RecordStart(dump, at) <= ObjectStart(dump, r, k)
      PROVE  RecordStart(dump, at) + RecordHeader <= ObjectStart(dump, r, k)
  <2>1. r \in 1..Len(dump) /\ ObjectStart(dump, r, k) \in Nat
    BY <1>2, ObjectsPlaced
  <2>2. ~ r < at
    BY <1>1, <1>2, <2>1, RecordsInOrder
  <2>3. at <= r
    BY <1>1, <2>1, <2>2
  <2>4. QED
    BY <1>1, <1>2, <2>3, RecordsInOrder
<1>3. QED
  BY <1>1, <1>2, NothingBetween

(* one where an object starts, *)
LEMMA HeldAfterObject ==
  ASSUME Framed, PastObject
  PROVE  HeldBefore(positionInFile') = HeldBefore(positionInFile) \union {Object}
<1>1. /\ pc = "heap" /\ sub \in DOMAIN Record.objects
      /\ positionInFile' = positionInFile + SizeOf(Object)
  BY DEF PastObject
<1>2. /\ Given /\ at \in DOMAIN dump /\ Record.tag = "heap"
      /\ RecordsFollow(dump) /\ ObjectsFollow(dump, at)
      /\ positionInFile = ObjectStart(dump, at, sub) /\ positionInFile \in Nat
      /\ SizeOf(Object) \in Nat \ {0}
  BY <1>1, ObjectAhead DEF Object, Framed
<1> DEFINE n == Len(Record.objects)
<1>3. /\ n \in Nat /\ sub \in 1..n
      /\ \A k \in 1..(n + 1) : ObjectStart(dump, at, k) \in Nat
      /\ ObjectStart(dump, at, sub + 1) = positionInFile + SizeOf(Object)
      /\ \A i, j \in 1..(n + 1) : i <= j => ObjectStart(dump, at, i) <= ObjectStart(dump, at, j)
      /\ ObjectStart(dump, at, n + 1) = RecordStart(dump, at) + RecordHeader + LengthOf(dump[at])
      /\ RecordStart(dump, at + 1) = RecordStart(dump, at) + RecordHeader + LengthOf(dump[at])
  BY <1>1, <1>2 DEF ObjectsFollow, RecordsFollow, Record, Object
<1>4. At(at, sub) /\ \A k : At(at, k) => k \in 1..n
  BY <1>1, <1>2, ObjectsPlaced DEF At, Record
<1> HIDE DEF n
<1> DEFINE next == positionInFile'
<1>9. /\ next = ObjectStart(dump, at, sub + 1)
      /\ next \in Nat /\ positionInFile \in Nat /\ positionInFile < next
  BY <1>1, <1>2, <1>3
<1> HIDE DEF next
<1>5. ASSUME NEW r, NEW k, At(r, k)
      PROVE  ObjectStart(dump, r, k) < next <=>
               (ObjectStart(dump, r, k) < positionInFile \/ (r = at /\ k = sub))
  <2>0. /\ at \in 1..Len(dump) /\ Len(dump) \in Nat /\ r \in 1..Len(dump) /\ ObjectStart(dump, r, k) \in Nat
        /\ at \in 1..(Len(dump) + 1) /\ at + 1 \in 1..(Len(dump) + 1)
        /\ RecordStart(dump, at) \in Nat /\ RecordStart(dump, at + 1) \in Nat
    BY <1>2, <1>5, ObjectsPlaced DEF RecordsFollow
  <2>1. CASE r < at
    <3>1. ObjectStart(dump, r, k) < RecordStart(dump, at)
      BY <1>2, <1>5, <2>0, <2>1, RecordsInOrder
    <3>2. RecordStart(dump, at) + RecordHeader <= positionInFile
      BY <1>2, <1>4, ObjectsPlaced
    <3>3. QED
      BY <1>9, <2>0, <3>1, <3>2 DEF RecordHeader
  <2>2. CASE r > at
    <3>1. RecordStart(dump, at + 1) + RecordHeader <= ObjectStart(dump, r, k)
      BY <1>2, <1>5, <2>0, <2>2, RecordsInOrder
    <3>2. ObjectStart(dump, at, sub + 1) <= RecordStart(dump, at + 1)
      <4>1. sub + 1 \in 1..(n + 1) /\ n + 1 \in 1..(n + 1) /\ sub + 1 <= n + 1
        BY <1>3
      <4>2. QED
        BY <1>3, <4>1
    <3>3. next <= ObjectStart(dump, r, k)
      BY <1>9, <2>0, <3>1, <3>2 DEF RecordHeader
    <3>4. r # at
      BY <2>0, <2>2
    <3>5. QED
      BY <1>9, <2>0, <3>3, <3>4
  <2>3. CASE r = at
    <3>1. k \in 1..n
      BY <1>4, <1>5, <2>3
    <3>2. CASE k < sub
      <4>1. ObjectStart(dump, at, k) <= positionInFile
        BY <1>2, <1>3, <3>1, <3>2
      <4>2. k + 1 \in 1..(n + 1) /\ sub \in 1..(n + 1) /\ k + 1 <= sub
        BY <1>3, <3>1, <3>2
      <4>3. ObjectStart(dump, at, k + 1) <= positionInFile
        BY <1>2, <1>3, <4>2
      <4>4. /\ ObjectStart(dump, at, k + 1) = ObjectStart(dump, at, k) + SizeOf(dump[at].objects[k])
            /\ SizeOf(dump[at].objects[k]) \in Nat \ {0}
        BY <1>2, <3>1 DEF ObjectsFollow, Record, n
      <4>5. ObjectStart(dump, at, k) < positionInFile
        BY <1>2, <2>0, <2>3, <4>3, <4>4
      <4>6. QED
        BY <1>9, <2>0, <2>3, <4>5
    <3>3. CASE k = sub
      BY <1>2, <1>9, <2>3, <3>3
    <3>4. CASE k > sub
      <4>1. sub + 1 \in 1..(n + 1) /\ k \in 1..(n + 1) /\ sub + 1 <= k
        BY <1>3, <3>1, <3>4
      <4>2. ObjectStart(dump, at, sub + 1) <= ObjectStart(dump, at, k)
        BY <1>3, <4>1
      <4>3. next <= ObjectStart(dump, r, k)
        BY <1>9, <2>3, <4>2
      <4>4. k # sub
        BY <1>3, <3>1, <3>4
      <4>5. QED
        BY <1>9, <2>0, <4>3, <4>4
    <3>5. QED
      BY <1>3, <3>1, <3>2, <3>3, <3>4
  <2>4. QED
    BY <2>0, <2>1, <2>2, <2>3
<1>6. Object = dump[at].objects[sub]
  BY DEF Object, Record
<1>7. \A object : object \in HeldBefore(next) <=>
                    object \in HeldBefore(positionInFile) \/ object = Object
  <2>1. \A object : object \in HeldBefore(next) <=>
          \E r, k : At(r, k) /\ ObjectStart(dump, r, k) < next /\ object = dump[r].objects[k]
    BY HeldMeaning
  <2>2. \A object : object \in HeldBefore(positionInFile) <=>
          \E r, k : At(r, k) /\ ObjectStart(dump, r, k) < positionInFile /\ object = dump[r].objects[k]
    BY HeldMeaning
  <2>3. QED
    BY <1>4, <1>5, <1>6, <2>1, <2>2
<1>8. HeldBefore(next) = HeldBefore(positionInFile) \union {Object}
  BY <1>7
<1>10. QED
  BY <1>8 DEF next

(* and none between the end of the input and a position after it. *)
LEMMA HeldAtTheEnd ==
  ASSUME Framed, EndOfInput
  PROVE  HeldBefore(cut) = HeldBefore(positionInFile)
<1>1. pc = "records" /\ ~ positionInFile + 1 <= cut
  BY DEF EndOfInput, Arrived
<1>2. /\ Given /\ cut \in Nat /\ RecordsFollow(dump)
  BY GivenDump DEF Framed
<1>3. /\ at \in 1..(Len(dump) + 1) /\ positionInFile = RecordStart(dump, at)
      /\ positionInFile > cut => at > 1 /\ ReadAcross(at - 1, Len(dump[at - 1].objects))
      /\ positionInFile \in Nat /\ Len(dump) \in Nat
  BY <1>1, <1>2 DEF Framed, AtRecordStart, RecordsFollow
<1>4. cut <= positionInFile
  BY <1>1, <1>2, <1>3
<1>5. ASSUME NEW r, NEW k, At(r, k), cut <= ObjectStart(dump, r, k), ObjectStart(dump, r, k) < positionInFile
      PROVE  FALSE
  <2>1. r \in 1..Len(dump) /\ k \in 1..Len(dump[r].objects) /\ ObjectStart(dump, r, k) \in Nat
    BY <1>2, <1>5, ObjectsPlaced
  <2>2. positionInFile > cut
    BY <1>2, <1>3, <1>5, <2>1
  <2> DEFINE q == at - 1
             n == Len(dump[q].objects)
  <2>3. at > 1 /\ ReadAcross(q, n)
    BY <1>3, <2>2
  <2>4. At(q, n) /\ ObjectStart(dump, q, n) < cut
    BY <2>3 DEF ReadAcross, At
  <2>5. q \in 1..Len(dump) /\ ObjectStart(dump, q, n) \in Nat /\ q \in 1..(Len(dump) + 1)
    BY <1>2, <1>3, <2>3, <2>4, ObjectsPlaced
  <2>6. ~ at <= r
    <3>1. at <= r => positionInFile + RecordHeader <= ObjectStart(dump, r, k)
      BY <1>2, <1>3, <1>5, RecordsInOrder
    <3>2. QED
      BY <1>3, <1>5, <2>1, <3>1 DEF RecordHeader
  <2>7. CASE r < q
    <3>1. ObjectStart(dump, r, k) < RecordStart(dump, q)
      BY <1>2, <1>5, <2>5, <2>7, RecordsInOrder
    <3>2. /\ RecordStart(dump, q) + RecordHeader <= ObjectStart(dump, q, n)
          /\ RecordStart(dump, q) \in Nat
      BY <1>2, <2>4, ObjectsPlaced
    <3>3. QED
      BY <1>2, <1>5, <2>1, <2>4, <2>5, <3>1, <3>2 DEF RecordHeader
  <2>8. CASE r = q
    <3>1. k \in 1..n /\ n \in Nat
      <4>1. ObjectsFollow(dump, q)
        BY <1>2, <2>4, GivenDump DEF At
      <4>2. QED
        BY <2>1, <2>8, <4>1 DEF ObjectsFollow
    <3>2. k \in 1..(n + 1) /\ n \in 1..(n + 1) /\ k <= n
      BY <3>1
    <3>3. ObjectStart(dump, q, k) <= ObjectStart(dump, q, n)
      BY <1>2, <2>4, <3>2, GivenDump DEF ObjectsFollow, At
    <3>4. QED
      BY <1>2, <1>5, <2>1, <2>4, <2>5, <2>8, <3>3
  <2>9. QED
    BY <1>3, <2>1, <2>5, <2>6, <2>7, <2>8
<1>6. \A r, k : At(r, k) /\ cut <= ObjectStart(dump, r, k) => positionInFile <= ObjectStart(dump, r, k)
  <2>1. SUFFICES ASSUME NEW r, NEW k, At(r, k), cut <= ObjectStart(dump, r, k)
                 PROVE  positionInFile <= ObjectStart(dump, r, k)
    OBVIOUS
  <2>2. ObjectStart(dump, r, k) \in Nat
    BY <1>2, <2>1, ObjectsPlaced
  <2>3. QED
    BY <1>3, <1>5, <2>1, <2>2
<1>7. QED
  BY <1>2, <1>3, <1>4, <1>6, NothingBetween

(* The object that is read is one of the dump. *)
LEMMA ObjectIsThere ==
  ASSUME Framed, ReadObject
  PROVE  /\ Object \in ObjectsIn(dump) /\ WellFormedObject(Object)
         /\ Object.kind = "class" => Object \in ClassesIn(dump)
<1>1. pc = "heap" /\ sub \in DOMAIN Record.objects
  BY ReadingPasses DEF PastObject
<1>2. at \in DOMAIN dump /\ Record.tag = "heap" /\ WellFormedObject(Object)
  BY <1>1, ObjectAhead DEF Object
<1>3. Object \in Range(dump[at].objects)
  BY <1>1 DEF Object, Record, Range
<1>4. Object \in ObjectsIn(dump)
  BY <1>2, <1>3 DEF ObjectsIn, Record
<1>5. QED
  BY <1>2, <1>4 DEF ClassesIn

(* An instance is read as its class says, which is as it was written. *)
LEMMA InstanceUnderstood ==
  ASSUME Framed, NEW i \in Inputs, dump = i.dump, Hierarchy(i.layout), ReadInstance
  PROVE  /\ Resolved(Object.class) = Object.types
         /\ Resolved(Object.class) = i.layout[Object.class]
<1>1. Describes(i.layout, dump) /\ WellFormed(dump)
  BY LayoutAssumption, GivenDump DEF Framed
<1>2. Object \in ObjectsIn(dump) /\ Object.kind = "instance" /\ HierarchyKnown(Object.class)
  BY ObjectIsThere DEF ReadObject, ReadInstance, AtObject, InstanceReadable
<1>3. Object.class \in Nat \ {0} /\ Object.types = i.layout[Object.class]
  BY <1>1, <1>2 DEF Describes
<1>4. Chained(i.layout)
  BY <1>1, ClassesAreChained
<1>5. \A c \in DOMAIN toRoot : toRoot[c] = i.layout[c]
  BY DEF Hierarchy
<1>6. Resolved(Object.class) = i.layout[Object.class]
  BY <1>2, <1>3, <1>4, <1>5, ResolvedIsLayout
<1>7. QED
  BY <1>3, <1>6

(* The maps of classes keep agreeing with the dump. *)
LEMMA KnowsStep ==
  ASSUME Framed, Knows, [Next]_vars
  PROVE  Knows'
<1>1. PICK i \in Inputs : dump = i.dump /\ cut = i.cut /\ Hierarchy(i.layout)
  BY DEF Knows
<1> DEFINE layout == i.layout
<1>2. dump' = dump /\ cut' = cut
  BY DEF Next, ReadRecord, ReadObject, ReadName, LoadClass, IgnoreRecord, SkipRecord, OpenHeapDump,
         EndOfInput, RecordFails, ReadRoot, ReadClass, ReadInstance, ReadObjectArray,
         ReadPrimitiveArray, ObjectFails, CloseHeapDump, input, vars
<1>3. CASE ReadClass
  <2>1. /\ superId' = Put(superId, Object.id, Object.super)
        /\ fieldInfo' = Put(fieldInfo, Object.id, TypesOf(Object.fields))
        /\ toRoot' = toRoot /\ Object.kind = "class"
    BY <1>3 DEF ReadClass, AtObject
  <2>2. Object \in ClassesIn(dump)
    BY <1>3, <2>1, ObjectIsThere DEF ReadObject
  <2> DEFINE id == Object.id
             super == Object.super
             types == TypesOf(Object.fields)
  <2>3. /\ DOMAIN superId' = DOMAIN superId \union {id}
        /\ DOMAIN fieldInfo' = DOMAIN fieldInfo \union {id}
        /\ superId'[id] = super /\ fieldInfo'[id] = types
        /\ \A c \in DOMAIN superId : c # id => superId'[c] = superId[c]
        /\ \A c \in DOMAIN fieldInfo : c # id => fieldInfo'[c] = fieldInfo[c]
    BY <2>1 DEF Put
  <2>4. ASSUME NEW c \in DOMAIN fieldInfo'
        PROVE  \E class \in ClassesIn(dump) :
                 class.id = c /\ superId'[c] = class.super /\ fieldInfo'[c] = TypesOf(class.fields)
    <3>1. CASE c = id
      BY <2>2, <2>3, <3>1
    <3>2. CASE c # id
      <4>1. c \in DOMAIN fieldInfo /\ c \in DOMAIN superId
        BY <1>1, <2>3, <3>2 DEF Hierarchy
      <4>2. superId'[c] = superId[c] /\ fieldInfo'[c] = fieldInfo[c]
        BY <2>3, <3>2, <4>1
      <4>3. \E class \in ClassesIn(dump) :
                 class.id = c /\ superId[c] = class.super /\ fieldInfo[c] = TypesOf(class.fields)
        BY <1>1, <4>1 DEF Hierarchy
      <4>4. QED
        BY <4>2, <4>3
    <3>3. QED
      BY <3>1, <3>2
  <2>5. Hierarchy(layout)'
    BY <1>1, <1>2, <2>1, <2>3, <2>4 DEF Hierarchy
  <2>6. QED
    BY <1>1, <1>2, <2>5 DEF Knows
<1>4. CASE ReadInstance
  <2>1. /\ toRoot' = Put(toRoot, Object.class, Resolved(Object.class))
        /\ UNCHANGED <<superId, fieldInfo>>
    BY <1>4 DEF ReadInstance
  <2>2. Resolved(Object.class) = layout[Object.class]
    BY <1>1, <1>4, InstanceUnderstood
  <2>3. \A c \in DOMAIN toRoot' : toRoot'[c] = layout[c]
    BY <1>1, <2>1, <2>2 DEF Put, Hierarchy
  <2>4. Hierarchy(layout)'
    BY <1>1, <1>2, <2>1, <2>3 DEF Hierarchy
  <2>5. QED
    BY <1>1, <1>2, <2>4 DEF Knows
<1>5. CASE ~ (ReadClass \/ ReadInstance)
  <2>1. UNCHANGED <<superId, fieldInfo, toRoot>>
    BY <1>5 DEF Next, ReadRecord, ReadObject, ReadName, LoadClass, IgnoreRecord, SkipRecord, OpenHeapDump,
         EndOfInput, RecordFails, ReadRoot, ReadObjectArray, ReadPrimitiveArray, ObjectFails,
         CloseHeapDump, hierarchy, vars
  <2>2. Hierarchy(layout)'
    BY <1>1, <1>2, <2>1 DEF Hierarchy
  <2>3. QED
    BY <1>1, <1>2, <2>2 DEF Knows
<1>6. QED
  BY <1>3, <1>4, <1>5

(* Every reader writes the rows that its object stands for. *)
LEMMA RowsOfObject ==
  ASSUME Framed, Knows, ReadObject
  PROVE  /\ references' = references \union LinksIn(Object)
         /\ Ids' = Ids \union IF IsInstance(Object) THEN {Object.id} ELSE {}
<1>0. Object.kind \in {"root", "class", "instance", "objects", "primitives"} /\ WellFormedObject(Object)
  BY ObjectIsThere DEF WellFormedObject
<1>1. CASE ReadRoot
  <2>1. /\ Object.kind = "root" /\ references' = references \union {LinkTo(0, Object.id)}
        /\ instances' = instances
    BY <1>1 DEF ReadRoot, AtObject
  <2>2. QED
    BY <2>1 DEF LinksIn, Ids, IsInstance
<1> DEFINE Added(row) == instances' = instances \union {row} /\ row.id = Object.id
<1>2. ASSUME NEW row, Added(row), Object.kind # "root"
      PROVE  Ids' = Ids \union IF IsInstance(Object) THEN {Object.id} ELSE {}
  BY <1>2 DEF Ids, IsInstance
<1>3. CASE ReadClass
  <2>1. /\ Object.kind = "class" /\ references' = references \union StaticLinks(Object)
        /\ Added(Row(Object.id, Object.id, SizeOf(Object) - 1))
    BY <1>3 DEF ReadClass, AtObject, WithClass, Row
  <2>2. StaticLinks(Object) = LinksIn(Object)
    <3>1. LinksIn(Object) =
             UNION {{LinkTo(Object.id, Object.statics[k].value), LinkTo(0, Object.statics[k].value)} :
                  k \in References(TypesOf(Object.statics))}
      BY <2>1 DEF LinksIn
    <3>2. QED
      BY <3>1 DEF StaticLinks
  <2> HIDE DEF Added
  <2>3. QED
    BY <1>2, <2>1, <2>2
<1>4. CASE ReadInstance
  <2>1. /\ Object.kind = "instance"
        /\ references' = references \union FieldLinks(Object, Resolved(Object.class))
        /\ Added(Row(Object.id, Object.class, SizeOf(Object) - 1))
    BY <1>4 DEF ReadInstance, AtObject, Row
  <2>2. Resolved(Object.class) = Object.types
    BY <1>4, InstanceUnderstood DEF Knows
  <2>3. Object.types \in Seq(Types)
    BY <1>0, <2>1 DEF WellFormedObject
  <2>4. FieldLinks(Object, Resolved(Object.class)) = LinksIn(Object)
    BY <2>1, <2>2, <2>3, LinksOfInstance
  <2> HIDE DEF Added
  <2>5. QED
    BY <1>2, <2>1, <2>4
<1>5. CASE ReadObjectArray
  <2>1. /\ Object.kind = "objects"
        /\ references' = references \union {LinkTo(Object.id, Object.values[k]) : k \in DOMAIN Object.values}
        /\ Added(Row(Object.id, Object.class, IdentifierSize * Len(Object.values)))
    BY <1>5 DEF ReadObjectArray, AtObject, Row
  <2>2. LinksIn(Object) = {LinkTo(Object.id, Object.values[k]) : k \in DOMAIN Object.values}
    BY <2>1 DEF LinksIn, Range
  <2> HIDE DEF Added
  <2>3. QED
    BY <1>2, <2>1, <2>2
<1>6. CASE ReadPrimitiveArray
  <2>1. /\ Object.kind = "primitives" /\ references' = references
        /\ Added(Row(Object.id, Object.type, ArrayBytes(Object)))
    BY <1>6 DEF ReadPrimitiveArray, AtObject, Row
  <2>2. LinksIn(Object) = {}
    BY <2>1 DEF LinksIn
  <2> HIDE DEF Added
  <2>3. QED
    BY <1>2, <2>1, <2>2
<1>7. QED
  BY <1>1, <1>3, <1>4, <1>5, <1>6 DEF ReadObject

(* So the columns keep up with the position, and are complete at the end.  *)
LEMMA ColumnsStep ==
  ASSUME Framed, Knows, ColumnsHold, ReadsWhatIsThere, [Next]_vars
  PROVE  ColumnsHold' /\ ReadsWhatIsThere'
<1>1. dump' = dump /\ cut' = cut
  BY DEF Next, ReadRecord, ReadObject, ReadName, LoadClass, IgnoreRecord, SkipRecord, OpenHeapDump,
         EndOfInput, RecordFails, ReadRoot, ReadClass, ReadInstance, ReadObjectArray,
         ReadPrimitiveArray, ObjectFails, CloseHeapDump, input, vars
<1>2. \A end : HeldBefore(end)' = HeldBefore(end)
  BY <1>1 DEF HeldBefore
<1>3. Read = HeldBefore(cut) /\ Read' = Read
  BY <1>1 DEF Read, HeldBefore
<1>4. Given
  BY DEF Framed
<1>5. ASSUME pc' # "done" PROVE ReadsWhatIsThere'
  BY <1>5 DEF ReadsWhatIsThere
<1>6. CASE UNCHANGED vars
  BY <1>2, <1>3, <1>6 DEF vars, columns, Ids, ColumnsHold, ReadsWhatIsThere
<1>7. CASE ReadName \/ LoadClass \/ IgnoreRecord \/ SkipRecord
  <2>1. /\ pc = "records" /\ pc' = "records" /\ at \in DOMAIN dump /\ dump[at].tag # "heap"
        /\ UNCHANGED <<instances, references>> /\ NextRecord
    BY <1>7 DEF ReadName, LoadClass, IgnoreRecord, SkipRecord, AtRecord, Record, columns
  <2>2. positionInFile = RecordStart(dump, at) /\ positionInFile' = RecordStart(dump, at + 1)
    BY <1>4, <2>1, GivenDump DEF Framed, AtRecordStart, NextRecord, RecordsFollow, Record
  <2>3. HeldBefore(positionInFile') = HeldBefore(positionInFile)
    BY <1>4, <2>1, <2>2, HeldAfterRecord
  <2>4. Ids' = Ids
    BY <2>1 DEF Ids
  <2>5. ColumnsHold'
    BY <1>2, <2>1, <2>3, <2>4 DEF ColumnsHold
  <2>6. QED
    BY <1>5, <2>1, <2>5
<1>8. CASE OpenHeapDump
  <2>1. /\ pc = "records" /\ pc' = "heap" /\ at \in DOMAIN dump
        /\ positionInFile' = positionInFile + RecordHeader
        /\ references' = references /\ instances' = instances \union {Row(0, 0, 0)}
    BY <1>8 DEF OpenHeapDump, AtRecord, WithVirtualRoot
  <2>2. positionInFile = RecordStart(dump, at)
    BY <2>1 DEF Framed, AtRecordStart
  <2>3. HeldBefore(positionInFile') = HeldBefore(positionInFile)
    BY <1>4, <2>1, <2>2, HeldAfterOpen
  <2>4. Ids' \ {0} = Ids \ {0}
    BY <2>1 DEF Ids, Row
  <2>5. ColumnsHold'
    BY <1>2, <2>1, <2>3, <2>4 DEF ColumnsHold
  <2>6. QED
    BY <1>5, <2>1, <2>5
<1>9. CASE ReadObject
  <2>1. PastObject /\ pc = "heap" /\ pc' = "heap"
    BY <1>9, ReadingPasses DEF PastObject
  <2>2. HeldBefore(positionInFile') = HeldBefore(positionInFile) \union {Object}
    BY <2>1, HeldAfterObject
  <2>3. /\ references' = references \union LinksIn(Object)
        /\ Ids' = Ids \union IF IsInstance(Object) THEN {Object.id} ELSE {}
    BY <1>9, RowsOfObject
  <2>4. IsInstance(Object) => Object.id # 0
    BY <1>9, ObjectIsThere DEF WellFormedObject
  <2> DEFINE S == HeldBefore(positionInFile)
  <2>5. references = LinksHeld(S) /\ Ids \ {0} = IdsHeld(S)
    BY <2>1 DEF ColumnsHold
  <2> HIDE DEF S
  <2>6. LinksHeld(S \union {Object}) = LinksHeld(S) \union LinksIn(Object)
    BY DEF LinksHeld
  <2>7. IdsHeld(S \union {Object}) = IdsHeld(S) \union IF IsInstance(Object) THEN {Object.id} ELSE {}
    BY DEF IdsHeld
  <2>8. references' = LinksHeld(S \union {Object}) /\ Ids' \ {0} = IdsHeld(S \union {Object})
    BY <2>3, <2>4, <2>5, <2>6, <2>7
  <2>9. HeldBefore(positionInFile)' = S \union {Object}
    BY <1>2, <2>2 DEF S
  <2>10. \A T : LinksHeld(T)' = LinksHeld(T) /\ IdsHeld(T)' = IdsHeld(T)
    BY DEF LinksHeld, IdsHeld
  <2>11. ColumnsHold'
    BY <2>1, <2>8, <2>9, <2>10 DEF ColumnsHold
  <2>12. QED
    BY <1>5, <2>1, <2>11
<1>10. CASE EndOfInput
  <2>1. pc = "records" /\ pc' = "done" /\ UNCHANGED <<instances, references>>
    BY <1>10 DEF EndOfInput, columns
  <2>2. HeldBefore(cut) = HeldBefore(positionInFile)
    BY <1>10, HeldAtTheEnd
  <2>3. references = LinksHeld(Read) /\ Ids \ {0} = IdsHeld(Read)
    BY <1>3, <2>1, <2>2 DEF ColumnsHold
  <2>4. Ids' = Ids
    BY <2>1 DEF Ids
  <2>5. ReadsWhatIsThere'
    BY <1>3, <2>1, <2>3, <2>4 DEF ReadsWhatIsThere, LinksHeld, IdsHeld
  <2>6. QED
    BY <2>1, <2>5 DEF ColumnsHold
<1>11. CASE RecordFails \/ ObjectFails
  <2>1. pc' = "abort"
    BY <1>11 DEF RecordFails, ObjectFails
  <2>2. QED
    BY <1>5, <2>1 DEF ColumnsHold
<1>12. CASE CloseHeapDump
  <2>1. /\ pc = "heap" /\ pc' # "done" /\ UNCHANGED <<positionInFile, instances, references>>
    BY <1>12 DEF CloseHeapDump, columns
  <2>2. Ids' = Ids /\ HeldBefore(positionInFile)' = HeldBefore(positionInFile)
    BY <1>2, <2>1 DEF Ids
  <2>3. ColumnsHold'
    BY <2>1, <2>2 DEF ColumnsHold
  <2>4. QED
    BY <1>5, <2>1, <2>3
<1>13. QED
  BY <1>6, <1>7, <1>8, <1>9, <1>10, <1>11, <1>12 DEF Next, ReadRecord

LEMMA ColumnsInitially ==
  ASSUME Init
  PROVE  Knows /\ ColumnsHold /\ ReadsWhatIsThere
<1>1. Given /\ positionInFile = 0 /\ pc = "records" /\ references = {} /\ instances = {}
  BY DEF Init, Given
<1>2. Knows
  BY DEF Init, Knows, Hierarchy, Empty
<1>3. HeldBefore(0) = {}
  <2>1. \A r, k : At(r, k) => ~ ObjectStart(dump, r, k) < 0
    BY <1>1, ObjectsPlaced
  <2>2. QED
    BY <2>1, HeldMeaning
<1>4. ColumnsHold
  BY <1>1, <1>3 DEF ColumnsHold, LinksHeld, IdsHeld, Ids
<1>5. QED
  BY <1>1, <1>2, <1>4 DEF ReadsWhatIsThere

(***************************************************************************)
(* If parse succeeds, on whatever part of a dump, the instances and the    *)
(* references it has written are those of the objects that start in it:    *)
(* that the fields of a class come before those of its superclass is what  *)
(* resolveClassToRoot relies on (parse.cc:692), that a class may be dumped *)
(* again, and its instances before or after that, does no harm.            *)
(***************************************************************************)
THEOREM ColumnsHoldTheDump == Spec => []ReadsWhatIsThere
<1>1. Init => Framed /\ Knows /\ ColumnsHold /\ ReadsWhatIsThere
  BY FramedInitially, ColumnsInitially
<1>2. Framed /\ Knows /\ ColumnsHold /\ ReadsWhatIsThere /\ [Next]_vars =>
        (Framed /\ Knows /\ ColumnsHold /\ ReadsWhatIsThere)'
  BY FramedStep, KnowsStep, ColumnsStep
<1>3. QED
  BY <1>1, <1>2, PTL DEF Spec

==============================================================================
