------------------------------ MODULE HprofDump ------------------------------
(***************************************************************************)
(* Java heap dumps: records, some of which hold a run of objects.  What is *)
(* in a dump, how many bytes it takes, and which instances and references  *)
(* it describes, stated object by object and without a parser.             *)
(*                                                                         *)
(* A record is one of                                                      *)
(*   [tag: "name",  id]                                                    *)
(*   [tag: "class", id, name]            a loaded class                    *)
(*   [tag: "skipped", length], [tag: "other", length]                      *)
(*   [tag: "heap", objects]              a heap dump or a segment of one   *)
(* and an object of a heap one of                                          *)
(*   [kind: "root", id, extra]           extra: bytes after the id         *)
(*   [kind: "class", id, super, pool, statics, fields]                     *)
(*   [kind: "instance", id, class, types, values]                          *)
(*   [kind: "objects", id, class, values]                                  *)
(*   [kind: "primitives", id, type, num]                                   *)
(* with statics a sequence of [name, type, value], fields one of           *)
(* [name, type], pool one of types; a value of a primitive type is not     *)
(* looked at.                                                              *)
(***************************************************************************)
EXTENDS LinkFiles, SequencesExt

CONSTANT IdentifierSize        \* 4 or 8 bytes

ASSUME IdentifierSizeAssumption == IdentifierSize \in {4, 8}

Reference == 2                 \* T_CLASS, "Really an object"
Primitives == 4..11

TypeSize(type) ==
  CASE type = Reference  -> IdentifierSize
    [] type \in {4, 8}   -> 1  \* boolean, byte
    [] type \in {5, 9}   -> 2  \* char, short
    [] type \in {6, 10}  -> 4  \* float, int
    [] type \in {7, 11}  -> 8  \* double, long

Total(lengths) ==
  LET upTo[k \in 0..Len(lengths)] == IF k = 0 THEN 0 ELSE upTo[k - 1] + lengths[k]
  IN  upTo[Len(lengths)]
SizeOfAll(types) == Total([k \in DOMAIN types |-> TypeSize(types[k])])

(* Where the k-th of some values starts, from the start of the first.      *)
Offset(types, k) == SizeOfAll(SubSeq(types, 1, k - 1))

TypesOf(declarations) == [k \in DOMAIN declarations |-> declarations[k].type]

InstanceHeader == 2 * IdentifierSize + 8
ClassHeader == 7 * IdentifierSize + 8

(* The bytes of an object, its tag included. *)
SizeOf(object) == 1 +
  CASE object.kind = "root"       -> IdentifierSize + object.extra
    [] object.kind = "class"      -> ClassHeader + 6
                                     + SizeOfAll(object.pool) + 3 * Len(object.pool)
                                     + SizeOfAll(TypesOf(object.statics))
                                     + (IdentifierSize + 1) * Len(object.statics)
                                     + (IdentifierSize + 1) * Len(object.fields)
    [] object.kind = "instance"   -> InstanceHeader + SizeOfAll(object.types)
    [] object.kind = "objects"    -> InstanceHeader + IdentifierSize * Len(object.values)
    [] object.kind = "primitives" -> IdentifierSize + 9 + TypeSize(object.type) * object.num

(* A tag, a time stamp and a length come before the body of a record.      *)
RecordHeader == 9

LengthOf(record) ==
  CASE record.tag = "name"  -> IdentifierSize + 1
    [] record.tag = "class" -> 2 * IdentifierSize + 8
    [] record.tag = "heap"  -> Total([k \in DOMAIN record.objects |-> SizeOf(record.objects[k])])
    [] OTHER                -> record.length

------------------------------------------------------------------------------
(* The references an object holds, those of a root and of a static field   *)
(* being held by the virtual root, 0, as well.                             *)
LinkTo(from, to) == [src |-> from, dst |-> to]

References(types) == {k \in DOMAIN types : types[k] = Reference}

LinksIn(object) ==
  CASE object.kind = "root"     -> {LinkTo(0, object.id)}
    [] object.kind = "class"    ->
         UNION {{LinkTo(object.id, object.statics[k].value), LinkTo(0, object.statics[k].value)} :
                  k \in References(TypesOf(object.statics))}
    [] object.kind = "instance" ->
         {LinkTo(object.id, object.values[k]) : k \in References(object.types)}
    [] object.kind = "objects"  -> {LinkTo(object.id, value) : value \in Range(object.values)}
    [] OTHER                    -> {}

IsInstance(object) == object.kind # "root"

(***************************************************************************)
(* The format: sizes are what they are for, the identifier 0 is null, the  *)
(* length of a record is the four bytes that come before it.               *)
(***************************************************************************)
Types == {Reference} \union Primitives

IsList(s) == s \in Seq(Range(s))

WellFormedObject(object) ==
  /\ object.kind \in {"root", "class", "instance", "objects", "primitives"}
  /\ object.kind = "root" => object.extra \in Nat
  /\ object.kind = "class" =>
       /\ object.pool \in Seq(Types)
       /\ IsList(object.statics) /\ TypesOf(object.statics) \in Seq(Types)
       /\ IsList(object.fields) /\ TypesOf(object.fields) \in Seq(Types)
  /\ object.kind = "instance" => object.types \in Seq(Types)
  /\ object.kind = "objects" => IsList(object.values)
  /\ object.kind = "primitives" => object.type \in Primitives /\ object.num \in Nat
  /\ IsInstance(object) => object.id # 0

WellFormed(dump) ==
  /\ IsList(dump)
  /\ \A k \in DOMAIN dump :
       LET record == dump[k]
       IN  /\ record.tag \in {"name", "class", "skipped", "other", "heap"}
           /\ record.tag \in {"skipped", "other"} => record.length \in Nat
           /\ record.tag = "heap" =>
                IsList(record.objects) /\ \A object \in Range(record.objects) : WellFormedObject(object)

ObjectsIn(dump) ==
  UNION {Range(dump[k].objects) : k \in {k \in DOMAIN dump : dump[k].tag = "heap"}}

ClassesIn(dump) == {object \in ObjectsIn(dump) : object.kind = "class"}

(***************************************************************************)
(* The format again: an instance has the fields of its class, then those   *)
(* of the superclass, and so on.  layout[c] is the types of the fields of  *)
(* an instance of c.  No class is its own superclass, directly or not, and *)
(* a class that is dumped twice is the same class.                         *)
(***************************************************************************)
Describes(layout, dump) ==
  /\ \A class \in ClassesIn(dump) :
       /\ class.id \in Nat /\ class.super \in Nat
       /\ layout[class.id] = TypesOf(class.fields)
                               \o IF class.super = 0 THEN << >> ELSE layout[class.super]
       /\ \A again \in ClassesIn(dump) :
            again.id = class.id =>
              again.super = class.super /\ TypesOf(again.fields) = TypesOf(class.fields)
  /\ \A ids \in SUBSET {class.id : class \in ClassesIn(dump)} :
       ids # {} => \E class \in ClassesIn(dump) : class.id \in ids /\ class.super \notin ids
  /\ \A object \in ObjectsIn(dump) :
       object.kind = "instance" => object.class \in Nat \ {0} /\ object.types = layout[object.class]

(* Where a record, and an object of it, start in the dump. *)
RecordStart(dump, at) ==
  Total([k \in 1..(at - 1) |-> RecordHeader + LengthOf(dump[k])])

ObjectStart(dump, at, sub) ==
  RecordStart(dump, at) + RecordHeader
    + Total([k \in 1..(sub - 1) |-> SizeOf(dump[at].objects[k])])

(* The objects that start in the first cut bytes.                          *)
ObjectsBefore(dump, cut) ==
  {p \in UNION {{<<at, sub>> : sub \in DOMAIN dump[at].objects} :
                  at \in {at \in DOMAIN dump : dump[at].tag = "heap"}} :
     ObjectStart(dump, p[1], p[2]) < cut}

==============================================================================
