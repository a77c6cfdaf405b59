-------------------------------- MODULE Parse --------------------------------
(***************************************************************************)
(* The program parse (src/src/parse.cc) reading a dump from a pipe, which  *)
(* may end before the dump does: the loop over the records, the loop over  *)
(* the objects of a heap dump, and the maps of names and classes that say  *)
(* where the references of an instance are.                                *)
(*                                                                         *)
(* parse does not know where records end but by what it has read.  The     *)
(* indices at and sub say what starts at positionInFile (StaysInFrame).    *)
(* Lengths pass through ints, of IntValues values, on their way to size_t, *)
(* of SizeValues values.                                                   *)
(*                                                                         *)
(* The columns are sets of rows here, since fhat.sh sorts them; how often  *)
(* a row is written matters to dfs alone (HeapAnalysis).  What a failed    *)
(* assertion leaves behind in buffers is not looked at: fhat.sh stops.     *)
(***************************************************************************)
EXTENDS HprofDump

CONSTANTS
  Inputs,        \* records [dump, cut, layout]: cut bytes of the dump arrive
  IntValues, SizeValues,         \* 2^32 and 2^64
  MaxRecordSize  \* MAX_RECORD_SIZE_IN_MEMORY

ASSUME WidthAssumption ==
  /\ IntValues \in Nat \ {0} /\ IntValues % 2 = 0
  /\ SizeValues \in Nat \ {0} /\ SizeValues % IntValues = 0
  /\ MaxRecordSize \in Nat

(* The records parse skips are statistics: none has 2 GB.  The identifier  *)
(* of a class is an address, and none of the numbers of primitive types.   *)
ASSUME InputsAssumption ==
  \A i \in Inputs : i.cut \in Nat /\ WellFormed(i.dump) /\ \A k \in DOMAIN i.dump :
    LET record == i.dump[k]
    IN  /\ LengthOf(record) < IntValues
        /\ record.tag = "skipped" => record.length < IntValues \div 2
        /\ record.tag = "heap" =>
             \A j \in DOMAIN record.objects :
               record.objects[j].kind = "class" => record.objects[j].id \notin Primitives

(* The layout of instances is a part of the dump's format: parse has to    *)
(* find it out.                                                            *)
ASSUME LayoutAssumption == \A i \in Inputs : Describes(i.layout, i.dump)

VARIABLES
  dump, cut,
  at, sub,                       \* the record, and object in it, that is next
  positionInFile,
  dumpStart, dumpSize, bytesLeft, \* readHeapDump's
  names,                         \* the keys of nameFromId
  classNameId,                   \* classNameIdFromObjectId
  superId, fieldInfo,            \* ...FromClassId
  toRoot,                        \* fieldInfoFromClassIdToRoot
  instances, references, classes, \* the columns
  pc

input == <<dump, cut>>
loaded == <<names, classNameId>>
hierarchy == <<superId, fieldInfo, toRoot>>
heapDump == <<dumpStart, dumpSize, bytesLeft>>
columns == <<instances, references, classes>>
vars == <<input, at, sub, positionInFile, heapDump, loaded, hierarchy, columns, pc>>

Empty == [c \in {} |-> 0]

(* The primitive types are classes, with names of their own.               *)
Synthetic == {[id |-> type, name |-> type] : type \in Primitives}

Init ==
  /\ \E i \in Inputs : dump = i.dump /\ cut = i.cut
  /\ at = 1 /\ sub = 0 /\ positionInFile = 0
  /\ dumpStart = 0 /\ dumpSize = 0 /\ bytesLeft = 0
  /\ names = {} /\ classNameId = Empty
  /\ superId = Empty /\ fieldInfo = Empty /\ toRoot = Empty
  /\ instances = {} /\ references = {} /\ classes = Synthetic
  /\ pc = "records"

(* std::map's operator[] on the left of an assignment.                     *)
Put(map, key, value) == [k \in DOMAIN map \union {key} |-> IF k = key THEN value ELSE map[k]]

AsSize(n) == n % SizeValues

AsInt(n) == LET v == n % IntValues IN IF v < IntValues \div 2 THEN v ELSE v - IntValues

(* fread finds the next count bytes; without them an assertion fails.      *)
Arrived(count) == positionInFile + count <= cut

(* What is next, and its length as readInt and a size_t have it.           *)
Record == dump[at]
RecordLength == AsSize(AsInt(LengthOf(Record)))
Object == Record.objects[sub]

(***************************************************************************)
(* The loop over the records.                                              *)
(***************************************************************************)
AtRecord(tag) ==
  /\ pc = "records" /\ Arrived(RecordHeader)
  /\ at \in DOMAIN dump /\ Record.tag = tag

(* Faulty variants, which the properties must tell from the code, are the  *)
(* definitions whose name says what is wrong; nothing uses them.           *)
BodyArrived_Unchecked == TRUE

(* The records that are read into memory, or skipped to their end.         *)
BodyArrived == Arrived(RecordHeader + LengthOf(Record))
FitsInMemory == RecordLength <= MaxRecordSize

NextRecord ==
  /\ at' = at + 1
  /\ positionInFile' = positionInFile + RecordHeader + LengthOf(Record)

ReadName ==
  /\ AtRecord("name") /\ FitsInMemory /\ BodyArrived
  /\ names' = names \union {Record.id}
  /\ NextRecord
  /\ UNCHANGED <<input, sub, heapDump, classNameId, hierarchy, columns, pc>>

NameKnown(name) == name \in names

LoadClass ==
  /\ AtRecord("class") /\ FitsInMemory /\ BodyArrived
  /\ NameKnown(Record.name)
  /\ classNameId' = Put(classNameId, Record.id, Record.name)
  /\ NextRecord
  /\ UNCHANGED <<input, sub, heapDump, names, hierarchy, columns, pc>>

(* Frames, traces and unknown records are read, and have no effect.        *)
IgnoreRecord ==
  /\ AtRecord("other") /\ FitsInMemory /\ BodyArrived
  /\ NextRecord
  /\ UNCHANGED <<input, sub, heapDump, loaded, hierarchy, columns, pc>>

SkipRecord ==
  /\ AtRecord("skipped") /\ BodyArrived
  /\ NextRecord
  /\ UNCHANGED <<input, sub, heapDump, loaded, hierarchy, columns, pc>>

Row(id, class, size) == [id |-> id, class |-> class, size |-> size]

(* Every heap dump adds the virtual root to the instances.                 *)
WithVirtualRoot == instances \union {Row(0, 0, 0)}

OpenHeapDump ==
  /\ AtRecord("heap")
  /\ instances' = WithVirtualRoot
  /\ positionInFile' = positionInFile + RecordHeader
  /\ dumpStart' = positionInFile' /\ dumpSize' = RecordLength /\ bytesLeft' = dumpSize'
  /\ sub' = 1
  /\ pc' = "heap"
  /\ UNCHANGED <<input, at, loaded, hierarchy, references, classes>>

(* The end of the pipe, where a record would start or after it, as skipped *)
(* bytes need not be there.                                                *)
EndOfInput_WhenAllIsRead ==
  /\ pc = "records"
  /\ positionInFile = cut
  /\ pc' = "done"
  /\ UNCHANGED <<input, at, sub, positionInFile, heapDump, loaded, hierarchy, columns>>

EndOfInput ==
  /\ pc = "records"
  /\ ~ Arrived(1)
  /\ pc' = "done"
  /\ UNCHANGED <<input, at, sub, positionInFile, heapDump, loaded, hierarchy, columns>>

RecordFails ==
  /\ pc = "records" /\ Arrived(1)
  /\ Arrived(RecordHeader) =>
       /\ Record.tag # "heap"
       /\ \/ ~ BodyArrived
          \/ Record.tag # "skipped" /\ ~ FitsInMemory
          \/ Record.tag = "class" /\ ~ NameKnown(Record.name)
  /\ pc' = "abort"
  /\ UNCHANGED <<input, at, sub, positionInFile, heapDump, loaded, hierarchy, columns>>

(***************************************************************************)
(* The loop over the objects of a heap dump.                               *)
(***************************************************************************)
BytesRead == AsSize(positionInFile - dumpStart)
InDump == pc = "heap" /\ BytesRead < dumpSize

(* The assertion at the head of the loop.                                  *)
BytesAccounted == AsSize(dumpSize - bytesLeft) = BytesRead

AtObject(kind) ==
  /\ InDump /\ BytesAccounted
  /\ sub \in DOMAIN Record.objects /\ Object.kind = kind

(* An object has been read: its bytes, and what its reader returns.        *)
NextObject(bytes, returned) ==
  /\ positionInFile' = positionInFile + 1 + bytes
  /\ bytesLeft' = AsSize(bytesLeft - 1 - returned)
  /\ sub' = sub + 1

RootBytes_ExtraForgotten(object) == IdentifierSize

RootBytes(object) == IdentifierSize + object.extra

ReadRoot ==
  /\ AtObject("root") /\ Arrived(SizeOf(Object))
  /\ references' = references \union {LinkTo(0, Object.id)}
  /\ NextObject(SizeOf(Object) - 1, RootBytes(Object))
  /\ UNCHANGED <<input, at, dumpStart, dumpSize, loaded, hierarchy, instances, classes, pc>>

(* A class has to be loaded, and names to be known, of its fields too.     *)
ClassKnown(class) ==
  /\ class.id \in DOMAIN classNameId \union Primitives
  /\ \A k \in DOMAIN class.statics : NameKnown(class.statics[k].name)
  /\ \A k \in DOMAIN class.fields : NameKnown(class.fields[k].name)

NameIdOf(id) == IF id \in DOMAIN classNameId THEN classNameId[id] ELSE 0

(* A reference from the class and one from the virtual root.               *)
StaticLinks(class) ==
  LET refs == {class.statics[k].value : k \in References(TypesOf(class.statics))}
  IN  {LinkTo(class.id, id) : id \in refs} \union {LinkTo(0, id) : id \in refs}

WithClass_NoInstance(class) == instances

WithClass(class) == instances \union {Row(class.id, class.id, SizeOf(class) - 1)}

ReadClass ==
  /\ AtObject("class") /\ Arrived(SizeOf(Object))
  /\ ClassKnown(Object)
  /\ superId' = Put(superId, Object.id, Object.super)
  /\ fieldInfo' = Put(fieldInfo, Object.id, TypesOf(Object.fields))
  /\ classes' = classes \union {[id |-> Object.id, name |-> NameIdOf(Object.id)]}
  /\ instances' = WithClass(Object)
  /\ references' = references \union StaticLinks(Object)
  /\ NextObject(SizeOf(Object) - 1, AsInt(SizeOf(Object) - 1))
  /\ UNCHANGED <<input, at, dumpStart, dumpSize, loaded, toRoot, pc>>

(* resolveClassToRoot asserts that the class and its superclasses were     *)
(* dumped before.                                                          *)
HierarchyKnown(class) ==
  LET known[c \in Nat] == c = 0 \/ (c \in DOMAIN fieldInfo /\ known[superId[c]])
  IN  class \in DOMAIN toRoot \/ known[class]

(* The types of the fields, those of the class before its superclass's.    *)
FieldsToRoot_RootFirst(class) ==
  LET fields[c \in Nat] ==
        IF c \in DOMAIN fieldInfo THEN fields[superId[c]] \o fieldInfo[c] ELSE << >>
  IN  fields[class]

FieldsToRoot(class) ==
  LET fields[c \in Nat] ==
        IF c \in DOMAIN fieldInfo THEN fieldInfo[c] \o fields[superId[c]] ELSE << >>
  IN  fields[class]

Resolved(class) == IF class \in DOMAIN toRoot THEN toRoot[class] ELSE FieldsToRoot(class)

(* The identifier that starts at an offset in the values of an instance:   *)
(* one of its references, if that is what is there.                        *)
Garbage == 0 - 1
ValueAt(instance, offset) ==
  LET there == {k \in References(instance.types) : Offset(instance.types, k) = offset}
  IN  IF there = {} THEN Garbage ELSE instance.values[CHOOSE k \in there : TRUE]

FieldLinks(instance, types) ==
  {LinkTo(instance.id, ValueAt(instance, Offset(types, k))) : k \in References(types)}

(* Primitive values are skipped, and skipping is not checked: only the     *)
(* references have to be there.                                            *)
FieldsArrived(types) ==
  \A k \in References(types) :
    Arrived(1 + InstanceHeader + Offset(types, k) + IdentifierSize)

InstanceReadable(instance) ==
  /\ Arrived(1 + InstanceHeader)
  /\ HierarchyKnown(instance.class)
  /\ FieldsArrived(Resolved(instance.class))
  /\ SizeOfAll(instance.types) = SizeOfAll(Resolved(instance.class))

ReadInstance ==
  /\ AtObject("instance") /\ InstanceReadable(Object)
  /\ toRoot' = Put(toRoot, Object.class, Resolved(Object.class))
  /\ instances' = instances \union {Row(Object.id, Object.class, SizeOf(Object) - 1)}
  /\ references' = references \union FieldLinks(Object, Resolved(Object.class))
  /\ LET bytes == InstanceHeader + SizeOfAll(Resolved(Object.class))
     IN  NextObject(bytes, bytes)
  /\ UNCHANGED <<input, at, dumpStart, dumpSize, loaded, superId, fieldInfo, classes, pc>>

ReadObjectArray ==
  /\ AtObject("objects") /\ Arrived(SizeOf(Object))
  /\ instances' = instances \union
                    {Row(Object.id, Object.class, IdentifierSize * Len(Object.values))}
  /\ references' = references \union
                     {LinkTo(Object.id, Object.values[k]) : k \in DOMAIN Object.values}
  /\ LET bytes == InstanceHeader + IdentifierSize * Len(Object.values)
     IN  NextObject(bytes, AsInt(bytes))
  /\ UNCHANGED <<input, at, dumpStart, dumpSize, loaded, hierarchy, classes, pc>>

(* elSize*num *)
ArrayBytes(array) == TypeSize(array.type) * array.num

(* The elements are skipped.  The class of the array is its element type.  *)
ReadPrimitiveArray ==
  /\ AtObject("primitives") /\ Arrived(1 + IdentifierSize + 9)
  /\ instances' = instances \union {Row(Object.id, Object.type, ArrayBytes(Object))}
  /\ LET bytes == IdentifierSize + 9 + ArrayBytes(Object) IN NextObject(bytes, AsInt(bytes))
  /\ UNCHANGED <<input, at, dumpStart, dumpSize, loaded, hierarchy, references, classes, pc>>

(* What each reader needs, and asserts. *)
Readable ==
  /\ sub \in DOMAIN Record.objects
  /\ CASE Object.kind = "class"      -> Arrived(SizeOf(Object)) /\ ClassKnown(Object)
       [] Object.kind = "instance"   -> InstanceReadable(Object)
       [] Object.kind = "primitives" -> Arrived(1 + IdentifierSize + 9)
       [] OTHER                      -> Arrived(SizeOf(Object))

(* An assertion fails.  A dump of more than half of IntValues is taken for *)
(* one that never ends, and whatever comes after its objects for objects,  *)
(* until a tag is none or the input ends.                                  *)
ObjectFails ==
  /\ InDump
  /\ ~ (BytesAccounted /\ Readable)
  /\ pc' = "abort"
  /\ UNCHANGED <<input, at, sub, positionInFile, heapDump, loaded, hierarchy, columns>>

CloseHeapDump ==
  /\ pc = "heap" /\ ~ InDump
  /\ pc' = IF positionInFile - dumpStart = dumpSize THEN "records" ELSE "abort"
  /\ at' = at + 1 /\ sub' = 0
  /\ UNCHANGED <<input, positionInFile, heapDump, loaded, hierarchy, columns>>

ReadRecord == ReadName \/ LoadClass \/ IgnoreRecord \/ SkipRecord \/ OpenHeapDump
ReadObject == ReadRoot \/ ReadClass \/ ReadInstance \/ ReadObjectArray \/ ReadPrimitiveArray

Next == ReadRecord \/ EndOfInput \/ RecordFails
        \/ ReadObject \/ ObjectFails \/ CloseHeapDump

Spec == Init /\ [][Next]_vars

(* One loop, over input that arrives or ends.                              *)
FairSpec == Spec /\ WF_vars(Next)

------------------------------------------------------------------------------
Ids == {row.id : row \in instances}

(* Type invariant: sizes are size_ts, and the maps have the keys that      *)
(* readClass gives them (parse.cc:591, 739).                               *)
TypeOK ==
  /\ cut \in Nat
  /\ at \in 1..(Len(dump) + 1) /\ sub \in Nat /\ positionInFile \in Nat
  /\ {dumpSize, bytesLeft} \subseteq 0..(SizeValues - 1) /\ dumpStart \in Nat
  /\ DOMAIN superId = DOMAIN fieldInfo /\ DOMAIN toRoot \subseteq DOMAIN fieldInfo
  /\ instances \subseteq [id : Nat, class : Nat, size : Nat]
  /\ references \subseteq [src : Nat, dst : Nat]
  /\ pc \in {"records", "heap", "done", "abort"}

(***************************************************************************)
(* Whatever holds a reference is a row of the instances, at every moment:  *)
(* no reference is lost for its source when references are translated      *)
(* (fhat.sh:48).  The virtual root counts, which holds roots and statics   *)
(* (parse.cc:744).                                                         *)
(***************************************************************************)
ReferrersAreInstances == \A link \in references : link.src \in Ids

(***************************************************************************)
(* positionInFile stays on the boundary of the record or object that is    *)
(* next, through every order of objects and however a class describes its  *)
(* instances (parse.cc:752, the assertion that is commented out because of *)
(* what it costs), and what is left by the count of bytes is what is left  *)
(* by the position (parse.cc:753).                                         *)
(***************************************************************************)
StaysInFrame ==
  /\ pc = "records" => positionInFile = RecordStart(dump, at)
  /\ pc = "heap" => positionInFile = ObjectStart(dump, at, sub)
  /\ InDump => BytesAccounted

(***************************************************************************)
(* If parse succeeds, the columns hold every object that starts in what    *)
(* arrived, its references and no others: none is made of the wrong bytes  *)
(* of an instance, and none is left out at the end (parse.cc:692, 739).    *)
(***************************************************************************)
Read == {dump[p[1]].objects[p[2]] : p \in ObjectsBefore(dump, cut)}

ReadsWhatIsThere ==
  pc = "done" =>
    /\ references = UNION {LinksIn(object) : object \in Read}
    /\ Ids \ {0} = {object.id : object \in {o \in Read : IsInstance(o)}}

(***************************************************************************)
(* The class columns name classes by names that are in the name columns,   *)
(* so that no name is lost in translation (parse.cc:658, fhat.sh:31).      *)
(***************************************************************************)
ClassNamesAreNames == \A class \in classes : class.name \in names \union Primitives

(***************************************************************************)
(* Input that ends early stops parse, unless it ends between records or in *)
(* bytes that are skipped: the elements of a primitive array, primitive    *)
(* fields (parse.cc:565, 502).                                             *)
(***************************************************************************)
LostUnread ==
  \E p \in ObjectsBefore(dump, cut) :
    /\ dump[p[1]].objects[p[2]].kind \in {"primitives", "instance"}
    /\ p[2] = Len(dump[p[1]].objects)
    /\ ObjectStart(dump, p[1], p[2] + 1) > cut

TruncationIsNoticed ==
  pc = "done" => LostUnread \/ \E k \in 1..(Len(dump) + 1) : RecordStart(dump, k) = cut

(***************************************************************************)
(* A whole dump of less than 2 GB in which names come before the classes   *)
(* that have them, and superclasses and classes before instances, is read  *)
(* to its end: no assertion fails on it, whatever the order and nesting of *)
(* the objects (parse.cc:670, 735).  On no input does parse read forever.  *)
(***************************************************************************)
Whole == cut = RecordStart(dump, Len(dump) + 1)

Small == \A k \in DOMAIN dump :
           LengthOf(dump[k]) < IF dump[k].tag = "heap" THEN IntValues \div 2 ELSE MaxRecordSize

ObjectsInOrder ==
  FlattenSeq([k \in DOMAIN dump |-> IF dump[k].tag = "heap" THEN dump[k].objects ELSE << >>])

ClassesFirst ==
  LET objects == ObjectsInOrder
      Before(k, id) == id = 0 \/ \E j \in 1..(k - 1) : objects[j].kind = "class" /\ objects[j].id = id
  IN  \A k \in DOMAIN objects :
        CASE objects[k].kind = "class"    -> Before(k, objects[k].super)
          [] objects[k].kind = "instance" -> Before(k, objects[k].class)
          [] OTHER                        -> TRUE

(* Names and loaded classes come in front of the heap.                     *)
NamedFirst ==
  LET prelude == {k \in DOMAIN dump : dump[k].tag # "heap"}
      ids(tag) == {dump[k].id : k \in {k \in prelude : dump[k].tag = tag}}
      objects == Range(ObjectsInOrder)
      described == {o \in objects : o.kind = "class"}
  IN  /\ \A k \in prelude : dump[k].tag = "class" =>
             \E j \in 1..(k - 1) : dump[j].tag = "name" /\ dump[j].id = dump[k].name
      /\ \A class \in described :
             /\ class.id \in ids("class")
             /\ {d.name : d \in Range(class.statics) \union Range(class.fields)} \subseteq ids("name")

Succeeds ==
  <>(pc = "done" \/ (pc = "abort" /\ ~ (Whole /\ Small /\ ClassesFirst /\ NamedFirst)))

==============================================================================
