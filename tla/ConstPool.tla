------------------------------ MODULE ConstPool ------------------------------
(***************************************************************************)
(* cpp/bytecode/ConstPool.cpp: the constant pool of a class, read from the *)
(* bytes that JVMTI hands over, and the names found through it:            *)
(* readFromMemberRef of Method.cpp and Field.cpp, and entryToString.       *)
(*                                                                         *)
(* The JVM's actions (Write, HandOver) lay out the pool as the class file  *)
(* format has it.  The agent's actions read entry after entry, and then    *)
(* follow the references from one entry to the next.  The constants are    *)
(* numbered from 1 by their order; the references between them are         *)
(* indexes, of which a long and a double take two.                         *)
(***************************************************************************)
EXTENDS Integers, Sequences

CONSTANT Pools  \* the constant pools of the classes

Byte == 0..255

Utf8 == 1
Wide == {5, 6}              \* Long and Double
Number == {3, 4} \cup Wide  \* and Integer and Float
Class == 7
String == 8
Fieldref == 9
Methodref == {10, 11}       \* and InterfaceMethodref
Member == {Fieldref} \cup Methodref
NameAndType == 12
MethodHandle == 15
MethodType == 16
InvokeDynamic == 18

-----------------------------------------------------------------------------
(* The class file format.                                                  *)

\* The kinds of Java 8; Dynamic, Module and Package came with Java 9 and 11.
New == {17, 19, 20}
Known == {Utf8} \cup 3..12 \cup {MethodHandle, MethodType, InvokeDynamic}
Tag == Known \cup New

Num(s, i) == 256 * s[i] + s[i + 1]

ArgsLength(tag) ==
  CASE tag \in Wide -> 8
    [] tag \in {Class, String, MethodType, 19, 20} -> 2
    [] tag = MethodHandle -> 3
    [] OTHER -> 4

\* args are the bytes after the tag.
Constant == {c \in [tag : Tag, args : Seq(Byte)] :
               IF c.tag = Utf8
               THEN Len(c.args) >= 2 /\ Len(c.args) = 2 + Num(c.args, 1)
               ELSE Len(c.args) = ArgsLength(c.tag)}

\* What a constant refers to, and of which kinds those have to be.
Refs(c) ==
  CASE c.tag \in {Class, String, MethodType, 19, 20} -> <<Num(c.args, 1)>>
    [] c.tag \in Member \cup {NameAndType} -> <<Num(c.args, 1), Num(c.args, 3)>>
    [] c.tag = MethodHandle -> <<Num(c.args, 2)>>
    [] c.tag \in {17, InvokeDynamic} -> <<Num(c.args, 3)>>
    [] OTHER -> <<>>

Wanted(tag, r) ==
  CASE tag \in Member -> IF r = 1 THEN {Class} ELSE {NameAndType}
    [] tag = MethodHandle -> Member
    [] tag \in {17, InvokeDynamic} -> {NameAndType}
    [] OTHER -> {Utf8}

Text(c) ==
  CASE c.tag = Utf8 -> SubSeq(c.args, 3, Len(c.args))
    [] c.tag \in Number -> c.args
    [] OTHER -> <<>>

ASSUME PoolsAssumption == Pools \subseteq Seq(Constant)

-----------------------------------------------------------------------------
VARIABLES
  pool,      \* the constants of the class
  index,     \* the index of each that is written
  starts,    \* and where it begins
  bytes,     \* the bytes written
  count,     \* constant_pool_count
  phase,     \* what is going on: see Phase
  readPos,   \* ConstPool::read's readPos
  indexPos,  \* ConstPool's indexPos
  entries,   \* ConstPool::entries, from index 0
  todo,      \* the visits to make, in order: of which index, and whether from
             \* another entry
  out,       \* the texts that the visits gave
  member     \* the index of the member whose names are read, or 0

layout == <<pool, index, starts, bytes, count>>
reader == <<readPos, indexPos, entries>>
visitor == <<todo, out, member>>
vars == <<layout, phase, reader, visitor>>

Phase == {"writing", "reading", "read", "naming", "thrown"}

Padding == [tag |-> 0, refs |-> <<>>, text |-> <<>>]

Init ==
  /\ pool \in Pools
  /\ index = <<>> /\ starts = <<>> /\ bytes = <<>> /\ count = 1
  /\ phase = "writing"
  /\ readPos = 0 /\ indexPos = 1 /\ entries = <<Padding>>
  /\ todo = <<>> /\ out = <<>> /\ member = 0

Write ==
  /\ phase = "writing"
  /\ Len(starts) < Len(pool)
  /\ LET c == pool[Len(starts) + 1]
     IN  /\ bytes' = bytes \o (<<c.tag>> \o c.args)
         /\ count' = count + (IF c.tag \in Wide THEN 2 ELSE 1)
  /\ index' = Append(index, count)
  /\ starts' = Append(starts, Len(bytes))
  /\ UNCHANGED <<pool, phase>>
  /\ UNCHANGED reader
  /\ UNCHANGED visitor

\* The class was verified: references are to constants of the right kinds.
WellFormed ==
  \A i \in 1..Len(pool) : \A r \in 1..Len(Refs(pool[i])) :
    \E j \in 1..Len(pool) : /\ index[j] = Refs(pool[i])[r]
                            /\ pool[j].tag \in Wanted(pool[i].tag, r)

HandOver ==
  /\ phase = "writing"
  /\ Len(starts) = Len(pool)
  /\ WellFormed
  /\ phase' = "reading"
  /\ UNCHANGED layout
  /\ UNCHANGED reader
  /\ UNCHANGED visitor

-----------------------------------------------------------------------------
(* ConstInfo::read and the readers of the kinds, behind the tag at pos.    *)

U2(pos) == 256 * bytes[pos + 1] + bytes[pos + 2]

\* Variant: two indexes in a method type.
ReadSizeTwoTypes(tag, pos) ==
  CASE tag = Utf8 -> 2 + U2(pos)
    [] tag \in Wide -> 8
    [] tag \in {Class, String} -> 2
    [] tag = MethodHandle -> 3
    [] OTHER -> 4

\* Variant: the kind of a method handle forgotten.
ReadSizeNoKind(tag, pos) ==
  CASE tag = Utf8 -> 2 + U2(pos)
    [] tag \in Wide -> 8
    [] tag \in {Class, String, MethodType, MethodHandle} -> 2
    [] OTHER -> 4

ReadSize(tag, pos) ==
  CASE tag = Utf8 -> 2 + U2(pos)
    [] tag \in Wide -> 8
    [] tag \in {Class, String, MethodType} -> 2
    [] tag = MethodHandle -> 3
    [] OTHER -> 4

\* Variant: the name and the descriptor of a member exchanged.
ReadRefsSwapped(tag, pos) ==
  CASE tag \in {Class, String, MethodType} -> <<U2(pos)>>
    [] tag \in Member -> <<U2(pos), U2(pos + 2)>>
    [] tag = NameAndType -> <<U2(pos + 2), U2(pos)>>
    [] tag = MethodHandle -> <<U2(pos + 1)>>
    [] tag = InvokeDynamic -> <<U2(pos + 2)>>
    [] OTHER -> <<>>

ReadRefs(tag, pos) ==
  CASE tag \in {Class, String, MethodType} -> <<U2(pos)>>
    [] tag \in Member \cup {NameAndType} -> <<U2(pos), U2(pos + 2)>>
    [] tag = MethodHandle -> <<U2(pos + 1)>>
    [] tag = InvokeDynamic -> <<U2(pos + 2)>>
    [] OTHER -> <<>>

ReadText(tag, pos) ==
  CASE tag = Utf8 -> SubSeq(bytes, pos + 3, pos + 2 + U2(pos))
    [] tag \in Number -> SubSeq(bytes, pos + 1, pos + ReadSize(tag, pos))
    [] OTHER -> <<>>

ReadEntry(pos) ==
  LET tag == bytes[pos + 1]
  IN  [tag |-> tag, refs |-> ReadRefs(tag, pos + 1), text |-> ReadText(tag, pos + 1)]

\* Variant: one entry for a long or a double.
ReadNextNoPadding ==
  /\ phase = "reading"
  /\ readPos < Len(bytes)
  /\ bytes[readPos + 1] \in Known
  /\ readPos' = readPos + 1 + ReadSize(bytes[readPos + 1], readPos + 1)
  /\ entries' = Append(entries, ReadEntry(readPos))
  /\ indexPos' = indexPos + 1
  /\ UNCHANGED phase
  /\ UNCHANGED layout
  /\ UNCHANGED visitor

\* The pass of ConstPool::read's loop.
ReadNext ==
  /\ phase = "reading"
  /\ readPos < Len(bytes)
  /\ LET tag == bytes[readPos + 1]
         entry == ReadEntry(readPos)
     IN  /\ tag \in Known
         /\ readPos' = readPos + 1 + ReadSize(tag, readPos + 1)
         /\ entries' = entries \o (IF tag \in Wide THEN <<entry, Padding>>
                                                   ELSE <<entry>>)
         /\ indexPos' = indexPos + (IF tag \in Wide THEN 2 ELSE 1)
  /\ UNCHANGED phase
  /\ UNCHANGED layout
  /\ UNCHANGED visitor

\* Variant: method types not known.
ReadThrowType ==
  /\ phase = "reading"
  /\ readPos < Len(bytes)
  /\ bytes[readPos + 1] \notin Known \ {MethodType}
  /\ phase' = "thrown"
  /\ UNCHANGED layout
  /\ UNCHANGED reader
  /\ UNCHANGED visitor

\* An unexpected tag: there will be no message.
ReadThrow ==
  /\ phase = "reading"
  /\ readPos < Len(bytes)
  /\ bytes[readPos + 1] \notin Known
  /\ phase' = "thrown"
  /\ UNCHANGED layout
  /\ UNCHANGED reader
  /\ UNCHANGED visitor

ReadDone ==
  /\ phase = "reading"
  /\ readPos >= Len(bytes)
  /\ phase' = "read"
  /\ UNCHANGED layout
  /\ UNCHANGED reader
  /\ UNCHANGED visitor

-----------------------------------------------------------------------------
(* The names of a member that an instruction refers to, and the text of    *)
(* any entry, which printInstruction logs.                                 *)

InPool(i) == i < Len(entries)
EntryAt(i) == entries[i + 1]

\* entryToString(i), and constPool.get(r).visit for the references of an entry.
ToString(i) == [index |-> i, nested |-> FALSE]
VisitRefs(refs) == [r \in 1..Len(refs) |-> [index |-> refs[r], nested |-> TRUE]]

\* readFromMemberRef: entries.at and the two casts, which throw, and then the
\* texts of class, name and descriptor.
ReadMember(i) ==
  /\ phase = "read"
  /\ IF /\ InPool(i) /\ EntryAt(i).tag \in Member
        /\ InPool(EntryAt(i).refs[2])
        /\ EntryAt(EntryAt(i).refs[2]).tag = NameAndType
     THEN LET class == EntryAt(i).refs[1]
              names == EntryAt(EntryAt(i).refs[2]).refs
          IN  /\ phase' = "naming"
              /\ todo' = <<ToString(class), ToString(names[1]), ToString(names[2])>>
              /\ member' = i
              /\ out' = <<>>
     ELSE /\ phase' = "thrown"
          /\ UNCHANGED visitor
  /\ UNCHANGED layout
  /\ UNCHANGED reader

\* printInstruction's text of an operand that is an index.
PrintEntry(i) ==
  /\ phase = "read"
  /\ phase' = "naming"
  /\ todo' = <<ToString(i)>>
  /\ member' = 0
  /\ out' = <<>>
  /\ UNCHANGED layout
  /\ UNCHANGED reader

\* Variant: an entry with references stays where it is.
VisitAgain ==
  /\ phase = "naming"
  /\ todo # <<>>
  /\ InPool(Head(todo).index)
  /\ LET entry == EntryAt(Head(todo).index)
     IN  IF entry.refs = <<>>
         THEN todo' = Tail(todo) /\ out' = Append(out, entry.text)
         ELSE UNCHANGED <<todo, out>>
  /\ UNCHANGED <<phase, member>>
  /\ UNCHANGED layout
  /\ UNCHANGED reader

\* The next visit: the entry's text, or the entries that it refers to.  Outside
\* of the pool entryToString gives the number alone and constPool.get throws.
Visit ==
  /\ phase = "naming"
  /\ todo # <<>>
  /\ LET i == Head(todo).index
     IN  IF InPool(i)
         THEN /\ todo' = VisitRefs(EntryAt(i).refs) \o Tail(todo)
              /\ out' = IF EntryAt(i).refs = <<>> THEN Append(out, EntryAt(i).text)
                                                  ELSE out
              /\ UNCHANGED phase
         ELSE /\ todo' = Tail(todo)
              /\ out' = Append(out, <<>>)
              /\ phase' = IF Head(todo).nested THEN "thrown" ELSE phase
  /\ UNCHANGED member
  /\ UNCHANGED layout
  /\ UNCHANGED reader

Named ==
  /\ phase = "naming"
  /\ todo = <<>>
  /\ phase' = "read"
  /\ out' = <<>> /\ member' = 0
  /\ UNCHANGED todo
  /\ UNCHANGED layout
  /\ UNCHANGED reader

Agent == ReadNext \/ ReadThrow \/ ReadDone \/ Visit \/ Named

\* The index that an instruction holds: of a method if it is a call, of a field
\* if it is a field access.
ReadFromCodeInvoke(i) == pool[i].tag \in Methodref /\ ReadMember(index[i])
ReadFromFieldInsn(i) == pool[i].tag = Fieldref /\ ReadMember(index[i])

Instruction(i) == \/ ReadFromCodeInvoke(i)
                  \/ ReadFromFieldInsn(i)
                  \/ PrintEntry(index[i])

Next == \/ Write
        \/ HandOver
        \/ Agent
        \/ \E i \in 1..Len(index) : Instruction(i)

\* The callback's steps are not delayed forever.
Spec == Init /\ [][Next]_vars /\ WF_vars(Agent)

-----------------------------------------------------------------------------
(* Properties.                                                             *)

Entry == [tag : Byte, refs : Seq(Nat), text : Seq(Byte)]

TypeOK ==
  /\ pool \in Seq(Constant)
  /\ index \in Seq(Nat) /\ starts \in Seq(Nat)
  /\ Len(index) = Len(starts) /\ Len(starts) <= Len(pool)
  /\ bytes \in Seq(Byte)
  /\ count \in Nat
  /\ phase \in Phase
  /\ readPos \in 0..Len(bytes) /\ indexPos \in Nat
  /\ entries \in Seq(Entry)
  /\ todo \in Seq([index : Nat, nested : BOOLEAN])
  /\ out \in Seq(Seq(Byte))
  /\ member \in Nat

Start(i) == IF i <= Len(starts) THEN starts[i] ELSE Len(bytes)
Index(i) == IF i <= Len(index) THEN index[i] ELSE count

Decoded(c) == [tag |-> c.tag, refs |-> Refs(c), text |-> Text(c)]

\* The k constants read so far are at the indexes the class refers to them by,
\* with what they say, and the next one is where the reader is.
ReadUpTo(k) ==
  /\ readPos = Start(k + 1)
  /\ indexPos = Index(k + 1)
  /\ \A i \in 1..k : /\ index[i] + 1 <= Len(entries)
                     /\ entries[index[i] + 1] = Decoded(pool[i])

\* The reader never loses the boundaries between constants nor the count of
\* indexes, whatever the kinds and their order.
Aligned ==
  phase # "writing" =>
    /\ Len(entries) = indexPos
    /\ \E k \in 0..Len(pool) : ReadUpTo(k)

\* The assertion of Jvmti::getConstPool, which the release build leaves out.
CountAgrees == phase \in {"read", "naming"} => Len(entries) = count

\* A pool is refused only for a kind of constant newer than the reader: no
\* reference leads out of the pool, and no cast fails.
RefusesOnlyNew == phase = "thrown" => \E i \in 1..Len(pool) : pool[i].tag \in New

At(i) == pool[CHOOSE j \in 1..Len(pool) : index[j] = i]

\* The class, the name and the descriptor of a member are those the class file
\* gives it.
MembersNamed ==
  phase = "naming" /\ member # 0 /\ todo = <<>> =>
    LET class == At(Refs(At(member))[1])
        nameAndType == At(Refs(At(member))[2])
    IN  out = << Text(At(Refs(class)[1])),
                 Text(At(Refs(nameAndType)[1])), Text(At(Refs(nameAndType)[2])) >>

-----------------------------------------------------------------------------
(* The inductive invariant.                                                *)

\* The bytes are those of the constants, one after the other, and a constant
\* takes the indexes from its own to the next one's.
Laid ==
  /\ Start(1) = 0 /\ Index(1) = 1
  /\ \A i \in 1..Len(starts) :
       /\ Start(i + 1) = starts[i] + 1 + Len(pool[i].args)
       /\ Start(i + 1) <= Len(bytes)
       /\ Index(i + 1) = index[i] + (IF pool[i].tag \in Wide THEN 2 ELSE 1)
       /\ index[i] < count
       /\ bytes[starts[i] + 1] = pool[i].tag
       /\ \A j \in 1..Len(pool[i].args) : bytes[starts[i] + 1 + j] = pool[i].args[j]
  /\ \A i, j \in 1..Len(index) : i < j => index[i] < index[j]

\* The reader starts with the finished pool and stops at its end.
Ordered ==
  /\ phase = "writing" => readPos = 0 /\ indexPos = 1 /\ entries = <<Padding>>
  /\ phase # "writing" => Len(starts) = Len(pool) /\ WellFormed
  /\ phase \in {"read", "naming"} => ReadUpTo(Len(pool))

\* The texts and the visits on the way from a member to the texts of its class
\* u, its name n and its descriptor d; c is the class.
OnTheWay(c, u, n, d) ==
  LET text(i) == Text(pool[i])
      visit(i) == ToString(index[i])
  IN  \/ out = <<>> /\ todo = <<visit(c), visit(n), visit(d)>>
      \/ /\ out = <<>>
         /\ todo = <<[index |-> index[u], nested |-> TRUE], visit(n), visit(d)>>
      \/ out = <<text(u)>> /\ todo = <<visit(n), visit(d)>>
      \/ out = <<text(u), text(n)>> /\ todo = <<visit(d)>>
      \/ out = <<text(u), text(n), text(d)>> /\ todo = <<>>

\* Every visit is to a constant of the pool, and those of a member are the
\* visits to what its references lead to.
Visits ==
  phase = "naming" =>
    /\ \A q \in 1..Len(todo) : \E j \in 1..Len(pool) : todo[q].index = index[j]
    /\ member # 0 =>
         \E m, c, nt, u, n, d \in 1..Len(pool) :
           /\ member = index[m]
           /\ Refs(pool[m]) = <<index[c], index[nt]>>
           /\ Refs(pool[c]) = <<index[u]>>
           /\ Refs(pool[nt]) = <<index[n], index[d]>>
           /\ \A i \in {u, n, d} : pool[i].tag = Utf8
           /\ OnTheWay(c, u, n, d)

IInv == TypeOK /\ Laid /\ Aligned /\ Ordered /\ RefusesOnlyNew /\ Visits

-----------------------------------------------------------------------------
\* The pool is read or refused, and the visits of any entry come to an end.
Resolves == phase \in {"reading", "naming"} ~> phase \in {"read", "thrown"}
=============================================================================
