---------------------------- MODULE CodeAttribute ----------------------------
(***************************************************************************)
(* cpp/bytecode/CodeAttribute.cpp: from the bytes of a method to the list  *)
(* of its instructions, and the search of that list for the instruction    *)
(* that threw with which traceDetailedCause (cpp/analyzer.cpp) begins.     *)
(*                                                                         *)
(* The compiler's action (Emit) writes a method as the class file format   *)
(* has it.  The agent's actions read it back: CodeAttribute::init steps    *)
(* from instruction to instruction by getInstructionLength.  Positions are *)
(* the code's, from 0; bytes is a sequence, from 1.                        *)
(***************************************************************************)
EXTENDS Bytecode

CONSTANTS Insns,     \* the instructions methods are made of
          MaxInsns,  \* bound on the instructions of a method
          MaxBytes,  \* bound on its size
          Memory,    \* what the list of positions can grow to
          Stray      \* what is found beyond the code, or beyond a table

Byte == 0..255

-----------------------------------------------------------------------------
(* The class file format.                                                  *)

OperandBytes(op) ==
  CASE op \in {16, 18, 169, 188} \cup 21..25 \cup 54..58 -> 1
    [] op \in {17, 19, 20, 132, 187, 189, 192, 193, 198, 199}
                \cup 153..168 \cup 178..184 -> 2
    [] op = 197 -> 3
    [] op \in {185, 186, 200, 201} -> 4
    [] OTHER -> 0

Variable == {TABLESWITCH, LOOKUPSWITCH, WIDE}

\* args are the bytes after the opcode; after its padding for a switch.  Of a
\* tableswitch's bounds, and of a lookupswitch's count, the last byte is kept
\* in accord with its size: no more of them reaches a length.
Encoded ==
  {insn \in [op : OpCode, args : Seq(Byte)] :
     LET size == Len(insn.args)
     IN  CASE insn.op = TABLESWITCH ->
                /\ size >= 16
                /\ size % 4 = 0
                /\ (4 * (insn.args[12] - insn.args[8] + 1) - (size - 12)) % 256 = 0
           [] insn.op = LOOKUPSWITCH ->
                /\ size >= 8
                /\ (8 * insn.args[8] - (size - 8)) % 256 = 0
           [] insn.op = WIDE ->
                size = IF insn.args[1] = IINC THEN 5 ELSE 3
           [] OTHER -> size = OperandBytes(insn.op)}

Switch == {TABLESWITCH, LOOKUPSWITCH}

\* A switch's operands begin at a multiple of four.
Gap(insn, pos) == IF insn.op \in Switch THEN 3 - (pos % 4) ELSE 0

Length(insn, pos) == 1 + Gap(insn, pos) + Len(insn.args)

ASSUME InsnsAssumption == Insns \subseteq Encoded
ASSUME BoundsAssumption ==
  /\ MaxInsns \in Nat /\ MaxBytes \in Nat
  /\ Memory \in Nat /\ Memory >= MaxInsns
ASSUME StrayAssumption == Stray \subseteq Byte /\ Stray # {}

\* The table of Constants.cpp against the format: 0 marks what
\* getInstructionLength handles itself.
ASSUME TableAssumption ==
  \A op \in OpCode : TableLength(op) = IF op \in Variable THEN 0
                                                          ELSE 1 + OperandBytes(op)

-----------------------------------------------------------------------------
VARIABLES
  listing,       \* the instructions of the method
  starts,        \* where each begins
  bytes,         \* the method's bytes
  phase,         \* what is going on: see Phase
  pos,           \* init's pos
  instructions,  \* CodeAttribute::instructions
  location,      \* where the exception was thrown
  ins            \* traceDetailedCause's ins: how many come before it

vars == <<listing, starts, bytes, phase, pos, instructions, location, ins>>
method == <<listing, starts, bytes>>

Phase == {"emitting", "listing", "searching", "found", "thrown"}

Init ==
  /\ listing = <<>> /\ starts = <<>> /\ bytes = <<>>
  /\ phase = "emitting"
  /\ pos = 0
  /\ instructions = <<>>
  /\ location = 0
  /\ ins = 0

Zeros(n) == [i \in 1..n |-> 0]

Emit(insn) ==
  /\ phase = "emitting"
  /\ Len(listing) < MaxInsns
  /\ Len(bytes) + Length(insn, Len(bytes)) <= MaxBytes
  /\ listing' = Append(listing, insn)
  /\ starts' = Append(starts, Len(bytes))
  /\ bytes' = bytes \o (<<insn.op>> \o Zeros(Gap(insn, Len(bytes))) \o insn.args)
  /\ UNCHANGED <<phase, pos, instructions, location, ins>>

\* One of the instructions throws, and GetBytecodes hands over the method.
Construct ==
  /\ phase = "emitting"
  /\ \E i \in 1..Len(starts) : location' = starts[i]
  /\ phase' = "listing"
  /\ UNCHANGED <<pos, instructions, ins>>
  /\ UNCHANGED method

-----------------------------------------------------------------------------
(* getInstructionLength.  low and high are what a read beyond the end of   *)
(* code (or, for an opcode that is none, of the table) would find.         *)

Read(i, stray) == IF i < Len(bytes) THEN bytes[i + 1] ELSE stray

\* Variant: the bytes beyond a multiple of four, not those up to the next.
PaddingBeyond(offset) == (offset + 1) % 4

Padding(offset) == 4 - ((offset + 1) % 4)

\* The result is a uint8_t: of the 32-bit numbers read the last byte counts.
InstructionLengthAt(offset, low, high) ==
  LET op == bytes[offset + 1]
      operands == offset + 1 + Padding(offset)
  IN  CASE op \notin OpCode -> low
        [] op = WIDE -> IF Read(offset + 1, low) = IINC THEN 6 ELSE 4
        [] op = TABLESWITCH ->
             (1 + Padding(offset) + 12
                + 4 * (Read(operands + 11, high) - Read(operands + 7, low) + 1)) % 256
        [] op = LOOKUPSWITCH ->
             (1 + Padding(offset) + 8 + 8 * Read(operands + 7, low)) % 256
        [] OTHER -> TableLength(op)

\* Variant: pos assigned where it should be added to.
ListFromStart(low, high) ==
  /\ phase = "listing"
  /\ pos < Len(bytes)
  /\ Len(instructions) < Memory
  /\ ~(bytes[pos + 1] \notin OpCode /\ low = 0)
  /\ instructions' = Append(instructions, pos)
  /\ pos' = InstructionLengthAt(pos, low, high)
  /\ UNCHANGED <<phase, location, ins>>
  /\ UNCHANGED method

\* The pass of init's loop.  An instruction of length 0 is listed again and
\* again, until push_back has no memory.
List(low, high) ==
  /\ phase = "listing"
  /\ pos < Len(bytes)
  /\ Len(instructions) < Memory
  /\ ~(bytes[pos + 1] \notin OpCode /\ low = 0)
  /\ instructions' = Append(instructions, pos)
  /\ pos' = pos + InstructionLengthAt(pos, low, high)
  /\ UNCHANGED <<phase, location, ins>>
  /\ UNCHANGED method

\* Variant: no branch for wide.
ListThrowWide(low) ==
  /\ phase = "listing"
  /\ pos < Len(bytes)
  /\ \/ bytes[pos + 1] \notin OpCode /\ low = 0
     \/ bytes[pos + 1] = WIDE
     \/ Len(instructions) = Memory
  /\ phase' = "thrown"
  /\ UNCHANGED <<pos, instructions, location, ins>>
  /\ UNCHANGED method

\* getInstructionLength throws InvalidArgument, or push_back bad_alloc: there
\* will be no message.
ListThrow(low) ==
  /\ phase = "listing"
  /\ pos < Len(bytes)
  /\ \/ bytes[pos + 1] \notin OpCode /\ low = 0
     \/ Len(instructions) = Memory
  /\ phase' = "thrown"
  /\ UNCHANGED <<pos, instructions, location, ins>>
  /\ UNCHANGED method

Listed ==
  /\ phase = "listing"
  /\ pos >= Len(bytes)
  /\ phase' = "searching"
  /\ UNCHANGED <<pos, instructions, location, ins>>
  /\ UNCHANGED method

\* traceDetailedCause's first loop.
Reached == ins < Len(instructions) => instructions[ins + 1] = location

Search ==
  /\ phase = "searching"
  /\ ~Reached
  /\ ins' = ins + 1
  /\ UNCHANGED <<phase, pos, instructions, location>>
  /\ UNCHANGED method

\* Variant: the instruction found counted among those before it.
FoundOneMore ==
  /\ phase = "searching"
  /\ Reached
  /\ phase' = "found"
  /\ ins' = ins + 1
  /\ UNCHANGED <<pos, instructions, location>>
  /\ UNCHANGED method

Found ==
  /\ phase = "searching"
  /\ Reached
  /\ phase' = "found"
  /\ UNCHANGED <<pos, instructions, location, ins>>
  /\ UNCHANGED method

Agent == \/ \E low, high \in Stray : List(low, high) \/ ListThrow(low)
         \/ Listed \/ Search \/ Found

Next == (\E insn \in Insns : Emit(insn)) \/ Construct \/ Agent

\* The callback's steps are not delayed forever.
Spec == Init /\ [][Next]_vars /\ WF_vars(Agent)

-----------------------------------------------------------------------------
(* Properties.                                                             *)

TypeOK ==
  /\ listing \in Seq(Insns)
  /\ starts \in Seq(Nat) /\ Len(starts) = Len(listing)
  /\ bytes \in Seq(Byte)
  /\ phase \in Phase
  /\ pos \in Nat
  /\ instructions \in Seq(Nat)
  /\ location \in Nat
  /\ ins \in 0..Len(instructions)

\* getInstructionLength is the instruction's length: of a switch only when the
\* bytes before its operands are 1 to 3 and its size fits the return type.
Measured(i) ==
  listing[i].op \in Switch =>
    /\ starts[i] % 4 # 3
    /\ Length(listing[i], starts[i]) < 256

Short == \A i \in 1..Len(listing) : Length(listing[i], starts[i]) < 256
AllMeasured == \A i \in 1..Len(listing) : Measured(i)

\* None of those listed so far is an exception.
SoFarMeasured ==
  \A i \in 1..Len(instructions) : i <= Len(listing) => Measured(i)

Start(i) == IF i <= Len(starts) THEN starts[i] ELSE Len(bytes)

\* The list is the method's instructions in order, and pos is where the next
\* one begins: no length taken from the table or computed from the operands
\* puts the loop out of step with the method.
InStep ==
  phase # "emitting" /\ SoFarMeasured =>
    /\ Len(instructions) <= Len(starts)
    /\ \A i \in 1..Len(instructions) : instructions[i] = starts[i]
    /\ pos = Start(Len(instructions) + 1)

\* The bytes that getInstructionLength looks at are in the code, and the table
\* has an entry for the opcode.
LastRead(offset) ==
  LET op == bytes[offset + 1]
  IN  CASE op = WIDE -> offset + 1
        [] op = TABLESWITCH -> offset + 1 + Padding(offset) + 11
        [] op = LOOKUPSWITCH -> offset + 1 + Padding(offset) + 7
        [] OTHER -> offset

ReadsInside ==
  phase = "listing" /\ pos < Len(bytes) /\ AllMeasured =>
    bytes[pos + 1] \in OpCode /\ LastRead(pos) < Len(bytes)

\* The trace starts at the instruction that threw, with the instructions
\* before it in front of it.
FindsLocation ==
  phase = "found" /\ SoFarMeasured =>
    /\ ins < Len(starts)
    /\ starts[ins + 1] = location
    /\ instructions = starts

\* A method is refused only after a switch was measured wrong.
RefusesNone == phase = "thrown" => ~SoFarMeasured

\* The loops end, with the instruction found.
Finds == phase = "listing" /\ AllMeasured ~> phase = "found"

-----------------------------------------------------------------------------
(* The inductive invariant.                                                *)

\* The method's bytes are its instructions, one after the other.
Laid ==
  /\ Len(listing) <= MaxInsns
  /\ Start(1) = 0
  /\ \A i \in 1..Len(listing) :
       /\ Start(i + 1) = starts[i] + Length(listing[i], starts[i])
       /\ Start(i + 1) <= Len(bytes)
       /\ bytes[starts[i] + 1] = listing[i].op
       /\ \A j \in 1..Len(listing[i].args) :
            bytes[starts[i] + 1 + Gap(listing[i], starts[i]) + j] = listing[i].args[j]

\* The search has passed instructions other than the one sought, which is one
\* of the method's.
Searched ==
  /\ phase = "emitting" => instructions = <<>> /\ pos = 0
  /\ phase \in {"emitting", "listing"} => ins = 0
  /\ phase # "emitting" => \E i \in 1..Len(starts) : starts[i] = location
  /\ phase \in {"searching", "found"} => pos >= Len(bytes)
  /\ phase \in {"searching", "found"} =>
       \A i \in 1..ins : instructions[i] # location
  /\ phase = "found" => Reached

IInv == TypeOK /\ Laid /\ InStep /\ RefusesNone /\ Searched

-----------------------------------------------------------------------------
\* The comment at the length of a switch: its operands follow "0-3 padding".
\* A method all of whose instructions have a size that fits is then searched
\* right.
PaddingIsZeroToThree ==
  phase = "found" /\ Short => ins < Len(starts) /\ starts[ins + 1] = location
=============================================================================
