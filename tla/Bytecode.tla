------------------------------ MODULE Bytecode ------------------------------
(***************************************************************************)
(* The opcode numbers and the per-opcode tables of                         *)
(* src/main/include/bytecode/Constants.h and cpp/bytecode/Constants.cpp.   *)
(* Only the opcodes that the control flow of the agent names are defined;  *)
(* the tables cover all of them.                                           *)
(***************************************************************************)
EXTENDS Integers, Sequences

ACONST_NULL == 1
LDC == 18
LDC_W == 19
ILOAD == 21
ALOAD == 25
ALOAD_3 == 45
IALOAD == 46
AALOAD == 50
SALOAD == 53
IASTORE == 79
LASTORE == 80
DASTORE == 82
SASTORE == 86
DUP == 89
DUP_X1 == 90
DUP_X2 == 91
DUP2 == 92
DUP2_X1 == 93
DUP2_X2 == 94
SWAP == 95
IINC == 132
IFEQ == 153
GOTO == 167
TABLESWITCH == 170
LOOKUPSWITCH == 171
GETSTATIC == 178
PUTSTATIC == 179
GETFIELD == 180
PUTFIELD == 181
INVOKEVIRTUAL == 182
INVOKESPECIAL == 183
INVOKESTATIC == 184
INVOKEINTERFACE == 185
INVOKEDYNAMIC == 186
NEW_ == 187
ANEWARRAY == 189
ARRAYLENGTH == 190
ATHROW == 191
CHECKCAST == 192
MONITORENTER == 194
MONITOREXIT == 195
WIDE == 196
MULTIANEWARRAY == 197

\* enum OpCodes is dense from NOP to JSR_W
OpCode == 0..201

\* Constants::InstructionLength, twenty opcodes a row. 0 marks an instruction
\* whose length depends on what follows.
InstructionLength == <<
  1, 1, 1, 1, 1, 1, 1, 1, 1, 1, 1, 1, 1, 1, 1, 1, 2, 3, 2, 3,
  3, 2, 2, 2, 2, 2, 1, 1, 1, 1, 1, 1, 1, 1, 1, 1, 1, 1, 1, 1,
  1, 1, 1, 1, 1, 1, 1, 1, 1, 1, 1, 1, 1, 1, 2, 2, 2, 2, 2, 1,
  1, 1, 1, 1, 1, 1, 1, 1, 1, 1, 1, 1, 1, 1, 1, 1, 1, 1, 1, 1,
  1, 1, 1, 1, 1, 1, 1, 1, 1, 1, 1, 1, 1, 1, 1, 1, 1, 1, 1, 1,
  1, 1, 1, 1, 1, 1, 1, 1, 1, 1, 1, 1, 1, 1, 1, 1, 1, 1, 1, 1,
  1, 1, 1, 1, 1, 1, 1, 1, 1, 1, 1, 1, 3, 1, 1, 1, 1, 1, 1, 1,
  1, 1, 1, 1, 1, 1, 1, 1, 1, 1, 1, 1, 1, 3, 3, 3, 3, 3, 3, 3,
  3, 3, 3, 3, 3, 3, 3, 3, 3, 2, 0, 0, 1, 1, 1, 1, 1, 1, 3, 3,
  3, 3, 3, 3, 3, 5, 5, 3, 2, 3, 1, 1, 3, 3, 1, 1, 0, 4, 3, 3,
  5, 5 >>

\* Constants::OpCodeStackDelta, ten opcodes a row. 127 and -127 mark an opcode
\* whose effect the table cannot give.
OpCodeStackDelta == <<
   0,   1,   1,   1,   1,   1,   1,   1,   1,   2,
   2,   1,   1,   1,   2,   2,   1,   1,   1,   1,
   2,   1,   2,   1,   2,   1,   1,   1,   1,   1,
   2,   2,   2,   2,   1,   1,   1,   1,   2,   2,
   2,   2,   1,   1,   1,   1,  -1,   0,  -1,   0,
  -1,  -1,  -1,  -1,  -1,  -2,  -1,  -2,  -1,  -1,
  -1,  -1,  -1,  -2,  -2,  -2,  -2,  -1,  -1,  -1,
  -1,  -2,  -2,  -2,  -2,  -1,  -1,  -1,  -1,  -3,
  -4,  -3,  -4,  -3,  -3,  -3,  -3,  -1,  -2,   1,
 127, 127, 127, 127, 127, 127,  -1,  -2,  -1,  -2,
  -1,  -2,  -1,  -2,  -1,  -2,  -1,  -2,  -1,  -2,
  -1,  -2,  -1,  -2,  -1,  -2,   0,   0,   0,   0,
  -1,  -1,  -1,  -1,  -1,  -1,  -1,  -2,  -1,  -2,
  -1,  -2,   0,   1,   0,   1,  -1,  -1,   0,   0,
   1,   1,  -1,   0,  -1,   0,   0,   0,  -3,  -1,
  -1,  -3,  -3,  -1,  -1,  -1,  -1,  -1,  -1,  -2,
  -2,  -2,  -2,  -2,  -2,  -2,  -2,   0,-127,-127,
  -1,  -1,-127,-127,-127,-127,-127,-127, 127, 127,
 127, 127, 127, 127, 127, 127, 127,   1,   0,   0,
   0,  -1,   0,   0,  -1,  -1, 127, 127,  -1,  -1,
-127,-127 >>

TableLength(op) == InstructionLength[op + 1]
TableDelta(op) == OpCodeStackDelta[op + 1]
=============================================================================
