---------------------------- MODULE OperandStack ----------------------------
(***************************************************************************)
(* What the JVM's instructions do to the operand stack.  This is the       *)
(* machine the agent reasons about, not the agent: the definitions stand   *)
(* for the JVM that src/ runs in, and give the analysis of module Analyzer *)
(* something to be right or wrong about.                                   *)
(*                                                                         *)
(* A stack is a sequence of slots, its top the last one.  A slot records   *)
(* the position of the instruction that made its value (a copy keeps the   *)
(* position of the original) and whether the value is a reference.  A long *)
(* or a double takes two slots.  The verifier's rule that the two halves   *)
(* stay together is not imposed, so the model has every verifiable         *)
(* program and more.                                                       *)
(***************************************************************************)
EXTENDS Bytecode

\* n is the slots of an invocation's arguments or the dimensions of a new
\* array; type is what a field holds, a method returns or a constant is.  An
\* instruction with a wide in front is the instruction.
Insn == {insn \in [op : OpCode \ {WIDE}, n : Nat, type : {"void", "word", "wide", "ref"},
                   name : {"requireNonNull", "other"}] :
           insn.op \in GETSTATIC..PUTFIELD => insn.type # "void"}

Slot == [at : Nat, ref : BOOLEAN]

Size(type) == CASE type = "void" -> 0 [] type = "wide" -> 2 [] OTHER -> 1

-----------------------------------------------------------------------------
(* Instructions that only copy or reorder slots.                           *)

ShuffleOp == DUP..SWAP \cup {CHECKCAST}

\* how many slots the instruction takes off the stack ...
Taken(op) ==
  CASE op \in {DUP, CHECKCAST} -> 1
    [] op \in {DUP_X1, DUP2, SWAP} -> 2
    [] op \in {DUP_X2, DUP2_X1} -> 3
    [] OTHER -> 4

\* ... and, bottom to top, the depth each slot it puts back comes from.
Form(op) ==
  CASE op = CHECKCAST -> <<0>>
    [] op = SWAP      -> <<0, 1>>
    [] op = DUP       -> <<0, 0>>
    [] op = DUP_X1    -> <<0, 1, 0>>
    [] op = DUP_X2    -> <<0, 2, 1, 0>>
    [] op = DUP2      -> <<1, 0, 1, 0>>
    [] op = DUP2_X1   -> <<1, 0, 2, 1, 0>>
    [] OTHER          -> <<1, 0, 3, 2, 1, 0>>

-----------------------------------------------------------------------------
(* Instructions whose effect the opcode alone gives: the slots it pops and *)
(* pushes.                                                                 *)

PushesNone == {0} \cup 54..88 \cup {132} \cup 153..167 \cup 169..177
                \cup {191, 194, 195, 198, 199, 200}

PushesTwo ==
  {9, 10, 14, 15, 20, 22, 24} \cup 30..33 \cup 38..41 \cup {47, 49}
    \cup {op \in 96..131 : op % 2 = 1} \cup {133, 135, 138, 140, 141, 143}

Pushes1(op) ==
  CASE op \in PushesNone -> 0 [] op \in PushesTwo -> 2 [] OTHER -> 1

PopsOne ==
  {54, 56, 58} \cup 59..62 \cup 67..70 \cup 75..78 \cup {87, 116, 118}
    \cup {133, 134, 135, 139, 140, 141} \cup 145..147 \cup 153..158
    \cup {170, 171, 172, 174, 176} \cup 188..195 \cup {198, 199}

PopsTwo ==
  46..53 \cup {55, 57} \cup 63..66 \cup 71..74 \cup {88}
    \cup {op \in 96..131 : op % 2 = 0 /\ op \notin {116, 118}} \cup {117, 119}
    \cup {136, 137, 138, 142, 143, 144, 149, 150} \cup 159..166 \cup {173, 175}

PopsThree == {79, 81} \cup 83..86 \cup {121, 123, 125}

PopsFour == {80, 82} \cup {97, 99, 101, 103, 105, 107, 109, 111, 113, 115}
              \cup {127, 129, 131, 148, 151, 152}

Pops1(op) ==
  CASE op \in PopsOne   -> 1
    [] op \in PopsTwo   -> 2
    [] op \in PopsThree -> 3
    [] op \in PopsFour  -> 4
    [] OTHER            -> 0

-----------------------------------------------------------------------------
(* Any instruction.                                                        *)

Invoke == INVOKEVIRTUAL..INVOKEINTERFACE
FieldOp == GETSTATIC..PUTFIELD

Receiver(op) == IF op \in {INVOKESTATIC, INVOKEDYNAMIC} THEN 0 ELSE 1

Pops(insn) ==
  CASE insn.op \in ShuffleOp -> Taken(insn.op)
    [] insn.op \in Invoke \cup {INVOKEDYNAMIC} -> insn.n + Receiver(insn.op)
    [] insn.op = MULTIANEWARRAY -> insn.n
    [] insn.op = GETSTATIC -> 0
    [] insn.op = PUTSTATIC -> Size(insn.type)
    [] insn.op = GETFIELD -> 1
    [] insn.op = PUTFIELD -> 1 + Size(insn.type)
    [] OTHER -> Pops1(insn.op)

Pushes(insn) ==
  CASE insn.op \in ShuffleOp -> Len(Form(insn.op))
    [] insn.op \in Invoke \cup {INVOKEDYNAMIC, GETSTATIC, GETFIELD} ->
         Size(insn.type)
    [] insn.op \in {PUTSTATIC, PUTFIELD} -> 0
    [] OTHER -> Pushes1(insn.op)

\* Instructions that can leave a null on the stack, and those that leave a
\* reference that is never null.
MakesNullable(insn) ==
  \/ insn.op \in {ACONST_NULL, ALOAD, AALOAD} \cup (ALOAD_3 - 3)..ALOAD_3
  \/ /\ insn.op \in Invoke \cup {INVOKEDYNAMIC, GETSTATIC, GETFIELD}
     /\ insn.type = "ref"

MakesRef(insn) ==
  \/ MakesNullable(insn)
  \/ insn.op \in NEW_..ANEWARRAY \cup {MULTIANEWARRAY}
  \/ insn.op \in {LDC, LDC_W} /\ insn.type = "ref"

SlotAt(stack, depth) == stack[Len(stack) - depth]

\* The stack after the instruction at position p has run on stack.
After(stack, insn, p) ==
  LET rest == Len(stack) - Pops(insn)
      Made(i) == IF insn.op \in ShuffleOp
                 THEN SlotAt(stack, Form(insn.op)[i - rest])
                 ELSE [at |-> p, ref |-> MakesRef(insn)]
  IN  [i \in 1..(rest + Pushes(insn)) |-> IF i <= rest THEN stack[i] ELSE Made(i)]

\* The depth of the operand whose being null makes the instruction throw.
\* A call of Objects.requireNonNull throws on its first argument.
Dereferences(insn) ==
  \/ insn.op \in IALOAD..SALOAD \cup IASTORE..SASTORE \cup {GETFIELD, PUTFIELD}
  \/ insn.op \in {ARRAYLENGTH, ATHROW, MONITORENTER, MONITOREXIT}
  \/ insn.op \in Invoke \ {INVOKESTATIC}
  \/ insn.op = INVOKESTATIC /\ insn.name = "requireNonNull" /\ insn.n > 0

NullDepth(insn) == Pops(insn) - 1
=============================================================================
