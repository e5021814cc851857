------------------------------ MODULE Analyzer ------------------------------
(***************************************************************************)
(* cpp/analyzer.cpp: from the bytecode of a method and the position of an  *)
(* instruction that threw, name the expression that was null.              *)
(*                                                                         *)
(* The JVM's actions (Execute, Conditional, Fault, Throw) lay out a method *)
(* instruction by instruction as they run it, keeping the operand stack    *)
(* before each one.  The agent's actions then do what the code does: look  *)
(* at the instruction that threw for the depth of the null                 *)
(* (describeNPEInstruction), and walk the layout backwards from it,        *)
(* counting stack slots (traceDetailedCause).  The agent sees only the     *)
(* layout; frames and origin are there to say whether it is right.         *)
(***************************************************************************)
EXTENDS OperandStack

CONSTANTS Insns,     \* the instructions methods are made of
          MaxCode,   \* bound on the instructions before the faulting one
          MaxStack   \* bound on the operand stack

ASSUME InsnsAssumption == Insns \subseteq Insn
ASSUME BoundsAssumption == MaxCode \in Nat /\ MaxStack \in Nat

VARIABLES
  code,         \* the instructions laid out so far
  frames,       \* frames[i]: the stack code[i] runs on, or would
  phase,        \* what is going on: see Phase
  fault,        \* the instruction that threw
  origin,       \* ghost: the instruction that made the null, 0 if none did
  ins,          \* traceDetailedCause's ins: instructions not looked at yet
  stackExcess,  \* its stackExcess: the depth of the slot it follows
  verdict       \* what the message says the null is

vars == <<code, frames, phase, fault, origin, ins, stackExcess, verdict>>
agentVars == <<ins, stackExcess, verdict>>
jvmVars == <<code, frames, fault, origin>>

Phase == {"running", "faulted", "tracing", "done", "aborted"}

Label == {"none", "UNKNOWN", "variable", "constant", "instance field",
          "static field", "object returned"}

NoInsn == [op |-> 0, n |-> 0, type |-> "void", name |-> "other"]
Test == [op |-> IFEQ, n |-> 0, type |-> "void", name |-> "other"]
Skip == [op |-> GOTO, n |-> 0, type |-> "void", name |-> "other"]
NoVerdict == [label |-> "none", at |-> 0]

Stack == frames[Len(frames)]

-----------------------------------------------------------------------------
(* getStackDelta                                                           *)

Marked(op) == TableDelta(op) \in {-127, 127}

\* Variant: the receiver counted for an interface's method only.
InvokeDeltaNoReceiver(insn) ==
  (IF insn.type # "void" THEN 1 ELSE 0) - insn.n
    - (IF insn.op \in {INVOKESTATIC, INVOKESPECIAL, INVOKEVIRTUAL} THEN 0 ELSE 1)

InvokeDelta(insn) ==
  (IF insn.type # "void" THEN 1 ELSE 0) - insn.n
    - (IF insn.op = INVOKESTATIC THEN 0 ELSE 1)

\* Variant: a long in a field counted as one slot.
FieldDeltaNarrow(insn) ==
  CASE insn.op = GETSTATIC -> 1
    [] insn.op = PUTSTATIC -> -1
    [] insn.op = GETFIELD  -> 0
    [] insn.op = PUTFIELD  -> -2

FieldDelta(insn) ==
  LET size == IF insn.type = "wide" THEN 2 ELSE 1
  IN  CASE insn.op = GETSTATIC -> size
        [] insn.op = PUTSTATIC -> -size
        [] insn.op = GETFIELD  -> -1 + size
        [] insn.op = PUTFIELD  -> -1 - size

\* An operand that a dup copies is found again closer to the top below it.
ShuffleDelta(op, excess) ==
  CASE op = SWAP    -> IF excess = 1 THEN 1 ELSE IF excess = 0 THEN -1 ELSE 0
    [] op = DUP_X1  -> IF excess = 2 THEN 2 ELSE IF excess < 2 THEN 0 ELSE 1
    [] op = DUP_X2  -> IF excess = 3 THEN 3 ELSE IF excess < 3 THEN 0 ELSE 1
    [] op = DUP2    -> IF excess >= 2 THEN 2 ELSE 0
    [] op = DUP2_X1 -> IF excess \in {3, 4} THEN 3 ELSE IF excess < 3 THEN 0 ELSE 2
    [] op = DUP2_X2 -> IF excess \in {4, 5} THEN 4 ELSE IF excess < 4 THEN 0 ELSE 2

Unsupported(insn) ==
  /\ Marked(insn.op)
  /\ insn.op \notin Invoke \cup FieldOp \cup DUP_X1..SWAP \cup {MULTIANEWARRAY}

StackDelta(insn, excess) ==
  CASE ~Marked(insn.op)         -> TableDelta(insn.op)
    [] insn.op \in Invoke       -> InvokeDelta(insn)
    [] insn.op = MULTIANEWARRAY -> 1 - insn.n
    [] insn.op \in FieldOp      -> FieldDelta(insn)
    [] insn.op \in DUP_X1..SWAP -> ShuffleDelta(insn.op, excess)

\* The table of Constants.cpp against the JVM: an unmarked entry is what the
\* instruction pushes less what it pops, and the marked ones are the opcodes
\* getStackDelta handles itself or refuses.
ASSUME TableAssumption ==
  /\ \A op \in OpCode : ~Marked(op) =>
       TableDelta(op) = IF op \in ShuffleOp THEN Len(Form(op)) - Taken(op)
                                            ELSE Pushes1(op) - Pops1(op)
  /\ {op \in OpCode : Marked(op)} =
       DUP_X1..SWAP \cup {168, 169} \cup 172..186 \cup 196..197 \cup 200..201

-----------------------------------------------------------------------------
(* What traceDetailedCause can name, and as what.                          *)

LabelOf(insn) ==
  CASE insn.op \in ILOAD..ALOAD_3 -> "variable"
    [] insn.op = ACONST_NULL      -> "constant"
    [] insn.op = GETFIELD         -> "instance field"
    [] insn.op = GETSTATIC        -> "static field"
    [] insn.op \in Invoke         -> "object returned"

\* Variants: a branch of traceDetailedCause missing, for aconst_null ...
NameableButConstant(insn) ==
  \/ insn.op \in ILOAD..ALOAD_3 \cup {GETFIELD, GETSTATIC}
  \/ insn.op \in Invoke /\ insn.type # "void"

\* ... and for getfield.
NameableButField(insn) ==
  \/ insn.op \in ILOAD..ALOAD_3 \cup {ACONST_NULL, GETSTATIC}
  \/ insn.op \in Invoke /\ insn.type # "void"

Nameable(insn) ==
  \/ insn.op \in ILOAD..ALOAD_3 \cup {ACONST_NULL, GETFIELD, GETSTATIC}
  \/ insn.op \in Invoke /\ insn.type # "void"

\* describeNPEInstruction: the depth at which it expects the null.  Of an
\* invokedynamic, which it would refuse, the JVM reports no NPE; nor does any other
\* instruction get to its last branch, "[Unknown NPE cause]", which traces nothing.
StartExcess(insn) ==
  CASE insn.op \in Invoke ->
         IF insn.name = "requireNonNull" THEN 0 ELSE insn.n
    [] insn.op = PUTFIELD -> 1
    [] insn.op \in IASTORE..SASTORE ->
         IF insn.op \in {LASTORE, DASTORE} THEN 3 ELSE 2
    [] insn.op \in IALOAD..SALOAD -> 1
    [] OTHER -> 0

-----------------------------------------------------------------------------
Init ==
  /\ code = <<>>
  /\ frames = << <<>> >>
  /\ phase = "running"
  /\ fault = NoInsn
  /\ origin = 0
  /\ ins = 0
  /\ stackExcess = 0
  /\ verdict = NoVerdict

(* The JVM.                                                                *)

Falls(op) == op \notin {168, 169, ATHROW, 201} \cup 172..177

CanRun(insn) ==
  /\ Pops(insn) <= Len(Stack)
  /\ Dereferences(insn) => /\ SlotAt(Stack, NullDepth(insn)).ref
                           /\ code[SlotAt(Stack, NullDepth(insn)).at].op # ACONST_NULL

Execute(insn) ==
  /\ phase = "running"
  /\ Len(code) < MaxCode
  /\ Falls(insn.op)
  /\ CanRun(insn)
  /\ Len(After(Stack, insn, Len(code) + 1)) <= MaxStack
  /\ code' = Append(code, insn)
  /\ frames' = Append(frames, After(Stack, insn, Len(code) + 1))
  /\ UNCHANGED <<phase, fault, origin>>
  /\ UNCHANGED agentVars

\* c ? a : b, laid out as ifeq, a, goto, b, of which one arm runs.
Conditional(a, b) ==
  LET p == Len(code)
      base == After(Stack, Test, p + 1)
      first == After(base, a, p + 2)
      second == After(base, b, p + 4)
  IN  /\ phase = "running"
      /\ p + 4 <= MaxCode
      /\ Stack # <<>> /\ ~SlotAt(Stack, 0).ref
      /\ Pops(a) = 0 /\ Pops(b) = 0
      /\ Pushes(a) = Pushes(b) /\ MakesRef(a) = MakesRef(b)
      /\ Len(first) <= MaxStack
      /\ code' = code \o <<Test, a, Skip, b>>
      /\ \E join \in {first, second} :
           frames' = frames \o <<base, first, base, join>>
      /\ UNCHANGED <<phase, fault, origin>>
      /\ UNCHANGED agentVars

\* The instruction meets a null: the JVM throws an NPE with no message.
Fault(insn) ==
  /\ phase = "running"
  /\ Dereferences(insn)
  /\ Pops(insn) <= Len(Stack)
  /\ LET slot == SlotAt(Stack, NullDepth(insn))
     IN  /\ slot.ref
         /\ MakesNullable(code[slot.at])
         /\ origin' = slot.at
  /\ phase' = "faulted"
  /\ fault' = insn
  /\ UNCHANGED <<code, frames>>
  /\ UNCHANGED agentVars

\* The program throws, or throws again, an NPE that has no message: the
\* instruction is an athrow, and nothing is null.
Throw(insn) ==
  /\ phase = "running"
  /\ insn.op = ATHROW
  /\ CanRun(insn)
  /\ phase' = "faulted"
  /\ fault' = insn
  /\ origin' = 0
  /\ UNCHANGED <<code, frames>>
  /\ UNCHANGED agentVars

(* The agent.                                                              *)

\* Variant: the instruction that threw counted among those before it.
DescribeOneMore ==
  /\ phase = "faulted"
  /\ phase' = "tracing"
  /\ ins' = Len(code) + 1
  /\ stackExcess' = StartExcess(fault)
  /\ UNCHANGED verdict
  /\ UNCHANGED jvmVars

Describe ==
  /\ phase = "faulted"
  /\ phase' = "tracing"
  /\ ins' = Len(code)
  /\ stackExcess' = StartExcess(fault)
  /\ UNCHANGED verdict
  /\ UNCHANGED jvmVars

Looking == phase = "tracing" /\ stackExcess >= 0 /\ ins # 0

\* Variant: the delta of a shuffle taken at the top, not at the slot followed.
ExcessBelowTop == stackExcess - StackDelta(code[ins], 0)

ExcessBelow == stackExcess - StackDelta(code[ins], stackExcess)

\* Variant: any instruction that leaves an excess of 0.
StopsAtZero == ExcessBelow <= 0

Stops == \/ ExcessBelow < 0
         \/ ExcessBelow = 0 /\ StackDelta(code[ins], stackExcess) = 0

TracePass ==
  /\ Looking
  /\ ~Unsupported(code[ins])
  /\ ~(Stops /\ Nameable(code[ins]))
  /\ ins' = ins - 1
  /\ stackExcess' = ExcessBelow
  /\ UNCHANGED <<phase, verdict>>
  /\ UNCHANGED jvmVars

TraceFound ==
  /\ Looking
  /\ ~Unsupported(code[ins])
  /\ Stops
  /\ Nameable(code[ins])
  /\ ins' = ins - 1
  /\ stackExcess' = ExcessBelow
  /\ verdict' = [label |-> LabelOf(code[ins]), at |-> ins]
  /\ phase' = "done"
  /\ UNCHANGED jvmVars

\* getStackDelta throws InvalidArgument: there will be no message.
TraceThrow ==
  /\ Looking
  /\ Unsupported(code[ins])
  /\ ins' = ins - 1
  /\ phase' = "aborted"
  /\ UNCHANGED <<stackExcess, verdict>>
  /\ UNCHANGED jvmVars

\* Variant: the loop ends on the excess only.
TraceGiveUpBelow ==
  /\ phase = "tracing"
  /\ stackExcess < 0
  /\ verdict' = [label |-> "UNKNOWN", at |-> 0]
  /\ phase' = "done"
  /\ UNCHANGED <<ins, stackExcess>>
  /\ UNCHANGED jvmVars

TraceGiveUp ==
  /\ phase = "tracing"
  /\ ~Looking
  /\ verdict' = [label |-> "UNKNOWN", at |-> 0]
  /\ phase' = "done"
  /\ UNCHANGED <<ins, stackExcess>>
  /\ UNCHANGED jvmVars

Jvm ==
  \E insn \in Insns :
    \/ Execute(insn)
    \/ \E other \in Insns : Conditional(insn, other)
    \/ Fault(insn)
    \/ Throw(insn)

Agent == Describe \/ TracePass \/ TraceFound \/ TraceThrow \/ TraceGiveUp

Next == Jvm \/ Agent

\* The callback runs to its end in the thread that threw: its steps are not
\* delayed forever.  Nothing makes the program throw.
Spec == Init /\ [][Next]_vars /\ WF_vars(Agent)
-----------------------------------------------------------------------------
(* Properties.                                                             *)

TypeOK ==
  /\ code \in Seq(Insns \cup {Test, Skip})
  /\ frames \in Seq(Seq(Slot))
  /\ Len(frames) = Len(code) + 1
  /\ phase \in Phase
  /\ fault \in Insns \cup {NoInsn}
  /\ origin \in 0..Len(code)
  /\ ins \in 0..Len(code)
  /\ stackExcess \in Int
  /\ verdict \in [label : Label, at : 0..Len(code)]

\* What the walk needs of a method to be right.  Each is a place where the
\* code's arithmetic and the JVM's stack part ways; the README says how.

\* The depth it starts from is the null's.
StartsRight == StartExcess(fault) = NullDepth(fault)

\* The instruction left on the stack what the next one in the layout finds:
\* nothing jumps between the two with another stack.
Straight(i) == frames[i + 1] = After(frames[i], code[i], i)

\* It is not a call that returns a long or a double, which counts as one slot.
OneSlotResult(i) == ~(code[i].op \in Invoke /\ code[i].type = "wide")

\* The null was made in place of at most one slot: not by an aaload nor by a
\* call that takes a receiver and arguments.
SimpleOrigin == origin # 0 /\ Pops(code[origin]) <= 1

Followable ==
  /\ StartsRight
  /\ SimpleOrigin
  /\ \A i \in (ins + 1)..Len(code) : Straight(i) /\ OneSlotResult(i)

\* While the walk of traceDetailedCause goes on, the slot at depth
\* stackExcess, before the last instruction it looked at, holds the very null
\* that was dereferenced: through every copy and exchange of the dup family,
\* the calls, the field and array accesses, none of its deltas loses it.
WatchesTheNull ==
  phase = "tracing" /\ Followable /\ stackExcess >= 0 =>
    /\ stackExcess < Len(frames[ins + 1])
    /\ SlotAt(frames[ins + 1], stackExcess) = [at |-> origin, ref |-> TRUE]

Named == phase = "done" /\ verdict.label # "UNKNOWN"

\* The message names the expression that was null, and never another.
BlamesOrigin ==
  Named /\ Followable => verdict = [label |-> LabelOf(code[origin]), at |-> origin]

\* "UNKNOWN" is said only of a null that a dup had just copied: the delta of
\* DUP is a constant of the table and takes the walk above the stack.
UnknownOnlyAtDup ==
  phase = "done" /\ Followable /\ ~Named => code[ins + 1].op = DUP

\* The walk does not go past the instruction that made the null, to name or
\* to choke on code the null has nothing to do with.
NeverOvershoots ==
  phase \in {"tracing", "done", "aborted"} /\ Followable => ins >= origin - 1

\* The callback's analysis comes to an end for every method.
Terminates == phase = "faulted" ~> phase \in {"done", "aborted"}

-----------------------------------------------------------------------------
(* The inductive invariant.                                                *)

\* Every instruction has the operands it pops, and every slot was made by an
\* instruction before.
LaidOut ==
  /\ \A i \in 1..Len(code) : Pops(code[i]) <= Len(frames[i])
  /\ \A i \in 1..Len(frames) : \A d \in 1..Len(frames[i]) :
       frames[i][d].at \in 1..(i - 1)

\* The null is where the faulting instruction looks for it.
NullInPlace ==
  phase # "running" /\ origin # 0 =>
    /\ MakesNullable(code[origin])
    /\ NullDepth(fault) \in 0..(Len(Stack) - 1)
    /\ SlotAt(Stack, NullDepth(fault)) = [at |-> origin, ref |-> TRUE]

\* The walk can lose the slot only at a dup.
LostAtDup ==
  phase = "tracing" /\ Followable /\ stackExcess < 0 =>
    ins < Len(code) /\ code[ins + 1].op = DUP

IInv == /\ TypeOK /\ LaidOut /\ NullInPlace
        /\ WatchesTheNull /\ LostAtDup
        /\ BlamesOrigin /\ UnknownOnlyAtDup /\ NeverOvershoots

-----------------------------------------------------------------------------
(* Claims the program's texts make without those conditions.               *)

\* Readme.md, "Why is it useful?": the message is there for the line with
\* several calls chained on it.  Whatever the method, a named cause is the
\* null's.
NamesTheNullOrigin == Named /\ origin # 0 => verdict.at = origin

\* exceptionCallback.cpp: a failed implicit requireNonNull is analysed in the
\* frame that called it, so that its argument is named.
ExplainsRequireNonNull ==
  phase = "done" /\ fault.name = "requireNonNull" => Named

\* A message that says "Throwing null" is about an athrow whose operand was
\* null.
ThrowingNullIsTrue == Named /\ fault.op = ATHROW => origin # 0
=============================================================================
