--------------------------- MODULE Analyzer_proofs ---------------------------
(***************************************************************************)
(* Theorems about Analyzer, for every set of instructions and every bound. *)
(***************************************************************************)
EXTENDS Analyzer, TLAPS

-----------------------------------------------------------------------------
(* The instructions.                                                       *)

\* The form of a shuffle names slots that it takes.
LEMMA FormType ==
  ASSUME NEW op \in ShuffleOp
  PROVE  /\ Taken(op) \in 1..4
         /\ Form(op) \in Seq(Nat)
         /\ \A j \in 1..Len(Form(op)) : Form(op)[j] \in 0..(Taken(op) - 1)
<1> USE DEF ShuffleOp, DUP, SWAP, CHECKCAST, DUP_X1, DUP_X2, DUP2, DUP2_X1,
            DUP2_X2
<1>1. op \in {DUP, DUP_X1, DUP_X2, DUP2, DUP2_X1, DUP2_X2, SWAP, CHECKCAST}
  BY SMT
<1>2. CASE op = DUP       BY <1>2, SMT DEF Taken, Form
<1>3. CASE op = DUP_X1    BY <1>3, SMT DEF Taken, Form
<1>4. CASE op = DUP_X2    BY <1>4, SMT DEF Taken, Form
<1>5. CASE op = DUP2      BY <1>5, SMT DEF Taken, Form
<1>6. CASE op = DUP2_X1   BY <1>6, SMT DEF Taken, Form
<1>7. CASE op = DUP2_X2   BY <1>7, SMT DEF Taken, Form
<1>8. CASE op = SWAP      BY <1>8, SMT DEF Taken, Form
<1>9. CASE op = CHECKCAST BY <1>9, SMT DEF Taken, Form
<1> QED BY <1>1, <1>2, <1>3, <1>4, <1>5, <1>6, <1>7, <1>8, <1>9

\* What an instruction pops and pushes are numbers of slots.
LEMMA SlotCounts ==
  ASSUME NEW insn \in Insn
  PROVE  Pops(insn) \in Nat /\ Pushes(insn) \in Nat
<1>1. insn.op \in Int /\ insn.n \in Nat BY DEF Insn, OpCode
<1>2. Size(insn.type) \in Nat BY DEF Size
<1>3. Pops1(insn.op) \in Nat /\ Pushes1(insn.op) \in Nat BY DEF Pops1, Pushes1
<1>4. Receiver(insn.op) \in Nat BY DEF Receiver
<1>5. insn.op \in ShuffleOp => /\ Taken(insn.op) \in Nat
                              /\ Len(Form(insn.op)) \in Nat
  BY FormType
<1>6. Pops(insn) \in Nat BY <1>1, <1>2, <1>3, <1>4, <1>5 DEF Pops
<1>7. Pushes(insn) \in Nat BY <1>1, <1>2, <1>3, <1>5 DEF Pushes
<1> QED BY <1>6, <1>7

\* A shuffle's counts are those of its form.
LEMMA ShuffleCounts ==
  ASSUME NEW insn \in Insn, insn.op \in ShuffleOp
  PROVE  Pops(insn) = Taken(insn.op) /\ Pushes(insn) = Len(Form(insn.op))
<1>1. /\ insn.op \notin Invoke \cup {INVOKEDYNAMIC, MULTIANEWARRAY}
      /\ insn.op \notin {GETSTATIC, PUTSTATIC, GETFIELD, PUTFIELD}
  BY SMT DEF ShuffleOp, Invoke, DUP, SWAP, CHECKCAST, INVOKEVIRTUAL,
         INVOKEINTERFACE, INVOKEDYNAMIC, MULTIANEWARRAY, GETSTATIC, PUTSTATIC,
         GETFIELD, PUTFIELD
<1>2. Pops(insn) = Taken(insn.op) BY <1>1, Zenon DEF Pops
<1>3. Pushes(insn) = Len(Form(insn.op)) BY <1>1, Zenon DEF Pushes
<1> QED BY <1>2, <1>3

\* The stack after an instruction: its height, and where its slots are from.
LEMMA AfterShape ==
  ASSUME NEW insn \in Insn, NEW stack \in Seq(Slot), NEW p \in Nat,
         Pops(insn) <= Len(stack)
  PROVE  /\ After(stack, insn, p) \in Seq(Slot)
         /\ Len(After(stack, insn, p)) = Len(stack) - Pops(insn) + Pushes(insn)
         /\ \A i \in 1..Len(After(stack, insn, p)) :
              \/ \E j \in 1..Len(stack) : After(stack, insn, p)[i] = stack[j]
              \/ After(stack, insn, p)[i] = [at |-> p, ref |-> MakesRef(insn)]
<1> DEFINE rest == Len(stack) - Pops(insn)
           Made(i) == IF insn.op \in ShuffleOp
                      THEN SlotAt(stack, Form(insn.op)[i - rest])
                      ELSE [at |-> p, ref |-> MakesRef(insn)]
           new == [i \in 1..(rest + Pushes(insn)) |->
                     IF i <= rest THEN stack[i] ELSE Made(i)]
<1>1. After(stack, insn, p) = new BY DEF After
<1>2. rest \in Nat /\ Pops(insn) \in Nat /\ Pushes(insn) \in Nat
  BY SlotCounts
<1>3. MakesRef(insn) \in BOOLEAN BY DEF MakesRef
<1>4. ASSUME NEW i \in 1..(rest + Pushes(insn))
      PROVE  \/ \E j \in 1..Len(stack) : new[i] = stack[j]
             \/ new[i] = [at |-> p, ref |-> MakesRef(insn)]
  <2>1. CASE i <= rest
    <3>1. i \in 1..Len(stack) BY <1>2, <2>1
    <3>2. new[i] = stack[i] BY <2>1
    <3> QED BY <3>1, <3>2
  <2>2. CASE ~(i <= rest) /\ insn.op \notin ShuffleOp
    BY <2>2
  <2>3. CASE ~(i <= rest) /\ insn.op \in ShuffleOp
    <3>1. i - rest \in 1..Len(Form(insn.op)) BY <1>2, <2>3, ShuffleCounts
    <3>2. Form(insn.op)[i - rest] \in 0..(Pops(insn) - 1)
      BY <2>3, <3>1, FormType, ShuffleCounts
    <3>3. Len(stack) - Form(insn.op)[i - rest] \in 1..Len(stack)
      BY <1>2, <3>2
    <3>4. new[i] = stack[Len(stack) - Form(insn.op)[i - rest]]
      BY <2>3 DEF SlotAt
    <3> QED BY <3>3, <3>4
  <2> QED BY <2>1, <2>2, <2>3
<1>5. \A i \in 1..(rest + Pushes(insn)) : new[i] \in Slot
  <2>1. \A j \in 1..Len(stack) : stack[j] \in Slot OBVIOUS
  <2>2. [at |-> p, ref |-> MakesRef(insn)] \in Slot BY <1>3 DEF Slot
  <2> QED BY <1>4, <2>1, <2>2
<1>6. new \in Seq(Slot) /\ Len(new) = rest + Pushes(insn)
  <2> HIDE DEF Made
  <2>1. new \in [1..(rest + Pushes(insn)) -> Slot] BY <1>5
  <2>2. rest + Pushes(insn) \in Nat BY <1>2
  <2> QED BY <2>1, <2>2
<1> QED BY <1>1, <1>4, <1>6

\* Where the slot at depth e, after an instruction, was before it.
Source(insn, e) ==
  IF e < Pushes(insn) THEN Form(insn.op)[Pushes(insn) - e]
                      ELSE e - Pushes(insn) + Pops(insn)

\* A slot was made by the instruction, or was at depth Source before it.
LEMMA AfterSource ==
  ASSUME NEW insn \in Insn, NEW stack \in Seq(Slot), NEW p \in Nat,
         Pops(insn) <= Len(stack),
         NEW e \in Nat, e < Len(After(stack, insn, p))
  PROVE  /\ insn.op \notin ShuffleOp /\ e < Pushes(insn) =>
              SlotAt(After(stack, insn, p), e) = [at |-> p, ref |-> MakesRef(insn)]
         /\ insn.op \in ShuffleOp \/ e >= Pushes(insn) =>
              /\ Source(insn, e) \in 0..(Len(stack) - 1)
              /\ SlotAt(After(stack, insn, p), e) = SlotAt(stack, Source(insn, e))
<1> DEFINE rest == Len(stack) - Pops(insn)
           Made(i) == IF insn.op \in ShuffleOp
                      THEN SlotAt(stack, Form(insn.op)[i - rest])
                      ELSE [at |-> p, ref |-> MakesRef(insn)]
           new == [i \in 1..(rest + Pushes(insn)) |->
                     IF i <= rest THEN stack[i] ELSE Made(i)]
           k == rest + Pushes(insn) - e
<1>1. After(stack, insn, p) = new BY DEF After
<1>2. rest \in Nat /\ Pops(insn) \in Nat /\ Pushes(insn) \in Nat
  BY SlotCounts
<1>3. Len(After(stack, insn, p)) = rest + Pushes(insn) BY AfterShape
<1>4. k \in 1..(rest + Pushes(insn)) BY <1>2, <1>3
<1>5. SlotAt(After(stack, insn, p), e) = new[k]
  <2>1. Len(After(stack, insn, p)) - e = k BY <1>2, <1>3
  <2>2. SlotAt(After(stack, insn, p), e) = After(stack, insn, p)[k]
    BY <2>1, Zenon DEF SlotAt
  <2> QED BY <1>1, <2>2, Zenon
<1>6. CASE e >= Pushes(insn)
  <2>1. k <= rest BY <1>2, <1>6
  <2>2. new[k] = stack[k] BY <1>4, <2>1
  <2>3. Source(insn, e) = e - Pushes(insn) + Pops(insn)
    BY <1>2, <1>6 DEF Source
  <2>4. Source(insn, e) \in 0..(Len(stack) - 1)
    BY <1>2, <1>4, <1>6, <2>1, <2>3, SMTT(20)
  <2>5. Len(stack) - Source(insn, e) = k BY <1>2, <2>3
  <2>6. SlotAt(stack, Source(insn, e)) = stack[k] BY <2>5 DEF SlotAt
  <2>7. ~(e < Pushes(insn)) BY <1>2, <1>6
  <2> QED BY <1>5, <2>2, <2>4, <2>6, <2>7
<1>7. CASE e < Pushes(insn) /\ insn.op \notin ShuffleOp
  <2>1. ~(k <= rest) BY <1>2, <1>7
  <2>2. new[k] = [at |-> p, ref |-> MakesRef(insn)] BY <1>4, <1>7, <2>1
  <2>3. ~(e >= Pushes(insn)) BY <1>2, <1>7
  <2> QED BY <1>5, <1>7, <2>2, <2>3
<1>8. CASE e < Pushes(insn) /\ insn.op \in ShuffleOp
  <2>1. ~(k <= rest) /\ k - rest = Pushes(insn) - e BY <1>2, <1>8
  <2>2. new[k] = SlotAt(stack, Form(insn.op)[Pushes(insn) - e])
    BY <1>4, <1>8, <2>1
  <2>3. Source(insn, e) = Form(insn.op)[Pushes(insn) - e] BY <1>8 DEF Source
  <2>4. Pushes(insn) - e \in 1..Len(Form(insn.op))
    BY <1>2, <1>8, ShuffleCounts
  <2>5. Source(insn, e) \in 0..(Pops(insn) - 1)
    BY <1>8, <2>3, <2>4, FormType, ShuffleCounts
  <2>6. Source(insn, e) \in 0..(Len(stack) - 1) BY <1>2, <2>5
  <2> QED BY <1>5, <1>8, <2>2, <2>3, <2>6
<1> QED BY <1>2, <1>6, <1>7, <1>8

\* The table gives dup and checkcast one delta, whatever the depth.
LEMMA TableShuffle ==
  ASSUME NEW insn \in Insn, insn.op \in {DUP, CHECKCAST}, NEW e \in Nat
  PROVE  StackDelta(insn, e) = Len(Form(insn.op)) - Taken(insn.op)
<1> DEFINE op == insn.op
<1>1. op \in OpCode BY DEF Insn
<1>2. op \notin DUP_X1..SWAP /\ op \notin 172..186 /\ op \in ShuffleOp
  BY SMT DEF DUP, CHECKCAST, DUP_X1, SWAP, ShuffleOp
<1>3. ~Marked(op)
  <2>1. op \notin DUP_X1..SWAP \cup {168, 169} \cup 172..186 \cup 196..197
                    \cup 200..201
    BY <1>2, SMT DEF DUP, CHECKCAST
  <2> QED BY <1>1, <2>1, TableAssumption, Zenon
<1>4. StackDelta(insn, e) = TableDelta(op)
  <2>1. op \notin Invoke \cup FieldOp /\ op # MULTIANEWARRAY
    BY SMT DEF Invoke, FieldOp, MULTIANEWARRAY, DUP, CHECKCAST,
             INVOKEVIRTUAL, INVOKEINTERFACE, GETSTATIC, PUTFIELD
  <2> QED BY <1>2, <1>3, <2>1, Zenon DEF StackDelta
<1>5. TableDelta(op) = Len(Form(op)) - Taken(op)
  BY <1>1, <1>2, <1>3, TableAssumption
<1> QED BY <1>4, <1>5

\* Except on the copy a dup has on top, getStackDelta leads to the source.
LEMMA ShuffleStep ==
  ASSUME NEW insn \in Insn, insn.op \in ShuffleOp, NEW e \in Nat,
         ~(insn.op = DUP /\ e = 0)
  PROVE  e - StackDelta(insn, e) = Source(insn, e)
<1> DEFINE op == insn.op
<1>1. /\ Pops(insn) = Taken(op)
      /\ Pushes(insn) = Len(Form(op))
  BY ShuffleCounts
<1>2. op \in {DUP, DUP_X1, DUP_X2, DUP2, DUP2_X1, DUP2_X2, SWAP, CHECKCAST}
  BY SMT DEF ShuffleOp, DUP, SWAP, CHECKCAST, DUP_X1, DUP_X2, DUP2, DUP2_X1,
             DUP2_X2
<1>3. CASE op \in {DUP, CHECKCAST}
  <2>1. StackDelta(insn, e) = Len(Form(op)) - Taken(op) BY <1>3, TableShuffle
  <2> QED
    BY <1>1, <1>3, <2>1, SMT DEF Source, Form, Taken, DUP, CHECKCAST, SWAP,
             DUP_X1, DUP2, DUP_X2, DUP2_X1
<1>4. CASE op \notin {DUP, CHECKCAST}
  <2>1. op \in DUP_X1..SWAP
    BY <1>2, <1>4, SMT DEF DUP_X1, DUP_X2, DUP2, DUP2_X1, DUP2_X2, SWAP
  <2>2. Marked(op)
    <3>1. op \in OpCode BY DEF Insn
    <3> QED BY <2>1, <3>1, TableAssumption
  <2>3. op \notin Invoke \cup FieldOp /\ op # MULTIANEWARRAY
    BY <2>1, SMT DEF Invoke, FieldOp, MULTIANEWARRAY, DUP_X1, SWAP, GETSTATIC,
             PUTFIELD, INVOKEVIRTUAL, INVOKEINTERFACE
  <2>4. StackDelta(insn, e) = ShuffleDelta(op, e)
    BY <2>1, <2>2, <2>3, Zenon DEF StackDelta
  <2> HIDE DEF op
  <2>5. Source(insn, e) = IF e < Len(Form(op)) THEN Form(op)[Len(Form(op)) - e]
                          ELSE e - Len(Form(op)) + Taken(op)
    BY <1>1 DEF Source, op
  <2> USE DEF DUP, DUP_X1, DUP_X2, DUP2, DUP2_X1, DUP2_X2, SWAP, CHECKCAST
  <2>6. CASE op = DUP_X1
    BY <2>4, <2>5, <2>6, SMT DEF ShuffleDelta, Form, Taken
  <2>7. CASE op = DUP_X2
    BY <2>4, <2>5, <2>7, SMT DEF ShuffleDelta, Form, Taken
  <2>8. CASE op = DUP2
    BY <2>4, <2>5, <2>8, SMT DEF ShuffleDelta, Form, Taken
  <2>9. CASE op = DUP2_X1
    BY <2>4, <2>5, <2>9, SMT DEF ShuffleDelta, Form, Taken
  <2>10. CASE op = DUP2_X2
    BY <2>4, <2>5, <2>10, SMT DEF ShuffleDelta, Form, Taken
  <2>11. CASE op = SWAP
    BY <2>4, <2>5, <2>11, SMT DEF ShuffleDelta, Form, Taken
  <2> QED BY <1>2, <1>4, <2>6, <2>7, <2>8, <2>9, <2>10, <2>11
<1> QED BY <1>3, <1>4

\* For any other instruction it is what is pushed less what is popped.
LEMMA PlainStep ==
  ASSUME NEW insn \in Insn, insn.op \notin ShuffleOp, NEW e \in Nat,
         ~Unsupported(insn), ~(insn.op \in Invoke /\ insn.type = "wide")
  PROVE  StackDelta(insn, e) = Pushes(insn) - Pops(insn)
<1> DEFINE op == insn.op
<1>1. op \in OpCode /\ insn.n \in Nat BY DEF Insn
<1>2. insn.type \in {"void", "word", "wide", "ref"} BY DEF Insn
<1>3. op \notin DUP..SWAP BY DEF ShuffleOp
<1>4. CASE ~Marked(op)
  <2>1. /\ op \notin Invoke \cup {INVOKEDYNAMIC, MULTIANEWARRAY}
        /\ op \notin {GETSTATIC, PUTSTATIC, GETFIELD, PUTFIELD}
    BY <1>1, <1>4, TableAssumption, SMT
       DEF Invoke, INVOKEVIRTUAL, INVOKEINTERFACE, INVOKEDYNAMIC,
           MULTIANEWARRAY, GETSTATIC, PUTSTATIC, GETFIELD, PUTFIELD
  <2>2. Pushes(insn) = Pushes1(op) /\ Pops(insn) = Pops1(op)
    BY <2>1, Zenon DEF Pushes, Pops
  <2>3. op # DUP BY <1>3, SMT DEF DUP, SWAP
  <2>4. TableDelta(op) = Pushes1(op) - Pops1(op)
    BY <1>1, <1>4, <2>3, TableAssumption
  <2>5. StackDelta(insn, e) = TableDelta(op)
    <3>1. op \notin Invoke /\ op # MULTIANEWARRAY BY <2>1
    <3>2. op \notin FieldOp
      BY <1>1, <1>4, TableAssumption, SMT DEF FieldOp, GETSTATIC, PUTFIELD
    <3>3. op \notin DUP_X1..SWAP BY <1>3, SMT DEF DUP, DUP_X1, SWAP
    <3> QED BY <1>4, <3>1, <3>2, <3>3, Zenon DEF StackDelta
  <2> QED BY <2>2, <2>4, <2>5
<1>5. CASE Marked(op) /\ op \in Invoke
  <2>1. /\ op \notin FieldOp /\ op # MULTIANEWARRAY /\ op \notin DUP_X1..SWAP
        /\ op \in Int /\ op \notin {GETSTATIC, PUTSTATIC, GETFIELD, PUTFIELD, INVOKEDYNAMIC}
    BY <1>5, SMT DEF Invoke, INVOKEVIRTUAL, INVOKEINTERFACE, FieldOp, GETSTATIC,
       PUTFIELD, MULTIANEWARRAY, DUP_X1, SWAP, PUTSTATIC, GETFIELD, INVOKEDYNAMIC
  <2>2. StackDelta(insn, e) = InvokeDelta(insn)
    BY <1>5, <2>1, Zenon DEF StackDelta
  <2>3. Pops(insn) = insn.n + Receiver(op) BY <1>5, <2>1, Zenon DEF Pops
  <2>4. Pushes(insn) = Size(insn.type) BY <1>5, <2>1, Zenon DEF Pushes
  <2>5. Receiver(op) = IF op = INVOKESTATIC THEN 0 ELSE 1
    BY <2>1 DEF Receiver
  <2>6. Size(insn.type) = IF insn.type # "void" THEN 1 ELSE 0
    BY <1>2, <1>5 DEF Size
  <2> QED BY <1>1, <2>2, <2>3, <2>4, <2>5, <2>6 DEF InvokeDelta
<1>6. CASE Marked(op) /\ op = MULTIANEWARRAY
  <2>1. op \notin FieldOp \cup Invoke \cup DUP_X1..SWAP \cup {GETSTATIC, PUTSTATIC, GETFIELD, PUTFIELD, INVOKEDYNAMIC}
    BY <1>6, SMT DEF Invoke, INVOKEVIRTUAL, INVOKEINTERFACE, FieldOp, GETSTATIC,
       PUTFIELD, MULTIANEWARRAY, DUP_X1, SWAP, PUTSTATIC, GETFIELD, INVOKEDYNAMIC
  <2>2. StackDelta(insn, e) = 1 - insn.n BY <1>6, <2>1, Zenon DEF StackDelta
  <2>3. Pops(insn) = insn.n BY <1>6, <2>1, Zenon DEF Pops
  <2>4. Pushes(insn) = Pushes1(op) BY <1>6, <2>1, Zenon DEF Pushes
  <2>5. Pushes1(op) = 1
    BY <1>6, SMT DEF Pushes1, PushesNone, PushesTwo, MULTIANEWARRAY
  <2> QED BY <2>2, <2>3, <2>4, <2>5
<1>7. CASE Marked(op) /\ op \in FieldOp
  <2>1. op \in {GETSTATIC, PUTSTATIC, GETFIELD, PUTFIELD} /\ op \notin Invoke
        /\ op # MULTIANEWARRAY /\ op # INVOKEDYNAMIC /\ op \notin DUP_X1..SWAP
    BY <1>1, <1>7, SMT DEF OpCode, FieldOp, GETSTATIC, PUTSTATIC, GETFIELD, PUTFIELD,
       Invoke, INVOKEVIRTUAL, INVOKEINTERFACE, MULTIANEWARRAY, INVOKEDYNAMIC,
       DUP_X1, SWAP
  <2>2. StackDelta(insn, e) = FieldDelta(insn)
    BY <1>7, <2>1, Zenon DEF StackDelta
  <2>3. Size(insn.type) = IF insn.type = "wide" THEN 2 ELSE 1
    <3>1. insn.type # "void" BY <1>7 DEF Insn, FieldOp
    <3> QED BY <1>2, <3>1 DEF Size
  <2>4. /\ GETSTATIC # PUTSTATIC /\ GETSTATIC # GETFIELD /\ GETSTATIC # PUTFIELD
        /\ PUTSTATIC # GETFIELD /\ PUTSTATIC # PUTFIELD /\ GETFIELD # PUTFIELD
    BY DEF GETSTATIC, PUTSTATIC, GETFIELD, PUTFIELD
  <2>5. Size(insn.type) \in Nat BY <2>3
  <2> DEFINE z == Size(insn.type)
  <2>6. CASE op = GETSTATIC
    <3>1. Pops(insn) = 0 /\ Pushes(insn) = z
      BY <1>3, <2>1, <2>4, <2>6, Zenon DEF Pops, Pushes
    <3>2. FieldDelta(insn) = z BY <2>3, <2>4, <2>6, Zenon DEF FieldDelta
    <3> QED BY <2>2, <2>5, <3>1, <3>2
  <2>7. CASE op = PUTSTATIC
    <3>1. Pops(insn) = z /\ Pushes(insn) = 0
      BY <1>3, <2>1, <2>4, <2>7, Zenon DEF Pops, Pushes
    <3>2. FieldDelta(insn) = -z BY <2>3, <2>4, <2>7, Zenon DEF FieldDelta
    <3> QED BY <2>2, <2>5, <3>1, <3>2
  <2>8. CASE op = GETFIELD
    <3>1. Pops(insn) = 1 /\ Pushes(insn) = z
      BY <1>3, <2>1, <2>4, <2>8, Zenon DEF Pops, Pushes
    <3>2. FieldDelta(insn) = -1 + z BY <2>3, <2>4, <2>8, Zenon DEF FieldDelta
    <3> QED BY <2>2, <2>5, <3>1, <3>2
  <2>9. CASE op = PUTFIELD
    <3>1. Pops(insn) = 1 + z /\ Pushes(insn) = 0
      BY <1>3, <2>1, <2>4, <2>9, Zenon DEF Pops, Pushes
    <3>2. FieldDelta(insn) = -1 - z BY <2>3, <2>4, <2>9, Zenon DEF FieldDelta
    <3> QED BY <2>2, <2>5, <3>1, <3>2
  <2> QED BY <2>1, <2>6, <2>7, <2>8, <2>9
<1>8. Marked(op) => op \in Invoke \cup {MULTIANEWARRAY} \cup FieldOp
  <2>1. op \notin DUP_X1..SWAP BY <1>3, SMT DEF DUP, DUP_X1, SWAP
  <2> QED BY <2>1 DEF Unsupported
<1> QED BY <1>4, <1>5, <1>6, <1>7, <1>8

-----------------------------------------------------------------------------
(* Type correctness, with what it needs of the layout.                     *)

\* The instructions of a method are instructions.
LEMMA CodeInsns == Insns \cup {Test, Skip} \subseteq Insn
<1>1. Test \in Insn
  BY SMT DEF Test, Insn, OpCode, WIDE, IFEQ, GETSTATIC, PUTFIELD
<1>2. Skip \in Insn
  BY SMT DEF Skip, Insn, OpCode, WIDE, GOTO, GETSTATIC, PUTFIELD
<1> QED BY <1>1, <1>2, InsnsAssumption

\* An instruction that throws on a null pops at least the null.
LEMMA DereferencePops ==
  ASSUME NEW insn \in Insn, Dereferences(insn)
  PROVE  Pops(insn) >= 1
<1> DEFINE op == insn.op
<1>1. insn.n \in Nat /\ Size(insn.type) \in Nat BY DEF Insn, Size
<1> DEFINE others == Invoke \cup {INVOKEDYNAMIC, MULTIANEWARRAY, GETSTATIC,
                                  PUTSTATIC, GETFIELD, PUTFIELD}
<1>2. op \notin ShuffleOp
  BY SMT DEF Dereferences, ShuffleOp, DUP, SWAP, CHECKCAST, IALOAD, SALOAD, IASTORE, SASTORE, GETFIELD, PUTFIELD,
           ARRAYLENGTH, ATHROW, MONITORENTER, MONITOREXIT, Invoke, INVOKEVIRTUAL,
           INVOKEINTERFACE, INVOKESTATIC, INVOKEDYNAMIC, MULTIANEWARRAY,
           GETSTATIC, PUTSTATIC
<1>3. CASE op \in Invoke
  <2>1. /\ op \notin {INVOKEDYNAMIC, MULTIANEWARRAY}
        /\ op \notin {GETSTATIC, PUTSTATIC, GETFIELD, PUTFIELD}
    BY <1>3, SMT DEF IALOAD, SALOAD, IASTORE, SASTORE, GETFIELD, PUTFIELD,
           ARRAYLENGTH, ATHROW, MONITORENTER, MONITOREXIT, Invoke, INVOKEVIRTUAL,
           INVOKEINTERFACE, INVOKESTATIC, INVOKEDYNAMIC, MULTIANEWARRAY,
           GETSTATIC, PUTSTATIC
  <2>2. Pops(insn) = insn.n + Receiver(op) BY <1>2, <1>3, <2>1, Zenon DEF Pops
  <2>3. insn.n + Receiver(op) >= 1
    BY <1>1, <1>3, SMT DEF Dereferences, Receiver, IALOAD, SALOAD, IASTORE, SASTORE, GETFIELD, PUTFIELD,
           ARRAYLENGTH, ATHROW, MONITORENTER, MONITOREXIT, Invoke, INVOKEVIRTUAL,
           INVOKEINTERFACE, INVOKESTATIC, INVOKEDYNAMIC, MULTIANEWARRAY,
           GETSTATIC, PUTSTATIC
  <2> QED BY <2>2, <2>3
<1>4. CASE op \in {GETFIELD, PUTFIELD}
  <2>1. /\ op \notin Invoke \cup {INVOKEDYNAMIC} /\ op # MULTIANEWARRAY
        /\ op # GETSTATIC /\ op # PUTSTATIC /\ GETFIELD # PUTFIELD
    BY <1>4, SMT DEF IALOAD, SALOAD, IASTORE, SASTORE, GETFIELD, PUTFIELD,
           ARRAYLENGTH, ATHROW, MONITORENTER, MONITOREXIT, Invoke, INVOKEVIRTUAL,
           INVOKEINTERFACE, INVOKESTATIC, INVOKEDYNAMIC, MULTIANEWARRAY,
           GETSTATIC, PUTSTATIC
  <2>2. op = GETFIELD => Pops(insn) = 1 BY <1>2, <2>1, Zenon DEF Pops
  <2>3. op = PUTFIELD => Pops(insn) = 1 + Size(insn.type)
    BY <1>2, <2>1, Zenon DEF Pops
  <2> QED BY <1>1, <1>4, <2>2, <2>3
<1>5. CASE op \notin Invoke \cup {GETFIELD, PUTFIELD}
  <2>1. op \in IALOAD..SALOAD \cup IASTORE..SASTORE
                 \cup {ARRAYLENGTH, ATHROW, MONITORENTER, MONITOREXIT}
    BY <1>5, SMT DEF Dereferences, IALOAD, SALOAD, IASTORE, SASTORE, GETFIELD, PUTFIELD,
           ARRAYLENGTH, ATHROW, MONITORENTER, MONITOREXIT, Invoke, INVOKEVIRTUAL,
           INVOKEINTERFACE, INVOKESTATIC, INVOKEDYNAMIC, MULTIANEWARRAY,
           GETSTATIC, PUTSTATIC
  <2>2. op \notin others BY <2>1, SMT DEF IALOAD, SALOAD, IASTORE, SASTORE, GETFIELD, PUTFIELD,
           ARRAYLENGTH, ATHROW, MONITORENTER, MONITOREXIT, Invoke, INVOKEVIRTUAL,
           INVOKEINTERFACE, INVOKESTATIC, INVOKEDYNAMIC, MULTIANEWARRAY,
           GETSTATIC, PUTSTATIC
  <2>3. Pops(insn) = Pops1(op) BY <1>2, <2>2, Zenon DEF Pops
  <2>4. op \in PopsOne \cup PopsTwo \cup PopsThree \cup PopsFour
    BY <2>1, SMT DEF PopsOne, PopsTwo, PopsThree, PopsFour, IALOAD, SALOAD, IASTORE, SASTORE, GETFIELD, PUTFIELD,
           ARRAYLENGTH, ATHROW, MONITORENTER, MONITOREXIT, Invoke, INVOKEVIRTUAL,
           INVOKEINTERFACE, INVOKESTATIC, INVOKEDYNAMIC, MULTIANEWARRAY,
           GETSTATIC, PUTSTATIC
  <2>5. Pops1(op) \in {1, 2, 3, 4} BY <2>4 DEF Pops1
  <2> QED BY <2>3, <2>5
<1> QED BY <1>3, <1>4, <1>5

\* The slots of a stack laid out by instructions up to p come from them.
LEMMA AfterBehind ==
  ASSUME NEW insn \in Insn, NEW stack \in Seq(Slot), NEW p \in Nat, p >= 1,
         Pops(insn) <= Len(stack),
         \A d \in 1..Len(stack) : stack[d].at \in 1..(p - 1)
  PROVE  \A d \in 1..Len(After(stack, insn, p)) :
           After(stack, insn, p)[d].at \in 1..p
<1> TAKE d \in 1..Len(After(stack, insn, p))
<1>1. CASE After(stack, insn, p)[d] = [at |-> p, ref |-> MakesRef(insn)]
  BY <1>1
<1>2. ASSUME NEW j \in 1..Len(stack), After(stack, insn, p)[d] = stack[j]
      PROVE  After(stack, insn, p)[d].at \in 1..p
  BY <1>2
<1> QED BY <1>1, <1>2, AfterShape

\* TypeOK and LaidOut, of the layout alone.
Laid(c, f) ==
  /\ c \in Seq(Insns \cup {Test, Skip})
  /\ f \in Seq(Seq(Slot))
  /\ Len(f) = Len(c) + 1
  /\ \A i \in 1..Len(c) : Pops(c[i]) <= Len(f[i])
  /\ \A i \in 1..Len(f) : \A d \in 1..Len(f[i]) : f[i][d].at \in 1..(i - 1)

\* One more instruction, and any stack that the instructions so far made.
LEMMA Extend ==
  ASSUME NEW c, NEW f, Laid(c, f),
         NEW insn \in Insns \cup {Test, Skip}, Pops(insn) <= Len(f[Len(f)]),
         NEW next \in Seq(Slot),
         \A d \in 1..Len(next) : next[d].at \in 1..Len(f)
  PROVE  /\ Laid(Append(c, insn), Append(f, next))
         /\ Append(f, next)[Len(Append(f, next))] = next
         /\ Len(Append(f, next)) = Len(f) + 1
<1> DEFINE p == Len(f)
           c2 == Append(c, insn)
           f2 == Append(f, next)
<1>1. /\ c \in Seq(Insns \cup {Test, Skip}) /\ f \in Seq(Seq(Slot))
      /\ Len(c) = p - 1 /\ p \in Nat /\ p >= 1
  BY DEF Laid
<1>2. /\ c2 \in Seq(Insns \cup {Test, Skip}) /\ f2 \in Seq(Seq(Slot))
      /\ Len(c2) = p /\ Len(f2) = p + 1
      /\ \A i \in 1..(p - 1) : c2[i] = c[i]
      /\ \A i \in 1..p : f2[i] = f[i]
      /\ c2[p] = insn /\ f2[p + 1] = next
  BY <1>1
<1> HIDE DEF c2, f2
<1>3. ASSUME NEW i \in 1..p PROVE Pops(c2[i]) <= Len(f2[i])
  <2>1. CASE i = p BY <1>1, <1>2, <2>1
  <2>2. CASE i # p
    <3>1. i \in 1..Len(c) BY <1>1, <2>2
    <3>2. Pops(c[i]) <= Len(f[i]) BY <3>1 DEF Laid
    <3> QED BY <1>1, <1>2, <3>1, <3>2
  <2> QED BY <2>1, <2>2
<1>4. ASSUME NEW i \in 1..(p + 1), NEW d \in 1..Len(f2[i])
      PROVE  f2[i][d].at \in 1..(i - 1)
  <2>1. CASE i = p + 1
    <3>1. f2[i] = next /\ (i - 1) = p BY <1>1, <1>2, <2>1
    <3> QED BY <3>1, Zenon DEF p
  <2>2. CASE i # p + 1
    <3>1. i \in 1..p BY <1>1, <2>2
    <3>2. f2[i] = f[i] BY <1>2, <3>1, Zenon
    <3>3. \A j \in 1..p : \A e \in 1..Len(f[j]) : f[j][e].at \in 1..(j - 1)
      BY Zenon DEF Laid, p
    <3> QED BY <3>1, <3>2, <3>3, Zenon
  <2> QED BY <2>1, <2>2
<1>5. Laid(c2, f2) BY <1>2, <1>3, <1>4 DEF Laid
<1> QED BY <1>2, <1>5 DEF c2, f2

\* The same, where the stack is the one the instruction leaves.
LEMMA ExtendAfter ==
  ASSUME NEW c, NEW f, Laid(c, f),
         NEW insn \in Insns \cup {Test, Skip}, Pops(insn) <= Len(f[Len(f)])
  PROVE  LET next == After(f[Len(f)], insn, Len(f))
         IN  /\ next \in Seq(Slot)
             /\ \A d \in 1..Len(next) : next[d].at \in 1..Len(f)
             /\ Len(next) = Len(f[Len(f)]) - Pops(insn) + Pushes(insn)
<1>1. /\ f \in Seq(Seq(Slot)) /\ Len(f) \in Nat /\ Len(f) >= 1
      /\ \A d \in 1..Len(f[Len(f)]) : f[Len(f)][d].at \in 1..(Len(f) - 1)
  <2>1. f \in Seq(Seq(Slot)) /\ Len(f) \in Nat /\ Len(f) >= 1 BY DEF Laid
  <2>2. Len(f) \in 1..Len(f) BY <2>1
  <2>3. \A d \in 1..Len(f[Len(f)]) : f[Len(f)][d].at \in 1..(Len(f) - 1)
    BY <2>2, Zenon DEF Laid
  <2> QED BY <2>1, <2>3
<1>2. f[Len(f)] \in Seq(Slot) BY <1>1
<1>3. insn \in Insn BY CodeInsns
<1> QED BY <1>1, <1>2, <1>3, AfterShape, AfterBehind

\* Appending four.
LEMMA AppendFour ==
  ASSUME NEW S, NEW s \in Seq(S), NEW w \in S, NEW x \in S, NEW y \in S, NEW z \in S
  PROVE  s \o <<w, x, y, z>> = Append(Append(Append(Append(s, w), x), y), z)
<1> DEFINE t == s \o <<w, x, y, z>>
           u == Append(Append(Append(Append(s, w), x), y), z)
<1>1. /\ t \in Seq(S) /\ u \in Seq(S)
      /\ Len(t) = Len(s) + 4 /\ Len(u) = Len(s) + 4
  OBVIOUS
<1>2. \A i \in 1..Len(t) : t[i] = u[i] OBVIOUS
<1>3. t = u
  <2> HIDE DEF t, u
  <2> QED BY <1>1, <1>2
<1> QED BY <1>3

\* TypeOK and LaidOut together.
TypeInv == /\ Laid(code, frames)
           /\ phase \in Phase
           /\ fault \in Insns \cup {NoInsn}
           /\ origin \in 0..Len(code)
           /\ ins \in 0..Len(code)
           /\ stackExcess \in Int
           /\ verdict \in [label : Label, at : 0..Len(code)]

\* Type correctness with the layout, in the form the steps below use.
LEMMA TypeInvParts == TypeInv <=> TypeOK /\ LaidOut
BY Zenon DEF TypeInv, TypeOK, LaidOut, Laid

\* It holds of the empty method.
LEMMA InitType == Init => TypeInv
<1> SUFFICES ASSUME Init PROVE TypeInv OBVIOUS
<1> USE DEF Init
<1>1. Len(code) = 0 /\ Len(frames) = 1 /\ frames[1] = <<>> OBVIOUS
<1>2. Laid(code, frames) BY <1>1 DEF Laid
<1> QED BY <1>1, <1>2 DEF TypeInv, Phase, Label, NoVerdict

\* One more instruction keeps it.
LEMMA ExecuteType ==
  ASSUME TypeInv, NEW insn \in Insns, Execute(insn)
  PROVE  TypeInv'
<1> DEFINE next == After(Stack, insn, Len(code) + 1)
<1>1. /\ Laid(code, frames) /\ Len(frames) = Len(code) + 1
      /\ Stack = frames[Len(frames)]
  BY DEF TypeInv, Laid, Stack
<1>2. /\ next \in Seq(Slot)
      /\ \A d \in 1..Len(next) : next[d].at \in 1..Len(frames)
      /\ Pops(insn) <= Len(frames[Len(frames)])
  BY <1>1, ExtendAfter DEF Execute, CanRun
<1>3. code' = Append(code, insn) /\ frames' = Append(frames, next)
  BY DEF Execute
<1> HIDE DEF next
<1>4. Laid(code, frames)' BY <1>1, <1>2, <1>3, Extend
<1>5. Len(code') = Len(code) + 1 /\ Len(code) \in Nat
  BY <1>1, <1>3 DEF Laid
<1>6. UNCHANGED <<phase, fault, origin, ins, stackExcess, verdict>>
  BY DEF Execute, agentVars
<1>7. origin' \in 0..Len(code') /\ ins' \in 0..Len(code')
  BY <1>5, <1>6 DEF TypeInv
<1>8. verdict' \in [label : Label, at : 0..Len(code')]
  BY <1>5, <1>6 DEF TypeInv
<1> QED BY <1>4, <1>6, <1>7, <1>8 DEF TypeInv

\* So do the four instructions of a conditional, whichever arm ran.
LEMMA ConditionalType ==
  ASSUME TypeInv, NEW a \in Insns, NEW b \in Insns, Conditional(a, b)
  PROVE  TypeInv'
<1> DEFINE p == Len(code)
           base == After(Stack, Test, p + 1)
           first == After(base, a, p + 2)
           second == After(base, b, p + 4)
           c1 == Append(code, Test)
           c2 == Append(c1, a)
           c3 == Append(c2, Skip)
           c4 == Append(c3, b)
           f1 == Append(frames, base)
           f2 == Append(f1, first)
           f3 == Append(f2, base)
<1>1. /\ Laid(code, frames) /\ Len(frames) = p + 1 /\ p \in Nat
      /\ Stack = frames[Len(frames)] /\ Stack \in Seq(Slot)
  BY DEF TypeInv, Laid, Stack
<1>2. /\ Pops(Test) = 1 /\ Pushes(Test) = 0 /\ Pops(Skip) = 0
  <2>1. Pops(Test) = Pops1(IFEQ) /\ Pushes(Test) = Pushes1(IFEQ)
    BY SMT DEF Pops, Pushes, Test, ShuffleOp, Invoke, IFEQ, DUP, SWAP, CHECKCAST,
       INVOKEVIRTUAL, INVOKEINTERFACE, INVOKEDYNAMIC, MULTIANEWARRAY,
       GETSTATIC, PUTSTATIC, GETFIELD, PUTFIELD
  <2>2. Pops(Skip) = Pops1(GOTO)
    BY SMT DEF Pops, Skip, ShuffleOp, Invoke, GOTO, DUP, SWAP, CHECKCAST,
       INVOKEVIRTUAL, INVOKEINTERFACE, INVOKEDYNAMIC, MULTIANEWARRAY,
       GETSTATIC, PUTSTATIC, GETFIELD, PUTFIELD
  <2>3. Pops1(IFEQ) = 1 /\ Pushes1(IFEQ) = 0
    BY SMT DEF Pops1, Pushes1, PopsOne, PushesNone, PopsTwo, PopsThree, PopsFour, PushesTwo, IFEQ
  <2>4. Pops1(GOTO) = 0
    BY SMT DEF Pops1, PopsOne, PopsTwo, PopsThree, PopsFour, GOTO
  <2> QED BY <2>1, <2>2, <2>3, <2>4
<1>3. PICK join \in {first, second} :
        frames' = frames \o <<base, first, base, join>>
  BY DEF Conditional
<1>4. /\ Pops(a) = 0 /\ Pops(b) = 0 /\ Stack # <<>>
      /\ code' = code \o <<Test, a, Skip, b>>
      /\ UNCHANGED <<phase, fault, origin, ins, stackExcess, verdict>>
  BY DEF Conditional, agentVars
<1>5. /\ base \in Seq(Slot)
      /\ \A d \in 1..Len(base) : base[d].at \in 1..(p + 1)
  <2>1. Pops(Test) <= Len(Stack) BY <1>1, <1>2, <1>4
  <2> QED BY <1>1, <2>1, ExtendAfter
<1> HIDE DEF base
<1>6. Laid(c1, f1) /\ Len(f1) = p + 2 /\ f1[p + 2] = base
  <2>1. Pops(Test) <= Len(frames[Len(frames)]) BY <1>1, <1>2, <1>4
  <2>2. \A d \in 1..Len(base) : base[d].at \in 1..Len(frames) BY <1>1, <1>5
  <2>3. /\ Laid(c1, f1) /\ f1[Len(f1)] = base /\ Len(f1) = Len(frames) + 1
    BY <1>1, <1>5, <2>1, <2>2, Extend
  <2> QED BY <1>1, <2>3
<1>7. /\ first \in Seq(Slot)
      /\ \A d \in 1..Len(first) : first[d].at \in 1..(p + 2)
  <2>1. Pops(a) <= Len(base) BY <1>4, <1>5
  <2> QED BY <1>1, <1>6, <2>1, ExtendAfter
<1> HIDE DEF first, c1, f1
<1>8. Laid(c2, f2) /\ Len(f2) = p + 3 /\ f2[p + 3] = first
  <2>1. Pops(a) <= Len(f1[Len(f1)]) BY <1>1, <1>4, <1>5, <1>6
  <2> QED BY <1>1, <1>6, <1>7, <2>1, Extend
<1> HIDE DEF c2, f2
<1>9. Laid(c3, f3) /\ Len(f3) = p + 4 /\ f3[p + 4] = base
  <2>1. Pops(Skip) <= Len(f2[Len(f2)]) BY <1>1, <1>2, <1>7, <1>8
  <2>2. \A d \in 1..Len(base) : base[d].at \in 1..Len(f2) BY <1>1, <1>5, <1>8
  <2>3. /\ Laid(c3, f3) /\ f3[Len(f3)] = base /\ Len(f3) = Len(f2) + 1
    BY <1>5, <1>8, <2>1, <2>2, Extend
  <2> QED BY <1>1, <1>8, <2>3
<1> HIDE DEF c3, f3
<1>10. /\ second \in Seq(Slot)
       /\ \A d \in 1..Len(second) : second[d].at \in 1..(p + 4)
  <2>1. Pops(b) <= Len(base) BY <1>4, <1>5
  <2> QED BY <1>1, <1>9, <2>1, ExtendAfter
<1> HIDE DEF second
<1>11. Laid(c4, Append(f3, join))
  <2>1. Pops(b) <= Len(f3[Len(f3)]) BY <1>1, <1>4, <1>5, <1>9
  <2>2. /\ join \in Seq(Slot)
        /\ \A d \in 1..Len(join) : join[d].at \in 1..Len(f3)
    <3>1. \A n \in 1..(p + 2) : n \in 1..(p + 4) BY <1>1
    <3>2. \A d \in 1..Len(first) : first[d].at \in 1..(p + 4)
      BY <1>7, <3>1, Zenon
    <3> QED BY <1>3, <1>7, <1>9, <1>10, <3>2, Zenon
  <2> QED BY <1>9, <2>1, <2>2, Extend
<1>12. code' = c4
  <2>1. code \in Seq(Insns \cup {Test, Skip}) BY <1>1 DEF Laid
  <2> QED BY <1>4, <2>1, AppendFour DEF c1, c2, c3
<1>13. frames' = Append(f3, join)
  <2>1. frames \in Seq(Seq(Slot)) /\ join \in Seq(Slot)
    BY <1>1, <1>3, <1>7, <1>10 DEF Laid
  <2> QED BY <1>3, <1>5, <1>7, <2>1, AppendFour DEF f1, f2, f3
<1>14. Laid(code, frames)' BY <1>11, <1>12, <1>13
<1>15. Len(code') \in Nat /\ Len(code') >= p
  <2>1. /\ c3 \in Seq(Insns \cup {Test, Skip}) /\ Len(c3) = p + 3
    BY <1>1, <1>9 DEF Laid
  <2> QED BY <1>1, <1>12, <2>1
<1>16. origin' \in 0..Len(code') /\ ins' \in 0..Len(code')
  BY <1>1, <1>4, <1>15 DEF TypeInv
<1>17. verdict' \in [label : Label, at : 0..Len(code')]
  BY <1>1, <1>4, <1>15 DEF TypeInv
<1> QED BY <1>4, <1>14, <1>16, <1>17 DEF TypeInv

\* The other actions leave the layout as it is.
LEMMA FaultType ==
  ASSUME TypeInv, NEW insn \in Insns, Fault(insn) \/ Throw(insn)
  PROVE  TypeInv'
<1>1. UNCHANGED <<code, frames, ins, stackExcess, verdict>>
  BY DEF Fault, Throw, agentVars
<1>2. phase' \in Phase /\ fault' \in Insns BY DEF Fault, Throw, Phase
<1>3. origin' \in 0..Len(code)
  <2>1. CASE Throw(insn) BY <2>1 DEF Throw, TypeInv, Laid
  <2>2. CASE Fault(insn)
    <3>1. /\ frames \in Seq(Seq(Slot)) /\ Len(frames) = Len(code) + 1
          /\ Len(code) \in Nat
          /\ \A i \in 1..Len(frames) : \A d \in 1..Len(frames[i]) :
               frames[i][d].at \in 1..(i - 1)
      BY DEF TypeInv, Laid
    <3>2. Stack \in Seq(Slot) /\ Stack = frames[Len(frames)] BY <3>1 DEF Stack
    <3>3. Pops(insn) <= Len(Stack) /\ Pops(insn) >= 1 /\ Pops(insn) \in Nat
      BY <2>2, CodeInsns, DereferencePops, SlotCounts DEF Fault
    <3>4. Len(Stack) - NullDepth(insn) \in 1..Len(Stack)
      BY <3>2, <3>3 DEF NullDepth
    <3>5. origin' = Stack[Len(Stack) - NullDepth(insn)].at
      BY <2>2 DEF Fault, SlotAt
    <3>6. Len(frames) \in 1..Len(frames) BY <3>1
    <3>7. Stack[Len(Stack) - NullDepth(insn)].at \in 1..(Len(frames) - 1)
      BY <3>1, <3>2, <3>4, <3>6
    <3> QED BY <3>1, <3>5, <3>7
  <2> QED BY <2>1, <2>2
<1> QED BY <1>1, <1>2, <1>3 DEF TypeInv

\* What getStackDelta returns is a number.
LEMMA DeltaType ==
  ASSUME NEW insn \in Insn, NEW e \in Nat, ~Unsupported(insn)
  PROVE  StackDelta(insn, e) \in Int
<1> DEFINE op == insn.op
<1>1. op \in OpCode /\ insn.n \in Nat BY DEF Insn
<1>2. CASE ~Marked(op)
  <2>1. TableDelta(op) \in Int
    <3>1. op \in ShuffleOp => Taken(op) \in Int /\ Len(Form(op)) \in Int
      BY FormType
    <3>2. Pushes1(op) \in Int /\ Pops1(op) \in Int BY DEF Pushes1, Pops1
    <3>3. TableDelta(op) = IF op \in ShuffleOp THEN Len(Form(op)) - Taken(op)
                                               ELSE Pushes1(op) - Pops1(op)
      BY <1>1, <1>2, TableAssumption
    <3> QED BY <3>1, <3>2, <3>3
  <2>2. op \notin Invoke \cup FieldOp \cup DUP_X1..SWAP \cup {MULTIANEWARRAY}
    BY <1>1, <1>2, TableAssumption, SMT
       DEF Invoke, INVOKEVIRTUAL, INVOKEINTERFACE, FieldOp, GETSTATIC, PUTFIELD,
           MULTIANEWARRAY
  <2>3. StackDelta(insn, e) = TableDelta(op) BY <1>2, <2>2, Zenon DEF StackDelta
  <2> QED BY <2>1, <2>3
<1>3. CASE Marked(op)
  <2>1. op \in Invoke \cup FieldOp \cup DUP_X1..SWAP \cup {MULTIANEWARRAY}
    BY <1>3 DEF Unsupported
  <2>2. InvokeDelta(insn) \in Int /\ 1 - insn.n \in Int
    BY <1>1 DEF InvokeDelta
  <2>3. op \in FieldOp => FieldDelta(insn) \in Int
    BY <1>1, SMT DEF FieldDelta, FieldOp, GETSTATIC, PUTSTATIC, GETFIELD, PUTFIELD
  <2>4. op \in DUP_X1..SWAP => ShuffleDelta(op, e) \in Int
    BY <1>1, SMT DEF ShuffleDelta, DUP_X1, DUP_X2, DUP2, DUP2_X1, DUP2_X2, SWAP
  <2>5. /\ op \in Invoke => op \notin FieldOp \cup DUP_X1..SWAP \cup {MULTIANEWARRAY}
        /\ op \in FieldOp => op \notin Invoke \cup DUP_X1..SWAP \cup {MULTIANEWARRAY}
        /\ op \in DUP_X1..SWAP => op \notin Invoke \cup FieldOp \cup {MULTIANEWARRAY}
    BY <1>1, SMT DEF Invoke, INVOKEVIRTUAL, INVOKEINTERFACE, FieldOp, GETSTATIC,
               PUTFIELD, DUP_X1, SWAP, MULTIANEWARRAY
  <2>6. CASE op \in Invoke
    <3>1. StackDelta(insn, e) = InvokeDelta(insn)
      BY <1>3, <2>5, <2>6, Zenon DEF StackDelta
    <3> QED BY <2>2, <3>1
  <2>7. CASE op \in FieldOp
    <3>1. StackDelta(insn, e) = FieldDelta(insn)
      BY <1>3, <2>5, <2>7, Zenon DEF StackDelta
    <3> QED BY <2>3, <2>7, <3>1
  <2>8. CASE op \in DUP_X1..SWAP
    <3>1. StackDelta(insn, e) = ShuffleDelta(op, e)
      BY <1>3, <2>5, <2>8, Zenon DEF StackDelta
    <3> QED BY <2>4, <2>8, <3>1
  <2>9. CASE op \notin Invoke \cup FieldOp \cup DUP_X1..SWAP
    <3>1. op = MULTIANEWARRAY BY <2>1, <2>9
    <3>2. StackDelta(insn, e) = 1 - insn.n
      BY <1>3, <2>9, <3>1, Zenon DEF StackDelta
    <3> QED BY <2>2, <3>2
  <2> QED BY <2>6, <2>7, <2>8, <2>9
<1> QED BY <1>2, <1>3

\* The agent's steps keep it: ins only falls, and a verdict is about ins.
LEMMA AgentType ==
  ASSUME TypeInv, Agent
  PROVE  TypeInv'
<1>1. UNCHANGED <<code, frames, fault, origin>>
  BY Zenon DEF Agent, Describe, TracePass, TraceFound, TraceThrow, TraceGiveUp, jvmVars
<1>2. Len(code) \in Nat /\ \A i \in 1..Len(code) : code[i] \in Insn
  BY CodeInsns DEF TypeInv, Laid
<1>3. ASSUME Looking
      PROVE  /\ ins \in 1..Len(code) /\ ins - 1 \in 0..Len(code)
             /\ stackExcess \in Nat /\ code[ins] \in Insn
  BY <1>2, <1>3 DEF Looking, TypeInv
<1>4. CASE Describe
  <2>1. fault \in Insn
    <3>1. NoInsn \in Insn
      BY SMT DEF NoInsn, Insn, OpCode, WIDE, GETSTATIC, PUTFIELD
    <3> QED BY <3>1, InsnsAssumption DEF TypeInv
  <2>2. StartExcess(fault) \in Int
    <3>1. fault.n \in Int BY <2>1 DEF Insn
    <3> QED BY <3>1 DEF StartExcess
  <2> QED BY <1>1, <1>2, <1>4, <2>2 DEF Describe, TypeInv, Phase
<1>5. CASE TracePass
  <2>1. ExcessBelow \in Int
    BY <1>3, <1>5, DeltaType DEF TracePass, ExcessBelow
  <2> QED BY <1>1, <1>3, <1>5, <2>1 DEF TracePass, TypeInv
<1>6. CASE TraceFound
  <2>1. ExcessBelow \in Int
    BY <1>3, <1>6, DeltaType DEF TraceFound, ExcessBelow
  <2>2. LabelOf(code[ins]) \in Label
    <3>1. Nameable(code[ins]) BY <1>6 DEF TraceFound
    <3>2. \/ code[ins].op \in ILOAD..ALOAD_3
          \/ code[ins].op \in {ACONST_NULL, GETFIELD, GETSTATIC}
          \/ code[ins].op \in Invoke
      BY <3>1 DEF Nameable
    <3> QED BY <3>2, Zenon DEF LabelOf, Label
  <2> QED BY <1>1, <1>3, <1>6, <2>1, <2>2 DEF TraceFound, TypeInv, Phase
<1>7. CASE TraceThrow
  BY <1>1, <1>3, <1>7 DEF TraceThrow, TypeInv, Phase
<1>8. CASE TraceGiveUp
  <2>1. verdict' \in [label : Label, at : 0..Len(code)]
    BY <1>2, <1>8 DEF TraceGiveUp, Label
  <2>2. UNCHANGED <<ins, stackExcess>> /\ phase' \in Phase
    BY <1>8 DEF TraceGiveUp, Phase
  <2> QED BY <1>1, <2>1, <2>2 DEF TypeInv
<1> QED BY <1>4, <1>5, <1>6, <1>7, <1>8 DEF Agent

\* Hence every step does.
LEMMA TypeStep == TypeInv /\ [Next]_vars => TypeInv'
<1> SUFFICES ASSUME TypeInv, [Next]_vars PROVE TypeInv' OBVIOUS
<1>1. CASE UNCHANGED vars BY <1>1 DEF vars, TypeInv
<1>2. ASSUME NEW insn \in Insns, Execute(insn) PROVE TypeInv'
  BY <1>2, ExecuteType
<1>3. ASSUME NEW insn \in Insns, NEW other \in Insns, Conditional(insn, other)
      PROVE  TypeInv'
  BY <1>3, ConditionalType
<1>4. ASSUME NEW insn \in Insns, Fault(insn) \/ Throw(insn) PROVE TypeInv'
  BY <1>4, FaultType
<1>5. CASE Agent BY <1>5, AgentType
<1> QED BY <1>1, <1>2, <1>3, <1>4, <1>5 DEF Next, Jvm

\* Type correctness, whatever the instructions and the bounds.
THEOREM TypeCorrect == Spec => []TypeOK
<1>1. TypeInv => TypeOK BY TypeInvParts
<1> QED BY InitType, TypeStep, <1>1, PTL DEF Spec

-----------------------------------------------------------------------------
(* The walk.                                                               *)

\* An instruction that can be named pushes something, and is no shuffle.
LEMMA NameablePushes ==
  ASSUME NEW insn \in Insn, Nameable(insn)
  PROVE  insn.op \notin ShuffleOp /\ Pushes(insn) >= 1
<1> DEFINE op == insn.op
<1>1. op \in ILOAD..ALOAD_3 \cup {ACONST_NULL, GETFIELD, GETSTATIC} \cup Invoke
  BY DEF Nameable
<1>2. op \notin ShuffleOp /\ op \notin {PUTSTATIC, PUTFIELD, INVOKEDYNAMIC}
  BY <1>1, SMT DEF ShuffleOp, DUP, SWAP, CHECKCAST, ILOAD, ALOAD_3, ACONST_NULL,
     GETFIELD, GETSTATIC, Invoke, INVOKEVIRTUAL, INVOKEINTERFACE, PUTSTATIC,
     PUTFIELD, INVOKEDYNAMIC
<1>3. CASE op \in Invoke \cup {GETFIELD, GETSTATIC}
  <2>1. Pushes(insn) = Size(insn.type) BY <1>2, <1>3, Zenon DEF Pushes
  <2>2. insn.type # "void"
    <3>1. CASE op \in {GETFIELD, GETSTATIC}
      <4>1. op \in GETSTATIC..PUTFIELD
        BY <3>1, SMT DEF GETFIELD, GETSTATIC, PUTFIELD
      <4> QED BY <4>1 DEF Insn
    <3>2. CASE op \in Invoke
      <4>1. op \notin ILOAD..ALOAD_3 \cup {ACONST_NULL, GETFIELD, GETSTATIC}
        BY <3>2, SMT DEF Invoke, INVOKEVIRTUAL, INVOKEINTERFACE, ILOAD, ALOAD_3,
           ACONST_NULL, GETFIELD, GETSTATIC
      <4> QED BY <4>1 DEF Nameable
    <3> QED BY <1>3, <3>1, <3>2
  <2>3. Size(insn.type) >= 1 BY <2>2 DEF Size
  <2> QED BY <1>2, <2>1, <2>3
<1>4. CASE op \in ILOAD..ALOAD_3 \cup {ACONST_NULL}
  <2>1. op \notin Invoke \cup {INVOKEDYNAMIC, GETSTATIC, GETFIELD}
    BY <1>4, SMT DEF Invoke, INVOKEVIRTUAL, INVOKEINTERFACE, INVOKEDYNAMIC, ILOAD,
       ALOAD_3, ACONST_NULL, GETFIELD, GETSTATIC
  <2>2. Pushes(insn) = Pushes1(op) BY <1>2, <2>1, Zenon DEF Pushes
  <2>3. op \notin PushesNone
    BY <1>4, SMT DEF PushesNone, ILOAD, ALOAD_3, ACONST_NULL
  <2>4. Pushes1(op) >= 1 BY <2>3 DEF Pushes1
  <2> QED BY <1>2, <2>2, <2>4
<1> QED BY <1>1, <1>3, <1>4

\* One that made a null in place of at most one slot leaves one slot and can
\* be named, if getStackDelta knows it.
LEMMA NullableMaker ==
  ASSUME NEW insn \in Insn, MakesNullable(insn), Pops(insn) <= 1,
         ~Unsupported(insn)
  PROVE  Pushes(insn) = 1 /\ Nameable(insn)
<1> DEFINE op == insn.op
           others == {INVOKEDYNAMIC, MULTIANEWARRAY, PUTSTATIC, PUTFIELD}
<1>1. CASE op \in {ACONST_NULL, ALOAD, AALOAD} \cup (ALOAD_3 - 3)..ALOAD_3
  <2>1. /\ op \notin ShuffleOp \cup Invoke
        /\ op \notin {GETSTATIC, GETFIELD} \cup others
    BY <1>1, SMT DEF ShuffleOp, DUP, SWAP, CHECKCAST, ALOAD, AALOAD, ALOAD_3, ACONST_NULL,
       GETFIELD, GETSTATIC, Invoke, INVOKEVIRTUAL, INVOKEINTERFACE, PUTSTATIC,
       PUTFIELD, INVOKEDYNAMIC, MULTIANEWARRAY
  <2>2. Pushes(insn) = Pushes1(op) /\ Pops(insn) = Pops1(op)
    BY <2>1, Zenon DEF Pushes, Pops
  <2>3. op \notin PushesNone \cup PushesTwo
    BY <1>1, SMT DEF PushesNone, PushesTwo, ALOAD, AALOAD, ALOAD_3, ACONST_NULL
  <2>4. Pushes1(op) = 1 BY <2>3 DEF Pushes1
  <2>5. Pops1(AALOAD) = 2
    BY SMT DEF Pops1, PopsOne, PopsTwo, PopsThree, PopsFour, AALOAD
  <2>6. op # AALOAD BY <2>2, <2>5
  <2>7. op \in ILOAD..ALOAD_3 \cup {ACONST_NULL}
    BY <1>1, <2>6, SMT DEF ILOAD, ALOAD, AALOAD, ALOAD_3, ACONST_NULL
  <2> QED BY <2>2, <2>4, <2>7 DEF Nameable
<1>2. CASE /\ op \in Invoke \cup {INVOKEDYNAMIC, GETSTATIC, GETFIELD}
           /\ insn.type = "ref"
  <2>1. op # INVOKEDYNAMIC
    <3>1. INVOKEDYNAMIC \in OpCode /\ INVOKEDYNAMIC \in 172..186
      BY SMT DEF INVOKEDYNAMIC, OpCode
    <3>2. Marked(INVOKEDYNAMIC) BY <3>1, TableAssumption
    <3>3. INVOKEDYNAMIC \notin Invoke \cup FieldOp \cup DUP_X1..SWAP \cup {MULTIANEWARRAY}
      BY SMT DEF INVOKEDYNAMIC, Invoke, INVOKEVIRTUAL, INVOKEINTERFACE, FieldOp,
         GETSTATIC, PUTFIELD, DUP_X1, SWAP, MULTIANEWARRAY
    <3> QED BY <3>2, <3>3 DEF Unsupported
  <2>2. op \notin ShuffleOp /\ op \notin {PUTSTATIC, PUTFIELD}
    BY <1>2, SMT DEF ShuffleOp, DUP, SWAP, CHECKCAST, GETFIELD, GETSTATIC, Invoke,
       INVOKEVIRTUAL, INVOKEINTERFACE, PUTSTATIC, PUTFIELD, INVOKEDYNAMIC
  <2>3. Pushes(insn) = Size(insn.type) BY <1>2, <2>2, Zenon DEF Pushes
  <2>4. Size(insn.type) = 1 BY <1>2 DEF Size
  <2>5. Nameable(insn) BY <1>2, <2>1 DEF Nameable
  <2> QED BY <2>3, <2>4, <2>5
<1> QED BY <1>1, <1>2 DEF MakesNullable

\* One look: the instruction made the null and can be named, or is a dup whose
\* copy was followed, or is passed with the slot still in sight below it.
LEMMA Look ==
  ASSUME TypeInv, NullInPlace, WatchesTheNull, Looking, Followable,
         ~Unsupported(code[ins]), Straight(ins), OneSlotResult(ins)
  PROVE  /\ origin <= ins
         /\ \/ origin = ins /\ Stops /\ Nameable(code[ins])
            \/ /\ code[ins].op = DUP /\ ~Nameable(code[ins])
               /\ ExcessBelow < 0
            \/ /\ ~(Stops /\ Nameable(code[ins]))
               /\ ExcessBelow \in 0..(Len(frames[ins]) - 1)
               /\ SlotAt(frames[ins], ExcessBelow) = [at |-> origin, ref |-> TRUE]
<1> DEFINE insn == code[ins]
           e == stackExcess
           stack == frames[ins]
           next == After(stack, insn, ins)
           null == [at |-> origin, ref |-> TRUE]
<1>1. /\ ins \in 1..Len(code) /\ ins \in Nat /\ e \in Nat /\ origin \in Nat
      /\ Len(code) \in Nat /\ phase = "tracing"
  BY DEF Looking, TypeInv, Laid
<1>2. insn \in Insn /\ stack \in Seq(Slot) /\ Pops(insn) <= Len(stack)
  BY <1>1, CodeInsns DEF TypeInv, Laid
<1>3. frames[ins + 1] = next BY DEF Straight
<1>4. e < Len(next) /\ SlotAt(next, e) = null
  BY <1>1, <1>3 DEF WatchesTheNull
<1>5. origin <= ins
  <2>1. ins + 1 \in 1..Len(frames) BY <1>1 DEF TypeInv, Laid
  <2>2. \A d \in 1..Len(next) : next[d].at \in 1..ins
    <3>1. \A d \in 1..Len(frames[ins + 1]) :
            frames[ins + 1][d].at \in 1..((ins + 1) - 1)
      BY <2>1, Zenon DEF TypeInv, Laid
    <3>2. (ins + 1) - 1 = ins BY <1>1
    <3> HIDE DEF next
    <3> QED BY <1>3, <3>1, <3>2, Zenon
  <2>3. Len(next) \in Nat BY <1>1, <1>2, AfterShape
  <2>4. Len(next) - e \in 1..Len(next) BY <1>1, <1>4, <2>3
  <2>5. next[Len(next) - e] = null BY <1>4 DEF SlotAt
  <2> QED BY <1>1, <2>2, <2>4, <2>5
<1>6. Pops(insn) \in Nat /\ Pushes(insn) \in Nat BY <1>2, SlotCounts
<1> HIDE DEF insn, stack, next, null
<1>7. CASE insn.op \notin ShuffleOp /\ e < Pushes(insn)
  <2>1. null = [at |-> ins, ref |-> MakesRef(insn)]
    BY <1>1, <1>2, <1>4, <1>7, AfterSource DEF next
  <2>2. origin = ins BY <2>1 DEF null
  <2>3. MakesNullable(insn) /\ Pops(insn) <= 1
    BY <1>1, <2>2 DEF NullInPlace, Followable, SimpleOrigin, insn
  <2>4. Pushes(insn) = 1 /\ Nameable(insn)
    BY <1>2, <2>3, NullableMaker DEF insn
  <2>5. StackDelta(insn, e) = 1 - Pops(insn)
    BY <1>1, <1>2, <1>7, <2>4, PlainStep DEF OneSlotResult, insn
  <2>6. e = 0 BY <1>1, <1>7, <2>4
  <2>7. Stops BY <1>6, <2>3, <2>5, <2>6 DEF Stops, ExcessBelow, insn
  <2> QED BY <1>5, <2>2, <2>4, <2>7 DEF insn
<1>8. CASE insn.op = DUP /\ e = 0
  <2>1. ~Nameable(insn)
    <3>1. insn.op \in ShuffleOp BY <1>8, SMT DEF ShuffleOp, DUP, SWAP
    <3> QED BY <1>2, <3>1, NameablePushes
  <2>2. StackDelta(insn, e) = Len(Form(DUP)) - Taken(DUP)
    BY <1>2, <1>8, TableShuffle
  <2>3. Len(Form(DUP)) - Taken(DUP) = 1
    BY SMT DEF Form, Taken, DUP, CHECKCAST, SWAP, DUP_X1, DUP_X2, DUP2, DUP2_X1
  <2>4. ExcessBelow < 0 BY <1>8, <2>2, <2>3 DEF ExcessBelow, insn
  <2> QED BY <1>5, <1>8, <2>1, <2>4 DEF insn
<1>9. CASE /\ insn.op \in ShuffleOp \/ e >= Pushes(insn)
           /\ ~(insn.op = DUP /\ e = 0)
  <2>1. /\ Source(insn, e) \in 0..(Len(stack) - 1)
        /\ SlotAt(next, e) = SlotAt(stack, Source(insn, e))
    BY <1>1, <1>2, <1>4, <1>9, AfterSource DEF next
  <2>2. ExcessBelow = Source(insn, e)
    <3>1. CASE insn.op \in ShuffleOp
      BY <1>1, <1>2, <1>9, <3>1, ShuffleStep DEF ExcessBelow, insn
    <3>2. CASE insn.op \notin ShuffleOp
      <4>1. StackDelta(insn, e) = Pushes(insn) - Pops(insn)
        BY <1>1, <1>2, <3>2, PlainStep DEF OneSlotResult, insn
      <4>2. ~(e < Pushes(insn)) BY <1>1, <1>6, <1>9, <3>2
      <4>3. Source(insn, e) = e - Pushes(insn) + Pops(insn)
        BY <4>2 DEF Source
      <4>4. ExcessBelow = e - StackDelta(insn, e) BY DEF ExcessBelow, insn
      <4> QED BY <1>1, <1>6, <4>1, <4>3, <4>4
    <3> QED BY <3>1, <3>2
  <2>3. ASSUME Stops, Nameable(insn) PROVE FALSE
    <3>1. insn.op \notin ShuffleOp /\ Pushes(insn) >= 1
      BY <1>2, <2>3, NameablePushes
    <3>2. ExcessBelow = 0 /\ StackDelta(insn, e) = 0
      BY <2>1, <2>2, <2>3 DEF Stops, insn
    <3>3. e = 0 BY <1>1, <3>2 DEF ExcessBelow, insn
    <3> QED BY <1>1, <1>6, <1>9, <3>1, <3>3
  <2> QED BY <1>4, <1>5, <2>1, <2>2, <2>3 DEF insn, stack, null
<1> QED BY <1>1, <1>6, <1>7, <1>8, <1>9

-----------------------------------------------------------------------------
(* The inductive invariant.                                                *)

Rest == /\ NullInPlace
        /\ WatchesTheNull /\ LostAtDup
        /\ BlamesOrigin /\ UnknownOnlyAtDup /\ NeverOvershoots

\* The inductive invariant, in two parts that are carried separately.
LEMMA IInvParts == IInv <=> TypeInv /\ Rest
BY TypeInvParts, Zenon DEF IInv, Rest

\* While the program runs nothing has been traced.
LEMMA RunningRest == phase = "running" => Rest
BY DEF Rest, NullInPlace, WatchesTheNull, LostAtDup, BlamesOrigin,
       UnknownOnlyAtDup, NeverOvershoots, Named

\* The program's steps keep the rest: the null is where Fault found it.
LEMMA JvmRest ==
  ASSUME TypeInv, NEW insn \in Insns, NEW other \in Insns,
         \/ Execute(insn) \/ Conditional(insn, other)
         \/ Fault(insn) \/ Throw(insn)
  PROVE  Rest'
<1>1. CASE Execute(insn) \/ Conditional(insn, other)
  <2>1. phase' = "running" BY <1>1 DEF Execute, Conditional
  <2> QED BY <2>1, RunningRest
          DEF Rest, NullInPlace, WatchesTheNull, LostAtDup, BlamesOrigin,
              UnknownOnlyAtDup, NeverOvershoots, Named
<1>2. CASE Fault(insn) \/ Throw(insn)
  <2>1. phase' = "faulted" BY <1>2 DEF Fault, Throw
  <2>2. NullInPlace'
    <3>1. CASE Throw(insn) BY <3>1 DEF Throw, NullInPlace
    <3>2. CASE Fault(insn)
      <4>1. /\ UNCHANGED <<code, frames>>
            /\ fault' = insn
            /\ Pops(insn) <= Len(Stack)
            /\ SlotAt(Stack, NullDepth(insn)).ref
            /\ origin' = SlotAt(Stack, NullDepth(insn)).at
            /\ MakesNullable(code[origin'])
        BY <3>2 DEF Fault
      <4>2. Stack' = Stack BY <4>1 DEF Stack
      <4>3. Stack \in Seq(Slot) BY DEF TypeInv, Laid, Stack
      <4>4. Pops(insn) \in Nat /\ Pops(insn) >= 1
        BY <3>2, CodeInsns, SlotCounts, DereferencePops DEF Fault
      <4>5. NullDepth(insn) \in 0..(Len(Stack) - 1)
        BY <4>1, <4>3, <4>4 DEF NullDepth
      <4>6. SlotAt(Stack, NullDepth(insn)) \in Slot
        BY <4>3, <4>5 DEF SlotAt
      <4>7. SlotAt(Stack, NullDepth(insn)) = [at |-> origin', ref |-> TRUE]
        BY <4>1, <4>6 DEF Slot
      <4> QED BY <4>1, <4>2, <4>5, <4>7 DEF NullInPlace
    <3> QED BY <1>2, <3>1, <3>2
  <2> QED BY <2>1, <2>2
          DEF Rest, WatchesTheNull, LostAtDup, BlamesOrigin,
              UnknownOnlyAtDup, NeverOvershoots, Named
<1> QED BY <1>1, <1>2

\* The layout and the null stay put while the agent works.
LEMMA AgentKeeps ==
  ASSUME Agent
  PROVE  /\ UNCHANGED <<code, frames, fault, origin>>
         /\ phase # "running"
BY Zenon DEF Agent, Describe, TracePass, TraceFound, TraceThrow, TraceGiveUp,
             jvmVars, Looking

\* The walk starts on the null, where describeNPEInstruction expects it.
LEMMA DescribeRest ==
  ASSUME TypeInv, Rest, Describe
  PROVE  Rest'
<1>1. /\ UNCHANGED <<code, frames, fault, origin>>
      /\ phase = "faulted" /\ phase' = "tracing"
      /\ ins' = Len(code) /\ stackExcess' = StartExcess(fault)
  BY DEF Describe, jvmVars
<1>2. /\ Len(code) \in Nat /\ Len(frames) = Len(code) + 1
      /\ origin \in 0..Len(code)
  BY DEF TypeInv, Laid
<1>3. NullInPlace' BY <1>1 DEF Rest, NullInPlace, Stack
<1>4. ASSUME Followable'
      PROVE  /\ stackExcess' \in 0..(Len(frames[Len(code) + 1]) - 1)
             /\ SlotAt(frames[Len(code) + 1], stackExcess')
                  = [at |-> origin, ref |-> TRUE]
  <2>1. StartExcess(fault) = NullDepth(fault) /\ origin # 0
    BY <1>1, <1>4 DEF Followable, StartsRight, SimpleOrigin
  <2>2. Stack = frames[Len(code) + 1] BY <1>2 DEF Stack
  <2> QED BY <1>1, <2>1, <2>2 DEF Rest, NullInPlace
<1>5. WatchesTheNull' BY <1>1, <1>4 DEF WatchesTheNull
<1>6. LostAtDup' BY <1>1, <1>4 DEF LostAtDup
<1>7. NeverOvershoots' BY <1>1, <1>2 DEF NeverOvershoots
<1>8. BlamesOrigin' /\ UnknownOnlyAtDup'
  BY <1>1 DEF BlamesOrigin, UnknownOnlyAtDup, Named
<1> QED BY <1>3, <1>5, <1>6, <1>7, <1>8 DEF Rest

\* A walk that can be followed one instruction further could be followed so far.
LEMMA FollowableBack ==
  ASSUME TypeInv, Looking, ins' = ins - 1,
         UNCHANGED <<code, frames, fault, origin>>, Followable'
  PROVE  Followable /\ Straight(ins) /\ OneSlotResult(ins)
<1>1. ins \in 1..Len(code) /\ Len(code) \in Nat
  BY DEF Looking, TypeInv, Laid
<1>2. \A i \in ins..Len(code) : Straight(i) /\ OneSlotResult(i)
  <2>1. \A i \in (ins' + 1)..Len(code) : Straight(i)' /\ OneSlotResult(i)'
    BY DEF Followable
  <2>2. ins' + 1 = ins BY <1>1
  <2> QED BY <2>1, <2>2 DEF Straight, OneSlotResult
<1>3. StartsRight /\ SimpleOrigin BY DEF Followable, StartsRight, SimpleOrigin
<1> QED BY <1>1, <1>2, <1>3 DEF Followable

\* Each pass of the walk's loop stays on it, names it, or loses it at a dup.
LEMMA TraceRest ==
  ASSUME TypeInv, Rest, TracePass \/ TraceFound \/ TraceThrow
  PROVE  Rest'
<1>1. /\ UNCHANGED <<code, frames, fault, origin>>
      /\ Looking /\ phase = "tracing" /\ ins' = ins - 1
  BY DEF TracePass, TraceFound, TraceThrow, jvmVars, Looking
<1>2. /\ ins \in 1..Len(code) /\ Len(code) \in Nat /\ stackExcess \in Nat
      /\ origin \in 0..Len(code) /\ ins' + 1 = ins /\ ins - 1 < Len(code)
      /\ code[ins] \in Insn
  BY <1>1, CodeInsns DEF Looking, TypeInv, Laid
<1>3. NullInPlace'
  <2>1. phase # "running" BY <1>1
  <2> QED BY <1>1, <2>1 DEF Rest, NullInPlace, Stack
<1>4. CASE TraceThrow
  <2>1. phase' = "aborted" BY <1>4 DEF TraceThrow
  <2>2. NeverOvershoots'
    <3> SUFFICES ASSUME Followable' PROVE ins' >= origin' - 1
      BY DEF NeverOvershoots
    <3>1. Followable BY <1>1, FollowableBack
    <3>2. origin <= ins
      <4>1. ins + 1 \in 1..Len(frames) BY <1>2 DEF TypeInv, Laid
      <4>2. /\ stackExcess < Len(frames[ins + 1])
            /\ SlotAt(frames[ins + 1], stackExcess) = [at |-> origin, ref |-> TRUE]
        BY <1>1, <1>2, <3>1 DEF Rest, WatchesTheNull
      <4>3. /\ frames[ins + 1] \in Seq(Slot)
            /\ \A d \in 1..Len(frames[ins + 1]) : frames[ins + 1][d].at \in 1..ins
        <5>1. /\ frames \in Seq(Seq(Slot))
              /\ \A i \in 1..Len(frames) : \A d \in 1..Len(frames[i]) :
                   frames[i][d].at \in 1..(i - 1)
          BY DEF TypeInv, Laid
        <5>2. (ins + 1) - 1 = ins BY <1>2
        <5> QED BY <4>1, <5>1, <5>2
      <4>4. Len(frames[ins + 1]) - stackExcess \in 1..Len(frames[ins + 1])
        BY <1>2, <4>2, <4>3
      <4>5. frames[ins + 1][Len(frames[ins + 1]) - stackExcess].at = origin
        BY <4>2 DEF SlotAt
      <4> QED BY <1>2, <4>3, <4>4, <4>5, SMTT(20)
    <3> QED BY <1>1, <1>2, <3>2
  <2>3. WatchesTheNull' /\ LostAtDup' /\ BlamesOrigin' /\ UnknownOnlyAtDup'
    BY <2>1 DEF WatchesTheNull, LostAtDup, BlamesOrigin, UnknownOnlyAtDup, Named
  <2> QED BY <1>3, <2>2, <2>3 DEF Rest
<1>5. ASSUME Followable', ~TraceThrow
      PROVE  /\ origin <= ins
             /\ \/ origin = ins /\ Stops /\ Nameable(code[ins])
                \/ /\ code[ins].op = DUP /\ ~Nameable(code[ins])
                   /\ ExcessBelow < 0
                \/ /\ ~(Stops /\ Nameable(code[ins]))
                   /\ ExcessBelow \in 0..(Len(frames[ins]) - 1)
                   /\ SlotAt(frames[ins], ExcessBelow) = [at |-> origin, ref |-> TRUE]
  <2>1. ~Unsupported(code[ins]) BY <1>5 DEF TracePass, TraceFound
  <2>2. Followable /\ Straight(ins) /\ OneSlotResult(ins)
    BY <1>1, <1>5, FollowableBack
  <2>3. NullInPlace /\ WatchesTheNull BY DEF Rest
  <2> QED BY <1>1, <2>1, <2>2, <2>3, Look
<1>6. CASE TracePass
  <2>1. /\ phase' = "tracing" /\ stackExcess' = ExcessBelow
        /\ ~(Stops /\ Nameable(code[ins])) /\ ~TraceThrow
    BY <1>1, <1>6 DEF TracePass, TraceThrow
  <2>2. WatchesTheNull' /\ LostAtDup'
    <3> SUFFICES ASSUME Followable'
                 PROVE  WatchesTheNull' /\ LostAtDup'
      BY DEF WatchesTheNull, LostAtDup
    <3>1. \/ code[ins].op = DUP /\ ExcessBelow < 0
          \/ /\ ExcessBelow \in 0..(Len(frames[ins]) - 1)
             /\ SlotAt(frames[ins], ExcessBelow) = [at |-> origin, ref |-> TRUE]
      BY <1>5, <2>1
    <3>2. CASE code[ins].op = DUP /\ ExcessBelow < 0
      <4>1. ~(stackExcess' >= 0) /\ ins' < Len(code') /\ code'[ins' + 1].op = DUP
        <5>1. ins' + 1 = ins /\ ins' < Len(code) BY <1>1, <1>2
        <5>2. ~(ExcessBelow >= 0) BY <3>2, DeltaType, <1>2, <1>6, CodeInsns DEF ExcessBelow, TracePass
        <5> QED BY <1>1, <2>1, <3>2, <5>1, <5>2
      <4> QED BY <4>1 DEF WatchesTheNull, LostAtDup
    <3>3. CASE /\ ExcessBelow \in 0..(Len(frames[ins]) - 1)
               /\ SlotAt(frames[ins], ExcessBelow) = [at |-> origin, ref |-> TRUE]
      <4>1. frames[ins] \in Seq(Slot) BY <1>2 DEF TypeInv, Laid
      <4>2. ExcessBelow \in Nat /\ ExcessBelow < Len(frames[ins]) BY <3>3, <4>1
      <4>3. frames'[ins' + 1] = frames[ins] BY <1>1, <1>2
      <4>4. WatchesTheNull'
        BY <1>1, <2>1, <3>3, <4>2, <4>3 DEF WatchesTheNull
      <4>5. LostAtDup' BY <2>1, <4>2 DEF LostAtDup
      <4> QED BY <4>4, <4>5
    <3> QED BY <3>1, <3>2, <3>3
  <2>3. NeverOvershoots'
    BY <1>1, <1>2, <1>5, <2>1 DEF NeverOvershoots
  <2>4. BlamesOrigin' /\ UnknownOnlyAtDup'
    BY <2>1 DEF BlamesOrigin, UnknownOnlyAtDup, Named
  <2> QED BY <1>3, <2>2, <2>3, <2>4 DEF Rest
<1>7. CASE TraceFound
  <2>1. /\ phase' = "done" /\ Stops /\ Nameable(code[ins]) /\ ~TraceThrow
        /\ verdict' = [label |-> LabelOf(code[ins]), at |-> ins]
    BY <1>7 DEF TraceFound, TraceThrow
  <2>2. Followable' => origin = ins BY <1>5, <2>1
  <2>3. BlamesOrigin' BY <1>1, <2>1, <2>2 DEF BlamesOrigin
  <2>4. UnknownOnlyAtDup'
    <3>1. LabelOf(code[ins]) # "UNKNOWN"
      <4>1. \/ code[ins].op \in ILOAD..ALOAD_3
            \/ code[ins].op \in {ACONST_NULL, GETFIELD, GETSTATIC}
            \/ code[ins].op \in Invoke
        BY <2>1 DEF Nameable
      <4> QED BY <4>1, Zenon DEF LabelOf
    <3> QED BY <2>1, <3>1 DEF UnknownOnlyAtDup, Named
  <2>5. NeverOvershoots'
    BY <1>1, <1>2, <2>1, <2>2 DEF NeverOvershoots
  <2>6. WatchesTheNull' /\ LostAtDup' BY <2>1 DEF WatchesTheNull, LostAtDup
  <2> QED BY <1>3, <2>3, <2>4, <2>5, <2>6 DEF Rest
<1> QED BY <1>4, <1>6, <1>7

\* The walk that ends without a name ended at a dup.
LEMMA GiveUpRest ==
  ASSUME TypeInv, Rest, TraceGiveUp
  PROVE  Rest'
<1>1. /\ UNCHANGED <<code, frames, fault, origin, ins, stackExcess>>
      /\ phase = "tracing" /\ ~Looking
      /\ phase' = "done" /\ verdict' = [label |-> "UNKNOWN", at |-> 0]
  BY DEF TraceGiveUp, jvmVars
<1>2. Followable' => Followable
  BY <1>1 DEF Followable, StartsRight, SimpleOrigin, Straight, OneSlotResult
<1>3. NullInPlace' BY <1>1 DEF Rest, NullInPlace, Stack
<1>4. UnknownOnlyAtDup'
  <2> SUFFICES ASSUME Followable' PROVE code'[ins' + 1].op = DUP
    BY DEF UnknownOnlyAtDup
  <2>1. stackExcess \in Int /\ ins \in Nat BY DEF TypeInv, Laid
  <2>2. CASE stackExcess < 0
    BY <1>1, <1>2, <2>2 DEF Rest, LostAtDup
  <2>3. CASE stackExcess >= 0
    <3>1. ins = 0 BY <1>1, <2>3 DEF Looking
    <3>2. stackExcess < Len(frames[1])
      BY <1>1, <1>2, <2>3, <3>1 DEF Rest, WatchesTheNull
    <3>3. /\ frames[1] \in Seq(Slot)
          /\ \A d \in 1..Len(frames[1]) : frames[1][d].at \in 1..(1 - 1)
      <4>1. frames \in Seq(Seq(Slot)) /\ 1 \in 1..Len(frames) BY DEF TypeInv, Laid
      <4>2. frames[1] \in Seq(Slot) BY <4>1
      <4>3. \A d \in 1..Len(frames[1]) : frames[1][d].at \in 1..(1 - 1)
        BY <4>1, Zenon DEF TypeInv, Laid
      <4> QED BY <4>2, <4>3
    <3>4. Len(frames[1]) = 0
      <4> SUFFICES ASSUME Len(frames[1]) # 0 PROVE FALSE OBVIOUS
      <4>1. 1 \in 1..Len(frames[1]) BY <3>3
      <4>2. frames[1][1].at \in 1..(1 - 1) BY <3>3, <4>1
      <4> QED BY <4>2
    <3> QED BY <2>1, <2>3, <3>2, <3>4
  <2> QED BY <2>1, <2>2, <2>3
<1>5. NeverOvershoots'
  BY <1>1, <1>2 DEF Rest, NeverOvershoots
<1>6. BlamesOrigin' /\ WatchesTheNull' /\ LostAtDup'
  BY <1>1 DEF BlamesOrigin, WatchesTheNull, LostAtDup, Named
<1> QED BY <1>3, <1>4, <1>5, <1>6 DEF Rest

\* The inductive invariant holds at the start ...
LEMMA InitIInv == Init => IInv
<1>1. Init => phase = "running" BY DEF Init
<1> QED BY <1>1, InitType, RunningRest, IInvParts

\* ... and each step of the program and of the agent keeps it.
LEMMA StepIInv == TypeInv /\ Rest /\ [Next]_vars => TypeInv' /\ Rest'
<1> SUFFICES ASSUME TypeInv, Rest, [Next]_vars PROVE TypeInv' /\ Rest' OBVIOUS
<1>1. TypeInv' BY TypeStep
<1>2. CASE UNCHANGED vars
  <2>1. /\ NullInPlace' <=> NullInPlace
        /\ Followable' <=> Followable
        /\ Named' <=> Named
    BY <1>2 DEF vars, NullInPlace, Stack, Named, Followable, StartsRight,
                SimpleOrigin, Straight, OneSlotResult
  <2>2. Rest' <=> Rest
    BY <1>2, <2>1 DEF vars, Rest, WatchesTheNull, LostAtDup, BlamesOrigin,
                      UnknownOnlyAtDup, NeverOvershoots
  <2> QED BY <1>1, <2>2
<1>3. ASSUME NEW insn \in Insns, NEW other \in Insns,
             \/ Execute(insn) \/ Conditional(insn, other)
             \/ Fault(insn) \/ Throw(insn)
      PROVE  Rest'
  BY <1>3, JvmRest
<1>4. CASE Describe BY <1>1, <1>4, DescribeRest
<1>5. CASE TracePass \/ TraceFound \/ TraceThrow BY <1>1, <1>5, TraceRest
<1>6. CASE TraceGiveUp BY <1>1, <1>6, GiveUpRest
<1> QED BY <1>1, <1>2, <1>3, <1>4, <1>5, <1>6 DEF Next, Jvm, Agent

\* The inductive invariant holds of every instance.
THEOREM Inductive == Spec => []IInv
<1>1. Init => TypeInv /\ Rest BY InitIInv, IInvParts
<1>2. TypeInv /\ Rest => IInv BY IInvParts
<1> QED BY <1>1, <1>2, StepIInv, PTL DEF Spec

\* The walk of traceDetailedCause never loses the null it follows.
THEOREM NullWatched == Spec => []WatchesTheNull
<1>1. IInv => WatchesTheNull BY DEF IInv
<1> QED BY <1>1, Inductive, PTL

\* The message names the expression that was null, in every method whose
\* layout the walk can follow.
THEOREM OriginBlamed == Spec => []BlamesOrigin
<1>1. IInv => BlamesOrigin BY DEF IInv
<1> QED BY <1>1, Inductive, PTL

\* In such a method nothing but a dup makes the agent say UNKNOWN.
THEOREM UnknownIsDup == Spec => []UnknownOnlyAtDup
<1>1. IInv => UnknownOnlyAtDup BY DEF IInv
<1> QED BY <1>1, Inductive, PTL

\* Nor does the walk look beyond the instruction that made the null.
THEOREM NoOvershoot == Spec => []NeverOvershoots
<1>1. IInv => NeverOvershoots BY DEF IInv
<1> QED BY <1>1, Inductive, PTL

-----------------------------------------------------------------------------
(* The analysis goes down.                                                 *)

\* Steps that are left at most.
Left ==
  IF phase = "faulted" THEN Len(code) + 2 ELSE IF phase = "tracing" THEN ins + 1 ELSE 0

\* Nothing happens meanwhile but the agent's steps, and each leaves fewer.
Descends == phase \in {"faulted", "tracing"} => Left' \in Nat /\ Left' < Left

LEMMA AgentDescends ==
  ASSUME TypeOK, Agent
  PROVE  Left' \in Nat /\ Left' < Left
<1>1. Len(code) \in Nat /\ ins \in Nat /\ ins <= Len(code) BY DEF TypeOK
<1>2. CASE Describe
  <2>1. phase = "faulted" /\ phase' = "tracing" /\ ins' = Len(code) BY <1>2 DEF Describe
  <2> QED BY <1>1, <2>1 DEF Left
<1>3. CASE TracePass
  <2>1. phase = "tracing" /\ phase' = "tracing" /\ ins' = ins - 1 /\ ins # 0
    BY <1>3 DEF TracePass, Looking
  <2> QED BY <1>1, <2>1 DEF Left
<1>4. CASE TraceFound \/ TraceThrow \/ TraceGiveUp
  <2>1. phase = "tracing" /\ phase' \in {"done", "aborted"}
    BY <1>4 DEF TraceFound, TraceThrow, TraceGiveUp, Looking
  <2> QED BY <1>1, <2>1 DEF Left
<1> QED BY <1>2, <1>3, <1>4 DEF Agent

\* From the fault on, describeNPEInstruction and the loop of traceDetailedCause
\* take at most two steps more than the method has instructions, whatever these
\* are, and nothing else happens meanwhile.
THEOREM WalkDescends == Spec => [][Descends]_vars
<1>1. ASSUME TypeOK, [Next]_vars PROVE [Descends]_vars
  <2>1. CASE UNCHANGED vars BY <2>1
  <2>2. CASE Agent BY <1>1, <2>2, AgentDescends DEF Descends
  <2>3. ASSUME Jvm PROVE phase = "running"
    BY <2>3 DEF Jvm, Execute, Conditional, Fault, Throw
  <2> QED BY <1>1, <2>1, <2>2, <2>3 DEF Next, Descends
<1> QED BY <1>1, TypeCorrect, PTL DEF Spec
=============================================================================
