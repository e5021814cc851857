------------------------ MODULE CodeAttribute_proofs ------------------------
(***************************************************************************)
(* Proofs about CodeAttribute: the loop of init stays in step with the     *)
(* method, whatever the method and whatever is found beyond its end.       *)
(***************************************************************************)
EXTENDS CodeAttribute, SequenceTheorems, TLAPS

\* A number that is right modulo 256 and fits a uint8_t is right.
LEMMA FitsByte ==
  ASSUME NEW a \in Int, NEW b \in 0..255, (a - b) % 256 = 0
  PROVE  a % 256 = b
OBVIOUS

\* Bytes written after others.
LEMMA Written ==
  ASSUME NEW S, NEW a \in Seq(S), NEW b \in Seq(S)
  PROVE  /\ a \o b \in Seq(S)
         /\ Len(a \o b) = Len(a) + Len(b)
         /\ \A j \in 1..Len(a) : (a \o b)[j] = a[j]
         /\ \A j \in 1..Len(b) : (a \o b)[Len(a) + j] = b[j]
OBVIOUS

\* What an instruction's operands are made of.
LEMMA EncodedParts ==
  ASSUME NEW insn \in Encoded
  PROVE  /\ insn.op \in OpCode
         /\ insn.args \in Seq(Byte)
         /\ insn.op = TABLESWITCH =>
              /\ Len(insn.args) >= 16
              /\ (4 * (insn.args[12] - insn.args[8] + 1) - (Len(insn.args) - 12))
                    % 256 = 0
         /\ insn.op = LOOKUPSWITCH =>
              /\ Len(insn.args) >= 8
              /\ (8 * insn.args[8] - (Len(insn.args) - 8)) % 256 = 0
         /\ insn.op = WIDE =>
              Len(insn.args) = IF insn.args[1] = IINC THEN 5 ELSE 3
         /\ insn.op \notin Variable => Len(insn.args) = OperandBytes(insn.op)
<1>1. insn \in [op : OpCode, args : Seq(Byte)] BY DEF Encoded
<1>2. LET size == Len(insn.args)
      IN  CASE insn.op = TABLESWITCH ->
                /\ size >= 16
                /\ size % 4 = 0
                /\ (4 * (insn.args[12] - insn.args[8] + 1) - (size - 12)) % 256 = 0
           [] insn.op = LOOKUPSWITCH ->
                /\ size >= 8
                /\ (8 * insn.args[8] - (size - 8)) % 256 = 0
           [] insn.op = WIDE ->
                size = IF insn.args[1] = IINC THEN 5 ELSE 3
           [] OTHER -> size = OperandBytes(insn.op)
  BY Zenon DEF Encoded
<1>3. TABLESWITCH # LOOKUPSWITCH /\ TABLESWITCH # WIDE /\ LOOKUPSWITCH # WIDE
  BY DEF TABLESWITCH, LOOKUPSWITCH, WIDE
<1>4. CASE insn.op = TABLESWITCH BY <1>1, <1>2, <1>3, <1>4, Zenon DEF Variable
<1>5. CASE insn.op = LOOKUPSWITCH BY <1>1, <1>2, <1>3, <1>5, Zenon DEF Variable
<1>6. CASE insn.op = WIDE BY <1>1, <1>2, <1>3, <1>6, Zenon DEF Variable
<1>7. CASE insn.op \notin Variable
  <2>1. insn.op # TABLESWITCH /\ insn.op # LOOKUPSWITCH /\ insn.op # WIDE
    BY <1>7 DEF Variable
  <2> QED BY <1>1, <1>2, <2>1, Zenon
<1> QED BY <1>4, <1>5, <1>6, <1>7 DEF Variable

\* An instruction has a length, and a positive one.
LEMMA LengthType ==
  ASSUME NEW insn \in Encoded, NEW p \in Nat
  PROVE  /\ Gap(insn, p) \in 0..3
         /\ Length(insn, p) \in Nat
         /\ Length(insn, p) >= 1
         /\ Length(insn, p) = 1 + Gap(insn, p) + Len(insn.args)
<1>1. Len(insn.args) \in Nat BY EncodedParts
<1>2. p % 4 \in 0..3 OBVIOUS
<1>3. Gap(insn, p) \in 0..3 BY <1>2 DEF Gap
<1> QED BY <1>1, <1>3 DEF Length

-----------------------------------------------------------------------------
\* The reads of getInstructionLength at an instruction of the method: they are
\* inside the code, and find what the compiler put there.
LEMMA Reads ==
  ASSUME TypeOK, Laid, NEW i \in 1..Len(listing), Measured(i)
  PROVE  /\ starts[i] \in Nat
         /\ starts[i] < Len(bytes)
         /\ bytes[starts[i] + 1] = listing[i].op
         /\ listing[i] \in Encoded
         /\ LastRead(starts[i]) < Len(bytes)
         /\ Start(i + 1) = starts[i] + Length(listing[i], starts[i])
         /\ \A low, high \in Stray :
              InstructionLengthAt(starts[i], low, high) = Length(listing[i], starts[i])
<1> DEFINE insn == listing[i]
           s == insn.args
           p == starts[i]
           size == Len(s)
           gap == Gap(insn, p)
<1>1. insn \in Encoded BY InsnsAssumption DEF TypeOK
<1>2. insn.op \in OpCode /\ s \in Seq(Byte) BY <1>1, EncodedParts, Zenon
<1>3. size \in Nat /\ \A j \in 1..size : s[j] \in 0..255
  <2> HIDE DEF s
  <2>1. size \in Nat BY <1>2
  <2>2. \A j \in 1..size : s[j] \in Byte BY <1>2, <2>1
  <2> QED BY <2>1, <2>2 DEF Byte
<1>4. p \in Nat /\ Len(bytes) \in Nat BY DEF TypeOK
<1>5. /\ gap \in 0..3
      /\ Length(insn, p) = 1 + gap + size
  BY <1>1, <1>4, LengthType
<1>6. /\ Start(i + 1) = p + Length(insn, p)
      /\ Start(i + 1) <= Len(bytes)
      /\ bytes[p + 1] = insn.op
      /\ \A j \in 1..size : bytes[p + 1 + gap + j] = s[j]
  BY Zenon DEF Laid
<1> HIDE DEF insn, s, p, size, gap
<1>7. p + 1 + gap + size <= Len(bytes) BY <1>3, <1>4, <1>5, <1>6
<1>8. p < Len(bytes) BY <1>3, <1>4, <1>5, <1>7
<1>9. /\ TABLESWITCH # LOOKUPSWITCH /\ TABLESWITCH # WIDE /\ LOOKUPSWITCH # WIDE
      /\ TABLESWITCH \in OpCode /\ LOOKUPSWITCH \in OpCode /\ WIDE \in OpCode
  BY DEF TABLESWITCH, LOOKUPSWITCH, WIDE, OpCode
<1>10. ASSUME insn.op \in Switch
       PROVE  /\ gap \in 1..3
              /\ Padding(p) = gap
              /\ 1 + gap + size \in 0..255
  <2>1. p % 4 # 3 /\ Length(insn, p) < 256 BY <1>10 DEF Measured, insn, p
  <2>2. p % 4 \in 0..2 BY <1>4, <2>1
  <2>3. (p + 1) % 4 = (p % 4) + 1 BY <1>4, <2>2
  <2>4. Padding(p) = 3 - (p % 4) BY <2>2, <2>3 DEF Padding
  <2>5. gap = 3 - (p % 4) BY <1>10, Zenon DEF Gap, gap
  <2>6. gap \in 1..3 BY <2>2, <2>5
  <2>7. Padding(p) = gap BY <2>4, <2>5
  <2>8. 1 + gap + size \in 0..255 BY <1>3, <1>5, <2>1
  <2> QED BY <2>6, <2>7, <2>8
<1> DEFINE Goal ==
      /\ LastRead(p) < Len(bytes)
      /\ \A low, high \in Stray :
           InstructionLengthAt(p, low, high) = 1 + gap + size
<1>11. ASSUME insn.op = TABLESWITCH
       PROVE  Goal
  <2> DEFINE q == p + 1 + Padding(p)
  <2>1. /\ size >= 16
        /\ (4 * (s[12] - s[8] + 1) - (size - 12)) % 256 = 0
    BY <1>1, <1>11, EncodedParts DEF s, size
  <2>2. gap \in 1..3 /\ Padding(p) = gap /\ 1 + gap + size \in 0..255
    BY <1>10, <1>11 DEF Switch
  <2>3. q = p + 1 + gap /\ q \in Nat BY <1>4, <2>2
  <2>4. LastRead(p) = q + 11 BY <1>6, <1>9, <1>11, Zenon DEF LastRead
  <2>5. s[12] \in Int /\ s[8] \in Int /\ 12 \in 1..size /\ 8 \in 1..size
    <3>1. 12 \in 1..size /\ 8 \in 1..size BY <1>3, <2>1
    <3>2. s[12] \in 0..255 /\ s[8] \in 0..255 BY <1>3, <3>1
    <3>3. \A n \in 0..255 : n \in Int OBVIOUS
    <3> QED BY <3>1, <3>2, <3>3, Zenon
  <2>6. bytes[q + 12] = s[12] /\ bytes[q + 8] = s[8]
    BY <1>6, <2>3, <2>5
  <2>7. q + size <= Len(bytes) BY <1>7, <2>3
  <2> HIDE DEF q
  <2>8. /\ q + 11 < Len(bytes) /\ q + 7 < Len(bytes)
        /\ q + 11 + 1 = q + 12 /\ q + 7 + 1 = q + 8
    <3>1. /\ q \in Nat /\ size \in Nat /\ size >= 16 /\ Len(bytes) \in Nat
          /\ q + size <= Len(bytes)
      BY <1>3, <1>4, <2>1, <2>3, <2>7
    <3> QED BY <3>1, SMTT(20)
  <2>9. ASSUME NEW low \in Stray, NEW high \in Stray
        PROVE  InstructionLengthAt(p, low, high) = 1 + gap + size
    <3>1. Read(q + 11, high) = s[12] /\ Read(q + 7, low) = s[8]
      BY <2>6, <2>8 DEF Read
    <3>2. InstructionLengthAt(p, low, high)
            = (1 + Padding(p) + 12
                 + 4 * (Read(q + 11, high) - Read(q + 7, low) + 1)) % 256
      BY <1>6, <1>9, <1>11, Zenon DEF InstructionLengthAt, q
    <3> DEFINE a == 1 + gap + 12 + 4 * (s[12] - s[8] + 1)
               b == 1 + gap + size
    <3>3. InstructionLengthAt(p, low, high) = a % 256
      BY <2>2, <3>1, <3>2
    <3>4. /\ a \in Int /\ b \in 0..255
          /\ a - b = 4 * (s[12] - s[8] + 1) - (size - 12)
      <4>1. gap \in Int /\ size \in Int /\ 1 + gap + size \in 0..255 BY <1>3, <2>2
      <4> DEFINE d == s[12] - s[8] + 1
      <4>2. d \in Int BY <2>5
      <4> HIDE DEF d
      <4>3. a \in Int /\ a - b = 4 * d - (size - 12) BY <4>1, <4>2 DEF d
      <4> QED BY <4>1, <4>3 DEF d
    <3>5. (a - b) % 256 = 0 BY <2>1, <3>4
    <3> HIDE DEF a, b
    <3>6. a % 256 = b BY <3>4, <3>5, FitsByte
    <3> QED BY <3>3, <3>6 DEF b
  <2> QED BY <2>4, <2>8, <2>9
<1>12. ASSUME insn.op = LOOKUPSWITCH
       PROVE  Goal
  <2> DEFINE q == p + 1 + Padding(p)
  <2>1. /\ size >= 8
        /\ (8 * s[8] - (size - 8)) % 256 = 0
    BY <1>1, <1>12, EncodedParts DEF s, size
  <2>2. gap \in 1..3 /\ Padding(p) = gap /\ 1 + gap + size \in 0..255
    BY <1>10, <1>12 DEF Switch
  <2>3. q = p + 1 + gap /\ q \in Nat BY <1>4, <2>2
  <2>4. LastRead(p) = q + 7 BY <1>6, <1>9, <1>12, Zenon DEF LastRead
  <2>5. s[8] \in Int /\ 8 \in 1..size
    <3>1. 8 \in 1..size BY <1>3, <2>1
    <3>2. s[8] \in 0..255 BY <1>3, <3>1
    <3>3. \A n \in 0..255 : n \in Int OBVIOUS
    <3> QED BY <3>1, <3>2, <3>3, Zenon
  <2>6. bytes[q + 8] = s[8] BY <1>6, <2>3, <2>5
  <2>7. q + size <= Len(bytes) BY <1>7, <2>3
  <2> HIDE DEF q
  <2>8. q + 7 < Len(bytes) /\ q + 7 + 1 = q + 8
    BY <1>3, <1>4, <2>1, <2>3, <2>7
  <2>9. ASSUME NEW low \in Stray, NEW high \in Stray
        PROVE  InstructionLengthAt(p, low, high) = 1 + gap + size
    <3>1. Read(q + 7, low) = s[8] BY <2>6, <2>8 DEF Read
    <3>2. InstructionLengthAt(p, low, high)
            = (1 + Padding(p) + 8 + 8 * Read(q + 7, low)) % 256
      BY <1>6, <1>9, <1>12, Zenon DEF InstructionLengthAt, q
    <3> DEFINE a == 1 + gap + 8 + 8 * s[8]
               b == 1 + gap + size
    <3>3. InstructionLengthAt(p, low, high) = a % 256
      BY <2>2, <3>1, <3>2
    <3>4. /\ a \in Int /\ b \in 0..255
          /\ a - b = 8 * s[8] - (size - 8)
      <4>1. gap \in Int /\ size \in Int /\ 1 + gap + size \in 0..255 BY <1>3, <2>2
      <4> QED BY <2>5, <4>1, SMTT(20)
    <3>5. (a - b) % 256 = 0 BY <2>1, <3>4
    <3> HIDE DEF a, b
    <3>6. a % 256 = b BY <3>4, <3>5, FitsByte
    <3> QED BY <3>3, <3>6 DEF b
  <2> QED BY <2>4, <2>8, <2>9
<1>13. ASSUME insn.op = WIDE
       PROVE  Goal
  <2>1. size = IF s[1] = IINC THEN 5 ELSE 3
    BY <1>1, <1>13, EncodedParts DEF s, size
  <2>2. gap = 0 BY <1>9, <1>13, Zenon DEF Gap, Switch, gap
  <2>3. LastRead(p) = p + 1 BY <1>6, <1>9, <1>13, Zenon DEF LastRead
  <2>4. p + 1 < Len(bytes) BY <1>4, <1>7, <2>1, <2>2
  <2>5. 1 \in 1..size BY <2>1
  <2>6. p + 1 + gap + 1 = p + 1 + 1 BY <1>4, <2>2
  <2>7. bytes[p + 1 + 1] = s[1] BY <1>6, <2>5, <2>6
  <2>8. ASSUME NEW low \in Stray, NEW high \in Stray
        PROVE  InstructionLengthAt(p, low, high) = 1 + gap + size
    <3>1. Read(p + 1, low) = s[1] BY <2>4, <2>7, Zenon DEF Read
    <3>2. InstructionLengthAt(p, low, high)
            = IF Read(p + 1, low) = IINC THEN 6 ELSE 4
      BY <1>6, <1>9, <1>13, Zenon DEF InstructionLengthAt
    <3> QED BY <2>1, <2>2, <3>1, <3>2
  <2> QED BY <2>3, <2>4, <2>8
<1>14. ASSUME insn.op \notin Variable
       PROVE  Goal
  <2>1. insn.op # TABLESWITCH /\ insn.op # LOOKUPSWITCH /\ insn.op # WIDE
    BY <1>14 DEF Variable
  <2>2. size = OperandBytes(insn.op) BY <1>1, <1>14, EncodedParts DEF s, size
  <2>3. gap = 0 BY <2>1, Zenon DEF Gap, Switch, gap
  <2>4. LastRead(p) = p BY <1>6, <2>1, Zenon DEF LastRead
  <2>5. TableLength(insn.op) = 1 + OperandBytes(insn.op)
    BY <1>2, <1>14, TableAssumption, Zenon
  <2>6. ASSUME NEW low \in Stray, NEW high \in Stray
        PROVE  InstructionLengthAt(p, low, high) = TableLength(insn.op)
    BY <1>2, <1>6, <2>1, Zenon DEF InstructionLengthAt
  <2>7. 1 + gap + size = 1 + OperandBytes(insn.op) BY <1>3, <2>2, <2>3
  <2> QED BY <1>8, <2>4, <2>5, <2>6, <2>7
<1>15. Goal
  BY <1>11, <1>12, <1>13, <1>14, Zenon DEF Variable
<1> QED BY <1>1, <1>4, <1>5, <1>6, <1>8, <1>15 DEF insn, p

-----------------------------------------------------------------------------
\* The empty method.
LEMMA InitIInv == Init => IInv
<1> SUFFICES ASSUME Init PROVE IInv OBVIOUS
<1>1. /\ listing = <<>> /\ starts = <<>> /\ bytes = <<>> /\ phase = "emitting"
      /\ pos = 0 /\ instructions = <<>> /\ location = 0 /\ ins = 0
  BY DEF Init
<1>2. TypeOK
  <2>1. /\ <<>> \in Seq(Insns) /\ <<>> \in Seq(Nat) /\ <<>> \in Seq(Byte)
        /\ Len(<<>>) = 0 /\ 0 \in Nat /\ 0 \in 0..0
    OBVIOUS
  <2> QED BY <1>1, <2>1 DEF TypeOK, Phase
<1>3. Laid
  <2>1. Len(listing) = 0 /\ Len(starts) = 0 /\ Len(bytes) = 0 BY <1>1
  <2>2. Start(1) = 0 BY <2>1 DEF Start
  <2> QED BY <2>1, <2>2, BoundsAssumption DEF Laid
<1>4. InStep /\ RefusesNone /\ Searched BY <1>1 DEF InStep, RefusesNone, Searched
<1> QED BY <1>2, <1>3, <1>4 DEF IInv

\* One more instruction: those before it stay where they are.
LEMMA EmitIInv ==
  ASSUME IInv, NEW insn \in Insns, Emit(insn)
  PROVE  IInv'
<1> DEFINE n == Len(listing)
           p == Len(bytes)
           gap == Gap(insn, p)
           size == Len(insn.args)
           written == <<insn.op>> \o Zeros(gap) \o insn.args
<1> USE DEF IInv
<1>1. /\ listing \in Seq(Insns) /\ starts \in Seq(Nat) /\ Len(starts) = n
      /\ bytes \in Seq(Byte) /\ n \in Nat /\ p \in Nat
  BY DEF TypeOK
<1>2. /\ phase = "emitting" /\ n < MaxInsns
      /\ listing' = Append(listing, insn)
      /\ starts' = Append(starts, p)
      /\ bytes' = bytes \o written
      /\ phase' = phase /\ pos' = pos /\ instructions' = instructions
      /\ location' = location /\ ins' = ins
  BY DEF Emit
<1>3. insn \in Encoded BY InsnsAssumption
<1>4. insn.op \in Byte /\ insn.args \in Seq(Byte) /\ size \in Nat
  BY <1>3, EncodedParts DEF OpCode, Byte
<1>5. gap \in 0..3 /\ Length(insn, p) = 1 + gap + size
  BY <1>1, <1>3, LengthType
<1> HIDE DEF gap, size
<1>6. Zeros(gap) \in Seq(Byte) /\ Len(Zeros(gap)) = gap
  BY <1>5 DEF Zeros, Byte
<1>7. /\ written \in Seq(Byte)
      /\ Len(written) = 1 + gap + size
      /\ written[1] = insn.op
      /\ \A j \in 1..size : written[1 + gap + j] = insn.args[j]
  <2> DEFINE front == <<insn.op>> \o Zeros(gap)
             args == insn.args
  <2>1. args \in Seq(Byte) /\ Len(args) = size BY <1>4 DEF size
  <2>2. front \in Seq(Byte) /\ Len(front) = 1 + gap /\ front[1] = insn.op
    BY <1>4, <1>5, <1>6
  <2> HIDE DEF front, args
  <2>3. written = front \o args BY Zenon DEF front, args
  <2> HIDE DEF written
  <2>4. written \in Seq(Byte) BY <2>1, <2>2, <2>3, Written
  <2>5. Len(written) = 1 + gap + size BY <2>1, <2>2, <2>3, Written
  <2>6. written[1] = insn.op
    <3>1. 1 \in 1..Len(front) BY <1>5, <2>2
    <3> QED BY <2>1, <2>2, <2>3, <3>1, Written
  <2>7. \A j \in 1..size : written[1 + gap + j] = args[j]
    BY <2>1, <2>2, <2>3, Written
  <2> QED BY <2>4, <2>5, <2>6, <2>7 DEF args
<1> HIDE DEF written
<1>8. /\ bytes' \in Seq(Byte)
      /\ Len(bytes') = p + 1 + gap + size
      /\ \A j \in 1..p : bytes'[j] = bytes[j]
      /\ \A j \in 1..(1 + gap + size) : bytes'[p + j] = written[j]
  <2>1. bytes' = bytes \o written BY <1>2
  <2>2. bytes' \in Seq(Byte) BY <1>1, <1>7, <2>1, Written
  <2>3. Len(bytes') = p + (1 + gap + size)
    <3>1. Len(bytes \o written) = p + Len(written) BY <1>1, <1>7, Written, Zenon
    <3> QED BY <1>7, <2>1, <3>1, Zenon
  <2>4. \A j \in 1..p : bytes'[j] = bytes[j] BY <1>1, <1>7, <2>1, Written
  <2>5. \A j \in 1..(1 + gap + size) : bytes'[p + j] = written[j]
    BY <1>1, <1>7, <2>1, Written
  <2>6. Len(bytes') = p + 1 + gap + size BY <1>1, <1>4, <1>5, <2>3
  <2> QED BY <2>2, <2>4, <2>5, <2>6
<1>9. /\ listing' \in Seq(Insns) /\ Len(listing') = n + 1
      /\ \A i \in 1..n : listing'[i] = listing[i]
      /\ listing'[n + 1] = insn
      /\ starts' \in Seq(Nat) /\ Len(starts') = n + 1
      /\ \A i \in 1..n : starts'[i] = starts[i]
      /\ starts'[n + 1] = p
  BY <1>1, <1>2
<1>10. TypeOK'
  <2>1. /\ phase \in Phase /\ pos \in Nat /\ instructions \in Seq(Nat)
        /\ location \in Nat /\ ins \in 0..Len(instructions)
    BY DEF TypeOK
  <2> QED BY <1>2, <1>8, <1>9, <2>1 DEF TypeOK
<1>11. \A i \in 1..(n + 1) : Start(i)' = Start(i)
  <2> SUFFICES ASSUME NEW i \in 1..(n + 1) PROVE Start(i)' = Start(i)
    OBVIOUS
  <2>1. CASE i = n + 1 BY <1>1, <1>9, <2>1 DEF Start
  <2>2. CASE i # n + 1 BY <1>1, <1>9, <2>2 DEF Start
  <2> QED BY <2>1, <2>2
<1>12. ASSUME NEW i \in Nat, i = n + 2
       PROVE  Start(i)' = p + 1 + gap + size
  BY <1>1, <1>8, <1>9, <1>12 DEF Start
<1>13. Laid'
  <2>1. Len(listing') <= MaxInsns BY <1>1, <1>2, <1>9, BoundsAssumption
  <2>2. Start(1)' = 0 BY <1>1, <1>11 DEF Laid
  <2>3. ASSUME NEW i \in 1..Len(listing')
        PROVE  /\ Start(i + 1)' = starts'[i] + Length(listing'[i], starts'[i])
               /\ Start(i + 1)' <= Len(bytes')
               /\ bytes'[starts'[i] + 1] = listing'[i].op
               /\ \A j \in 1..Len(listing'[i].args) :
                    bytes'[starts'[i] + 1 + Gap(listing'[i], starts'[i]) + j]
                      = listing'[i].args[j]
    <3>1. CASE i = n + 1
      <4>1. listing'[i] = insn /\ starts'[i] = p /\ i + 1 = n + 2
        BY <1>1, <1>9, <3>1
      <4>2. Start(i + 1)' = p + Length(insn, p) /\ Start(i + 1)' <= Len(bytes')
        <5>1. Start(i + 1)' = p + 1 + gap + size BY <1>1, <1>12, <4>1
        <5>2. p + Length(insn, p) = p + 1 + gap + size BY <1>1, <1>4, <1>5
        <5>3. Start(i + 1)' = p + Length(insn, p) BY <5>1, <5>2, Zenon
        <5>4. p + 1 + gap + size \in Nat BY <1>1, <1>4, <1>5
        <5>5. Start(i + 1)' <= Len(bytes') BY <1>8, <5>1, <5>4
        <5> QED BY <5>3, <5>5
      <4>3. bytes'[p + 1] = insn.op BY <1>4, <1>5, <1>7, <1>8
      <4>4. ASSUME NEW j \in 1..size
            PROVE  bytes'[p + 1 + gap + j] = insn.args[j]
        <5>1. 1 + gap + j \in 1..(1 + gap + size) BY <1>4, <1>5
        <5>2. bytes'[p + (1 + gap + j)] = written[1 + gap + j] BY <1>8, <5>1
        <5>3. p + (1 + gap + j) = p + 1 + gap + j BY <1>1, <1>5
        <5> QED BY <1>7, <5>2, <5>3
      <4> QED BY <4>1, <4>2, <4>3, <4>4, Zenon DEF gap, size
    <3>2. CASE i # n + 1
      <4> DEFINE y == listing[i]
                 q == starts[i]
      <4>1. i \in 1..n /\ i + 1 \in 1..(n + 1) BY <1>1, <1>9, <3>2
      <4>2. listing'[i] = y /\ starts'[i] = q /\ Start(i + 1)' = Start(i + 1)
        BY <1>9, <1>11, <4>1
      <4>3. /\ Start(i + 1) = q + Length(y, q)
            /\ Start(i + 1) <= p
            /\ bytes[q + 1] = y.op
            /\ \A j \in 1..Len(y.args) : bytes[q + 1 + Gap(y, q) + j] = y.args[j]
        BY <4>1, Zenon DEF Laid
      <4>4. y \in Encoded /\ q \in Nat BY <1>1, <4>1, InsnsAssumption
      <4>5. /\ Gap(y, q) \in 0..3 /\ Length(y, q) \in Nat /\ Length(y, q) >= 1
            /\ Length(y, q) = 1 + Gap(y, q) + Len(y.args)
        BY <4>4, LengthType
      <4>6. Len(y.args) \in Nat BY <4>4, EncodedParts
      <4> DEFINE g == Gap(y, q)
                 k == Len(y.args)
      <4>7. q \in Nat /\ g \in 0..3 /\ k \in Nat /\ q + 1 + g + k <= p
        <5> HIDE DEF y, q
        <5>1. g \in 0..3 /\ k \in Nat /\ q \in Nat BY <4>4, <4>5, <4>6
        <5>2. Start(i + 1) = q + (1 + g + k) /\ Start(i + 1) <= p
          BY <4>3, <4>5, Zenon
        <5> HIDE DEF g, k
        <5> QED BY <1>1, <5>1, <5>2
      <4>8. bytes[q + 1] = y.op /\ \A j \in 1..k : bytes[q + 1 + g + j] = y.args[j]
        BY <4>3, Zenon
      <4>9. Start(i + 1) <= Len(bytes')
        <5>1. Start(i + 1) = q + (1 + g + k) BY <4>3, <4>5, Zenon
        <5> HIDE DEF q, y, g, k
        <5> QED BY <1>1, <1>4, <1>5, <1>8, <4>7, <5>1
      <4> HIDE DEF q, y, g, k
      <4>10. bytes'[q + 1] = y.op
        <5>1. q + 1 \in 1..p BY <1>1, <4>7
        <5> QED BY <1>8, <4>8, <5>1
      <4>11. ASSUME NEW j \in 1..k
             PROVE  bytes'[q + 1 + g + j] = y.args[j]
        <5>1. q + 1 + g + j \in 1..p BY <1>1, <4>7
        <5> QED BY <1>8, <4>8, <5>1
      <4> QED BY <4>2, <4>3, <4>9, <4>10, <4>11, Zenon DEF g, k
    <3> QED BY <3>1, <3>2
  <2> QED BY <2>1, <2>2, <2>3, Zenon DEF Laid
<1>14. InStep' /\ RefusesNone' /\ Searched'
  BY <1>2 DEF InStep, RefusesNone, Searched
<1> QED BY <1>10, <1>13, <1>14

\* The method stays as it is while the agent works, and with it what is said
\* of the method.
LEMMA MethodKept ==
  ASSUME TypeOK, Laid, UNCHANGED method
  PROVE  /\ Laid'
         /\ \A i \in Nat : Start(i)' = Start(i)
         /\ \A i \in Nat : Measured(i)' = Measured(i)
         /\ \A i \in 1..Len(starts) : starts[i] < Len(bytes)
<1>1. listing' = listing /\ starts' = starts /\ bytes' = bytes BY DEF method
<1>2. \A i \in Nat : Start(i)' = Start(i) BY <1>1 DEF Start
<1>3. \A i \in Nat : Measured(i)' = Measured(i) BY <1>1 DEF Measured
<1>4. Laid'
  <2>1. ASSUME NEW i \in 1..Len(listing)
        PROVE  /\ Start(i + 1)' = starts[i] + Length(listing[i], starts[i])
               /\ Start(i + 1)' <= Len(bytes)
               /\ bytes[starts[i] + 1] = listing[i].op
               /\ \A j \in 1..Len(listing[i].args) :
                    bytes[starts[i] + 1 + Gap(listing[i], starts[i]) + j]
                      = listing[i].args[j]
    <3>1. i + 1 \in Nat OBVIOUS
    <3>2. Start(i + 1)' = Start(i + 1) BY <1>2, <3>1
    <3> QED BY <3>2, Zenon DEF Laid
  <2>2. Len(listing) <= MaxInsns /\ Start(1)' = 0 BY <1>2 DEF Laid
  <2> QED BY <1>1, <2>1, <2>2, Zenon DEF Laid
<1>5. ASSUME NEW i \in 1..Len(starts) PROVE starts[i] < Len(bytes)
  <2>1. i \in 1..Len(listing) /\ starts[i] \in Nat /\ listing[i] \in Encoded
    BY InsnsAssumption DEF TypeOK
  <2> DEFINE q == starts[i]
             k == Length(listing[i], q)
  <2>2. q + k <= Len(bytes) BY <2>1, Zenon DEF Laid
  <2>3. k \in Nat /\ k >= 1 BY <2>1, LengthType
  <2>4. Len(bytes) \in Nat BY DEF TypeOK
  <2> HIDE DEF q, k
  <2>5. q < Len(bytes) BY <2>1, <2>2, <2>3, <2>4 DEF q
  <2> QED BY <2>5 DEF q
<1> QED BY <1>2, <1>3, <1>4, <1>5

\* Nothing has been listed when an instruction throws.
LEMMA ConstructIInv ==
  ASSUME IInv, Construct
  PROVE  IInv'
<1> USE DEF IInv
<1>1. /\ phase = "emitting" /\ phase' = "listing"
      /\ pos' = pos /\ instructions' = instructions /\ ins' = ins
      /\ UNCHANGED method
      /\ \E i \in 1..Len(starts) : location' = starts[i]
  BY DEF Construct
<1>2. listing' = listing /\ starts' = starts /\ bytes' = bytes BY <1>1 DEF method
<1>3. Laid' /\ Start(1)' = Start(1) BY <1>1, MethodKept
<1>4. instructions = <<>> /\ pos = 0 /\ ins = 0 /\ Len(instructions) = 0
  BY <1>1 DEF Searched
<1>5. TypeOK'
  <2>1. location' \in Nat BY <1>1 DEF TypeOK
  <2> QED BY <1>1, <1>2, <2>1 DEF TypeOK, Phase
<1>6. InStep'
  <2>1. Len(starts) \in Nat BY DEF TypeOK
  <2>2. Start(1)' = 0 BY <1>3 DEF Laid
  <2> QED BY <1>1, <1>2, <1>4, <2>1, <2>2 DEF InStep
<1>7. RefusesNone' /\ Searched' BY <1>1, <1>2, <1>4 DEF RefusesNone, Searched
<1> QED BY <1>3, <1>5, <1>6, <1>7

\* Wherever it is called, getInstructionLength returns a number.
LEMMA LengthAtType ==
  ASSUME TypeOK, NEW q \in Nat, q < Len(bytes), NEW low \in Stray, NEW high \in Stray
  PROVE  InstructionLengthAt(q, low, high) \in Nat
<1> DEFINE op == bytes[q + 1]
           r == q + 1 + Padding(q)
<1>1. \A i \in Nat : i < Len(bytes) => bytes[i + 1] \in 0..255
  <2>1. bytes \in Seq(Byte) /\ Len(bytes) \in Nat BY DEF TypeOK
  <2>2. \A i \in 1..Len(bytes) : bytes[i] \in Byte BY <2>1
  <2>3. \A i \in Nat : i < Len(bytes) => i + 1 \in 1..Len(bytes) BY <2>1
  <2> QED BY <2>2, <2>3, Zenon DEF Byte
<1>2. low \in 0..255 /\ high \in 0..255 BY StrayAssumption DEF Byte
<1>3. Padding(q) \in 1..4
  <2>1. (q + 1) % 4 \in 0..3 OBVIOUS
  <2> QED BY <2>1 DEF Padding
<1>4. r \in Nat BY <1>3
<1>5. \A i \in Nat : Read(i, low) \in 0..255 /\ Read(i, high) \in 0..255
  BY <1>1, <1>2, Zenon DEF Read
<1> HIDE DEF op, r
<1>6. r + 11 \in Nat /\ r + 7 \in Nat BY <1>4
<1>7. \A n \in 0..255 : n \in Int OBVIOUS
<1>8. Read(r + 11, high) \in Int /\ Read(r + 7, low) \in Int
  BY <1>5, <1>6, <1>7, Zenon
<1>9. \A n \in Int : n % 256 \in Nat OBVIOUS
<1>10. (1 + Padding(q) + 12 + 4 * (Read(r + 11, high) - Read(r + 7, low) + 1)) % 256
         \in Nat
  <2> DEFINE d == Read(r + 11, high) - Read(r + 7, low) + 1
             n == 1 + Padding(q) + 12 + 4 * d
  <2>1. d \in Int BY <1>8
  <2> HIDE DEF d
  <2>2. n \in Int BY <1>3, <2>1
  <2> HIDE DEF n
  <2>3. n % 256 \in Nat BY <2>2, <1>9
  <2> QED BY <2>3, Zenon DEF n, d
<1>11. (1 + Padding(q) + 8 + 8 * Read(r + 7, low)) % 256 \in Nat
  BY <1>3, <1>8, <1>9, SMTT(20)
<1>12. op \in OpCode => TableLength(op) \in Nat
  <2>1. OperandBytes(op) \in Nat BY DEF OperandBytes
  <2>2. op \in OpCode => TableLength(op) \in {0, 1 + OperandBytes(op)}
    BY TableAssumption
  <2> QED BY <2>1, <2>2
<1>13. low \in Nat /\ 6 \in Nat /\ 4 \in Nat BY <1>2
<1>14. CASE op \notin OpCode
  <2>1. op # WIDE /\ op # TABLESWITCH /\ op # LOOKUPSWITCH
    BY <1>14 DEF OpCode, WIDE, TABLESWITCH, LOOKUPSWITCH
  <2>2. InstructionLengthAt(q, low, high) = low
    BY <1>14, <2>1, Zenon DEF InstructionLengthAt, op
  <2> QED BY <1>13, <2>2
<1>15. CASE op \in OpCode
  <2>1. CASE op = WIDE
    <3>1. InstructionLengthAt(q, low, high) \in {4, 6}
      BY <1>15, <2>1 DEF InstructionLengthAt, op, WIDE, TABLESWITCH, LOOKUPSWITCH
    <3> QED BY <3>1
  <2>2. CASE op = TABLESWITCH
    <3>1. InstructionLengthAt(q, low, high)
            = (1 + Padding(q) + 12
                 + 4 * (Read(r + 11, high) - Read(r + 7, low) + 1)) % 256
      <4>1. TABLESWITCH # WIDE /\ TABLESWITCH # LOOKUPSWITCH
        BY DEF TABLESWITCH, WIDE, LOOKUPSWITCH
      <4> QED BY <1>15, <2>2, <4>1, Zenon DEF InstructionLengthAt, op, r
    <3> QED BY <1>10, <3>1, Zenon
  <2>3. CASE op = LOOKUPSWITCH
    <3>1. InstructionLengthAt(q, low, high)
            = (1 + Padding(q) + 8 + 8 * Read(r + 7, low)) % 256
      <4>1. LOOKUPSWITCH # WIDE /\ TABLESWITCH # LOOKUPSWITCH
        BY DEF TABLESWITCH, WIDE, LOOKUPSWITCH
      <4> QED BY <1>15, <2>3, <4>1, Zenon DEF InstructionLengthAt, op, r
    <3> QED BY <1>11, <3>1, Zenon
  <2>4. CASE op # WIDE /\ op # TABLESWITCH /\ op # LOOKUPSWITCH
    <3>1. InstructionLengthAt(q, low, high) = TableLength(op)
      BY <1>15, <2>4, Zenon DEF InstructionLengthAt, op
    <3> QED BY <1>12, <1>15, <3>1
  <2> QED BY <2>1, <2>2, <2>3, <2>4
<1> QED BY <1>14, <1>15

\* In step, and not at the end: pos is where an instruction begins.
LEMMA AtInstruction ==
  ASSUME IInv, phase = "listing", SoFarMeasured, pos < Len(bytes)
  PROVE  /\ Len(instructions) + 1 \in 1..Len(listing)
         /\ pos = starts[Len(instructions) + 1]
<1> DEFINE k == Len(instructions)
<1>1. /\ k <= Len(starts) /\ pos = Start(k + 1)
  BY DEF IInv, InStep
<1>2. /\ k \in Nat /\ Len(starts) \in Nat /\ Len(listing) = Len(starts)
      /\ Len(bytes) \in Nat /\ pos \in Nat
  BY DEF IInv, TypeOK
<1> HIDE DEF k
<1>3. k + 1 <= Len(starts) BY <1>1, <1>2 DEF Start
<1>4. pos = starts[k + 1] BY <1>1, <1>3 DEF Start
<1> QED BY <1>2, <1>3, <1>4 DEF k

\* One more position: the next instruction's, if the last was measured right.
LEMMA ListIInv ==
  ASSUME IInv, NEW low \in Stray, NEW high \in Stray, List(low, high)
  PROVE  IInv'
<1> DEFINE k == Len(instructions)
           len == InstructionLengthAt(pos, low, high)
<1>1. /\ phase = "listing" /\ pos < Len(bytes)
      /\ instructions' = Append(instructions, pos)
      /\ pos' = pos + len
      /\ phase' = phase /\ location' = location /\ ins' = ins
      /\ UNCHANGED method
  BY DEF List
<1>2. listing' = listing /\ starts' = starts /\ bytes' = bytes BY <1>1 DEF method
<1>3. TypeOK /\ Laid /\ Searched BY DEF IInv
<1>4. pos \in Nat /\ instructions \in Seq(Nat) /\ k \in Nat BY <1>3 DEF TypeOK
<1>5. len \in Nat BY <1>1, <1>3, <1>4, LengthAtType
<1> HIDE DEF len
<1>6. /\ instructions' \in Seq(Nat) /\ Len(instructions') = k + 1
      /\ \A i \in 1..k : instructions'[i] = instructions[i]
      /\ instructions'[k + 1] = pos
  BY <1>1, <1>4
<1>7. ins = 0 BY <1>1, <1>3 DEF Searched
<1>8. TypeOK'
  <2>1. pos' \in Nat BY <1>1, <1>4, <1>5
  <2>2. ins' \in 0..Len(instructions') BY <1>1, <1>4, <1>6, <1>7
  <2> QED BY <1>1, <1>2, <1>3, <1>6, <2>1, <2>2 DEF TypeOK
<1>9. /\ Laid'
      /\ \A i \in Nat : Start(i)' = Start(i)
      /\ \A i \in Nat : Measured(i)' = Measured(i)
  BY <1>1, <1>3, MethodKept
<1>10. InStep'
  <2> SUFFICES ASSUME SoFarMeasured'
               PROVE  /\ Len(instructions') <= Len(starts')
                      /\ \A i \in 1..Len(instructions') : instructions'[i] = starts'[i]
                      /\ pos' = Start(Len(instructions) + 1)'
    BY DEF InStep
  <2>1. \A i \in 1..(k + 1) : i <= Len(listing) => Measured(i)
    BY <1>2, <1>4, <1>6, <1>9 DEF SoFarMeasured
  <2>2. SoFarMeasured BY <1>4, <2>1 DEF SoFarMeasured
  <2>3. k + 1 \in 1..Len(listing) /\ pos = starts[k + 1]
    BY <1>1, <2>2, AtInstruction
  <2>4. Measured(k + 1)
    <3>1. Len(listing) \in Nat BY <1>3 DEF TypeOK
    <3> QED BY <1>4, <2>1, <2>3, <3>1
  <2>5. /\ len = Length(listing[k + 1], starts[k + 1])
        /\ Start(k + 1 + 1) = starts[k + 1] + Length(listing[k + 1], starts[k + 1])
    BY <1>3, <2>3, <2>4, Reads DEF len
  <2>6. pos' = Start(k + 1 + 1) BY <1>1, <2>3, <2>5
  <2>7. Start(Len(instructions) + 1)' = Start(k + 1 + 1)
    BY <1>2, <1>6 DEF Start
  <2>8. \A i \in 1..k : instructions[i] = starts[i]
    BY <1>1, <2>2 DEF IInv, InStep
  <2>9. \A i \in 1..(k + 1) : instructions'[i] = starts[i]
    BY <1>4, <1>6, <2>3, <2>8, SMTT(20)
  <2>10. k + 1 <= Len(starts') BY <1>2, <1>3, <2>3 DEF TypeOK
  <2> QED BY <1>2, <1>6, <2>6, <2>7, <2>9, <2>10
<1>11. RefusesNone' BY <1>1 DEF RefusesNone
<1>12. Searched' BY <1>1, <1>2, <1>3 DEF Searched
<1> QED BY <1>8, <1>9, <1>10, <1>11, <1>12 DEF IInv

\* A list that is refused is not in step: in step, the opcode has an entry in
\* the table and the list has room.
LEMMA ListThrowIInv ==
  ASSUME IInv, NEW low \in Stray, ListThrow(low)
  PROVE  IInv'
<1> DEFINE k == Len(instructions)
<1>1. /\ phase = "listing" /\ pos < Len(bytes)
      /\ \/ bytes[pos + 1] \notin OpCode
         \/ k = Memory
      /\ phase' = "thrown"
      /\ pos' = pos /\ instructions' = instructions /\ location' = location
      /\ ins' = ins
      /\ UNCHANGED method
  BY DEF ListThrow
<1>2. listing' = listing /\ starts' = starts /\ bytes' = bytes BY <1>1 DEF method
<1>3. TypeOK /\ Laid /\ InStep /\ Searched BY DEF IInv
<1>4. /\ Laid'
      /\ \A i \in Nat : Measured(i)' = Measured(i)
      /\ \A i \in Nat : Start(i)' = Start(i)
  BY <1>1, <1>3, MethodKept
<1>5. TypeOK' BY <1>1, <1>2, <1>3 DEF TypeOK, Phase
<1>6. k \in Nat /\ Len(listing) \in Nat BY <1>3 DEF TypeOK
<1>7. ~SoFarMeasured
  <2> SUFFICES ASSUME SoFarMeasured PROVE FALSE OBVIOUS
  <2>1. k + 1 \in 1..Len(listing) /\ pos = starts[k + 1]
    BY <1>1, AtInstruction
  <2>2. bytes[pos + 1] = listing[k + 1].op BY <1>3, <2>1 DEF Laid
  <2>3. listing[k + 1] \in Encoded BY <1>3, <2>1, InsnsAssumption DEF TypeOK
  <2>4. bytes[pos + 1] \in OpCode BY <2>2, <2>3, EncodedParts
  <2>5. k < MaxInsns BY <1>3, <1>6, <2>1, BoundsAssumption DEF Laid
  <2> QED BY <1>1, <1>6, <2>4, <2>5, BoundsAssumption
<1>8. ~SoFarMeasured'
  BY <1>1, <1>2, <1>4, <1>6, <1>7 DEF SoFarMeasured
<1>9. InStep' /\ RefusesNone' BY <1>8 DEF InStep, RefusesNone
<1>10. Searched' BY <1>1, <1>2, <1>3 DEF Searched
<1> QED BY <1>4, <1>5, <1>9, <1>10 DEF IInv

\* The end of the list, and the search in it.
LEMMA SearchIInv ==
  ASSUME IInv, Listed \/ Search \/ Found
  PROVE  IInv'
<1> DEFINE k == Len(instructions)
<1>1. /\ phase \in {"listing", "searching"} /\ phase' \in {"searching", "found"}
      /\ pos' = pos /\ instructions' = instructions /\ location' = location
      /\ UNCHANGED method
  BY DEF Listed, Search, Found
<1>2. listing' = listing /\ starts' = starts /\ bytes' = bytes BY <1>1 DEF method
<1>3. TypeOK /\ Laid /\ InStep /\ Searched BY DEF IInv
<1>4. /\ Laid'
      /\ \A i \in Nat : Measured(i)' = Measured(i)
      /\ \A i \in Nat : Start(i)' = Start(i)
  BY <1>1, <1>3, MethodKept
<1>5. k \in Nat /\ ins \in 0..k BY <1>3 DEF TypeOK
<1>6. /\ Search => ins < k /\ instructions[ins + 1] # location /\ ins' = ins + 1
                   /\ phase = "searching" /\ phase' = "searching"
      /\ Found => Reached /\ ins' = ins /\ phase = "searching" /\ phase' = "found"
      /\ Listed => pos >= Len(bytes) /\ ins' = ins /\ phase = "listing"
                   /\ phase' = "searching"
  BY DEF Search, Found, Listed, Reached
<1>7. ins' \in 0..k BY <1>5, <1>6
<1>8. TypeOK' BY <1>1, <1>2, <1>3, <1>7 DEF TypeOK, Phase
<1>9. InStep'
  <2>1. SoFarMeasured' => SoFarMeasured
    BY <1>1, <1>2, <1>4, <1>5 DEF SoFarMeasured
  <2>2. Start(Len(instructions) + 1)' = Start(k + 1) BY <1>1, <1>2 DEF Start
  <2>3. phase # "emitting" BY <1>1
  <2> QED BY <1>1, <1>2, <1>3, <2>1, <2>2, <2>3 DEF InStep
<1>10. RefusesNone' BY <1>1 DEF RefusesNone
<1>11. Searched'
  <2>1. \E i \in 1..Len(starts) : starts[i] = location
    BY <1>1, <1>3 DEF Searched
  <2>2. pos >= Len(bytes) BY <1>1, <1>3, <1>6 DEF Searched
  <2>3. \A i \in 1..ins' : instructions[i] # location
    <3>1. CASE Listed BY <1>3, <1>6, <3>1 DEF Searched
    <3>2. CASE Found BY <1>3, <1>6, <3>2 DEF Searched
    <3>3. CASE Search
      <4>1. \A i \in 1..ins : instructions[i] # location
        BY <1>3, <1>6, <3>3 DEF Searched
      <4> QED BY <1>5, <1>6, <3>3, <4>1
    <3> QED BY <3>1, <3>2, <3>3
  <2>4. phase' = "found" => Reached'
    <3>1. Found => Reached' BY <1>1, <1>6 DEF Reached
    <3> QED BY <1>6, <3>1
  <2> QED BY <1>1, <1>2, <2>1, <2>2, <2>3, <2>4 DEF Searched
<1> QED BY <1>4, <1>8, <1>9, <1>10, <1>11 DEF IInv

\* Every step.
LEMMA StepIInv == IInv /\ [Next]_vars => IInv'
<1> SUFFICES ASSUME IInv, [Next]_vars PROVE IInv' OBVIOUS
<1>1. CASE \E insn \in Insns : Emit(insn) BY <1>1, EmitIInv
<1>2. CASE Construct BY <1>2, ConstructIInv
<1>3. CASE \E low, high \in Stray : List(low, high) \/ ListThrow(low)
  BY <1>3, ListIInv, ListThrowIInv
<1>4. CASE Listed \/ Search \/ Found BY <1>4, SearchIInv
<1>5. CASE UNCHANGED vars
  <2>1. /\ listing' = listing /\ starts' = starts /\ bytes' = bytes
        /\ phase' = phase /\ pos' = pos /\ instructions' = instructions
        /\ location' = location /\ ins' = ins
    BY <1>5 DEF vars
  <2>2. TypeOK' BY <2>1 DEF IInv, TypeOK
  <2>3. Laid' BY <2>1 DEF IInv, Laid, Start
  <2>4. SoFarMeasured' = SoFarMeasured BY <2>1 DEF SoFarMeasured, Measured
  <2>5. InStep' BY <2>1, <2>4 DEF IInv, InStep, Start
  <2>6. RefusesNone' BY <2>1, <2>4 DEF IInv, RefusesNone
  <2>7. Searched' BY <2>1 DEF IInv, Searched, Reached
  <2> QED BY <2>2, <2>3, <2>5, <2>6, <2>7 DEF IInv
<1> QED BY <1>1, <1>2, <1>3, <1>4, <1>5 DEF Next, Agent

\* In step, at the end, and past other instructions only: the one found is the
\* one that threw.
LEMMA FoundRight == IInv => FindsLocation
<1> SUFFICES ASSUME IInv, phase = "found", SoFarMeasured
             PROVE  /\ ins < Len(starts)
                    /\ starts[ins + 1] = location
                    /\ instructions = starts
  BY DEF FindsLocation
<1> DEFINE k == Len(instructions)
<1>1. /\ instructions \in Seq(Nat) /\ starts \in Seq(Nat) /\ k \in Nat
      /\ Len(starts) \in Nat /\ ins \in 0..k
  BY DEF IInv, TypeOK
<1>2. /\ k <= Len(starts) /\ pos = Start(k + 1)
      /\ \A i \in 1..k : instructions[i] = starts[i]
  BY DEF IInv, InStep
<1>3. k = Len(starts)
  <2> SUFFICES ASSUME k < Len(starts) PROVE FALSE BY <1>1, <1>2
  <2>1. k + 1 \in 1..Len(starts) BY <1>1
  <2>2. pos = starts[k + 1] BY <1>2, <2>1 DEF Start
  <2>3. starts[k + 1] < Len(bytes)
    <3>1. \A i \in 1..Len(listing) : Start(i + 1) <= Len(bytes)
                   /\ Start(i + 1) = starts[i] + Length(listing[i], starts[i])
      BY Zenon DEF IInv, Laid
    <3>2. k + 1 \in 1..Len(listing) /\ starts[k + 1] \in Nat
          /\ listing[k + 1] \in Encoded
      BY <2>1, InsnsAssumption DEF IInv, TypeOK
    <3> DEFINE len == Length(listing[k + 1], starts[k + 1])
    <3>3. len \in Nat /\ len >= 1 BY <3>2, LengthType
    <3>4. starts[k + 1] + len <= Len(bytes) BY <3>1, <3>2
    <3> HIDE DEF len
    <3>5. Len(bytes) \in Nat BY DEF IInv, TypeOK
    <3> QED BY <3>2, <3>3, <3>4, <3>5
  <2>4. pos >= Len(bytes) BY DEF IInv, Searched
  <2>5. Len(bytes) \in Nat /\ pos \in Nat BY DEF IInv, TypeOK
  <2> QED BY <2>2, <2>3, <2>4, <2>5
<1>4. instructions = starts
  <2>1. \A i \in 1..Len(instructions) : instructions[i] = starts[i]
    BY <1>2
  <2>2. Len(instructions) = Len(starts) BY <1>3
  <2> QED BY <1>1, <2>1, <2>2, SeqEqual
<1>5. PICK i \in 1..Len(starts) : starts[i] = location BY DEF IInv, Searched
<1>6. \A j \in 1..ins : starts[j] # location BY <1>4 DEF IInv, Searched
<1>7. ins < k BY <1>1, <1>3, <1>5, <1>6
<1>8. instructions[ins + 1] = location BY <1>7 DEF IInv, Searched, Reached
<1> QED BY <1>3, <1>4, <1>7, <1>8

\* What getInstructionLength reads is there, when all it meets is measured.
LEMMA ReadRight == IInv => ReadsInside
<1> SUFFICES ASSUME IInv, phase = "listing", pos < Len(bytes), AllMeasured
             PROVE  bytes[pos + 1] \in OpCode /\ LastRead(pos) < Len(bytes)
  BY DEF ReadsInside
<1> DEFINE k == Len(instructions)
<1>1. TypeOK /\ Laid BY DEF IInv
<1>2. k \in Nat BY <1>1 DEF TypeOK
<1>3. SoFarMeasured BY <1>2 DEF AllMeasured, SoFarMeasured
<1>4. k + 1 \in 1..Len(listing) /\ pos = starts[k + 1] BY <1>3, AtInstruction
<1>5. Measured(k + 1) BY <1>4 DEF AllMeasured
<1>6. /\ bytes[pos + 1] = listing[k + 1].op /\ listing[k + 1] \in Encoded
      /\ LastRead(pos) < Len(bytes)
  BY <1>1, <1>4, <1>5, Reads
<1> QED BY <1>6, EncodedParts

-----------------------------------------------------------------------------
\* The inductive invariant, for every method, however its end is over-read.
THEOREM Inductive == Spec => []IInv
<1> QED BY InitIInv, StepIInv, PTL DEF Spec

\* Type correctness.
THEOREM TypeCorrect == Spec => []TypeOK
<1>1. IInv => TypeOK BY DEF IInv
<1> QED BY <1>1, Inductive, PTL

\* The list is in step with the method up to the first switch whose operands
\* are aligned without padding or whose size does not fit a byte.
THEOREM ListInStep == Spec => []InStep
<1>1. IInv => InStep BY DEF IInv
<1> QED BY <1>1, Inductive, PTL

\* Without such a switch nothing is read beyond the code or the table.
THEOREM NoStrayRead == Spec => []ReadsInside
<1> QED BY Inductive, ReadRight, PTL

\* Nor is such a method refused.
THEOREM NoneRefused == Spec => []RefusesNone
<1>1. IInv => RefusesNone BY DEF IInv
<1> QED BY <1>1, Inductive, PTL

\* And the trace starts at the instruction that threw.
THEOREM LocationFound == Spec => []FindsLocation
<1> QED BY Inductive, FoundRight, PTL

-----------------------------------------------------------------------------
(* The loops end.                                                          *)

\* init lists no more than there is memory for.
Remembered == Len(instructions) <= Memory

\* Steps that are left at most.
Left ==
  IF phase = "listing" THEN (Memory - Len(instructions)) + Memory + 2
  ELSE IF phase = "searching" THEN (Len(instructions) - ins) + 1 ELSE 0

\* Nothing happens meanwhile but the agent's steps, and each leaves fewer.
Descends == phase \in {"listing", "searching"} => Left' \in Nat /\ Left' < Left

LEMMA AgentDescends ==
  ASSUME TypeOK, Remembered, Agent
  PROVE  Remembered' /\ Left' \in Nat /\ Left' < Left
<1>1. /\ Len(instructions) \in Nat /\ ins \in 0..Len(instructions)
      /\ instructions \in Seq(Nat) /\ pos \in Nat
  BY DEF TypeOK
<1>2. Memory \in Nat /\ Len(instructions) <= Memory
  BY BoundsAssumption DEF Remembered
<1>3. ASSUME NEW low \in Stray, NEW high \in Stray, List(low, high)
      PROVE  Remembered' /\ Left' \in Nat /\ Left' < Left
  <2>1. /\ phase = "listing" /\ phase' = "listing" /\ Len(instructions) < Memory
        /\ instructions' = Append(instructions, pos)
    BY <1>3 DEF List
  <2>2. Len(instructions') = Len(instructions) + 1 BY <1>1, <2>1
  <2> QED BY <1>1, <1>2, <2>1, <2>2 DEF Left, Remembered
<1>4. ASSUME NEW low \in Stray, ListThrow(low)
      PROVE  Remembered' /\ Left' \in Nat /\ Left' < Left
  <2>1. phase = "listing" /\ phase' = "thrown" /\ instructions' = instructions
    BY <1>4 DEF ListThrow
  <2> QED BY <1>1, <1>2, <2>1 DEF Left, Remembered
<1>5. CASE Listed
  <2>1. /\ phase = "listing" /\ phase' = "searching"
        /\ instructions' = instructions /\ ins' = ins
    BY <1>5 DEF Listed
  <2> QED BY <1>1, <1>2, <2>1 DEF Left, Remembered
<1>6. CASE Search
  <2>1. /\ phase = "searching" /\ phase' = "searching"
        /\ instructions' = instructions /\ ins' = ins + 1 /\ ins < Len(instructions)
    BY <1>6 DEF Search, Reached
  <2> QED BY <1>1, <1>2, <2>1 DEF Left, Remembered
<1>7. CASE Found
  <2>1. phase = "searching" /\ phase' = "found" /\ instructions' = instructions
    BY <1>7 DEF Found
  <2> QED BY <1>1, <1>2, <2>1 DEF Left, Remembered
<1> QED BY <1>3, <1>4, <1>5, <1>6, <1>7 DEF Agent

LEMMA NextRemembers ==
  ASSUME TypeOK, Remembered, [Next]_vars PROVE Remembered'
<1>1. CASE Agent BY <1>1, AgentDescends
<1>2. ASSUME Construct \/ UNCHANGED vars \/ \E insn \in Insns : Emit(insn)
      PROVE  instructions' = instructions
  BY <1>2 DEF Construct, Emit, vars
<1> QED BY <1>1, <1>2 DEF Next, Remembered

\* The loops of CodeAttribute::init and traceDetailedCause end for any bytes,
\* also when an instruction is measured as 0 bytes long: with the list, with an
\* exception, or when there is no more memory.
THEOREM LoopsDescend == Spec => [][Descends]_vars
<1>1. Init => Remembered
  <2>1. ASSUME Init PROVE instructions = <<>> BY <2>1 DEF Init
  <2>2. 0 <= Memory /\ Len(<<>>) = 0 BY BoundsAssumption
  <2> QED BY <2>1, <2>2 DEF Remembered
<1>2. TypeOK /\ Remembered /\ [Next]_vars => Remembered' BY NextRemembers
<1>3. ASSUME TypeOK, Remembered, [Next]_vars PROVE [Descends]_vars
  <2>1. CASE UNCHANGED vars BY <2>1
  <2>2. CASE Agent BY <1>3, <2>2, AgentDescends DEF Descends
  <2>3. ASSUME Construct \/ \E insn \in Insns : Emit(insn) PROVE phase = "emitting"
    BY <2>3 DEF Construct, Emit
  <2> QED BY <1>3, <2>1, <2>2, <2>3 DEF Next, Descends
<1> QED BY <1>1, <1>2, <1>3, TypeCorrect, PTL DEF Spec
=============================================================================
