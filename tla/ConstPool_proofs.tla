-------------------------- MODULE ConstPool_proofs --------------------------
(***************************************************************************)
(* Proofs about ConstPool: the reader finds the constants of any pool in   *)
(* any order, and the references of a member lead to its names.            *)
(***************************************************************************)
EXTENDS ConstPool, Induction, SequenceTheorems

-----------------------------------------------------------------------------
(* Sequences.                                                              *)

\* Bytes written after others.
LEMMA Written ==
  ASSUME NEW S, NEW a \in Seq(S), NEW b \in Seq(S)
  PROVE  /\ a \o b \in Seq(S)
         /\ Len(a \o b) = Len(a) + Len(b)
         /\ \A j \in 1..Len(a) : (a \o b)[j] = a[j]
         /\ \A j \in 1..Len(b) : (a \o b)[Len(a) + j] = b[j]
OBVIOUS

\* A tag and the bytes behind it, written after others.
LEMMA WrittenTag ==
  ASSUME NEW a \in Seq(Byte), NEW t \in Byte, NEW s \in Seq(Byte),
         NEW w, w = a \o (<<t>> \o s)
  PROVE  /\ w \in Seq(Byte)
         /\ Len(w) \in Nat
         /\ Len(w) = Len(a) + 1 + Len(s)
         /\ \A j \in 1..Len(a) : w[j] = a[j]
         /\ w[Len(a) + 1] = t
         /\ \A j \in 1..Len(s) : w[Len(a) + 1 + j] = s[j]
<1> DEFINE b == <<t>> \o s
<1>1. /\ b \in Seq(Byte) /\ Len(b) = 1 + Len(s) /\ b[1] = t
  OBVIOUS
<1>2. ASSUME NEW j \in 1..Len(s) PROVE b[1 + j] = s[j] OBVIOUS
<1> HIDE DEF b
<1>3. /\ a \o b \in Seq(Byte)
      /\ Len(a \o b) = Len(a) + Len(b)
      /\ \A j \in 1..Len(a) : (a \o b)[j] = a[j]
      /\ \A j \in 1..Len(b) : (a \o b)[Len(a) + j] = b[j]
  <2>1. b \in Seq(Byte) BY <1>1
  <2> QED BY <2>1, Written
<1>4. Len(a) \in Nat /\ Len(s) \in Nat OBVIOUS
<1>5. Len(a) + Len(b) = Len(a) + 1 + Len(s) /\ Len(a) + Len(b) \in Nat BY <1>1, <1>4
<1>6. (a \o b)[Len(a) + 1] = t
  <2>1. 1 \in 1..Len(b) BY <1>1, <1>4
  <2> QED BY <1>1, <1>3, <2>1
<1>7. ASSUME NEW j \in 1..Len(s) PROVE (a \o b)[Len(a) + 1 + j] = s[j]
  <2>1. 1 + j \in 1..Len(b) BY <1>1, <1>4
  <2>2. Len(a) + (1 + j) = Len(a) + 1 + j BY <1>4
  <2>3. (a \o b)[Len(a) + (1 + j)] = b[1 + j] BY <1>3, <2>1, Zenon
  <2> QED BY <1>2, <2>2, <2>3
<1>8. w = a \o b BY DEF b
<1> QED BY <1>3, <1>5, <1>6, <1>7, <1>8, Zenon

\* The same stretch of two sequences, one of them p further on.
LEMMA Shifted ==
  ASSUME NEW S, NEW a \in Seq(S), NEW b \in Seq(S), NEW p \in Nat,
         NEW m \in Nat \ {0}, NEW n \in Nat, n <= Len(b), p + n <= Len(a),
         \A j \in m..n : a[p + j] = b[j]
  PROVE  SubSeq(a, p + m, p + n) = SubSeq(b, m, n)
<1> DEFINE l == SubSeq(a, p + m, p + n)
           r == SubSeq(b, m, n)
<1>1. CASE m <= n
  <2>1. /\ l \in Seq(S) /\ r \in Seq(S)
        /\ Len(l) = n - m + 1 /\ Len(r) = n - m + 1
    BY <1>1
  <2>2. ASSUME NEW j \in 1..(n - m + 1) PROVE l[j] = r[j]
    <3>1. l[j] = a[p + m + j - 1] BY <1>1
    <3>2. r[j] = b[m + j - 1] BY <1>1
    <3>3. m + j - 1 \in m..n /\ p + m + j - 1 = p + (m + j - 1) BY <1>1
    <3> QED BY <3>1, <3>2, <3>3
  <2> HIDE DEF l, r
  <2> QED BY <2>1, <2>2
<1>2. CASE m > n
  <2>1. l = <<>> /\ r = <<>> BY <1>2
  <2> QED BY <2>1
<1> QED BY <1>1, <1>2

\* Short sequences, after none and after one.
LEMMA Short ==
  ASSUME NEW a, NEW b, NEW c
  PROVE  /\ <<>> \o <<>> = <<>> /\ <<>> \o <<a>> = <<a>> /\ <<>> \o <<a, b>> = <<a, b>>
         /\ <<a>> \o <<b, c>> = <<a, b, c>>
         /\ Append(<<>>, a) = <<a>> /\ Append(<<a>>, b) = <<a, b>>
         /\ Append(<<a, b>>, c) = <<a, b, c>>
<1> DEFINE S == {a, b, c}
<1>1. /\ <<>> \in Seq(S) /\ <<a>> \in Seq(S) /\ <<a, b>> \in Seq(S)
      /\ <<b, c>> \in Seq(S) /\ <<a, b, c>> \in Seq(S)
  OBVIOUS
<1>2. \A s \in Seq(S) : <<>> \o s = s
  <2> HIDE DEF S
  <2> QED OBVIOUS
<1>3. <<a>> \o <<b, c>> = <<a, b, c>>
  <2> DEFINE l == <<a>> \o <<b, c>>
             r == <<a, b, c>>
  <2>1. /\ l \in Seq(S) /\ r \in Seq(S) /\ Len(l) = 3 /\ Len(r) = 3
        /\ l[1] = a /\ l[2] = b /\ l[3] = c
        /\ r[1] = a /\ r[2] = b /\ r[3] = c
    OBVIOUS
  <2> HIDE DEF l, r, S
  <2>2. \A i \in 1..3 : i = 1 \/ i = 2 \/ i = 3 OBVIOUS
  <2>3. l = r BY <2>1, <2>2
  <2> QED BY <2>3 DEF l, r
<1>4. /\ Append(<<>>, a) = <<a>> /\ Append(<<a>>, b) = <<a, b>>
      /\ Append(<<a, b>>, c) = <<a, b, c>>
  <2>1. Append(<<>>, a) = <<a>> OBVIOUS
  <2>2. Append(<<a>>, b) = <<a, b>>
    <3> DEFINE l == Append(<<a>>, b)
               r == <<a, b>>
    <3>1. /\ l \in Seq(S) /\ r \in Seq(S) /\ Len(l) = 2 /\ Len(r) = 2
          /\ l[1] = a /\ l[2] = b /\ r[1] = a /\ r[2] = b
      OBVIOUS
    <3> HIDE DEF l, r, S
    <3>2. \A i \in 1..2 : i = 1 \/ i = 2 OBVIOUS
    <3>3. l = r BY <3>1, <3>2
    <3> QED BY <3>3 DEF l, r
  <2>3. Append(<<a, b>>, c) = <<a, b, c>>
    <3> DEFINE l == Append(<<a, b>>, c)
               r == <<a, b, c>>
    <3>1. /\ l \in Seq(S) /\ r \in Seq(S) /\ Len(l) = 3 /\ Len(r) = 3
          /\ l[1] = a /\ l[2] = b /\ l[3] = c
          /\ r[1] = a /\ r[2] = b /\ r[3] = c
      OBVIOUS
    <3> HIDE DEF l, r, S
    <3>2. \A i \in 1..3 : i = 1 \/ i = 2 \/ i = 3 OBVIOUS
    <3>3. l = r BY <3>1, <3>2
    <3> QED BY <3>3 DEF l, r
  <2> QED BY <2>1, <2>2, <2>3
<1> QED BY <1>1, <1>2, <1>3, <1>4, Zenon

LEMMA Whole ==
  ASSUME NEW S, NEW a \in Seq(S)
  PROVE  SubSeq(a, 1, Len(a)) = a
OBVIOUS

-----------------------------------------------------------------------------
(* The class file format.                                                  *)

\* What the bytes of a constant are.
LEMMA ConstantParts ==
  ASSUME NEW c \in Constant
  PROVE  /\ c.tag \in Tag
         /\ c.args \in Seq(Byte)
         /\ Len(c.args) \in Nat
         /\ \A j \in 1..Len(c.args) : c.args[j] \in 0..255
         /\ c.tag = Utf8 => Len(c.args) >= 2 /\ Len(c.args) = 2 + Num(c.args, 1)
         /\ c.tag # Utf8 => Len(c.args) = ArgsLength(c.tag)
<1>1. c.tag \in Tag /\ c.args \in Seq(Byte) BY DEF Constant
<1>2. Len(c.args) \in Nat /\ \A j \in 1..Len(c.args) : c.args[j] \in Byte
  <2> DEFINE s == c.args
  <2>1. s \in Seq(Byte) BY <1>1
  <2> HIDE DEF s
  <2>2. Len(s) \in Nat /\ \A j \in 1..Len(s) : s[j] \in Byte BY <2>1
  <2> QED BY <2>2 DEF s
<1>3. IF c.tag = Utf8
      THEN Len(c.args) >= 2 /\ Len(c.args) = 2 + Num(c.args, 1)
      ELSE Len(c.args) = ArgsLength(c.tag)
  BY DEF Constant
<1> QED BY <1>1, <1>2, <1>3, Zenon DEF Byte

\* The kinds have numbers of their own.
LEMMA Kinds ==
  ASSUME NEW tag \in Tag
  PROVE  /\ tag \in Byte
         /\ tag \in Known => \/ tag = Utf8
                             \/ tag \in Wide
                             \/ tag \in Number \ Wide
                             \/ tag \in {Class, String, MethodType}
                             \/ tag \in Member \cup {NameAndType}
                             \/ tag = MethodHandle
                             \/ tag = InvokeDynamic
         /\ tag \notin Known => tag \in New
BY DEF Tag, Known, New, Byte, Utf8, Wide, Number, Class, String, MethodType,
       Member, Methodref, Fieldref, NameAndType, MethodHandle, InvokeDynamic

\* A two-byte number.
LEMMA NumType ==
  ASSUME NEW s \in Seq(Byte), NEW i \in Nat \ {0}, i + 1 <= Len(s)
  PROVE  Num(s, i) \in Nat
<1>1. i \in 1..Len(s) /\ i + 1 \in 1..Len(s) OBVIOUS
<1>2. s[i] \in Byte /\ s[i + 1] \in Byte BY <1>1
<1>3. \A b \in Byte : b \in Nat BY DEF Byte
<1>4. s[i] \in Nat /\ s[i + 1] \in Nat BY <1>2, <1>3, Zenon
<1> QED BY <1>4 DEF Num

\* A constant is of one of the kinds, and of no other.
LEMMA OneKind ==
  ASSUME NEW tag \in Tag
  PROVE  /\ \/ tag = Utf8 \/ tag \in Number
            \/ tag \in {Class, String, MethodType, 19, 20}
            \/ tag \in Member \cup {NameAndType} \/ tag = MethodHandle
            \/ tag \in {17, InvokeDynamic}
         /\ tag \in Wide => tag \in Number
         /\ tag = Utf8 => tag \notin Number
         /\ tag \in {Class, String, MethodType, 19, 20} => tag # Utf8 /\ tag \notin Number
         /\ tag \in Member \cup {NameAndType} =>
              /\ tag # Utf8 /\ tag \notin Number
              /\ tag \notin {Class, String, MethodType, 19, 20}
         /\ tag = MethodHandle =>
              /\ tag # Utf8 /\ tag \notin Number
              /\ tag \notin {Class, String, MethodType, 19, 20}
              /\ tag \notin Member \cup {NameAndType}
         /\ tag \in {17, InvokeDynamic} =>
              /\ tag # Utf8 /\ tag \notin Number
              /\ tag \notin {Class, String, MethodType, 19, 20}
              /\ tag \notin Member \cup {NameAndType}
              /\ tag # MethodHandle
BY DEF Tag, Known, New, Utf8, Wide, Number, Class, String, MethodType, Member,
       Methodref, Fieldref, NameAndType, MethodHandle, InvokeDynamic

\* What a constant of each kind holds.
LEMMA ByKind ==
  ASSUME NEW c \in Constant
  PROVE  /\ c.tag = Utf8 =>
              Refs(c) = <<>> /\ Text(c) = SubSeq(c.args, 3, Len(c.args))
         /\ c.tag \in Wide => Len(c.args) = 8 /\ Refs(c) = <<>> /\ Text(c) = c.args
         /\ c.tag \in Number \ Wide =>
              Len(c.args) = 4 /\ Refs(c) = <<>> /\ Text(c) = c.args
         /\ c.tag \in {Class, String, MethodType, 19, 20} =>
              /\ Len(c.args) = 2
              /\ Refs(c) = <<Num(c.args, 1)>> /\ Text(c) = <<>>
         /\ c.tag \in Member \cup {NameAndType} =>
              /\ Len(c.args) = 4
              /\ Refs(c) = <<Num(c.args, 1), Num(c.args, 3)>> /\ Text(c) = <<>>
         /\ c.tag = MethodHandle =>
              /\ Len(c.args) = 3
              /\ Refs(c) = <<Num(c.args, 2)>> /\ Text(c) = <<>>
         /\ c.tag \in {17, InvokeDynamic} =>
              /\ Len(c.args) = 4
              /\ Refs(c) = <<Num(c.args, 3)>> /\ Text(c) = <<>>
<1>1. c.tag \in Tag /\ (c.tag # Utf8 => Len(c.args) = ArgsLength(c.tag))
  BY ConstantParts
<1> DEFINE tag == c.tag
           two == {Class, String, MethodType, 19, 20}
           pair == Member \cup {NameAndType}
           dynamic == {17, InvokeDynamic}
<1>2. /\ Refs(c) = CASE tag \in two -> <<Num(c.args, 1)>>
                     [] tag \in pair -> <<Num(c.args, 1), Num(c.args, 3)>>
                     [] tag = MethodHandle -> <<Num(c.args, 2)>>
                     [] tag \in dynamic -> <<Num(c.args, 3)>>
                     [] OTHER -> <<>>
      /\ Text(c) = CASE tag = Utf8 -> SubSeq(c.args, 3, Len(c.args))
                     [] tag \in Number -> c.args
                     [] OTHER -> <<>>
      /\ ArgsLength(tag) = CASE tag \in Wide -> 8
                             [] tag \in two -> 2
                             [] tag = MethodHandle -> 3
                             [] OTHER -> 4
  BY Zenon DEF Refs, Text, ArgsLength
<1>3. /\ tag \in Wide => tag \in Number
      /\ tag = Utf8 => tag \notin Number /\ tag \notin two /\ tag \notin pair
                         /\ tag # MethodHandle /\ tag \notin dynamic
      /\ tag \in Number => tag # Utf8 /\ tag \notin two /\ tag \notin pair
                             /\ tag # MethodHandle /\ tag \notin dynamic
      /\ tag \in two => tag # Utf8 /\ tag \notin Number /\ tag \notin pair
                          /\ tag # MethodHandle /\ tag \notin dynamic
      /\ tag \in pair => tag # Utf8 /\ tag \notin Number /\ tag \notin two
                             /\ tag # MethodHandle /\ tag \notin dynamic
      /\ tag = MethodHandle => tag # Utf8 /\ tag \notin Number /\ tag \notin two
                                 /\ tag \notin pair /\ tag \notin dynamic
      /\ tag \in dynamic => tag # Utf8 /\ tag \notin Number /\ tag \notin two
                              /\ tag \notin pair /\ tag # MethodHandle
  BY <1>1, OneKind, Zenon
<1> HIDE DEF tag, two, pair, dynamic
<1>4. /\ tag \in Wide => Len(c.args) = 8 /\ Refs(c) = <<>> /\ Text(c) = c.args
      /\ tag \in Number \ Wide => Len(c.args) = 4 /\ Refs(c) = <<>> /\ Text(c) = c.args
  BY <1>1, <1>2, <1>3, Zenon DEF tag
<1>5. tag \in two =>
        Len(c.args) = 2 /\ Refs(c) = <<Num(c.args, 1)>> /\ Text(c) = <<>>
  BY <1>1, <1>2, <1>3, Zenon DEF tag
<1>6. tag \in pair => /\ Len(c.args) = 4
                        /\ Refs(c) = <<Num(c.args, 1), Num(c.args, 3)>>
                        /\ Text(c) = <<>>
  BY <1>1, <1>2, <1>3, Zenon DEF tag
<1>7. tag = MethodHandle =>
        Len(c.args) = 3 /\ Refs(c) = <<Num(c.args, 2)>> /\ Text(c) = <<>>
  BY <1>1, <1>2, <1>3, Zenon DEF tag
<1>8. tag \in dynamic =>
        Len(c.args) = 4 /\ Refs(c) = <<Num(c.args, 3)>> /\ Text(c) = <<>>
  BY <1>1, <1>2, <1>3, Zenon DEF tag
<1>9. tag = Utf8 => Refs(c) = <<>> /\ Text(c) = SubSeq(c.args, 3, Len(c.args))
  BY <1>2, <1>3, Zenon
<1> QED BY <1>4, <1>5, <1>6, <1>7, <1>8, <1>9, Zenon DEF tag, two, pair, dynamic

\* A constant is decoded into an entry.
LEMMA DecodedType ==
  ASSUME NEW c \in Constant
  PROVE  /\ Refs(c) \in Seq(Nat)
         /\ Text(c) \in Seq(Byte)
         /\ Decoded(c) \in Entry
<1>1. /\ c.tag \in Tag /\ c.args \in Seq(Byte)
      /\ c.tag = Utf8 => Len(c.args) >= 2
  BY ConstantParts
<1>2. c.tag \in Byte BY <1>1, Kinds
<1>3. /\ Len(c.args) >= 2 => Num(c.args, 1) \in Nat
      /\ Len(c.args) >= 3 => Num(c.args, 2) \in Nat
      /\ Len(c.args) >= 4 => Num(c.args, 3) \in Nat
  BY <1>1, NumType
<1>4. /\ <<>> \in Seq(Nat) /\ <<>> \in Seq(Byte)
      /\ \A a \in Nat : <<a>> \in Seq(Nat)
      /\ \A a, b \in Nat : <<a, b>> \in Seq(Nat)
  OBVIOUS
<1>5. SubSeq(c.args, 3, Len(c.args)) \in Seq(Byte)
  BY <1>1
<1>6. Refs(c) \in Seq(Nat) /\ Text(c) \in Seq(Byte)
  <2>1. CASE c.tag = Utf8 BY <1>4, <1>5, <2>1, ByKind, Zenon
  <2>2. CASE c.tag \in Number BY <1>1, <1>4, <2>2, ByKind, Zenon
  <2>3. CASE c.tag \in {Class, String, MethodType, 19, 20}
    <3>1. /\ Len(c.args) = 2
          /\ Refs(c) = <<Num(c.args, 1)>> /\ Text(c) = <<>>
      BY <2>3, ByKind, Zenon
    <3>2. Num(c.args, 1) \in Nat BY <1>3, <3>1
    <3> QED BY <1>4, <3>1, <3>2, Zenon
  <2>4. CASE c.tag \in Member \cup {NameAndType}
    <3>1. /\ Len(c.args) = 4
          /\ Refs(c) = <<Num(c.args, 1), Num(c.args, 3)>> /\ Text(c) = <<>>
      BY <2>4, ByKind, Zenon
    <3>2. Num(c.args, 1) \in Nat /\ Num(c.args, 3) \in Nat BY <1>3, <3>1
    <3> QED BY <1>4, <3>1, <3>2, Zenon
  <2>5. CASE c.tag = MethodHandle
    <3>1. /\ Len(c.args) = 3
          /\ Refs(c) = <<Num(c.args, 2)>> /\ Text(c) = <<>>
      BY <2>5, ByKind, Zenon
    <3>2. Num(c.args, 2) \in Nat BY <1>3, <3>1
    <3> QED BY <1>4, <3>1, <3>2, Zenon
  <2>6. CASE c.tag \in {17, InvokeDynamic}
    <3>1. /\ Len(c.args) = 4
          /\ Refs(c) = <<Num(c.args, 3)>> /\ Text(c) = <<>>
      BY <2>6, ByKind, Zenon
    <3>2. Num(c.args, 3) \in Nat BY <1>3, <3>1
    <3> QED BY <1>4, <3>1, <3>2, Zenon
  <2>7. \/ c.tag = Utf8 \/ c.tag \in Number
        \/ c.tag \in {Class, String, MethodType, 19, 20}
        \/ c.tag \in Member \cup {NameAndType} \/ c.tag = MethodHandle
        \/ c.tag \in {17, InvokeDynamic}
    BY <1>1, OneKind, Zenon
  <2> QED BY <2>1, <2>2, <2>3, <2>4, <2>5, <2>6, <2>7, Zenon
<1> QED BY <1>2, <1>6 DEF Decoded, Entry

-----------------------------------------------------------------------------
\* The readers of the kinds, at a constant that the class file has there.
LEMMA ReadsConstant ==
  ASSUME TypeOK, Laid, NEW i \in 1..Len(starts)
  PROVE  /\ pool[i] \in Constant
         /\ starts[i] \in Nat /\ starts[i] < Len(bytes)
         /\ bytes[starts[i] + 1] = pool[i].tag
         /\ Start(i + 1) = starts[i] + 1 + Len(pool[i].args)
         /\ Start(i + 1) <= Len(bytes)
         /\ pool[i].tag \in Known =>
              /\ ReadSize(pool[i].tag, starts[i] + 1) = Len(pool[i].args)
              /\ ReadEntry(starts[i]) = Decoded(pool[i])
<1> DEFINE c == pool[i]
           s == c.args
           size == Len(s)
           pos == starts[i] + 1
           tag == c.tag
<1>1. /\ pool \in Seq(Constant) /\ starts \in Seq(Nat) /\ bytes \in Seq(Byte)
      /\ Len(starts) <= Len(pool)
  BY DEF TypeOK
<1>2. c \in Constant /\ starts[i] \in Nat
  <2>1. Len(starts) \in Nat /\ Len(pool) \in Nat BY <1>1
  <2>2. i \in 1..Len(pool) BY <1>1, <2>1
  <2> QED BY <1>1, <2>2
<1>3. /\ Start(i + 1) = pos + size
      /\ Start(i + 1) <= Len(bytes)
      /\ bytes[pos] = tag
      /\ \A j \in 1..size : bytes[pos + j] = s[j]
  BY Zenon DEF Laid
<1>4. /\ tag \in Tag /\ s \in Seq(Byte) /\ size \in Nat
      /\ tag = Utf8 => size >= 2 /\ size = 2 + Num(s, 1)
  BY <1>2, ConstantParts, Zenon
<1>5. /\ tag = Utf8 => Refs(c) = <<>> /\ Text(c) = SubSeq(s, 3, size)
      /\ tag \in Wide => size = 8 /\ Refs(c) = <<>> /\ Text(c) = s
      /\ tag \in Number \ Wide => size = 4 /\ Refs(c) = <<>> /\ Text(c) = s
      /\ tag \in {Class, String, MethodType, 19, 20} =>
           size = 2 /\ Refs(c) = <<Num(s, 1)>> /\ Text(c) = <<>>
      /\ tag \in Member \cup {NameAndType} =>
           size = 4 /\ Refs(c) = <<Num(s, 1), Num(s, 3)>> /\ Text(c) = <<>>
      /\ tag = MethodHandle =>
           size = 3 /\ Refs(c) = <<Num(s, 2)>> /\ Text(c) = <<>>
      /\ tag \in {17, InvokeDynamic} =>
           size = 4 /\ Refs(c) = <<Num(s, 3)>> /\ Text(c) = <<>>
  BY <1>2, ByKind, Zenon
<1>6. starts[i] < Len(bytes) /\ pos \in Nat /\ pos + size <= Len(bytes)
  <2>1. Len(bytes) \in Nat BY <1>1
  <2> QED BY <1>2, <1>3, <1>4, <2>1
<1>7. ReadEntry(starts[i]) =
        [tag |-> tag, refs |-> ReadRefs(tag, pos), text |-> ReadText(tag, pos)]
  BY <1>3, Zenon DEF ReadEntry
<1> DEFINE two == {Class, String, MethodType}
           pair == Member \cup {NameAndType}
<1>8. /\ ReadSize(tag, pos) = CASE tag = Utf8 -> 2 + U2(pos)
                                [] tag \in Wide -> 8
                                [] tag \in two -> 2
                                [] tag = MethodHandle -> 3
                                [] OTHER -> 4
      /\ ReadRefs(tag, pos) = CASE tag \in two -> <<U2(pos)>>
                                [] tag \in pair -> <<U2(pos), U2(pos + 2)>>
                                [] tag = MethodHandle -> <<U2(pos + 1)>>
                                [] tag = InvokeDynamic -> <<U2(pos + 2)>>
                                [] OTHER -> <<>>
      /\ ReadText(tag, pos) =
           CASE tag = Utf8 -> SubSeq(bytes, pos + 3, pos + 2 + U2(pos))
             [] tag \in Number -> SubSeq(bytes, pos + 1, pos + ReadSize(tag, pos))
             [] OTHER -> <<>>
  BY Zenon DEF ReadSize, ReadRefs, ReadText
<1>9. /\ tag \in Wide => tag \in Number
      /\ tag = Utf8 => tag \notin Number /\ tag \notin two /\ tag \notin pair
                         /\ tag # MethodHandle /\ tag # InvokeDynamic
      /\ tag \in Number => tag # Utf8 /\ tag \notin two /\ tag \notin pair
                             /\ tag # MethodHandle /\ tag # InvokeDynamic
      /\ tag \in two => tag # Utf8 /\ tag \notin Number /\ tag \notin pair
                          /\ tag # MethodHandle /\ tag # InvokeDynamic
      /\ tag \in pair => tag # Utf8 /\ tag \notin Number /\ tag \notin two
                             /\ tag # MethodHandle /\ tag # InvokeDynamic
      /\ tag = MethodHandle => tag # Utf8 /\ tag \notin Number /\ tag \notin two
                                 /\ tag \notin pair /\ tag # InvokeDynamic
      /\ tag = InvokeDynamic => tag # Utf8 /\ tag \notin Number /\ tag \notin two
                                  /\ tag \notin pair /\ tag # MethodHandle
  BY <1>4, OneKind, Zenon
<1>10. /\ size >= 2 => U2(pos) = Num(s, 1)
       /\ size >= 3 => U2(pos + 1) = Num(s, 2)
       /\ size >= 4 => U2(pos + 2) = Num(s, 3)
  <2> HIDE DEF c, s, size, pos, tag
  <2>1. \A j \in 1..3 : j + 1 <= size => bytes[pos + j] = s[j] /\ bytes[pos + (j + 1)] = s[j + 1]
    BY <1>3, <1>4
  <2>2. \A j \in 1..3 : pos + (j - 1) + 1 = pos + j /\ pos + (j - 1) + 2 = pos + (j + 1)
    BY <1>6
  <2>3. size >= 2 => U2(pos) = Num(s, 1) BY <1>4, <1>6, <2>1 DEF U2, Num
  <2>4. size >= 3 => U2(pos + 1) = Num(s, 2)
    <3>1. pos + 1 + 1 = pos + 2 /\ pos + 1 + 2 = pos + 3 BY <1>6
    <3> QED BY <1>4, <2>1, <3>1 DEF U2, Num
  <2>5. size >= 4 => U2(pos + 2) = Num(s, 3)
    <3>1. pos + 2 + 1 = pos + 3 /\ pos + 2 + 2 = pos + 4 BY <1>6
    <3> QED BY <1>4, <2>1, <3>1 DEF U2, Num
  <2> QED BY <2>3, <2>4, <2>5
<1> DEFINE Goal == /\ ReadSize(tag, pos) = size
                   /\ ReadRefs(tag, pos) = Refs(c)
                   /\ ReadText(tag, pos) = Text(c)
<1> HIDE DEF c, s, size, pos, tag, two, pair
<1>11. ASSUME tag = Utf8 PROVE Goal
  <2>1. size >= 2 /\ U2(pos) = Num(s, 1) /\ size = 2 + Num(s, 1)
    BY <1>4, <1>10, <1>11
  <2>2. /\ ReadSize(tag, pos) = 2 + U2(pos)
        /\ ReadRefs(tag, pos) = <<>>
        /\ ReadText(tag, pos) = SubSeq(bytes, pos + 3, pos + 2 + U2(pos))
    BY <1>8, <1>9, <1>11, Zenon
  <2>3. Num(s, 1) \in Nat
    <3>1. 1 \in Nat \ {0} /\ 1 + 1 <= Len(s) BY <2>1 DEF size
    <3> QED BY <1>4, <3>1, NumType
  <2>4. ReadSize(tag, pos) = size /\ pos + 2 + U2(pos) = pos + size
    BY <1>6, <2>1, <2>2, <2>3
  <2>5. \A j \in 3..size : bytes[pos + j] = s[j] BY <1>3, <1>4
  <2>6. SubSeq(bytes, pos + 3, pos + size) = SubSeq(s, 3, size)
    BY <1>1, <1>4, <1>6, <2>5, Shifted
  <2> QED BY <1>5, <1>11, <2>2, <2>4, <2>6, Zenon DEF Goal
<1>12. ASSUME tag \in Number PROVE Goal
  <2>1. ReadSize(tag, pos) = size
    <3>1. CASE tag \in Wide BY <1>5, <1>8, <1>9, <1>12, <3>1, Zenon
    <3>2. CASE tag \in Number \ Wide BY <1>5, <1>8, <1>9, <1>12, <3>2, Zenon
    <3> QED BY <1>12, <3>1, <3>2, Zenon
  <2>2. Refs(c) = <<>> /\ Text(c) = s BY <1>5, <1>12, Zenon
  <2>3. /\ ReadRefs(tag, pos) = <<>>
        /\ ReadText(tag, pos) = SubSeq(bytes, pos + 1, pos + size)
    BY <1>8, <1>9, <1>12, <2>1, Zenon
  <2>4. SubSeq(bytes, pos + 1, pos + size) = SubSeq(s, 1, size)
    BY <1>1, <1>3, <1>4, <1>6, Shifted
  <2>5. SubSeq(s, 1, size) = s BY <1>4, Whole, Zenon DEF size
  <2> QED BY <2>1, <2>2, <2>3, <2>4, <2>5, Zenon DEF Goal
<1>13. ASSUME tag \in two PROVE Goal
  <2>1. size = 2 /\ Refs(c) = <<Num(s, 1)>> /\ Text(c) = <<>>
    BY <1>5, <1>13, Zenon DEF two
  <2>2. U2(pos) = Num(s, 1) BY <1>10, <2>1
  <2> QED BY <1>8, <1>9, <1>13, <2>1, <2>2, Zenon DEF Goal
<1>14. ASSUME tag \in pair PROVE Goal
  <2>1. size = 4 /\ Refs(c) = <<Num(s, 1), Num(s, 3)>> /\ Text(c) = <<>>
    BY <1>5, <1>14, Zenon DEF pair
  <2>2. U2(pos) = Num(s, 1) /\ U2(pos + 2) = Num(s, 3) BY <1>10, <2>1
  <2> QED BY <1>8, <1>9, <1>14, <2>1, <2>2, Zenon DEF Goal
<1>15. ASSUME tag = MethodHandle PROVE Goal
  <2>1. size = 3 /\ Refs(c) = <<Num(s, 2)>> /\ Text(c) = <<>>
    BY <1>5, <1>15, Zenon
  <2>2. U2(pos + 1) = Num(s, 2) BY <1>10, <2>1
  <2> QED BY <1>8, <1>9, <1>15, <2>1, <2>2, Zenon DEF Goal
<1>16. ASSUME tag = InvokeDynamic PROVE Goal
  <2>1. size = 4 /\ Refs(c) = <<Num(s, 3)>> /\ Text(c) = <<>>
    BY <1>5, <1>16, Zenon
  <2>2. U2(pos + 2) = Num(s, 3) BY <1>10, <2>1
  <2> QED BY <1>8, <1>9, <1>16, <2>1, <2>2, Zenon DEF Goal
<1>17. tag \in Known => Goal
  <2>1. SUFFICES ASSUME tag \in Known PROVE Goal OBVIOUS
  <2>2. \/ tag = Utf8 \/ tag \in Wide \/ tag \in Number \ Wide \/ tag \in two
        \/ tag \in pair \/ tag = MethodHandle \/ tag = InvokeDynamic
    BY <1>4, <2>1, Kinds, Zenon DEF two, pair
  <2> QED BY <1>9, <1>11, <1>12, <1>13, <1>14, <1>15, <1>16, <2>2, Zenon
<1>18. tag \in Known => /\ ReadSize(tag, pos) = size
                        /\ ReadEntry(starts[i]) = Decoded(c)
  BY <1>7, <1>17, Zenon DEF Decoded, tag
<1> QED BY <1>2, <1>3, <1>6, <1>18, Zenon DEF c, s, size, pos, tag
-----------------------------------------------------------------------------
(* The inductive invariant.                                                *)

LEMMA InitIInv == Init => IInv
<1> SUFFICES ASSUME Init PROVE IInv OBVIOUS
<1> USE DEF Init
<1>1. TypeOK
  <2>1. pool \in Seq(Constant) BY PoolsAssumption
  <2>2. Len(pool) \in Nat BY <2>1
  <2>3. Padding \in Entry
    <3>1. 0 \in Byte /\ <<>> \in Seq(Nat) /\ <<>> \in Seq(Byte) BY DEF Byte
    <3> QED BY <3>1 DEF Padding, Entry
  <2>4. entries \in Seq(Entry) BY <2>3
  <2>5. /\ index \in Seq(Nat) /\ starts \in Seq(Nat) /\ bytes \in Seq(Byte)
        /\ todo \in Seq([index : Nat, nested : BOOLEAN])
        /\ out \in Seq(Seq(Byte))
        /\ Len(index) = 0 /\ Len(starts) = 0 /\ Len(bytes) = 0
    OBVIOUS
  <2> QED BY <2>1, <2>2, <2>4, <2>5 DEF TypeOK, Phase
<1>2. Laid BY DEF Laid, Start, Index
<1>3. Aligned /\ Ordered /\ RefusesOnlyNew /\ Visits
  BY DEF Aligned, Ordered, RefusesOnlyNew, Visits
<1> QED BY <1>1, <1>2, <1>3 DEF IInv

LEMMA WriteIInv ==
  ASSUME IInv, Write
  PROVE  IInv'
<1> USE DEF IInv
<1>1. /\ pool \in Seq(Constant) /\ index \in Seq(Nat) /\ starts \in Seq(Nat)
      /\ bytes \in Seq(Byte) /\ count \in Nat
      /\ Len(index) = Len(starts)
      /\ Len(starts) < Len(pool)
  BY DEF TypeOK, Write
<1>2. PICK n \in Nat, c \in Constant, s \in Seq(Byte), size \in Nat :
        /\ n = Len(starts) + 1 /\ c = pool[n] /\ s = c.args /\ size = Len(s)
        /\ c.tag \in Byte
  <2>1. Len(starts) + 1 \in 1..Len(pool) /\ Len(starts) + 1 \in Nat BY <1>1
  <2>2. pool[Len(starts) + 1] \in Constant BY <1>1, <2>1
  <2> QED BY <2>1, <2>2, ConstantParts, Kinds, Zenon
<1>3. /\ Len(starts) \in Nat /\ Len(bytes) \in Nat /\ n \in 1..Len(pool)
  BY <1>1, <1>2
<1>4. /\ bytes' = bytes \o (<<c.tag>> \o s)
      /\ index' = Append(index, count) /\ starts' = Append(starts, Len(bytes))
  <2>1. /\ bytes' = bytes \o (<<pool[Len(starts) + 1].tag>> \o pool[Len(starts) + 1].args)
        /\ index' = Append(index, count) /\ starts' = Append(starts, Len(bytes))
    BY Zenon DEF Write
  <2>2. pool[Len(starts) + 1] = c /\ s = c.args BY <1>2, Zenon
  <2> QED BY <2>1, <2>2, Zenon
<1>6. /\ count' = count + (IF c.tag \in Wide THEN 2 ELSE 1)
      /\ pool' = pool /\ phase = "writing" /\ phase' = "writing"
      /\ UNCHANGED <<readPos, indexPos, entries>>
      /\ UNCHANGED <<todo, out, member>>
  BY <1>2, Zenon DEF Write, reader, visitor
<1>7. /\ bytes' \in Seq(Byte) /\ Len(bytes') \in Nat
      /\ Len(bytes') = Len(bytes) + 1 + size
      /\ \A j \in 1..Len(bytes) : bytes'[j] = bytes[j]
      /\ bytes'[Len(bytes) + 1] = c.tag
      /\ \A j \in 1..size : bytes'[Len(bytes) + 1 + j] = s[j]
  <2>1. bytes' = bytes \o (<<c.tag>> \o s) BY <1>4
  <2>2. /\ bytes' \in Seq(Byte) /\ Len(bytes') \in Nat
        /\ Len(bytes') = Len(bytes) + 1 + Len(s)
        /\ \A j \in 1..Len(bytes) : bytes'[j] = bytes[j]
        /\ bytes'[Len(bytes) + 1] = c.tag
        /\ \A j \in 1..Len(s) : bytes'[Len(bytes) + 1 + j] = s[j]
    <3>1. bytes \in Seq(Byte) /\ c.tag \in Byte BY <1>1, <1>2
    <3> QED BY <2>1, <3>1, WrittenTag
  <2> QED BY <1>2, <2>2, Zenon
<1>8. /\ index' \in Seq(Nat) /\ starts' \in Seq(Nat)
      /\ Len(index') = n /\ Len(starts') = n
      /\ index'[n] = count /\ starts'[n] = Len(bytes)
      /\ \A i \in 1..Len(starts) : index'[i] = index[i] /\ starts'[i] = starts[i]
  BY <1>1, <1>2, <1>4
<1>9. count' \in Nat /\ count' > count
  <2>1. count' = count + 2 \/ count' = count + 1 BY <1>6
  <2> QED BY <1>1, <2>1
<1>10. TypeOK'
  <2>1. /\ readPos' \in 0..Len(bytes') /\ indexPos' \in Nat
        /\ entries' \in Seq(Entry)
        /\ todo' \in Seq([index : Nat, nested : BOOLEAN])
        /\ out' \in Seq(Seq(Byte)) /\ member' \in Nat
    <3>1. readPos = 0 BY <1>6 DEF Ordered
    <3>2. Len(bytes') \in Nat BY <1>7
    <3>3. readPos' \in 0..Len(bytes') BY <1>6, <3>1, <3>2
    <3> QED BY <1>6, <3>3, Zenon DEF TypeOK
  <2>2. Len(index') = Len(starts') /\ Len(starts') <= Len(pool')
    BY <1>3, <1>6, <1>8
  <2>3. phase' \in Phase BY <1>6 DEF Phase
  <2> QED BY <1>1, <1>6, <1>7, <1>8, <1>9, <2>1, <2>2, <2>3, Zenon DEF TypeOK
<1>11. /\ \A i \in 1..n : Start(i)' = Start(i) /\ Index(i)' = Index(i)
       /\ Start(n + 1)' = Len(bytes') /\ Index(n + 1)' = count'
  BY <1>1, <1>2, <1>8, SMTT(30) DEF Start, Index
<1>12. Laid'
  <2>1. Start(1)' = 0 /\ Index(1)' = 1
    <3>1. 1 \in 1..n BY <1>2
    <3>2. Start(1) = 0 /\ Index(1) = 1 BY DEF Laid
    <3> QED BY <1>11, <3>1, <3>2
  <2>2. ASSUME NEW i \in 1..Len(starts')
        PROVE  /\ Start(i + 1)' = starts'[i] + 1 + Len(pool'[i].args)
               /\ Start(i + 1)' <= Len(bytes')
               /\ Index(i + 1)' = index'[i] + (IF pool'[i].tag \in Wide THEN 2 ELSE 1)
               /\ index'[i] < count'
               /\ bytes'[starts'[i] + 1] = pool'[i].tag
               /\ \A j \in 1..Len(pool'[i].args) :
                    bytes'[starts'[i] + 1 + j] = pool'[i].args[j]
    <3>1. CASE i = n
      <4>1. /\ pool'[i] = c /\ starts'[i] = Len(bytes) /\ index'[i] = count
            /\ Start(i + 1)' = Len(bytes') /\ Index(i + 1)' = count'
        <5>1. pool' = pool BY <1>6
        <5>2. starts'[n] = Len(bytes) /\ index'[n] = count BY <1>8
        <5>3. Start(n + 1)' = Len(bytes') /\ Index(n + 1)' = count' BY <1>11
        <5> QED BY <1>2, <3>1, <5>1, <5>2, <5>3, Zenon
      <4>2. /\ Len(bytes') = Len(bytes) + 1 + size
            /\ Len(bytes') <= Len(bytes')
            /\ count < count'
        <5>1. Len(bytes') \in Nat BY <1>7
        <5> QED BY <1>1, <1>7, <1>9, <5>1
      <4> QED BY <1>2, <1>6, <1>7, <4>1, <4>2, Zenon
    <3>2. CASE i # n
      <4>1. i \in 1..Len(starts) /\ i + 1 \in 1..n BY <1>2, <1>3, <1>8, <3>2
      <4>2. /\ Start(i + 1) = starts[i] + 1 + Len(pool[i].args)
            /\ Start(i + 1) <= Len(bytes)
            /\ Index(i + 1) = index[i] + (IF pool[i].tag \in Wide THEN 2 ELSE 1)
            /\ index[i] < count
            /\ bytes[starts[i] + 1] = pool[i].tag
            /\ \A j \in 1..Len(pool[i].args) : bytes[starts[i] + 1 + j] = pool[i].args[j]
        BY <4>1, Zenon DEF Laid
      <4>3. starts'[i] = starts[i] /\ index'[i] = index[i] /\ pool' = pool
        BY <1>6, <1>8, <4>1
      <4>4. Start(i + 1)' = Start(i + 1) /\ Index(i + 1)' = Index(i + 1)
        BY <1>11, <4>1
      <4>5. pool[i] \in Constant BY <4>1, ReadsConstant
      <4>6. Len(pool[i].args) \in Nat BY <4>5, ConstantParts
      <4>7. starts[i] \in Nat /\ index[i] \in Nat BY <1>1, <4>1, SMTT(30)
      <4>8. starts[i] + 1 + Len(pool[i].args) <= Len(bytes) BY <4>2
      <4>9. bytes'[starts[i] + 1] = bytes[starts[i] + 1]
        <5>1. starts[i] + 1 \in 1..Len(bytes) BY <1>3, <4>6, <4>7, <4>8, SMTT(30)
        <5> QED BY <1>7, <5>1, Zenon
      <4>10. ASSUME NEW j \in 1..Len(pool[i].args)
             PROVE  bytes'[starts[i] + 1 + j] = bytes[starts[i] + 1 + j]
        <5>1. starts[i] + 1 + j <= starts[i] + 1 + Len(pool[i].args) BY <4>6, <4>7, SMTT(30)
        <5>2. j >= 1 /\ j \in Nat /\ starts[i] + 1 + j \in Nat BY <4>6, <4>7
        <5>3. Len(bytes) \in Nat /\ starts[i] + 1 + Len(pool[i].args) \in Nat
          <6>1. Len(bytes) \in Nat BY <1>3
          <6>2. starts[i] + 1 + Len(pool[i].args) \in Nat BY <4>6, <4>7, SMTT(30)
          <6> QED BY <6>1, <6>2
        <5>4. starts[i] + 1 + j <= Len(bytes) BY <4>8, <5>1, <5>2, <5>3
        <5>5. starts[i] + 1 + j \in 1..Len(bytes) BY <4>7, <5>2, <5>3, <5>4
        <5> QED BY <1>7, <5>5, Zenon
      <4>11. Start(i + 1) <= Len(bytes') /\ index[i] < count'
        <5>1. Len(bytes') = Len(bytes) + 1 + size BY <1>7
        <5>2. Start(i + 1) = starts[i] + 1 + Len(pool[i].args) /\ Start(i + 1) <= Len(bytes)
          BY <4>2
        <5>3. Len(bytes') >= Len(bytes) BY <1>3, <5>1
        <5>4. Start(i + 1) \in Nat BY <4>6, <4>7, <5>2, SMTT(30)
        <5>5. Len(bytes') \in Nat /\ Start(i + 1) <= Len(bytes) BY <1>7, <4>2
        <5>6. Start(i + 1) <= Len(bytes') BY <1>3, <5>3, <5>4, <5>5
        <5>7. index[i] < count' BY <1>1, <1>9, <4>2, <4>7
        <5> QED BY <5>6, <5>7
      <4> QED BY <4>2, <4>3, <4>4, <4>9, <4>10, <4>11
    <3> QED BY <3>1, <3>2
  <2>3. ASSUME NEW i \in 1..Len(index'), NEW j \in 1..Len(index'), i < j
        PROVE  index'[i] < index'[j]
    <3>1. i \in 1..Len(starts) BY <1>2, <1>3, <1>8, <2>3
    <3>2. CASE j = n
      <4>1. index[i] < count BY <3>1 DEF Laid
      <4> QED BY <1>8, <3>1, <3>2, <4>1
    <3>3. CASE j # n
      <4>1. j \in 1..Len(starts) BY <1>2, <1>3, <1>8, <3>3
      <4>2. index[i] < index[j] BY <1>1, <2>3, <3>1, <4>1 DEF Laid
      <4> QED BY <1>8, <3>1, <4>1, <4>2
    <3> QED BY <3>2, <3>3
  <2> QED BY <2>1, <2>2, <2>3, Zenon DEF Laid
<1>13. Ordered' BY <1>6, Zenon DEF Ordered
<1>14. Aligned' /\ RefusesOnlyNew' /\ Visits'
  BY <1>6 DEF Aligned, RefusesOnlyNew, Visits
<1> QED BY <1>10, <1>12, <1>13, <1>14, Zenon

-----------------------------------------------------------------------------
\* The finished pool stays as it is, and what has been read of it.
LEMMA LayoutKept ==
  ASSUME Laid, UNCHANGED layout
  PROVE  /\ Laid'
         /\ \A i \in Nat : Start(i)' = Start(i) /\ Index(i)' = Index(i)
         /\ WellFormed => WellFormed'
BY DEF Laid, layout, Start, Index, WellFormed

LEMMA ReaderKept ==
  ASSUME UNCHANGED layout, UNCHANGED reader, NEW k \in Nat
  PROVE  ReadUpTo(k)' = ReadUpTo(k)
BY DEF layout, reader, ReadUpTo, Start, Index

\* What a step that reads nothing leaves of the invariant to show.
LEMMA Elsewhere ==
  ASSUME IInv, UNCHANGED layout, UNCHANGED reader, phase # "writing",
         phase' # "writing", phase' \in Phase,
         todo' \in Seq([index : Nat, nested : BOOLEAN]),
         out' \in Seq(Seq(Byte)), member' \in Nat,
         phase' \in {"read", "naming"} => ReadUpTo(Len(pool)),
         phase' = "thrown" => \E i \in 1..Len(pool) : pool[i].tag \in New,
         Visits'
  PROVE  IInv'
<1> USE DEF IInv
<1>1. /\ pool' = pool /\ index' = index /\ starts' = starts /\ bytes' = bytes
      /\ count' = count /\ readPos' = readPos /\ indexPos' = indexPos
      /\ entries' = entries
  BY DEF layout, reader
<1>2. Len(pool) \in Nat BY DEF TypeOK
<1>3. TypeOK' BY <1>1, Zenon DEF TypeOK
<1>4. Laid' BY LayoutKept
<1>5. Aligned'
  <2>1. PICK k \in 0..Len(pool) : ReadUpTo(k) BY DEF Aligned
  <2>2. k \in Nat BY <1>2
  <2>3. ReadUpTo(k)' BY <2>1, <2>2, ReaderKept
  <2>4. Len(entries') = indexPos' BY <1>1 DEF Aligned
  <2> QED BY <1>1, <2>3, <2>4, Zenon DEF Aligned
<1>6. Ordered'
  <2>1. Len(starts') = Len(pool') /\ WellFormed'
    BY <1>1, LayoutKept DEF Ordered
  <2>2. phase' \in {"read", "naming"} => ReadUpTo(Len(pool))'
    <3>1. ASSUME ReadUpTo(Len(pool)) PROVE ReadUpTo(Len(pool))'
      BY <1>1, <3>1 DEF ReadUpTo, Start, Index
    <3> QED BY <3>1
  <2> QED BY <2>1, <2>2 DEF Ordered
<1>7. RefusesOnlyNew' BY <1>1, Zenon DEF RefusesOnlyNew
<1> QED BY <1>3, <1>4, <1>5, <1>6, <1>7

LEMMA HandOverIInv ==
  ASSUME IInv, HandOver
  PROVE  IInv'
<1> USE DEF IInv
<1>1. /\ phase = "writing" /\ phase' = "reading"
      /\ Len(starts) = Len(pool) /\ WellFormed
      /\ UNCHANGED layout /\ UNCHANGED reader /\ UNCHANGED visitor
  BY Zenon DEF HandOver
<1>2. /\ pool' = pool /\ index' = index /\ starts' = starts /\ bytes' = bytes
      /\ count' = count /\ readPos' = readPos /\ indexPos' = indexPos
      /\ entries' = entries /\ todo' = todo /\ out' = out /\ member' = member
  BY <1>1 DEF layout, reader, visitor
<1>3. Len(pool) \in Nat BY DEF TypeOK
<1>4. TypeOK'
  <2>1. phase' \in Phase BY <1>1 DEF Phase
  <2> QED BY <1>2, <2>1, Zenon DEF TypeOK
<1>5. Laid' BY <1>1, LayoutKept
<1>6. Aligned'
  <2>1. readPos = 0 /\ indexPos = 1 /\ entries = <<Padding>> BY <1>1 DEF Ordered
  <2>2. Len(entries) = 1 BY <2>1
  <2>3. ReadUpTo(0)
    <3>1. Start(0 + 1) = 0 /\ Index(0 + 1) = 1 BY DEF Laid
    <3> QED BY <2>1, <3>1 DEF ReadUpTo
  <2>4. ReadUpTo(0)' BY <1>1, <2>3, ReaderKept
  <2>5. 0 \in 0..Len(pool') BY <1>2, <1>3
  <2> QED BY <1>2, <2>1, <2>2, <2>4, <2>5, Zenon DEF Aligned
<1>7. Ordered'
  <2>1. Len(starts') = Len(pool') /\ WellFormed' BY <1>1, <1>2, LayoutKept
  <2> QED BY <1>1, <2>1 DEF Ordered
<1>8. RefusesOnlyNew' /\ Visits' BY <1>1 DEF RefusesOnlyNew, Visits
<1> QED BY <1>4, <1>5, <1>6, <1>7, <1>8

\* The reader is at the next constant, or behind the last one.
LEMMA AtReader ==
  ASSUME IInv, phase = "reading"
  PROVE  \E k \in 0..Len(pool) :
           /\ ReadUpTo(k)
           /\ readPos < Len(bytes) =>
                /\ k + 1 \in 1..Len(pool) /\ k + 1 \in 1..Len(starts)
                /\ readPos = starts[k + 1] /\ indexPos = index[k + 1]
           /\ readPos >= Len(bytes) => k = Len(pool)
<1> USE DEF IInv
<1>1. PICK k \in 0..Len(pool) : ReadUpTo(k) BY DEF Aligned
<1>2. /\ Len(starts) = Len(pool) /\ Len(pool) \in Nat /\ Len(index) = Len(starts)
      /\ Len(bytes) \in Nat
  BY DEF Ordered, TypeOK
<1>3. readPos = Start(k + 1) /\ indexPos = Index(k + 1) BY <1>1 DEF ReadUpTo
<1>0. PICK n \in Nat : n = Len(pool) /\ n = Len(starts) /\ k \in 0..n
  BY <1>2 DEF TypeOK
<1>4. CASE k = n
  <2>1. readPos = Len(bytes) BY <1>0, <1>3, <1>4 DEF Start
  <2>2. ~(readPos < Len(bytes)) BY <1>2, <2>1
  <2>3. k \in 0..Len(pool) /\ k = Len(pool) BY <1>0, <1>4
  <2> QED BY <1>1, <2>2, <2>3, Zenon
<1>5. CASE k # n
  <2>0. k + 1 \in 1..n BY <1>0, <1>5
  <2>1. k + 1 \in 1..Len(pool) /\ k + 1 \in 1..Len(starts) BY <1>0, <2>0
  <2>2. readPos = starts[k + 1] /\ indexPos = index[k + 1]
    BY <1>2, <1>3, <2>1 DEF Start, Index
  <2>3. starts[k + 1] \in Nat /\ starts[k + 1] < Len(bytes) BY <2>1, ReadsConstant
  <2>4. ~(readPos >= Len(bytes)) BY <1>2, <2>2, <2>3
  <2> QED BY <1>1, <2>1, <2>2, <2>4
<1> QED BY <1>0, <1>4, <1>5

LEMMA ReadThrowIInv ==
  ASSUME IInv, ReadThrow
  PROVE  IInv'
<1>1. /\ phase = "reading" /\ phase' = "thrown" /\ readPos < Len(bytes)
      /\ bytes[readPos + 1] \notin Known
      /\ UNCHANGED layout /\ UNCHANGED reader /\ UNCHANGED visitor
  BY Zenon DEF ReadThrow
<1>2. PICK k \in 0..Len(pool) : k + 1 \in 1..Len(pool) /\ k + 1 \in 1..Len(starts)
                                /\ readPos = starts[k + 1]
  BY <1>1, AtReader
<1>3. pool[k + 1] \in Constant /\ bytes[readPos + 1] = pool[k + 1].tag
  BY <1>2, ReadsConstant DEF IInv
<1>4. pool[k + 1].tag \in New
  <2>1. pool[k + 1].tag \in Tag BY <1>3, ConstantParts
  <2> QED BY <1>1, <1>3, <2>1, Kinds
<1>5. todo' = todo /\ out' = out /\ member' = member BY <1>1 DEF visitor
<1>6. /\ todo' \in Seq([index : Nat, nested : BOOLEAN])
      /\ out' \in Seq(Seq(Byte)) /\ member' \in Nat
  BY <1>5, Zenon DEF IInv, TypeOK
<1>7. phase' \in Phase /\ Visits' BY <1>1 DEF Phase, Visits
<1> QED BY <1>1, <1>2, <1>4, <1>6, <1>7, Elsewhere

LEMMA ReadDoneIInv ==
  ASSUME IInv, ReadDone
  PROVE  IInv'
<1>1. /\ phase = "reading" /\ phase' = "read" /\ readPos >= Len(bytes)
      /\ UNCHANGED layout /\ UNCHANGED reader /\ UNCHANGED visitor
  BY Zenon DEF ReadDone
<1>2. ReadUpTo(Len(pool)) BY <1>1, AtReader
<1>3. todo' = todo /\ out' = out /\ member' = member BY <1>1 DEF visitor
<1>4. /\ todo' \in Seq([index : Nat, nested : BOOLEAN])
      /\ out' \in Seq(Seq(Byte)) /\ member' \in Nat
  BY <1>3, Zenon DEF IInv, TypeOK
<1>5. phase' \in Phase /\ Visits' BY <1>1 DEF Phase, Visits
<1> QED BY <1>1, <1>2, <1>4, <1>5, Elsewhere
LEMMA ReadNextIInv ==
  ASSUME IInv, ReadNext
  PROVE  IInv'
<1> USE DEF IInv
<1>1. /\ phase = "reading" /\ phase' = "reading" /\ readPos < Len(bytes)
      /\ bytes[readPos + 1] \in Known
      /\ UNCHANGED layout /\ UNCHANGED visitor
      /\ readPos' = readPos + 1 + ReadSize(bytes[readPos + 1], readPos + 1)
      /\ entries' = entries \o (IF bytes[readPos + 1] \in Wide
                                THEN <<ReadEntry(readPos), Padding>>
                                ELSE <<ReadEntry(readPos)>>)
      /\ indexPos' = indexPos + (IF bytes[readPos + 1] \in Wide THEN 2 ELSE 1)
  BY Zenon DEF ReadNext
<1>2. PICK k \in 0..Len(pool) :
        /\ ReadUpTo(k)
        /\ k + 1 \in 1..Len(pool) /\ k + 1 \in 1..Len(starts)
        /\ readPos = starts[k + 1] /\ indexPos = index[k + 1]
  BY <1>1, AtReader
<1>3. PICK n \in 1..Len(pool) : n = k + 1 BY <1>2
<1>4. PICK e \in Entry : e = Decoded(pool[n])
  <2>1. pool[n] \in Constant BY DEF TypeOK
  <2> QED BY <2>1, DecodedType, Zenon
<1>5. PICK more \in Seq(Entry) :
        more = IF pool[n].tag \in Wide THEN <<e, Padding>> ELSE <<e>>
  <2>1. Padding \in Entry
    <3>1. 0 \in Byte /\ <<>> \in Seq(Nat) /\ <<>> \in Seq(Byte) BY DEF Byte
    <3> QED BY <3>1 DEF Padding, Entry
  <2>2. <<e, Padding>> \in Seq(Entry) /\ <<e>> \in Seq(Entry) BY <2>1
  <2> QED BY <2>2
<1>6. /\ n \in 1..Len(starts) /\ Len(pool) \in Nat /\ Len(bytes) \in Nat
      /\ k \in Nat /\ Len(index) = Len(pool) /\ Len(starts) = Len(pool)
  BY <1>1, <1>2, <1>3 DEF TypeOK, Ordered
<1>7. /\ starts[n] = readPos /\ index[n] = indexPos
      /\ bytes[readPos + 1] = pool[n].tag /\ pool[n].tag \in Known
      /\ Start(n + 1) = starts[n] + 1 + Len(pool[n].args)
      /\ Start(n + 1) <= Len(bytes)
      /\ ReadSize(pool[n].tag, readPos + 1) = Len(pool[n].args)
      /\ ReadEntry(readPos) = e
      /\ pool[n] \in Constant
  <2>1. starts[n] = readPos /\ index[n] = indexPos BY <1>2, <1>3
  <2>2. /\ pool[n] \in Constant
        /\ bytes[starts[n] + 1] = pool[n].tag
        /\ Start(n + 1) = starts[n] + 1 + Len(pool[n].args)
        /\ Start(n + 1) <= Len(bytes)
        /\ pool[n].tag \in Known =>
             /\ ReadSize(pool[n].tag, starts[n] + 1) = Len(pool[n].args)
             /\ ReadEntry(starts[n]) = Decoded(pool[n])
    BY <1>6, ReadsConstant
  <2> QED BY <1>1, <1>4, <2>1, <2>2, Zenon
<1>8. /\ Index(n + 1) = index[n] + (IF pool[n].tag \in Wide THEN 2 ELSE 1)
  BY <1>6 DEF Laid
<1>9. readPos' = Start(n + 1) /\ indexPos' = Index(n + 1)
  BY <1>1, <1>7, <1>8, Zenon
<1>10. /\ pool' = pool /\ index' = index /\ starts' = starts /\ bytes' = bytes
       /\ count' = count /\ todo' = todo /\ out' = out /\ member' = member
  BY <1>1 DEF layout, visitor
<1>11. entries \in Seq(Entry) /\ Len(entries) = indexPos
  BY <1>1 DEF TypeOK, Aligned
<1>12. entries' = entries \o more BY <1>1, <1>5, <1>7, Zenon
<1>13. /\ entries' \in Seq(Entry) /\ Len(entries') = Len(entries) + Len(more)
       /\ \A i \in 1..Len(entries) : entries'[i] = entries[i]
       /\ \A i \in 1..Len(more) : entries'[Len(entries) + i] = more[i]
  BY <1>11, <1>12, Written, SMTT(30)
<1>14. /\ Len(more) = IF pool[n].tag \in Wide THEN 2 ELSE 1
       /\ Len(more) \in Nat /\ Len(more) >= 1 /\ more[1] = e
  BY <1>5
<1>15. Len(entries') = indexPos' BY <1>8, <1>7, <1>9, <1>11, <1>13, <1>14, Zenon
<1>16. TypeOK'
  <2>1. indexPos' \in Nat BY <1>13, <1>15
  <2>2. readPos' \in 0..Len(bytes')
    <3>1. PICK size \in Nat : size = Len(pool[n].args) BY <1>7, ConstantParts
    <3>2. readPos \in Nat BY <1>6 DEF TypeOK
    <3>3. Start(n + 1) = readPos + 1 + size /\ Start(n + 1) <= Len(bytes)
      BY <1>7, <3>1, Zenon
    <3>4. Start(n + 1) \in 0..Len(bytes)
      <4>1. Start(n + 1) \in Nat BY <3>2, <3>3
      <4>2. Len(bytes) \in Nat BY <1>6
      <4> QED BY <3>3, <4>1, <4>2
    <3> QED BY <1>9, <1>10, <3>4
  <2>3. phase' \in Phase BY <1>1 DEF Phase
  <2> QED BY <1>10, <1>13, <2>1, <2>2, <2>3, Zenon DEF TypeOK
<1>17. Laid' BY <1>1, LayoutKept
<1>18. Aligned'
  <2>1. readPos' = Start(n + 1)' /\ indexPos' = Index(n + 1)'
    BY <1>6, <1>9, <1>10 DEF Start, Index
  <2>2. ASSUME NEW i \in 1..n
        PROVE  /\ index'[i] + 1 <= Len(entries')
               /\ entries'[index'[i] + 1] = Decoded(pool'[i])
    <3>1. Len(entries) \in Nat /\ index[i] \in Nat
      <4>1. index \in Seq(Nat) BY DEF TypeOK
      <4>2. i \in 1..Len(index) BY <1>6
      <4> QED BY <1>11, <4>1, <4>2
    <3>2. CASE i = n
      <4>1. index[i] = Len(entries) BY <1>7, <1>11, <3>2
      <4>2. index[i] + 1 <= Len(entries')
        <5>1. Len(entries') = Len(entries) + Len(more) BY <1>13
        <5>2. Len(more) \in Nat /\ Len(more) >= 1 BY <1>14
        <5> QED BY <3>1, <4>1, <5>1, <5>2
      <4>3. 1 \in 1..Len(more) BY <1>14
      <4>4. entries'[Len(entries) + 1] = e BY <1>13, <1>14, <4>3, Zenon
      <4> QED BY <1>4, <1>10, <3>2, <4>1, <4>2, <4>4, Zenon
    <3>3. CASE i # n
      <4>1. i \in 1..k BY <1>3, <1>6, <3>3
      <4>2. index[i] + 1 <= Len(entries) /\ entries[index[i] + 1] = Decoded(pool[i])
        BY <1>2, <4>1 DEF ReadUpTo
      <4>3. index[i] + 1 \in 1..Len(entries) BY <3>1, <4>2
      <4>4. entries'[index[i] + 1] = entries[index[i] + 1] BY <1>13, <4>3, Zenon
      <4>5. index[i] + 1 <= Len(entries')
        <5>1. Len(entries') = Len(entries) + Len(more) BY <1>13
        <5>2. Len(more) \in Nat BY <1>14
        <5> QED BY <3>1, <4>2, <5>1, <5>2
      <4> QED BY <1>10, <4>2, <4>4, <4>5, Zenon
    <3> QED BY <3>2, <3>3
  <2>3. ReadUpTo(n)'
    <3>1. \A i \in 1..n : Decoded(pool'[i]) = Decoded(pool[i])' BY DEF Decoded, Refs, Text, Num
    <3> QED BY <2>1, <2>2, <3>1, Zenon DEF ReadUpTo
  <2>4. n \in 0..Len(pool') BY <1>10
  <2> QED BY <1>15, <2>3, <2>4, Zenon DEF Aligned
<1>19. Ordered'
  <2>1. Len(starts') = Len(pool') /\ WellFormed' BY <1>1, <1>10, LayoutKept DEF Ordered
  <2> QED BY <1>1, <2>1 DEF Ordered
<1>20. RefusesOnlyNew' /\ Visits' BY <1>1 DEF RefusesOnlyNew, Visits
<1> QED BY <1>16, <1>17, <1>18, <1>19, <1>20, Zenon
-----------------------------------------------------------------------------
(* The visits.                                                             *)

\* No two constants have the same index.
LEMMA OneAtEach ==
  ASSUME IInv, NEW i \in 1..Len(index), NEW j \in 1..Len(index), index[i] = index[j]
  PROVE  i = j
<1>1. index[i] \in Nat /\ index[j] \in Nat BY SMTT(30) DEF IInv, TypeOK
<1>2. i < j => index[i] < index[j] BY DEF IInv, Laid
<1>3. j < i => index[j] < index[i] BY DEF IInv, Laid
<1> QED BY <1>1, <1>2, <1>3

\* A constant is found by its index.
LEMMA EntryOf ==
  ASSUME IInv, phase \in {"read", "naming"}, NEW j \in 1..Len(pool)
  PROVE  /\ pool[j] \in Constant
         /\ index[j] \in Nat
         /\ InPool(index[j])
         /\ EntryAt(index[j]) = Decoded(pool[j])
         /\ EntryAt(index[j]).tag = pool[j].tag
         /\ EntryAt(index[j]).refs = Refs(pool[j])
         /\ EntryAt(index[j]).text = Text(pool[j])
<1> USE DEF IInv
<1>1. ReadUpTo(Len(pool)) /\ phase # "writing" BY DEF Ordered
<1>2. /\ index \in Seq(Nat) /\ pool \in Seq(Constant)
      /\ Len(index) = Len(pool) /\ Len(entries) \in Nat
  BY <1>1 DEF Ordered, TypeOK
<1>3. pool[j] \in Constant /\ index[j] \in Nat BY <1>2
<1>4. index[j] + 1 <= Len(entries) /\ entries[index[j] + 1] = Decoded(pool[j])
  BY <1>1 DEF ReadUpTo
<1>5. InPool(index[j])
  <2>1. Len(entries) \in Nat BY <1>2
  <2> QED BY <1>3, <1>4, <2>1 DEF InPool
<1>6. EntryAt(index[j]) = Decoded(pool[j]) BY <1>4, Zenon DEF EntryAt
<1>7. /\ Decoded(pool[j]).tag = pool[j].tag
      /\ Decoded(pool[j]).refs = Refs(pool[j])
      /\ Decoded(pool[j]).text = Text(pool[j])
  BY DEF Decoded
<1> QED BY <1>3, <1>5, <1>6, <1>7, Zenon

\* What a reference has to lead to, of the kinds on the way to names.
LEMMA WantedKinds ==
  /\ \A tag \in Member : Wanted(tag, 1) = {Class} /\ Wanted(tag, 2) = {NameAndType}
  /\ \A r \in Nat : Wanted(Class, r) = {Utf8} /\ Wanted(NameAndType, r) = {Utf8}
<1>1. /\ Class \notin Member /\ Class # MethodHandle /\ Class \notin {17, InvokeDynamic}
      /\ NameAndType \notin Member /\ NameAndType # MethodHandle
      /\ NameAndType \notin {17, InvokeDynamic}
  BY DEF Class, NameAndType, Member, Methodref, Fieldref, MethodHandle, InvokeDynamic
<1>2. ASSUME NEW tag \in Member
      PROVE  Wanted(tag, 1) = {Class} /\ Wanted(tag, 2) = {NameAndType}
  <2>1. tag # MethodHandle /\ tag \notin {17, InvokeDynamic}
    BY DEF Member, Methodref, Fieldref, MethodHandle, InvokeDynamic
  <2>2. Wanted(tag, 1) = IF 1 = 1 THEN {Class} ELSE {NameAndType}
    BY <1>2, <2>1, Zenon DEF Wanted
  <2>3. Wanted(tag, 2) = IF 2 = 1 THEN {Class} ELSE {NameAndType}
    BY <1>2, <2>1, Zenon DEF Wanted
  <2> QED BY <2>2, <2>3
<1>3. ASSUME NEW r \in Nat
      PROVE  Wanted(Class, r) = {Utf8} /\ Wanted(NameAndType, r) = {Utf8}
  BY <1>1, Zenon DEF Wanted
<1> QED BY <1>2, <1>3

\* The class, the name and the descriptor that a member leads to.
LEMMA MemberLeads ==
  ASSUME IInv, phase # "writing", NEW m \in 1..Len(pool), pool[m].tag \in Member
  PROVE  \E c, nt, u, n, d \in 1..Len(pool) :
           /\ Refs(pool[m]) = <<index[c], index[nt]>>
           /\ Refs(pool[c]) = <<index[u]>>
           /\ Refs(pool[nt]) = <<index[n], index[d]>>
           /\ pool[nt].tag = NameAndType
           /\ \A i \in {u, n, d} : pool[i].tag = Utf8
<1> USE DEF IInv
<1>1. WellFormed BY DEF Ordered
<1>2. \A i \in 1..Len(pool) : pool[i] \in Constant BY DEF TypeOK
<1>3. ASSUME NEW i \in 1..Len(pool), pool[i].tag \in Member \cup {NameAndType}
      PROVE  /\ Len(Refs(pool[i])) = 2
             /\ Refs(pool[i]) = <<Refs(pool[i])[1], Refs(pool[i])[2]>>
             /\ 1 \in 1..Len(Refs(pool[i])) /\ 2 \in 1..Len(Refs(pool[i]))
  <2>1. Refs(pool[i]) = <<Num(pool[i].args, 1), Num(pool[i].args, 3)>>
    BY <1>2, <1>3, ByKind, Zenon
  <2> QED BY <2>1
<1>4. ASSUME NEW i \in 1..Len(pool), pool[i].tag = Class
      PROVE  /\ Len(Refs(pool[i])) = 1
             /\ Refs(pool[i]) = <<Refs(pool[i])[1]>>
             /\ 1 \in 1..Len(Refs(pool[i]))
  <2>1. Refs(pool[i]) = <<Num(pool[i].args, 1)>>
    BY <1>2, <1>4, ByKind, Zenon
  <2> QED BY <2>1
<1>5. PICK c \in 1..Len(pool) : index[c] = Refs(pool[m])[1] /\ pool[c].tag = Class
  <2>1. Wanted(pool[m].tag, 1) = {Class} BY WantedKinds, Zenon
  <2> QED BY <1>1, <1>3, <2>1, Zenon DEF WellFormed
<1>6. PICK nt \in 1..Len(pool) : /\ index[nt] = Refs(pool[m])[2]
                                 /\ pool[nt].tag = NameAndType
  <2>1. Wanted(pool[m].tag, 2) = {NameAndType} BY WantedKinds, Zenon
  <2> QED BY <1>1, <1>3, <2>1, Zenon DEF WellFormed
<1>7. PICK u \in 1..Len(pool) : index[u] = Refs(pool[c])[1] /\ pool[u].tag = Utf8
  <2>1. Wanted(pool[c].tag, 1) = {Utf8} BY <1>5, WantedKinds
  <2> QED BY <1>1, <1>4, <1>5, <2>1, Zenon DEF WellFormed
<1>8. PICK n \in 1..Len(pool) : index[n] = Refs(pool[nt])[1] /\ pool[n].tag = Utf8
  <2>1. Wanted(pool[nt].tag, 1) = {Utf8} BY <1>6, WantedKinds
  <2>2. 1 \in 1..Len(Refs(pool[nt])) BY <1>3, <1>6, Zenon
  <2> QED BY <1>1, <2>1, <2>2, Zenon DEF WellFormed
<1>9. PICK d \in 1..Len(pool) : index[d] = Refs(pool[nt])[2] /\ pool[d].tag = Utf8
  <2>1. Wanted(pool[nt].tag, 2) = {Utf8} BY <1>6, WantedKinds
  <2>2. 2 \in 1..Len(Refs(pool[nt])) BY <1>3, <1>6, Zenon
  <2> QED BY <1>1, <2>1, <2>2, Zenon DEF WellFormed
<1>10. /\ Refs(pool[m]) = <<index[c], index[nt]>>
       /\ Refs(pool[c]) = <<index[u]>>
       /\ Refs(pool[nt]) = <<index[n], index[d]>>
  BY <1>3, <1>4, <1>5, <1>6, <1>7, <1>8, <1>9, Zenon
<1>11. \A i \in {u, n, d} : pool[i].tag = Utf8 BY <1>7, <1>8, <1>9
<1>12. pool[nt].tag = NameAndType BY <1>6
<1> QED BY <1>10, <1>11, <1>12, SMTT(30)
\* The first visits of a member are to the constants that its references lead
\* to: entries.at and the casts succeed.
LEMMA ReadMemberIInv ==
  ASSUME IInv, NEW m \in 1..Len(index), pool[m].tag \in Member, ReadMember(index[m])
  PROVE  IInv'
<1> USE DEF IInv
<1>1. phase = "read" /\ UNCHANGED layout /\ UNCHANGED reader
  BY Zenon DEF ReadMember
<1>2. m \in 1..Len(pool) /\ Len(pool) = Len(index)
  BY <1>1 DEF TypeOK, Ordered
<1>3. PICK c, nt, u, n, d \in 1..Len(pool) :
        /\ Refs(pool[m]) = <<index[c], index[nt]>>
        /\ Refs(pool[c]) = <<index[u]>>
        /\ Refs(pool[nt]) = <<index[n], index[d]>>
        /\ pool[nt].tag = NameAndType
        /\ \A i \in {u, n, d} : pool[i].tag = Utf8
  BY <1>1, <1>2, MemberLeads
<1>4. \A j \in 1..Len(pool) :
        /\ index[j] \in Nat
        /\ InPool(index[j])
        /\ EntryAt(index[j]).tag = pool[j].tag
        /\ EntryAt(index[j]).refs = Refs(pool[j])
  BY <1>1, EntryOf
<1>5. /\ EntryAt(index[m]).refs[1] = index[c]
      /\ EntryAt(index[m]).refs[2] = index[nt]
      /\ EntryAt(index[nt]).refs[1] = index[n]
      /\ EntryAt(index[nt]).refs[2] = index[d]
  <2>1. EntryAt(index[m]).refs = <<index[c], index[nt]>> BY <1>2, <1>3, <1>4, Zenon
  <2>2. EntryAt(index[nt]).refs = <<index[n], index[d]>> BY <1>3, <1>4, Zenon
  <2> QED BY <2>1, <2>2
<1>6. /\ InPool(index[m]) /\ EntryAt(index[m]).tag \in Member
      /\ InPool(EntryAt(index[m]).refs[2])
      /\ EntryAt(EntryAt(index[m]).refs[2]).tag = NameAndType
  BY <1>2, <1>3, <1>4, <1>5, Zenon
<1>7. /\ phase' = "naming" /\ member' = index[m] /\ out' = <<>>
      /\ todo' = <<ToString(index[c]), ToString(index[n]), ToString(index[d])>>
  BY <1>5, <1>6, Zenon DEF ReadMember
<1>8. /\ todo' \in Seq([index : Nat, nested : BOOLEAN])
      /\ Len(todo') = 3
      /\ todo'[1].index = index[c] /\ todo'[2].index = index[n]
      /\ todo'[3].index = index[d]
  <2>1. \A i \in Nat : /\ ToString(i) \in [index : Nat, nested : BOOLEAN]
                       /\ ToString(i).index = i
    BY DEF ToString
  <2>2. /\ ToString(index[c]) \in [index : Nat, nested : BOOLEAN]
        /\ ToString(index[n]) \in [index : Nat, nested : BOOLEAN]
        /\ ToString(index[d]) \in [index : Nat, nested : BOOLEAN]
        /\ ToString(index[c]).index = index[c] /\ ToString(index[n]).index = index[n]
        /\ ToString(index[d]).index = index[d]
    BY <1>4, <2>1, Zenon
  <2> QED BY <1>7, <2>2
<1>9. pool' = pool /\ index' = index BY <1>1 DEF layout
<1>10. Visits'
  <2>1. ASSUME NEW q \in 1..Len(todo')
        PROVE  \E j \in 1..Len(pool') : todo'[q].index = index'[j]
    <3>1. q = 1 \/ q = 2 \/ q = 3 BY <1>8
    <3>2. /\ c \in 1..Len(pool') /\ todo'[1].index = index'[c]
          /\ n \in 1..Len(pool') /\ todo'[2].index = index'[n]
          /\ d \in 1..Len(pool') /\ todo'[3].index = index'[d]
      BY <1>8, <1>9, Zenon
    <3> QED BY <3>1, <3>2, Zenon
  <2>2. /\ member' = index'[m]
        /\ Refs(pool[m])' = <<index'[c], index'[nt]>>
        /\ Refs(pool[c])' = <<index'[u]>>
        /\ Refs(pool[nt])' = <<index'[n], index'[d]>>
        /\ \A i \in {u, n, d} : pool'[i].tag = Utf8
    <3>1. \A i \in 1..Len(pool) : Refs(pool[i])' = Refs(pool[i])
      BY <1>9 DEF Refs, Num
    <3> QED BY <1>2, <1>3, <1>7, <1>9, <3>1, Zenon
  <2>3. OnTheWay(c, u, n, d)'
    BY <1>7, <1>9, Zenon DEF OnTheWay, ToString
  <2>4. m \in 1..Len(pool') /\ c \in 1..Len(pool') /\ nt \in 1..Len(pool')
        /\ u \in 1..Len(pool') /\ n \in 1..Len(pool') /\ d \in 1..Len(pool')
    BY <1>2, <1>9
  <2> QED BY <2>1, <2>2, <2>3, <2>4 DEF Visits
<1>11. out' \in Seq(Seq(Byte)) /\ member' \in Nat
  BY <1>2, <1>4, <1>7
<1>12. phase # "writing" /\ phase' # "writing" /\ phase' # "thrown" /\ phase' \in Phase
  BY <1>1, <1>7 DEF Phase
<1>13. ReadUpTo(Len(pool)) BY <1>1 DEF Ordered
<1> QED BY <1>1, <1>8, <1>10, <1>11, <1>12, <1>13, Elsewhere

LEMMA PrintEntryIInv ==
  ASSUME IInv, NEW i \in 1..Len(index), PrintEntry(index[i])
  PROVE  IInv'
<1> USE DEF IInv
<1>1. /\ phase = "read" /\ phase' = "naming"
      /\ todo' = <<ToString(index[i])>> /\ member' = 0 /\ out' = <<>>
      /\ UNCHANGED layout /\ UNCHANGED reader
  BY Zenon DEF PrintEntry
<1>2. i \in 1..Len(pool) /\ index[i] \in Nat
  BY <1>1 DEF TypeOK, Ordered
<1>3. /\ todo' \in Seq([index : Nat, nested : BOOLEAN])
      /\ Len(todo') = 1 /\ todo'[1].index = index[i]
  <2>1. ToString(index[i]) \in [index : Nat, nested : BOOLEAN]
        /\ ToString(index[i]).index = index[i]
    BY <1>2 DEF ToString
  <2> QED BY <1>1, <2>1
<1>4. pool' = pool /\ index' = index BY <1>1 DEF layout
<1>5. Visits'
  <2>1. \A q \in 1..Len(todo') : q = 1 BY <1>3
  <2>2. i \in 1..Len(pool') /\ todo'[1].index = index'[i] BY <1>2, <1>3, <1>4
  <2> QED BY <1>1, <2>1, <2>2 DEF Visits
<1>6. out' \in Seq(Seq(Byte)) /\ member' \in Nat BY <1>1
<1>7. phase # "writing" /\ phase' # "writing" /\ phase' # "thrown" /\ phase' \in Phase
  BY <1>1 DEF Phase
<1>8. ReadUpTo(Len(pool)) BY <1>1 DEF Ordered
<1> QED BY <1>1, <1>3, <1>5, <1>6, <1>7, <1>8, Elsewhere

LEMMA NamedIInv ==
  ASSUME IInv, Named
  PROVE  IInv'
<1> USE DEF IInv
<1>1. /\ phase = "naming" /\ phase' = "read"
      /\ todo' = todo /\ member' = 0 /\ out' = <<>>
      /\ UNCHANGED layout /\ UNCHANGED reader
  BY Zenon DEF Named
<1>2. todo' \in Seq([index : Nat, nested : BOOLEAN]) BY <1>1, Zenon DEF TypeOK
<1>3. out' \in Seq(Seq(Byte)) /\ member' \in Nat BY <1>1
<1>4. phase # "writing" /\ phase' # "writing" /\ phase' # "thrown" /\ phase' \in Phase
  BY <1>1 DEF Phase
<1>5. ReadUpTo(Len(pool)) /\ Visits' BY <1>1 DEF Ordered, Visits
<1> QED BY <1>1, <1>2, <1>3, <1>4, <1>5, Elsewhere

\* One visit for each reference.
LEMMA RefsVisited ==
  ASSUME NEW refs \in Seq(Nat)
  PROVE  /\ VisitRefs(refs) \in Seq([index : Nat, nested : BOOLEAN])
         /\ Len(VisitRefs(refs)) = Len(refs)
         /\ \A q \in 1..Len(refs) :
              VisitRefs(refs)[q] = [index |-> refs[q], nested |-> TRUE]
<1>1. PICK n \in Nat : n = Len(refs) OBVIOUS
<1>2. \A q \in 1..n : refs[q] \in Nat BY <1>1
<1>3. VisitRefs(refs) = [r \in 1..n |-> [index |-> refs[r], nested |-> TRUE]]
  BY <1>1, Zenon DEF VisitRefs
<1>4. PICK R : R = [index : Nat, nested : BOOLEAN] OBVIOUS
<1>5. VisitRefs(refs) \in [1..n -> R] BY <1>2, <1>3, <1>4
<1>6. VisitRefs(refs) \in Seq(R) BY <1>5
<1>7. Len(VisitRefs(refs)) = n BY <1>5
<1>8. \A q \in 1..n : VisitRefs(refs)[q] = [index |-> refs[q], nested |-> TRUE]
  BY <1>3, Zenon
<1> QED BY <1>1, <1>4, <1>6, <1>7, <1>8, Zenon

\* The visits that a constant's references add lead to constants of the pool.
LEMMA MoreVisits ==
  ASSUME IInv, phase # "writing", NEW j \in 1..Len(pool)
  PROVE  /\ VisitRefs(Refs(pool[j])) \in Seq([index : Nat, nested : BOOLEAN])
         /\ \A q \in 1..Len(VisitRefs(Refs(pool[j]))) :
              \E i \in 1..Len(pool) : VisitRefs(Refs(pool[j]))[q].index = index[i]
<1> DEFINE refs == Refs(pool[j])
<1>1. pool[j] \in Constant /\ WellFormed BY DEF IInv, TypeOK, Ordered
<1>2. refs \in Seq(Nat) BY <1>1, DecodedType
<1>3. \A q \in 1..Len(refs) : \E i \in 1..Len(pool) : index[i] = refs[q]
  BY <1>1, Zenon DEF WellFormed
<1> HIDE DEF refs
<1>4. /\ VisitRefs(refs) \in Seq([index : Nat, nested : BOOLEAN])
      /\ Len(VisitRefs(refs)) = Len(refs)
      /\ \A q \in 1..Len(refs) : VisitRefs(refs)[q] = [index |-> refs[q], nested |-> TRUE]
  BY <1>2, RefsVisited
<1>5. ASSUME NEW q \in 1..Len(VisitRefs(refs))
      PROVE  \E i \in 1..Len(pool) : VisitRefs(refs)[q].index = index[i]
  <2>1. q \in 1..Len(refs) BY <1>4
  <2>2. VisitRefs(refs)[q].index = refs[q]
    <3>1. VisitRefs(refs)[q] = [index |-> refs[q], nested |-> TRUE] BY <1>4, <2>1, Zenon
    <3> QED BY <3>1
  <2> QED BY <1>3, <2>1, <2>2, Zenon
<1> QED BY <1>4, <1>5 DEF refs

\* A visit takes a member's names one step on.
LEMMA VisitOnTheWay ==
  ASSUME IInv, Visit,
         NEW c \in 1..Len(pool), NEW u \in 1..Len(pool),
         NEW n \in 1..Len(pool), NEW d \in 1..Len(pool),
         Refs(pool[c]) = <<index[u]>>,
         pool[u].tag = Utf8, pool[n].tag = Utf8, pool[d].tag = Utf8,
         OnTheWay(c, u, n, d)
  PROVE  OnTheWay(c, u, n, d)'
<1> DEFINE text(i) == Text(pool[i])
           visit(i) == ToString(index[i])
           nested == [index |-> index[u], nested |-> TRUE]
<1>1. phase = "naming" /\ todo # <<>> /\ UNCHANGED layout BY Zenon DEF Visit
<1>2. \A j \in 1..Len(pool) :
        /\ pool[j] \in Constant
        /\ InPool(index[j])
        /\ EntryAt(index[j]).refs = Refs(pool[j])
        /\ EntryAt(index[j]).text = text(j)
  BY <1>1, EntryOf
<1>3. Refs(pool[u]) = <<>> /\ Refs(pool[n]) = <<>> /\ Refs(pool[d]) = <<>>
  BY <1>2, ByKind, Zenon
<1>4. ASSUME NEW j \in 1..Len(pool), Head(todo).index = index[j]
      PROVE  /\ todo' = VisitRefs(Refs(pool[j])) \o Tail(todo)
             /\ out' = IF Refs(pool[j]) = <<>> THEN Append(out, text(j)) ELSE out
  BY <1>2, <1>4, Zenon DEF Visit
<1>5. /\ pool' = pool /\ index' = index BY <1>1 DEF layout
<1>6. visit(n).index = index[n] /\ visit(d).index = index[d] /\ visit(c).index = index[c]
  BY DEF ToString
<1>7. VisitRefs(<<>>) = <<>> /\ VisitRefs(<<index[u]>>) = <<nested>>
  <2>1. ASSUME NEW x PROVE VisitRefs(<<x>>) = <<[index |-> x, nested |-> TRUE]>>
    <3> DEFINE l == VisitRefs(<<x>>)
               v == [index |-> x, nested |-> TRUE]
    <3>1. l = [r \in 1..1 |-> [index |-> <<x>>[r], nested |-> TRUE]] BY DEF VisitRefs
    <3>2. l \in Seq({v}) /\ Len(l) = 1 /\ l[1] = v
      <4>1. \A r \in 1..1 : [index |-> <<x>>[r], nested |-> TRUE] = v
        <5>1. \A r \in 1..1 : r = 1 OBVIOUS
        <5>2. <<x>>[1] = x OBVIOUS
        <5> QED BY <5>1, <5>2, Zenon
      <4>2. l = [r \in 1..1 |-> v] BY <3>1, <4>1, Zenon
      <4> HIDE DEF l, v
      <4>3. v \in {v} /\ 1 \in Nat OBVIOUS
      <4>4. [r \in 1..1 |-> v] \in Seq({v}) BY <4>3
      <4>5. Len([r \in 1..1 |-> v]) = 1 OBVIOUS
      <4>6. [r \in 1..1 |-> v][1] = v OBVIOUS
      <4> QED BY <4>2, <4>4, <4>5, <4>6
    <3>3. <<v>> \in Seq({v}) /\ Len(<<v>>) = 1 /\ <<v>>[1] = v OBVIOUS
    <3> HIDE DEF l, v
    <3>4. l = <<v>> BY <3>2, <3>3
    <3> QED BY <3>4 DEF l, v
  <2>2. VisitRefs(<<>>) = <<>> BY DEF VisitRefs
  <2> QED BY <2>1, <2>2, Zenon
<1>8. /\ text(u)' = text(u) /\ text(n)' = text(n) /\ text(d)' = text(d)
      /\ visit(c)' = visit(c) /\ visit(n)' = visit(n) /\ visit(d)' = visit(d)
      /\ nested' = nested
  BY <1>5 DEF Text, ToString
<1>9. PICK vc, vu, vn, vd, tu, tn, td :
        /\ vc = visit(c) /\ vu = nested /\ vn = visit(n) /\ vd = visit(d)
        /\ tu = text(u) /\ tn = text(n) /\ td = text(d)
  OBVIOUS
<1>10. vc.index = index[c] /\ vu.index = index[u] /\ vn.index = index[n] /\ vd.index = index[d]
  BY <1>6, <1>9
<1>11. \/ out = <<>> /\ todo = <<vc, vn, vd>>
       \/ out = <<>> /\ todo = <<vu, vn, vd>>
       \/ out = <<tu>> /\ todo = <<vn, vd>>
       \/ out = <<tu, tn>> /\ todo = <<vd>>
       \/ out = <<tu, tn, td>> /\ todo = <<>>
  BY <1>9, Zenon DEF OnTheWay
<1> DEFINE Goal == \/ out' = <<>> /\ todo' = <<vc, vn, vd>>
                   \/ out' = <<>> /\ todo' = <<vu, vn, vd>>
                   \/ out' = <<tu>> /\ todo' = <<vn, vd>>
                   \/ out' = <<tu, tn>> /\ todo' = <<vd>>
                   \/ out' = <<tu, tn, td>> /\ todo' = <<>>
<1> HIDE DEF text, visit, nested
<1>12. ASSUME out = <<>>, todo = <<vc, vn, vd>> PROVE Goal
  <2>1. Head(todo) = vc /\ Tail(todo) = <<vn, vd>> BY <1>12
  <2>2. todo' = VisitRefs(Refs(pool[c])) \o Tail(todo) /\ out' = out
    <3>1. <<index[u]>> # <<>> OBVIOUS
    <3> QED BY <1>4, <1>10, <2>1, <3>1, Zenon
  <2>3. VisitRefs(Refs(pool[c])) = <<vu>> BY <1>7, <1>9, Zenon
  <2>4. <<vu>> \o <<vn, vd>> = <<vu, vn, vd>> BY Short, ZenonT(30)
  <2> QED BY <1>12, <2>1, <2>2, <2>3, <2>4, Zenon
<1>13. ASSUME out = <<>>, todo = <<vu, vn, vd>> PROVE Goal
  <2>1. Head(todo) = vu /\ Tail(todo) = <<vn, vd>> BY <1>13
  <2>2. todo' = <<>> \o Tail(todo) /\ out' = Append(out, tu)
    BY <1>3, <1>4, <1>7, <1>9, <1>10, <2>1, Zenon
  <2>3. <<>> \o <<vn, vd>> = <<vn, vd>> /\ Append(<<>>, tu) = <<tu>> BY Short, Zenon
  <2> QED BY <1>13, <2>1, <2>2, <2>3, Zenon
<1>14. ASSUME out = <<tu>>, todo = <<vn, vd>> PROVE Goal
  <2>1. Head(todo) = vn /\ Tail(todo) = <<vd>> BY <1>14
  <2>2. todo' = <<>> \o Tail(todo) /\ out' = Append(out, tn)
    BY <1>3, <1>4, <1>7, <1>9, <1>10, <2>1, Zenon
  <2>3. <<>> \o <<vd>> = <<vd>> /\ Append(<<tu>>, tn) = <<tu, tn>> BY Short, Zenon
  <2> QED BY <1>14, <2>1, <2>2, <2>3, Zenon
<1>15. ASSUME out = <<tu, tn>>, todo = <<vd>> PROVE Goal
  <2>1. Head(todo) = vd /\ Tail(todo) = <<>> BY <1>15
  <2>2. todo' = <<>> \o Tail(todo) /\ out' = Append(out, td)
    BY <1>3, <1>4, <1>7, <1>9, <1>10, <2>1, Zenon
  <2>3. <<>> \o <<>> = <<>> /\ Append(<<tu, tn>>, td) = <<tu, tn, td>> BY Short, ZenonT(30)
  <2> QED BY <1>15, <2>1, <2>2, <2>3, Zenon
<1>16. Goal BY <1>1, <1>11, <1>12, <1>13, <1>14, <1>15, Zenon
<1> QED BY <1>8, <1>9, <1>16, Zenon DEF OnTheWay, text, visit, nested

LEMMA VisitIInv ==
  ASSUME IInv, Visit
  PROVE  IInv'
<1> USE DEF IInv
<1>1. phase = "naming" /\ todo # <<>> /\ UNCHANGED layout /\ UNCHANGED reader /\ member' = member
  BY Zenon DEF Visit
<1>2. pool' = pool /\ index' = index BY <1>1 DEF layout
<1>3. todo \in Seq([index : Nat, nested : BOOLEAN]) /\ out \in Seq(Seq(Byte)) /\ member \in Nat
  BY DEF TypeOK
<1>4. /\ 1 \in 1..Len(todo) /\ Head(todo) = todo[1]
      /\ Tail(todo) \in Seq([index : Nat, nested : BOOLEAN])
      /\ Len(Tail(todo)) = Len(todo) - 1 /\ Len(todo) \in Nat
      /\ \A q \in 1..(Len(todo) - 1) : Tail(todo)[q] = todo[q + 1]
  BY <1>1, <1>3
<1>5. \A q \in 1..Len(todo) : \E j \in 1..Len(pool) : todo[q].index = index[j]
  BY <1>1, Zenon DEF Visits
<1>6. PICK j \in 1..Len(pool) : Head(todo).index = index[j]
  BY <1>4, <1>5, Zenon
<1>7. /\ pool[j] \in Constant
      /\ InPool(index[j])
      /\ EntryAt(index[j]).refs = Refs(pool[j])
      /\ EntryAt(index[j]).text = Text(pool[j])
  BY <1>1, EntryOf
<1>8. /\ phase' = phase
      /\ todo' = VisitRefs(Refs(pool[j])) \o Tail(todo)
      /\ out' = IF Refs(pool[j]) = <<>> THEN Append(out, Text(pool[j])) ELSE out
  BY <1>6, <1>7, Zenon DEF Visit
<1>9. PICK more \in Seq([index : Nat, nested : BOOLEAN]),
           rest \in Seq([index : Nat, nested : BOOLEAN]) :
        more = VisitRefs(Refs(pool[j])) /\ rest = Tail(todo)
  BY <1>1, <1>4, MoreVisits, Zenon
<1>10. /\ \A q \in 1..Len(more) : \E i \in 1..Len(pool) : more[q].index = index[i]
       /\ \A q \in 1..Len(rest) : \E i \in 1..Len(pool) : rest[q].index = index[i]
  <2>1. \A q \in 1..Len(more) : \E i \in 1..Len(pool) : more[q].index = index[i]
    BY <1>1, <1>9, MoreVisits, Zenon
  <2>2. ASSUME NEW q \in 1..Len(rest)
        PROVE  \E i \in 1..Len(pool) : rest[q].index = index[i]
    <3>1. q \in 1..(Len(todo) - 1) /\ q + 1 \in 1..Len(todo) BY <1>4, <1>9
    <3>2. rest[q] = todo[q + 1] BY <1>4, <1>9, <3>1, Zenon
    <3> QED BY <1>5, <3>1, <3>2, Zenon
  <2> QED BY <2>1, <2>2
<1>11. /\ todo' \in Seq([index : Nat, nested : BOOLEAN])
       /\ Len(todo') = Len(more) + Len(rest)
       /\ \A q \in 1..Len(more) : todo'[q] = more[q]
       /\ \A q \in 1..Len(rest) : todo'[Len(more) + q] = rest[q]
  <2>1. todo' = more \o rest BY <1>8, <1>9, Zenon
  <2> QED BY <2>1, Written
<1>12. out' \in Seq(Seq(Byte))
  <2>1. Text(pool[j]) \in Seq(Byte) BY <1>7, DecodedType
  <2>2. Append(out, Text(pool[j])) \in Seq(Seq(Byte)) BY <1>3, <2>1
  <2> QED BY <1>3, <1>8, <2>2, Zenon
<1>13. Visits'
  <2>1. ASSUME NEW q \in 1..Len(todo')
        PROVE  \E i \in 1..Len(pool') : todo'[q].index = index'[i]
    <3>1. CASE q \in 1..Len(more)
      <4>1. todo'[q] = more[q] BY <1>11, <3>1, Zenon
      <4> QED BY <1>2, <1>10, <3>1, <4>1, Zenon
    <3>2. CASE q \notin 1..Len(more)
      <4>1. Len(more) \in Nat /\ Len(rest) \in Nat OBVIOUS
      <4>2. Len(todo') = Len(more) + Len(rest) BY <1>11
      <4>3. PICK r \in 1..Len(rest) : q = Len(more) + r
        <5>1. q - Len(more) \in 1..Len(rest) BY <3>2, <4>1, <4>2
        <5>2. q = Len(more) + (q - Len(more)) BY <4>1
        <5> QED BY <5>1, <5>2
      <4>4. todo'[q] = rest[r] BY <1>11, <4>3, Zenon
      <4> QED BY <1>2, <1>10, <4>4, Zenon
    <3> QED BY <3>1, <3>2
  <2>2. ASSUME member # 0
        PROVE  \E m, c, nt, u, n, d \in 1..Len(pool') :
                 /\ member' = index'[m]
                 /\ Refs(pool[m])' = <<index'[c], index'[nt]>>
                 /\ Refs(pool[c])' = <<index'[u]>>
                 /\ Refs(pool[nt])' = <<index'[n], index'[d]>>
                 /\ \A i \in {u, n, d} : pool'[i].tag = Utf8
                 /\ OnTheWay(c, u, n, d)'
    <3>1. PICK m, c, nt, u, n, d \in 1..Len(pool) :
            /\ member = index[m]
            /\ Refs(pool[m]) = <<index[c], index[nt]>>
            /\ Refs(pool[c]) = <<index[u]>>
            /\ Refs(pool[nt]) = <<index[n], index[d]>>
            /\ \A i \in {u, n, d} : pool[i].tag = Utf8
            /\ OnTheWay(c, u, n, d)
      BY <1>1, <2>2 DEF Visits
    <3>2. OnTheWay(c, u, n, d)'
      <4>1. pool[u].tag = Utf8 /\ pool[n].tag = Utf8 /\ pool[d].tag = Utf8 BY <3>1
      <4> QED BY <3>1, <4>1, VisitOnTheWay
    <3>3. \A i \in 1..Len(pool) : Refs(pool[i])' = Refs(pool[i])
      BY <1>2 DEF Refs, Num
    <3>4. /\ member' = index'[m]
          /\ Refs(pool[m])' = <<index'[c], index'[nt]>>
          /\ Refs(pool[c])' = <<index'[u]>>
          /\ Refs(pool[nt])' = <<index'[n], index'[d]>>
          /\ \A i \in {u, n, d} : pool'[i].tag = Utf8
      BY <1>1, <1>2, <3>1, <3>3, Zenon
    <3>5. m \in 1..Len(pool') /\ c \in 1..Len(pool') /\ nt \in 1..Len(pool')
          /\ u \in 1..Len(pool') /\ n \in 1..Len(pool') /\ d \in 1..Len(pool')
      BY <1>2
    <3> QED BY <3>2, <3>4, <3>5
  <2> QED BY <1>1, <2>1, <2>2 DEF Visits
<1>14. member' \in Nat BY <1>1, <1>3
<1>15. /\ phase # "writing" /\ phase' # "writing" /\ phase' # "thrown" /\ phase' \in Phase
  BY <1>1, <1>8 DEF Phase
<1>16. ReadUpTo(Len(pool)) BY <1>1 DEF Ordered
<1> QED BY <1>1, <1>11, <1>12, <1>13, <1>14, <1>15, <1>16, Elsewhere
-----------------------------------------------------------------------------
(* The theorems.                                                           *)

LEMMA StutterIInv ==
  ASSUME IInv, UNCHANGED vars
  PROVE  IInv'
<1> USE DEF IInv
<1>1. /\ UNCHANGED layout /\ UNCHANGED reader
      /\ pool' = pool /\ index' = index /\ starts' = starts /\ bytes' = bytes
      /\ count' = count /\ phase' = phase /\ readPos' = readPos
      /\ indexPos' = indexPos /\ entries' = entries
      /\ todo' = todo /\ out' = out /\ member' = member
  BY DEF vars, layout, reader, visitor
<1>2. TypeOK' BY <1>1, Zenon DEF TypeOK
<1>3. Laid' BY <1>1, LayoutKept
<1>4. Visits'
  <2>1. Len(pool)' = Len(pool) BY <1>1
  <2>2. /\ \A i : Text(pool[i])' = Text(pool[i]) /\ ToString(index[i])' = ToString(index[i])
        /\ \A i : Refs(pool[i])' = Refs(pool[i])
    BY <1>1, ZenonT(30) DEF Text, ToString, Refs, Num
  <2>3. ASSUME NEW c \in 1..Len(pool), NEW u \in 1..Len(pool),
               NEW n \in 1..Len(pool), NEW d \in 1..Len(pool), OnTheWay(c, u, n, d)
        PROVE  OnTheWay(c, u, n, d)'
    BY <1>1, <2>2, <2>3, Zenon DEF OnTheWay
  <2>4. ASSUME phase = "naming", member # 0
        PROVE  \E m, c, nt, u, n, d \in 1..Len(pool') :
                 /\ member' = index'[m]
                 /\ Refs(pool[m])' = <<index'[c], index'[nt]>>
                 /\ Refs(pool[c])' = <<index'[u]>>
                 /\ Refs(pool[nt])' = <<index'[n], index'[d]>>
                 /\ \A i \in {u, n, d} : pool'[i].tag = Utf8
                 /\ OnTheWay(c, u, n, d)'
    <3>1. PICK m, c, nt, u, n, d \in 1..Len(pool) :
            /\ member = index[m]
            /\ Refs(pool[m]) = <<index[c], index[nt]>>
            /\ Refs(pool[c]) = <<index[u]>>
            /\ Refs(pool[nt]) = <<index[n], index[d]>>
            /\ \A i \in {u, n, d} : pool[i].tag = Utf8
            /\ OnTheWay(c, u, n, d)
      BY <2>4 DEF Visits
    <3>2. /\ member' = index'[m]
          /\ Refs(pool[m])' = <<index'[c], index'[nt]>>
          /\ Refs(pool[c])' = <<index'[u]>>
          /\ Refs(pool[nt])' = <<index'[n], index'[d]>>
          /\ \A i \in {u, n, d} : pool'[i].tag = Utf8
      BY <1>1, <2>2, <3>1, Zenon
    <3>3. OnTheWay(c, u, n, d)' BY <2>3, <3>1, Zenon
    <3>4. m \in 1..Len(pool') /\ c \in 1..Len(pool') /\ nt \in 1..Len(pool')
          /\ u \in 1..Len(pool') /\ n \in 1..Len(pool') /\ d \in 1..Len(pool')
      BY <2>1
    <3> QED BY <3>2, <3>3, <3>4
  <2>5. phase = "naming" => \A q \in 1..Len(todo') : \E j \in 1..Len(pool') : todo'[q].index = index'[j]
    BY <1>1, Zenon DEF Visits
  <2> QED BY <1>1, <2>4, <2>5 DEF Visits
<1>5. CASE phase = "writing"
  BY <1>1, <1>2, <1>3, <1>4, <1>5 DEF Aligned, Ordered, RefusesOnlyNew
<1>6. CASE phase # "writing"
  <2>1. /\ todo' \in Seq([index : Nat, nested : BOOLEAN])
        /\ out' \in Seq(Seq(Byte)) /\ member' \in Nat /\ phase' \in Phase
    BY <1>2, Zenon DEF TypeOK
  <2>2. phase' \in {"read", "naming"} => ReadUpTo(Len(pool)) BY <1>1 DEF Ordered
  <2>3. phase' = "thrown" => \E i \in 1..Len(pool) : pool[i].tag \in New
    BY <1>1, Zenon DEF RefusesOnlyNew
  <2> QED BY <1>1, <1>4, <1>6, <2>1, <2>2, <2>3, Elsewhere
<1> QED BY <1>5, <1>6

LEMMA NextIInv ==
  ASSUME IInv, [Next]_vars
  PROVE  IInv'
<1>1. CASE Write BY <1>1, WriteIInv
<1>2. CASE HandOver BY <1>2, HandOverIInv
<1>3. CASE ReadNext BY <1>3, ReadNextIInv
<1>4. CASE ReadThrow BY <1>4, ReadThrowIInv
<1>5. CASE ReadDone BY <1>5, ReadDoneIInv
<1>6. CASE Visit BY <1>6, VisitIInv
<1>7. CASE Named BY <1>7, NamedIInv
<1>8. ASSUME NEW i \in 1..Len(index), ReadFromCodeInvoke(i) PROVE IInv'
  <2>1. pool[i].tag \in Member /\ ReadMember(index[i])
    BY <1>8 DEF ReadFromCodeInvoke, Member
  <2> QED BY <2>1, ReadMemberIInv
<1>9. ASSUME NEW i \in 1..Len(index), ReadFromFieldInsn(i) PROVE IInv'
  <2>1. pool[i].tag \in Member /\ ReadMember(index[i])
    BY <1>9 DEF ReadFromFieldInsn, Member
  <2> QED BY <2>1, ReadMemberIInv
<1>10. ASSUME NEW i \in 1..Len(index), PrintEntry(index[i]) PROVE IInv'
  BY <1>10, PrintEntryIInv
<1>11. CASE UNCHANGED vars BY <1>11, StutterIInv
<1> QED
  BY <1>1, <1>2, <1>3, <1>4, <1>5, <1>6, <1>7, <1>8, <1>9, <1>10, <1>11
  DEF Next, Agent, Instruction

\* The bytes are laid out as the constants are, the reader is at a boundary
\* between two of them with every constant before it decoded, and the visits of
\* a member are on their way to its names.
THEOREM Inductive == Spec => []IInv
<1>1. IInv /\ [Next]_vars => IInv' BY NextIInv
<1> QED BY <1>1, InitIInv, PTL DEF Spec

\* The variables have their types: every position, index and byte is in range.
THEOREM TypeCorrect == Spec => []TypeOK
<1>1. IInv => TypeOK BY DEF IInv
<1> QED BY <1>1, Inductive, PTL

\* ConstPool::read keeps to the boundaries of the constants, and has each of
\* them at the index the class refers to it by, whatever the pool.
THEOREM ReaderAligned == Spec => []Aligned
<1>1. IInv => Aligned BY DEF IInv
<1> QED BY <1>1, Inductive, PTL

\* The assertion of Jvmti::getConstPool holds: as many entries as the count of
\* the class file says.
THEOREM CountRight == Spec => []CountAgrees
<1>1. ASSUME IInv PROVE CountAgrees
  <2>1. SUFFICES ASSUME phase \in {"read", "naming"} PROVE Len(entries) = count
    BY DEF CountAgrees
  <2>2. /\ Len(entries) = indexPos /\ ReadUpTo(Len(pool))
        /\ Len(index) = Len(pool) /\ Len(pool) \in Nat
    BY <1>1, <2>1 DEF IInv, Aligned, Ordered, TypeOK
  <2>3. indexPos = Index(Len(pool) + 1) BY <2>2 DEF ReadUpTo
  <2> QED BY <2>2, <2>3 DEF Index
<1> QED BY <1>1, Inductive, PTL

\* The reader throws for a kind of constant that it does not know, and never
\* for a reference that leads nowhere or for an entry of another kind.
THEOREM OnlyNewRefused == Spec => []RefusesOnlyNew
<1>1. IInv => RefusesOnlyNew BY DEF IInv
<1> QED BY <1>1, Inductive, PTL

\* readFromMemberRef gives the class, the name and the descriptor that the
\* class file gives the member.
THEOREM NamesRight == Spec => []MembersNamed
<1>1. ASSUME IInv PROVE MembersNamed
  <2>1. SUFFICES ASSUME phase = "naming", member # 0, todo = <<>>
                 PROVE  LET class == At(Refs(At(member))[1])
                            nameAndType == At(Refs(At(member))[2])
                        IN  out = << Text(At(Refs(class)[1])),
                                     Text(At(Refs(nameAndType)[1])),
                                     Text(At(Refs(nameAndType)[2])) >>
    BY DEF MembersNamed
  <2>2. Len(index) = Len(pool) BY <1>1, <2>1 DEF IInv, TypeOK, Ordered
  <2>3. ASSUME NEW j \in 1..Len(pool) PROVE At(index[j]) = pool[j]
    <3>1. \A i \in 1..Len(pool) : index[i] = index[j] => i = j
      BY <1>1, <2>2, OneAtEach
    <3>2. (CHOOSE i \in 1..Len(pool) : index[i] = index[j]) = j BY <3>1
    <3> QED BY <3>2, Zenon DEF At
  <2>4. PICK m, c, nt, u, n, d \in 1..Len(pool) :
          /\ member = index[m]
          /\ Refs(pool[m]) = <<index[c], index[nt]>>
          /\ Refs(pool[c]) = <<index[u]>>
          /\ Refs(pool[nt]) = <<index[n], index[d]>>
          /\ OnTheWay(c, u, n, d)
    BY <1>1, <2>1, ZenonT(30) DEF IInv, Visits
  <2>5. out = <<Text(pool[u]), Text(pool[n]), Text(pool[d])>>
    <3>1. \A a, b, x : <<>> # <<a>> /\ <<>> # <<a, b>> /\ <<>> # <<a, b, x>> OBVIOUS
    <3> QED BY <2>1, <2>4, <3>1, Zenon DEF OnTheWay
  <2>6. At(member) = pool[m] BY <2>3, <2>4, Zenon
  <2>7. Refs(At(member))[1] = index[c] /\ Refs(At(member))[2] = index[nt]
    BY <2>4, <2>6
  <2>8. At(Refs(At(member))[1]) = pool[c] /\ At(Refs(At(member))[2]) = pool[nt]
    BY <2>3, <2>7, Zenon
  <2>9. /\ Refs(pool[c])[1] = index[u]
        /\ Refs(pool[nt])[1] = index[n] /\ Refs(pool[nt])[2] = index[d]
    BY <2>4
  <2>10. /\ At(Refs(pool[c])[1]) = pool[u]
         /\ At(Refs(pool[nt])[1]) = pool[n] /\ At(Refs(pool[nt])[2]) = pool[d]
    BY <2>3, <2>9, Zenon
  <2> QED BY <2>5, <2>8, <2>10, Zenon
<1> QED BY <1>1, Inductive, PTL

-----------------------------------------------------------------------------
(* The loop and the recursion end.                                         *)

\* Visits that a constant leads to at most, itself among them.
Weight(tag) ==
  CASE tag \in Member -> 6
    [] tag = NameAndType -> 3
    [] tag = MethodHandle -> 7
    [] tag \in {17, InvokeDynamic} -> 4
    [] tag \in {Class, String, MethodType, 19, 20} -> 2
    [] OTHER -> 1

\* What the visits s lead to.
Work(s) == Total([q \in 1..Len(s) |-> Weight(EntryAt(s[q].index).tag)])

\* Steps that are left at most.
Left ==
  IF phase = "reading" THEN (Len(bytes) - readPos) + 1
  ELSE IF phase = "naming" THEN Work(todo) + 1 ELSE 0

\* Nothing happens meanwhile but the agent's steps, and each leaves fewer.
Descends == phase \in {"reading", "naming"} => Left' \in Nat /\ Left' < Left

\* The visits of what a constant refers to are fewer than its own.
LEMMA WantedLighter ==
  ASSUME NEW tag \in Tag
  PROVE  /\ tag \in {Class, String, MethodType, 19, 20} \cup {MethodHandle, 17, InvokeDynamic} =>
              \A v \in Wanted(tag, 1) : Weight(v) < Weight(tag)
         /\ tag \in Member \cup {NameAndType} =>
              \A v \in Wanted(tag, 1), w \in Wanted(tag, 2) :
                Weight(v) + Weight(w) < Weight(tag)
<1> USE DEF Tag, Known, New, Utf8, Wide, Number, Class, String, MethodType, Member,
            Methodref, Fieldref, NameAndType, MethodHandle, InvokeDynamic
<1>1. CASE tag \in {Class, String, MethodType, 19, 20} BY <1>1 DEF Wanted, Weight
<1>2. CASE tag = MethodHandle BY <1>2 DEF Wanted, Weight
<1>3. CASE tag \in {17, InvokeDynamic} BY <1>3 DEF Wanted, Weight
<1>4. CASE tag \in Member BY <1>4 DEF Wanted, Weight
<1>5. CASE tag = NameAndType BY <1>5 DEF Wanted, Weight
<1> QED BY <1>1, <1>2, <1>3, <1>4, <1>5

LEMMA WeightType == \A tag : Weight(tag) \in 1..7
BY DEF Weight

LEMMA RefsLighter ==
  ASSUME IInv, phase # "writing", NEW j \in 1..Len(pool)
  PROVE  \/ Refs(pool[j]) = <<>>
         \/ \E a \in 1..Len(pool) :
              Refs(pool[j]) = <<index[a]>> /\ Weight(pool[a].tag) < Weight(pool[j].tag)
         \/ \E a, b \in 1..Len(pool) :
              /\ Refs(pool[j]) = <<index[a], index[b]>>
              /\ Weight(pool[a].tag) + Weight(pool[b].tag) < Weight(pool[j].tag)
<1>1. WellFormed /\ pool[j] \in Constant BY DEF IInv, Ordered, TypeOK
<1>2. pool[j].tag \in Tag BY <1>1, ConstantParts
<1>3. \A r \in 1..Len(Refs(pool[j])) :
        \E i \in 1..Len(pool) : /\ index[i] = Refs(pool[j])[r]
                                /\ pool[i].tag \in Wanted(pool[j].tag, r)
  BY <1>1, Zenon DEF WellFormed
<1>4. ASSUME NEW x, Refs(pool[j]) = <<x>>,
             \A v \in Wanted(pool[j].tag, 1) : Weight(v) < Weight(pool[j].tag)
      PROVE  \E a \in 1..Len(pool) :
               Refs(pool[j]) = <<index[a]>> /\ Weight(pool[a].tag) < Weight(pool[j].tag)
  <2>1. 1 \in 1..Len(Refs(pool[j])) /\ Refs(pool[j])[1] = x BY <1>4
  <2>2. PICK a \in 1..Len(pool) : index[a] = x /\ pool[a].tag \in Wanted(pool[j].tag, 1)
    BY <1>3, <2>1, Zenon
  <2> QED BY <1>4, <2>2, Zenon
<1>5. ASSUME NEW x, NEW y, Refs(pool[j]) = <<x, y>>,
             \A v \in Wanted(pool[j].tag, 1), w \in Wanted(pool[j].tag, 2) :
               Weight(v) + Weight(w) < Weight(pool[j].tag)
      PROVE  \E a, b \in 1..Len(pool) :
               /\ Refs(pool[j]) = <<index[a], index[b]>>
               /\ Weight(pool[a].tag) + Weight(pool[b].tag) < Weight(pool[j].tag)
  <2>1. /\ 1 \in 1..Len(Refs(pool[j])) /\ Refs(pool[j])[1] = x
        /\ 2 \in 1..Len(Refs(pool[j])) /\ Refs(pool[j])[2] = y
    BY <1>5
  <2>2. PICK a \in 1..Len(pool) : index[a] = x /\ pool[a].tag \in Wanted(pool[j].tag, 1)
    BY <1>3, <2>1, Zenon
  <2>3. PICK b \in 1..Len(pool) : index[b] = y /\ pool[b].tag \in Wanted(pool[j].tag, 2)
    BY <1>3, <2>1, Zenon
  <2> QED BY <1>5, <2>2, <2>3, Zenon
<1>6. CASE pool[j].tag = Utf8 \/ pool[j].tag \in Number
  <2>1. Refs(pool[j]) = <<>> BY <1>1, <1>6, ByKind, Zenon
  <2> QED BY <2>1
<1>7. CASE pool[j].tag \in {Class, String, MethodType, 19, 20}
  <2>1. Refs(pool[j]) = <<Num(pool[j].args, 1)>> BY <1>1, <1>7, ByKind, Zenon
  <2>2. \A v \in Wanted(pool[j].tag, 1) : Weight(v) < Weight(pool[j].tag)
    BY <1>2, <1>7, WantedLighter
  <2> QED BY <1>4, <2>1, <2>2, Zenon
<1>8. CASE pool[j].tag = MethodHandle
  <2>1. Refs(pool[j]) = <<Num(pool[j].args, 2)>> BY <1>1, <1>8, ByKind, Zenon
  <2>2. \A v \in Wanted(pool[j].tag, 1) : Weight(v) < Weight(pool[j].tag)
    BY <1>2, <1>8, WantedLighter
  <2> QED BY <1>4, <2>1, <2>2, Zenon
<1>9. CASE pool[j].tag \in {17, InvokeDynamic}
  <2>1. Refs(pool[j]) = <<Num(pool[j].args, 3)>> BY <1>1, <1>9, ByKind, Zenon
  <2>2. \A v \in Wanted(pool[j].tag, 1) : Weight(v) < Weight(pool[j].tag)
    BY <1>2, <1>9, WantedLighter
  <2> QED BY <1>4, <2>1, <2>2, Zenon
<1>10. CASE pool[j].tag \in Member \cup {NameAndType}
  <2>1. Refs(pool[j]) = <<Num(pool[j].args, 1), Num(pool[j].args, 3)>>
    BY <1>1, <1>10, ByKind, Zenon
  <2>2. \A v \in Wanted(pool[j].tag, 1), w \in Wanted(pool[j].tag, 2) :
          Weight(v) + Weight(w) < Weight(pool[j].tag)
    BY <1>2, <1>10, WantedLighter
  <2> QED BY <1>5, <2>1, <2>2, Zenon
<1> QED BY <1>2, <1>6, <1>7, <1>8, <1>9, <1>10, OneKind, Zenon

LEMMA WorkType == ASSUME NEW S, NEW s \in Seq(S) PROVE Work(s) \in Nat
<1>1. PICK w : w = [q \in 1..Len(s) |-> Weight(EntryAt(s[q].index).tag)] BY Zenon
<1>2. w \in Seq(Nat)
  <2>1. \A q \in 1..Len(s) : Weight(EntryAt(s[q].index).tag) \in Nat BY WeightType
  <2> QED BY <1>1, <2>1
<1> QED BY <1>1, <1>2, TotalType, Zenon DEF Work

\* One more visit in front.
LEMMA WorkCons ==
  ASSUME NEW S, NEW s \in Seq(S), NEW t \in Seq(S), Len(s) = Len(t) + 1,
         \A k \in 1..Len(t) : s[k + 1] = t[k]
  PROVE  Work(s) = Weight(EntryAt(s[1].index).tag) + Work(t)
<1>1. PICK n \in Nat : n = Len(t) /\ n + 1 = Len(s)
  <2>1. Len(t) \in Nat OBVIOUS
  <2> QED BY <2>1, Zenon
<1>2. PICK a \in Nat : a = Weight(EntryAt(s[1].index).tag)
  <2>1. Weight(EntryAt(s[1].index).tag) \in Nat BY WeightType
  <2> QED BY <2>1, Zenon
<1> DEFINE W(x) == Weight(EntryAt(x.index).tag)
<1>3. \A x : W(x) \in Nat BY WeightType
<1>4. Work(s) = Total([q \in 1..(n + 1) |-> W(s[q])]) /\ Work(t) = Total([q \in 1..n |-> W(t[q])])
  BY <1>1, Zenon DEF Work
<1>5. a = W(s[1]) BY <1>2
<1> HIDE DEF W
<1>6. PICK v : v = [q \in 1..(n + 1) |-> W(s[q])] OBVIOUS
<1>7. PICK w : w = [q \in 1..n |-> W(t[q])] OBVIOUS
<1>8. v \in Seq(Nat) /\ Len(v) = n + 1 BY <1>1, <1>3, <1>6
<1>9. w \in Seq(Nat) /\ Len(w) = n BY <1>1, <1>3, <1>7
<1>10. v[1] = a
  <2>1. 1 \in 1..(n + 1) BY <1>1
  <2> QED BY <1>5, <1>6, <2>1
<1>11. ASSUME NEW k \in 1..n PROVE v[k + 1] = w[k]
  <2>1. k + 1 \in 1..(n + 1) BY <1>1
  <2>2. s[k + 1] = t[k] BY <1>1
  <2>3. v[k + 1] = W(s[k + 1]) /\ w[k] = W(t[k]) BY <1>6, <1>7, <2>1
  <2> QED BY <2>2, <2>3, Zenon
<1>12. Total(v) = a + Total(w)
  <2>1. Len(v) = Len(w) + 1 BY <1>8, <1>9
  <2>2. \A k \in 1..Len(w) : v[k + 1] = w[k] BY <1>9, <1>11
  <2> QED BY <1>2, <1>8, <1>9, <1>10, <2>1, <2>2, TotalCons
<1> QED BY <1>2, <1>4, <1>6, <1>7, <1>12, Zenon

\* The visit of a constant is replaced by those of what it refers to.
LEMMA WorkVisit ==
  ASSUME IInv, phase = "naming", NEW j \in 1..Len(pool),
         NEW R, R = [index : Nat, nested : BOOLEAN], NEW rest \in Seq(R),
         NEW s, s = VisitRefs(Refs(pool[j])) \o rest
  PROVE  Work(s) \in Nat /\ Work(s) < Weight(pool[j].tag) + Work(rest)
<1>0. PICK m \in Nat : m = Work(rest) BY WorkType, Zenon
<1>1. PICK k \in Nat : k = Weight(pool[j].tag) /\ k >= 1
  <2>1. Weight(pool[j].tag) \in 1..7 BY WeightType
  <2> QED BY <2>1
<1>2. ASSUME NEW a \in 1..Len(pool)
      PROVE  EntryAt(index[a]).tag = pool[a].tag /\ Weight(pool[a].tag) \in Nat
  <2>1. EntryAt(index[a]).tag = pool[a].tag BY EntryOf
  <2>2. Weight(pool[a].tag) \in 1..7 BY WeightType
  <2> QED BY <2>1, <2>2
<1>3. PICK more \in Seq(R) :
        /\ s = more \o rest /\ Len(more) = Len(Refs(pool[j]))
        /\ \A q \in 1..Len(more) : more[q].index = Refs(pool[j])[q]
  <2>1. PICK refs \in Seq(Nat) : refs = Refs(pool[j])
    <3>1. pool[j] \in Constant BY EntryOf
    <3> QED BY <3>1, DecodedType
  <2>2. PICK more : more = VisitRefs(refs) OBVIOUS
  <2>3. more \in Seq(R) /\ Len(more) = Len(refs) BY <2>2, RefsVisited, Zenon
  <2>4. ASSUME NEW q \in 1..Len(more) PROVE more[q].index = refs[q]
    <3>1. more[q] = [index |-> refs[q], nested |-> TRUE]
      BY <2>2, <2>3, RefsVisited, Zenon
    <3> QED BY <3>1
  <2> QED BY <2>1, <2>2, <2>3, <2>4, Zenon
<1>4. PICK l \in Nat : l = Len(rest) OBVIOUS
<1>5. /\ s \in Seq(R) /\ Len(s) = Len(more) + l
      /\ \A q \in 1..Len(more) : s[q] = more[q]
      /\ \A q \in 1..l : s[Len(more) + q] = rest[q]
  <2>1. s = more \o rest BY <1>3
  <2>2. /\ more \o rest \in Seq(R) /\ Len(more \o rest) = Len(more) + Len(rest)
        /\ \A q \in 1..Len(more) : (more \o rest)[q] = more[q]
        /\ \A q \in 1..Len(rest) : (more \o rest)[Len(more) + q] = rest[q]
    BY Written
  <2> QED BY <1>4, <2>1, <2>2, Zenon
<1>6. CASE Refs(pool[j]) = <<>>
  <2>1. Len(more) = 0
    <3>1. Len(<<>>) = 0 OBVIOUS
    <3> QED BY <1>3, <1>6, <3>1, Zenon
  <2>2. s = rest BY <1>3, <2>1
  <2> QED BY <1>0, <1>1, <2>2
<1>7. ASSUME NEW a \in 1..Len(pool), Refs(pool[j]) = <<index[a]>>,
             Weight(pool[a].tag) < Weight(pool[j].tag)
      PROVE  Work(s) \in Nat /\ Work(s) < Weight(pool[j].tag) + Work(rest)
  <2>1. Len(more) = 1 /\ more[1].index = index[a]
    <3>1. Len(<<index[a]>>) = 1 /\ <<index[a]>>[1] = index[a] /\ 1 \in 1..1 OBVIOUS
    <3> QED BY <1>3, <1>7, <3>1, Zenon
  <2>2. /\ Len(s) = Len(rest) + 1 /\ s[1].index = index[a]
        /\ \A q \in 1..Len(rest) : s[q + 1] = rest[q]
    <3>1. 1 \in 1..Len(more) BY <2>1
    <3>2. s[1] = more[1] BY <1>5, <3>1, Zenon
    <3>3. Len(s) = l + 1
      <4>1. 1 + l = l + 1 OBVIOUS
      <4> QED BY <1>5, <2>1, <4>1, Zenon
    <3>4. ASSUME NEW q \in 1..l PROVE s[q + 1] = rest[q]
      <4>1. 1 + q = q + 1 OBVIOUS
      <4>2. s[1 + q] = rest[q] BY <1>5, <2>1, Zenon
      <4> QED BY <4>1, <4>2, Zenon
    <3> QED BY <1>4, <2>1, <3>2, <3>3, <3>4, Zenon
  <2>3. Work(s) = Weight(EntryAt(s[1].index).tag) + Work(rest) BY <1>5, <2>2, WorkCons
  <2>4. PICK x \in Nat : x = Weight(pool[a].tag) BY <1>2
  <2>5. Work(s) = x + m BY <1>0, <1>2, <2>2, <2>3, <2>4, Zenon
  <2>6. x < k BY <1>1, <1>7, <2>4, Zenon
  <2>7. x + m \in Nat /\ x + m < k + m BY <2>6
  <2> QED BY <1>0, <1>1, <2>5, <2>7, Zenon
<1>8. ASSUME NEW a \in 1..Len(pool), NEW b \in 1..Len(pool),
             Refs(pool[j]) = <<index[a], index[b]>>,
             Weight(pool[a].tag) + Weight(pool[b].tag) < Weight(pool[j].tag)
      PROVE  Work(s) \in Nat /\ Work(s) < Weight(pool[j].tag) + Work(rest)
  <2>1. Len(more) = 2 /\ more[1].index = index[a] /\ more[2].index = index[b]
    <3>1. /\ Len(<<index[a], index[b]>>) = 2
          /\ <<index[a], index[b]>>[1] = index[a] /\ <<index[a], index[b]>>[2] = index[b]
          /\ 1 \in 1..2 /\ 2 \in 1..2
      OBVIOUS
    <3> QED BY <1>3, <1>8, <3>1, Zenon
  <2>2. /\ Len(s) = l + 2 /\ s[1].index = index[a] /\ s[2].index = index[b]
        /\ \A q \in 1..l : s[2 + q] = rest[q]
    <3>1. 1 \in 1..Len(more) /\ 2 \in 1..Len(more) BY <2>1
    <3>2. s[1] = more[1] /\ s[2] = more[2] BY <1>5, <3>1, Zenon
    <3>3. Len(s) = l + 2
      <4>1. 2 + l = l + 2 OBVIOUS
      <4> QED BY <1>5, <2>1, <4>1, Zenon
    <3>4. \A q \in 1..l : s[2 + q] = rest[q] BY <1>5, <2>1, Zenon
    <3> QED BY <2>1, <3>2, <3>3, <3>4, Zenon
  <2>3. PICK t \in Seq(R) : t = Tail(s)
    <3>1. s \in Seq(R) /\ Len(s) # 0 BY <1>5, <2>2
    <3>2. Tail(s) \in Seq(R) BY <3>1
    <3> QED BY <3>2, Zenon
  <2>4. /\ Len(t) = l + 1 /\ Len(s) = Len(t) + 1
        /\ \A q \in 1..Len(t) : s[q + 1] = t[q]
    <3>1. s \in Seq(R) /\ Len(s) = l + 2 /\ Len(s) # 0 BY <1>5, <2>2
    <3>2. s # <<>>
      <4>1. Len(<<>>) = 0 OBVIOUS
      <4> QED BY <3>1, <4>1
    <3>3. Len(t) = Len(s) - 1 /\ \A q \in 1..Len(t) : t[q] = s[q + 1]
      BY <2>3, <3>1, <3>2, HeadTailProperties, Zenon
    <3>4. Len(t) = l + 1 /\ Len(s) = Len(t) + 1
      <4>1. (l + 2) - 1 = l + 1 /\ l + 2 = (l + 1) + 1 OBVIOUS
      <4> QED BY <3>1, <3>3, <4>1, Zenon
    <3> QED BY <3>3, <3>4, Zenon
  <2>5. /\ Len(t) = Len(rest) + 1 /\ t[1].index = index[b]
        /\ \A q \in 1..Len(rest) : t[q + 1] = rest[q]
    <3>1. 1 \in 1..Len(t) /\ 1 + 1 = 2 BY <2>4
    <3>2. t[1] = s[2] BY <2>4, <3>1
    <3>3. ASSUME NEW q \in 1..l PROVE t[q + 1] = rest[q]
      <4>1. q + 1 \in 1..Len(t) /\ (q + 1) + 1 = 2 + q BY <2>4
      <4> QED BY <2>2, <2>4, <4>1
    <3> QED BY <1>4, <2>2, <2>4, <3>2, <3>3, Zenon
  <2>6. Work(s) = Weight(EntryAt(s[1].index).tag) + Work(t) BY <1>5, <2>4, WorkCons
  <2>7. Work(t) = Weight(EntryAt(t[1].index).tag) + Work(rest) BY <2>5, WorkCons
  <2>8. PICK x \in Nat, y \in Nat : x = Weight(pool[a].tag) /\ y = Weight(pool[b].tag)
    <3>1. Weight(pool[a].tag) \in Nat /\ Weight(pool[b].tag) \in Nat BY <1>2, Zenon
    <3> QED BY <3>1, Zenon
  <2>9. Work(s) = x + (y + m) BY <1>0, <1>2, <2>2, <2>5, <2>6, <2>7, <2>8, Zenon
  <2>10. x + y < k BY <1>1, <1>8, <2>8, Zenon
  <2>11. x + (y + m) \in Nat /\ x + (y + m) < k + m BY <2>10
  <2> QED BY <1>0, <1>1, <2>9, <2>11, Zenon
<1>9. \/ Refs(pool[j]) = <<>>
      \/ \E a \in 1..Len(pool) :
           Refs(pool[j]) = <<index[a]>> /\ Weight(pool[a].tag) < Weight(pool[j].tag)
      \/ \E a, b \in 1..Len(pool) :
           /\ Refs(pool[j]) = <<index[a], index[b]>>
           /\ Weight(pool[a].tag) + Weight(pool[b].tag) < Weight(pool[j].tag)
  BY RefsLighter
<1> QED BY <1>6, <1>7, <1>8, <1>9, Zenon

LEMMA VisitDescends ==
  ASSUME IInv, Visit
  PROVE  Left' \in Nat /\ Left' < Left
<1>1. phase = "naming" /\ todo # <<>> /\ UNCHANGED reader
  BY Zenon DEF Visit
<1>2. PICK R : R = [index : Nat, nested : BOOLEAN] OBVIOUS
<1>3. todo \in Seq(R) BY <1>2 DEF IInv, TypeOK
<1>4. PICK rest \in Seq(R) : rest = Tail(todo)
  <2>1. Tail(todo) \in Seq(R) BY <1>1, <1>3
  <2> QED BY <2>1, Zenon
<1>5. /\ 1 \in 1..Len(todo) /\ Head(todo) = todo[1]
      /\ Len(todo) = Len(rest) + 1
      /\ \A q \in 1..Len(rest) : todo[q + 1] = rest[q]
  BY <1>1, <1>3, <1>4
<1>6. PICK j \in 1..Len(pool) : todo[1].index = index[j]
  BY <1>1, <1>5, Zenon DEF IInv, Visits
<1>7. /\ InPool(index[j])
      /\ EntryAt(index[j]).refs = Refs(pool[j])
      /\ EntryAt(index[j]).tag = pool[j].tag
  BY <1>1, EntryOf
<1>8. phase' = "naming" /\ todo' = VisitRefs(Refs(pool[j])) \o rest
  BY <1>1, <1>4, <1>5, <1>6, <1>7, Zenon DEF Visit
<1>9. PICK s : s = todo' OBVIOUS
<1>10. Work(s) \in Nat /\ Work(s) < Weight(pool[j].tag) + Work(rest)
  BY <1>1, <1>2, <1>8, <1>9, WorkVisit
<1>11. Work(todo) = Weight(pool[j].tag) + Work(rest)
  BY <1>3, <1>5, <1>6, <1>7, WorkCons, SMTT(30)
<1>12. Work(todo)' = Work(s)
  <2>1. entries' = entries BY <1>1 DEF reader
  <2> QED BY <1>9, <2>1 DEF Work, EntryAt
<1>13. Left = Work(todo) + 1 /\ Left' = Work(s) + 1 BY <1>1, <1>8, <1>12 DEF Left
<1>14. Work(todo) \in Nat BY <1>3, WorkType
<1> QED BY <1>10, <1>11, <1>13, <1>14

\* A pass of the loop takes the reader forward.
LEMMA ReadFurther ==
  ASSUME IInv, ReadNext
  PROVE  readPos < readPos'
<1>1. /\ phase = "reading" /\ readPos < Len(bytes)
      /\ bytes[readPos + 1] \in Known
      /\ readPos' = readPos + 1 + ReadSize(bytes[readPos + 1], readPos + 1)
  BY Zenon DEF ReadNext
<1>2. PICK k \in 0..Len(pool) : k + 1 \in 1..Len(pool) /\ k + 1 \in 1..Len(starts)
                                /\ readPos = starts[k + 1]
  BY <1>1, AtReader
<1>3. /\ pool[k + 1] \in Constant /\ bytes[readPos + 1] = pool[k + 1].tag
      /\ ReadSize(pool[k + 1].tag, readPos + 1) = Len(pool[k + 1].args)
  BY <1>1, <1>2, ReadsConstant DEF IInv
<1>4. PICK size \in Nat : size = Len(pool[k + 1].args) BY <1>3, ConstantParts
<1>5. readPos' = readPos + 1 + size BY <1>1, <1>3, <1>4, Zenon
<1>6. readPos \in Nat BY DEF IInv, TypeOK
<1> QED BY <1>5, <1>6

LEMMA AgentDescends ==
  ASSUME IInv, [Next]_vars, vars' # vars, phase \in {"reading", "naming"}
  PROVE  Left' \in Nat /\ Left' < Left
<1>1. CASE Write BY <1>1, Zenon DEF Write
<1>2. CASE HandOver BY <1>2, Zenon DEF HandOver
<1>3. CASE phase = "reading" /\ (ReadThrow \/ ReadDone)
  <2>1. phase' = "thrown" \/ phase' = "read" BY <1>3, Zenon DEF ReadThrow, ReadDone
  <2>2. Left' = 0 BY <2>1 DEF Left
  <2>3. Left = (Len(bytes) - readPos) + 1 BY <1>3 DEF Left
  <2>4. readPos \in 0..Len(bytes) /\ Len(bytes) \in Nat BY DEF IInv, TypeOK
  <2> QED BY <2>2, <2>3, <2>4
<1>4. CASE ReadNext
  <2>1. IInv' BY NextIInv
  <2>2. PICK n \in Nat : n = Len(bytes) BY DEF IInv, TypeOK
  <2>3. /\ phase = "reading" /\ phase' = "reading" /\ bytes' = bytes
        /\ readPos < n
    BY <1>4, <2>2, Zenon DEF ReadNext, layout
  <2>4. PICK x \in Nat : x = readPos BY DEF IInv, TypeOK
  <2>5. PICK y \in 0..n : y = readPos' BY <2>1, <2>2, <2>3 DEF IInv, TypeOK
  <2>6. x < y BY <1>4, <2>4, <2>5, ReadFurther, Zenon
  <2>7. Left = (n - x) + 1 /\ Left' = (n - y) + 1 BY <2>2, <2>3, <2>4, <2>5 DEF Left
  <2>8. (n - y) + 1 \in Nat /\ (n - y) + 1 < (n - x) + 1 BY <2>6
  <2> QED BY <2>7, <2>8, Zenon
<1>5. CASE Visit BY <1>5, VisitDescends
<1>6. CASE Named
  <2>1. phase = "naming" /\ phase' = "read" BY <1>6, Zenon DEF Named
  <2>2. Left = Work(todo) + 1 /\ Left' = 0 BY <2>1 DEF Left
  <2>3. Work(todo) \in Nat
    <3>1. todo \in Seq([index : Nat, nested : BOOLEAN]) BY DEF IInv, TypeOK
    <3> QED BY <3>1, WorkType
  <2> QED BY <2>2, <2>3
<1>7. ASSUME NEW i \in 1..Len(index), Instruction(i) PROVE FALSE
  BY <1>7, Zenon DEF Instruction, ReadFromCodeInvoke, ReadFromFieldInsn, ReadMember, PrintEntry
<1>8. ReadThrow \/ ReadDone => phase = "reading" BY Zenon DEF ReadThrow, ReadDone
<1> QED BY <1>1, <1>2, <1>3, <1>4, <1>5, <1>6, <1>7, <1>8, Zenon DEF Next, Agent

\* Every pass of ConstPool::read and every visit of an entry leaves fewer to
\* come: a constant of any size takes the reader forward, and what an entry
\* refers to leads to fewer visits than the entry.
THEOREM PoolDescends == Spec => [][Descends]_vars
<1>1. IInv /\ [Next]_vars => [Descends]_vars
  BY AgentDescends DEF Descends
<1> QED BY <1>1, Inductive, PTL DEF Spec
=============================================================================
