------------------------ MODULE LocalVariables_proofs ------------------------
(***************************************************************************)
(* Theorems about LocalVariables, for any types, parameters and variables. *)
(***************************************************************************)
EXTENDS LocalVariables, Induction

-----------------------------------------------------------------------------
(* Where things start that lie one after another.                          *)

\* Starts are sums.
LEMMA StartsDef ==
  ASSUME NEW w \in Seq(Nat)
  PROVE  /\ Starts(w) \in [1..(Len(w) + 1) -> Nat]
         /\ Starts(w)[1] = 0
         /\ \A k \in 1..Len(w) : Starts(w)[k + 1] = Starts(w)[k] + w[k]
<1>1. Starts(w) = Sums(w) BY Zenon DEF Starts, Sums
<1> QED BY <1>1, SumsDef

\* Things of a positive width start further on, by their number at least.
LEMMA StartsGrow ==
  ASSUME NEW w \in Seq(Nat), \A k \in 1..Len(w) : w[k] > 0,
         NEW i \in 1..(Len(w) + 1), NEW j \in 1..(Len(w) + 1), i <= j
  PROVE  Starts(w)[i] + (j - i) <= Starts(w)[j]
<1>1. PICK N \in Nat : N = Len(w) OBVIOUS
<1>2. PICK s : s = Starts(w) OBVIOUS
<1>3. s \in [1..(N + 1) -> Nat] /\ \A k \in 1..N : s[k + 1] = s[k] + w[k]
  BY <1>1, <1>2, StartsDef
<1> DEFINE T == {d \in Nat : i + d <= N + 1 => s[i] + d <= s[i + d]}
<1>4. 0 \in T
  <2>1. i \in 1..(N + 1) BY <1>1
  <2>2. s[i] \in Nat /\ i + 0 = i BY <1>3, <2>1
  <2> QED BY <2>2
<1>5. ASSUME NEW d \in Nat, d \in T PROVE d + 1 \in T
  <2> SUFFICES ASSUME i + (d + 1) <= N + 1
               PROVE  s[i] + (d + 1) <= s[i + (d + 1)]
    OBVIOUS
  <2>1. PICK m \in 1..N : m = i + d /\ i + (d + 1) = m + 1 BY <1>1
  <2>2. s[i] + d <= s[m] BY <1>5, <2>1
  <2> HIDE DEF T
  <2>3. s[m + 1] = s[m] + w[m] BY <1>3
  <2>4. w[m] \in Nat /\ w[m] > 0 BY <1>1
  <2>5. s[i] \in Nat /\ s[m] \in Nat
    <3>1. i \in 1..(N + 1) /\ m \in 1..(N + 1) BY <1>1
    <3> QED BY <1>3, <3>1
  <2>6. \A a, b, e \in Nat : e > 0 /\ a + d <= b => a + (d + 1) <= b + e OBVIOUS
  <2>7. s[i] + (d + 1) <= s[m + 1] BY <2>2, <2>3, <2>4, <2>5, <2>6
  <2> QED BY <2>1, <2>7
<1>6. Nat \subseteq T
  <2> HIDE DEF T
  <2> QED BY <1>4, <1>5, NatInd
<1>7. j - i \in Nat /\ i + (j - i) = j BY <1>1
<1>8. j - i \in T BY <1>6, <1>7
<1> QED BY <1>1, <1>2, <1>7, <1>8

-----------------------------------------------------------------------------
(* The method and its descriptor.                                          *)

\* A method of Cases has parameters, other variables and a return type.
LEMMA CaseTypes ==
  ASSUME NEW c \in Cases
  PROVE  /\ c.static \in BOOLEAN /\ First(c.static) \in 0..1
         /\ c.params \in Seq(Types) /\ Len(c.params) \in Nat
         /\ c.locals \in Seq(Nat) /\ Len(c.locals) \in Nat
         /\ c.ret \in Types \cup {Void}
         /\ Arguments(c) <= 255
         /\ \A k \in Variables(c) : SlotsOf(c)[k] < 65535
         /\ \A t \in Types \cup {Void} :
              t \in [base : Bases, dim : 0..255]
<1>1. c \in [static : BOOLEAN, params : UNION {[1..n -> Types] : n \in 0..MaxParams},
            ret : Types \cup {Void}, locals : Locals]
  BY DEF Cases
<1>2. /\ c.static \in BOOLEAN /\ c.locals \in Locals /\ c.ret \in Types \cup {Void}
      /\ c.params \in UNION {[1..n -> Types] : n \in 0..MaxParams}
  BY <1>1
<1>3. PICK n \in 0..MaxParams : c.params \in [1..n -> Types] BY <1>2
<1>4. n \in Nat BY TypesAssumption
<1>5. c.params \in Seq(Types) /\ Len(c.params) \in Nat BY <1>3, <1>4
<1>6. c.locals \in Seq(Nat) /\ Len(c.locals) \in Nat BY <1>2, TypesAssumption
<1>7. First(c.static) \in 0..1 BY <1>2 DEF First
<1>8. Types \cup {Void} \subseteq [base : Bases, dim : 0..255]
  BY TypesAssumption DEF Void, Bases
<1> QED BY <1>2, <1>5, <1>6, <1>7, <1>8 DEF Cases

\* Where the parameters of a method start.
LEMMA ParamSlots ==
  ASSUME NEW c \in Cases
  PROVE  /\ SlotStarts(c.params) \in [1..(Len(c.params) + 1) -> Nat]
         /\ SlotStarts(c.params)[1] = 0
         /\ \A k \in 1..Len(c.params) :
              SlotStarts(c.params)[k + 1] = SlotStarts(c.params)[k] + Slots(c.params[k])
         /\ \A i, j \in 1..(Len(c.params) + 1) :
              i <= j => SlotStarts(c.params)[i] + (j - i) <= SlotStarts(c.params)[j]
<1> DEFINE n == Len(c.params)
           w == [k \in 1..n |-> Slots(c.params[k])]
<1>1. n \in Nat BY CaseTypes
<1>2. \A k \in 1..n : Slots(c.params[k]) \in {1, 2} BY DEF Slots
<1>3. w \in Seq(Nat) /\ Len(w) = n /\ \A k \in 1..n : w[k] > 0 BY <1>1, <1>2
<1>4. SlotStarts(c.params) = Starts(w) BY DEF SlotStarts
<1>5. \A k \in 1..n : w[k] = Slots(c.params[k]) OBVIOUS
<1> HIDE DEF w, n
<1>6. /\ Starts(w) \in [1..(n + 1) -> Nat] /\ Starts(w)[1] = 0
      /\ \A k \in 1..n : Starts(w)[k + 1] = Starts(w)[k] + w[k]
  BY <1>1, <1>3, StartsDef
<1>7. \A i, j \in 1..(n + 1) : i <= j => Starts(w)[i] + (j - i) <= Starts(w)[j]
  BY <1>1, <1>3, StartsGrow
<1> QED BY <1>4, <1>5, <1>6, <1>7 DEF n

\* A sequence between one element and two.
LEMMA Framed ==
  ASSUME NEW P, NEW s \in Seq(P), NEW a \in P, NEW b \in P, NEW r \in P,
         NEW f, f = <<a>> \o s \o <<b, r>>
  PROVE  /\ f \in Seq(P) /\ Len(f) = Len(s) + 3
         /\ f[1] = a /\ f[Len(s) + 2] = b /\ f[Len(s) + 3] = r
         /\ \A k \in 1..Len(s) : f[k + 1] = s[k]
<1>1. PICK u : u = <<a>> \o s OBVIOUS
<1>2. Len(s) \in Nat OBVIOUS
<1>3. /\ u \in Seq(P) /\ Len(u) = Len(s) + 1 /\ u[1] = a
      /\ \A k \in 1..Len(s) : u[k + 1] = s[k]
  BY <1>1
<1>4. f = u \o <<b, r>> BY <1>1
<1>5. <<b, r>> \in Seq(P) /\ Len(<<b, r>>) = 2 OBVIOUS
<1>6. /\ f \in Seq(P) /\ Len(f) = Len(u) + 2
      /\ \A k \in 1..Len(u) : f[k] = u[k]
      /\ f[Len(u) + 1] = b /\ f[Len(u) + 2] = r
  BY <1>3, <1>4, <1>5
<1>7. ASSUME NEW k \in 1..Len(s) PROVE f[k + 1] = s[k]
  <2>1. k + 1 \in 1..Len(u) BY <1>2, <1>3
  <2> QED BY <1>3, <1>6, <2>1
<1>8. f[1] = a /\ f[Len(s) + 2] = b /\ f[Len(s) + 3] = r /\ Len(f) = Len(s) + 3
  <2>1. 1 \in 1..Len(u) BY <1>2, <1>3
  <2> QED BY <1>2, <1>3, <1>6, <2>1
<1> QED BY <1>6, <1>7, <1>8

Letters == Bases \cup {"(", ")"}

\* The parts of a descriptor.
LEMMA PartTypes ==
  ASSUME NEW c \in Cases
  PROVE  /\ \A k \in 1..Len(Parts(c)) :
              /\ Parts(c)[k] \in [base : Letters, dim : 0..255]
              /\ Parts(c)[k].dim \in 0..255
         /\ Len(Parts(c)) = Len(c.params) + 3
         /\ Parts(c)[1] = [base |-> "(", dim |-> 0]
         /\ Parts(c)[Len(c.params) + 2] = [base |-> ")", dim |-> 0]
         /\ Parts(c)[Len(c.params) + 3] = c.ret
         /\ \A k \in 1..Len(c.params) : Parts(c)[k + 1] = c.params[k]
         /\ \A k \in 1..Len(Parts(c)) : Parts(c)[k].base # "["
         /\ \A k \in 1..Len(Parts(c)) :
              Parts(c)[k].base = ")" <=> k = Len(c.params) + 2
<1> DEFINE n == Len(c.params)
           P == Types \cup {Void} \cup {[base |-> "(", dim |-> 0], [base |-> ")", dim |-> 0]}
<1>1. c.params \in Seq(P) /\ n \in Nat /\ c.ret \in P
  BY CaseTypes
<1>2. /\ Parts(c) \in Seq(P) /\ Len(Parts(c)) = n + 3
      /\ Parts(c)[1] = [base |-> "(", dim |-> 0]
      /\ Parts(c)[n + 2] = [base |-> ")", dim |-> 0]
      /\ Parts(c)[n + 3] = c.ret
      /\ \A k \in 1..n : Parts(c)[k + 1] = c.params[k]
  <2> HIDE DEF P
  <2>1. PICK a \in P : a = [base |-> "(", dim |-> 0]
    <3>1. [base |-> "(", dim |-> 0] \in P BY DEF P
    <3> QED BY <3>1, Zenon
  <2>2. PICK b \in P : b = [base |-> ")", dim |-> 0]
    <3>1. [base |-> ")", dim |-> 0] \in P BY DEF P
    <3> QED BY <3>1, Zenon
  <2>3. Parts(c) = <<a>> \o c.params \o <<b, c.ret>> BY <2>1, <2>2, Zenon DEF Parts
  <2>4. c.params \in Seq(P) /\ c.ret \in P BY <1>1
  <2>5. /\ Parts(c) \in Seq(P) /\ Len(Parts(c)) = Len(c.params) + 3
        /\ Parts(c)[1] = a /\ Parts(c)[Len(c.params) + 2] = b
        /\ Parts(c)[Len(c.params) + 3] = c.ret
        /\ \A k \in 1..Len(c.params) : Parts(c)[k + 1] = c.params[k]
    <3>1. PICK f : f = Parts(c) BY Zenon
    <3>2. PICK s \in Seq(P) : s = c.params BY <2>4, Zenon
    <3>3. PICK r \in P : r = c.ret BY <2>4, Zenon
    <3>4. f = <<a>> \o s \o <<b, r>> BY <2>3, <3>1, <3>2, <3>3, Zenon
    <3>5. /\ f \in Seq(P) /\ Len(f) = Len(s) + 3
          /\ f[1] = a /\ f[Len(s) + 2] = b /\ f[Len(s) + 3] = r
          /\ \A k \in 1..Len(s) : f[k + 1] = s[k]
      BY <3>4, Framed
    <3> QED BY <3>1, <3>2, <3>3, <3>5, Zenon
  <2> QED BY <2>1, <2>2, <2>5, Zenon DEF n
<1>3. \A t \in Types \cup {Void} : t.base # "[" /\ t.base # ")"
  BY CaseTypes DEF Bases
<1>4. P \subseteq [base : Letters, dim : 0..255]
  <2>1. ASSUME NEW t \in Types \cup {Void} PROVE t \in [base : Letters, dim : 0..255]
    <3>1. t \in [base : Bases, dim : 0..255] BY CaseTypes
    <3> QED BY <3>1 DEF Letters
  <2> QED BY <2>1 DEF Letters
<1>5. ASSUME NEW k \in 1..Len(Parts(c))
      PROVE  /\ Parts(c)[k] \in [base : Letters, dim : 0..255]
             /\ Parts(c)[k].dim \in 0..255
  <2>1. Parts(c)[k] \in P
    <3> HIDE DEF P, n
    <3> QED BY <1>2
  <2>2. PICK t : t = Parts(c)[k] OBVIOUS
  <2>3. t \in [base : Letters, dim : 0..255] BY <1>4, <2>1, <2>2
  <2>4. t.dim \in 0..255 BY <2>3
  <2> QED BY <2>2, <2>3, <2>4
<1>6. \A t \in P : t.base # "[" BY <1>3
<1>7. ASSUME NEW k \in 1..Len(Parts(c))
      PROVE  Parts(c)[k].base # "[" /\ (Parts(c)[k].base = ")" <=> k = n + 2)
  <2>1. Parts(c)[k].base # "[" BY <1>2, <1>6
  <2>2. CASE k = 1 \/ k = n + 2 BY <1>1, <1>2, <2>1, <2>2
  <2>3. CASE k = n + 3
    <3>1. Parts(c)[k].base # ")" BY <1>2, <1>3, <2>3, CaseTypes
    <3> QED BY <1>1, <2>1, <2>3, <3>1
  <2>4. CASE k \in 2..(n + 1)
    <3>1. k - 1 \in 1..n /\ Parts(c)[k] = c.params[k - 1]
      <4>1. k - 1 \in 1..n /\ (k - 1) + 1 = k BY <1>1, <2>4
      <4>2. Parts(c)[(k - 1) + 1] = c.params[k - 1] BY <1>2, <4>1
      <4> QED BY <4>1, <4>2
    <3>2. Parts(c)[k] \in Types BY <1>1, <3>1, CaseTypes
    <3>3. Parts(c)[k].base # ")" BY <1>3, <3>2
    <3> QED BY <1>1, <2>1, <2>4, <3>3
  <2> QED BY <1>1, <1>2, <2>2, <2>3, <2>4
<1> QED BY <1>2, <1>5, <1>7

\* How many there are.
LEMMA PartCount ==
  ASSUME NEW c \in Cases
  PROVE  \E n \in Nat : n = Len(c.params) /\ Len(Parts(c)) = n + 3
<1>1. Len(c.params) \in Nat BY CaseTypes
<1>2. Len(Parts(c)) = Len(c.params) + 3 BY PartTypes
<1> QED BY <1>1, <1>2, Zenon

\* Where the parts start.
LEMMA PartPlaces ==
  ASSUME NEW c \in Cases
  PROVE  /\ PartStarts(c) \in [1..(Len(Parts(c)) + 1) -> Nat]
         /\ PartStarts(c)[1] = 0
         /\ \A k \in 1..Len(Parts(c)) :
              PartStarts(c)[k + 1] = PartStarts(c)[k] + (Parts(c)[k].dim + 1)
         /\ \A i, j \in 1..(Len(Parts(c)) + 1) :
              i <= j => PartStarts(c)[i] + (j - i) <= PartStarts(c)[j]
<1> DEFINE n == Len(Parts(c))
           w == [k \in 1..n |-> Parts(c)[k].dim + 1]
<1>1. n \in Nat BY CaseTypes, PartTypes
<1>2. \A k \in 1..n : Parts(c)[k].dim + 1 \in Nat /\ Parts(c)[k].dim + 1 > 0
  <2>1. \A k \in 1..n : Parts(c)[k].dim \in 0..255 BY PartTypes
  <2>2. \A m \in 0..255 : m + 1 \in Nat /\ m + 1 > 0 OBVIOUS
  <2> HIDE DEF n
  <2> QED BY <2>1, <2>2
<1>3. w \in Seq(Nat) /\ Len(w) = n /\ \A k \in 1..n : w[k] > 0
  <2> HIDE DEF n
  <2> QED BY <1>1, <1>2
<1>4. PartStarts(c) = Starts(w) BY DEF PartStarts
<1>5. \A k \in 1..n : w[k] = Parts(c)[k].dim + 1 OBVIOUS
<1> HIDE DEF w, n
<1>6. /\ Starts(w) \in [1..(n + 1) -> Nat] /\ Starts(w)[1] = 0
      /\ \A k \in 1..n : Starts(w)[k + 1] = Starts(w)[k] + w[k]
  BY <1>1, <1>3, StartsDef
<1>7. \A i, j \in 1..(n + 1) : i <= j => Starts(w)[i] + (j - i) <= Starts(w)[j]
  BY <1>1, <1>3, StartsGrow
<1> QED BY <1>4, <1>5, <1>6, <1>7 DEF n

\* Each token belongs to one part, and every part has its tokens.
LEMMA DescriptorTokens ==
  ASSUME NEW c \in Cases
  PROVE  /\ Len(Descriptor(c)) = PartStarts(c)[Len(Parts(c)) + 1]
         /\ \A k \in 1..Len(Parts(c)) :
              \A p \in (PartStarts(c)[k] + 1)..PartStarts(c)[k + 1] :
                /\ p \in 1..Len(Descriptor(c))
                /\ Descriptor(c)[p] = IF p = PartStarts(c)[k + 1] THEN Parts(c)[k].base
                                                                 ELSE "["
<1>a. PICK s : s = PartStarts(c) BY Zenon
<1>b. PICK n : n = Len(Parts(c)) BY Zenon
<1>c. PICK d : d = Descriptor(c) BY Zenon
<1>1. n \in Nat BY <1>b, CaseTypes, PartTypes
<1>2. s \in [1..(n + 1) -> Nat] BY <1>a, <1>b, PartPlaces
<1>3. \A i, j \in 1..(n + 1) : i <= j => s[i] + (j - i) <= s[j] BY <1>a, <1>b, PartPlaces
<1>4. d = [p \in 1..s[n + 1] |-> IF p = s[PartAt(c, p) + 1] THEN Parts(c)[PartAt(c, p)].base
                                                          ELSE "["]
  BY <1>a, <1>b, <1>c, Zenon DEF Descriptor
<1>5. s[n + 1] \in Nat BY <1>1, <1>2
<1>6. Len(d) = s[n + 1] BY <1>4, <1>5
<1>7. ASSUME NEW k \in 1..n, NEW p \in (s[k] + 1)..s[k + 1]
      PROVE  /\ p \in 1..Len(d)
             /\ d[p] = IF p = s[k + 1] THEN Parts(c)[k].base ELSE "["
  <2>1. k \in 1..(n + 1) /\ k + 1 \in 1..(n + 1) /\ n + 1 \in 1..(n + 1) BY <1>1
  <2>2. s[k] \in Nat /\ s[k + 1] \in Nat BY <1>2, <2>1
  <2>0. k + 1 <= n + 1 BY <1>1
  <2>3. s[k + 1] + ((n + 1) - (k + 1)) <= s[n + 1] BY <1>3, <2>0, <2>1, Zenon
  <2>4. p \in 1..s[n + 1] BY <1>1, <1>5, <2>2, <2>3
  <2>5. ASSUME NEW j \in 1..n, s[j] < p, p <= s[j + 1] PROVE j = k
    <3>1. j \in 1..(n + 1) /\ j + 1 \in 1..(n + 1) BY <1>1
    <3>2. s[j] \in Nat /\ s[j + 1] \in Nat BY <1>2, <3>1
    <3>3. CASE j < k
      <4>1. j + 1 <= k BY <1>1, <3>3
      <4>2. s[j + 1] + (k - (j + 1)) <= s[k] BY <1>3, <2>1, <3>1, <4>1
      <4> QED BY <2>2, <2>5, <3>2, <4>1, <4>2
    <3>4. CASE k < j
      <4>1. k + 1 <= j BY <1>1, <3>4
      <4>2. s[k + 1] + (j - (k + 1)) <= s[j] BY <1>3, <2>1, <3>1, <4>1
      <4> QED BY <2>2, <2>5, <3>2, <4>1, <4>2
    <3> QED BY <1>1, <3>3, <3>4
  <2>6. s[k] < p /\ p <= s[k + 1] BY <2>2
  <2>7. PartAt(c, p) = CHOOSE j \in 1..n : s[j] < p /\ p <= s[j + 1]
    BY <1>a, <1>b, Zenon DEF PartAt
  <2>8. PartAt(c, p) = k
    <3> HIDE <1>3
    <3> QED BY <2>5, <2>6, <2>7
  <2>9. d[p] = IF p = s[PartAt(c, p) + 1] THEN Parts(c)[PartAt(c, p)].base ELSE "["
    BY <1>4, <2>4
  <2> QED BY <1>6, <2>4, <2>8, <2>9
<1>8. \A k \in 1..n : \A p \in (s[k] + 1)..s[k + 1] :
        p \in 1..Len(d) /\ d[p] = IF p = s[k + 1] THEN Parts(c)[k].base ELSE "["
  BY <1>7, Zenon
<1> QED BY <1>6, <1>8, <1>a, <1>b, <1>c, Zenon

\* toJavaTypeName reads the part it stands before.
LEMMA TypeRead ==
  ASSUME NEW c \in Cases, NEW k \in 1..Len(Parts(c))
  PROVE  TypeAt(Descriptor(c), PartStarts(c)[k] + 1) = Parts(c)[k]
<1> SUFFICES ASSUME NEW a, a = PartStarts(c)[k], NEW b, b = PartStarts(c)[k + 1],
                    NEW t, t = Parts(c)[k], NEW d, d = Descriptor(c)
             PROVE  TypeAt(d, a + 1) = t
  OBVIOUS
<1>1. Len(Parts(c)) \in Nat BY CaseTypes, PartTypes
<1>2. t \in [base : Letters, dim : 0..255] /\ t.base # "[" BY PartTypes
<1>3. PICK m \in 0..255 : a \in Nat /\ b = a + (m + 1) /\ t.dim = m
  <2>1. t.dim \in 0..255 BY PartTypes
  <2>2. b = a + (t.dim + 1) BY PartPlaces
  <2>3. k \in 1..(Len(Parts(c)) + 1) BY <1>1
  <2>4. a \in Nat BY <2>3, PartPlaces
  <2> QED BY <2>1, <2>2, <2>4
<1>0. b \in Nat /\ b - (a + 1) = m BY <1>3, SMTT(30)
<1>4. /\ \A p \in (a + 1)..b : p \in 1..Len(d) /\ d[p] = IF p = b THEN t.base ELSE "["
      /\ Len(d) \in Nat
  <2>1. Len(Parts(c)) + 1 \in 1..(Len(Parts(c)) + 1) BY <1>1
  <2>2. PartStarts(c)[Len(Parts(c)) + 1] \in Nat BY <2>1, PartPlaces
  <2> QED BY <2>2, DescriptorTokens
<1> DEFINE Q(q) == d[q] # "[" /\ \A r \in (a + 1)..(q - 1) : d[r] = "["
<1>5. b \in (a + 1)..Len(d) /\ b \in (a + 1)..b
  <2>1. b \in (a + 1)..b BY <1>3
  <2>2. b \in 1..Len(d) BY <1>4, <2>1
  <2> QED BY <1>3, <1>4, <2>1, <2>2
<1>6. Q(b)
  <2>1. ASSUME NEW r \in (a + 1)..(b - 1) PROVE d[r] = "["
    <3>0. a \in Nat BY <1>3
    <3> HIDE DEF Q
    <3>1. r <= b - 1 BY <1>0, <3>0
    <3>2. r \in (a + 1)..b /\ r # b BY <1>0, <3>0, <3>1
    <3> QED BY <1>4, <3>2
  <2>2. d[b] # "[" BY <1>2, <1>4, <1>5
  <2> QED BY <2>1, <2>2
<1>7. ASSUME NEW q \in (a + 1)..Len(d), Q(q) PROVE q = b
  <2>1. CASE q < b
    <3>1. q \in (a + 1)..b /\ q # b BY <1>3, <1>4, <2>1
    <3> QED BY <1>4, <1>7, <3>1
  <2>2. CASE b < q
    <3>1. b \in (a + 1)..(q - 1) BY <1>3, <1>4, <2>2
    <3> QED BY <1>6, <1>7, <3>1
  <2> QED BY <1>3, <1>4, <2>1, <2>2
<1>8. (CHOOSE q \in (a + 1)..Len(d) : Q(q)) = b
  <2> HIDE DEF Q
  <2> QED BY <1>5, <1>6, <1>7
<1>9. TypeAt(d, a + 1) = [base |-> d[b], dim |-> (b - (a + 1)) % 256]
  BY <1>8 DEF TypeAt
<1>10. d[b] = t.base /\ (b - (a + 1)) % 256 = m
  <2>1. m % 256 = m OBVIOUS
  <2>2. d[b] = t.base BY <1>4, <1>5
  <2> QED BY <1>0, <2>1, <2>2
<1>11. t = [base |-> t.base, dim |-> t.dim] BY <1>2
<1> QED BY <1>3, <1>9, <1>10, <1>11

\* The slots of the variables: the receiver and the parameters have those below
\* the others.
LEMMA SlotTypes ==
  ASSUME NEW c \in Cases, NEW k \in Variables(c)
  PROVE  /\ SlotsOf(c)[k] \in Nat /\ SlotsOf(c)[k] < 65535
         /\ Arguments(c) = First(c.static) + SlotStarts(c.params)[Len(c.params) + 1]
         /\ (k # This /\ k <= Len(c.params)) =>
              SlotsOf(c)[k] = First(c.static) + SlotStarts(c.params)[k]
         /\ k <= Len(c.params) <=> SlotsOf(c)[k] < Arguments(c)
<1>1. /\ Len(c.params) \in Nat /\ Len(c.locals) \in Nat /\ c.locals \in Seq(Nat)
      /\ First(c.static) \in 0..1
  BY CaseTypes
<1>2. PICK n \in Nat : n = Len(c.params) BY <1>1, Zenon
<1>3. /\ k \in 0..(n + Len(c.locals)) /\ n >= 0
      /\ k = This => ~c.static
      /\ k # This => k >= 1
  <2>1. PICK m \in Nat : m = Len(c.locals) BY <1>1
  <2>2. CASE c.static
    <3>1. k \in 1..(n + m) BY <1>2, <2>1, <2>2 DEF Variables
    <3> QED BY <2>1, <3>1 DEF This
  <2>3. CASE ~c.static
    <3>1. k \in 0..(n + m) BY <1>2, <2>1, <2>3 DEF Variables, This
    <3> QED BY <2>1, <2>3, <3>1 DEF This
  <2> QED BY <2>2, <2>3
<1>4. PICK e \in [1..(n + 1) -> Nat] : e = SlotStarts(c.params) BY <1>2, ParamSlots
<1>5. \A i, j \in 1..(n + 1) : i <= j => e[i] + (j - i) <= e[j] BY <1>2, <1>4, ParamSlots
<1>6. PICK f \in 0..1 : f = First(c.static) BY <1>1
<1>7. e[n + 1] \in Nat BY <1>2, <1>4
<1>8. PICK v \in Nat : v = f + e[n + 1] /\ v = Arguments(c)
  BY <1>2, <1>4, <1>6, <1>7 DEF Arguments
<1>9. PICK s : /\ s = SlotsOf(c)[k]
               /\ s = IF k = This THEN 0 ELSE IF k <= n THEN f + e[k]
                                                        ELSE v + c.locals[k - n]
  BY <1>2, <1>4, <1>6, <1>8 DEF SlotsOf
<1>10. s < 65535
  <2>1. \A j \in Variables(c) : SlotsOf(c)[j] < 65535 BY CaseTypes
  <2>2. SlotsOf(c)[k] < 65535 BY <2>1
  <2> QED BY <1>9, <2>2
<1>11. s \in Nat /\ (k <= n <=> s < v)
  <2>0. CASE k = This
    <3>1. f = 1 BY <1>3, <1>6, <2>0 DEF First
    <3>2. s = 0 /\ 0 < v BY <1>7, <1>8, <1>9, <2>0, <3>1
    <3> QED BY <1>3, <2>0, <3>2 DEF This
  <2>1. CASE k # This /\ k <= n
    <3>1. k \in 1..(n + 1) /\ n + 1 \in 1..(n + 1) /\ (n + 1) - k >= 1 BY <1>3, <2>1
    <3>2. e[k] + ((n + 1) - k) <= e[n + 1] BY <1>5, <3>1
    <3>3. e[k] \in Nat BY <1>4, <3>1
    <3>4. s = f + e[k] BY <1>9, <2>1
    <3>5. e[k] < e[n + 1] BY <1>3, <1>7, <3>1, <3>2, <3>3
    <3> QED BY <1>7, <1>8, <2>1, <3>3, <3>4, <3>5
  <2>2. CASE ~(k <= n)
    <3>1. k - n \in 1..Len(c.locals) BY <1>1, <1>3, <2>2
    <3>2. c.locals[k - n] \in Nat BY <1>1, <3>1
    <3>3. k # This BY <1>3, <2>2 DEF This
    <3>4. s = v + c.locals[k - n] BY <1>9, <2>2, <3>3
    <3> QED BY <1>8, <2>2, <3>2, <3>4
  <2> QED BY <2>0, <2>1, <2>2
<1>12. (k # This /\ k <= n) => s = f + e[k] BY <1>9
<1>13. SlotsOf(c)[k] \in Nat /\ SlotsOf(c)[k] < 65535 BY <1>9, <1>10, <1>11
<1>14. Arguments(c) = First(c.static) + SlotStarts(c.params)[Len(c.params) + 1]
  BY DEF Arguments
<1>15. (k # This /\ k <= Len(c.params)) =>
         SlotsOf(c)[k] = First(c.static) + SlotStarts(c.params)[k]
  BY <1>2, <1>4, <1>6, <1>9, <1>12
<1>16. k <= Len(c.params) <=> SlotsOf(c)[k] < Arguments(c)
  BY <1>2, <1>8, <1>9, <1>11
<1> QED BY <1>13, <1>14, <1>15, <1>16

\* A table lists each variable once at most.
LEMMA ListingTypes ==
  ASSUME NEW c \in Cases, NEW e \in Listings(c)
  PROVE  /\ e \in Seq(Variables(c)) /\ Len(e) \in Nat
         /\ \A i, j \in 1..Len(e) : e[i] = e[j] => i = j
<1>1. PICK n \in 0..(First(c.static) + Len(c.params) + Len(c.locals)) :
        e \in [1..n -> Variables(c)]
  BY DEF Listings
<1>2. n \in Nat BY CaseTypes
<1>3. e \in Seq(Variables(c)) /\ Len(e) \in Nat BY <1>1, <1>2
<1>4. \A i, j \in 1..Len(e) : e[i] = e[j] => i = j BY DEF Listings
<1> QED BY <1>3, <1>4

\* The agent and the JVM count the slots of a type alike.
LEMMA LengthIsSlots ==
  ASSUME NEW t \in Types PROVE LengthOf(t) = Slots(t)
<1>1. t \in [base : Bases, dim : 0..255] BY TypesAssumption
<1>2. t = [base |-> t.base, dim |-> t.dim] BY <1>1
<1>3. t \in {[base |-> b, dim |-> 0] : b \in {"J", "D"}} <=>
        t.dim = 0 /\ t.base \in {"J", "D"}
  BY <1>2
<1> QED BY <1>3 DEF LengthOf, Slots

-----------------------------------------------------------------------------
(* Reading the descriptor.                                                 *)

\* A method's parameters have fewer slots than the counter can hold.
LEMMA SlotsFit ==
  ASSUME NEW c \in Cases, NEW k \in 1..(Len(c.params) + 1)
  PROVE  SlotStarts(c.params)[k] \in 0..255
<1>1. PICK n \in Nat : n = Len(c.params) BY CaseTypes
<1>2. PICK e \in [1..(n + 1) -> Nat] : e = SlotStarts(c.params) BY <1>1, ParamSlots
<1>3. e[k] \in Nat /\ e[n + 1] \in Nat BY <1>1, <1>2
<1>4. e[k] + ((n + 1) - k) <= e[n + 1]
  <2>1. \A i, j \in 1..(n + 1) : i <= j => e[i] + (j - i) <= e[j]
    BY <1>1, <1>2, ParamSlots
  <2>2. k \in 1..(n + 1) /\ n + 1 \in 1..(n + 1) /\ k <= n + 1 BY <1>1
  <2> QED BY <2>1, <2>2
<1>5. First(c.static) + e[n + 1] <= 255 /\ First(c.static) \in 0..1
  BY <1>1, <1>2, CaseTypes DEF Arguments
<1>6. e[k] <= 255 BY <1>1, <1>3, <1>4, <1>5
<1>7. e[k] \in 0..255
  <2>1. \A m \in Nat : m <= 255 => m \in 0..255 OBVIOUS
  <2> QED BY <1>3, <1>6, <2>1
<1> QED BY <1>2, <1>7

\* Where the parser stands.
LEMMA Standing ==
  ASSUME code \in Cases, NEW k \in 2..(Len(Parts(code)) + 1), Before(k)
  PROVE  /\ pos \in Nat
         /\ pos <= Len(Descriptor(code)) <=> k <= Len(Parts(code))
         /\ k <= Len(Parts(code)) =>
              /\ TypeAt(Descriptor(code), pos) = Parts(code)[k]
              /\ pos + Parts(code)[k].dim + 1 = PartStarts(code)[k + 1] + 1
              /\ PartStarts(code)[k + 1] + 1 = Len(Descriptor(code)) + 1
                   <=> k = Len(Parts(code))
              /\ Descriptor(code)[pos] = ")" <=> k = Len(code.params) + 2
<1>1. PICK n \in Nat : n = Len(Parts(code)) /\ n = Len(code.params) + 3
  BY CaseTypes, PartTypes
<1>2. PICK s \in [1..(n + 1) -> Nat] : s = PartStarts(code) BY <1>1, PartPlaces
<1>3. \A i, j \in 1..(n + 1) : i <= j => s[i] + (j - i) <= s[j]
  BY <1>1, <1>2, PartPlaces
<1>4. Len(Descriptor(code)) = s[n + 1] /\ s[n + 1] \in Nat
  <2>1. Len(Descriptor(code)) = PartStarts(code)[Len(Parts(code)) + 1]
    BY DescriptorTokens
  <2>2. Len(Descriptor(code)) = s[n + 1] BY <1>1, <1>2, <2>1
  <2>3. n + 1 \in 1..(n + 1) BY <1>1
  <2>4. s[n + 1] \in Nat BY <1>2, <2>3
  <2> QED BY <2>2, <2>4
<1>5. k \in 2..(n + 1) /\ k \in 1..(n + 1) /\ s[k] \in Nat BY <1>1, <1>2
<1>6. pos = s[k] + 1 BY <1>2 DEF Before
<1>7. s[k] + ((n + 1) - k) <= s[n + 1]
  <2>1. n + 1 \in 1..(n + 1) /\ k <= n + 1 BY <1>5
  <2> QED BY <1>3, <1>5, <2>1
<1>8. s[k] + 1 <= s[n + 1] <=> k <= n
  <2>1. CASE k <= n BY <1>4, <1>5, <1>7, <2>1
  <2>2. CASE k = n + 1 BY <1>4, <1>5, <2>2
  <2> QED BY <1>5, <2>1, <2>2
<1>9. ASSUME k <= n
      PROVE  /\ TypeAt(Descriptor(code), pos) = Parts(code)[k]
             /\ pos + Parts(code)[k].dim + 1 = s[k + 1] + 1
             /\ s[k + 1] + 1 = s[n + 1] + 1 <=> k = n
             /\ Descriptor(code)[pos] = ")" <=> k = Len(code.params) + 2
  <2>1. k \in 1..Len(Parts(code)) /\ k + 1 \in 1..(n + 1) BY <1>1, <1>5, <1>9
  <2>2. TypeAt(Descriptor(code), pos) = Parts(code)[k] BY <1>2, <1>6, <2>1, TypeRead
  <2>3. PICK m \in 0..255 : m = Parts(code)[k].dim BY <2>1, PartTypes
  <2>4. s[k + 1] = s[k] + (m + 1)
    <3>1. PartStarts(code)[k + 1] = PartStarts(code)[k] + (Parts(code)[k].dim + 1)
      BY <2>1, PartPlaces
    <3> QED BY <1>2, <2>3, <3>1
  <2>5. pos + m + 1 = s[k + 1] + 1 /\ pos \in (s[k] + 1)..s[k + 1]
    <3>1. PICK a \in Nat : a = s[k] BY <1>5
    <3>2. pos = a + 1 /\ s[k + 1] = a + (m + 1) BY <1>6, <2>4, <3>1
    <3>3. (a + 1) + m + 1 = (a + (m + 1)) + 1 /\ a + 1 \in (a + 1)..(a + (m + 1))
      OBVIOUS
    <3> QED BY <3>1, <3>2, <3>3
  <2>6. s[k + 1] \in Nat /\ s[k + 1] + ((n + 1) - (k + 1)) <= s[n + 1]
    <3>1. n + 1 \in 1..(n + 1) /\ k + 1 <= n + 1 BY <2>1
    <3> QED BY <1>2, <1>3, <2>1, <3>1
  <2>7. s[k + 1] + 1 = s[n + 1] + 1 <=> k = n
    <3>1. CASE k < n BY <1>4, <1>5, <2>6, <3>1
    <3>2. CASE k = n BY <3>2
    <3> QED BY <1>5, <1>9, <3>1, <3>2
  <2>8. Descriptor(code)[pos] = IF pos = s[k + 1] THEN Parts(code)[k].base ELSE "["
    BY <1>2, <2>1, <2>5, DescriptorTokens
  <2>9. Parts(code)[k].base = ")" <=> k = Len(code.params) + 2 BY <2>1, PartTypes
  <2>10. ASSUME k = Len(code.params) + 2 PROVE pos = s[k + 1]
    <3>1. Parts(code)[k] = [base |-> ")", dim |-> 0] BY <2>10, PartTypes
    <3>2. m = 0 BY <2>3, <3>1
    <3> QED BY <1>6, <2>4, <3>2
  <2>11. Descriptor(code)[pos] = ")" <=> k = Len(code.params) + 2
    BY <2>8, <2>9, <2>10
  <2> QED BY <2>2, <2>3, <2>5, <2>7, <2>11
<1>10. pos \in Nat BY <1>5, <1>6
<1>11. pos <= Len(Descriptor(code)) <=> k <= Len(Parts(code))
  BY <1>1, <1>4, <1>6, <1>8
<1> QED BY <1>1, <1>2, <1>4, <1>9, <1>10, <1>11

\* The invariant of the table, while there is none.
LEMMA ParseFilled ==
  ASSUME Filled, phase = "parse", phase' = "parse", UNCHANGED <<code, entries, table, taken, cause>>
  PROVE  Filled'
BY DEF Filled, Firsts, Key

\* A type is read, of a parameter or the return type.
LEMMA ReadTypeIInv ==
  ASSUME IInv, ReadType PROVE IInv'
<1>1. /\ phase = "parse" /\ pos <= Len(Descriptor(code)) /\ Descriptor(code)[pos] # ")"
      /\ UNCHANGED <<code, phase, entries, table, taken, loaded, cause>>
  BY DEF ReadType
<1>2. TypeOK /\ Filled /\ code \in Cases BY DEF IInv, TypeOK
<1>3. PICK k \in 2..(Len(Parts(code)) + 1) : Before(k) BY <1>1 DEF IInv, Parsed
<1>4. PICK n \in Nat : n = Len(code.params) /\ Len(Parts(code)) = n + 3
  BY <1>2, PartCount
<1>5. k \in 2..(n + 3) /\ k # n + 2 BY <1>1, <1>2, <1>3, <1>4, Standing
<1>6. PICK t : t = Parts(code)[k] OBVIOUS
<1>7. /\ pos' = PartStarts(code)[k + 1] + 1
      /\ IF k # n + 3
           THEN /\ types' = Append(types, t)
                /\ length' = (length + LengthOf(t)) % 256
                /\ returnType' = returnType
           ELSE returnType' = t /\ types' = types /\ length' = length
  <2>1. /\ TypeAt(Descriptor(code), pos) = t
        /\ pos + t.dim + 1 = PartStarts(code)[k + 1] + 1
        /\ PartStarts(code)[k + 1] + 1 = Len(Descriptor(code)) + 1 <=> k = n + 3
    BY <1>2, <1>3, <1>4, <1>5, <1>6, Standing
  <2>2. /\ pos' = pos + TypeAt(Descriptor(code), pos).dim + 1
        /\ IF pos' # Len(Descriptor(code)) + 1
             THEN /\ types' = Append(types, TypeAt(Descriptor(code), pos))
                  /\ length' = (length + LengthOf(TypeAt(Descriptor(code), pos))) % 256
                  /\ returnType' = returnType
             ELSE /\ returnType' = TypeAt(Descriptor(code), pos)
                  /\ types' = types /\ length' = length
    BY DEF ReadType
  <2>3. pos' = PartStarts(code)[k + 1] + 1 BY <2>1, <2>2
  <2> QED BY <2>1, <2>2, <2>3
<1>8. CASE k = n + 3
  <2>1. returnType' = code.ret BY <1>2, <1>4, <1>6, <1>7, <1>8, PartTypes
  <2>2. /\ types = [j \in 1..n |-> code.params[j]]
        /\ length = SlotStarts(code.params)[n + 1]
    BY <1>3, <1>4, <1>8 DEF Before
  <2>3. length' \in 0..255 BY <1>2, <1>7, <1>8 DEF TypeOK
  <2>4. Before(k + 1)'
    <3>1. ~((k + 1) - 2 <= n) BY <1>4, <1>8
    <3> QED BY <1>1, <1>4, <1>7, <1>8, <2>1, <2>2, <3>1 DEF Before
  <2>5. k + 1 \in 2..(Len(Parts(code)) + 1) BY <1>4, <1>8
  <2>6. Parsed' BY <1>1, <2>4, <2>5 DEF Parsed
  <2>7. TypeOK' BY <1>1, <1>2, <2>3 DEF TypeOK
  <2>8. Filled' BY <1>1, <1>2, ParseFilled
  <2> QED BY <2>6, <2>7, <2>8 DEF IInv
<1>9. CASE k \in 2..(n + 1)
  <2>1. PICK m \in 0..(n - 1) : m = k - 2 BY <1>4, <1>9
  <2>2. /\ types = [j \in 1..m |-> code.params[j]]
        /\ length = SlotStarts(code.params)[m + 1]
        /\ returnType = Void
    BY <1>3, <1>4, <1>9, <2>1 DEF Before
  <2>3. t = code.params[m + 1] /\ t \in Types
    <3>1. m + 1 \in 1..n /\ (m + 1) + 1 = k BY <1>4, <1>9, <2>1
    <3>2. Parts(code)[(m + 1) + 1] = code.params[m + 1]
      BY <1>2, <1>4, <3>1, PartTypes
    <3>3. code.params \in Seq(Types) BY <1>2, CaseTypes
    <3> QED BY <1>4, <1>6, <3>1, <3>2, <3>3
  <2>4. types' = [j \in 1..(m + 1) |-> code.params[j]]
    <3>1. types' = Append(types, t) BY <1>7, <1>9
    <3>2. Append([j \in 1..m |-> code.params[j]], code.params[m + 1])
            = [j \in 1..(m + 1) |-> code.params[j]]
      BY <1>4, <2>1
    <3> QED BY <2>2, <2>3, <3>1, <3>2
  <2>5. length' = SlotStarts(code.params)[(m + 1) + 1] /\ length' \in 0..255
    <3>1. m + 1 \in 1..n /\ (m + 1) + 1 \in 1..(n + 1) BY <1>4, <2>1
    <3>2. SlotStarts(code.params)[(m + 1) + 1] = SlotStarts(code.params)[m + 1] + Slots(t)
      BY <1>2, <1>4, <2>3, <3>1, ParamSlots
    <3>3. LengthOf(t) = Slots(t) BY <2>3, LengthIsSlots
    <3>4. SlotStarts(code.params)[(m + 1) + 1] \in 0..255
      <4>1. (m + 1) + 1 \in 1..(Len(code.params) + 1) BY <1>4, <3>1, Zenon
      <4> QED BY <1>2, <4>1, SlotsFit, Zenon
    <3>5. length' = SlotStarts(code.params)[(m + 1) + 1] % 256
      <4>1. length' = (length + LengthOf(t)) % 256 BY <1>7, <1>9
      <4> QED BY <2>2, <3>2, <3>3, <4>1, Zenon
    <3>6. \A x \in 0..255 : x % 256 = x OBVIOUS
    <3> QED BY <3>4, <3>5, <3>6, ZenonT(30)
  <2>6. Before(k + 1)'
    <3>1. (k + 1) - 2 = m + 1 /\ m + 1 <= n /\ ~(k + 1 > n + 3)
      BY <1>4, <1>9, <2>1
    <3>2. returnType' = Void /\ pos' = PartStarts(code)[k + 1] + 1 BY <1>7, <1>9, <2>2
    <3> QED BY <1>1, <1>4, <2>4, <2>5, <3>1, <3>2 DEF Before
  <2>7. k + 1 \in 2..(Len(Parts(code)) + 1) BY <1>4, <1>9
  <2>8. Parsed' BY <1>1, <2>6, <2>7 DEF Parsed
  <2>9. TypeOK' BY <1>1, <1>2, <2>5 DEF TypeOK
  <2>10. Filled' BY <1>1, <1>2, ParseFilled
  <2> QED BY <2>8, <2>9, <2>10 DEF IInv
<1> QED BY <1>5, <1>8, <1>9

\* The parenthesis behind the parameters.
LEMMA SkipIInv ==
  ASSUME IInv, SkipParenthesis PROVE IInv'
<1>1. /\ phase = "parse" /\ pos <= Len(Descriptor(code)) /\ Descriptor(code)[pos] = ")"
      /\ pos' = pos + 1
      /\ UNCHANGED <<code, phase, types, length, returnType, entries, table, taken,
                     loaded, cause>>
  BY DEF SkipParenthesis
<1>2. TypeOK /\ Filled /\ code \in Cases BY DEF IInv, TypeOK
<1>3. PICK k \in 2..(Len(Parts(code)) + 1) : Before(k) BY <1>1 DEF IInv, Parsed
<1>4. PICK n \in Nat : n = Len(code.params) /\ Len(Parts(code)) = n + 3
  BY <1>2, PartCount
<1>5. k = n + 2 BY <1>1, <1>2, <1>3, <1>4, Standing
<1>6. pos' = PartStarts(code)[k + 1] + 1
  <2>1. pos + Parts(code)[k].dim + 1 = PartStarts(code)[k + 1] + 1 /\ pos \in Nat
    BY <1>2, <1>3, <1>4, <1>5, Standing
  <2>2. Parts(code)[k] = [base |-> ")", dim |-> 0] BY <1>2, <1>4, <1>5, PartTypes
  <2>3. Parts(code)[k].dim = 0 BY <2>2
  <2> QED BY <1>1, <2>1, <2>3
<1>7. /\ types = [j \in 1..n |-> code.params[j]]
      /\ length = SlotStarts(code.params)[n + 1] /\ returnType = Void
  BY <1>3, <1>4, <1>5 DEF Before
<1>8. Before(k + 1)'
  <2>1. ~((k + 1) - 2 <= n) /\ ~(k + 1 > n + 3) BY <1>4, <1>5
  <2> QED BY <1>1, <1>4, <1>6, <1>7, <2>1 DEF Before
<1>9. k + 1 \in 2..(Len(Parts(code)) + 1) BY <1>4, <1>5
<1>10. Parsed' BY <1>1, <1>8, <1>9 DEF Parsed
<1>11. TypeOK' BY <1>1, <1>2 DEF TypeOK
<1>12. Filled' BY <1>1, <1>2, ParseFilled
<1> QED BY <1>10, <1>11, <1>12 DEF IInv

\* The descriptor is read, and the JVM gives the table.
LEMMA DoneIInv ==
  ASSUME IInv, ReadDone PROVE IInv'
<1>1. /\ phase = "parse" /\ ~(pos <= Len(Descriptor(code)))
      /\ phase' = "table" /\ entries' \in Listings(code)
      /\ UNCHANGED <<code, pos, types, length, returnType, table, taken, loaded, cause>>
  <2>1. pos > Len(Descriptor(code)) BY DEF ReadDone
  <2>2. code \in Cases BY DEF IInv, TypeOK
  <2>3. PICK k \in 2..(Len(Parts(code)) + 1) : Before(k) BY DEF IInv, Parsed, ReadDone
  <2>4. pos \in Nat BY <2>2, <2>3, Standing
  <2>5. Len(Descriptor(code)) \in Nat
    <3>1. Len(Parts(code)) \in Nat BY <2>2, CaseTypes, PartTypes
    <3>2. Len(Parts(code)) + 1 \in 1..(Len(Parts(code)) + 1) BY <3>1
    <3>3. PartStarts(code)[Len(Parts(code)) + 1] \in Nat BY <2>2, <3>2, PartPlaces
    <3> QED BY <2>2, <3>3, DescriptorTokens
  <2>6. ~(pos <= Len(Descriptor(code))) BY <2>1, <2>4, <2>5
  <2> QED BY <2>6 DEF ReadDone
<1>2. TypeOK /\ Filled /\ code \in Cases BY DEF IInv, TypeOK
<1>3. PICK k \in 2..(Len(Parts(code)) + 1) : Before(k) BY <1>1 DEF IInv, Parsed
<1>4. k = Len(Parts(code)) + 1
  <2>1. ~(k <= Len(Parts(code))) BY <1>1, <1>2, <1>3, Standing
  <2>2. Len(Parts(code)) \in Nat BY <1>2, CaseTypes, PartTypes
  <2> QED BY <2>1, <2>2
<1>5. Parsed' BY <1>1, <1>3, <1>4 DEF Parsed, Before
<1>6. taken = 0 BY <1>1, <1>2 DEF TypeOK
<1>7. TypeOK'
  <2>1. Len(entries') \in Nat BY <1>1, <1>2, ListingTypes
  <2>2. taken' \in 0..Len(entries') BY <1>1, <1>6, <2>1
  <2> QED BY <1>1, <1>2, <2>2 DEF TypeOK
<1>8. Filled'
  <2>1. 1..taken = {} /\ 1..taken' = {} BY <1>1, <1>6
  <2>2. Firsts(taken) = {} /\ Firsts(taken)' = {} BY <2>1 DEF Firsts
  <2>3. table = {} BY <1>2, <2>2 DEF Filled
  <2>4. table' = {[slot |-> Key(i), name |-> entries[i]] : i \in Firsts(taken)}'
    BY <1>1, <2>2, <2>3
  <2> QED BY <1>1, <1>2, <2>4 DEF Filled
<1> QED BY <1>5, <1>7, <1>8 DEF IInv

\* Every key of an entry is that of a first one.
LEMMA FirstWithKey ==
  ASSUME NEW n \in Nat, NEW j \in 1..n
  PROVE  \E i \in Firsts(n) : Key(i) = Key(j)
<1> DEFINE T == {i \in 1..n : Key(i) = Key(j)}
<1>1. T \subseteq Nat /\ j \in T OBVIOUS
<1>2. PICK i \in T : \A l \in T : i <= l
  <2> HIDE DEF T
  <2> QED BY <1>1, NatMin
<1>3. ASSUME NEW l \in 1..(i - 1) PROVE Key(l) # Key(i)
  <2>1. l \in 1..n /\ ~(i <= l) OBVIOUS
  <2> QED BY <1>2, <2>1
<1>4. i \in Firsts(n) BY <1>3 DEF Firsts
<1> QED BY <1>4

\* One more entry is a first one unless an earlier one has its key.
LEMMA FirstsNext ==
  ASSUME NEW n \in Nat
  PROVE  Firsts(n + 1) = IF \E j \in 1..n : Key(j) = Key(n + 1)
                           THEN Firsts(n) ELSE Firsts(n) \cup {n + 1}
<1>1. 1..(n + 1) = 1..n \cup {n + 1} /\ 1..((n + 1) - 1) = 1..n /\ n + 1 \notin 1..n
  OBVIOUS
<1>2. \A i : i \in Firsts(n + 1) <=> \/ i \in Firsts(n)
                                     \/ i = n + 1 /\ \A j \in 1..n : Key(j) # Key(n + 1)
  BY <1>1 DEF Firsts
<1> QED BY <1>2

\* The keys of a table that has the first entries.
LEMMA KeysInTable ==
  ASSUME NEW n \in Nat, NEW x,
         table = {[slot |-> Key(i), name |-> entries[i]] : i \in Firsts(n)}
  PROVE  (\E e \in table : e.slot = x) <=> (\E j \in 1..n : Key(j) = x)
<1>1. ASSUME NEW e \in table, e.slot = x PROVE \E j \in 1..n : Key(j) = x
  <2>1. PICK i \in Firsts(n) : e = [slot |-> Key(i), name |-> entries[i]] BY <1>1
  <2>2. e.slot = Key(i) /\ i \in 1..n BY <2>1 DEF Firsts
  <2> QED BY <1>1, <2>2
<1>2. ASSUME NEW j \in 1..n, Key(j) = x PROVE \E e \in table : e.slot = x
  <2>1. PICK i \in Firsts(n) : Key(i) = x BY <1>2, FirstWithKey
  <2>2. [slot |-> Key(i), name |-> entries[i]] \in table OBVIOUS
  <2>3. [slot |-> Key(i), name |-> entries[i]].slot = Key(i) OBVIOUS
  <2> QED BY <2>1, <2>2, <2>3
<1> QED BY <1>1, <1>2

\* An entry is taken: emplace keeps an earlier one of the same key.
LEMMA FillIInv ==
  ASSUME IInv, FillTable PROVE IInv'
<1>1. /\ phase = "table" /\ taken < Len(entries)
      /\ taken' = taken + 1
      /\ UNCHANGED <<code, phase, pos, types, length, returnType, entries, loaded, cause>>
  BY DEF FillTable
<1>2. TypeOK /\ Filled /\ Parsed /\ code \in Cases BY DEF IInv, TypeOK
<1>3. entries \in Seq(Variables(code)) /\ Len(entries) \in Nat
  BY <1>1, <1>2, ListingTypes DEF TypeOK
<1>4. taken \in Nat /\ taken + 1 \in 1..Len(entries) BY <1>1, <1>2, <1>3 DEF TypeOK
<1>5. PICK v \in Variables(code) : v = entries[taken + 1] BY <1>3, <1>4, SMTT(30)
<1>6. PICK x \in 0..255 : x = Key(taken + 1) /\ x = SlotsOf(code)[v] % 256
  <2>1. SlotsOf(code)[v] \in Nat BY <1>2, <1>5, SlotTypes
  <2>2. SlotsOf(code)[v] % 256 \in 0..255 BY <2>1
  <2> QED BY <1>5, <2>2 DEF Key
<1>7. table' = IF \E e \in table : e.slot = x THEN table
               ELSE table \cup {[slot |-> x, name |-> v]}
  BY <1>5, <1>6, Zenon DEF FillTable, AddEntry
<1>8. table = {[slot |-> Key(i), name |-> entries[i]] : i \in Firsts(taken)}
  BY <1>2 DEF Filled
<1>9. (\E e \in table : e.slot = x) <=> (\E j \in 1..taken : Key(j) = Key(taken + 1))
  <2>1. (\E e \in table : e.slot = x) <=> (\E j \in 1..taken : Key(j) = x)
    BY <1>4, <1>8, KeysInTable
  <2> QED BY <1>6, <2>1
<1>10. table' = {[slot |-> Key(i), name |-> entries[i]] : i \in Firsts(taken + 1)}
  <2>1. CASE \E e \in table : e.slot = x
    <3>1. Firsts(taken + 1) = Firsts(taken) BY <1>4, <1>9, <2>1, FirstsNext
    <3> QED BY <1>7, <1>8, <2>1, <3>1
  <2>2. CASE ~(\E e \in table : e.slot = x)
    <3>1. Firsts(taken + 1) = Firsts(taken) \cup {taken + 1}
      BY <1>4, <1>9, <2>2, FirstsNext
    <3> QED BY <1>5, <1>6, <1>7, <1>8, <2>2, <3>1
  <2> QED BY <2>1, <2>2
<1>11. TypeOK'
  <2>1. taken' \in 0..Len(entries) BY <1>1, <1>3, <1>4
  <2>2. table' \subseteq [slot : 0..255, name : Variables(code)]
    <3>1. [slot |-> x, name |-> v] \in [slot : 0..255, name : Variables(code)] OBVIOUS
    <3>2. table \subseteq [slot : 0..255, name : Variables(code)] BY <1>2 DEF TypeOK
    <3> QED BY <1>7, <3>1, <3>2
  <2> QED BY <1>1, <1>2, <2>1, <2>2 DEF TypeOK
<1>12. Parsed' BY <1>1, <1>2 DEF Parsed, Before
<1>13. Filled'
  <2>1. \A i : Key(i)' = Key(i) BY <1>1 DEF Key
  <2>2. Firsts(taken)' = Firsts(taken + 1) BY <1>1, <2>1 DEF Firsts
  <2>3. table' = {[slot |-> Key(i), name |-> entries[i]] : i \in Firsts(taken)}'
    BY <1>1, <1>10, <2>1, <2>2
  <2> QED BY <1>1, <1>2, <2>3 DEF Filled
<1> QED BY <1>11, <1>12, <1>13 DEF IInv

-----------------------------------------------------------------------------
(* The load and the name.                                                  *)

\* Whichever load it is, its slot is found.
LEMMA LoadedSlot ==
  ASSUME NEW s \in Nat, NEW insn \in Loads(s)
  PROVE  SlotOf(insn) = s
<1>1. CASE insn = [op |-> ALOAD, wide |-> TRUE, bytes |-> <<s \div 256, s % 256>>]
  <2>1. /\ insn.op = 25 /\ insn.wide = TRUE
        /\ insn.bytes[1] = s \div 256 /\ insn.bytes[2] = s % 256
    BY <1>1 DEF ALOAD
  <2>2. SlotOf(insn) = 256 * (s \div 256) + (s % 256)
    <3>1. ~(25 > 25) OBVIOUS
    <3> QED BY <2>1, <3>1 DEF SlotOf, ALOAD
  <2>3. 256 * (s \div 256) + (s % 256) = s OBVIOUS
  <2> QED BY <2>2, <2>3
<1>2. CASE insn = [op |-> ALOAD, wide |-> FALSE, bytes |-> <<s>>]
  <2>1. insn.op = 25 /\ ~insn.wide /\ insn.bytes[1] = s BY <1>2 DEF ALOAD
  <2>2. ~(25 > 25) OBVIOUS
  <2> QED BY <2>1, <2>2 DEF SlotOf, ALOAD
<1>3. CASE s \in 0..3 /\ insn = [op |-> ALOAD_0 + s, wide |-> FALSE, bytes |-> <<>>]
  <2>1. insn.op = 42 + s BY <1>3 DEF ALOAD_0
  <2>2. SlotOf(insn) = loadStoreSlotLookupTable[43 + s]
    <3>1. insn.op > 25 /\ insn.op + 1 = 43 + s BY <2>1
    <3> QED BY <3>1 DEF SlotOf, ALOAD, OpcodeSlot
  <2>3. /\ loadStoreSlotLookupTable[43] = 0 /\ loadStoreSlotLookupTable[44] = 1
        /\ loadStoreSlotLookupTable[45] = 2 /\ loadStoreSlotLookupTable[46] = 3
    BY DEF loadStoreSlotLookupTable
  <2>4. s = 0 \/ s = 1 \/ s = 2 \/ s = 3 BY <1>3
  <2> QED BY <2>2, <2>3, <2>4
<1>4. \/ insn = [op |-> ALOAD, wide |-> TRUE, bytes |-> <<s \div 256, s % 256>>]
      \/ insn = [op |-> ALOAD, wide |-> FALSE, bytes |-> <<s>>]
      \/ s \in 0..3 /\ insn = [op |-> ALOAD_0 + s, wide |-> FALSE, bytes |-> <<>>]
  BY DEF Loads
<1> QED BY <1>1, <1>2, <1>3, <1>4

\* The descriptor has been read as the JVM means it.
LEMMA ReadRight ==
  ASSUME IInv, phase # "parse"
  PROVE  /\ types = code.params
         /\ returnType = code.ret
         /\ length = SlotStarts(code.params)[Len(code.params) + 1]
         /\ First(code.static) + length = Arguments(code)
<1>1. code \in Cases BY DEF IInv, TypeOK
<1>2. PICK n \in Nat : n = Len(code.params) /\ Len(Parts(code)) = n + 3
  BY <1>1, CaseTypes, PartTypes
<1>3. Before(n + 3 + 1) BY <1>2 DEF IInv, Parsed
<1>4. ~((n + 3 + 1) - 2 <= n) /\ n + 3 + 1 > n + 3 OBVIOUS
<1>5. /\ types = [j \in 1..n |-> code.params[j]]
      /\ length = SlotStarts(code.params)[n + 1] /\ returnType = code.ret
  BY <1>2, <1>3, <1>4 DEF Before
<1>6. types = code.params
  <2>1. code.params \in Seq(Types) BY <1>1, CaseTypes
  <2> QED BY <1>2, <1>5, <2>1
<1> QED BY <1>2, <1>5, <1>6 DEF Arguments

\* The agent takes the slots of the parameters for those of the arguments.
LEMMA ParamTold ==
  ASSUME IInv, phase # "parse", NEW k \in Variables(code)
  PROVE  IsMethodParam(SlotsOf(code)[k]) <=> k <= Len(code.params)
<1>1. code \in Cases BY DEF IInv, TypeOK
<1>2. First(code.static) + length = Arguments(code) BY ReadRight
<1>3. PICK n \in Nat : n = length BY DEF IInv, TypeOK
<1>4. First(code.static) \in 0..1 BY <1>1, CaseTypes
<1>5. n + First(code.static) = Arguments(code) BY <1>2, <1>3, <1>4
<1>6. IsMethodParam(SlotsOf(code)[k]) <=> SlotsOf(code)[k] < Arguments(code)
  BY <1>3, <1>5 DEF IsMethodParam, First
<1> QED BY <1>1, <1>6, SlotTypes

\* The full table has the variable's own entry, if it has one and no other
\* variable in the table has its key.
LEMMA EntryFound ==
  ASSUME IInv, phase # "parse", taken = Len(entries), NEW k \in Variables(code),
         \A i \in 1..Len(entries) : Key(i) = SlotsOf(code)[k] % 256 => entries[i] = k
  PROVE  Entry(SlotsOf(code)[k])
           = IF \E i \in 1..Len(entries) : entries[i] = k THEN {k} ELSE {}
<1>1. PICK x : x = SlotsOf(code)[k] % 256 OBVIOUS
<1>2. Entry(SlotsOf(code)[k]) = {e.name : e \in {f \in table : f.slot = x}}
  BY <1>1 DEF Entry
<1>3. table = {[slot |-> Key(i), name |-> entries[i]] : i \in Firsts(Len(entries))}
  BY Zenon DEF IInv, Filled
<1>4. Len(entries) \in Nat BY ListingTypes DEF IInv, TypeOK
<1>5. ASSUME NEW e \in table, e.slot = x
      PROVE  e.name = k /\ \E i \in 1..Len(entries) : entries[i] = k
  <2>1. PICK i \in Firsts(Len(entries)) : e = [slot |-> Key(i), name |-> entries[i]]
    BY <1>3
  <2>2. i \in 1..Len(entries) BY DEF Firsts
  <2>3. Key(i) = x /\ e.name = entries[i] BY <1>5, <2>1
  <2>4. entries[i] = k BY <1>1, <2>2, <2>3
  <2> QED BY <2>2, <2>3, <2>4
<1>6. ASSUME NEW i \in 1..Len(entries), entries[i] = k
      PROVE  \E e \in table : e.slot = x
  <2>1. Key(i) = x BY <1>1, <1>6 DEF Key
  <2> QED BY <1>3, <1>4, <2>1, KeysInTable
<1>7. CASE \E i \in 1..Len(entries) : entries[i] = k
  <2>1. PICK e \in table : e.slot = x /\ e.name = k BY <1>5, <1>6, <1>7
  <2> QED BY <1>2, <1>5, <1>7, <2>1
<1>8. CASE ~(\E i \in 1..Len(entries) : entries[i] = k)
  <2>1. {f \in table : f.slot = x} = {} BY <1>5, <1>8
  <2> QED BY <1>2, <1>8, <2>1
<1> QED BY <1>7, <1>8

\* The loop stops at the variable, but for the first parameter of a static method.
LEMMA IndexRight ==
  ASSUME IInv, phase # "parse", NEW k \in References(code), k <= Len(code.params),
         ~(code.static /\ k = 1)
  PROVE  Index(SlotsOf(code)[k]) = k
<1>1. code \in Cases BY DEF IInv, TypeOK
<1>2. PICK n \in Nat : n = Len(code.params) BY <1>1, CaseTypes
<1>3. types = code.params /\ Len(types) = n /\ code.params \in Seq(Types)
  BY <1>1, <1>2, ReadRight, CaseTypes
<1>4. PICK e \in [1..(n + 1) -> Nat] : e = SlotStarts(code.params)
  BY <1>1, <1>2, ParamSlots
<1>5. \A i, j \in 1..(n + 1) : i <= j => e[i] + (j - i) <= e[j]
  BY <1>1, <1>2, <1>4, ParamSlots
<1>6. /\ k \in 1..n /\ k \in Variables(code) /\ k \in 1..(n + 1) /\ k + 1 \in 1..(n + 1)
      /\ k # This
  <2>1. k \in Variables(code) /\ k # This BY DEF References
  <2>2. k \in Nat /\ k >= 1 BY <1>1, <2>1, CaseTypes DEF Variables, This
  <2> QED BY <1>2, <2>1, <2>2
<1>7. \A j : SlotsRead(j) = e[j + 1]
  <2>1. \A j \in 1..n : LengthOf(types[j]) = Slots(code.params[j])
    BY <1>2, <1>3, LengthIsSlots
  <2>2. [j \in 1..n |-> LengthOf(types[j])] = [j \in 1..n |-> Slots(code.params[j])]
    BY <2>1, Zenon
  <2> QED BY <1>2, <1>3, <1>4, <2>2 DEF SlotsRead, SlotStarts
<1>8. e[k + 1] = e[k] + 1
  <2>1. e[k + 1] = e[k] + Slots(code.params[k]) BY <1>1, <1>2, <1>4, <1>6, ParamSlots
  <2>2. code.params[k].base = "L" \/ code.params[k].dim > 0 BY <1>2, <1>6 DEF References
  <2>3. code.params[k] \in Types BY <1>2, <1>3, <1>6
  <2>4. code.params[k].dim \in 0..255
    <3>1. \A t \in Types : t.dim \in 0..255 BY TypesAssumption
    <3> QED BY <2>3, <3>1
  <2>5. Slots(code.params[k]) = 1 BY <2>2, <2>4 DEF Slots
  <2> QED BY <2>1, <2>5
<1>9. PICK b \in {0, 1} : /\ b = First(code.static) /\ (code.static <=> b = 0)
                          /\ (IF code.static THEN 1 ELSE 0) = 1 - b
  BY <1>1, CaseTypes DEF First
<1>10. PICK m \in 1..n : m = k - 1 + b /\ m + (1 - b) = k
  <2>1. CASE b = 0
    <3>1. k # 1 BY <1>9, <2>1
    <3> QED BY <1>2, <1>6, <2>1, <3>1
  <2>2. CASE b = 1 BY <1>2, <1>6, <2>2
  <2> QED BY <2>1, <2>2
<1>11. e[k] \in Nat /\ e[k + 1] \in Nat BY <1>4, <1>6
<1>12. SlotsOf(code)[k] = e[m + 1]
  <2>1. SlotsOf(code)[k] = b + e[k] BY <1>1, <1>4, <1>6, <1>9, SlotTypes
  <2>2. CASE b = 0
    <3>1. m + 1 = k BY <1>10, <2>2
    <3> QED BY <1>11, <2>1, <2>2, <3>1
  <2>3. CASE b = 1
    <3>1. m = k BY <1>10, <2>3
    <3> QED BY <1>8, <1>11, <2>1, <2>3, <3>1
  <2> QED BY <2>2, <2>3
<1>13. ASSUME NEW j \in 1..n, e[j + 1] = e[m + 1] PROVE j = m
  <2>1. j + 1 \in 1..(n + 1) /\ m + 1 \in 1..(n + 1) BY <1>2
  <2>2. e[j + 1] \in Nat /\ e[m + 1] \in Nat BY <1>4, <2>1
  <2>3. CASE j < m
    <3>1. e[j + 1] + ((m + 1) - (j + 1)) <= e[m + 1] BY <1>5, <2>1, <2>3
    <3> QED BY <1>13, <2>2, <2>3, <3>1
  <2>4. CASE m < j
    <3>1. e[m + 1] + ((j + 1) - (m + 1)) <= e[j + 1] BY <1>5, <2>1, <2>4
    <3> QED BY <1>13, <2>2, <2>4, <3>1
  <2> QED BY <2>3, <2>4
<1>14. {j \in 1..n : SlotsRead(j) = e[m + 1]} = {m} BY <1>7, <1>13
<1>15. (CHOOSE j \in {m} : \A l \in {m} : j <= l) = m BY <1>2
<1>16. Index(e[m + 1]) = (1 - b) + m
  BY <1>3, <1>9, <1>14, <1>15 DEF Index
<1> QED BY <1>10, <1>12, <1>16

\* What is said of a load.
LEMMA NameStep ==
  ASSUME IInv, Name
  PROVE  IInv' /\ NamesTheVariable' /\ IndexCounts'
<1>1. /\ phase = "table" /\ taken = Len(entries) /\ phase' = "done"
      /\ UNCHANGED <<code, pos, types, length, returnType, entries, table, taken>>
  BY DEF Name
<1>2. TypeOK /\ Parsed /\ Filled /\ code \in Cases BY DEF IInv, TypeOK
<1>0. PICK k \in References(code) : \E insn \in Loads(SlotsOf(code)[k]) :
        loaded' = k /\ (Named(SlotOf(insn)) \/ Unnamed(SlotOf(insn)))
  BY DEF Name
<1>3. PICK insn \in Loads(SlotsOf(code)[k]) :
        loaded' = k /\ (Named(SlotOf(insn)) \/ Unnamed(SlotOf(insn)))
  BY <1>0
<1>4. k \in Variables(code) BY DEF References
<1>5. PICK slot : slot = SlotsOf(code)[k] OBVIOUS
<1>6. SlotOf(insn) = slot
  <2>1. SlotsOf(code)[k] \in Nat BY <1>2, <1>4, SlotTypes
  <2> QED BY <1>5, <2>1, LoadedSlot
<1>7. Named(slot) \/ Unnamed(slot) BY <1>3, <1>6
<1>8. IsMethodParam(slot) <=> k <= Len(code.params) BY <1>1, <1>4, <1>5, ParamTold
<1>9. IInv'
  <2>1. TypeOK' BY <1>1, <1>2, <1>3 DEF TypeOK
  <2>2. Parsed' BY <1>1, <1>2 DEF Parsed, Before
  <2>3. Filled' BY <1>1, <1>2 DEF Filled, Firsts, Key
  <2> QED BY <2>1, <2>2, <2>3 DEF IInv
<1>10. NamesTheVariable'
  <2> SUFFICES ASSUME Unambiguous'
               PROVE  /\ (\E i \in 1..Len(entries) : entries[i] = k) =>
                           cause' = [kind |-> IF k <= Len(code.params) THEN "parameter"
                                                                     ELSE "variable",
                                     name |-> k]
                      /\ ~(\E i \in 1..Len(entries) : entries[i] = k) =>
                           /\ cause'.kind = IF k <= Len(code.params) THEN "parameterAtIndex"
                                                                    ELSE "variableInSlot"
                           /\ ~(k <= Len(code.params)) => cause'.slot = slot
    BY <1>1, <1>3, <1>5 DEF NamesTheVariable
  <2>1. \A i \in 1..Len(entries) : Key(i) = SlotsOf(code)[k] % 256 => entries[i] = k
    BY <1>1, <1>3 DEF Unambiguous, Key
  <2>2. Entry(slot) = IF \E i \in 1..Len(entries) : entries[i] = k THEN {k} ELSE {}
    BY <1>1, <1>4, <1>5, <2>1, EntryFound
  <2>3. CASE \E i \in 1..Len(entries) : entries[i] = k
    <3>1. Entry(slot) = {k} BY <2>2, <2>3
    <3>2. Named(slot) BY <1>7, <3>1 DEF Unnamed
    <3> QED BY <1>8, <2>3, <3>1, <3>2 DEF Named
  <2>4. CASE ~(\E i \in 1..Len(entries) : entries[i] = k)
    <3>1. Entry(slot) = {} BY <2>2, <2>4
    <3>2. Unnamed(slot) BY <1>7, <3>1 DEF Named
    <3> QED BY <1>8, <2>4, <3>2 DEF Unnamed
  <2> QED BY <2>3, <2>4
<1>11. IndexCounts'
  <2> SUFFICES ASSUME cause'.kind = "parameterAtIndex", ~(code.static /\ k = 1)
               PROVE  cause'.index = k
    BY <1>1, <1>3 DEF IndexCounts
  <2>1. ~Named(slot) BY DEF Named
  <2>2. Unnamed(slot) BY <1>7, <2>1
  <2>3. IsMethodParam(slot) /\ cause'.index = Index(slot) BY <2>2 DEF Unnamed
  <2>4. k <= Len(code.params) BY <1>8, <2>3
  <2> QED BY <1>1, <1>5, <2>3, <2>4, IndexRight
<1> QED BY <1>9, <1>10, <1>11

-----------------------------------------------------------------------------
(* The theorems.                                                           *)

LEMMA InitInv == Init => IInv /\ NamesTheVariable /\ IndexCounts
<1> SUFFICES ASSUME Init PROVE IInv /\ NamesTheVariable /\ IndexCounts OBVIOUS
<1>1. /\ code \in Cases /\ phase = "parse" /\ pos = 2 /\ types = <<>> /\ length = 0
      /\ returnType = Void /\ entries = <<>> /\ table = {} /\ taken = 0
      /\ loaded = This /\ cause = [kind |-> "none"]
  BY DEF Init
<1>2. Firsts(taken) = {} /\ Len(entries) = 0 BY <1>1 DEF Firsts
<1>3. TypeOK BY <1>1, <1>2 DEF TypeOK
<1>4. Filled BY <1>1, <1>2 DEF Filled
<1>5. PICK n \in Nat : n = Len(code.params) /\ Len(Parts(code)) = n + 3
  BY <1>1, CaseTypes, PartTypes
<1>6. Before(2)
  <2>1. PartStarts(code)[2] = 1
    <3>1. 1 \in 1..Len(Parts(code)) /\ 1 + 1 = 2 BY <1>5
    <3>2. Parts(code)[1].dim = 0
      <4>1. Parts(code)[1] = [base |-> "(", dim |-> 0] BY <1>1, PartTypes
      <4> QED BY <4>1
    <3>3. /\ PartStarts(code)[1] = 0
          /\ PartStarts(code)[1 + 1] = PartStarts(code)[1] + (Parts(code)[1].dim + 1)
      BY <1>1, <3>1, PartPlaces
    <3> QED BY <3>1, <3>2, <3>3
  <2>2. SlotStarts(code.params)[0 + 1] = 0 BY <1>1, ParamSlots
  <2>3. 2 - 2 <= n /\ 2 - 2 = 0 /\ ~(2 > n + 3) BY <1>5
  <2>4. types = [j \in 1..0 |-> code.params[j]] BY <1>1
  <2> QED BY <1>1, <1>5, <2>1, <2>2, <2>3, <2>4 DEF Before
<1>7. Parsed BY <1>1, <1>5, <1>6 DEF Parsed
<1>8. NamesTheVariable /\ IndexCounts BY <1>1 DEF NamesTheVariable, IndexCounts
<1> QED BY <1>3, <1>4, <1>7, <1>8 DEF IInv

LEMMA StepInv ==
  IInv /\ NamesTheVariable /\ IndexCounts /\ [Next]_vars
    => (IInv /\ NamesTheVariable /\ IndexCounts)'
<1> SUFFICES ASSUME IInv, NamesTheVariable, IndexCounts, [Next]_vars
             PROVE  IInv' /\ NamesTheVariable' /\ IndexCounts'
  OBVIOUS
\* Before the load there is nothing said.
<1>1. ASSUME IInv', phase' # "done" PROVE NamesTheVariable' /\ IndexCounts'
  <2>1. cause' = [kind |-> "none"] BY <1>1 DEF IInv, Filled
  <2> QED BY <1>1, <2>1 DEF NamesTheVariable, IndexCounts
<1>2. CASE ReadType BY <1>1, <1>2, ReadTypeIInv DEF ReadType
<1>3. CASE SkipParenthesis BY <1>1, <1>3, SkipIInv DEF SkipParenthesis
<1>4. CASE ReadDone BY <1>1, <1>4, DoneIInv DEF ReadDone
<1>5. CASE FillTable BY <1>1, <1>5, FillIInv DEF FillTable
<1>6. CASE Name BY <1>6, NameStep
<1>7. CASE UNCHANGED vars
  <2> USE DEF vars, IInv
  <2>4. TypeOK' BY <1>7 DEF TypeOK
  <2>5. Parsed' BY <1>7 DEF Parsed, Before
  <2>6. Filled' BY <1>7 DEF Filled, Firsts, Key
  <2>1. IInv' BY <2>4, <2>5, <2>6
  <2>2. NamesTheVariable' BY <1>7 DEF vars, NamesTheVariable, Unambiguous
  <2>3. IndexCounts' BY <1>7 DEF vars, IndexCounts, Unambiguous
  <2> QED BY <2>1, <2>2, <2>3
<1> QED BY <1>2, <1>3, <1>4, <1>5, <1>6, <1>7 DEF Next

\* While the constructor of Method reads a descriptor it stands between two types
\* and has counted those before, and a LocalVariableTable has the entries taken.
THEOREM Inductive == Spec => []IInv
<1> QED BY InitInv, StepInv, PTL DEF Spec

\* Every descriptor is read as the JVM means it: the types of the parameters,
\* the return type and the number of slots.
THEOREM DescriptorsRead == Spec => []ReadAsMeant
<1>1. IInv => ReadAsMeant BY ReadRight DEF ReadAsMeant
<1> QED BY <1>1, InitInv, StepInv, PTL DEF Spec

\* The message of traceDetailedCause is about the variable the null came from, if
\* no other entry has its slot in eight bits: among them is the receiver's in slot
\* 0 of an instance method, which a variable in slot 256 would be taken for.
THEOREM VariableNamed == Spec => []NamesTheVariable
<1> QED BY InitInv, StepInv, PTL DEF Spec

\* The index that stands for a parameter without a name is that parameter's.
THEOREM IndexRightCounted == Spec => []IndexCounts
<1> QED BY InitInv, StepInv, PTL DEF Spec
=============================================================================
