------------------------------ MODULE Induction ------------------------------
(***************************************************************************)
(* Induction over the natural numbers, for the functions that are defined  *)
(* by recursion on them.  A property is given by the set of the numbers    *)
(* that have it, so that first-order provers can use it.                   *)
(***************************************************************************)
EXTENDS Integers, Sequences, FiniteSetTheorems, WellFoundedInduction, TLAPS

\* A set of numbers has a least one: of the intervals from 0 to one of them,
\* some finite interval has no smaller one inside.
LEMMA NatMin ==
  ASSUME NEW T, T \subseteq Nat, T # {}
  PROVE  \E x \in T : \A y \in T : x <= y
<1>1. PICK n \in T : TRUE OBVIOUS
<1> DEFINE S == 0..n
           U == {u \in SUBSET S : \E m \in T : m <= n /\ u = 0..m}
<1>2. IsFiniteSet(S) BY FS_Interval
<1>3. IsWellFoundedOn(StrictSubsetOrdering(S), SUBSET S)
  <2>1. FiniteSubsetsOf(S) = SUBSET S BY <1>2, FS_FiniteSubsetsOfFinite
  <2> HIDE DEF S
  <2>2. IsWellFoundedOn(StrictSubsetOrdering(S), FiniteSubsetsOf(S))
    BY FS_StrictSubsetOrderingWellFounded
  <2> QED BY <2>1, <2>2
<1>4. U \subseteq SUBSET S /\ U # {}
  <2>1. S \in U BY <1>1
  <2> QED BY <2>1
<1>5. PICK u \in U : \A v \in U : ~(<<v, u>> \in StrictSubsetOrdering(S))
  <2> HIDE DEF S, U
  <2> QED BY <1>3, <1>4, WFMin
<1>6. PICK x \in T : x <= n /\ u = 0..x BY <1>5
<1>7. ASSUME NEW y \in T PROVE x <= y
  <2> SUFFICES ASSUME y < x PROVE FALSE OBVIOUS
  <2>1. 0..y \in U BY <1>6
  <2>2. 0..y \subseteq u /\ 0..y # u
    <3>1. x \notin 0..y /\ x \in 0..x OBVIOUS
    <3> QED BY <1>6, <3>1
  <2>3. <<0..y, u>> \in StrictSubsetOrdering(S)
    BY <2>1, <2>2 DEF StrictSubsetOrdering
  <2> QED BY <1>5, <2>1, <2>3
<1> QED BY <1>7

\* What holds of 0, and of n + 1 where it holds of n, holds of every number.
LEMMA NatInd ==
  ASSUME NEW T, 0 \in T, \A n \in T \cap Nat : n + 1 \in T
  PROVE  Nat \subseteq T
<1> SUFFICES ASSUME Nat \ T # {} PROVE FALSE OBVIOUS
<1>1. PICK x \in Nat \ T : \A y \in Nat \ T : x <= y BY NatMin
<1>2. x # 0 BY <1>1
<1>3. x - 1 \in Nat /\ x - 1 \in T BY <1>1, <1>2
<1> QED BY <1>1, <1>3

-----------------------------------------------------------------------------
(* Sums.                                                                   *)

\* What comes before each element of w, and at last all of it.
Sums(w) ==
  LET s[k \in 1..(Len(w) + 1)] == IF k = 1 THEN 0 ELSE s[k - 1] + w[k - 1] IN s

Total(w) == Sums(w)[Len(w) + 1]

\* g has the first n + 1 of the sums of w.
Places(w, n, g) ==
  /\ g \in [1..(n + 1) -> Nat] /\ g[1] = 0
  /\ \A k \in 1..n : g[k + 1] = g[k] + w[k]

\* There are such sums, and the recursive function is them.
LEMMA SumsDef ==
  ASSUME NEW w \in Seq(Nat)
  PROVE  /\ Sums(w) \in [1..(Len(w) + 1) -> Nat]
         /\ Sums(w)[1] = 0
         /\ \A k \in 1..Len(w) : Sums(w)[k + 1] = Sums(w)[k] + w[k]
<1>1. PICK N \in Nat : N = Len(w) /\ w \in [1..N -> Nat] OBVIOUS
<1> DEFINE T == {n \in Nat : n <= N => \E g : Places(w, n, g)}
<1>2. 0 \in T
  <2>1. Places(w, 0, [k \in 1..1 |-> 0]) BY DEF Places
  <2> QED BY <2>1
<1>3. ASSUME NEW n \in Nat, n \in T PROVE n + 1 \in T
  <2> SUFFICES ASSUME n + 1 <= N PROVE \E g : Places(w, n + 1, g) OBVIOUS
  <2>1. PICK g : Places(w, n, g) BY <1>3
  <2>2. PICK v \in Nat : v = w[n + 1] BY <1>1
  <2>3. PICK m \in Nat : m = n + 1 OBVIOUS
  <2> DEFINE h == [k \in 1..(m + 1) |-> IF k <= m THEN g[k] ELSE g[m] + v]
  <2>4. /\ g \in [1..m -> Nat] /\ g[1] = 0
        /\ \A k \in 1..n : g[k + 1] = g[k] + w[k]
    BY <2>1, <2>3 DEF Places
  <2>5. h \in [1..(m + 1) -> Nat] /\ h[1] = 0 BY <2>2, <2>3, <2>4
  <2>6. ASSUME NEW k \in 1..m PROVE h[k + 1] = h[k] + w[k]
    <3>1. CASE k \in 1..n
      <4>1. k + 1 \in 1..m /\ k \in 1..m BY <2>3, <3>1
      <4>2. h[k + 1] = g[k + 1] /\ h[k] = g[k] BY <4>1
      <4> QED BY <2>4, <3>1, <4>2
    <3>2. CASE k = m
      <4>1. ~(m + 1 <= m) /\ m + 1 \in 1..(m + 1) /\ m \in 1..(m + 1) BY <2>3
      <4>2. h[m + 1] = g[m] + v /\ h[m] = g[m] BY <4>1
      <4>3. w[m] = v BY <2>2, <2>3
      <4> QED BY <3>2, <4>2, <4>3
    <3> QED BY <2>3, <3>1, <3>2
  <2>7. Places(w, m, h) BY <2>5, <2>6 DEF Places
  <2> QED BY <2>3, <2>7
<1>4. N \in T
  <2> HIDE DEF T
  <2>1. \A n \in T \cap Nat : n + 1 \in T BY <1>3
  <2> QED BY <1>2, <2>1, NatInd
<1>5. PICK g : Places(w, N, g) BY <1>4
<1> DEFINE R(s) == [k \in 1..(N + 1) |-> IF k = 1 THEN 0 ELSE s[k - 1] + w[k - 1]]
<1>6. g = R(g)
  <2>1. g \in [1..(N + 1) -> Nat] /\ g[1] = 0 BY <1>5 DEF Places
  <2>2. ASSUME NEW k \in 1..(N + 1), k # 1 PROVE g[k] = g[k - 1] + w[k - 1]
    <3>1. PICK j \in 1..N : j = k - 1 /\ k = j + 1 BY <2>2
    <3>2. g[j + 1] = g[j] + w[j] BY <1>5 DEF Places
    <3> QED BY <3>1, <3>2
  <2>3. \A k \in 1..(N + 1) : g[k] = R(g)[k] BY <2>1, <2>2
  <2> QED BY <2>1, <2>3
<1>7. Sums(w) = CHOOSE s : s = R(s) BY <1>1, Zenon DEF Sums
<1>8. Sums(w) = R(Sums(w)) BY <1>6, <1>7
<1>9. ASSUME NEW s, s = R(s) PROVE s = g
  <2> DEFINE E == {n \in Nat : n <= N => s[n + 1] = g[n + 1]}
  <2>0. \A k \in 1..(N + 1) : s[k] = IF k = 1 THEN 0 ELSE s[k - 1] + w[k - 1]
    BY <1>9
  <2>1. 0 \in E
    <3>1. s[1] = 0 BY <2>0
    <3> QED BY <1>5, <3>1 DEF Places
  <2>2. ASSUME NEW n \in Nat, n \in E PROVE n + 1 \in E
    <3> SUFFICES ASSUME n + 1 <= N PROVE s[(n + 1) + 1] = g[(n + 1) + 1] OBVIOUS
    <3>1. PICK m \in 1..N : m = n + 1 OBVIOUS
    <3>2. s[m] = g[m] BY <2>2, <3>1
    <3>3. s[m + 1] = s[m] + w[m]
      <4>1. m + 1 \in 1..(N + 1) /\ m + 1 # 1 /\ (m + 1) - 1 = m OBVIOUS
      <4> QED BY <2>0, <4>1
    <3>4. g[m + 1] = g[m] + w[m] BY <1>5 DEF Places
    <3> QED BY <3>1, <3>2, <3>3, <3>4
  <2>3. Nat \subseteq E
    <3> HIDE DEF E
    <3> QED BY <2>1, <2>2, NatInd
  <2>4. \A k \in 1..(N + 1) : s[k] = g[k]
    <3> SUFFICES ASSUME NEW k \in 1..(N + 1) PROVE s[k] = g[k] OBVIOUS
    <3>1. PICK n \in Nat : n <= N /\ k = n + 1
      <4>1. k - 1 \in Nat /\ k - 1 <= N /\ k = (k - 1) + 1 OBVIOUS
      <4> QED BY <4>1
    <3>2. n \in E BY <2>3
    <3> QED BY <3>1, <3>2
  <2>5. \A k \in 1..(N + 1) : R(s)[k] = R(g)[k] BY <1>6, <1>9, <2>4
  <2>6. R(s) = R(g)
    <3>1. DOMAIN R(s) = 1..(N + 1) /\ DOMAIN R(g) = 1..(N + 1) OBVIOUS
    <3> QED BY <2>5, <3>1
  <2> QED BY <1>6, <1>9, <2>6
<1>10. Sums(w) = g BY <1>8, <1>9
<1> QED BY <1>1, <1>5, <1>10 DEF Places

\* No elements add up to 0, and one more in front adds itself.
LEMMA TotalNone == Total(<<>>) = 0
<1>1. <<>> \in Seq(Nat) /\ Len(<<>>) + 1 = 1 OBVIOUS
<1>2. Sums(<<>>)[1] = 0 BY <1>1, SumsDef
<1> QED BY <1>1, <1>2, Zenon DEF Total

LEMMA TotalType == ASSUME NEW w \in Seq(Nat) PROVE Total(w) \in Nat
<1>1. Sums(w) \in [1..(Len(w) + 1) -> Nat] BY SumsDef
<1>2. Len(w) + 1 \in 1..(Len(w) + 1) OBVIOUS
<1>3. Sums(w)[Len(w) + 1] \in Nat BY <1>1, <1>2
<1> QED BY <1>3 DEF Total

LEMMA TotalCons ==
  ASSUME NEW w \in Seq(Nat), NEW a \in Nat, NEW v \in Seq(Nat),
         Len(v) = Len(w) + 1, v[1] = a, \A k \in 1..Len(w) : v[k + 1] = w[k]
  PROVE  Total(v) = a + Total(w)
<1>1. PICK N \in Nat : N = Len(w) /\ N + 1 = Len(v)
  <2>1. Len(w) \in Nat OBVIOUS
  <2> QED BY <2>1, Zenon
<1>2. PICK s \in [1..(N + 1) -> Nat] :
        s = Sums(w) /\ s[1] = 0 /\ \A k \in 1..N : s[k + 1] = s[k] + w[k]
  BY <1>1, SumsDef
<1>3. PICK t \in [1..((N + 1) + 1) -> Nat] :
        t = Sums(v) /\ t[1] = 0 /\ \A k \in 1..(N + 1) : t[k + 1] = t[k] + v[k]
  <2>1. PICK M : M = N + 1 /\ M = Len(v) BY <1>1, Zenon
  <2>2. /\ Sums(v) \in [1..(M + 1) -> Nat] /\ Sums(v)[1] = 0
        /\ \A k \in 1..M : Sums(v)[k + 1] = Sums(v)[k] + v[k]
    BY <2>1, SumsDef, Zenon
  <2> QED BY <2>1, <2>2, Zenon
<1> DEFINE T == {n \in Nat : n <= N => t[(n + 1) + 1] = a + s[n + 1]}
<1>4. 0 \in T
  <2>1. 1 \in 1..(N + 1) BY <1>1
  <2>2. t[1 + 1] = t[1] + v[1] BY <1>3, <2>1
  <2> QED BY <1>2, <1>3, <2>2
<1>5. ASSUME NEW n \in Nat, n \in T PROVE n + 1 \in T
  <2> SUFFICES ASSUME n + 1 <= N
               PROVE  t[((n + 1) + 1) + 1] = a + s[(n + 1) + 1]
    OBVIOUS
  <2>1. PICK m \in 1..N : m = n + 1 OBVIOUS
  <2>2. t[m + 1] = a + s[m] BY <1>5, <2>1
  <2> HIDE DEF T
  <2>3. m + 1 \in 1..(N + 1) BY <1>1
  <2>4. t[(m + 1) + 1] = t[m + 1] + v[m + 1] BY <1>3, <2>3, Zenon
  <2>5. v[m + 1] = w[m] BY <1>1
  <2>6. s[m + 1] = s[m] + w[m] BY <1>2, Zenon
  <2>7. s[m] \in Nat
    <3>1. m \in 1..(N + 1) BY <1>1
    <3> QED BY <1>2, <3>1
  <2>8. w[m] \in Nat BY <1>1, SMTT(30)
  <2>9. t[(m + 1) + 1] = (a + s[m]) + w[m] BY <2>2, <2>4, <2>5, Zenon
  <2>10. (a + s[m]) + w[m] = a + (s[m] + w[m])
    <3>1. \A x, y \in Nat : (a + x) + y = a + (x + y) OBVIOUS
    <3> QED BY <2>7, <2>8, <3>1, Zenon
  <2>11. t[(m + 1) + 1] = a + s[m + 1] BY <2>6, <2>9, <2>10, Zenon
  <2> QED BY <2>1, <2>11, Zenon
<1>6. N \in T
  <2> HIDE DEF T
  <2>1. \A n \in T \cap Nat : n + 1 \in T BY <1>5
  <2> QED BY <1>4, <2>1, NatInd
<1>7. t[(N + 1) + 1] = a + s[N + 1] BY <1>6
<1> QED BY <1>1, <1>2, <1>3, <1>7, Zenon DEF Total

\* So does one more at the end.
LEMMA TotalSnoc ==
  ASSUME NEW w \in Seq(Nat), NEW v \in Seq(Nat), NEW N \in Nat,
         N = Len(w), Len(v) = N + 1, \A k \in 1..N : v[k] = w[k]
  PROVE  Total(v) = Total(w) + v[N + 1]
<1>1. PICK s \in [1..(N + 1) -> Nat] :
        s = Sums(w) /\ s[1] = 0 /\ \A k \in 1..N : s[k + 1] = s[k] + w[k]
  BY SumsDef
<1>2. PICK t \in [1..((N + 1) + 1) -> Nat] :
        t = Sums(v) /\ t[1] = 0 /\ \A k \in 1..(N + 1) : t[k + 1] = t[k] + v[k]
  <2>1. PICK M : M = N + 1 /\ M = Len(v) BY Zenon
  <2>2. /\ Sums(v) \in [1..(M + 1) -> Nat] /\ Sums(v)[1] = 0
        /\ \A k \in 1..M : Sums(v)[k + 1] = Sums(v)[k] + v[k]
    BY <2>1, SumsDef, Zenon
  <2> QED BY <2>1, <2>2, Zenon
<1> DEFINE T == {n \in Nat : n <= N => t[n + 1] = s[n + 1]}
<1>3. 0 \in T BY <1>1, <1>2
<1>4. ASSUME NEW n \in Nat, n \in T PROVE n + 1 \in T
  <2> SUFFICES ASSUME n + 1 <= N PROVE t[(n + 1) + 1] = s[(n + 1) + 1] OBVIOUS
  <2>1. PICK m \in 1..N : m = n + 1 OBVIOUS
  <2>2. t[m] = s[m] BY <1>4, <2>1
  <2>3. m \in 1..(N + 1) BY <2>1
  <2>4. t[m + 1] = t[m] + v[m] /\ s[m + 1] = s[m] + w[m] BY <1>1, <1>2, <2>3, Zenon
  <2>5. v[m] = w[m] OBVIOUS
  <2> QED BY <2>1, <2>2, <2>4, <2>5, Zenon
<1>5. t[N + 1] = s[N + 1]
  <2> HIDE DEF T
  <2>1. \A n \in T \cap Nat : n + 1 \in T BY <1>4
  <2>2. N \in T BY <1>3, <2>1, NatInd
  <2> QED BY <2>2 DEF T
<1>6. N + 1 \in 1..(N + 1) OBVIOUS
<1>7. t[(N + 1) + 1] = t[N + 1] + v[N + 1] BY <1>2, <1>6, Zenon
<1>8. Total(v) = t[(N + 1) + 1] /\ Total(w) = s[N + 1] BY <1>1, <1>2, Zenon DEF Total
<1> QED BY <1>5, <1>7, <1>8, Zenon
=============================================================================
