---------------------- MODULE ExceptionCallback_proofs ----------------------
(***************************************************************************)
(* Theorems about ExceptionCallback, for any threads and exceptions.       *)
(***************************************************************************)
EXTENDS ExceptionCallback, TLAPS

\* A step of a callback within its thread.
LEMMA GotoActive ==
  ASSUME TypeOK, NEW t \in Threads, active[t] # <<>>, NEW pc \in PC, Goto(t, pc)
  PROVE  /\ active' \in [Threads -> Seq(Activation)]
         /\ \A u \in Threads :
              /\ Len(active'[u]) = Len(active[u])
              /\ \A i \in 1..Len(active[u]) :
                   active'[u][i] = IF u = t /\ i = Len(active[t])
                                   THEN [active[u][i] EXCEPT !.pc = pc]
                                   ELSE active[u][i]
<1> DEFINE k == Len(active[t])
<1>1. active \in [Threads -> Seq(Activation)] BY DEF TypeOK
<1>2. active[t] \in Seq(Activation) /\ k \in 1..Len(active[t]) BY <1>1
<1>3. active' = [active EXCEPT ![t] = [active[t] EXCEPT ![k] = [active[t][k] EXCEPT !.pc = pc]]]
  BY DEF Goto
<1>4. [active[t][k] EXCEPT !.pc = pc] \in Activation
  <2>1. active[t][k] \in Activation BY <1>2
  <2> QED BY <2>1 DEF Activation
<1>5. [active[t] EXCEPT ![k] = [active[t][k] EXCEPT !.pc = pc]] \in Seq(Activation)
  BY <1>2, <1>4
<1>6. active' \in [Threads -> Seq(Activation)] BY <1>1, <1>3, <1>5
<1>7. ASSUME NEW u \in Threads
      PROVE  /\ Len(active'[u]) = Len(active[u])
             /\ \A i \in 1..Len(active[u]) :
                  active'[u][i] = IF u = t /\ i = k
                                  THEN [active[u][i] EXCEPT !.pc = pc]
                                  ELSE active[u][i]
  <2>1. CASE u = t
    <3>1. active'[t] = [active[t] EXCEPT ![k] = [active[t][k] EXCEPT !.pc = pc]]
      BY <1>1, <1>3
    <3>2. Len(active'[t]) = Len(active[t]) BY <1>2, <3>1
    <3>3. \A i \in 1..k : active'[t][i] = IF i = k THEN [active[t][i] EXCEPT !.pc = pc]
                                                   ELSE active[t][i]
      BY <1>2, <3>1
    <3> QED BY <2>1, <3>2, <3>3, Zenon
  <2>2. CASE u # t BY <1>1, <1>3, <2>2
  <2> QED BY <2>1, <2>2
<1> QED BY <1>6, <1>7

\* The end of a callback.
LEMMA ReturnActive ==
  ASSUME TypeOK, NEW t \in Threads, active[t] # <<>>, NEW how \in How, Return(t, how)
  PROVE  /\ active' \in [Threads -> Seq(Activation)]
         /\ \A u \in Threads :
              /\ Len(active'[u]) = IF u = t THEN Len(active[u]) - 1 ELSE Len(active[u])
              /\ \A i \in 1..Len(active'[u]) : active'[u][i] = active[u][i]
         /\ throws' \in Seq(Thrown)
         /\ Len(throws') = Len(throws)
<1> DEFINE k == Len(active[t])
<1>1. active \in [Threads -> Seq(Activation)] BY DEF TypeOK
<1>2. active[t] \in Seq(Activation) /\ k \in Nat /\ k >= 1 BY <1>1
<1>3. /\ active' = [active EXCEPT ![t] = SubSeq(active[t], 1, k - 1)]
      /\ throws' = [throws EXCEPT ![Top(t).n] = [throws[Top(t).n] EXCEPT !.how = how]]
  BY DEF Return
<1>4. /\ SubSeq(active[t], 1, k - 1) \in Seq(Activation)
      /\ Len(SubSeq(active[t], 1, k - 1)) = k - 1
      /\ \A i \in 1..(k - 1) : SubSeq(active[t], 1, k - 1)[i] = active[t][i]
  BY <1>2
<1>5. active' \in [Threads -> Seq(Activation)] BY <1>1, <1>3, <1>4
<1>6. ASSUME NEW u \in Threads
      PROVE  /\ Len(active'[u]) = IF u = t THEN Len(active[u]) - 1 ELSE Len(active[u])
             /\ \A i \in 1..Len(active'[u]) : active'[u][i] = active[u][i]
  <2>1. CASE u = t BY <1>1, <1>3, <1>4, <2>1
  <2>2. CASE u # t BY <1>1, <1>3, <2>2
  <2> QED BY <2>1, <2>2
<1>7. throws' \in Seq(Thrown) /\ Len(throws') = Len(throws)
  <2>1. throws \in Seq(Thrown) BY DEF TypeOK
  <2>2. Top(t).n \in 1..Len(throws) BY <1>2 DEF TypeOK, Top
  <2>3. [throws[Top(t).n] EXCEPT !.how = how] \in Thrown
    <3> DEFINE r == throws[Top(t).n]
    <3>1. r \in Thrown BY <2>1, <2>2
    <3> HIDE DEF r
    <3>2. [r EXCEPT !.how = how] \in Thrown BY <3>1 DEF Thrown
    <3> QED BY <3>2 DEF r
  <2> QED BY <1>3, <2>1, <2>2, <2>3
<1> QED BY <1>5, <1>6, <1>7

\* No callback is open at the start.
LEMMA InitIInv == Init => IInv
<1> SUFFICES ASSUME Init PROVE IInv OBVIOUS
<1>1. TypeOK
  <2>1. /\ msg \in [Exceptions -> Message] /\ analyzer \in BOOLEAN
    BY DEF Init, Message
  <2>2. throws = <<>> /\ active = [t \in Threads |-> <<>>] BY DEF Init
  <2>3. throws \in Seq(Thrown) BY <2>2
  <2>4. active \in [Threads -> Seq(Activation)] BY <2>2
  <2>5. \A t \in Threads : Len(active[t]) = 0 BY <2>2
  <2> QED BY <2>1, <2>3, <2>4, <2>5 DEF TypeOK
<1>2. NestsInParams /\ CheckStillHolds
  BY DEF Init, NestsInParams, CheckStillHolds
<1> QED BY <1>1, <1>2 DEF IInv

\* A throw opens a callback that has checked nothing.
LEMMA EnterIInv ==
  ASSUME IInv, NEW t \in Threads, NEW x \in Exceptions, NEW site \in Site,
         Enter(t, x, site)
  PROVE  IInv'
<1> DEFINE new == [n |-> Len(throws) + 1, x |-> x, site |-> site, pc |-> "filter"]
<1> USE DEF IInv
<1>1. /\ active \in [Threads -> Seq(Activation)]
      /\ throws \in Seq(Thrown) /\ Len(throws) \in Nat
  BY DEF TypeOK
<1>2. /\ active' = [active EXCEPT ![t] = Append(active[t], new)]
      /\ throws' = Append(throws, [x |-> x, how |-> "open"])
      /\ UNCHANGED <<msg, analyzer>>
  BY DEF Enter
<1>3. new \in Activation BY <1>1 DEF Activation, PC
<1>4. active[t] \in Seq(Activation) BY <1>1
<1> HIDE DEF new
<1>5. /\ active' \in [Threads -> Seq(Activation)]
      /\ Len(active'[t]) = Len(active[t]) + 1
      /\ active'[t][Len(active[t]) + 1] = new
      /\ \A i \in 1..Len(active[t]) : active'[t][i] = active[t][i]
      /\ \A u \in Threads \ {t} : active'[u] = active[u]
  BY <1>1, <1>2, <1>3, <1>4
<1>6. /\ throws' \in Seq(Thrown)
      /\ Len(throws') = Len(throws) + 1
  <2>1. [x |-> x, how |-> "open"] \in Thrown BY DEF How, Thrown
  <2> QED BY <1>1, <1>2, <2>1
<1>7. ASSUME NEW u \in Threads, NEW i \in 1..Len(active'[u])
      PROVE  \/ u = t /\ i = Len(active[t]) + 1 /\ active'[u][i] = new
             \/ i \in 1..Len(active[u]) /\ active'[u][i] = active[u][i]
  <2>1. CASE u = t BY <1>4, <1>5, <2>1
  <2>2. CASE u # t BY <1>5, <2>2
  <2> QED BY <2>1, <2>2
<1>8. TypeOK'
  <2>1. \A u \in Threads : \A i \in 1..Len(active'[u]) :
          active'[u][i].n \in 1..Len(throws')
    <3> TAKE u \in Threads
    <3> TAKE i \in 1..Len(active'[u])
    <3>1. CASE active'[u][i] = new BY <1>1, <1>6, <3>1 DEF new
    <3>2. CASE i \in 1..Len(active[u]) /\ active'[u][i] = active[u][i]
      <4>1. active[u][i].n \in 1..Len(throws) BY <3>2 DEF TypeOK
      <4> QED BY <1>1, <1>6, <3>2, <4>1
    <3> QED BY <1>7, <3>1, <3>2
  <2> QED BY <1>2, <1>5, <1>6, <2>1 DEF TypeOK
<1>9. NestsInParams'
  <2> SUFFICES ASSUME NEW u \in Threads, NEW i \in 1..(Len(active'[u]) - 1)
               PROVE  active'[u][i].pc = "params"
    BY DEF NestsInParams
  <2>1. CASE u # t BY <1>5, <2>1 DEF NestsInParams
  <2>2. CASE u = t /\ i # Len(active[t])
    <3>1. i \in 1..(Len(active[t]) - 1) BY <1>4, <1>5, <2>2
    <3>2. active[t][i].pc = "params" BY <3>1 DEF NestsInParams
    <3>3. i \in 1..Len(active[t]) BY <1>4, <3>1
    <3> QED BY <1>5, <2>2, <3>2, <3>3
  <2>3. CASE u = t /\ i = Len(active[t])
    <3>1. i \in 1..Len(active[t]) BY <1>4, <1>5, <2>3
    <3>2. active[t] # <<>> BY <3>1
    <3>3. active[t][i].pc = "params" BY <2>3, <3>2 DEF Enter, At, Top
    <3> QED BY <1>5, <2>3, <3>1, <3>3
  <2> QED BY <2>1, <2>2, <2>3
<1>10. CheckStillHolds'
  <2> SUFFICES ASSUME NEW u \in Threads, NEW i \in 1..Len(active'[u])
               PROVE  /\ u \in MayThrow[active'[u][i].x]
                      /\ active'[u][i].pc \in Late => active'[u][i].x \in Writable'
    BY DEF CheckStillHolds
  <2>1. CASE u = t /\ active'[u][i] = new
    <3>1. t \in MayThrow[x] BY DEF Enter
    <3> QED BY <2>1, <3>1 DEF new, Late
  <2>2. CASE i \in 1..Len(active[u]) /\ active'[u][i] = active[u][i]
    <3>1. /\ u \in MayThrow[active[u][i].x]
          /\ active[u][i].pc \in Late => active[u][i].x \in Writable
      BY <2>2 DEF CheckStillHolds
    <3> QED BY <1>2, <2>2, <3>1 DEF Writable
  <2> QED BY <1>7, <2>1, <2>2
<1> QED BY <1>8, <1>9, <1>10

\* A callback that goes on: to a place where it must be able to write, only
\* when it was already on its way there or has just found it can.
LEMMA GotoIInv ==
  ASSUME IInv, NEW t \in Threads, active[t] # <<>>, NEW pc \in PC, Goto(t, pc),
         UNCHANGED msg, analyzer' \in BOOLEAN,
         pc \in Late => Top(t).pc \in Late \/ Top(t).x \in Writable
  PROVE  IInv'
<1> USE DEF IInv
<1>1. active \in [Threads -> Seq(Activation)] BY DEF TypeOK
<1>2. /\ active' \in [Threads -> Seq(Activation)]
      /\ \A u \in Threads :
           /\ Len(active'[u]) = Len(active[u])
           /\ \A i \in 1..Len(active[u]) :
                active'[u][i] = IF u = t /\ i = Len(active[t])
                                THEN [active[u][i] EXCEPT !.pc = pc]
                                ELSE active[u][i]
  BY GotoActive
<1>3. ASSUME NEW u \in Threads, NEW i \in 1..Len(active[u])
      PROVE  /\ active'[u][i].n = active[u][i].n
             /\ active'[u][i].x = active[u][i].x
             /\ \/ active'[u][i].pc = active[u][i].pc
                \/ u = t /\ i = Len(active[t]) /\ active'[u][i].pc = pc
  <2>1. active[u][i] \in Activation BY <1>1
  <2>2. CASE u = t /\ i = Len(active[t])
    <3>1. active'[u][i] = [active[u][i] EXCEPT !.pc = pc]
      BY <1>2, <2>2
    <3> QED BY <2>1, <2>2, <3>1 DEF Activation
  <2>3. CASE ~(u = t /\ i = Len(active[t]))
    <3>1. active'[u][i] = active[u][i] BY <1>2, <2>3
    <3> QED BY <3>1
  <2> QED BY <2>2, <2>3
<1>4. throws' = throws BY DEF Goto
<1>5. TypeOK'
  <2>1. ASSUME NEW u \in Threads, NEW i \in 1..Len(active'[u])
        PROVE  active'[u][i].n \in 1..Len(throws')
    <3>1. i \in 1..Len(active[u]) BY <1>2
    <3>2. active[u][i].n \in 1..Len(throws) BY <3>1 DEF TypeOK
    <3> QED BY <1>3, <1>4, <3>1, <3>2
  <2> QED BY <1>2, <1>4, <2>1 DEF TypeOK
<1>6. NestsInParams'
  <2> SUFFICES ASSUME NEW u \in Threads, NEW i \in 1..(Len(active'[u]) - 1)
               PROVE  active'[u][i].pc = "params"
    BY DEF NestsInParams
  <2>1. /\ Len(active[u]) \in Nat /\ Len(active[t]) \in Nat
        /\ Len(active'[u]) = Len(active[u])
    BY <1>1, <1>2
  <2>2. i \in 1..Len(active[u]) /\ i # Len(active[u]) BY <2>1
  <2>3. active[u][i].pc = "params" BY <2>1 DEF NestsInParams
  <2> QED BY <1>3, <2>2, <2>3
<1>7. CheckStillHolds'
  <2> SUFFICES ASSUME NEW u \in Threads, NEW i \in 1..Len(active'[u])
               PROVE  /\ u \in MayThrow[active'[u][i].x]
                      /\ active'[u][i].pc \in Late => active'[u][i].x \in Writable'
    BY DEF CheckStillHolds
  <2>1. i \in 1..Len(active[u]) BY <1>2
  <2>2. /\ u \in MayThrow[active[u][i].x]
        /\ active[u][i].pc \in Late => active[u][i].x \in Writable
    BY <2>1 DEF CheckStillHolds
  <2>3. Writable' = Writable BY DEF Writable
  <2>4. CASE active'[u][i].pc = active[u][i].pc BY <1>3, <2>1, <2>2, <2>3, <2>4
  <2>5. CASE u = t /\ i = Len(active[t]) /\ active'[u][i].pc = pc
    <3>1. Top(t) = active[u][i] BY <2>5 DEF Top
    <3> QED BY <1>3, <2>1, <2>2, <2>3, <2>5, <3>1
  <2> QED BY <1>3, <2>1, <2>4, <2>5
<1> QED BY <1>5, <1>6, <1>7

\* A callback that ends.
LEMMA ReturnIInv ==
  ASSUME IInv, NEW t \in Threads, active[t] # <<>>, NEW how \in How,
         Return(t, how), UNCHANGED msg, analyzer' \in BOOLEAN
  PROVE  IInv'
<1> USE DEF IInv
<1>1. active \in [Threads -> Seq(Activation)] BY DEF TypeOK
<1>2. /\ active' \in [Threads -> Seq(Activation)]
      /\ \A u \in Threads :
           /\ Len(active'[u]) = IF u = t THEN Len(active[u]) - 1 ELSE Len(active[u])
           /\ \A i \in 1..Len(active'[u]) : active'[u][i] = active[u][i]
      /\ throws' \in Seq(Thrown)
      /\ Len(throws') = Len(throws)
  BY ReturnActive
<1>3. ASSUME NEW u \in Threads
      PROVE  /\ Len(active[u]) \in Nat /\ Len(active'[u]) \in Nat
             /\ Len(active'[u]) <= Len(active[u])
  <2>1. Len(active[u]) \in Nat /\ Len(active'[u]) \in Nat BY <1>1, <1>2
  <2> QED BY <1>2, <2>1
<1>4. ASSUME NEW u \in Threads, NEW i \in 1..Len(active'[u])
      PROVE  i \in 1..Len(active[u]) /\ active'[u][i] = active[u][i]
  BY <1>2, <1>3
<1>5. TypeOK'
  <2>1. \A u \in Threads : \A i \in 1..Len(active'[u]) :
          active'[u][i].n \in 1..Len(throws')
    BY <1>2, <1>4 DEF TypeOK
  <2> QED BY <1>2, <2>1 DEF TypeOK
<1>6. NestsInParams'
  <2> SUFFICES ASSUME NEW u \in Threads, NEW i \in 1..(Len(active'[u]) - 1)
               PROVE  active'[u][i].pc = "params"
    BY DEF NestsInParams
  <2>1. i \in 1..Len(active'[u]) /\ i \in 1..(Len(active[u]) - 1) BY <1>3
  <2> QED BY <1>4, <2>1 DEF NestsInParams
<1>7. CheckStillHolds'
  <2> SUFFICES ASSUME NEW u \in Threads, NEW i \in 1..Len(active'[u])
               PROVE  /\ u \in MayThrow[active'[u][i].x]
                      /\ active'[u][i].pc \in Late => active'[u][i].x \in Writable'
    BY DEF CheckStillHolds
  <2>1. Writable' = Writable BY DEF Writable
  <2> QED BY <1>4, <2>1 DEF CheckStillHolds
<1> QED BY <1>5, <1>6, <1>7

\* The write: of the other callbacks that have checked, none has checked this
\* exception unless another thread throws it too.
LEMMA PutIInv ==
  ASSUME IInv, NEW t \in Threads, PutField(t)
  PROVE  /\ IInv'
         /\ Top(t).x \in Writable
         /\ msg' = [msg EXCEPT ![Top(t).x] = Top(t).n]
<1> DEFINE k == Len(active[t])
           y == Top(t).x
<1> USE DEF IInv
<1>1. /\ active \in [Threads -> Seq(Activation)]
      /\ throws \in Seq(Thrown) /\ msg \in [Exceptions -> Message]
  BY DEF TypeOK
<1>2. /\ active[t] # <<>> /\ Top(t).pc = "put" /\ Goto(t, "params")
      /\ msg' = [msg EXCEPT ![y] = Top(t).n]
      /\ analyzer' = analyzer
  BY DEF PutField, At
<1>3. k \in Nat /\ k \in 1..k /\ Top(t) = active[t][k] BY <1>1, <1>2 DEF Top
<1>4. y \in Writable /\ t \in MayThrow[y]
  BY <1>2, <1>3 DEF CheckStillHolds, Late
<1>5. y \in Npe /\ y \in Exceptions BY <1>4, ExceptionsAssumption DEF Writable
<1>6. Top(t).n \in Nat /\ Top(t).n >= 1
  <2>1. active[t][k].n \in 1..Len(throws) BY <1>3 DEF TypeOK
  <2>2. Len(throws) \in Nat BY <1>1
  <2> QED BY <1>3, <2>1, <2>2
<1>7. /\ active' \in [Threads -> Seq(Activation)]
      /\ \A u \in Threads :
           /\ Len(active'[u]) = Len(active[u])
           /\ \A i \in 1..Len(active[u]) :
                active'[u][i] = IF u = t /\ i = Len(active[t])
                                THEN [active[u][i] EXCEPT !.pc = "params"]
                                ELSE active[u][i]
  BY <1>2, GotoActive DEF PC
<1>8. ASSUME NEW u \in Threads, NEW i \in 1..Len(active[u])
      PROVE  /\ active'[u][i].n = active[u][i].n
             /\ active'[u][i].x = active[u][i].x
             /\ \/ active'[u][i].pc = active[u][i].pc
                \/ active'[u][i].pc = "params"
             /\ u = t /\ i = k => active'[u][i].pc = "params"
  <2>1. active[u][i] \in Activation BY <1>1
  <2>2. CASE u = t /\ i = k
    <3>1. active'[u][i] = [active[u][i] EXCEPT !.pc = "params"]
      BY <1>7, <2>2
    <3> QED BY <2>1, <3>1 DEF Activation
  <2>3. CASE ~(u = t /\ i = k)
    <3>1. active'[u][i] = active[u][i] BY <1>7, <2>3
    <3> QED BY <2>3, <3>1
  <2> QED BY <2>2, <2>3
<1>9. throws' = throws BY <1>2 DEF Goto
<1>10. TypeOK'
  <2>1. ASSUME NEW u \in Threads, NEW i \in 1..Len(active'[u])
        PROVE  active'[u][i].n \in 1..Len(throws')
    <3>1. i \in 1..Len(active[u]) BY <1>7
    <3>2. active[u][i].n \in 1..Len(throws) BY <3>1 DEF TypeOK
    <3> QED BY <1>8, <1>9, <3>1, <3>2
  <2>2. Top(t).n \in Message BY <1>6 DEF Message
  <2>3. msg' = [msg EXCEPT ![Top(t).x] = Top(t).n] BY <1>2
  <2>4. msg' \in [Exceptions -> Message] BY <1>1, <2>2, <2>3
  <2> QED BY <1>1, <1>2, <1>7, <1>9, <2>1, <2>4 DEF TypeOK
<1>11. NestsInParams'
  <2> SUFFICES ASSUME NEW u \in Threads, NEW i \in 1..(Len(active'[u]) - 1)
               PROVE  active'[u][i].pc = "params"
    BY DEF NestsInParams
  <2>1. Len(active[u]) \in Nat /\ Len(active'[u]) = Len(active[u])
    BY <1>1, <1>7
  <2>2. i \in 1..Len(active[u]) BY <2>1
  <2>3. active[u][i].pc = "params" BY <2>1 DEF NestsInParams
  <2> QED BY <1>8, <2>2, <2>3
<1>12. CheckStillHolds'
  <2> SUFFICES ASSUME NEW u \in Threads, NEW i \in 1..Len(active'[u])
               PROVE  /\ u \in MayThrow[active'[u][i].x]
                      /\ active'[u][i].pc \in Late => active'[u][i].x \in Writable'
    BY DEF CheckStillHolds
  <2>1. i \in 1..Len(active[u]) BY <1>7
  <2>2. /\ u \in MayThrow[active[u][i].x]
        /\ active[u][i].pc \in Late => active[u][i].x \in Writable
    BY <2>1 DEF CheckStillHolds
  <2>3. u \in MayThrow[active'[u][i].x] BY <1>8, <2>1, <2>2
  <2>4. ASSUME active'[u][i].pc \in Late
        PROVE  active'[u][i].x \in Writable'
    <3>1. active'[u][i].pc # "params" BY <2>4 DEF Late
    <3>2. active[u][i].pc \in Late /\ ~(u = t /\ i = k)
      BY <1>8, <2>1, <2>4, <3>1
    <3>3. active[u][i].x \in Writable BY <2>2, <3>2
    <3>4. CASE active[u][i].x # y
      <4>1. active[u][i].x \in Exceptions
        BY <3>3, ExceptionsAssumption DEF Writable
      <4>2. msg'[active[u][i].x] = msg[active[u][i].x]
        BY <1>1, <1>2, <1>5, <3>4, <4>1
      <4> QED BY <1>8, <2>1, <3>3, <4>2 DEF Writable
    <3>5. CASE active[u][i].x = y
      <4>1. msg'[y] # Constructed
        BY <1>1, <1>2, <1>5, <1>6 DEF Constructed
      <4>2. ~Confined
        <5>1. u # t
          <6>1. ASSUME i # k, u = t PROVE i \in 1..(Len(active[t]) - 1)
            <7>1. k \in Nat /\ i \in 1..k /\ i # k BY <1>3, <2>1, <6>1
            <7>2. \A m \in Nat : \A j \in 1..m : j # m => j \in 1..(m - 1) OBVIOUS
            <7> QED BY <7>1, <7>2, Zenon
          <6>2. u = t => active[u][i].pc = "params"
            BY <3>2, <6>1 DEF NestsInParams
          <6> QED BY <3>2, <6>2 DEF Late
        <5>2. u \in MayThrow[y] BY <2>2, <3>5
        <5> QED BY <1>4, <1>5, <5>1, <5>2 DEF Confined
      <4>3. y \in Writable' BY <1>5, <4>1, <4>2 DEF Writable
      <4> QED BY <1>8, <2>1, <3>5, <4>3
    <3> QED BY <3>4, <3>5
  <2> QED BY <2>3, <2>4
<1> QED BY <1>2, <1>4, <1>10, <1>11, <1>12

\* Every step but the write leaves the messages alone.
LEMMA StepIInv ==
  ASSUME IInv, [Next]_vars
  PROVE  /\ IInv'
         /\ \/ UNCHANGED msg
            \/ \E t \in Threads : /\ Top(t).x \in Writable
                                  /\ Top(t).n \in Nat \ {0}
                                  /\ msg' = [msg EXCEPT ![Top(t).x] = Top(t).n]
<1>1. CASE UNCHANGED vars
  BY <1>1 DEF vars, IInv, TypeOK, NestsInParams, CheckStillHolds, Writable
<1>2. ASSUME NEW t \in Threads, NEW x \in Exceptions, NEW site \in Site,
             Enter(t, x, site)
      PROVE  IInv' /\ UNCHANGED msg
  BY <1>2, EnterIInv DEF Enter
<1>3. ASSUME NEW t \in Threads, PutField(t)
      PROVE  /\ IInv' /\ Top(t).x \in Writable /\ Top(t).n \in Nat \ {0}
             /\ msg' = [msg EXCEPT ![Top(t).x] = Top(t).n]
  <2>1. Top(t).n \in Nat \ {0}
    <3>1. active[t] # <<>> /\ active[t] \in Seq(Activation)
      BY <1>3 DEF PutField, At, IInv, TypeOK
    <3>2. Top(t) \in Activation BY <3>1 DEF Top
    <3> QED BY <3>2 DEF Activation
  <2> QED BY <1>3, <2>1, PutIInv
<1>4. ASSUME NEW t \in Threads,
             \/ Filter(t) \/ ReadMessage(t) \/ Analyse(t) \/ LookupLogger(t)
             \/ CreateLogger(t) \/ PrintParams(t) \/ Fail(t)
      PROVE  IInv' /\ UNCHANGED msg
  <2>1. /\ active[t] # <<>> /\ UNCHANGED msg /\ analyzer' \in BOOLEAN
    BY <1>4 DEF Filter, ReadMessage, Analyse, LookupLogger, CreateLogger,
                PrintParams, Fail, At, IInv, TypeOK
  <2>2. CASE \E how \in How : Return(t, how)
    BY <2>1, <2>2, ReturnIInv
  <2>3. CASE \E pc \in PC :
               /\ Goto(t, pc)
               /\ pc \in Late => Top(t).pc \in Late \/ Top(t).x \in Writable
    BY <2>1, <2>3, GotoIInv
  <2>4. CASE Filter(t)
    <3>1. Return(t, "filtered") \/ Goto(t, "read") BY <2>4 DEF Filter
    <3> QED BY <2>2, <2>3, <3>1, <2>1 DEF How, PC, Late
  <2>5. CASE ReadMessage(t)
    <3>1. \/ Return(t, "not an NPE") \/ Return(t, "has message")
          \/ /\ Goto(t, "analyse")
             /\ Top(t).x \in Npe /\ msg[Top(t).x] = NoMessage
      BY <2>5 DEF ReadMessage
    <3>2. Top(t).x \in Npe /\ msg[Top(t).x] = NoMessage => Top(t).x \in Writable
      BY DEF Writable, NoMessage, Constructed
    <3> QED BY <2>1, <2>2, <2>3, <3>1, <3>2 DEF How, PC
  <2>6. CASE Analyse(t)
    <3>1. /\ Goto(t, "lookup") \/ Goto(t, "put")
          /\ Top(t).pc \in Late
      BY <2>6 DEF Analyse, At, Late
    <3> QED BY <2>1, <2>3, <3>1 DEF PC
  <2>7. CASE LookupLogger(t)
    <3>1. /\ Goto(t, "create") \/ Goto(t, "put")
          /\ Top(t).pc \in Late
      BY <2>7 DEF LookupLogger, At, Late
    <3> QED BY <2>1, <2>3, <3>1 DEF PC
  <2>8. CASE CreateLogger(t)
    <3>1. /\ Return(t, "no logger") \/ Goto(t, "put")
          /\ Top(t).pc \in Late
      BY <2>8 DEF CreateLogger, At, Late
    <3> QED BY <2>1, <2>2, <2>3, <3>1 DEF PC, How
  <2>9. CASE PrintParams(t) \/ Fail(t)
    <3>1. Return(t, "annotated") \/ Return(t, "failed")
      BY <2>9 DEF PrintParams, Fail
    <3> QED BY <2>1, <2>2, <3>1 DEF How
  <2> QED BY <1>4, <2>1, <2>4, <2>5, <2>6, <2>7, <2>8, <2>9
<1> QED BY <1>1, <1>2, <1>3, <1>4 DEF Next, Throw, Step

\* Type correctness, and the check that still holds when the message is
\* written.
THEOREM Inductive == Spec => []IInv
BY InitIInv, StepIInv, PTL DEF Spec

\* No throw, in any thread, ever changes a message given to the constructor.
THEOREM ConstructorMessages == Spec => ConstructorMessageKept
<1>1. ASSUME IInv, [Next]_vars
      PROVE  [\A x \in Exceptions : msg[x] = Constructed => msg'[x] = Constructed]_vars
  <2>1. msg \in [Exceptions -> Message] BY <1>1 DEF IInv, TypeOK
  <2>2. CASE UNCHANGED msg BY <2>2
  <2>3. ASSUME NEW t \in Threads, Top(t).x \in Writable,
               msg' = [msg EXCEPT ![Top(t).x] = Top(t).n]
        PROVE  \A x \in Exceptions : msg[x] = Constructed => msg'[x] = Constructed
    BY <2>1, <2>3 DEF Writable
  <2> QED BY <1>1, <2>2, <2>3, StepIInv
<1> QED BY <1>1, Inductive, PTL DEF Spec, ConstructorMessageKept

\* Nor any message at all, while every NPE stays in one thread.
THEOREM FirstMessages ==
  ASSUME Confined PROVE Spec => MessageNotOverwritten
<1>1. ASSUME IInv, [Next]_vars
      PROVE  [\A x \in Exceptions : msg[x] # NoMessage => msg'[x] = msg[x]]_vars
  <2>1. msg \in [Exceptions -> Message] BY <1>1 DEF IInv, TypeOK
  <2>2. CASE UNCHANGED msg BY <2>2
  <2>3. ASSUME NEW t \in Threads, Top(t).x \in Writable,
               msg' = [msg EXCEPT ![Top(t).x] = Top(t).n]
        PROVE  \A x \in Exceptions : msg[x] # NoMessage => msg'[x] = msg[x]
    BY <2>1, <2>3 DEF Writable
  <2> QED BY <1>1, <2>2, <2>3, StepIInv
<1> QED BY <1>1, Inductive, PTL DEF Spec, MessageNotOverwritten

-----------------------------------------------------------------------------
(* The callbacks and the throws they are for.                              *)

\* An open callback is that of an open throw, and the only one.
Accounted ==
  /\ \A t \in Threads : \A i \in 1..Len(active[t]) :
       throws[active[t][i].n] = [x |-> active[t][i].x, how |-> "open"]
  /\ \A t, u \in Threads : \A i \in 1..Len(active[t]), j \in 1..Len(active[u]) :
       active[t][i].n = active[u][j].n => t = u /\ i = j

\* The description of a throw is written once its callback has come to the
\* arguments.
WrittenByThen ==
  \A x \in Exceptions :
    /\ msg[x] <= Len(throws)
    /\ \A t \in Threads : \A i \in 1..Len(active[t]) :
         msg[x] = active[t][i].n => active[t][i].pc = "params"

Inv == IInv /\ Accounted /\ WrittenByThen /\ DescribesItsThrow

\* What a step is, as far as the callbacks go.
Moves(t) ==
  \E pc \in PC \ {"params"} : Goto(t, pc) /\ UNCHANGED msg /\ Top(t).pc # "params"

Ends(t) ==
  \E how \in How \ {"open"} :
    /\ Return(t, how) /\ UNCHANGED msg
    /\ Top(t).pc = "params" => how \in {"annotated", "failed"}
    /\ how = "annotated" => Top(t).pc = "params"
    /\ how = "has message" => msg[Top(t).x] # NoMessage
    /\ how = "not an NPE" => Top(t).x \notin Npe

LEMMA StepKinds ==
  ASSUME NEW t \in Threads, Step(t)
  PROVE  /\ active[t] # <<>>
         /\ PutField(t) \/ Moves(t) \/ Ends(t)
<1>1. active[t] # <<>>
  BY DEF Step, Filter, ReadMessage, Analyse, LookupLogger, CreateLogger, PutField,
         PrintParams, Fail, At
<1>2. ASSUME NEW pc \in PC \ {"params"}, Goto(t, pc), UNCHANGED msg, Top(t).pc # "params"
      PROVE  Moves(t)
  BY <1>2 DEF Moves
<1>3. ASSUME NEW how \in How \ {"open"}, Return(t, how), UNCHANGED msg,
             Top(t).pc = "params" => how \in {"annotated", "failed"},
             how = "annotated" => Top(t).pc = "params",
             how = "has message" => msg[Top(t).x] # NoMessage,
             how = "not an NPE" => Top(t).x \notin Npe
      PROVE  Ends(t)
  BY <1>3 DEF Ends
<1>4. CASE Filter(t)
  <2>1. /\ Return(t, "filtered") \/ Goto(t, "read")
        /\ UNCHANGED msg /\ Top(t).pc = "filter"
    BY <1>4 DEF Filter, At
  <2> QED BY <1>1, <1>2, <1>3, <2>1 DEF PC, How
<1>5. CASE ReadMessage(t)
  <2>1. /\ \/ Return(t, "not an NPE") /\ Top(t).x \notin Npe
           \/ Return(t, "has message") /\ msg[Top(t).x] # NoMessage
           \/ Goto(t, "analyse")
        /\ UNCHANGED msg /\ Top(t).pc = "read"
    BY <1>5 DEF ReadMessage, At
  <2> QED BY <1>1, <1>2, <1>3, <2>1 DEF PC, How
<1>6. CASE Analyse(t)
  <2>1. /\ Goto(t, "lookup") \/ Goto(t, "put")
        /\ UNCHANGED msg /\ Top(t).pc = "analyse"
    BY <1>6 DEF Analyse, At
  <2> QED BY <1>1, <1>2, <2>1 DEF PC
<1>7. CASE LookupLogger(t)
  <2>1. /\ Goto(t, "create") \/ Goto(t, "put")
        /\ UNCHANGED msg /\ Top(t).pc = "lookup"
    BY <1>7 DEF LookupLogger, At
  <2> QED BY <1>1, <1>2, <2>1 DEF PC
<1>8. CASE CreateLogger(t)
  <2>1. /\ Return(t, "no logger") \/ Goto(t, "put")
        /\ UNCHANGED msg /\ Top(t).pc = "create"
    BY <1>8 DEF CreateLogger, At
  <2> QED BY <1>1, <1>2, <1>3, <2>1 DEF PC, How
<1>9. CASE PutField(t) BY <1>1, <1>9
<1>10. CASE PrintParams(t) \/ Fail(t)
  <2>1. /\ \/ Return(t, "annotated") /\ Top(t).pc = "params"
           \/ Return(t, "failed")
        /\ UNCHANGED msg
    BY <1>10 DEF PrintParams, Fail, At
  <2> QED BY <1>1, <1>3, <2>1 DEF How
<1> QED BY <1>4, <1>5, <1>6, <1>7, <1>8, <1>9, <1>10 DEF Step

LEMMA InvInit == Init => Inv
<1> SUFFICES ASSUME Init PROVE Inv OBVIOUS
<1>1. \A t \in Threads : active[t] = <<>> BY DEF Init
<1>2. throws = <<>> /\ \A x \in Exceptions : msg[x] \in {0, -1}
  BY DEF Init, NoMessage, Constructed
<1>3. Accounted BY <1>1 DEF Accounted
<1>4. WrittenByThen /\ DescribesItsThrow
  BY <1>1, <1>2 DEF WrittenByThen, DescribesItsThrow
<1> QED BY <1>3, <1>4, InitIInv DEF Inv

LEMMA EnterInv ==
  ASSUME Inv, NEW t \in Threads, NEW x \in Exceptions, NEW site \in Site,
         Enter(t, x, site)
  PROVE  Inv'
<1> DEFINE new == [n |-> Len(throws) + 1, x |-> x, site |-> site, pc |-> "filter"]
<1>1. IInv' BY EnterIInv DEF Inv
<1>2. /\ active \in [Threads -> Seq(Activation)] /\ throws \in Seq(Thrown)
      /\ Len(throws) \in Nat /\ msg \in [Exceptions -> Message]
      /\ \A u \in Threads : \A i \in 1..Len(active[u]) :
           active[u][i].n \in 1..Len(throws)
  BY DEF Inv, IInv, TypeOK
<1>3. /\ active' = [active EXCEPT ![t] = Append(active[t], new)]
      /\ throws' = Append(throws, [x |-> x, how |-> "open"])
      /\ msg' = msg
  BY DEF Enter
<1>4. /\ Len(throws') = Len(throws) + 1
      /\ throws'[Len(throws) + 1] = [x |-> x, how |-> "open"]
      /\ \A n \in 1..Len(throws) : throws'[n] = throws[n]
  BY <1>2, <1>3
<1>5. new.n = Len(throws) + 1 /\ new.x = x OBVIOUS
<1> HIDE DEF new
<1>6. ASSUME NEW u \in Threads, NEW i \in 1..Len(active'[u])
      PROVE  \/ u = t /\ i = Len(active[t]) + 1 /\ active'[u][i] = new
             \/ i \in 1..Len(active[u]) /\ active'[u][i] = active[u][i]
  <2>1. active[t] \in Seq(Activation) /\ active[u] \in Seq(Activation) BY <1>2
  <2>2. CASE u = t BY <1>2, <1>3, <2>1, <2>2
  <2>3. CASE u # t BY <1>2, <1>3, <2>1, <2>3
  <2> QED BY <2>2, <2>3
<1>7. Accounted'
  <2>1. ASSUME NEW u \in Threads, NEW i \in 1..Len(active'[u])
        PROVE  throws'[active'[u][i].n] = [x |-> active'[u][i].x, how |-> "open"]
    <3>1. CASE active'[u][i] = new BY <3>1, <1>4, <1>5
    <3>2. CASE i \in 1..Len(active[u]) /\ active'[u][i] = active[u][i]
      BY <3>2, <1>2, <1>4 DEF Inv, Accounted
    <3> QED BY <3>1, <3>2, <1>6
  <2>2. ASSUME NEW u \in Threads, NEW v \in Threads,
               NEW i \in 1..Len(active'[u]), NEW j \in 1..Len(active'[v]),
               active'[u][i].n = active'[v][j].n
        PROVE  u = v /\ i = j
    <3>1. \/ u = t /\ i = Len(active[t]) + 1 /\ active'[u][i].n = Len(throws) + 1
          \/ /\ i \in 1..Len(active[u]) /\ active'[u][i] = active[u][i]
             /\ active'[u][i].n \in 1..Len(throws)
      BY <1>2, <1>5, <1>6
    <3>2. \/ v = t /\ j = Len(active[t]) + 1 /\ active'[v][j].n = Len(throws) + 1
          \/ /\ j \in 1..Len(active[v]) /\ active'[v][j] = active[v][j]
             /\ active'[v][j].n \in 1..Len(throws)
      BY <1>2, <1>5, <1>6
    <3>3. Len(throws) + 1 \notin 1..Len(throws) BY <1>2
    <3>4. CASE u = t /\ i = Len(active[t]) + 1 /\ active'[u][i].n = Len(throws) + 1
      BY <2>2, <3>2, <3>3, <3>4
    <3>5. CASE /\ i \in 1..Len(active[u]) /\ active'[u][i] = active[u][i]
               /\ active'[u][i].n \in 1..Len(throws)
      <4>1. /\ j \in 1..Len(active[v]) /\ active'[v][j] = active[v][j]
        BY <2>2, <3>2, <3>3, <3>5
      <4>2. active[u][i].n = active[v][j].n BY <2>2, <3>5, <4>1
      <4> QED BY <3>5, <4>1, <4>2 DEF Inv, Accounted
    <3> QED BY <3>1, <3>4, <3>5
  <2> QED BY <2>1, <2>2 DEF Accounted
<1>8. \A y \in Exceptions : msg[y] \in Int /\ msg[y] <= Len(throws)
  BY <1>2 DEF Inv, WrittenByThen, Message, NoMessage, Constructed
<1>9. WrittenByThen'
  <2>1. ASSUME NEW y \in Exceptions, NEW u \in Threads, NEW i \in 1..Len(active'[u]),
               msg[y] = active'[u][i].n
        PROVE  active'[u][i].pc = "params"
    <3>1. active'[u][i].n # Len(throws) + 1 BY <1>2, <1>8, <2>1
    <3>2. i \in 1..Len(active[u]) /\ active'[u][i] = active[u][i]
      BY <1>5, <1>6, <3>1
    <3> QED BY <2>1, <3>2 DEF Inv, WrittenByThen
  <2>2. \A y \in Exceptions : msg[y] <= Len(throws') BY <1>2, <1>4, <1>8
  <2> QED BY <1>3, <2>1, <2>2 DEF WrittenByThen
<1>10. DescribesItsThrow'
  BY <1>2, <1>3, <1>4, <1>8 DEF Inv, DescribesItsThrow
<1> QED BY <1>1, <1>7, <1>9, <1>10 DEF Inv

LEMMA MoveInv ==
  ASSUME Inv, NEW t \in Threads, active[t] # <<>>, Moves(t)
  PROVE  Accounted' /\ WrittenByThen' /\ DescribesItsThrow'
<1>1. PICK pc \in PC : Goto(t, pc) /\ UNCHANGED msg /\ Top(t).pc # "params"
  BY DEF Moves
<1>2. UNCHANGED <<msg, throws>> BY <1>1 DEF Goto
<1>3. active[t] \in Seq(Activation) BY DEF Inv, IInv, TypeOK
<1>4. /\ \A u \in Threads : Len(active'[u]) = Len(active[u])
      /\ \A u \in Threads : \A i \in 1..Len(active[u]) :
           active'[u][i] = IF u = t /\ i = Len(active[t])
                           THEN [active[u][i] EXCEPT !.pc = pc] ELSE active[u][i]
  BY <1>1, GotoActive DEF Inv, IInv
<1>5. \A u \in Threads : \A i \in 1..Len(active[u]) : active[u][i] \in Activation
  BY DEF Inv, IInv, TypeOK
<1>6. ASSUME NEW u \in Threads, NEW i \in 1..Len(active[u])
      PROVE  /\ active'[u][i].n = active[u][i].n /\ active'[u][i].x = active[u][i].x
             /\ active[u][i].pc = "params" => active'[u][i].pc = "params"
  <2> DEFINE a == active[u][i]
  <2>1. a \in Activation BY <1>5
  <2>2. CASE u = t /\ i = Len(active[t])
    <3>1. active'[u][i] = [a EXCEPT !.pc = pc] BY <1>4, <2>2
    <3>2. a.pc # "params" BY <1>1, <2>2 DEF Top
    <3> HIDE DEF a
    <3>3. [a EXCEPT !.pc = pc].n = a.n /\ [a EXCEPT !.pc = pc].x = a.x
      BY <2>1 DEF Activation
    <3> QED BY <3>1, <3>2, <3>3 DEF a
  <2>3. CASE ~(u = t /\ i = Len(active[t])) BY <1>4, <2>3
  <2> QED BY <2>2, <2>3
<1>7. Accounted' BY <1>2, <1>4, <1>6 DEF Inv, Accounted
<1>8. WrittenByThen' BY <1>2, <1>4, <1>6 DEF Inv, WrittenByThen
<1>9. DescribesItsThrow' BY <1>2 DEF Inv, DescribesItsThrow
<1> QED BY <1>7, <1>8, <1>9

LEMMA EndInv ==
  ASSUME Inv, NEW t \in Threads, active[t] # <<>>, Ends(t)
  PROVE  /\ Accounted' /\ WrittenByThen' /\ DescribesItsThrow'
         /\ Top(t).n \in 1..Len(throws) /\ throws[Top(t).n].how = "open"
         /\ msg' = msg /\ Len(throws') = Len(throws)
         /\ throws'[Top(t).n].how # "open" /\ throws'[Top(t).n].x = throws[Top(t).n].x
         /\ \A n \in 1..Len(throws) : n # Top(t).n => throws'[n] = throws[n]
<1> DEFINE k == Len(active[t])
           a == active[t][k]
<1>1. PICK how \in How \ {"open"} :
        /\ Return(t, how) /\ UNCHANGED msg
        /\ Top(t).pc = "params" => how \in {"annotated", "failed"}
  BY DEF Ends
<1>2. /\ active \in [Threads -> Seq(Activation)] /\ throws \in Seq(Thrown)
      /\ msg \in [Exceptions -> Message] /\ active[t] \in Seq(Activation)
      /\ k \in 1..Len(active[t]) /\ a \in Activation /\ Top(t) = a
  BY DEF Inv, IInv, TypeOK, Top
<1>3. \A u \in Threads : \A i \in 1..Len(active[u]) : active[u][i].n \in 1..Len(throws)
  BY DEF Inv, IInv, TypeOK
<1>4. a.n \in 1..Len(throws) /\ throws[a.n] = [x |-> a.x, how |-> "open"]
  BY <1>2, <1>3 DEF Inv, Accounted
<1>5. /\ Len(throws') = Len(throws)
      /\ throws'[a.n] = [throws[a.n] EXCEPT !.how = how]
      /\ \A n \in 1..Len(throws) : n # a.n => throws'[n] = throws[n]
  BY <1>1, <1>2, <1>4 DEF Return
<1>6. throws'[a.n] = [x |-> a.x, how |-> how] BY <1>4, <1>5
<1>7. \A u \in Threads :
        /\ Len(active'[u]) = IF u = t THEN k - 1 ELSE Len(active[u])
        /\ \A i \in 1..Len(active'[u]) : active'[u][i] = active[u][i]
  BY <1>1, ReturnActive DEF Inv, IInv
<1>8. ASSUME NEW u \in Threads, NEW i \in 1..Len(active'[u])
      PROVE  /\ i \in 1..Len(active[u]) /\ active'[u][i] = active[u][i]
             /\ active[u][i].n # a.n
  <2>1. i \in 1..Len(active[u]) /\ (u = t => i # k) /\ active'[u][i] = active[u][i]
    <3>1. Len(active[u]) \in Nat /\ k \in Nat BY <1>2
    <3> QED BY <1>7, <3>1
  <2>2. active[u][i].n # a.n
    <3> SUFFICES ASSUME active[u][i].n = active[t][k].n PROVE FALSE OBVIOUS
    <3>1. u = t /\ i = k BY <1>2, <2>1 DEF Inv, Accounted
    <3> QED BY <2>1, <3>1
  <2> HIDE DEF a
  <2> QED BY <2>1, <2>2
<1>9. Accounted'
  <2>1. ASSUME NEW u \in Threads, NEW i \in 1..Len(active'[u])
        PROVE  throws'[active'[u][i].n] = [x |-> active'[u][i].x, how |-> "open"]
    <3> DEFINE b == active[u][i]
    <3>1. /\ i \in 1..Len(active[u]) /\ active'[u][i] = b
          /\ b.n # a.n /\ b.n \in 1..Len(throws)
      BY <1>3, <1>8
    <3>2. throws[b.n] = [x |-> b.x, how |-> "open"] BY <3>1 DEF Inv, Accounted
    <3> HIDE DEF a, b
    <3> QED BY <1>5, <3>1, <3>2
  <2>2. ASSUME NEW u \in Threads, NEW v \in Threads,
               NEW i \in 1..Len(active'[u]), NEW j \in 1..Len(active'[v]),
               active'[u][i].n = active'[v][j].n
        PROVE  u = v /\ i = j
    <3>1. i \in 1..Len(active[u]) /\ j \in 1..Len(active[v]) BY <1>8
    <3>2. active'[u][i] = active[u][i] /\ active'[v][j] = active[v][j] BY <1>8
    <3>3. active[u][i].n = active[v][j].n BY <2>2, <3>2
    <3> QED BY <3>1, <3>3 DEF Inv, Accounted
  <2> QED BY <2>1, <2>2 DEF Accounted
<1>10. WrittenByThen' BY <1>1, <1>5, <1>8 DEF Inv, WrittenByThen
<1>11. DescribesItsThrow'
  <2> SUFFICES ASSUME NEW x \in Exceptions, msg[x] > 0
               PROVE  /\ x \in Npe /\ throws'[msg[x]].x = x
                      /\ throws'[msg[x]].how \in {"open", "annotated", "failed"}
    BY <1>1 DEF DescribesItsThrow
  <2>1. /\ x \in Npe /\ throws[msg[x]].x = x
        /\ throws[msg[x]].how \in {"open", "annotated", "failed"}
        /\ msg[x] \in 1..Len(throws)
    BY <1>2 DEF Inv, DescribesItsThrow, WrittenByThen, Message, NoMessage, Constructed
  <2>2. CASE msg[x] = a.n
    <3>1. a.pc = "params" BY <1>2, <2>2 DEF Inv, WrittenByThen
    <3> QED BY <1>1, <1>2, <1>4, <1>6, <2>1, <2>2, <3>1
  <2>3. CASE msg[x] # a.n BY <1>5, <2>1, <2>3
  <2> QED BY <2>2, <2>3
<1> QED BY <1>1, <1>2, <1>4, <1>5, <1>6, <1>9, <1>10, <1>11

LEMMA PutInv ==
  ASSUME Inv, NEW t \in Threads, PutField(t)
  PROVE  /\ Inv'
         /\ Top(t).n \in 1..Len(throws)
         /\ throws[Top(t).n] = [x |-> Top(t).x, how |-> "open"]
<1> DEFINE k == Len(active[t])
           a == active[t][k]
<1>1. IInv' /\ a.x \in Writable /\ msg' = [msg EXCEPT ![a.x] = a.n]
  BY PutIInv DEF Inv, Top
<1>2. /\ active[t] # <<>> /\ Goto(t, "params") /\ throws' = throws
  BY DEF PutField, At, Goto
<1>3. /\ active \in [Threads -> Seq(Activation)] /\ throws \in Seq(Thrown)
      /\ msg \in [Exceptions -> Message] /\ active[t] \in Seq(Activation)
      /\ k \in 1..Len(active[t]) /\ a \in Activation /\ Top(t) = a
  BY <1>2 DEF Inv, IInv, TypeOK, Top
<1>4. a.n \in 1..Len(throws) /\ throws[a.n] = [x |-> a.x, how |-> "open"]
  BY <1>3 DEF Inv, Accounted, IInv, TypeOK
<1>5. a.x \in Npe /\ a.x \in Exceptions
  BY <1>1, ExceptionsAssumption DEF Writable
<1>6. /\ \A u \in Threads : Len(active'[u]) = Len(active[u])
      /\ \A u \in Threads : \A i \in 1..Len(active[u]) :
           active'[u][i] = IF u = t /\ i = Len(active[t])
                           THEN [active[u][i] EXCEPT !.pc = "params"] ELSE active[u][i]
  BY <1>2, GotoActive DEF Inv, IInv, PC
<1>7. \A u \in Threads : \A i \in 1..Len(active[u]) : active[u][i] \in Activation
  BY <1>3
<1>8. ASSUME NEW u \in Threads, NEW i \in 1..Len(active[u])
      PROVE  /\ active'[u][i].n = active[u][i].n /\ active'[u][i].x = active[u][i].x
             /\ active[u][i].pc = "params" => active'[u][i].pc = "params"
             /\ u = t /\ i = k => active'[u][i].pc = "params"
  <2> DEFINE b == active[u][i]
  <2>1. b \in Activation BY <1>7
  <2>2. CASE u = t /\ i = Len(active[t])
    <3>1. active'[u][i] = [b EXCEPT !.pc = "params"] BY <1>6, <2>2
    <3> HIDE DEF b
    <3>2. /\ [b EXCEPT !.pc = "params"].n = b.n /\ [b EXCEPT !.pc = "params"].x = b.x
          /\ [b EXCEPT !.pc = "params"].pc = "params"
      BY <2>1 DEF Activation
    <3> QED BY <3>1, <3>2 DEF b
  <2>3. CASE ~(u = t /\ i = Len(active[t])) BY <1>6, <2>3
  <2> QED BY <2>2, <2>3
<1> HIDE DEF a
<1>9. /\ msg'[a.x] = a.n
      /\ \A y \in Exceptions : y # a.x => msg'[y] = msg[y]
  BY <1>1, <1>3, <1>5
<1>10. Accounted' BY <1>2, <1>6, <1>8 DEF Inv, Accounted
<1>11. WrittenByThen'
  <2>1. ASSUME NEW y \in Exceptions
        PROVE  /\ msg'[y] <= Len(throws')
               /\ \A u \in Threads : \A i \in 1..Len(active'[u]) :
                    msg'[y] = active'[u][i].n => active'[u][i].pc = "params"
    <3>1. CASE y # a.x BY <1>2, <1>6, <1>8, <1>9, <3>1 DEF Inv, WrittenByThen
    <3>2. CASE y = a.x
      <4>1. ASSUME NEW u \in Threads, NEW i \in 1..Len(active[u]), a.n = active'[u][i].n
            PROVE  active'[u][i].pc = "params"
        <5>1. active[u][i].n = active[t][k].n BY <1>8, <4>1 DEF a
        <5>2. u = t /\ i = k BY <1>3, <5>1 DEF Inv, Accounted
        <5> QED BY <1>8, <5>2
      <4>2. a.n <= Len(throws') BY <1>2, <1>3, <1>4
      <4> QED BY <1>6, <1>9, <3>2, <4>1, <4>2
    <3> QED BY <3>1, <3>2
  <2> QED BY <2>1 DEF WrittenByThen
<1>12. DescribesItsThrow'
  <2> SUFFICES ASSUME NEW x \in Exceptions, msg'[x] > 0
               PROVE  /\ x \in Npe /\ throws[msg'[x]].x = x
                      /\ throws[msg'[x]].how \in {"open", "annotated", "failed"}
    BY <1>2 DEF DescribesItsThrow
  <2>1. CASE x = a.x BY <1>4, <1>5, <1>9, <2>1
  <2>2. CASE x # a.x BY <1>9, <2>2 DEF Inv, DescribesItsThrow
  <2> QED BY <2>1, <2>2
<1> QED BY <1>1, <1>3, <1>4, <1>10, <1>11, <1>12 DEF Inv

LEMMA StepInv == Inv /\ [Next]_vars => Inv'
<1> SUFFICES ASSUME Inv, [Next]_vars PROVE Inv' OBVIOUS
<1>1. IInv' BY StepIInv DEF Inv
<1>2. CASE UNCHANGED vars
  BY <1>1, <1>2, SMTT(30) DEF vars, Inv, Accounted, WrittenByThen, DescribesItsThrow
<1>3. ASSUME NEW t \in Threads, Throw(t) PROVE Inv'
  BY <1>3, EnterInv DEF Throw
<1>4. ASSUME NEW t \in Threads, Step(t) PROVE Inv'
  <2>1. active[t] # <<>> /\ (PutField(t) \/ Moves(t) \/ Ends(t)) BY <1>4, StepKinds
  <2>2. CASE PutField(t) BY <2>2, PutInv
  <2>3. CASE Moves(t) BY <1>1, <2>1, <2>3, MoveInv DEF Inv
  <2>4. CASE Ends(t) BY <1>1, <2>1, <2>4, EndInv DEF Inv
  <2> QED BY <2>1, <2>2, <2>3, <2>4
<1> QED BY <1>2, <1>3, <1>4 DEF Next

\* What the agent writes into an exception is about a throw of that exception,
\* an NPE, whose callback passed the filter.
THEOREM Described == Spec => []DescribesItsThrow
<1>1. Inv => DescribesItsThrow BY DEF Inv
<1> QED BY <1>1, InvInit, StepInv, PTL DEF Spec
-----------------------------------------------------------------------------
(* The callbacks do what Annotations says.                                 *)

thrownNow == [n \in DOMAIN throws |-> throws[n].x]

openNow == {n \in DOMAIN throws : throws[n].how = "open"}

LEMMA InitMaps == Init => Reports!Init
<1> SUFFICES ASSUME Init PROVE Reports!Init OBVIOUS
<1>1. throws = <<>> /\ msg \in [Exceptions -> {0, -1}]
  BY DEF Init, NoMessage, Constructed
<1>2. thrownNow = <<>> BY <1>1 DEF thrownNow
<1>3. openNow = {} BY <1>1 DEF openNow
<1> QED BY <1>1, <1>2, <1>3 DEF Reports!Init, thrownNow, openNow

LEMMA EnterMaps ==
  ASSUME TypeOK, NEW t \in Threads, NEW x \in Exceptions, NEW site \in Site,
         Enter(t, x, site)
  PROVE  Reports!Throw(x)
<1>1. throws \in Seq(Thrown) /\ Len(throws) \in Nat BY DEF TypeOK
<1>2. throws' = Append(throws, [x |-> x, how |-> "open"]) /\ msg' = msg BY DEF Enter
<1>3. /\ DOMAIN throws = 1..Len(throws)
      /\ DOMAIN throws' = 1..(Len(throws) + 1)
      /\ throws'[Len(throws) + 1] = [x |-> x, how |-> "open"]
      /\ \A n \in 1..Len(throws) : throws'[n] = throws[n]
  BY <1>1, <1>2
<1>4. thrownNow \in Seq(Exceptions) /\ Len(thrownNow) = Len(throws)
  <2>1. ASSUME NEW n \in 1..Len(throws) PROVE throws[n].x \in Exceptions
    <3>1. throws[n] \in Thrown BY <1>1
    <3> QED BY <3>1 DEF Thrown
  <2>2. thrownNow = [n \in 1..Len(throws) |-> throws[n].x] BY <1>3 DEF thrownNow
  <2> QED BY <1>1, <2>1, <2>2
<1>5. thrownNow' = Append(thrownNow, x)
  <2>1. thrownNow' = [n \in 1..(Len(throws) + 1) |-> throws'[n].x]
    BY <1>3 DEF thrownNow
  <2>2. \A n \in 1..Len(throws) : thrownNow'[n] = thrownNow[n]
    BY <1>1, <1>3, <2>1 DEF thrownNow
  <2>3. thrownNow'[Len(throws) + 1] = x BY <1>1, <1>3, <2>1
  <2> DEFINE longer == Append(thrownNow, x)
  <2>4. /\ longer \in Seq(Exceptions) /\ Len(longer) = Len(throws) + 1
        /\ longer[Len(throws) + 1] = x
        /\ \A n \in 1..Len(throws) : longer[n] = thrownNow[n]
    BY <1>1, <1>4
  <2> HIDE DEF longer
  <2>5. longer = [n \in 1..(Len(throws) + 1) |-> longer[n]] BY <1>1, <2>4
  <2>6. \A n \in 1..(Len(throws) + 1) : thrownNow'[n] = longer[n]
    BY <1>1, <2>2, <2>3, <2>4
  <2>7. thrownNow' = longer BY <2>1, <2>5, <2>6
  <2> QED BY <2>7 DEF longer
<1>6. openNow' = openNow \cup {Len(thrownNow')}
  <2>1. Len(thrownNow') = Len(throws) + 1 BY <1>1, <1>4, <1>5
  <2> QED BY <1>1, <1>3, <2>1 DEF openNow
<1> QED BY <1>2, <1>5, <1>6, Zenon DEF Reports!Throw, thrownNow, openNow

LEMMA PutMaps ==
  ASSUME Confined, Inv, NEW t \in Threads, PutField(t)
  PROVE  \E n \in openNow : Reports!Annotate(n)
<1> DEFINE a == Top(t)
<1>1. a.x \in Writable /\ msg' = [msg EXCEPT ![a.x] = a.n]
  BY PutIInv DEF Inv
<1>2. throws' = throws BY DEF PutField, Goto
<1>3. a.n \in 1..Len(throws) /\ throws[a.n] = [x |-> a.x, how |-> "open"] BY PutInv
<1>4. DOMAIN throws = 1..Len(throws) BY DEF Inv, IInv, TypeOK
<1> HIDE DEF a
<1>5. a.x \in Npe /\ msg[a.x] = 0 BY <1>1 DEF Writable, NoMessage
<1>6. a.n \in openNow BY <1>3, <1>4 DEF openNow
<1>7. thrownNow[a.n] = a.x BY <1>3, <1>4 DEF thrownNow
<1>8. Reports!Annotate(a.n)
  BY <1>1, <1>2, <1>5, <1>7 DEF Reports!Annotate, thrownNow, openNow
<1> QED BY <1>6, <1>8

LEMMA EndMaps ==
  ASSUME Inv, NEW t \in Threads, active[t] # <<>>, Ends(t)
  PROVE  \E n \in openNow : Reports!Deliver(n)
<1> SUFFICES ASSUME NEW m, m = Top(t).n
             PROVE  \E n \in openNow : Reports!Deliver(n)
  OBVIOUS
<1>1. /\ m \in 1..Len(throws) /\ throws[m].how = "open"
      /\ msg' = msg /\ Len(throws') = Len(throws)
      /\ throws'[m].how # "open" /\ throws'[m].x = throws[m].x
      /\ \A n \in 1..Len(throws) : n # m => throws'[n] = throws[n]
  BY EndInv
<1>2. DOMAIN throws = 1..Len(throws) /\ DOMAIN throws' = 1..Len(throws)
  <2>1. throws \in Seq(Thrown) BY DEF Inv, IInv, TypeOK
  <2>2. PICK how \in How : Return(t, how) BY DEF Ends
  <2>3. DOMAIN throws' = DOMAIN throws BY <2>2 DEF Return
  <2> QED BY <2>1, <2>3
<1>3. m \in openNow BY <1>1, <1>2 DEF openNow
<1>4. openNow' = openNow \ {m} BY <1>1, <1>2 DEF openNow
<1>5. thrownNow' = thrownNow
  <2>1. \A n \in 1..Len(throws) : throws'[n].x = throws[n].x BY <1>1
  <2>2. /\ thrownNow = [n \in 1..Len(throws) |-> throws[n].x]
        /\ thrownNow' = [n \in 1..Len(throws) |-> throws'[n].x]
    BY <1>2 DEF thrownNow
  <2>3. [n \in 1..Len(throws) |-> throws[n].x] = [n \in 1..Len(throws) |-> throws'[n].x]
    BY <2>1, Zenon
  <2> QED BY <2>2, <2>3
<1>6. Reports!Deliver(m) BY <1>1, <1>4, <1>5 DEF Reports!Deliver, thrownNow, openNow
<1> QED BY <1>3, <1>6

LEMMA StepMaps ==
  ASSUME Confined, Inv, [Next]_vars
  PROVE  [Reports!Next]_(Reports!vars)
<1>1. CASE UNCHANGED <<msg, throws>>
  BY <1>1 DEF Reports!vars
<1>2. ASSUME NEW t \in Threads, Throw(t) PROVE Reports!Next
  <2>1. PICK x \in Exceptions, site \in Site : Enter(t, x, site) BY <1>2 DEF Throw
  <2>2. Reports!Throw(x) BY <2>1, EnterMaps DEF Inv, IInv
  <2> QED BY <2>2 DEF Reports!Next
<1>3. ASSUME NEW t \in Threads, Step(t)
      PROVE  Reports!Next \/ UNCHANGED <<msg, throws>>
  <2>1. active[t] # <<>> /\ (PutField(t) \/ Moves(t) \/ Ends(t)) BY <1>3, StepKinds
  <2>2. CASE PutField(t) BY <2>2, PutMaps DEF Reports!Next, openNow
  <2>3. CASE Moves(t) BY <2>3 DEF Moves, Goto
  <2>4. CASE Ends(t) BY <2>1, <2>4, EndMaps DEF Reports!Next, openNow
  <2> QED BY <2>1, <2>2, <2>3, <2>4
<1> QED BY <1>1, <1>2, <1>3 DEF Next, vars

\* While every NPE stays in one thread, the callbacks do what Annotations says.
THEOREM Implements ==
  ASSUME Confined PROVE Spec => Annotates
<1>1. Inv /\ [Next]_vars => [Reports!Next]_(Reports!vars) BY StepMaps
<1> QED BY <1>1, InvInit, StepInv, InitMaps, PTL DEF Spec, Annotates, Reports!Spec
-----------------------------------------------------------------------------
(* What became of each throw.                                              *)

\* A callback that prints the arguments has written the message.
Explained ==
  /\ NoSilentLoss
  /\ \A t \in Threads : \A i \in 1..Len(active[t]) :
       active[t][i].pc = "params" => msg[active[t][i].x] # NoMessage

LEMMA EnterExplained ==
  ASSUME Inv, Explained, NEW t \in Threads, NEW x \in Exceptions, NEW site \in Site,
         Enter(t, x, site)
  PROVE  Explained'
<1> DEFINE new == [n |-> Len(throws) + 1, x |-> x, site |-> site, pc |-> "filter"]
<1>1. active \in [Threads -> Seq(Activation)] /\ throws \in Seq(Thrown)
  BY DEF Inv, IInv, TypeOK
<1>2. /\ active' = [active EXCEPT ![t] = Append(active[t], new)]
      /\ throws' = Append(throws, [x |-> x, how |-> "open"])
      /\ msg' = msg
  BY DEF Enter
<1>3. NoSilentLoss'
  <2>1. /\ Len(throws') = Len(throws) + 1
        /\ throws'[Len(throws) + 1] = [x |-> x, how |-> "open"]
        /\ \A n \in 1..Len(throws) : throws'[n] = throws[n]
        /\ Len(throws) \in Nat
    BY <1>1, <1>2
  <2> SUFFICES ASSUME NEW n \in 1..Len(throws')
               PROVE  /\ throws'[n].how \in {"has message", "annotated"} =>
                           msg[throws'[n].x] # NoMessage
                      /\ throws'[n].how = "not an NPE" => throws'[n].x \notin Npe
    BY <1>2 DEF NoSilentLoss
  <2>2. CASE n = Len(throws) + 1
    <3>1. throws'[n].how = "open" BY <2>1, <2>2
    <3> QED BY <3>1
  <2>3. CASE n \in 1..Len(throws)
    <3>1. throws'[n] = throws[n] BY <2>1, <2>3
    <3> QED BY <2>3, <3>1 DEF Explained, NoSilentLoss
  <2>4. n = Len(throws) + 1 \/ n \in 1..Len(throws) BY <2>1
  <2> QED BY <2>2, <2>3, <2>4
<1>4. new.pc = "filter" OBVIOUS
<1> HIDE DEF new
<1>5. ASSUME NEW u \in Threads, NEW i \in 1..Len(active'[u])
      PROVE  \/ active'[u][i] = new
             \/ i \in 1..Len(active[u]) /\ active'[u][i] = active[u][i]
  <2>1. active[t] \in Seq(Activation) /\ active[u] \in Seq(Activation) BY <1>1
  <2>2. CASE u = t BY <1>1, <1>2, <2>1, <2>2
  <2>3. CASE u # t BY <1>1, <1>2, <2>1, <2>3
  <2> QED BY <2>2, <2>3
<1> QED BY <1>2, <1>3, <1>4, <1>5 DEF Explained

LEMMA MoveExplained ==
  ASSUME Inv, Explained, NEW t \in Threads, active[t] # <<>>, NEW pc \in PC,
         Goto(t, pc),
         \A x \in Exceptions : msg[x] # NoMessage => msg'[x] # NoMessage,
         pc = "params" => msg'[Top(t).x] # NoMessage
  PROVE  Explained'
<1>1. throws' = throws BY DEF Goto
<1>2. throws \in Seq(Thrown) /\ active \in [Threads -> Seq(Activation)]
  BY DEF Inv, IInv, TypeOK
<1>3. NoSilentLoss'
  <2>1. \A n \in 1..Len(throws) : throws[n] \in Thrown BY <1>2
  <2>2. \A n \in 1..Len(throws) : throws[n].x \in Exceptions BY <2>1 DEF Thrown
  <2> QED BY <1>1, <2>2 DEF Explained, NoSilentLoss
<1>4. ASSUME NEW u \in Threads, NEW i \in 1..Len(active'[u]),
             active'[u][i].pc = "params"
      PROVE  msg'[active'[u][i].x] # NoMessage
  <2> DEFINE b == active[u][i]
  <2>1. /\ i \in 1..Len(active[u])
        /\ active'[u][i] = IF u = t /\ i = Len(active[t])
                           THEN [b EXCEPT !.pc = pc] ELSE b
    <3>1. /\ Len(active'[u]) = Len(active[u])
          /\ \A j \in 1..Len(active[u]) :
               active'[u][j] = IF u = t /\ j = Len(active[t])
                               THEN [active[u][j] EXCEPT !.pc = pc] ELSE active[u][j]
      BY GotoActive DEF Inv, IInv
    <3> QED BY <3>1
  <2>2. b \in Activation /\ b.x \in Exceptions
    <3>1. b \in Activation BY <1>2, <2>1
    <3> HIDE DEF b
    <3> QED BY <3>1 DEF Activation
  <2>3. CASE u = t /\ i = Len(active[t])
    <3>1. b = Top(t) BY <2>3 DEF Top
    <3> HIDE DEF b
    <3>2. active'[u][i].pc = pc /\ active'[u][i].x = b.x
      BY <2>1, <2>2, <2>3 DEF Activation
    <3> QED BY <1>4, <3>1, <3>2
  <2>4. CASE ~(u = t /\ i = Len(active[t]))
    BY <1>4, <2>1, <2>2, <2>4 DEF Explained
  <2> QED BY <2>3, <2>4
<1> QED BY <1>3, <1>4 DEF Explained

LEMMA EndExplained ==
  ASSUME Inv, Explained, NEW t \in Threads, active[t] # <<>>, Ends(t)
  PROVE  Explained'
<1> SUFFICES ASSUME NEW a, a = Top(t) PROVE Explained' OBVIOUS
<1>1. PICK how \in How \ {"open"} :
        /\ Return(t, how) /\ msg' = msg
        /\ how = "annotated" => a.pc = "params"
        /\ how = "has message" => msg[a.x] # NoMessage
        /\ how = "not an NPE" => a.x \notin Npe
  BY DEF Ends
<1>2. /\ active \in [Threads -> Seq(Activation)] /\ active[t] \in Seq(Activation)
      /\ throws \in Seq(Thrown) /\ Len(active[t]) \in 1..Len(active[t])
      /\ a = active[t][Len(active[t])]
  BY DEF Inv, IInv, TypeOK, Top
<1>3. a.n \in 1..Len(throws) /\ throws[a.n] = [x |-> a.x, how |-> "open"]
  BY <1>2 DEF Inv, IInv, TypeOK, Accounted
<1>4. /\ Len(throws') = Len(throws)
      /\ throws'[a.n] = [x |-> a.x, how |-> how]
      /\ \A n \in 1..Len(throws) : n # a.n => throws'[n] = throws[n]
  <2>1. throws' = [throws EXCEPT ![a.n] = [throws[a.n] EXCEPT !.how = how]]
    BY <1>1 DEF Return
  <2> QED BY <1>2, <1>3, <2>1
<1>5. a.pc = "params" => msg[a.x] # NoMessage BY <1>2 DEF Explained
<1>6. NoSilentLoss'
  <2> SUFFICES ASSUME NEW n \in 1..Len(throws)
               PROVE  /\ throws'[n].how \in {"has message", "annotated"} =>
                           msg[throws'[n].x] # NoMessage
                      /\ throws'[n].how = "not an NPE" => throws'[n].x \notin Npe
    BY <1>1, <1>4 DEF NoSilentLoss
  <2>1. CASE n = a.n
    <3>1. throws'[n].how = how /\ throws'[n].x = a.x BY <1>4, <2>1
    <3> QED BY <1>1, <1>5, <3>1
  <2>2. CASE n # a.n
    <3>1. throws'[n] = throws[n] BY <1>4, <2>2
    <3> QED BY <3>1 DEF Explained, NoSilentLoss
  <2> QED BY <2>1, <2>2
<1>7. ASSUME NEW u \in Threads, NEW i \in 1..Len(active'[u])
      PROVE  i \in 1..Len(active[u]) /\ active'[u][i] = active[u][i]
  <2>1. /\ Len(active'[u]) = IF u = t THEN Len(active[u]) - 1 ELSE Len(active[u])
        /\ \A j \in 1..Len(active'[u]) : active'[u][j] = active[u][j]
    BY <1>1, ReturnActive DEF Inv, IInv
  <2>2. Len(active[u]) \in Nat BY <1>2
  <2> QED BY <2>1, <2>2
<1>8. \A u \in Threads : \A i \in 1..Len(active'[u]) :
        active'[u][i].pc = "params" => msg[active'[u][i].x] # NoMessage
  BY <1>7 DEF Explained
<1> QED BY <1>1, <1>6, <1>8 DEF Explained

LEMMA StepExplained == Inv /\ Explained /\ [Next]_vars => Explained'
<1> SUFFICES ASSUME Inv, Explained, [Next]_vars PROVE Explained' OBVIOUS
<1>1. CASE UNCHANGED vars BY <1>1 DEF vars, Explained, NoSilentLoss
<1>2. ASSUME NEW t \in Threads, Throw(t) PROVE Explained'
  BY <1>2, EnterExplained DEF Throw
<1>3. ASSUME NEW t \in Threads, Step(t) PROVE Explained'
  <2>1. active[t] # <<>> /\ (PutField(t) \/ Moves(t) \/ Ends(t)) BY <1>3, StepKinds
  <2>2. CASE Moves(t)
    <3>1. PICK pc \in PC \ {"params"} : Goto(t, pc) /\ msg' = msg BY <2>2 DEF Moves
    <3> QED BY <2>1, <3>1, MoveExplained
  <2>3. CASE PutField(t)
    <3>1. msg' = [msg EXCEPT ![Top(t).x] = Top(t).n] /\ Goto(t, "params")
      BY <2>3 DEF PutField
    <3>2. Top(t).n \in 1..Len(throws) /\ Top(t).x \in Writable
      BY <2>3, PutInv, PutIInv DEF Inv
    <3>3. Top(t).x \in Exceptions BY <3>2, ExceptionsAssumption DEF Writable
    <3>4. msg \in [Exceptions -> Message] BY DEF Inv, IInv, TypeOK
    <3>5. /\ msg'[Top(t).x] # NoMessage
          /\ \A x \in Exceptions : msg[x] # NoMessage => msg'[x] # NoMessage
      BY <3>1, <3>2, <3>3, <3>4 DEF NoMessage
    <3> QED BY <2>1, <3>1, <3>5, MoveExplained DEF PC
  <2>4. CASE Ends(t) BY <2>1, <2>4, EndExplained
  <2> QED BY <2>1, <2>2, <2>3, <2>4
<1> QED BY <1>1, <1>2, <1>3 DEF Next

\* No NPE goes without a message unless a filter or an error says why.
THEOREM NoneLostSilently == Spec => []NoSilentLoss
<1>1. Init => Explained
  <2> SUFFICES ASSUME Init PROVE Explained OBVIOUS
  <2>1. throws = <<>> /\ \A t \in Threads : active[t] = <<>> BY DEF Init
  <2>2. 1..Len(throws) = {} BY <2>1
  <2>3. NoSilentLoss BY <2>2 DEF NoSilentLoss
  <2> QED BY <2>1, <2>3 DEF Explained
<1>2. Explained => NoSilentLoss BY DEF Explained
<1> QED BY <1>1, <1>2, InvInit, StepInv, StepExplained, PTL DEF Spec

-----------------------------------------------------------------------------
(* The callbacks go down.                                                  *)

\* Steps that a callback has left at most, from pc on.
Rank(pc) ==
  CASE pc = "filter" -> 7 [] pc = "read" -> 6 [] pc = "analyse" -> 5 [] pc = "lookup" -> 4
    [] pc = "create" -> 3 [] pc = "put" -> 2 [] OTHER -> 1

\* Steps that a thread has left at most: those below are printing arguments.
Work(t) == IF active[t] = <<>> THEN 0 ELSE 7 * (Len(active[t]) - 1) + Rank(Top(t).pc)

\* t has less left, and the other threads what they had.
Descends(t) ==
  /\ Work(t) \in Nat /\ Work(t)' \in Nat /\ Work(t)' < Work(t)
  /\ \A u \in Threads \ {t} : Work(u)' = Work(u)

LEMMA RankType == \A pc : Rank(pc) \in 1..7
BY DEF Rank

\* What another thread has left is its own.
LEMMA OthersKept ==
  ASSUME TypeOK, NEW t \in Threads, active[t] # <<>>,
         NEW s, active' = [active EXCEPT ![t] = s], NEW u \in Threads \ {t}
  PROVE  Work(u)' = Work(u)
<1>1. active \in [Threads -> Seq(Activation)] BY DEF TypeOK
<1>2. active'[u] = active[u] BY <1>1
<1> QED BY <1>2 DEF Work, Top

LEMMA GotoDescends ==
  ASSUME TypeOK, NEW t \in Threads, active[t] # <<>>, NEW pc \in PC, Goto(t, pc),
         Rank(pc) < Rank(Top(t).pc)
  PROVE  Descends(t)
<1>1. active \in [Threads -> Seq(Activation)] BY DEF TypeOK
<1>2. PICK k \in Nat \ {0} : k = Len(active[t])
  <2>1. active[t] \in Seq(Activation) BY <1>1
  <2>2. Len(active[t]) \in Nat \ {0} BY <2>1
  <2> QED BY <2>2, Zenon
<1>3. /\ active' \in [Threads -> Seq(Activation)] /\ Len(active'[t]) = k
      /\ active'[t][k] = [active[t][k] EXCEPT !.pc = pc]
  <2>1. k \in 1..Len(active[t]) BY <1>2
  <2> QED BY <1>2, <2>1, GotoActive
<1>4. active[t][k] \in Activation
  <2>1. active[t] \in Seq(Activation) BY <1>1
  <2> QED BY <1>2, <2>1
<1>5. active'[t][k].pc = pc BY <1>3, <1>4 DEF Activation
<1>6. active'[t] # <<>>
  <2>1. k # 0 BY <1>2
  <2> QED BY <1>3, <2>1
<1>7. Top(t).pc = active[t][k].pc BY <1>2, Zenon DEF Top
<1>8. Work(t) = 7 * (k - 1) + Rank(Top(t).pc) BY <1>2, Zenon DEF Work
<1>9. Work(t)' = 7 * (k - 1) + Rank(pc) BY <1>3, <1>5, <1>6, Zenon DEF Work, Top
<1>10. Work(t) \in Nat /\ Work(t)' \in Nat /\ Work(t)' < Work(t)
  <2>1. PICK a \in 1..7, b \in 1..7 : a = Rank(pc) /\ b = Rank(Top(t).pc)
    BY RankType, Zenon
  <2>2. a < b BY <2>1
  <2>3. Work(t) = 7 * (k - 1) + b /\ Work(t)' = 7 * (k - 1) + a BY <1>8, <1>9, <2>1, Zenon
  <2> QED BY <1>2, <2>2, <2>3
<1>11. \A u \in Threads \ {t} : Work(u)' = Work(u)
  <2>1. \E s : active' = [active EXCEPT ![t] = s] BY Zenon DEF Goto
  <2> QED BY <2>1, OthersKept
<1> QED BY <1>10, <1>11, Zenon DEF Descends

\* Below a callback is one that prints arguments, which has one step left.
LEMMA ReturnDescends ==
  ASSUME TypeOK, NestsInParams, NEW t \in Threads, active[t] # <<>>, NEW how \in How,
         Return(t, how)
  PROVE  Descends(t)
<1>1. active \in [Threads -> Seq(Activation)] BY DEF TypeOK
<1>2. PICK k \in Nat \ {0} : k = Len(active[t])
  <2>1. active[t] \in Seq(Activation) BY <1>1
  <2>2. Len(active[t]) \in Nat \ {0} BY <2>1
  <2> QED BY <2>2, Zenon
<1>3. /\ active' \in [Threads -> Seq(Activation)] /\ Len(active'[t]) = k - 1
      /\ \A i \in 1..(k - 1) : active'[t][i] = active[t][i]
  <2>1. Len(active'[t]) = Len(active[t]) - 1 BY ReturnActive
  <2>2. Len(active'[t]) = k - 1 BY <1>2, <2>1, Zenon
  <2>3. \A i \in 1..Len(active'[t]) : active'[t][i] = active[t][i] BY ReturnActive
  <2>4. active' \in [Threads -> Seq(Activation)] BY ReturnActive
  <2> QED BY <2>2, <2>3, <2>4, Zenon
<1>4. PICK b \in 1..7 : b = Rank(Top(t).pc) BY RankType, Zenon
<1>5. Work(t) = 7 * (k - 1) + b BY <1>2, <1>4, Zenon DEF Work
<1>6. Work(t)' \in 0..(7 * (k - 1))
  <2>1. CASE k = 1
    <3>1. active'[t] \in Seq(Activation) /\ Len(active'[t]) = 0 BY <1>3, <2>1
    <3>2. active'[t] = <<>> BY <3>1
    <3>3. Work(t)' = 0 BY <3>2, Zenon DEF Work
    <3> QED BY <2>1, <3>3
  <2>2. CASE k # 1
    <3>1. k - 1 \in 1..(k - 1) /\ k - 1 \in Nat \ {0}
      <4>1. \A m \in Nat : m # 0 /\ m # 1 => m - 1 \in 1..(m - 1) /\ m - 1 \in Nat \ {0}
        OBVIOUS
      <4>2. k \in Nat /\ k # 0 BY <1>2
      <4> QED BY <2>2, <4>1, <4>2, Zenon
    <3>2. \A i \in 1..(Len(active[t]) - 1) : active[t][i].pc = "params"
      BY DEF NestsInParams
    <3>3. active'[t][k - 1].pc = "params"
      <4>1. k - 1 \in 1..(Len(active[t]) - 1) BY <1>2, <3>1, Zenon
      <4> QED BY <1>3, <3>1, <3>2, <4>1, Zenon
    <3>4. active'[t] # <<>>
      <4>1. k - 1 # 0 BY <3>1
      <4> QED BY <1>3, <4>1
    <3>5. Rank("params") = 1 BY DEF Rank
    <3>6. Work(t)' = 7 * ((k - 1) - 1) + 1 BY <1>3, <3>3, <3>4, <3>5, Zenon DEF Work, Top
    <3> QED BY <3>1, <3>6
  <2> QED BY <2>1, <2>2
<1>7. Work(t) \in Nat /\ Work(t)' \in Nat /\ Work(t)' < Work(t)
  BY <1>2, <1>4, <1>5, <1>6
<1>8. \A u \in Threads \ {t} : Work(u)' = Work(u)
  <2>1. \E s : active' = [active EXCEPT ![t] = s] BY Zenon DEF Return
  <2> QED BY <2>1, OthersKept
<1> QED BY <1>7, <1>8, Zenon DEF Descends

LEMMA StepDescends ==
  ASSUME TypeOK, NestsInParams, NEW t \in Threads, Step(t)
  PROVE  Descends(t)
<1>1. active[t] # <<>> BY StepKinds
<1>2. ASSUME NEW how \in How, Return(t, how) PROVE Descends(t)
  BY <1>1, <1>2, ReturnDescends
<1>3. ASSUME NEW from, NEW to \in PC, Rank(to) < Rank(from), At(t, from), Goto(t, to)
      PROVE  Descends(t)
  BY <1>1, <1>3, GotoDescends DEF At
<1>4. CASE Filter(t)
  <2>1. Rank("read") < Rank("filter") BY DEF Rank
  <2> QED BY <1>2, <1>3, <1>4, <2>1 DEF Filter, How, PC
<1>5. CASE ReadMessage(t)
  <2>1. Rank("analyse") < Rank("read") BY DEF Rank
  <2> QED BY <1>2, <1>3, <1>5, <2>1 DEF ReadMessage, How, PC
<1>6. CASE Analyse(t)
  <2>1. Rank("lookup") < Rank("analyse") /\ Rank("put") < Rank("analyse") BY DEF Rank
  <2> QED BY <1>3, <1>6, <2>1 DEF Analyse, PC
<1>7. CASE LookupLogger(t)
  <2>1. Rank("create") < Rank("lookup") /\ Rank("put") < Rank("lookup") BY DEF Rank
  <2> QED BY <1>3, <1>7, <2>1 DEF LookupLogger, PC
<1>8. CASE CreateLogger(t)
  <2>1. Rank("put") < Rank("create") BY DEF Rank
  <2> QED BY <1>2, <1>3, <1>8, <2>1 DEF CreateLogger, How, PC
<1>9. CASE PutField(t)
  <2>1. Rank("params") < Rank("put") BY DEF Rank
  <2> QED BY <1>3, <1>9, <2>1 DEF PutField, PC
<1>10. CASE PrintParams(t) \/ Fail(t)
  BY <1>2, <1>10 DEF PrintParams, Fail, How
<1> QED BY <1>4, <1>5, <1>6, <1>7, <1>8, <1>9, <1>10 DEF Step

\* Every step of exceptionCallback takes its thread nearer to the return of the
\* callbacks it has open, and takes nothing from another's: only a throw adds to
\* what is left, in the thread that throws.
THEOREM CallbacksDescend ==
  Spec => [][\A t \in Threads : Step(t) => Descends(t)]_vars
<1>1. ASSUME IInv PROVE \A t \in Threads : Step(t) => Descends(t)
  BY <1>1, StepDescends DEF IInv
<1>2. IInv => [\A t \in Threads : Step(t) => Descends(t)]_vars BY <1>1
<1> QED BY <1>2, Inductive, PTL
=============================================================================
