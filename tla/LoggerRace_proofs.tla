-------------------------- MODULE LoggerRace_proofs --------------------------
(***************************************************************************)
(* The cost of the race for the registry of loggers: a theorem about       *)
(* ExceptionCallback, for any finite number of threads.                    *)
(***************************************************************************)
EXTENDS ExceptionCallback_proofs, FiniteSetTheorems

\* The threads that found no logger and are about to make one.
Creating == {t \in Threads : At(t, "create")}

\* Once the logger is made, those that have failed to make it and those that
\* will are fewer than the threads: one of them made it.
RaceBounded ==
  /\ ~analyzer => Lost = {}
  /\ analyzer => Cardinality(Lost) + Cardinality(Creating) < Cardinality(Threads)

\* The sets that are counted are finite.
LEMMA FiniteSets ==
  ASSUME TypeOK
  PROVE  /\ IsFiniteSet(Lost) /\ Cardinality(Lost) \in Nat
         /\ IsFiniteSet(Creating) /\ Cardinality(Creating) \in Nat
         /\ Cardinality(Creating) <= Cardinality(Threads)
         /\ Cardinality(Threads) \in Nat /\ Cardinality(Threads) > 0
<1>1. Len(throws) \in Nat BY DEF TypeOK
<1>2. Lost \in SUBSET (1..Len(throws)) /\ Creating \in SUBSET Threads
  BY DEF Lost, Creating
<1>3. IsFiniteSet(1..Len(throws))
  <2>1. 1 \in Int /\ Len(throws) \in Int BY <1>1
  <2> QED BY <2>1, FS_Interval
<1>4. IsFiniteSet(Lost) BY <1>2, <1>3, FS_Subset
<1>5. IsFiniteSet(Threads) /\ Threads # {} BY ThreadsAssumption
<1>6. IsFiniteSet(Creating) /\ Cardinality(Creating) <= Cardinality(Threads)
  BY <1>2, <1>5, FS_Subset
<1>7. /\ Cardinality(Lost) \in Nat /\ Cardinality(Creating) \in Nat
      /\ Cardinality(Threads) \in Nat
  BY <1>4, <1>5, <1>6, FS_CardinalityType
<1>8. Cardinality(Threads) # 0 BY <1>5, FS_EmptySet
<1> QED BY <1>4, <1>6, <1>7, <1>8

\* A throw adds nothing to either set.
LEMMA EnterRace ==
  ASSUME IInv, NEW t \in Threads, NEW x \in Exceptions, NEW site \in Site,
         Enter(t, x, site)
  PROVE  Lost' = Lost /\ Creating' = Creating
<1> DEFINE new == [n |-> Len(throws) + 1, x |-> x, site |-> site, pc |-> "filter"]
<1>1. /\ active \in [Threads -> Seq(Activation)]
      /\ throws \in Seq(Thrown) /\ Len(throws) \in Nat
  BY DEF IInv, TypeOK
<1>2. /\ active' = [active EXCEPT ![t] = Append(active[t], new)]
      /\ throws' = Append(throws, [x |-> x, how |-> "open"])
  BY DEF Enter
<1>3. Lost' = Lost
  <2>1. [x |-> x, how |-> "open"].how # "no logger" OBVIOUS
  <2>2. /\ Len(throws') = Len(throws) + 1
        /\ throws'[Len(throws) + 1] = [x |-> x, how |-> "open"]
        /\ \A n \in 1..Len(throws) : throws'[n] = throws[n]
    BY <1>1, <1>2
  <2>3. throws'[Len(throws) + 1].how # "no logger" BY <2>1, <2>2
  <2>4. 1..Len(throws') = 1..Len(throws) \cup {Len(throws) + 1} BY <1>1, <2>2
  <2> QED BY <2>2, <2>3, <2>4, Zenon DEF Lost
<1>4. ASSUME NEW u \in Threads PROVE At(u, "create")' <=> At(u, "create")
  <2>1. CASE u # t
    <3>1. active'[u] = active[u] BY <1>1, <1>2, <2>1
    <3> QED BY <3>1 DEF At, Top
  <2>2. CASE u = t
    <3>1. active[t] \in Seq(Activation) BY <1>1
    <3>2. new.pc # "create" OBVIOUS
    <3> HIDE DEF new
    <3>3. active'[t] = Append(active[t], new) BY <1>1, <1>2
    <3>4. new \in Activation
      <4>1. Len(throws) + 1 \in Nat \ {0} BY <1>1
      <4> QED BY <4>1 DEF new, Activation, PC
    <3>5. /\ Append(active[t], new) # <<>>
          /\ Append(active[t], new)[Len(Append(active[t], new))] = new
      BY <3>1, <3>4
    <3>6. ~At(t, "create")' BY <3>2, <3>3, <3>5 DEF At, Top
    <3>7. ~At(t, "create") BY DEF Enter, At, Top
    <3> QED BY <2>2, <3>6, <3>7
  <2> QED BY <2>1, <2>2
<1>5. Creating' = Creating BY <1>4 DEF Creating
<1> QED BY <1>3, <1>5

\* A callback that goes on is not lost, and creates when it goes there.
LEMMA GotoRace ==
  ASSUME IInv, NEW t \in Threads, active[t] # <<>>, NEW pc \in PC, Goto(t, pc)
  PROVE  /\ Lost' = Lost
         /\ Creating' = IF pc = "create" THEN Creating \cup {t} ELSE Creating \ {t}
<1>1. Lost' = Lost BY DEF Goto, Lost
<1>2. active \in [Threads -> Seq(Activation)] BY DEF IInv, TypeOK
<1>3. /\ \A u \in Threads : Len(active'[u]) = Len(active[u])
      /\ \A u \in Threads : \A i \in 1..Len(active[u]) :
           active'[u][i] = IF u = t /\ i = Len(active[t])
                           THEN [active[u][i] EXCEPT !.pc = pc] ELSE active[u][i]
      /\ active' \in [Threads -> Seq(Activation)]
  BY GotoActive DEF IInv
<1>4. ASSUME NEW u \in Threads
      PROVE  At(u, "create")' <=> IF u = t THEN pc = "create" ELSE At(u, "create")
  <2>1. CASE u # t
    <3>1. active' = [active EXCEPT ![t] = active'[t]] BY <1>2 DEF Goto
    <3>2. active'[u] = active[u] BY <1>2, <2>1, <3>1
    <3> QED BY <2>1, <3>2 DEF At, Top
  <2>2. CASE u = t
    <3>1. active[t] \in Seq(Activation) /\ active'[t] \in Seq(Activation) BY <1>2, <1>3
    <3>2. Len(active[t]) \in 1..Len(active[t]) /\ active'[t] # <<>>
      BY <1>3, <3>1
    <3>3. active[t][Len(active[t])] \in Activation BY <3>1, <3>2
    <3>4. active'[t][Len(active'[t])] = [active[t][Len(active[t])] EXCEPT !.pc = pc]
      BY <1>3, <3>2
    <3>5. active'[t][Len(active'[t])].pc = pc BY <3>3, <3>4 DEF Activation
    <3> QED BY <2>2, <3>2, <3>5 DEF At, Top
  <2> QED BY <2>1, <2>2
<1>5. Creating' = IF pc = "create" THEN Creating \cup {t} ELSE Creating \ {t}
  BY <1>4 DEF Creating
<1> QED BY <1>1, <1>5

\* A callback that ends is at none of these places, nor is the one it returns
\* to; it is lost if that is why it ends.
LEMMA ReturnRace ==
  ASSUME Inv, NEW t \in Threads, active[t] # <<>>, NEW how \in How, Return(t, how)
  PROVE  /\ Creating' = Creating \ {t}
         /\ how # "no logger" => Lost' = Lost
         /\ \E n : n \notin Lost /\ (how = "no logger" => Lost' = Lost \cup {n})
<1> SUFFICES ASSUME NEW m, m = Top(t).n
             PROVE  /\ Creating' = Creating \ {t}
                    /\ how # "no logger" => Lost' = Lost
                    /\ m \notin Lost /\ (how = "no logger" => Lost' = Lost \cup {m})
  OBVIOUS
<1>1. /\ active \in [Threads -> Seq(Activation)] /\ active[t] \in Seq(Activation)
      /\ throws \in Seq(Thrown) /\ Len(active[t]) \in 1..Len(active[t])
      /\ Top(t) = active[t][Len(active[t])]
  BY DEF Inv, IInv, TypeOK, Top
<1>2. /\ m \in 1..Len(throws) /\ throws[m].how = "open"
  <2>1. m \in 1..Len(throws) BY <1>1 DEF Inv, IInv, TypeOK
  <2>2. throws[m] = [x |-> Top(t).x, how |-> "open"] BY <1>1 DEF Inv, Accounted
  <2> QED BY <2>1, <2>2
<1>3. /\ Len(throws') = Len(throws)
      /\ throws'[m].how = how
      /\ \A n \in 1..Len(throws) : n # m => throws'[n] = throws[n]
  <2>1. throws' = [throws EXCEPT ![m] = [throws[m] EXCEPT !.how = how]] BY DEF Return
  <2>2. throws[m] \in Thrown BY <1>1, <1>2
  <2>3. [throws[m] EXCEPT !.how = how].how = how BY <2>2 DEF Thrown
  <2> QED BY <1>1, <1>2, <2>1, <2>3
<1>4. m \notin Lost BY <1>2 DEF Lost
<1>5. how # "no logger" => Lost' = Lost BY <1>2, <1>3 DEF Lost
<1>6. how = "no logger" => Lost' = Lost \cup {m} BY <1>2, <1>3 DEF Lost
<1>7. \A u \in Threads :
        /\ Len(active'[u]) = IF u = t THEN Len(active[u]) - 1 ELSE Len(active[u])
        /\ \A i \in 1..Len(active'[u]) : active'[u][i] = active[u][i]
  BY ReturnActive DEF Inv, IInv
<1>8. ~At(t, "create")'
  <2> SUFFICES ASSUME active'[t] # <<>>
               PROVE  active'[t][Len(active'[t])].pc # "create"
    BY DEF At, Top
  <2>1. active'[t] \in Seq(Activation) BY ReturnActive DEF Inv, IInv
  <2>2. Len(active'[t]) \in 1..Len(active'[t]) BY <2>1
  <2>3. Len(active'[t]) = Len(active[t]) - 1 BY <1>7
  <2>4. Len(active'[t]) \in 1..(Len(active[t]) - 1) BY <2>2, <2>3
  <2>5. active[t][Len(active'[t])].pc = "params"
    BY <2>4 DEF Inv, IInv, NestsInParams
  <2>6. active'[t][Len(active'[t])] = active[t][Len(active'[t])] BY <1>7, <2>2
  <2> QED BY <2>5, <2>6
<1>9. ASSUME NEW u \in Threads, u # t PROVE At(u, "create")' <=> At(u, "create")
  <2>1. active' = [active EXCEPT ![t] = active'[t]] BY <1>1 DEF Return
  <2>2. active'[u] = active[u] BY <1>1, <1>9, <2>1
  <2> QED BY <2>2 DEF At, Top
<1>10. Creating' = Creating \ {t} BY <1>8, <1>9 DEF Creating
<1> QED BY <1>4, <1>5, <1>6, <1>10

\* A step that loses nobody and lets nobody make the logger.
LEMMA CalmRace ==
  ASSUME TypeOK, RaceBounded, Lost' = Lost, Creating' \subseteq Creating,
         analyzer' = analyzer
  PROVE  RaceBounded'
<1>1. /\ IsFiniteSet(Creating) /\ Cardinality(Creating) \in Nat
      /\ Cardinality(Lost) \in Nat /\ Cardinality(Threads) \in Nat
  BY FiniteSets
<1>2. IsFiniteSet(Creating') /\ Cardinality(Creating') <= Cardinality(Creating)
  BY <1>1, FS_Subset
<1>3. Cardinality(Creating') \in Nat BY <1>2, FS_CardinalityType
<1>4. ASSUME analyzer
      PROVE  Cardinality(Lost') + Cardinality(Creating') < Cardinality(Threads)
  <2>1. Cardinality(Lost) + Cardinality(Creating) < Cardinality(Threads)
    BY <1>4 DEF RaceBounded
  <2>2. Cardinality(Lost') = Cardinality(Lost) OBVIOUS
  <2> HIDE DEF Lost, Creating
  <2> QED BY <1>1, <1>2, <1>3, <2>1, <2>2
<1> QED BY <1>4 DEF RaceBounded

\* The logger made: the first is one thread fewer that may fail to; each of the
\* others is lost in place of having it before it.
LEMMA CreateRace ==
  ASSUME Inv, RaceBounded, NEW t \in Threads, CreateLogger(t)
  PROVE  RaceBounded'
<1>1. /\ IsFiniteSet(Creating) /\ Cardinality(Creating) \in Nat
      /\ IsFiniteSet(Lost) /\ Cardinality(Lost) \in Nat
      /\ Cardinality(Creating) <= Cardinality(Threads)
      /\ Cardinality(Threads) \in Nat
  BY FiniteSets DEF Inv, IInv
<1>2. /\ active[t] # <<>> /\ t \in Creating
      /\ analyzer' = TRUE /\ analyzer \in BOOLEAN
  BY DEF CreateLogger, At, Creating, Inv, IInv, TypeOK
<1>3. Cardinality(Creating \ {t}) = Cardinality(Creating) - 1
  BY <1>1, <1>2, FS_RemoveElement
<1>4. CASE ~analyzer
  <2>1. Goto(t, "put") BY <1>4 DEF CreateLogger
  <2>2. Lost' = Lost /\ Creating' = Creating \ {t}
    BY <1>2, <2>1, GotoRace DEF Inv, PC
  <2>3. Lost = {} BY <1>4 DEF RaceBounded
  <2>4. Cardinality(Lost') = 0 /\ Cardinality(Creating') = Cardinality(Creating) - 1
    BY <1>3, <2>2, <2>3, FS_EmptySet
  <2>5. Cardinality(Lost') + Cardinality(Creating') < Cardinality(Threads)
    BY <1>1, <2>4
  <2> QED BY <1>2, <2>5 DEF RaceBounded
<1>5. CASE analyzer
  <2>1. Return(t, "no logger") BY <1>5 DEF CreateLogger
  <2>2. Creating' = Creating \ {t} BY <1>2, <2>1, ReturnRace DEF How
  <2>3. PICK n : n \notin Lost /\ Lost' = Lost \cup {n}
    BY <1>2, <2>1, ReturnRace DEF How
  <2>4. Cardinality(Lost \cup {n}) = Cardinality(Lost) + 1
    BY <1>1, <2>3, FS_AddElement
  <2>5. /\ Cardinality(Lost') = Cardinality(Lost) + 1
        /\ Cardinality(Creating') = Cardinality(Creating) - 1
    BY <1>3, <2>2, <2>3, <2>4
  <2>6. Cardinality(Lost) + Cardinality(Creating) < Cardinality(Threads)
    BY <1>5 DEF RaceBounded
  <2>7. Cardinality(Lost') + Cardinality(Creating') < Cardinality(Threads)
    BY <1>1, <2>5, <2>6
  <2> QED BY <1>2, <2>7 DEF RaceBounded
<1> QED BY <1>2, <1>4, <1>5

LEMMA StepRace == Inv /\ RaceBounded /\ [Next]_vars => RaceBounded'
<1> SUFFICES ASSUME Inv, RaceBounded, [Next]_vars PROVE RaceBounded' OBVIOUS
<1> USE DEF PC, How
<1>1. IInv /\ TypeOK BY DEF Inv, IInv
<1>2. CASE UNCHANGED vars
  <2>1. Lost' = Lost /\ Creating' = Creating /\ analyzer' = analyzer
    BY <1>2 DEF vars, Lost, Creating, At, Top
  <2> QED BY <1>1, <2>1, CalmRace
<1>3. ASSUME NEW t \in Threads, Throw(t) PROVE RaceBounded'
  <2>1. PICK x \in Exceptions, site \in Site : Enter(t, x, site) BY <1>3 DEF Throw
  <2>2. Lost' = Lost /\ Creating' = Creating BY <1>1, <2>1, EnterRace
  <2>3. analyzer' = analyzer BY <2>1 DEF Enter
  <2> QED BY <1>1, <2>2, <2>3, CalmRace
<1>4. ASSUME NEW t \in Threads, active[t] # <<>>, analyzer' = analyzer,
             NEW pc \in PC \ {"create"}, Goto(t, pc)
      PROVE  RaceBounded'
  <2>1. Lost' = Lost /\ Creating' = Creating \ {t} BY <1>1, <1>4, GotoRace
  <2>2. Creating \ {t} \subseteq Creating OBVIOUS
  <2> QED BY <1>1, <1>4, <2>1, <2>2, CalmRace
<1>5. ASSUME NEW t \in Threads, active[t] # <<>>, analyzer' = analyzer,
             NEW how \in How \ {"no logger"}, Return(t, how)
      PROVE  RaceBounded'
  <2>1. Lost' = Lost /\ Creating' = Creating \ {t} BY <1>5, ReturnRace
  <2>2. Creating \ {t} \subseteq Creating OBVIOUS
  <2> QED BY <1>1, <1>5, <2>1, <2>2, CalmRace
<1>6. ASSUME NEW t \in Threads, Step(t) PROVE RaceBounded'
  <2>1. active[t] # <<>> BY <1>6, StepKinds
  <2>2. CASE Filter(t) BY <1>4, <1>5, <2>1, <2>2 DEF Filter
  <2>3. CASE ReadMessage(t) BY <1>4, <1>5, <2>1, <2>3 DEF ReadMessage
  <2>4. CASE Analyse(t) BY <1>4, <2>1, <2>4 DEF Analyse
  <2>5. CASE LookupLogger(t)
    <3>1. CASE analyzer BY <1>4, <2>1, <2>5, <3>1 DEF LookupLogger
    <3>2. CASE ~analyzer
      \* To be about to make the logger costs nothing before it is made.
      <4>1. Goto(t, "create") /\ analyzer' = analyzer BY <2>5, <3>2 DEF LookupLogger
      <4>2. Lost' = Lost BY <1>1, <2>1, <4>1, GotoRace
      <4> QED BY <3>2, <4>1, <4>2 DEF RaceBounded
    <3> QED BY <3>1, <3>2
  <2>6. CASE CreateLogger(t) BY <2>6, CreateRace
  <2>7. CASE PutField(t) BY <1>4, <2>1, <2>7 DEF PutField
  <2>8. CASE PrintParams(t) BY <1>5, <2>1, <2>8 DEF PrintParams
  <2>9. CASE Fail(t) BY <1>5, <2>1, <2>9 DEF Fail
  <2> QED BY <1>6, <2>2, <2>3, <2>4, <2>5, <2>6, <2>7, <2>8, <2>9 DEF Step
<1> QED BY <1>2, <1>3, <1>6 DEF Next

\* However many exceptions are thrown, those that go without a message because
\* two threads made the logger of getLogger are fewer than the threads.
THEOREM RaceCost == Spec => []LoggerRaceCost
<1>1. Init => RaceBounded
  <2>1. ASSUME Init PROVE Lost = {} /\ ~analyzer
    <3>1. throws = <<>> /\ ~analyzer BY <2>1 DEF Init
    <3>2. 1..Len(throws) = {} BY <3>1
    <3> QED BY <3>1, <3>2 DEF Lost
  <2> QED BY <2>1 DEF RaceBounded
<1>2. Inv /\ RaceBounded => LoggerRaceCost
  <2> SUFFICES ASSUME Inv, RaceBounded PROVE LoggerRaceCost OBVIOUS
  <2>1. /\ Cardinality(Lost) \in Nat /\ Cardinality(Creating) \in Nat
        /\ Cardinality(Threads) \in Nat /\ Cardinality(Threads) > 0
    BY FiniteSets DEF Inv, IInv
  <2>2. CASE analyzer
    <3>1. Cardinality(Lost) + Cardinality(Creating) < Cardinality(Threads)
      BY <2>2 DEF RaceBounded
    <3> QED BY <2>1, <3>1 DEF LoggerRaceCost
  <2>3. CASE ~analyzer
    <3>1. Cardinality(Lost) = 0 BY <2>3, FS_EmptySet DEF RaceBounded
    <3> QED BY <2>1, <3>1 DEF LoggerRaceCost
  <2> QED BY <2>2, <2>3
<1> QED BY <1>1, <1>2, InvInit, StepInv, StepRace, PTL DEF Spec
=============================================================================
