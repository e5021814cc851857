-------------------------- MODULE NativeCalls_proofs --------------------------
(***************************************************************************)
(* Theorems about NativeCalls, for any environments and bounds.            *)
(***************************************************************************)
EXTENDS NativeCalls, Induction

-----------------------------------------------------------------------------
(* The scripts.                                                            *)

LEMMA Names ==
  Functions = {"Agent_OnLoad", "exceptionCallback", "printMethodParams", "number",
               "object", "array", "getClass", "findClass", "deleteLocalRef",
               "invokeVirtual", "invokeStatic", "getField", "putField",
               "checkJniException", "jstringToString"}
BY DEF Functions, Script

LEMMA Scripts ==
  /\ Script["Agent_OnLoad"] = AgentOnLoad
  /\ Script["exceptionCallback"] = ExceptionCallback
  /\ Script["printMethodParams"] = PrintMethodParams
  /\ Script["number"] = Number
  /\ Script["object"] = Object
  /\ Script["array"] = Array
  /\ Script["getClass"] = <<"GetObjectClass", "check">>
  /\ Script["findClass"] = <<"FindClass", "check">>
  /\ Script["deleteLocalRef"] = <<"DeleteLocalRef", "check">>
  /\ Script["invokeVirtual"] = InvokeVirtual
  /\ Script["invokeStatic"] = InvokeStatic
  /\ Script["getField"] = GetField
  /\ Script["putField"] = PutField
  /\ Script["checkJniException"] = CheckJniException
  /\ Script["jstringToString"] = JstringToString
BY DEF Script

LEMMA Domains ==
  ASSUME NEW fn \in Functions
  PROVE  /\ Len(Script[fn]) \in Nat \ {0}
         /\ DOMAIN Script[fn] = 1..Len(Script[fn])
<1>1. CASE fn = "Agent_OnLoad" BY <1>1, Scripts DEF AgentOnLoad
<1>2. CASE fn = "exceptionCallback" BY <1>2, Scripts DEF ExceptionCallback
<1>3. CASE fn = "printMethodParams" BY <1>3, Scripts DEF PrintMethodParams
<1>4. CASE fn = "number" BY <1>4, Scripts DEF Number
<1>5. CASE fn = "object" BY <1>5, Scripts DEF Object
<1>6. CASE fn = "array" BY <1>6, Scripts DEF Array
<1>7. CASE fn = "getClass" BY <1>7, Scripts
<1>8. CASE fn = "findClass" BY <1>8, Scripts
<1>9. CASE fn = "deleteLocalRef" BY <1>9, Scripts
<1>10. CASE fn = "invokeVirtual" BY <1>10, Scripts DEF InvokeVirtual
<1>11. CASE fn = "invokeStatic" BY <1>11, Scripts DEF InvokeStatic
<1>12. CASE fn = "getField" BY <1>12, Scripts DEF GetField
<1>13. CASE fn = "putField" BY <1>13, Scripts DEF PutField
<1>14. CASE fn = "checkJniException" BY <1>14, Scripts DEF CheckJniException
<1>15. CASE fn = "jstringToString" BY <1>15, Scripts DEF JstringToString
<1> QED
  BY <1>1, <1>2, <1>3, <1>4, <1>5, <1>6, <1>7, <1>8, <1>9, <1>10, <1>11, <1>12,
     <1>13, <1>14, <1>15, Names

\* Whether an exception may be pending at a step follows from the step before.
LEMMA ExposedNext ==
  ASSUME NEW fn \in Functions, NEW pc \in DOMAIN Script[fn]
  PROVE  /\ pc + 1 \in Exposed[fn] <=>
              \/ Script[fn][pc] \in Raising
              \/ pc \in Exposed[fn] /\ Script[fn][pc] \notin Clears
         /\ 1 \in Exposed[fn] <=> fn = "checkJniException"
<1> DEFINE s == Script[fn]
           Late1(p) == \E q \in 1..(p - 1) :
                         /\ s[q] \in Raising
                         /\ \A r \in (q + 1)..(p - 1) : s[r] \notin Clears
<1>1. Len(s) \in Nat /\ pc \in 1..Len(s) BY Domains
<1>2. \A p \in 1..(Len(s) + 1) :
        p \in Exposed[fn] <=> (fn = "checkJniException" /\ p = 1) \/ Late1(p)
  BY DEF Exposed, Steps
<1>3. ~Late1(1) OBVIOUS
<1>4. fn = "checkJniException" => s[1] \in Clears
  BY DEF Script, CheckJniException, Clears
<1>5. Late1(pc + 1) <=> s[pc] \in Raising \/ (Late1(pc) /\ s[pc] \notin Clears)
  <2>1. ASSUME s[pc] \in Raising PROVE Late1(pc + 1) BY <1>1, <2>1
  <2>2. ASSUME Late1(pc), s[pc] \notin Clears PROVE Late1(pc + 1) BY <1>1, <2>2
  <2>3. ASSUME Late1(pc + 1), s[pc] \notin Raising
        PROVE  Late1(pc) /\ s[pc] \notin Clears
    <3>1. PICK q \in 1..pc :
            s[q] \in Raising /\ \A r \in (q + 1)..pc : s[r] \notin Clears
      BY <1>1, <2>3
    <3>2. q # pc BY <2>3, <3>1
    <3> QED BY <1>1, <3>1, <3>2
  <2> QED BY <2>1, <2>2, <2>3
<1>6. 1 \in 1..(Len(s) + 1) /\ pc \in 1..(Len(s) + 1) /\ pc + 1 \in 1..(Len(s) + 1)
      /\ pc + 1 # 1
  BY <1>1
<1> HIDE DEF s, Late1
<1>7. pc + 1 \in Exposed[fn] <=> Late1(pc + 1) BY <1>2, <1>6
<1>8. pc \in Exposed[fn] <=> (fn = "checkJniException" /\ pc = 1) \/ Late1(pc)
  BY <1>2, <1>6
<1>9. 1 \in Exposed[fn] <=> fn = "checkJniException" BY <1>2, <1>3, <1>6
<1>10. pc = 1 => ~Late1(pc) BY <1>3
<1> QED BY <1>4, <1>5, <1>7, <1>8, <1>9, <1>10 DEF s

\* So does whether there is a checker to destroy.
LEMMA GuardedNext ==
  ASSUME NEW fn \in Functions, NEW pc \in DOMAIN Script[fn]
  PROVE  /\ pc + 1 \in Guarded[fn] <=> pc \in Guarded[fn] \/ Script[fn][pc] = "guard"
         /\ 1 \notin Guarded[fn]
<1> DEFINE s == Script[fn]
<1>1. Len(s) \in Nat /\ pc \in 1..Len(s) BY Domains
<1>2. \A p \in 1..(Len(s) + 1) :
        p \in Guarded[fn] <=> \E q \in 1..(p - 1) : s[q] = "guard"
  BY DEF Guarded, Steps
<1> HIDE DEF s
<1>3. pc + 1 \in Guarded[fn] <=> \E q \in 1..pc : s[q] = "guard"
  BY <1>1, <1>2
<1>4. pc \in Guarded[fn] <=> \E q \in 1..(pc - 1) : s[q] = "guard"
  BY <1>1, <1>2
<1>5. 1 \notin Guarded[fn] BY <1>1, <1>2
<1> QED BY <1>1, <1>3, <1>4, <1>5 DEF s

LoadOps == {"GetEnv", "AddCapabilities", "SetEventCallbacks", "enableVMInit",
            "enableException", "setEnv"}

DescribeOps == {"ExceptionClear", "giveUp", "throw"}

\* Which function does what, as far as the theorems depend on it.
LEMMA Ops ==
  ASSUME NEW fn \in Functions, NEW pc \in DOMAIN Script[fn],
         NEW op, op = Script[fn][pc]
  PROVE  /\ op # "return"
         /\ op \in LoadOps <=> fn = "Agent_OnLoad"
         /\ op = "ensureInit" <=> fn = "exceptionCallback" /\ pc = 1
         /\ op \in DescribeOps => fn = "checkJniException"
         /\ fn = "checkJniException" =>
              /\ op \notin {"mayReturn", "guard"}
              /\ op = "ExceptionClear" <=> pc = 1
              /\ op # "throw" => pc + 1 \in DOMAIN Script[fn]
<1> USE DEF LoadOps, DescribeOps
<1>1. CASE fn = "Agent_OnLoad" BY <1>1, Scripts DEF AgentOnLoad
<1>2. CASE fn = "exceptionCallback" BY <1>2, Scripts DEF ExceptionCallback
<1>3. CASE fn \in {"printMethodParams", "number", "object", "array"}
  BY <1>3, Scripts DEF PrintMethodParams, Number, Object, Array
<1>4. CASE fn \in {"getClass", "findClass", "deleteLocalRef"} BY <1>4, Scripts
<1>5. CASE fn \in {"invokeVirtual", "invokeStatic"}
  BY <1>5, Scripts DEF InvokeVirtual, InvokeStatic
<1>6. CASE fn \in {"getField", "putField"}
  BY <1>6, Scripts DEF GetField, PutField
<1>7. CASE fn = "checkJniException" BY <1>7, Scripts DEF CheckJniException
<1>8. CASE fn = "jstringToString" BY <1>8, Scripts DEF JstringToString
<1> QED BY <1>1, <1>2, <1>3, <1>4, <1>5, <1>6, <1>7, <1>8, Names

\* The steps at which an exception may be pending: they look for one, or do not
\* mind.
Tolerant == {"check", "giveUp", "ExceptionClear", "jstringToString", "DeleteLocalRef"}

LEMMA ExposedOps ==
  ASSUME NEW fn \in Functions, NEW pc \in Exposed[fn]
  PROVE  IF pc \in DOMAIN Script[fn] THEN Script[fn][pc] \in Tolerant
                                     ELSE pc \in Guarded[fn]
<1> DEFINE s == Script[fn]
<1>1. CASE fn = "checkJniException" /\ pc = 1
  BY <1>1, Scripts DEF CheckJniException, Tolerant
<1>2. ASSUME NEW q \in 1..(pc - 1),
             s[q] \in Raising, \A r \in (q + 1)..(pc - 1) : s[r] \notin Clears
      PROVE  IF pc \in DOMAIN s THEN s[pc] \in Tolerant
                                ELSE \E g \in 1..(pc - 1) : s[g] = "guard"
  <2> USE DEF Raising, Clears, Tolerant
  <2>0. pc \in 1..(Len(s) + 1) BY DEF Exposed, Steps
  <2>1. CASE fn = "Agent_OnLoad" BY <1>2, <2>0, <2>1, Scripts DEF AgentOnLoad
  <2>2. CASE fn = "exceptionCallback" BY <1>2, <2>0, <2>2, Scripts DEF ExceptionCallback
  <2>3. CASE fn = "printMethodParams" BY <1>2, <2>0, <2>3, Scripts DEF PrintMethodParams
  <2>4. CASE fn = "number" BY <1>2, <2>0, <2>4, Scripts DEF Number
  <2>5. CASE fn = "object" BY <1>2, <2>0, <2>5, Scripts DEF Object
  <2>6. CASE fn = "array" BY <1>2, <2>0, <2>6, Scripts DEF Array
  <2>7. CASE fn = "getClass" BY <1>2, <2>0, <2>7, Scripts
  <2>8. CASE fn = "findClass" BY <1>2, <2>0, <2>8, Scripts
  <2>9. CASE fn = "deleteLocalRef" BY <1>2, <2>0, <2>9, Scripts
  <2>10. CASE fn = "invokeVirtual" BY <1>2, <2>0, <2>10, Scripts DEF InvokeVirtual
  <2>11. CASE fn = "invokeStatic" BY <1>2, <2>0, <2>11, Scripts DEF InvokeStatic
  <2>12. CASE fn = "getField" BY <1>2, <2>0, <2>12, Scripts DEF GetField
  <2>13. CASE fn = "putField" BY <1>2, <2>0, <2>13, Scripts DEF PutField
  <2>14. CASE fn = "checkJniException"
    BY <1>2, <2>0, <2>14, Scripts DEF CheckJniException
  <2>15. CASE fn = "jstringToString" BY <1>2, <2>0, <2>15, Scripts DEF JstringToString
  <2> QED BY <2>1, <2>2, <2>3, <2>4, <2>5, <2>6, <2>7, <2>8, <2>9, <2>10, <2>11,
            <2>12, <2>13, <2>14, <2>15, Names
<1>3. pc \in Steps(fn) BY DEF Exposed
<1>4. (\E g \in 1..(pc - 1) : s[g] = "guard") => pc \in Guarded[fn]
  BY <1>3 DEF Guarded
<1>5. \/ fn = "checkJniException" /\ pc = 1
      \/ \E q \in 1..(pc - 1) :
           s[q] \in Raising /\ \A r \in (q + 1)..(pc - 1) : s[r] \notin Clears
  BY DEF Exposed
<1> QED BY <1>1, <1>2, <1>4, <1>5

-----------------------------------------------------------------------------
(* What an operation on the stack does to it.                              *)

LEMMA ReplaceStack ==
  ASSUME stack \in Seq(Frame), stack # <<>>, NEW f \in Frame, Replace(f)
  PROVE  /\ stack' \in Seq(Frame) /\ Len(stack') = Len(stack)
         /\ \A i \in 1..Len(stack) :
              stack'[i] = IF i = Len(stack) THEN f ELSE stack[i]
BY DEF Replace

LEMMA NewFrame ==
  ASSUME NEW fn \in Functions, NEW e \in Envs \cup {NoEnv}
  PROVE  /\ New(fn, e) \in Frame
         /\ New(fn, e).fn = fn /\ New(fn, e).pc = 1 /\ ~New(fn, e).guard
         /\ New(fn, e).clean /\ New(fn, e).env = e
BY DEF New, Frame

LEMMA PushStack ==
  ASSUME stack \in Seq(Frame), stack # <<>>, NEW c \in Frame,
         NEW fn \in Functions, NEW e \in Envs \cup {NoEnv}, Push(c, fn, e)
  PROVE  /\ stack' \in Seq(Frame) /\ Len(stack') = Len(stack) + 1
         /\ stack'[Len(stack) + 1] = New(fn, e)
         /\ \A i \in 1..Len(stack) :
              stack'[i] = IF i = Len(stack) THEN c ELSE stack[i]
<1> DEFINE s == [stack EXCEPT ![Len(stack)] = c]
<1>1. /\ s \in Seq(Frame) /\ Len(s) = Len(stack)
      /\ \A i \in 1..Len(stack) : s[i] = IF i = Len(stack) THEN c ELSE stack[i]
  OBVIOUS
<1>2. New(fn, e) \in Frame BY NewFrame
<1>3. stack' = Append(s, New(fn, e)) BY DEF Push
<1> HIDE DEF s
<1> QED BY <1>1, <1>2, <1>3

LEMMA PopStack ==
  ASSUME stack \in Seq(Frame), stack # <<>>, Pop
  PROVE  /\ stack' \in Seq(Frame) /\ Len(stack') = Len(stack) - 1
         /\ \A i \in 1..(Len(stack) - 1) : stack'[i] = stack[i]
<1> DEFINE k == Len(stack) - 1
<1>1. k \in Nat /\ k <= Len(stack) OBVIOUS
<1>2. stack' = SubSeq(stack, 1, k) BY DEF Pop
<1> HIDE DEF k
<1>3. /\ SubSeq(stack, 1, k) \in Seq(Frame) /\ Len(SubSeq(stack, 1, k)) = k
      /\ \A i \in 1..k : SubSeq(stack, 1, k)[i] = stack[i]
  BY <1>1
<1> QED BY <1>2, <1>3 DEF k

-----------------------------------------------------------------------------
(* The invariant, frame by frame.                                          *)

FrameOK(f, events) ==
  /\ f \in Frame
  /\ f.pc \in Steps(f.fn)
  /\ f.guard => f.pc \in Guarded[f.fn]
  /\ (f.pc \in DOMAIN Script[f.fn] /\ f.pc \in Guarded[f.fn]) => f.guard
  /\ f.pc = 1 => f.clean
  /\ f.fn = "checkJniException" => f.pc \in DOMAIN Script[f.fn]
  /\ f.fn = "exceptionCallback" => f.env \in events
  /\ f.fn = "Agent_OnLoad" => f.env \in Envs

Outermost == {"Agent_OnLoad", "exceptionCallback"}

Shape ==
  /\ stack \in Seq(Frame)
  /\ \A i \in 1..Len(stack) :
       /\ FrameOK(stack[i], ready)
       /\ stack[i].fn = "Agent_OnLoad" => Len(stack) = 1
       /\ i = 1 => stack[i].fn \in Outermost

Rest ==
  /\ pending \in BOOLEAN
  /\ thrown \in BOOLEAN
  /\ env \in Envs \cup {NoEnv}
  /\ ready \in SUBSET Envs
  /\ died \in {"no", "terminate", "nullPointer"}
  /\ raised \in 0..MaxRaises
  /\ nested \in 0..MaxNested

LEMMA Parts ==
  IInv <=> Rest /\ Shape /\ OnItsWay /\ FailureSeen /\ CallbackRuns
<1>1. ASSUME stack \in Seq(Frame)
      PROVE  (\A i \in 1..Len(stack) : stack[i].pc \in Steps(stack[i].fn)) /\ FramesInOrder
               <=> Shape
  <2>1. \A i \in 1..Len(stack) : stack[i] \in Frame BY <1>1
  <2>2. \A i \in 1..Len(stack) : Len(stack) = 1 => i = 1
    <3>1. Len(stack) \in Nat BY <1>1
    <3> QED BY <3>1
  <2> QED BY <1>1, <2>1, <2>2 DEF FramesInOrder, Shape, FrameOK, Outermost
<1> QED BY <1>1 DEF IInv, TypeOK, Rest, Shape

\* The innermost function, and the step it is at.
LEMMA TopOK ==
  ASSUME IInv, stack # <<>>
  PROVE  /\ stack \in Seq(Frame) /\ Len(stack) \in Nat \ {0}
         /\ Top = stack[Len(stack)] /\ FrameOK(Top, ready) /\ Top \in Frame
         /\ Top.fn \in Functions
         /\ Len(stack) = 1 => Top.fn \in Outermost
         /\ Top.fn = "Agent_OnLoad" => Len(stack) = 1
<1>1. stack \in Seq(Frame) BY Parts DEF Shape
<1>2. Len(stack) \in Nat \ {0} BY <1>1
<1>3. Top = stack[Len(stack)] BY DEF Top
<1>4. /\ FrameOK(Top, ready)
      /\ Len(stack) = 1 => Top.fn \in Outermost
      /\ Top.fn = "Agent_OnLoad" => Len(stack) = 1
  BY <1>2, <1>3, Parts DEF Shape
<1>5. Top \in Frame BY <1>4 DEF FrameOK
<1> HIDE DEF Top
<1>6. Top.fn \in Functions BY <1>5 DEF Frame
<1> QED BY <1>1, <1>2, <1>3, <1>4, <1>5, <1>6

LEMMA AtStep ==
  ASSUME IInv, NEW ops, AtOp(ops), "return" \notin ops
  PROVE  /\ stack # <<>> /\ died = "no" /\ ~thrown
         /\ Top.pc \in DOMAIN Script[Top.fn]
         /\ Op = Script[Top.fn][Top.pc] /\ Op \in ops
         /\ pending => Op \in Tolerant
         /\ Top.fn = "exceptionCallback" /\ Op # "ensureInit" => Top.pc > 1
<1>1. stack # <<>> /\ died = "no" /\ ~thrown /\ Op \in ops BY DEF AtOp
<1>2. Top.pc \in DOMAIN Script[Top.fn] /\ Op = Script[Top.fn][Top.pc] BY <1>1 DEF Op
<1>3. Top.fn \in Functions /\ Top.pc \in Nat \ {0}
  BY <1>1, <1>2, TopOK, Domains DEF FrameOK, Steps
<1>4. pending => Op \in Tolerant
  <2>1. pending => Top.pc \in Exposed[Top.fn] BY <1>1, Parts DEF OnItsWay
  <2> QED BY <1>2, <1>3, <2>1, ExposedOps
<1>5. Top.fn = "exceptionCallback" /\ Op # "ensureInit" => Top.pc > 1
  BY <1>2, <1>3, Ops
<1> QED BY <1>1, <1>2, <1>4, <1>5

\* The step after it.
LEMMA NextOK ==
  ASSUME IInv, stack # <<>>, Top.pc \in DOMAIN Script[Top.fn],
         Op \notin {"guard", "throw"}
  PROVE  /\ FrameOK(Next1, ready) /\ Next1.clean = Top.clean
         /\ Next1.fn = Top.fn /\ Next1.env = Top.env /\ Next1.pc = Top.pc + 1
         /\ Op \in Raising \/ (pending /\ Op \notin Clears) =>
              Next1.pc \in Exposed[Next1.fn]
         /\ Next1.pc \in Guarded[Next1.fn] => Next1.guard
<1> SUFFICES ASSUME NEW t, t = Top
             PROVE  LET n == [t EXCEPT !.pc = @ + 1] IN
               /\ FrameOK(n, ready) /\ n.clean = t.clean
               /\ n.fn = t.fn /\ n.env = t.env /\ n.pc = t.pc + 1
               /\ Op \in Raising \/ (pending /\ Op \notin Clears) => n.pc \in Exposed[n.fn]
               /\ n.pc \in Guarded[n.fn] => n.guard
  BY DEF Next1
<1> DEFINE n == [t EXCEPT !.pc = @ + 1]
<1>1. /\ FrameOK(t, ready) /\ t \in Frame /\ t.fn \in Functions
      /\ t.pc \in DOMAIN Script[t.fn] /\ Op = Script[t.fn][t.pc]
  BY TopOK DEF Op
<1>2. /\ n \in Frame /\ n.fn = t.fn /\ n.env = t.env /\ n.pc = t.pc + 1
      /\ n.guard = t.guard /\ n.clean = t.clean
  BY <1>1 DEF Frame
<1> HIDE DEF n
<1>3. t.pc \in 1..Len(Script[t.fn]) /\ Len(Script[t.fn]) \in Nat
  BY <1>1, Domains
<1>4. t.pc + 1 \in Steps(t.fn) /\ t.pc + 1 # 1 BY <1>3 DEF Steps
<1>5. t.pc + 1 \in Guarded[t.fn] <=> t.pc \in Guarded[t.fn]
  BY <1>1, GuardedNext
<1>6. t.pc + 1 \in Exposed[t.fn] <=>
        Op \in Raising \/ (t.pc \in Exposed[t.fn] /\ Op \notin Clears)
  BY <1>1, ExposedNext
<1>7. pending => t.pc \in Exposed[t.fn] BY Parts DEF OnItsWay
<1>8. t.fn = "checkJniException" => t.pc + 1 \in DOMAIN Script[t.fn] BY <1>1, Ops
<1>9. t.pc \in Guarded[t.fn] <=> t.guard BY <1>1 DEF FrameOK
<1>10. FrameOK(n, ready) BY <1>1, <1>2, <1>4, <1>5, <1>8, <1>9 DEF FrameOK
<1> QED BY <1>2, <1>5, <1>6, <1>7, <1>9, <1>10 DEF n
-----------------------------------------------------------------------------
(* The invariant under an operation on the stack.                          *)

\* A step of the innermost function.
LEMMA ReplaceKeeps ==
  ASSUME IInv, stack # <<>>, Rest', died' = "no",
         NEW f, Replace(f), FrameOK(f, ready), f.fn = Top.fn, f.env = Top.env,
         f.pc >= Top.pc,
         thrown' = FALSE, ready \subseteq ready',
         Top.fn = "Agent_OnLoad" \/ env' = env \/ env' \in ready',
         Top.fn = "exceptionCallback" => Top.pc > 1 \/ env' \in ready',
         pending' => f.pc \in Exposed[f.fn] /\ (f.pc \in Guarded[f.fn] => f.guard),
         ~f.clean => pending'
  PROVE  IInv'
<1> DEFINE k == Len(stack)
<1>1. /\ stack \in Seq(Frame) /\ k \in Nat \ {0} /\ Top = stack[k]
  BY TopOK
<1>2. f \in Frame BY DEF FrameOK
<1>3. /\ stack' \in Seq(Frame) /\ Len(stack') = k
      /\ \A i \in 1..k : stack'[i] = IF i = k THEN f ELSE stack[i]
  BY <1>1, <1>2, ReplaceStack
<1>4. \A i \in 1..k : stack'[i].fn = stack[i].fn BY <1>1, <1>3
<1>5. \A g : FrameOK(g, ready) => FrameOK(g, ready') BY DEF FrameOK
<1>6. Shape'
  <2>1. ASSUME NEW i \in 1..k
        PROVE  /\ FrameOK(stack'[i], ready')
               /\ stack'[i].fn = "Agent_OnLoad" => k = 1
               /\ i = 1 => stack'[i].fn \in Outermost
    <3>1. /\ FrameOK(stack[i], ready)
          /\ stack[i].fn = "Agent_OnLoad" => k = 1
          /\ i = 1 => stack[i].fn \in Outermost
      BY Parts DEF Shape
    <3>2. FrameOK(stack'[i], ready) BY <1>3, <3>1
    <3> QED BY <1>4, <1>5, <3>1, <3>2
  <2> QED BY <1>3, <2>1 DEF Shape
<1>7. stack' # <<>> /\ Top' = f BY <1>1, <1>3 DEF Top
<1>8. OnItsWay' BY <1>7 DEF OnItsWay, Exposed, Guarded
<1>9. FailureSeen'
  <2> SUFFICES ASSUME NEW i \in 1..k, ~stack'[i].clean
               PROVE  IF i = k THEN pending' ELSE stack'[i + 1].fn = "checkJniException"
    BY <1>3 DEF FailureSeen
  <2>1. CASE i = k BY <1>3, <2>1
  <2>2. CASE i # k
    <3>1. ~stack[i].clean /\ i + 1 \in 1..k BY <1>1, <1>3, <2>2
    <3>2. stack[i + 1].fn = "checkJniException"
      BY <2>2, <3>1, Parts DEF FailureSeen
    <3> QED BY <1>4, <2>2, <3>1, <3>2
  <2> QED BY <2>1, <2>2
<1>10. CallbackRuns'
  <2> SUFFICES ASSUME stack'[1].fn = "exceptionCallback"
               PROVE  /\ Len(stack') > 1 => stack'[1].pc > 1
                      /\ stack'[1].pc > 1 => env' \in ready'
    BY DEF CallbackRuns, InCallback
  <2>1. 1 \in 1..k /\ stack[1].fn = "exceptionCallback" BY <1>1, <1>4
  <2>2. /\ k > 1 => stack[1].pc > 1
        /\ stack[1].pc > 1 => env \in ready
    BY <1>1, <2>1, Parts DEF CallbackRuns, InCallback
  <2>3. Top.fn # "Agent_OnLoad" BY <1>1, <2>1, TopOK
  <2>4. CASE k = 1
    <3>1. Top = stack[1] BY <1>1, <2>4
    <3> QED BY <1>3, <2>1, <2>2, <2>3, <2>4, <3>1
  <2>5. CASE k > 1
    <3>1. stack'[1] = stack[1] BY <1>1, <1>3, <2>5
    <3> QED BY <2>2, <2>3, <2>5, <3>1
  <2>6. k = 1 \/ k > 1
    <3>1. k \in Nat \ {0} BY <1>1
    <3> HIDE DEF k
    <3> QED BY <3>1
  <2> QED BY <2>4, <2>5, <2>6
<1>11. Rest' /\ Shape' /\ OnItsWay' /\ FailureSeen' /\ CallbackRuns'
  BY <1>6, <1>8, <1>9, <1>10
<1> QED BY <1>11 DEF Rest, Shape, OnItsWay, FailureSeen, CallbackRuns, IInv, TypeOK,
             FramesInOrder, FrameOK, Outermost
\* A call.
LEMMA PushKeeps ==
  ASSUME IInv, stack # <<>>, ~thrown, Rest', died' = "no",
         UNCHANGED <<pending, thrown, env, ready>>,
         NEW c, NEW fn \in Functions \ {"Agent_OnLoad"}, NEW e \in Envs \cup {NoEnv},
         Push(c, fn, e),
         FrameOK(c, ready), c.fn = Top.fn, c.env = Top.env, c.pc >= Top.pc,
         Top.fn # "Agent_OnLoad",
         Top.fn = "exceptionCallback" => Top.pc > 1,
         fn = "exceptionCallback" => e \in ready,
         pending \/ ~c.clean => fn = "checkJniException"
  PROVE  IInv'
<1> DEFINE k == Len(stack)
           n == New(fn, e)
<1>1. /\ stack \in Seq(Frame) /\ k \in Nat \ {0} /\ Top = stack[k]
  BY TopOK
<1>2. c \in Frame BY DEF FrameOK
<1>3. /\ stack' \in Seq(Frame) /\ Len(stack') = k + 1 /\ stack'[k + 1] = n
      /\ \A i \in 1..k : stack'[i] = IF i = k THEN c ELSE stack[i]
  BY <1>1, <1>2, PushStack
<1>4. \A i \in 1..k : stack'[i].fn = stack[i].fn BY <1>1, <1>3
<1>5. /\ n \in Frame /\ n.fn = fn /\ n.pc = 1 /\ ~n.guard /\ n.clean /\ n.env = e
  BY NewFrame
<1> HIDE DEF n
<1>6. 1 \in DOMAIN Script[fn] /\ 1 \in Steps(fn)
  BY Domains DEF Steps
<1>7. 1 \notin Guarded[fn] /\ (fn = "checkJniException" => 1 \in Exposed[fn])
  BY <1>6, GuardedNext, ExposedNext
<1>8. FrameOK(n, ready) BY <1>5, <1>6, <1>7 DEF FrameOK
<1>9. Shape'
  <2>1. \A i \in 1..k : stack[i].fn # "Agent_OnLoad"
    <3> SUFFICES ASSUME NEW i \in 1..k, stack[i].fn = "Agent_OnLoad" PROVE FALSE
      OBVIOUS
    <3>1. k = 1 BY Parts DEF Shape
    <3>2. Top = stack[i] BY <1>1, <3>1
    <3> QED BY <3>2
  <2>2. ASSUME NEW i \in 1..(k + 1)
        PROVE  /\ FrameOK(stack'[i], ready)
               /\ stack'[i].fn # "Agent_OnLoad"
               /\ i = 1 => stack'[i].fn \in Outermost
    <3>1. CASE i = k + 1 BY <1>1, <1>3, <1>5, <1>8, <3>1
    <3>2. CASE i \in 1..k
      <4>1. /\ FrameOK(stack[i], ready)
            /\ i = 1 => stack[i].fn \in Outermost
        BY <3>2, Parts DEF Shape
      <4>2. FrameOK(stack'[i], ready) BY <1>3, <3>2, <4>1
      <4> QED BY <1>4, <2>1, <3>2, <4>1, <4>2
    <3>3. i = k + 1 \/ i \in 1..k BY <1>1
    <3> QED BY <3>1, <3>2, <3>3
  <2> QED BY <1>3, <2>2 DEF Shape
<1>10. stack' # <<>> /\ Top' = n BY <1>1, <1>3 DEF Top
<1>11. OnItsWay' BY <1>5, <1>7, <1>10 DEF OnItsWay, Exposed, Guarded
<1>12. FailureSeen'
  <2> SUFFICES ASSUME NEW i \in 1..(k + 1), ~stack'[i].clean
               PROVE  i # k + 1 /\ stack'[i + 1].fn = "checkJniException"
    BY <1>3 DEF FailureSeen
  <2>1. i # k + 1 BY <1>3, <1>5
  <2>2. i \in 1..k BY <1>1, <2>1
  <2>3. CASE i = k BY <1>3, <1>5, <2>1, <2>2, <2>3
  <2>4. CASE i # k
    <3>1. ~stack[i].clean /\ i + 1 \in 1..k BY <1>1, <1>3, <2>2, <2>4
    <3>2. stack[i + 1].fn = "checkJniException"
      BY <2>2, <2>4, <3>1, Parts DEF FailureSeen
    <3> QED BY <1>4, <2>1, <3>1, <3>2
  <2> QED BY <2>3, <2>4
<1>13. CallbackRuns'
  <2> SUFFICES ASSUME stack'[1].fn = "exceptionCallback"
               PROVE  stack'[1].pc > 1 /\ env \in ready
    BY DEF CallbackRuns, InCallback
  <2>1. 1 \in 1..k /\ stack[1].fn = "exceptionCallback" BY <1>1, <1>4
  <2>2. /\ k > 1 => stack[1].pc > 1
        /\ stack[1].pc > 1 => env \in ready
    BY <1>1, <2>1, Parts DEF CallbackRuns, InCallback
  <2>3. CASE k = 1
    <3>1. Top = stack[1] BY <1>1, <2>3
    <3>2. stack'[1] = c BY <1>3, <2>1, <2>3
    <3>3. Top.pc \in Nat /\ c.pc \in Nat BY <1>2, TopOK DEF Frame
    <3> QED BY <2>1, <2>2, <3>1, <3>2, <3>3
  <2>4. CASE k > 1
    <3>1. stack'[1] = stack[1] BY <1>1, <1>3, <2>4
    <3> QED BY <2>2, <2>4, <3>1
  <2>5. k = 1 \/ k > 1
    <3>1. k \in Nat \ {0} BY <1>1
    <3> HIDE DEF k
    <3> QED BY <3>1
  <2> QED BY <2>3, <2>4, <2>5
<1>14. Rest' /\ Shape' /\ OnItsWay' /\ FailureSeen' /\ CallbackRuns'
  BY <1>9, <1>11, <1>12, <1>13
<1> QED BY <1>14 DEF Rest, Shape, OnItsWay, FailureSeen, CallbackRuns, IInv, TypeOK,
             FramesInOrder, FrameOK, Outermost

\* A return, or the end of a function by an exception.
LEMMA PopKeeps ==
  ASSUME IInv, stack # <<>>, ~pending, Rest', Pop, died = "no",
         UNCHANGED <<pending, env, ready, died>>,
         thrown' => Top.fn \notin Outermost,
         ~thrown' => Top.fn # "checkJniException"
  PROVE  IInv'
<1> DEFINE k == Len(stack)
<1>1. /\ stack \in Seq(Frame) /\ k \in Nat \ {0} /\ Top = stack[k]
      /\ k = 1 => Top.fn \in Outermost
  BY TopOK
<1>2. /\ stack' \in Seq(Frame) /\ Len(stack') = k - 1
      /\ \A i \in 1..(k - 1) : stack'[i] = stack[i]
  BY <1>1, PopStack
<1>3. \A i \in 1..(k - 1) : i \in 1..k /\ i + 1 \in 1..k /\ i # k BY <1>1
<1>4. Shape'
  <2>1. ASSUME NEW i \in 1..(k - 1)
        PROVE  /\ FrameOK(stack'[i], ready)
               /\ stack'[i].fn # "Agent_OnLoad"
               /\ i = 1 => stack'[i].fn \in Outermost
    <3>1. /\ FrameOK(stack[i], ready)
          /\ i = 1 => stack[i].fn \in Outermost
          /\ stack[i].fn = "Agent_OnLoad" => k = 1
      BY <1>3, Parts DEF Shape
    <3> QED BY <1>1, <1>2, <3>1
  <2> QED BY <1>2, <2>1 DEF Shape
<1>5. OnItsWay'
  <2>1. thrown' => k # 1 BY <1>1
  <2>2. k # 1 => stack' # <<>> BY <1>1, <1>2
  <2> QED BY <2>1, <2>2 DEF OnItsWay
<1>6. FailureSeen'
  <2> SUFFICES ASSUME NEW i \in 1..(k - 1), ~stack'[i].clean
               PROVE  IF i = k - 1 THEN thrown' ELSE stack'[i + 1].fn = "checkJniException"
    BY <1>2 DEF FailureSeen
  <2>1. stack[i + 1].fn = "checkJniException"
    BY <1>2, <1>3, Parts DEF FailureSeen
  <2>2. CASE i = k - 1 BY <1>1, <2>1, <2>2
  <2>3. CASE i # k - 1
    <3>1. i + 1 \in 1..(k - 1) BY <1>1, <2>3
    <3> QED BY <1>2, <2>1, <2>3, <3>1
  <2> QED BY <2>2, <2>3
<1>7. CallbackRuns'
  <2> SUFFICES ASSUME stack' # <<>>, stack'[1].fn = "exceptionCallback"
               PROVE  /\ k - 1 > 1 => stack'[1].pc > 1
                      /\ stack'[1].pc > 1 => env \in ready
    BY <1>2 DEF CallbackRuns, InCallback
  <2>1. k > 1 /\ stack'[1] = stack[1]
    <3>1. k - 1 # 0 BY <1>2
    <3> QED BY <1>1, <1>2, <3>1
  <2> QED BY <1>1, <2>1, Parts DEF CallbackRuns, InCallback
<1>8. Rest' /\ Shape' /\ OnItsWay' /\ FailureSeen' /\ CallbackRuns'
  BY <1>4, <1>5, <1>6, <1>7
<1> QED BY <1>8 DEF Rest, Shape, OnItsWay, FailureSeen, CallbackRuns, IInv, TypeOK,
             FramesInOrder, FrameOK, Outermost

\* A C++ exception is thrown, or the process ends.
LEMMA StayKeeps ==
  ASSUME IInv, stack # <<>>, Rest', UNCHANGED <<stack, env, ready>>,
         thrown' => ~pending',
         pending' => pending,
         pending => pending' \/ thrown',
         thrown => thrown',
         InCallback => died' = "no"
  PROVE  IInv'
<1>1. Shape' BY Parts DEF Shape
<1>2. OnItsWay' BY Parts DEF OnItsWay, Top
<1>3. FailureSeen' BY Parts DEF FailureSeen
<1>4. CallbackRuns' BY Parts DEF CallbackRuns, InCallback
<1>5. Rest' /\ Shape' /\ OnItsWay' /\ FailureSeen' /\ CallbackRuns'
  BY <1>1, <1>2, <1>3, <1>4
<1> QED BY <1>5 DEF Rest, Shape, OnItsWay, FailureSeen, CallbackRuns, IInv, TypeOK,
             FramesInOrder, FrameOK, Outermost
-----------------------------------------------------------------------------
(* The invariant under each action.                                        *)

\* The step done, and nothing but the stack, the pending exception and what is
\* counted changed by it.
LEMMA AdvanceKeeps ==
  ASSUME IInv, NEW ops, AtOp(ops), "return" \notin ops, Advance,
         Op \notin {"guard", "throw"},
         Rest', UNCHANGED <<thrown, died>>,
         ready \subseteq ready',
         Top.fn = "Agent_OnLoad" \/ env' = env \/ env' \in ready',
         Op = "ensureInit" => env' \in ready',
         pending' => pending /\ Op \notin Clears,
         pending => pending' \/ Top.clean
  PROVE  IInv'
<1>1. /\ stack # <<>> /\ died = "no" /\ ~thrown
      /\ Top.pc \in DOMAIN Script[Top.fn]
      /\ Top.fn = "exceptionCallback" /\ Op # "ensureInit" => Top.pc > 1
  BY AtStep
<1>2. /\ FrameOK(Next1, ready) /\ Next1.clean = Top.clean
      /\ Next1.fn = Top.fn /\ Next1.env = Top.env /\ Next1.pc = Top.pc + 1
      /\ pending /\ Op \notin Clears => Next1.pc \in Exposed[Next1.fn]
      /\ Next1.pc \in Guarded[Next1.fn] => Next1.guard
  BY <1>1, NextOK
<1>3. ~Top.clean => pending'
  <2>1. stack \in Seq(Frame) /\ Len(stack) \in Nat \ {0} /\ Top = stack[Len(stack)]
    BY <1>1, TopOK
  <2>2. ~Top.clean => pending \/ thrown BY <2>1, Parts DEF FailureSeen
  <2> QED BY <1>1, <2>2
<1>4. Next1.pc >= Top.pc
  <2>1. Top.pc \in Nat BY <1>1, TopOK DEF Frame
  <2> QED BY <1>2, <2>1
<1>5. Replace(Next1) BY DEF Advance
<1>6. died' = "no" /\ thrown' = FALSE BY <1>1
<1> HIDE DEF Next1
<1> QED BY <1>1, <1>2, <1>3, <1>4, <1>5, <1>6, ReplaceKeeps

LEMMA JniCallKeeps == ASSUME IInv, JniCall PROVE IInv'
<1> USE DEF Jni, Raising, Permitted, Clears
<1>1. /\ AtOp(Jni) /\ "return" \notin Jni /\ Op \in Jni
      /\ UNCHANGED <<thrown, env, ready, died, nested>>
  BY DEF JniCall, AtOp
<1>2. Rest'
  <2>1. Rest BY Parts
  <2>2. /\ pending' \in BOOLEAN
        /\ raised' = raised \/ (raised < MaxRaises /\ raised' = raised + 1)
    BY <2>1 DEF JniCall, Raise, Rest
  <2>3. raised' \in 0..MaxRaises BY <2>1, <2>2, BoundsAssumption DEF Rest
  <2> QED BY <1>1, <2>1, <2>2, <2>3 DEF Rest
<1>3. Op \notin {"guard", "throw", "ensureInit"} /\ Op \notin Clears BY <1>1
<1>4. CASE Advance /\ UNCHANGED <<pending, raised>>
  <2> USE <1>4
  <2>1. env' = env \/ env' \in ready' BY <1>1
  <2>2. pending' = pending BY <1>4
  <2> HIDE DEF Jni, Clears
  <2> QED BY <1>1, <1>2, <1>3, <2>1, <2>2, AdvanceKeeps
<1>5. CASE Op \in Raising /\ Raise
  <2>1. /\ stack # <<>> /\ died = "no" /\ ~thrown
        /\ Top.pc \in DOMAIN Script[Top.fn]
        /\ Top.fn = "exceptionCallback" => Top.pc > 1
    BY <1>1, <1>3, AtStep
  <2>2. /\ FrameOK(Next1, ready)
        /\ Next1.fn = Top.fn /\ Next1.env = Top.env /\ Next1.pc = Top.pc + 1
        /\ Op \in Raising => Next1.pc \in Exposed[Next1.fn]
        /\ Next1.pc \in Guarded[Next1.fn] => Next1.guard
    BY <1>3, <2>1, NextOK
  <2> SUFFICES ASSUME NEW n, n = Next1 PROVE IInv' OBVIOUS
  <2> DEFINE f == [n EXCEPT !.clean = FALSE]
  <2>3. Top.pc \in Nat \ {0} BY <2>1, TopOK DEF FrameOK, Steps
  <2>4. /\ f \in Frame /\ f.fn = n.fn /\ f.pc = n.pc /\ f.guard = n.guard /\ f.env = n.env
        /\ f.clean = FALSE
    <3>1. n \in Frame BY <2>2 DEF FrameOK
    <3> QED BY <3>1 DEF Frame
  <2>5. Replace(f) /\ pending' = TRUE BY <1>5 DEF Raise
  <2> HIDE DEF f
  <2>6. FrameOK(f, ready) /\ f.pc >= Top.pc /\ f.pc # 1
    BY <2>2, <2>3, <2>4 DEF FrameOK
  <2>7. /\ f.fn = Top.fn /\ f.env = Top.env /\ f.pc \in Exposed[f.fn]
        /\ f.pc \in Guarded[f.fn] => f.guard
    BY <1>5, <2>2, <2>4
  <2>8. died' = "no" /\ thrown' = FALSE BY <1>1, <2>1
  <2> QED BY <1>1, <1>2, <2>1, <2>5, <2>6, <2>7, <2>8, ReplaceKeeps
<1> QED BY <1>4, <1>5 DEF JniCall

\* A function in which a call failed has the exception pending.
LEMMA TopClean ==
  ASSUME IInv, stack # <<>>, ~Top.clean PROVE pending \/ thrown
<1>1. Len(stack) \in Nat \ {0} /\ Top = stack[Len(stack)] BY TopOK
<1>2. Len(stack) \in 1..Len(stack) BY <1>1
<1>3. ~stack[Len(stack)].clean => pending \/ thrown
  BY <1>2, Parts, Zenon DEF FailureSeen
<1> QED BY <1>1, <1>3

LEMMA GuardKeeps == ASSUME IInv, Guard PROVE IInv'
<1>1. /\ stack # <<>> /\ died = "no" /\ ~thrown
      /\ Top.pc \in DOMAIN Script[Top.fn]
      /\ Op = Script[Top.fn][Top.pc] /\ Op = "guard" /\ ~pending
      /\ Top.fn = "exceptionCallback" => Top.pc > 1
  BY AtStep DEF Guard, Tolerant
<1> SUFFICES ASSUME NEW t, t = Top PROVE IInv' OBVIOUS
<1>2. FrameOK(t, ready) /\ t \in Frame /\ t.fn \in Functions BY <1>1, TopOK
<1> DEFINE n == [t EXCEPT !.pc = @ + 1]
           f == [n EXCEPT !.guard = TRUE]
<1>3. t.pc \in Nat BY <1>2 DEF Frame
<1>4. /\ f \in Frame /\ f.fn = t.fn /\ f.pc = t.pc + 1 /\ f.guard = TRUE
      /\ f.clean = t.clean /\ f.env = t.env
  <2>1. /\ n \in Frame /\ n.fn = t.fn /\ n.pc = t.pc + 1
        /\ n.clean = t.clean /\ n.env = t.env
    BY <1>2, <1>3 DEF Frame
  <2> HIDE DEF n
  <2> QED BY <2>1 DEF Frame
<1>5. Replace(f) /\ UNCHANGED <<pending, thrown, env, ready, died, raised, nested>>
  BY DEF Guard, OnlyStack, Next1
<1> HIDE DEF f
<1>6. f.pc \in Guarded[f.fn] BY <1>1, <1>2, <1>4, GuardedNext, ZenonT(30)
<1>7. t.fn # "checkJniException" BY <1>1, <1>2, Ops
<1>8. t.pc \in 1..Len(Script[t.fn]) /\ Len(Script[t.fn]) \in Nat BY <1>1, <1>2, Domains
<1>9. f.pc \in Steps(f.fn) /\ f.pc # 1 BY <1>4, <1>8 DEF Steps
<1>10. FrameOK(f, ready) BY <1>2, <1>4, <1>6, <1>7, <1>9 DEF FrameOK
<1>11. t.clean BY <1>1, TopClean
<1>12. Rest' BY <1>5, Parts DEF Rest
<1>13. pending' = FALSE /\ died' = "no" /\ thrown' = FALSE
  BY <1>1, <1>5, Parts DEF Rest
<1>14. f.fn = Top.fn /\ f.env = Top.env /\ f.pc >= Top.pc /\ f.clean
  BY <1>3, <1>4, <1>11
<1> QED BY <1>1, <1>5, <1>10, <1>12, <1>13, <1>14, ReplaceKeeps
LEMMA CallKeeps ==
  ASSUME IInv, NEW ops, AtOp(ops), "return" \notin ops,
         Op \notin {"guard", "throw", "ensureInit"} \cup LoadOps,
         NEW fn \in Functions \ Outermost, Call(fn), OnlyStack,
         pending => fn = "checkJniException"
  PROVE  IInv'
<1>1. /\ stack # <<>> /\ died = "no" /\ ~thrown
      /\ Top.pc \in DOMAIN Script[Top.fn] /\ Op = Script[Top.fn][Top.pc]
      /\ Top.fn = "exceptionCallback" => Top.pc > 1
  BY AtStep
<1>2. Top.fn # "Agent_OnLoad" BY <1>1, TopOK, Ops
<1>3. /\ FrameOK(Next1, ready) /\ Next1.clean = Top.clean
      /\ Next1.fn = Top.fn /\ Next1.env = Top.env /\ Next1.pc = Top.pc + 1
  BY <1>1, NextOK
<1>4. Next1.pc >= Top.pc
  <2>1. Top.pc \in Nat BY <1>1, TopOK DEF Frame
  <2> QED BY <1>3, <2>1
<1>5. pending \/ ~Next1.clean => fn = "checkJniException" BY <1>1, <1>3, TopClean
<1>6. /\ UNCHANGED <<pending, thrown, env, ready>> /\ died' = "no"
      /\ Rest'
  BY <1>1, Parts DEF OnlyStack, Rest
<1>7. Push(Next1, fn, NoEnv) BY DEF Call
<1>8. fn # "exceptionCallback" /\ fn # "Agent_OnLoad" BY DEF Outermost
<1> HIDE DEF Next1
<1> QED BY <1>1, <1>2, <1>3, <1>4, <1>5, <1>6, <1>7, <1>8, PushKeeps

LEMMA CheckKeeps == ASSUME IInv, Check PROVE IInv'
<1>1. AtOp({"check"}) /\ Op = "check" /\ OnlyStack BY DEF Check, AtOp
<1>2. Rest' /\ UNCHANGED <<thrown, died, env, ready>> BY <1>1, Parts DEF OnlyStack, Rest
<1>3. CASE pending
  <2>1. Call("checkJniException") BY <1>3 DEF Check
  <2>2. "checkJniException" \in Functions \ Outermost BY Names DEF Outermost
  <2> QED BY <1>1, <2>1, <2>2, CallKeeps DEF LoadOps
<1>4. CASE ~pending
  <2>1. Advance BY <1>4 DEF Check
  <2>2. ~pending' BY <1>1, <1>4 DEF OnlyStack
  <2> QED BY <1>1, <1>2, <1>4, <2>1, <2>2, AdvanceKeeps
<1> QED BY <1>3, <1>4

LEMMA StringOfKeeps == ASSUME IInv, StringOf PROVE IInv'
<1>1. AtOp({"jstringToString"}) /\ Op = "jstringToString" /\ OnlyStack
  BY DEF StringOf, AtOp
<1>2. Rest' /\ UNCHANGED <<pending, thrown, died, env, ready>>
  BY <1>1, Parts DEF OnlyStack, Rest
<1>3. CASE Advance
  <2>1. Op \notin Clears BY <1>1 DEF Clears
  <2> QED BY <1>1, <1>2, <1>3, <2>1, AdvanceKeeps
<1>4. CASE ~pending /\ Call("jstringToString")
  <2>1. "jstringToString" \in Functions \ Outermost BY Names DEF Outermost
  <2> QED BY <1>1, <1>4, <2>1, CallKeeps DEF LoadOps
<1> QED BY <1>3, <1>4 DEF StringOf

LEMMA CallWrapperKeeps == ASSUME IInv, CallWrapper PROVE IInv'
<1> DEFINE Ops1 == Wrappers \cup {"localVariableToString"}
<1>1. AtOp(Ops1) /\ Op \in Ops1 /\ OnlyStack
      /\ \E fn \in Wrappers \cup {"number", "object", "array"} : Call(fn)
  BY DEF CallWrapper, AtOp
<1>2. "return" \notin Ops1 /\ Op \notin {"guard", "throw", "ensureInit"} \cup LoadOps
      /\ Op \notin Tolerant
  BY <1>1 DEF Wrappers, LoadOps, Tolerant
<1>3. Wrappers \cup {"number", "object", "array"} \subseteq Functions \ Outermost
  BY Names DEF Wrappers, Outermost
<1> HIDE DEF Ops1
<1>4. ~pending BY <1>1, <1>2, AtStep
<1> QED BY <1>1, <1>2, <1>3, <1>4, CallKeeps

\* A thrown exception: the step is one at which none is pending, or it clears it.
LEMMA ThrowKeeps ==
  ASSUME IInv, NEW ops, AtOp(ops), "return" \notin ops, ThrowCpp,
         UNCHANGED <<env, ready, died, raised, nested>>, pending' = FALSE
  PROVE  IInv'
<1>1. stack # <<>> /\ died = "no" BY AtStep
<1>2. UNCHANGED stack /\ thrown' = TRUE BY DEF ThrowCpp
<1>3. Rest' BY <1>2, Parts DEF Rest
<1> QED BY <1>1, <1>2, <1>3, StayKeeps

LEMMA GiveUpKeeps == ASSUME IInv, GiveUp PROVE IInv'
<1>1. AtOp({"giveUp"}) /\ Op = "giveUp" /\ pending' = FALSE
      /\ UNCHANGED <<env, ready, died, raised, nested>>
  BY DEF GiveUp, AtOp
<1>2. CASE pending
  <2>1. ThrowCpp BY <1>2 DEF GiveUp
  <2> QED BY <1>1, <2>1, ThrowKeeps
<1>3. CASE ~pending
  <2>1. Advance /\ UNCHANGED thrown BY <1>3 DEF GiveUp
  <2>2. Rest' BY <1>1, <2>1, Parts DEF Rest
  <2> QED BY <1>1, <1>3, <2>1, <2>2, AdvanceKeeps
<1> QED BY <1>2, <1>3

LEMMA ExceptionClearKeeps == ASSUME IInv, ExceptionClear PROVE IInv'
<1>1. AtOp({"ExceptionClear"}) /\ Op = "ExceptionClear" /\ pending' = FALSE /\ Advance
      /\ UNCHANGED <<thrown, env, ready, died, raised, nested>>
  BY DEF ExceptionClear, AtOp
<1>2. /\ stack # <<>> /\ Top.pc \in DOMAIN Script[Top.fn]
      /\ Op = Script[Top.fn][Top.pc]
  BY <1>1, AtStep
<1>3. Top.fn = "checkJniException" /\ Top.pc = 1
  BY <1>1, <1>2, TopOK, Ops DEF DescribeOps
<1>4. Top.clean BY <1>2, <1>3, TopOK DEF FrameOK
<1>5. Rest' BY <1>1, Parts DEF Rest
<1> QED BY <1>1, <1>4, <1>5, AdvanceKeeps

LEMMA ThrowOrConstructKeeps == ASSUME IInv, Throw \/ Construct PROVE IInv'
<1> DEFINE ops == {"throw", "analyse", "construct"}
<1>1. /\ AtOp(ops) /\ Op \in ops
      /\ UNCHANGED <<pending, env, ready, died, raised, nested>>
      /\ ThrowCpp \/ (Op # "throw" /\ Advance /\ UNCHANGED thrown)
  BY DEF Throw, Construct, OnlyThrown, AtOp
<1>2. ~pending /\ ~pending'
  <2>1. ops \cap Tolerant = {} /\ "return" \notin ops BY DEF Tolerant
  <2> HIDE DEF ops
  <2> QED BY <1>1, <2>1, AtStep
<1>3. CASE ThrowCpp
  <2>1. pending' = FALSE BY <1>1, <1>2, Parts DEF Rest
  <2> QED BY <1>1, <1>3, <2>1, ThrowKeeps
<1>4. CASE Op # "throw" /\ Advance /\ UNCHANGED thrown
  <2>1. Rest' BY <1>1, <1>4, Parts DEF Rest
  <2>2. Op \notin {"guard", "throw", "ensureInit"} BY <1>1, <1>4
  <2>3. "return" \notin ops OBVIOUS
  <2> HIDE DEF ops
  <2> QED BY <1>1, <1>2, <1>4, <2>1, <2>2, <2>3, AdvanceKeeps
<1> QED BY <1>1, <1>3, <1>4
LEMMA ReturnKeeps ==
  ASSUME IInv, Return
  PROVE  /\ IInv'
         /\ Len(stack') < Len(stack) => Top.clean
<1>1. OnlyStack /\ stack # <<>> /\ died = "no" /\ ~thrown BY DEF Return, AtOp
<1>2. Rest' /\ UNCHANGED <<pending, thrown, env, ready, died>>
  BY <1>1, Parts DEF OnlyStack, Rest
<1>3. /\ stack \in Seq(Frame) /\ Len(stack) \in Nat \ {0} /\ FrameOK(Top, ready)
      /\ Top.fn \in Functions /\ Top \in Frame
  BY <1>1, TopOK
<1>4. ASSUME AtOp({"mayReturn"}) PROVE Op = "mayReturn" /\ ~pending
  BY <1>4, AtStep DEF Tolerant
<1>5. CASE AtOp({"mayReturn"}) /\ Advance
  <2>1. Len(stack') = Len(stack)
    <3>1. stack' = [stack EXCEPT ![Len(stack)] = Next1] BY <1>5 DEF Advance, Replace
    <3> HIDE DEF Next1
    <3> QED BY <1>3, <3>1
  <2>2. IInv' BY <1>2, <1>4, <1>5, AdvanceKeeps
  <2> QED BY <1>3, <2>1, <2>2
<1>6. CASE AtOp({"mayReturn"}) /\ Pop
  <2>1. Op = "mayReturn" /\ ~pending BY <1>4, <1>6
  <2>2. Top.fn # "checkJniException" BY <1>3, <1>6, <2>1, AtStep, Ops
  <2>3. Top.clean BY <1>1, <2>1, TopClean
  <2> QED BY <1>1, <1>2, <1>6, <2>1, <2>2, <2>3, PopKeeps
<1>7. ASSUME AtOp({"return"})
      PROVE  /\ Top.pc \notin DOMAIN Script[Top.fn] /\ Top.fn # "checkJniException"
             /\ pending => Top.guard
  <2>1. Op = "return" BY <1>7 DEF AtOp
  <2>2. Top.pc \notin DOMAIN Script[Top.fn]
    <3> SUFFICES ASSUME Top.pc \in DOMAIN Script[Top.fn] PROVE FALSE OBVIOUS
    <3>1. Op = Script[Top.fn][Top.pc] BY DEF Op
    <3> QED BY <1>3, <2>1, <3>1, Ops
  <2>3. Top.fn # "checkJniException" BY <1>3, <2>2 DEF FrameOK
  <2>4. ASSUME pending PROVE Top.guard
    <3>1. /\ Top.pc \in Exposed[Top.fn]
          /\ Top.pc \in Guarded[Top.fn] => Top.guard
      BY <2>4, Parts DEF OnItsWay
    <3>2. Top.pc \in Guarded[Top.fn] BY <1>3, <2>2, <3>1, ExposedOps
    <3> QED BY <3>1, <3>2
  <2> QED BY <2>2, <2>3, <2>4
<1>8. CASE AtOp({"return"}) /\ ~Top.guard /\ Pop
  <2>1. ~pending /\ Top.fn # "checkJniException" BY <1>7, <1>8
  <2>2. Top.clean BY <1>1, <2>1, TopClean
  <2> QED BY <1>1, <1>2, <1>8, <2>1, <2>2, PopKeeps
<1>9. CASE AtOp({"return"}) /\ Top.guard
  <2> SUFFICES ASSUME NEW t, t = Top
               PROVE  IInv' /\ Len(stack') \in {Len(stack), Len(stack) + 1}
    BY <1>3
  <2> DEFINE f == [t EXCEPT !.guard = FALSE]
  <2>1. /\ f \in Frame /\ f.fn = t.fn /\ f.pc = t.pc /\ f.guard = FALSE
        /\ f.clean = t.clean /\ f.env = t.env
    BY <1>3 DEF Frame
  <2>2. IF pending THEN Push(f, "checkJniException", NoEnv) ELSE Replace(f)
    BY <1>9 DEF Return, AtOp
  <2> HIDE DEF f
  <2>3. /\ t.pc \notin DOMAIN Script[t.fn] /\ t.fn # "checkJniException"
        /\ t.pc \in Steps(t.fn)
    BY <1>3, <1>7, <1>9 DEF FrameOK
  <2>4. t.pc \in Nat /\ t.pc > 1
    <3>1. t.pc \in 1..(Len(Script[t.fn]) + 1) BY <2>3 DEF Steps
    <3> QED BY <1>3, <2>3, <3>1, Domains
  <2>5. FrameOK(f, ready) BY <1>3, <2>1, <2>3 DEF FrameOK
  <2>6. f.fn = Top.fn /\ f.env = Top.env /\ f.pc >= Top.pc BY <2>1, <2>4
  <2>7. died' = "no" BY <1>1, <1>2
  <2>8. CASE pending
    <3>1. Push(f, "checkJniException", NoEnv) BY <2>2, <2>8
    <3>2. Top.fn # "Agent_OnLoad"
      <4>1. Top.guard => Top.pc \in Guarded[Top.fn] BY <1>3 DEF FrameOK
      <4>2. Top.pc \in Guarded[Top.fn] =>
              \E q \in 1..(Top.pc - 1) : Script[Top.fn][q] = "guard"
        BY <1>3 DEF Guarded
      <4>3. PICK q \in 1..(Top.pc - 1) : Script[Top.fn][q] = "guard"
        BY <1>9, <4>1, <4>2
      <4>4. q \in DOMAIN Script[Top.fn]
        <5>1. t.pc \in 1..(Len(Script[t.fn]) + 1) BY <2>3 DEF Steps
        <5> QED BY <1>3, <2>4, <5>1, Domains
      <4> QED BY <1>3, <4>3, <4>4, Ops DEF LoadOps
    <3>3. "checkJniException" \in Functions BY Names
    <3>4. Len(stack') = Len(stack) + 1 BY <1>1, <1>3, <2>1, <3>1, <3>3, PushStack
    <3>5. Top.fn = "exceptionCallback" => Top.pc > 1 BY <2>4
    <3>6. IInv'
      BY <1>1, <1>2, <2>5, <2>6, <2>7, <3>1, <3>2, <3>3, <3>5, PushKeeps
    <3> QED BY <3>4, <3>6
  <2>9. CASE ~pending
    <3>1. Replace(f) BY <2>2, <2>9
    <3>2. Len(stack') = Len(stack) BY <1>1, <1>3, <2>1, <3>1, ReplaceStack
    <3>3. f.clean BY <1>1, <2>1, <2>9, TopClean
    <3>4. ~pending' /\ thrown' = FALSE BY <1>1, <1>2, <2>9
    <3>5. Top.pc > 1 BY <2>4
    <3>6. ready \subseteq ready' /\ env' = env BY <1>2
    <3>7. IInv' BY <1>1, <1>2, <2>5, <2>6, <2>7, <3>1, <3>3, <3>4, <3>5, <3>6, ReplaceKeeps
    <3> QED BY <3>2, <3>7
  <2> QED BY <2>8, <2>9
<1> QED BY <1>5, <1>6, <1>8, <1>9 DEF Return

LEMMA UnwindKeeps == ASSUME IInv, Unwind PROVE IInv'
<1>1. /\ died = "no" /\ thrown /\ ~pending /\ stack # <<>>
      /\ UNCHANGED <<pending, env, ready, raised, nested>>
  BY Parts DEF Unwind, OnItsWay
<1>2. /\ Len(stack) \in Nat \ {0} /\ Top = stack[Len(stack)]
      /\ Top.fn = "Agent_OnLoad" => Len(stack) = 1
  BY <1>1, TopOK
<1>3. CASE Top.fn = "Agent_OnLoad"
  <2>1. died' = "terminate" /\ UNCHANGED <<stack, thrown>> BY <1>3 DEF Unwind
  <2>2. ~InCallback BY <1>2, <1>3 DEF InCallback
  <2>3. Rest' BY <1>1, <2>1, Parts DEF Rest
  <2> QED BY <1>1, <2>1, <2>2, <2>3, StayKeeps
<1>4. CASE Top.fn # "Agent_OnLoad"
  <2>1. thrown' = (Top.fn # "exceptionCallback") /\ Pop /\ UNCHANGED died
    BY <1>1, <1>4 DEF Unwind
  <2>2. Rest' BY <1>1, <2>1, Parts DEF Rest
  <2>3. thrown' => Top.fn \notin Outermost BY <1>4, <2>1 DEF Outermost
  <2>4. ~thrown' => Top.fn # "checkJniException" BY <2>1
  <2> QED BY <1>1, <2>1, <2>2, <2>3, <2>4, PopKeeps
<1> QED BY <1>3, <1>4
\* In a callback, past its first step, the environment is one of the agent's.
LEMMA EnvOfCallback ==
  ASSUME IInv, stack # <<>>, Top.fn # "Agent_OnLoad",
         Top.fn = "exceptionCallback" => Top.pc > 1
  PROVE  InCallback /\ env \in ready /\ env # NoEnv
<1>1. /\ stack \in Seq(Frame) /\ Len(stack) \in Nat \ {0} /\ Top = stack[Len(stack)]
      /\ Len(stack) = 1 => Top.fn \in Outermost
  BY TopOK
<1>2. CASE Len(stack) = 1
  <2>1. Top = stack[1] /\ Top.fn = "exceptionCallback" BY <1>1, <1>2 DEF Outermost
  <2> QED BY <1>2, <2>1, Parts, EnvsAssumption DEF CallbackRuns, InCallback, Rest
<1>3. CASE Len(stack) > 1
  <2>1. 1 \in 1..Len(stack) BY <1>1
  <2>2. stack[1].fn = "exceptionCallback"
    <3>1. stack[1].fn \in Outermost /\ (stack[1].fn = "Agent_OnLoad" => Len(stack) = 1)
      BY <2>1, Parts DEF Shape
    <3> QED BY <1>3, <3>1 DEF Outermost
  <2> QED BY <1>3, <2>2, Parts, EnvsAssumption DEF CallbackRuns, InCallback, Rest
<1>4. Len(stack) = 1 \/ Len(stack) > 1
  <2> DEFINE k == Len(stack)
  <2>1. k \in Nat \ {0} BY <1>1
  <2> HIDE DEF k
  <2>2. k = 1 \/ k > 1 BY <2>1
  <2> QED BY <2>2 DEF k
<1> QED BY <1>2, <1>3, <1>4

LEMMA JvmtiCallKeeps ==
  ASSUME IInv, JvmtiCall PROVE IInv' /\ env \in ready
<1>1. /\ AtOp({"jvmti"}) /\ Op = "jvmti" /\ UNCHANGED <<pending, raised, nested>>
  BY DEF JvmtiCall, AtOp
<1>2. /\ stack # <<>> /\ died = "no" /\ Top.pc \in DOMAIN Script[Top.fn]
      /\ Op = Script[Top.fn][Top.pc] /\ ~pending
      /\ Top.fn = "exceptionCallback" => Top.pc > 1
  BY <1>1, AtStep DEF Tolerant
<1>3. Top.fn # "Agent_OnLoad" BY <1>1, <1>2, TopOK, Ops DEF LoadOps
<1>4. env \in ready /\ env # NoEnv BY <1>2, <1>3, EnvOfCallback
<1>5. CASE Advance /\ UNCHANGED <<thrown, env, ready, died>>
  <2>1. Rest' BY <1>1, <1>5, Parts DEF Rest
  <2> QED BY <1>1, <1>2, <1>4, <1>5, <2>1, AdvanceKeeps
<1>6. CASE CheckErrorFails
  <2>1. thrown' = TRUE /\ UNCHANGED <<stack, env, ready, died>>
    BY <1>4, <1>6 DEF CheckErrorFails
  <2>2. pending' = FALSE BY <1>1, <1>2, Parts DEF Rest
  <2>3. ThrowCpp BY <2>1 DEF ThrowCpp
  <2> QED BY <1>1, <1>4, <2>1, <2>2, <2>3, ThrowKeeps
<1> QED BY <1>5, <1>6 DEF JvmtiCall

LEMMA EnsureInitKeeps == ASSUME IInv, EnsureInit PROVE IInv'
<1>1. /\ AtOp({"ensureInit"}) /\ Op = "ensureInit" /\ env' = Top.env /\ Advance
      /\ UNCHANGED <<pending, thrown, ready, died, raised, nested>>
  BY DEF EnsureInit, AtOp
<1>2. /\ stack # <<>> /\ Top.pc \in DOMAIN Script[Top.fn]
      /\ Op = Script[Top.fn][Top.pc] /\ ~pending
  BY <1>1, AtStep DEF Tolerant
<1>3. Top.fn = "exceptionCallback" BY <1>1, <1>2, TopOK, Ops
<1>4. env' \in ready BY <1>1, <1>2, <1>3, TopOK DEF FrameOK
<1>5. Rest' BY <1>1, <1>4, Parts DEF Rest
<1> QED BY <1>1, <1>2, <1>4, <1>5, AdvanceKeeps

\* The steps of loading.
LEMMA Loading ==
  ASSUME IInv, NEW ops, AtOp(ops), ops \subseteq LoadOps
  PROVE  /\ stack # <<>> /\ died = "no" /\ ~pending /\ Op \in ops
         /\ Op \notin {"guard", "throw", "ensureInit", "return"}
         /\ Top.fn = "Agent_OnLoad" /\ Top.env \in Envs /\ ~InCallback
<1>1. LoadOps \cap Tolerant = {} /\ "return" \notin LoadOps
      /\ LoadOps \cap {"guard", "throw", "ensureInit"} = {}
  BY DEF LoadOps, Tolerant
<1>2. /\ stack # <<>> /\ died = "no" /\ Top.pc \in DOMAIN Script[Top.fn]
      /\ Op = Script[Top.fn][Top.pc] /\ Op \in ops /\ ~pending
  BY <1>1, AtStep
<1>3. Top.fn = "Agent_OnLoad" BY <1>2, TopOK, Ops
<1>4. Top.env \in Envs BY <1>2, <1>3, TopOK DEF FrameOK
<1>5. ~InCallback
  <2>1. Top = stack[1] BY <1>2, <1>3, TopOK
  <2> QED BY <1>3, <2>1 DEF InCallback
<1> QED BY <1>1, <1>2, <1>3, <1>4, <1>5

LEMMA InitCallKeeps == ASSUME IInv, InitCall PROVE IInv'
<1> DEFINE ops == {"GetEnv", "AddCapabilities", "SetEventCallbacks", "enableVMInit",
                   "enableException"}
<1>1. AtOp(ops) /\ UNCHANGED <<pending, raised, nested>> BY DEF InitCall
<1>2. ops \subseteq LoadOps /\ "return" \notin ops BY DEF LoadOps
<1>3. CASE /\ Advance /\ UNCHANGED <<thrown, env, died>>
           /\ ready' = ready \cup (IF Op = "enableException" THEN {Top.env} ELSE {})
  <2> HIDE DEF ops
  <2>1. /\ Op \notin {"guard", "throw", "ensureInit"} /\ ~pending
        /\ Top.env \in Envs /\ Top.fn = "Agent_OnLoad"
    BY <1>1, <1>2, Loading
  <2>2. Rest' BY <1>1, <1>3, <2>1, Parts DEF Rest
  <2>3. ready \subseteq ready' /\ ~pending' BY <1>1, <1>3, <2>1
  <2> QED BY <1>1, <1>2, <1>3, <2>1, <2>2, <2>3, AdvanceKeeps
<1>4. CASE CheckErrorFails \/ (ThrowCpp /\ UNCHANGED <<env, ready, died>>)
  <2> HIDE DEF ops
  <2>1. stack # <<>> /\ died = "no" /\ ~pending /\ ~InCallback BY <1>1, <1>2, Loading
  <2>2. /\ UNCHANGED <<stack, env, ready>>
        /\ died' \in {died, "nullPointer"} /\ (thrown' = thrown \/ thrown' = TRUE)
    BY <1>4 DEF CheckErrorFails, ThrowCpp
  <2>3. Rest' BY <1>1, <2>2, Parts DEF Rest
  <2>4. ~pending' /\ (thrown => thrown') BY <1>1, <2>1, <2>2
  <2> QED BY <2>1, <2>2, <2>3, <2>4, StayKeeps
<1> QED BY <1>3, <1>4 DEF InitCall

LEMMA InitDoneKeeps == ASSUME IInv, InitDone PROVE IInv'
<1>1. /\ AtOp({"setEnv"}) /\ env' = Top.env /\ Advance
      /\ UNCHANGED <<pending, thrown, ready, died, raised, nested>>
  BY DEF InitDone
<1>2. /\ Op \notin {"guard", "throw", "ensureInit"} /\ ~pending
      /\ Top.env \in Envs /\ Top.fn = "Agent_OnLoad"
  BY <1>1, Loading DEF LoadOps
<1>3. Rest' BY <1>1, <1>2, Parts DEF Rest
<1> QED BY <1>1, <1>2, <1>3, AdvanceKeeps

\* A callback or a load begins in the thread.
LEMMA EntryKeeps ==
  ASSUME IInv, stack = <<>>, NEW fn \in Outermost, NEW e \in Envs,
         stack' = <<New(fn, e)>>, Rest', died' = "no",
         UNCHANGED <<pending, thrown, ready>>,
         fn = "exceptionCallback" => e \in ready
  PROVE  IInv'
<1> DEFINE n == New(fn, e)
<1>1. fn \in Functions BY Names DEF Outermost
<1>2. /\ n \in Frame /\ n.fn = fn /\ n.pc = 1 /\ ~n.guard /\ n.clean /\ n.env = e
  BY <1>1, NewFrame
<1>3. stack' = <<n>> OBVIOUS
<1> HIDE DEF n
<1>4. stack' \in Seq(Frame) /\ Len(stack') = 1 /\ stack'[1] = n BY <1>2, <1>3
<1>5. 1 \in DOMAIN Script[fn] /\ 1 \in Steps(fn) BY <1>1, Domains DEF Steps
<1>6. 1 \notin Guarded[fn] BY <1>1, <1>5, GuardedNext
<1>7. FrameOK(n, ready) BY <1>2, <1>5, <1>6 DEF FrameOK
<1>8. Shape' BY <1>2, <1>4, <1>7 DEF Shape
<1>9. ~thrown' /\ ~pending' BY Parts DEF OnItsWay
<1>10. OnItsWay' BY <1>9 DEF OnItsWay
<1>11. FailureSeen' BY <1>2, <1>4 DEF FailureSeen
<1>12. CallbackRuns' BY <1>2, <1>4 DEF CallbackRuns, InCallback
<1>13. Rest' /\ Shape' /\ OnItsWay' /\ FailureSeen' /\ CallbackRuns'
  BY <1>8, <1>10, <1>11, <1>12
<1> QED BY <1>13 DEF Rest, Shape, OnItsWay, FailureSeen, CallbackRuns, IInv, TypeOK,
             FramesInOrder, FrameOK, Outermost

LEMMA JvmKeeps ==
  ASSUME IInv, NEW e \in Envs, Load(e) \/ Attach(e) \/ Event(e) \/ NestedEvent(e)
  PROVE  IInv'
<1>1. CASE Load(e)
  <2>1. Rest' BY <1>1, Parts DEF Load, OnlyStack, Rest
  <2>2. "Agent_OnLoad" \in Outermost BY DEF Outermost
  <2> QED BY <1>1, <2>1, <2>2, EntryKeeps DEF Load, OnlyStack
<1>2. CASE Event(e)
  <2>1. Rest' BY <1>2, Parts, BoundsAssumption DEF Event, Rest
  <2>2. "exceptionCallback" \in Outermost BY DEF Outermost
  <2> QED BY <1>2, <2>1, <2>2, EntryKeeps DEF Event
<1>3. CASE Attach(e)
  <2>1. /\ UNCHANGED <<stack, pending, thrown, env, died, raised, nested>>
        /\ ready' = ready \cup {e}
    BY <1>3 DEF Attach
  <2>2. Rest' BY <2>1, Parts DEF Rest
  <2>3. Shape' BY <2>1, Parts DEF Shape, FrameOK
  <2>4. OnItsWay' /\ FailureSeen' /\ CallbackRuns'
    BY <2>1, Parts DEF OnItsWay, Top, FailureSeen, CallbackRuns, InCallback
  <2> QED BY <2>2, <2>3, <2>4 DEF Rest, Shape, OnItsWay, FailureSeen, CallbackRuns,
             IInv, TypeOK, FramesInOrder, FrameOK, Outermost
<1>4. CASE NestedEvent(e)
  <2>1. /\ AtOp(RunsJava) /\ ~pending /\ e \in ready /\ Push(Top, "exceptionCallback", e)
        /\ nested < MaxNested /\ nested' = nested + 1
        /\ UNCHANGED <<pending, thrown, env, ready, died, raised>>
    BY <1>4 DEF NestedEvent
  <2>2. RunsJava \cap ({"return", "ensureInit"} \cup LoadOps) = {}
    BY DEF RunsJava, LoadOps
  <2>3. /\ stack # <<>> /\ died = "no" /\ ~thrown /\ Op \in RunsJava
        /\ Top.pc \in DOMAIN Script[Top.fn] /\ Op = Script[Top.fn][Top.pc]
        /\ Top.fn = "exceptionCallback" => Top.pc > 1
    BY <2>1, <2>2, AtStep
  <2>4. FrameOK(Top, ready) /\ Top.fn \in Functions /\ Top.pc >= Top.pc
    <3>1. Top.pc \in Nat BY <2>3, TopOK DEF Frame
    <3> QED BY <2>3, <3>1, TopOK
  <2>5. Top.fn # "Agent_OnLoad" BY <2>2, <2>3, <2>4, Ops
  <2>6. Top.clean BY <2>1, <2>3, TopClean
  <2>7. "exceptionCallback" \in Functions \ {"Agent_OnLoad"} BY Names
  <2>8. Rest'
    <3>1. nested' \in 0..MaxNested BY <2>1, Parts, BoundsAssumption DEF Rest
    <3> QED BY <2>1, <3>1, Parts DEF Rest
  <2>9. died' = "no" BY <2>1, <2>3
  <2> HIDE DEF Top
  <2> QED BY <2>1, <2>3, <2>4, <2>5, <2>6, <2>7, <2>8, <2>9, PushKeeps
<1> QED BY <1>1, <1>2, <1>3, <1>4
LEMMA InitKeeps == Init => IInv
<1> SUFFICES ASSUME Init PROVE IInv OBVIOUS
<1>1. stack = <<>> /\ ~pending /\ ~thrown BY DEF Init
<1>2. Rest
  <2>1. 0 \in 0..MaxRaises /\ 0 \in 0..MaxNested BY BoundsAssumption
  <2> QED BY <2>1 DEF Init, Rest
<1>3. stack \in Seq(Frame) /\ Len(stack) = 0 BY <1>1
<1>4. Shape /\ FailureSeen BY <1>3 DEF Shape, FailureSeen
<1>5. OnItsWay /\ CallbackRuns BY <1>1 DEF OnItsWay, CallbackRuns, InCallback
<1> QED BY <1>2, <1>4, <1>5, Parts

LEMMA StepKeeps == IInv /\ [Next]_vars => IInv'
<1> SUFFICES ASSUME IInv, [Next]_vars PROVE IInv' OBVIOUS
<1>1. CASE UNCHANGED vars
  BY <1>1 DEF vars, IInv, TypeOK, OnItsWay, Top, FailureSeen, FramesInOrder,
              CallbackRuns, InCallback
<1>2. CASE Step
  BY <1>2, JniCallKeeps, CheckKeeps, GiveUpKeeps, ExceptionClearKeeps,
     ThrowOrConstructKeeps, GuardKeeps, StringOfKeeps, CallWrapperKeeps, ReturnKeeps,
     UnwindKeeps, JvmtiCallKeeps, EnsureInitKeeps, InitCallKeeps, InitDoneKeeps
     DEF Step
<1>3. CASE Jvm BY <1>3, JvmKeeps DEF Jvm
<1> QED BY <1>1, <1>2, <1>3 DEF Next

-----------------------------------------------------------------------------
(* The theorems.                                                           *)

\* Types, and a pending exception on its way to the check that will see it.
THEOREM Inductive == Spec => []IInv
BY InitKeeps, StepKeeps, PTL DEF Spec

\* However many calls fail, in the wrappers, in describing the failures and in
\* converting strings, a callback does not end the process.
THEOREM Survives == Spec => []CallbackSurvives
<1>1. IInv => CallbackSurvives BY Parts DEF CallbackRuns, CallbackSurvives
<1> QED BY <1>1, Inductive, PTL

\* No JNI function but those that release is called while an exception is
\* pending.
THEOREM CallsInOrder == Spec => []NoCallWhilePending
<1>1. IInv => NoCallWhilePending
  <2> SUFFICES ASSUME IInv, pending, ~thrown, stack # <<>>, Op \in Jni \ Permitted
               PROVE  FALSE
    BY DEF NoCallWhilePending
  <2>1. Op # "return" BY DEF Jni, Raising, Permitted
  <2>2. Top.pc \in DOMAIN Script[Top.fn] /\ Op = Script[Top.fn][Top.pc]
    BY <2>1 DEF Op
  <2>3. Top.pc \in Exposed[Top.fn] BY Parts DEF OnItsWay
  <2>4. Op \in Tolerant BY <2>2, <2>3, TopOK, ExposedOps
  <2> QED BY <2>4 DEF Tolerant, Jni, Raising, Permitted
<1> QED BY <1>1, Inductive, PTL

\* The thread goes back to Java with nothing pending.
THEOREM NothingLeft == Spec => []LeavesNothing
<1>1. IInv => LeavesNothing BY Parts DEF OnItsWay, LeavesNothing
<1> QED BY <1>1, Inductive, PTL

\* Every JVMTI call of a callback goes through an environment of the agent.
THEOREM EnvironmentsReady == Spec => []EnvironmentReady
<1>1. IInv => EnvironmentReady
  <2> SUFFICES ASSUME IInv, AtOp({"jvmti"}) PROVE env \in ready
    BY DEF EnvironmentReady
  <2>1. /\ stack # <<>> /\ Top.pc \in DOMAIN Script[Top.fn]
        /\ Op = Script[Top.fn][Top.pc] /\ Op = "jvmti"
        /\ Top.fn = "exceptionCallback" => Top.pc > 1
    BY AtStep
  <2>2. Top.fn # "Agent_OnLoad"
    <3>1. Top.fn \in Functions BY <2>1, TopOK
    <3>2. Op \notin LoadOps BY <2>1 DEF LoadOps
    <3> QED BY <2>1, <3>1, <3>2, Ops
  <2> QED BY <2>1, <2>2, EnvOfCallback
<1> QED BY <1>1, Inductive, PTL

\* No function in which a call failed returns.
THEOREM FailuresSeen == Spec => NoFailureIgnored
<1>1. ASSUME IInv, [Next]_vars
      PROVE  [~thrown /\ Len(stack') < Len(stack) => Top.clean]_vars
  <2> SUFFICES ASSUME Next, ~thrown, Len(stack') < Len(stack) PROVE Top.clean
    BY <1>1
  <2>1. stack \in Seq(Frame) /\ Len(stack) \in Nat BY <1>1, Parts DEF Shape
  <2>2. CASE Return BY <1>1, <2>2, ReturnKeeps
  <2>3. CASE UNCHANGED stack BY <2>1, <2>3
  <2>4. ASSUME NEW f, Replace(f) PROVE FALSE BY <2>1, <2>4 DEF Replace
  <2>5. ASSUME NEW c, NEW fn, NEW e, Push(c, fn, e) PROVE FALSE
    BY <2>1, <2>5 DEF Push
  <2>6. CASE \E e \in Envs : Load(e) \/ Event(e)
    <3>1. Len(stack) = 0 /\ Len(stack') = 1 BY <2>6 DEF Load, Event
    <3> QED BY <3>1
  <2>7. CASE Unwind BY <2>7 DEF Unwind
  <2>8. CASE \/ JniCall \/ Check \/ GiveUp \/ ExceptionClear \/ Throw \/ Guard
             \/ StringOf \/ Construct \/ CallWrapper \/ JvmtiCall \/ EnsureInit
             \/ InitCall \/ InitDone \/ \E e \in Envs : Attach(e) \/ NestedEvent(e)
    BY <2>3, <2>4, <2>5, <2>8
       DEF JniCall, Raise, Check, GiveUp, ExceptionClear, Throw, Guard, StringOf,
           Construct, CallWrapper, JvmtiCall, EnsureInit, InitCall, InitDone, Attach,
           NestedEvent, Advance, Call, ThrowCpp, CheckErrorFails
  <2> QED BY <2>2, <2>6, <2>7, <2>8 DEF Next, Step, Jvm
<1> QED BY <1>1, Inductive, PTL DEF Spec, NoFailureIgnored

-----------------------------------------------------------------------------
(* The callback ends.                                                      *)

\* What a step of a function counts for: more than all of any function that it
\* calls when nothing fails.
Rate(fn) ==
  CASE fn \in {"checkJniException", "invokeVirtual", "invokeStatic", "getField",
               "putField"} -> 20
    [] fn \in {"object", "array"} -> 300
    [] fn = "printMethodParams" -> 3000
    [] fn = "exceptionCallback" -> 30000
    [] OTHER -> 2

Describing == 400    \* more than a description
Nesting == 600000    \* more than a callback

\* The steps of f up to its return, and the checker's.
Remaining(f) ==
  Rate(f.fn) * (Len(Script[f.fn]) + 2 - f.pc) + (IF f.guard THEN 1 ELSE 0)

Cost(s) == Total([i \in 1..Len(s) |-> Remaining(s[i])])

\* An exception that is pending is still to be described until ExceptionClear.
Undescribed == IF pending /\ Op # "ExceptionClear" THEN Describing ELSE 0

\* To throw is a step, and so is to end the process.
Alive == (IF thrown THEN 0 ELSE 1) + (IF died = "no" THEN 1 ELSE 0)

\* Steps that are left at most: a bound on what the functions in progress do, and
\* on what the exceptions and the callbacks do that may still come.
Left ==
  Cost(stack) + Undescribed + Alive
  + Describing * (MaxRaises - raised) + Nesting * (MaxNested - nested)

\* Until the outermost function has returned every step leaves fewer, but for the
\* agent's loading in another thread.
Descends ==
  stack # <<>> => /\ Left' \in Nat
                  /\ Left' < Left \/ \E e \in Envs : Attach(e)

\* Frames at one of their function's steps.
Good == {f \in Frame : f.pc \in Steps(f.fn)}

LEMMA Rates ==
  ASSUME NEW fn \in Functions
  PROVE  Rate(fn) \in Nat /\ Rate(fn) >= 2
BY DEF Rate

\* One function after the other: what a call costs is less than the step.
LEMMA CallsLighter ==
  ASSUME NEW fn \in Functions, NEW pc \in DOMAIN Script[fn], NEW op, op = Script[fn][pc]
  PROVE  /\ op \in Wrappers \cup {"jstringToString"} =>
              op \in Functions /\ Rate(op) * (Len(Script[op]) + 1) < Rate(fn)
         /\ op = "localVariableToString" =>
              \A type \in {"number", "object", "array"} :
                type \in Functions /\ Rate(type) * (Len(Script[type]) + 1) < Rate(fn)
<1> DEFINE Cheap == {"getClass", "findClass", "deleteLocalRef"}
           Dear == {"invokeVirtual", "invokeStatic", "getField", "putField"}
<1>1. ASSUME NEW g \in Cheap \cup {"number", "jstringToString"}
      PROVE  g \in Functions /\ Rate(g) * (Len(Script[g]) + 1) <= 12
  <2>1. g \in Functions /\ Rate(g) = 2 BY Names DEF Rate
  <2>2. Len(Script[g]) \in 1..5
    <3>1. CASE g \in Cheap BY <3>1, Scripts
    <3>2. CASE g = "number" BY <3>2, Scripts DEF Number
    <3>3. CASE g = "jstringToString" BY <3>3, Scripts DEF JstringToString
    <3> QED BY <3>1, <3>2, <3>3
  <2>3. \A n \in 1..5 : 2 * (n + 1) <= 12 OBVIOUS
  <2> QED BY <2>1, <2>2, <2>3, Zenon
<1>2. ASSUME NEW g \in Dear
      PROVE  g \in Functions /\ Rate(g) * (Len(Script[g]) + 1) <= 280
  <2>1. g \in Functions /\ Rate(g) = 20 BY Names DEF Rate
  <2>2. Len(Script[g]) \in 1..13
    <3>1. CASE g = "invokeVirtual" BY <3>1, Scripts DEF InvokeVirtual
    <3>2. CASE g = "invokeStatic" BY <3>2, Scripts DEF InvokeStatic
    <3>3. CASE g = "getField" BY <3>3, Scripts DEF GetField
    <3>4. CASE g = "putField" BY <3>4, Scripts DEF PutField
    <3> QED BY <3>1, <3>2, <3>3, <3>4
  <2>3. \A n \in 1..13 : 20 * (n + 1) <= 280 OBVIOUS
  <2> QED BY <2>1, <2>2, <2>3, Zenon
<1>3. ASSUME NEW g \in {"object", "array"}
      PROVE  g \in Functions /\ Rate(g) * (Len(Script[g]) + 1) <= 1800
  <2>1. g \in Functions /\ Rate(g) = 300 BY Names DEF Rate
  <2>2. Len(Script[g]) \in 1..5
    <3>1. CASE g = "object" BY <3>1, Scripts DEF Object
    <3>2. CASE g = "array" BY <3>2, Scripts DEF Array
    <3> QED BY <3>1, <3>2
  <2>3. PICK n \in 1..5 : n = Len(Script[g]) BY <2>2
  <2>4. Rate(g) * (Len(Script[g]) + 1) = 300 * (n + 1) BY <2>1, <2>3
  <2>5. 300 * (n + 1) <= 1800 OBVIOUS
  <2> QED BY <2>1, <2>4, <2>5
<1>4. LET g == "printMethodParams"
      IN  g \in Functions /\ Rate(g) * (Len(Script[g]) + 1) = 15000
  <2>1. "printMethodParams" \in Functions /\ Rate("printMethodParams") = 3000
    BY Names DEF Rate
  <2>2. Len(Script["printMethodParams"]) = 4 BY Scripts DEF PrintMethodParams
  <2> QED BY <2>1, <2>2
<1> HIDE DEF Cheap, Dear
<1>5. /\ op \in Wrappers => op \in Cheap \cup Dear \cup {"printMethodParams"}
      /\ Cheap \cap (Dear \cup {"printMethodParams", "jstringToString"}) = {}
  BY DEF Wrappers, Cheap, Dear
<1>6. /\ op \in Cheap \cup {"jstringToString"} => Rate(fn) >= 20
      /\ op \in Dear => Rate(fn) >= 300
      /\ op = "localVariableToString" => Rate(fn) = 3000
      /\ op = "printMethodParams" => Rate(fn) = 30000
  <2> USE DEF Cheap, Dear, Rate
  <2>1. CASE fn = "Agent_OnLoad" BY <2>1, Scripts DEF AgentOnLoad
  <2>2. CASE fn = "exceptionCallback" BY <2>2, Scripts DEF ExceptionCallback
  <2>3. CASE fn = "printMethodParams" BY <2>3, Scripts DEF PrintMethodParams
  <2>4. CASE fn \in {"number", "object", "array"}
    BY <2>4, Scripts DEF Number, Object, Array
  <2>5. CASE fn \in {"getClass", "findClass", "deleteLocalRef"} BY <2>5, Scripts
  <2>6. CASE fn \in {"invokeVirtual", "invokeStatic"}
    BY <2>6, Scripts DEF InvokeVirtual, InvokeStatic
  <2>7. CASE fn \in {"getField", "putField"} BY <2>7, Scripts DEF GetField, PutField
  <2>8. CASE fn = "checkJniException" BY <2>8, Scripts DEF CheckJniException
  <2>9. CASE fn = "jstringToString" BY <2>9, Scripts DEF JstringToString
  <2> QED BY <2>1, <2>2, <2>3, <2>4, <2>5, <2>6, <2>7, <2>8, <2>9, Names
<1>7. Rate(fn) \in Nat BY Rates
<1>8. ASSUME op \in Wrappers \cup {"jstringToString"}
      PROVE  op \in Functions /\ Rate(op) * (Len(Script[op]) + 1) < Rate(fn)
  <2>0. \A x \in Functions : Rate(x) * (Len(Script[x]) + 1) \in Nat
    BY Rates, Domains
  <2>1. CASE op \in Cheap \cup {"jstringToString"} BY <1>1, <1>6, <1>7, <2>0, <2>1
  <2>2. CASE op \in Dear BY <1>2, <1>6, <1>7, <2>0, <2>2
  <2>3. CASE op = "printMethodParams" BY <1>4, <1>6, <2>3
  <2> QED BY <1>5, <1>8, <2>1, <2>2, <2>3
<1>9. ASSUME op = "localVariableToString", NEW type \in {"number", "object", "array"}
      PROVE  type \in Functions /\ Rate(type) * (Len(Script[type]) + 1) < Rate(fn)
  <2>0. \A x \in Functions : Rate(x) * (Len(Script[x]) + 1) \in Nat
    BY Rates, Domains
  <2>1. CASE type = "number" BY <1>1, <1>6, <1>9, <2>0, <2>1
  <2>2. CASE type \in {"object", "array"} BY <1>3, <1>6, <1>9, <2>0, <2>2
  <2> QED BY <2>1, <2>2
<1> QED BY <1>8, <1>9

LEMMA RemainingType ==
  ASSUME NEW f \in Good
  PROVE  /\ f \in Frame /\ f.fn \in Functions
         /\ Remaining(f) \in Nat /\ Remaining(f) >= 2
<1>1. f \in Frame /\ f.pc \in Steps(f.fn) BY DEF Good
<1>2. f.fn \in Functions BY <1>1 DEF Frame
<1>3. PICK r \in Nat : r = Rate(f.fn) /\ r >= 2 BY <1>2, Rates
<1>4. PICK l \in Nat : l = Len(Script[f.fn]) BY <1>2, Domains
<1>5. PICK p \in 1..(l + 1) : p = f.pc BY <1>1, <1>4 DEF Steps
<1>6. PICK k \in Nat : k = l + 2 - p /\ k >= 1
  <2>1. l + 2 - p \in Nat /\ l + 2 - p >= 1 BY <1>5
  <2> QED BY <2>1
<1>7. r * k \in Nat /\ r * k >= 2
  <2>1. \A x, y \in Nat : x >= 2 /\ y >= 1 => x * y \in Nat /\ x * y >= 2 OBVIOUS
  <2> QED BY <1>3, <1>6, <2>1, Zenon
<1>8. Remaining(f) = r * k + (IF f.guard THEN 1 ELSE 0)
  BY <1>3, <1>4, <1>5, <1>6, Zenon DEF Remaining
<1>9. PICK q \in Nat : q = r * k /\ q >= 2 BY <1>7
<1> QED BY <1>1, <1>2, <1>8, <1>9

\* A step further, the checker as it was.
LEMMA RemainingNext ==
  ASSUME NEW f \in Good, NEW n \in Good, n.fn = f.fn, n.pc = f.pc + 1
  PROVE  /\ n.guard = f.guard => Remaining(f) = Remaining(n) + Rate(f.fn)
         /\ ~f.guard => Remaining(f) >= Remaining(n) + Rate(f.fn) - 1
<1>1. f.fn \in Functions BY RemainingType
<1>2. PICK r \in Nat : r = Rate(f.fn) BY <1>1, Rates
<1>3. PICK l \in Nat : l = Len(Script[f.fn]) BY <1>1, Domains
<1>4. PICK p \in Nat : p = f.pc BY DEF Good, Frame
<1>5. p + 1 \in 1..(l + 1) BY <1>3, <1>4 DEF Good, Steps
<1>6. PICK k \in Nat : k = l + 2 - (p + 1) /\ k + 1 = l + 2 - p
  <2>1. l + 2 - (p + 1) \in Nat /\ (l + 2 - (p + 1)) + 1 = l + 2 - p BY <1>5
  <2> QED BY <2>1
<1>7. /\ Remaining(f) = r * (k + 1) + (IF f.guard THEN 1 ELSE 0)
      /\ Remaining(n) = r * k + (IF n.guard THEN 1 ELSE 0)
  BY <1>2, <1>3, <1>4, <1>6, Zenon DEF Remaining
<1>8. PICK q \in Nat : q = r * k /\ r * (k + 1) = q + r
  <2>1. \A x, y \in Nat : x * y \in Nat /\ x * (y + 1) = x * y + x OBVIOUS
  <2> QED BY <2>1
<1>9. CASE f.guard = n.guard
  <2>1. CASE n.guard BY <1>2, <1>7, <1>8, <1>9, <2>1
  <2>2. CASE ~n.guard BY <1>2, <1>7, <1>8, <1>9, <2>2
  <2> QED BY <2>1, <2>2
<1>10. CASE f.guard # n.guard
  <2>1. ASSUME ~f.guard PROVE Remaining(f) >= Remaining(n) + r - 1
    <3>1. Remaining(f) = q + r + 0 BY <1>7, <1>8, <2>1
    <3>2. Remaining(n) = q + 1 \/ Remaining(n) = q + 0 BY <1>7, <1>8
    <3> QED BY <3>1, <3>2
  <2> QED BY <1>2, <1>10, <2>1
<1> QED BY <1>9, <1>10

LEMMA RemainingNew ==
  ASSUME NEW fn \in Functions, NEW e \in Envs \cup {NoEnv}
  PROVE  /\ New(fn, e) \in Good
         /\ Remaining(New(fn, e)) = Rate(fn) * (Len(Script[fn]) + 1)
<1>1. /\ New(fn, e) \in Frame /\ New(fn, e).fn = fn /\ New(fn, e).pc = 1
      /\ ~New(fn, e).guard
  BY NewFrame
<1>2. PICK l \in Nat : l = Len(Script[fn]) BY Domains
<1>3. 1 \in 1..(l + 1) /\ l + 2 - 1 = l + 1 OBVIOUS
<1>4. Remaining(New(fn, e)) = Rate(fn) * (l + 1) + 0
  BY <1>1, <1>2, <1>3, Zenon DEF Remaining
<1>5. Rate(fn) * (l + 1) \in Nat BY Rates
<1> QED BY <1>1, <1>2, <1>3, <1>4, <1>5 DEF Good, Steps

LEMMA CostType == ASSUME NEW s \in Seq(Good) PROVE Cost(s) \in Nat
<1>1. PICK w : w = [i \in 1..Len(s) |-> Remaining(s[i])] BY Zenon
<1>2. w \in Seq(Nat)
  <2>1. \A i \in 1..Len(s) : Remaining(s[i]) \in Nat BY RemainingType
  <2> QED BY <1>1, <2>1
<1> QED BY <1>1, <1>2, TotalType, Zenon DEF Cost

LEMMA CostSnoc ==
  ASSUME NEW s \in Seq(Good), NEW t \in Seq(Good), NEW N \in Nat,
         N = Len(s), Len(t) = N + 1, \A i \in 1..N : t[i] = s[i]
  PROVE  Cost(t) = Cost(s) + Remaining(t[N + 1])
<1>1. PICK v : v = [i \in 1..(N + 1) |-> Remaining(t[i])] OBVIOUS
<1>2. PICK w : w = [i \in 1..N |-> Remaining(s[i])] OBVIOUS
<1>3. v \in Seq(Nat) /\ Len(v) = N + 1
  <2>1. \A i \in 1..(N + 1) : Remaining(t[i]) \in Nat BY RemainingType
  <2> QED BY <1>1, <2>1
<1>4. w \in Seq(Nat) /\ Len(w) = N
  <2>1. \A i \in 1..N : Remaining(s[i]) \in Nat BY RemainingType
  <2> QED BY <1>2, <2>1
<1>5. Cost(t) = Total(v) /\ Cost(s) = Total(w) BY <1>1, <1>2, Zenon DEF Cost
<1>6. N + 1 \in 1..(N + 1) OBVIOUS
<1>7. v[N + 1] = Remaining(t[N + 1]) BY <1>1, <1>6
<1>8. ASSUME NEW i \in 1..N PROVE v[i] = w[i]
  <2>1. i \in 1..(N + 1) OBVIOUS
  <2>2. v[i] = Remaining(t[i]) /\ w[i] = Remaining(s[i]) BY <1>1, <1>2, <2>1
  <2> QED BY <2>2, Zenon
<1>9. Total(v) = Total(w) + v[N + 1] BY <1>3, <1>4, <1>8, TotalSnoc
<1> QED BY <1>5, <1>7, <1>9, Zenon

\* The frames under the invariant.
LEMMA AllGood == ASSUME IInv PROVE stack \in Seq(Good)
<1>1. stack \in Seq(Frame) /\ \A i \in 1..Len(stack) : stack[i].pc \in Steps(stack[i].fn)
  BY DEF IInv, TypeOK
<1>2. \A i \in 1..Len(stack) : stack[i] \in Good BY <1>1 DEF Good
<1>3. PICK N \in Nat : N = Len(stack) /\ stack \in [1..N -> Frame] BY <1>1
<1>4. stack \in [1..N -> Good] BY <1>2, <1>3
<1> QED BY <1>3, <1>4

LEMMA TopGood ==
  ASSUME IInv, stack # <<>>
  PROVE  Top \in Good /\ Top.fn \in Functions
         /\ (Top.pc \in DOMAIN Script[Top.fn] => Next1 \in Good)
<1>1. FrameOK(Top, ready) /\ Top.fn \in Functions BY TopOK
<1>2. PICK t : t = Top OBVIOUS
<1>3. t \in Good BY <1>1, <1>2 DEF FrameOK, Good
<1>4. ASSUME t.pc \in DOMAIN Script[t.fn] PROVE [t EXCEPT !.pc = @ + 1] \in Good
  <2>1. t.pc \in 1..Len(Script[t.fn]) /\ Len(Script[t.fn]) \in Nat
    BY <1>1, <1>2, <1>4, Domains
  <2>2. t.pc + 1 \in Steps(t.fn) /\ t.pc + 1 \in Nat BY <2>1 DEF Steps
  <2>3. t \in Frame BY <1>3 DEF Good
  <2> DEFINE n == [t EXCEPT !.pc = @ + 1]
  <2>4. n \in Frame /\ n.pc = t.pc + 1 /\ n.fn = t.fn BY <2>2, <2>3 DEF Frame
  <2> HIDE DEF n
  <2> QED BY <2>2, <2>4 DEF Good, n
<1> QED BY <1>1, <1>2, <1>3, <1>4 DEF Next1

LEMMA NextFields ==
  ASSUME IInv, stack # <<>>
  PROVE  /\ Next1.fn = Top.fn /\ Next1.pc = Top.pc + 1 /\ Next1.guard = Top.guard
         /\ Next1.clean = Top.clean /\ Next1.env = Top.env
<1>1. PICK t : t = Top OBVIOUS
<1>2. t \in Frame BY <1>1, TopOK
<1>3. [t EXCEPT !.pc = @ + 1].fn = t.fn /\ [t EXCEPT !.pc = @ + 1].pc = t.pc + 1
      /\ [t EXCEPT !.pc = @ + 1].guard = t.guard /\ [t EXCEPT !.pc = @ + 1].clean = t.clean
      /\ [t EXCEPT !.pc = @ + 1].env = t.env
  BY <1>2 DEF Frame
<1> QED BY <1>1, <1>3 DEF Next1

-----------------------------------------------------------------------------
(* What is left after a step.                                              *)

\* The innermost function and those below.
LEMMA StackEnd ==
  ASSUME IInv, stack # <<>>
  PROVE  \E N \in Nat : Len(stack) = N + 1 /\ Top = stack[N + 1]
<1>1. PICK M \in Nat \ {0} : M = Len(stack) /\ Top = stack[M] BY TopOK, Zenon
<1>2. PICK N \in Nat : N = M - 1 /\ M = N + 1
  <2>1. M - 1 \in Nat /\ M = (M - 1) + 1 OBVIOUS
  <2> QED BY <2>1
<1> QED BY <1>1, <1>2, Zenon

LEMMA ReplaceCost ==
  ASSUME IInv, IInv', stack # <<>>, NEW f \in Good, Replace(f)
  PROVE  \E b \in Nat : Cost(stack) = b + Remaining(Top) /\ Cost(stack)' = b + Remaining(f)
<1>1. stack \in Seq(Good) BY AllGood
<1>2. PICK N \in Nat : Len(stack) = N + 1 /\ Top = stack[N + 1] BY StackEnd, Zenon
<1>3. PICK below : below = SubSeq(stack, 1, N) OBVIOUS
<1>4. /\ below \in Seq(Good) /\ N = Len(below)
      /\ \A i \in 1..N : stack[i] = below[i]
  BY <1>1, <1>2, <1>3
<1>5. PICK s : s = stack' OBVIOUS
<1>6. s \in Seq(Good) /\ Len(s) = N + 1 /\ s[N + 1] = f /\ \A i \in 1..N : s[i] = below[i]
  <2>1. s = [stack EXCEPT ![N + 1] = f] BY <1>2, <1>5 DEF Replace
  <2>2. s \in Seq(Good) /\ Len(s) = N + 1 BY <1>1, <1>2, <2>1
  <2>3. \A i \in 1..(N + 1) : s[i] = IF i = N + 1 THEN f ELSE stack[i]
    BY <1>1, <1>2, <2>1
  <2>4. N + 1 \in 1..(N + 1) /\ \A i \in 1..N : i \in 1..(N + 1) /\ i # N + 1 OBVIOUS
  <2> QED BY <1>4, <2>2, <2>3, <2>4
<1>7. Cost(stack)' = Cost(s) BY <1>5 DEF Cost, Remaining
<1>8. Cost(stack) = Cost(below) + Remaining(Top)
  BY <1>1, <1>2, <1>4, CostSnoc
<1>9. Cost(s) = Cost(below) + Remaining(f) BY <1>4, <1>6, CostSnoc
<1>10. Cost(below) \in Nat BY <1>4, CostType
<1> QED BY <1>7, <1>8, <1>9, <1>10, Zenon

LEMMA PushCost ==
  ASSUME IInv, IInv', stack # <<>>, NEW c \in Good,
         NEW fn \in Functions, NEW e \in Envs \cup {NoEnv}, Push(c, fn, e)
  PROVE  /\ Top' = New(fn, e)
         /\ \E b \in Nat :
              /\ Cost(stack) = b + Remaining(Top)
              /\ Cost(stack)' = (b + Remaining(c)) + Rate(fn) * (Len(Script[fn]) + 1)
<1>1. stack \in Seq(Good) BY AllGood
<1>2. PICK N \in Nat : Len(stack) = N + 1 /\ Top = stack[N + 1] BY StackEnd, Zenon
<1>3. PICK below : below = SubSeq(stack, 1, N) OBVIOUS
<1>4. /\ below \in Seq(Good) /\ N = Len(below)
      /\ \A i \in 1..N : stack[i] = below[i]
  BY <1>1, <1>2, <1>3
<1>5. PICK caller : caller = [stack EXCEPT ![N + 1] = c] OBVIOUS
<1>6. /\ caller \in Seq(Good) /\ Len(caller) = N + 1 /\ caller[N + 1] = c
      /\ \A i \in 1..N : caller[i] = below[i]
  <2>1. caller \in Seq(Good) /\ Len(caller) = N + 1 BY <1>1, <1>2, <1>5
  <2>2. \A i \in 1..(N + 1) : caller[i] = IF i = N + 1 THEN c ELSE stack[i]
    BY <1>1, <1>2, <1>5
  <2>3. N + 1 \in 1..(N + 1) /\ \A i \in 1..N : i \in 1..(N + 1) /\ i # N + 1 OBVIOUS
  <2> QED BY <1>4, <2>1, <2>2, <2>3
<1>7. PICK g \in Good : g = New(fn, e) BY RemainingNew
<1>8. PICK s : s = stack' OBVIOUS
<1>9. PICK M \in Nat : M = N + 1 OBVIOUS
<1>10. /\ s \in Seq(Good) /\ Len(s) = M + 1 /\ s[M + 1] = g
       /\ \A i \in 1..M : s[i] = caller[i]
  <2>1. s = Append(caller, g) BY <1>2, <1>5, <1>7, <1>8 DEF Push
  <2> QED BY <1>6, <1>9, <2>1
<1>11. Cost(stack)' = Cost(s) BY <1>8 DEF Cost, Remaining
<1>12. Cost(stack) = Cost(below) + Remaining(Top)
  BY <1>1, <1>2, <1>4, CostSnoc
<1>13. Cost(caller) = Cost(below) + Remaining(c) BY <1>4, <1>6, CostSnoc
<1>14. Cost(s) = Cost(caller) + Remaining(g) BY <1>6, <1>9, <1>10, CostSnoc
<1>15. Remaining(g) = Rate(fn) * (Len(Script[fn]) + 1) BY <1>7, RemainingNew
<1>16. Top' = New(fn, e) BY <1>7, <1>8, <1>10 DEF Top
<1>17. Cost(below) \in Nat BY <1>4, CostType
<1> QED BY <1>11, <1>12, <1>13, <1>14, <1>15, <1>16, <1>17, Zenon

LEMMA PopCost ==
  ASSUME IInv, IInv', stack # <<>>, Pop
  PROVE  Cost(stack)' \in Nat /\ Cost(stack) = Cost(stack)' + Remaining(Top)
<1>1. stack \in Seq(Good) BY AllGood
<1>2. PICK N \in Nat : Len(stack) = N + 1 /\ Top = stack[N + 1] BY StackEnd, Zenon
<1>3. PICK s : s = stack' OBVIOUS
<1>4. s = SubSeq(stack, 1, N)
  <2>1. (N + 1) - 1 = N OBVIOUS
  <2> QED BY <1>2, <1>3, <2>1, Zenon DEF Pop
<1>5. /\ s \in Seq(Good) /\ N = Len(s) /\ \A i \in 1..N : stack[i] = s[i]
  BY <1>1, <1>2, <1>4
<1>6. Cost(stack)' = Cost(s) BY <1>3 DEF Cost, Remaining
<1>7. Cost(stack) = Cost(s) + Remaining(Top) BY <1>1, <1>2, <1>5, CostSnoc
<1>8. Cost(s) \in Nat BY <1>5, CostType
<1> QED BY <1>6, <1>7, <1>8, Zenon

\* The cost of the stack, what is undescribed and the rest together.
LEMMA Falls ==
  ASSUME IInv, IInv', NEW k \in {0, 1}, NEW m \in {0, 1},
         raised' = raised + k, nested' = nested + m,
         Cost(stack)' + Undescribed' + Alive'
           < Cost(stack) + Undescribed + Alive + Describing * k + Nesting * m
  PROVE  Left' \in Nat /\ Left' < Left
<1>1. PICK c \in Nat : c = Cost(stack) BY AllGood, CostType
<1>2. PICK d \in Nat : d = Cost(stack)'
  <2>1. PICK s : s = stack' OBVIOUS
  <2>2. s \in Seq(Good)
    <3>1. stack' \in Seq(Good)
      <4>1. stack' \in Seq(Frame) /\ \A i \in 1..Len(stack') : stack'[i].pc \in Steps(stack'[i].fn)
        BY DEF IInv, TypeOK
      <4>2. \A i \in 1..Len(stack') : stack'[i] \in Good BY <4>1 DEF Good
      <4>3. PICK N \in Nat : N = Len(stack') /\ stack' \in [1..N -> Frame] BY <4>1
      <4>4. stack' \in [1..N -> Good] BY <4>2, <4>3
      <4> QED BY <4>3, <4>4
    <3> QED BY <2>1, <3>1
  <2>3. Cost(stack)' = Cost(s) BY <2>1 DEF Cost, Remaining
  <2> QED BY <2>2, <2>3, CostType
<1>3. PICK u \in Nat, v \in Nat : u = Undescribed /\ v = Undescribed'
  BY DEF Undescribed, Describing
<1>4. PICK a \in Nat, b \in Nat : a = Alive /\ b = Alive' BY DEF Alive
<1>5. PICK x \in Nat, y \in Nat : /\ x = MaxRaises - raised /\ y = MaxRaises - raised'
                                  /\ x = y + k
  <2>1. raised \in 0..MaxRaises /\ raised' \in 0..MaxRaises BY DEF IInv, TypeOK
  <2> QED BY <2>1, BoundsAssumption
<1>6. PICK z \in Nat, w \in Nat : /\ z = MaxNested - nested /\ w = MaxNested - nested'
                                  /\ z = w + m
  <2>1. nested \in 0..MaxNested /\ nested' \in 0..MaxNested BY DEF IInv, TypeOK
  <2> QED BY <2>1, BoundsAssumption
<1>7. /\ Left = c + u + a + Describing * x + Nesting * z
      /\ Left' = d + v + b + Describing * y + Nesting * w
  BY <1>1, <1>2, <1>3, <1>4, <1>5, <1>6, Zenon DEF Left
<1>8. d + v + b < c + u + a + Describing * k + Nesting * m
  BY <1>1, <1>2, <1>3, <1>4, Zenon
<1>9. d + v + b + Describing * y + Nesting * w \in Nat BY DEF Describing, Nesting
<1>10. d + v + b + Describing * y + Nesting * w < c + u + a + Describing * x + Nesting * z
  BY <1>5, <1>6, <1>8 DEF Describing, Nesting
<1> QED BY <1>7, <1>9, <1>10, Zenon

\* What is undescribed grows only by an exception.
LEMMA UndescribedKept ==
  /\ Undescribed \in {0, 400} /\ Undescribed' \in {0, 400}
  /\ (pending' => pending /\ Op # "ExceptionClear") => Undescribed' <= Undescribed
  /\ ~pending' => Undescribed' = 0
BY DEF Undescribed, Describing

\* One function makes a step.
LEMMA ReplaceDescends ==
  ASSUME IInv, IInv', stack # <<>>, NEW f \in Good, Replace(f),
         Remaining(f) < Remaining(Top),
         UNCHANGED <<thrown, died, raised, nested>>,
         pending' => pending /\ Op # "ExceptionClear"
  PROVE  Left' \in Nat /\ Left' < Left
<1>1. PICK b \in Nat : Cost(stack) = b + Remaining(Top) /\ Cost(stack)' = b + Remaining(f)
  BY ReplaceCost
<1>2. PICK x \in Nat, y \in Nat : x = Remaining(Top) /\ y = Remaining(f) /\ y < x
  BY TopGood, RemainingType
<1>3. PICK u \in Nat, v \in Nat : u = Undescribed /\ v = Undescribed' /\ v <= u
  BY UndescribedKept
<1>4. PICK a \in Nat : a = Alive /\ a = Alive' BY DEF Alive
<1>5. (b + y) + v + a < (b + x) + u + a + Describing * 0 + Nesting * 0
  BY <1>2, <1>3, SMTT(30) DEF Describing, Nesting
<1>6. Cost(stack)' + Undescribed' + Alive'
        < Cost(stack) + Undescribed + Alive + Describing * 0 + Nesting * 0
  BY <1>1, <1>2, <1>3, <1>4, <1>5, Zenon
<1>7. raised' = raised + 0 /\ nested' = nested + 0 BY DEF IInv, TypeOK
<1> QED BY <1>6, <1>7, Falls

LEMMA AdvanceDescends ==
  ASSUME IInv, IInv', stack # <<>>, Top.pc \in DOMAIN Script[Top.fn], Advance,
         UNCHANGED <<thrown, died, raised, nested>>,
         pending' => pending /\ Op # "ExceptionClear"
  PROVE  Left' \in Nat /\ Left' < Left
<1>1. Top \in Good /\ Next1 \in Good /\ Top.fn \in Functions BY TopGood
<1>2. Remaining(Next1) < Remaining(Top)
  <2>1. Next1.fn = Top.fn /\ Next1.pc = Top.pc + 1 /\ Next1.guard = Top.guard
    BY NextFields
  <2>2. Remaining(Top) = Remaining(Next1) + Rate(Top.fn) BY <1>1, <2>1, RemainingNext
  <2>3. Rate(Top.fn) \in Nat /\ Rate(Top.fn) >= 2 BY <1>1, Rates
  <2>4. Remaining(Next1) \in Nat BY <1>1, RemainingType
  <2> QED BY <2>2, <2>3, <2>4
<1>3. Replace(Next1) BY DEF Advance
<1> QED BY <1>1, <1>2, <1>3, ReplaceDescends

\* An exception, or the end.
LEMMA StayDescends ==
  ASSUME IInv, IInv', UNCHANGED <<stack, raised, nested>>,
         Alive' < Alive,
         pending' => pending /\ Op # "ExceptionClear"
  PROVE  Left' \in Nat /\ Left' < Left
<1>1. PICK c \in Nat : c = Cost(stack) /\ c = Cost(stack)'
  <2>1. Cost(stack)' = Cost(stack) BY DEF Cost, Remaining
  <2> QED BY <2>1, AllGood, CostType
<1>2. PICK u \in Nat, v \in Nat : u = Undescribed /\ v = Undescribed' /\ v <= u
  BY UndescribedKept
<1>3. PICK a \in Nat, b \in Nat : a = Alive /\ b = Alive' /\ b < a BY DEF Alive
<1>4. c + v + b < c + u + a + Describing * 0 + Nesting * 0
  <2>1. v <= u BY <1>2
  <2>2. b < a BY <1>3
  <2> QED BY <2>1, <2>2 DEF Describing, Nesting
<1>5. Cost(stack)' + Undescribed' + Alive'
        < Cost(stack) + Undescribed + Alive + Describing * 0 + Nesting * 0
  BY <1>1, <1>2, <1>3, <1>4, Zenon
<1>6. raised' = raised + 0 /\ nested' = nested + 0 BY DEF IInv, TypeOK
<1> QED BY <1>5, <1>6, Falls

\* A function calls another, with nothing pending.
LEMMA CallDescends ==
  ASSUME IInv, IInv', stack # <<>>, Top.pc \in DOMAIN Script[Top.fn],
         NEW fn \in Functions, Rate(fn) * (Len(Script[fn]) + 1) < Rate(Top.fn),
         Call(fn), OnlyStack, ~pending
  PROVE  Left' \in Nat /\ Left' < Left
<1>1. Top \in Good /\ Next1 \in Good /\ Top.fn \in Functions BY TopGood
<1>2. NoEnv \in Envs \cup {NoEnv} OBVIOUS
<1>3. PICK b \in Nat :
        /\ Cost(stack) = b + Remaining(Top)
        /\ Cost(stack)' = (b + Remaining(Next1)) + Rate(fn) * (Len(Script[fn]) + 1)
  BY <1>1, <1>2, PushCost DEF Call
<1>4. PICK r \in Nat, q \in Nat :
        r = Rate(Top.fn) /\ q = Rate(fn) * (Len(Script[fn]) + 1) /\ q < r
  BY <1>1, Rates, Domains
<1>5. PICK y \in Nat : y = Remaining(Next1) /\ Remaining(Top) = y + r
  <2>1. Next1.fn = Top.fn /\ Next1.pc = Top.pc + 1 /\ Next1.guard = Top.guard
    BY NextFields
  <2>2. Remaining(Top) = Remaining(Next1) + Rate(Top.fn) BY <1>1, <2>1, RemainingNext
  <2> QED BY <1>1, <1>4, <2>2, RemainingType
<1>6. Undescribed = 0 /\ Undescribed' = 0 BY DEF Undescribed, OnlyStack
<1>7. PICK a \in Nat : a = Alive /\ a = Alive' BY DEF Alive, OnlyStack
<1>8. ((b + y) + q) + 0 + a < (b + (y + r)) + 0 + a + Describing * 0 + Nesting * 0
  BY <1>4, SMTT(30) DEF Describing, Nesting
<1>9. Cost(stack)' + Undescribed' + Alive'
        < Cost(stack) + Undescribed + Alive + Describing * 0 + Nesting * 0
  BY <1>3, <1>4, <1>5, <1>6, <1>7, <1>8, Zenon
<1>10. raised' = raised + 0 /\ nested' = nested + 0 BY DEF IInv, TypeOK, OnlyStack
<1> QED BY <1>9, <1>10, Falls

\* What is pending is described.
LEMMA DescribeDescends ==
  ASSUME IInv, IInv', stack # <<>>, NEW c \in Good, Remaining(c) <= Remaining(Top),
         Push(c, "checkJniException", NoEnv), OnlyStack,
         pending, Op # "ExceptionClear"
  PROVE  Left' \in Nat /\ Left' < Left
<1>1. Top \in Good BY TopGood
<1>2. NoEnv \in Envs \cup {NoEnv} /\ "checkJniException" \in Functions BY Names
<1>3. PICK b \in Nat :
        /\ Cost(stack) = b + Remaining(Top)
        /\ Cost(stack)' = (b + Remaining(c))
             + Rate("checkJniException") * (Len(Script["checkJniException"]) + 1)
  BY <1>2, PushCost
<1>4. PICK q \in Nat :
        /\ q = Rate("checkJniException") * (Len(Script["checkJniException"]) + 1)
        /\ q < Describing
  <2>1. Rate("checkJniException") = 20 BY DEF Rate
  <2>2. Len(Script["checkJniException"]) = 18 BY Scripts DEF CheckJniException
  <2> QED BY <2>1, <2>2 DEF Describing
<1>5. PICK x \in Nat, y \in Nat : x = Remaining(Top) /\ y = Remaining(c) /\ y <= x
  BY <1>1, RemainingType
<1>6. Undescribed = Describing BY DEF Undescribed
<1>7. Undescribed' = 0
  <2>1. Top' = New("checkJniException", NoEnv) BY <1>2, PushCost
  <2>2. PICK t : t = Top' OBVIOUS
  <2>3. t.fn = "checkJniException" /\ t.pc = 1 BY <1>2, <2>1, <2>2, NewFrame
  <2>4. Op' = "ExceptionClear"
    <3>1. 1 \in DOMAIN Script["checkJniException"]
          /\ Script["checkJniException"][1] = "ExceptionClear"
      BY Scripts DEF CheckJniException
    <3>2. Op' = IF t.pc \in DOMAIN Script[t.fn] THEN Script[t.fn][t.pc] ELSE "return"
      BY <2>2 DEF Op
    <3> QED BY <2>3, <3>1, <3>2
  <2> QED BY <2>4 DEF Undescribed
<1>8. PICK a \in Nat : a = Alive /\ a = Alive' BY DEF Alive, OnlyStack
<1>9. ((b + y) + q) + 0 + a
        < (b + x) + Describing + a + Describing * 0 + Nesting * 0
  <2>1. q < Describing BY <1>4
  <2>2. y <= x BY <1>5
  <2> QED BY <2>1, <2>2, SMTT(30) DEF Describing, Nesting
<1>10. Cost(stack)' + Undescribed' + Alive'
        < Cost(stack) + Undescribed + Alive + Describing * 0 + Nesting * 0
  BY <1>3, <1>4, <1>5, <1>6, <1>7, <1>8, <1>9, Zenon
<1>11. raised' = raised + 0 /\ nested' = nested + 0 BY DEF IInv, TypeOK, OnlyStack
<1> QED BY <1>10, <1>11, Falls

\* A function returns or is unwound.
LEMMA PopDescends ==
  ASSUME IInv, IInv', stack # <<>>, Pop, UNCHANGED <<pending, died, raised, nested>>,
         Op # "ExceptionClear" \/ ~pending
  PROVE  Left' \in Nat /\ Left' < Left
<1>1. Cost(stack)' \in Nat /\ Cost(stack) = Cost(stack)' + Remaining(Top) BY PopCost
<1>2. PICK x \in Nat : x = Remaining(Top) /\ x >= 2 BY TopGood, RemainingType
<1>3. PICK d \in Nat : d = Cost(stack)' BY <1>1
<1>4. PICK u \in Nat, v \in Nat : u = Undescribed /\ v = Undescribed' /\ v <= u
  BY UndescribedKept
<1>5. PICK a \in Nat, b \in Nat : a = Alive /\ b = Alive' /\ b <= a + 1 BY DEF Alive
<1>6. d + v + b < (d + x) + u + a + Describing * 0 + Nesting * 0
  BY <1>2, <1>4, <1>5, SMTT(30) DEF Describing, Nesting
<1>7. Cost(stack)' + Undescribed' + Alive'
        < Cost(stack) + Undescribed + Alive + Describing * 0 + Nesting * 0
  BY <1>1, <1>2, <1>3, <1>4, <1>5, <1>6, Zenon
<1>8. raised' = raised + 0 /\ nested' = nested + 0 BY DEF IInv, TypeOK
<1> QED BY <1>7, <1>8, Falls

-----------------------------------------------------------------------------
(* The steps.                                                              *)

LEMMA JniCallDescends ==
  ASSUME IInv, IInv', JniCall
  PROVE  Left' \in Nat /\ Left' < Left
<1>1. AtOp(Jni) /\ "return" \notin Jni /\ UNCHANGED <<thrown, env, ready, died, nested>>
  BY DEF JniCall, Jni, Raising, Permitted
<1>2. /\ stack # <<>> /\ Top.pc \in DOMAIN Script[Top.fn]
      /\ Op \in Jni /\ Op # "ExceptionClear"
  BY <1>1, AtStep DEF Jni, Raising, Permitted
<1>3. CASE Advance /\ UNCHANGED <<pending, raised>> BY <1>1, <1>2, <1>3, AdvanceDescends
<1>4. CASE Raise
  <2>1. Top \in Good /\ Next1 \in Good /\ Top.fn \in Functions BY <1>2, TopGood
  <2>2. PICK n \in Good : n = Next1 BY <2>1
  <2>3. PICK f : f = [n EXCEPT !.clean = FALSE] OBVIOUS
  <2>4. f \in Good /\ f.fn = Top.fn /\ f.pc = Top.pc + 1 /\ f.guard = Top.guard
    <3>1. /\ n \in Frame /\ n.pc \in Steps(n.fn)
          /\ n.fn = Top.fn /\ n.pc = Top.pc + 1 /\ n.guard = Top.guard
      BY <1>2, <2>2, NextFields DEF Good
    <3>2. f \in Frame /\ f.fn = n.fn /\ f.pc = n.pc /\ f.guard = n.guard
      BY <2>3, <3>1 DEF Frame
    <3> QED BY <3>1, <3>2 DEF Good
  <2>5. /\ Replace(f) /\ raised' = raised + 1 /\ nested' = nested + 0
    BY <1>1, <1>4, <2>2, <2>3 DEF Raise, IInv, TypeOK
  <2>6. PICK b \in Nat : Cost(stack) = b + Remaining(Top) /\ Cost(stack)' = b + Remaining(f)
    BY <1>2, <2>4, <2>5, ReplaceCost
  <2>7. PICK y \in Nat, r \in Nat : y = Remaining(f) /\ r >= 2 /\ Remaining(Top) = y + r
    <3>1. Remaining(Top) = Remaining(f) + Rate(Top.fn) BY <2>1, <2>4, RemainingNext
    <3> QED BY <2>1, <2>4, <3>1, Rates, RemainingType
  <2>8. PICK u \in {0, 400}, v \in {0, 400} : u = Undescribed /\ v = Undescribed'
    BY UndescribedKept
  <2>9. PICK a \in Nat : a = Alive /\ a = Alive' BY <1>1 DEF Alive
  <2>10. (b + y) + v + a < (b + (y + r)) + u + a + Describing * 1 + Nesting * 0
    BY <2>7, <2>8 DEF Describing, Nesting
  <2>11. Cost(stack)' + Undescribed' + Alive'
           < Cost(stack) + Undescribed + Alive + Describing * 1 + Nesting * 0
    BY <2>6, <2>7, <2>8, <2>9, <2>10, Zenon
  <2> QED BY <2>5, <2>11, Falls
<1> QED BY <1>3, <1>4 DEF JniCall

LEMMA CheckDescends ==
  ASSUME IInv, IInv', Check
  PROVE  Left' \in Nat /\ Left' < Left
<1>1. AtOp({"check"}) /\ OnlyStack BY DEF Check
<1>2. /\ stack # <<>> /\ Top.pc \in DOMAIN Script[Top.fn]
      /\ Op = "check" /\ Op # "ExceptionClear"
  BY <1>1, AtStep
<1>3. CASE pending
  <2>1. Push(Next1, "checkJniException", NoEnv) BY <1>3 DEF Check, Call
  <2>2. Top \in Good /\ Next1 \in Good /\ Top.fn \in Functions BY <1>2, TopGood
  <2>3. Remaining(Next1) <= Remaining(Top)
    <3>1. Remaining(Top) = Remaining(Next1) + Rate(Top.fn)
      BY <1>2, <2>2, NextFields, RemainingNext
    <3>2. Remaining(Next1) \in Nat /\ Rate(Top.fn) \in Nat BY <2>2, RemainingType, Rates
    <3> QED BY <3>1, <3>2
  <2> QED BY <1>1, <1>2, <1>3, <2>1, <2>2, <2>3, DescribeDescends
<1>4. CASE ~pending BY <1>1, <1>2, <1>4, AdvanceDescends DEF Check, OnlyStack
<1> QED BY <1>3, <1>4

LEMMA GiveUpDescends ==
  ASSUME IInv, IInv', GiveUp
  PROVE  Left' \in Nat /\ Left' < Left
<1>1. AtOp({"giveUp"}) /\ ~pending' /\ UNCHANGED <<env, ready, died, raised, nested>>
  BY DEF GiveUp
<1>2. /\ stack # <<>> /\ Top.pc \in DOMAIN Script[Top.fn] /\ ~thrown
  BY <1>1, AtStep
<1>3. CASE pending
  <2>1. UNCHANGED stack /\ thrown' BY <1>3 DEF GiveUp, ThrowCpp
  <2>2. Alive' < Alive BY <1>1, <1>2, <2>1 DEF Alive
  <2> QED BY <1>1, <2>1, <2>2, StayDescends
<1>4. CASE ~pending BY <1>1, <1>2, <1>4, AdvanceDescends DEF GiveUp
<1> QED BY <1>3, <1>4

LEMMA ClearDescends ==
  ASSUME IInv, IInv', ExceptionClear
  PROVE  Left' \in Nat /\ Left' < Left
<1>1. /\ AtOp({"ExceptionClear"}) /\ Advance /\ ~pending'
      /\ UNCHANGED <<thrown, env, ready, died, raised, nested>>
  BY DEF ExceptionClear
<1>2. stack # <<>> /\ Top.pc \in DOMAIN Script[Top.fn] BY <1>1, AtStep
<1> QED BY <1>1, <1>2, AdvanceDescends

LEMMA ThrowDescends ==
  ASSUME IInv, IInv', Throw \/ Construct
  PROVE  Left' \in Nat /\ Left' < Left
<1> DEFINE ops == {"throw", "analyse", "construct"}
<1>1. /\ AtOp(ops) /\ "return" \notin ops /\ UNCHANGED <<pending, env, ready, died, raised, nested>>
      /\ ThrowCpp \/ (Advance /\ UNCHANGED thrown)
  BY DEF Throw, Construct, OnlyThrown, AtOp
<1>2. /\ stack # <<>> /\ Top.pc \in DOMAIN Script[Top.fn] /\ ~thrown
      /\ Op \in ops /\ Op # "ExceptionClear"
  <2>1. "ExceptionClear" \notin ops OBVIOUS
  <2> HIDE DEF ops
  <2> QED BY <1>1, <2>1, AtStep
<1>3. CASE ThrowCpp
  <2>1. UNCHANGED stack /\ thrown' BY <1>3 DEF ThrowCpp
  <2>2. Alive' < Alive BY <1>1, <1>2, <2>1 DEF Alive
  <2> QED BY <1>1, <1>2, <2>1, <2>2, StayDescends
<1>4. CASE Advance /\ UNCHANGED thrown BY <1>1, <1>2, <1>4, AdvanceDescends
<1> QED BY <1>1, <1>3, <1>4

LEMMA GuardDescends ==
  ASSUME IInv, IInv', Guard
  PROVE  Left' \in Nat /\ Left' < Left
<1>1. AtOp({"guard"}) /\ OnlyStack BY DEF Guard
<1>2. /\ stack # <<>> /\ Top.pc \in DOMAIN Script[Top.fn]
      /\ Op = "guard" /\ Op # "ExceptionClear"
  BY <1>1, AtStep
<1>3. Top \in Good /\ Next1 \in Good /\ Top.fn \in Functions BY <1>2, TopGood
<1>4. PICK n \in Good : n = Next1 BY <1>3
<1>5. PICK f : f = [n EXCEPT !.guard = TRUE] OBVIOUS
<1>6. f \in Good /\ f.fn = Top.fn /\ f.pc = Top.pc + 1 /\ f.guard
  <2>1. /\ n \in Frame /\ n.pc \in Steps(n.fn) /\ n.fn = Top.fn /\ n.pc = Top.pc + 1
    BY <1>2, <1>4, NextFields DEF Good
  <2>2. f \in Frame /\ f.fn = n.fn /\ f.pc = n.pc /\ f.guard BY <1>5, <2>1 DEF Frame
  <2> QED BY <2>1, <2>2 DEF Good
<1>7. PICK x \in Nat, y \in Nat, r \in Nat :
        x = Remaining(Top) /\ y = Remaining(f) /\ r = Rate(Top.fn) /\ r >= 2
  BY <1>3, <1>6, RemainingType, Rates
<1>8. y < x
  <2>1. Top.guard \in BOOLEAN BY <1>3 DEF Good, Frame
  <2>2. CASE Top.guard
    <3>1. Remaining(Top) = Remaining(f) + Rate(Top.fn)
      BY <1>3, <1>6, <2>2, RemainingNext
    <3> QED BY <1>7, <3>1
  <2>3. CASE ~Top.guard
    <3>1. Remaining(Top) >= Remaining(f) + Rate(Top.fn) - 1
      BY <1>3, <1>6, <2>3, RemainingNext
    <3> QED BY <1>7, <3>1
  <2> QED BY <2>2, <2>3
<1>9. Replace(f) BY <1>4, <1>5 DEF Guard
<1> QED BY <1>1, <1>2, <1>6, <1>7, <1>8, <1>9, ReplaceDescends DEF OnlyStack

LEMMA StringOfDescends ==
  ASSUME IInv, IInv', StringOf
  PROVE  Left' \in Nat /\ Left' < Left
<1>1. AtOp({"jstringToString"}) /\ OnlyStack BY DEF StringOf
<1>2. /\ stack # <<>> /\ Top.pc \in DOMAIN Script[Top.fn]
      /\ Op = Script[Top.fn][Top.pc] /\ Op = "jstringToString"
  BY <1>1, AtStep
<1>3. CASE Advance BY <1>1, <1>2, <1>3, AdvanceDescends DEF OnlyStack
<1>4. CASE ~pending /\ Call("jstringToString")
  <2>1. Top.fn \in Functions BY <1>2, TopGood
  <2>2. /\ "jstringToString" \in Functions
        /\ Rate("jstringToString") * (Len(Script["jstringToString"]) + 1) < Rate(Top.fn)
    BY <1>2, <2>1, CallsLighter
  <2> QED BY <1>1, <1>2, <1>4, <2>2, CallDescends
<1> QED BY <1>3, <1>4 DEF StringOf

LEMMA CallWrapperDescends ==
  ASSUME IInv, IInv', CallWrapper
  PROVE  Left' \in Nat /\ Left' < Left
<1> DEFINE Types == {"number", "object", "array"}
           ops == Wrappers \cup {"localVariableToString"}
<1>1. /\ AtOp(ops) /\ OnlyStack
      /\ \/ Op \in Wrappers /\ Call(Op)
         \/ Op = "localVariableToString" /\ \E type \in Types : Call(type)
  BY DEF CallWrapper, AtOp
<1>2. "return" \notin ops /\ ops \cap Tolerant = {} BY DEF Wrappers, Tolerant
<1>3. /\ stack # <<>> /\ Top.pc \in DOMAIN Script[Top.fn]
      /\ Op = Script[Top.fn][Top.pc] /\ ~pending
  <2> HIDE DEF ops
  <2> QED BY <1>1, <1>2, AtStep
<1>4. Top.fn \in Functions BY <1>3, TopGood
<1>5. CASE Op \in Wrappers /\ Call(Op)
  <2>1. Op \in Functions /\ Rate(Op) * (Len(Script[Op]) + 1) < Rate(Top.fn)
    BY <1>3, <1>4, <1>5, CallsLighter
  <2> QED BY <1>1, <1>3, <1>5, <2>1, CallDescends
<1>6. ASSUME Op = "localVariableToString", NEW type \in Types, Call(type)
      PROVE  Left' \in Nat /\ Left' < Left
  <2>1. type \in Functions /\ Rate(type) * (Len(Script[type]) + 1) < Rate(Top.fn)
    BY <1>3, <1>4, <1>6, CallsLighter
  <2> QED BY <1>1, <1>3, <1>6, <2>1, CallDescends
<1> QED BY <1>1, <1>5, <1>6

LEMMA ReturnDescends ==
  ASSUME IInv, IInv', Return
  PROVE  Left' \in Nat /\ Left' < Left
<1>1. OnlyStack /\ stack # <<>> /\ Op \in {"mayReturn", "return"} /\ Op # "ExceptionClear"
  BY DEF Return, AtOp
<1>2. CASE AtOp({"mayReturn"}) /\ Advance
  <2>1. Top.pc \in DOMAIN Script[Top.fn] BY <1>2, AtStep
  <2> QED BY <1>1, <1>2, <2>1, AdvanceDescends DEF OnlyStack
<1>3. CASE Pop BY <1>1, <1>3, PopDescends DEF OnlyStack
<1>4. CASE AtOp({"return"}) /\ Top.guard
  <2>1. Top \in Good BY <1>1, TopGood
  <2>2. PICK t \in Good : t = Top BY <2>1
  <2>3. PICK f : f = [t EXCEPT !.guard = FALSE] OBVIOUS
  <2>4. f \in Good /\ f.fn = t.fn /\ f.pc = t.pc /\ ~f.guard
    <3>1. t \in Frame /\ t.pc \in Steps(t.fn) BY DEF Good
    <3>2. f \in Frame /\ f.fn = t.fn /\ f.pc = t.pc /\ ~f.guard BY <2>3, <3>1 DEF Frame
    <3> QED BY <3>1, <3>2 DEF Good
  <2>5. Remaining(f) < Remaining(Top)
    <3>1. PICK k \in Nat : k = Remaining(f) BY <2>4, RemainingType
    <3>2. PICK q : q = Rate(t.fn) * (Len(Script[t.fn]) + 2 - t.pc) OBVIOUS
    <3>3. k = q + 0 /\ Remaining(t) = q + 1
      BY <1>4, <2>2, <2>4, <3>1, <3>2, Zenon DEF Remaining
    <3>4. q \in Int
      <4>1. t.fn \in Functions /\ t.pc \in Nat BY RemainingType DEF Good, Frame
      <4>2. Rate(t.fn) \in Nat /\ Len(Script[t.fn]) \in Nat BY <4>1, Rates, Domains
      <4>3. PICK a \in Int, b \in Int : a = Rate(t.fn) /\ b = Len(Script[t.fn]) + 2 - t.pc
        BY <4>1, <4>2
      <4> QED BY <3>2, <4>3
    <3>5. k < Remaining(t) BY <3>3, <3>4
    <3> QED BY <2>2, <3>1, <3>5
  <2>6. IF pending THEN Push(f, "checkJniException", NoEnv) ELSE Replace(f)
    BY <1>4, <2>2, <2>3 DEF Return, AtOp
  <2>7. CASE pending
    <3>1. Remaining(f) <= Remaining(Top) BY <2>1, <2>4, <2>5, RemainingType
    <3> QED BY <1>1, <2>4, <2>6, <2>7, <3>1, DescribeDescends
  <2>8. CASE ~pending BY <1>1, <2>4, <2>5, <2>6, <2>8, ReplaceDescends DEF OnlyStack
  <2> QED BY <2>7, <2>8
<1> QED BY <1>2, <1>3, <1>4 DEF Return

LEMMA UnwindDescends ==
  ASSUME IInv, IInv', Unwind
  PROVE  Left' \in Nat /\ Left' < Left
<1>1. /\ died = "no" /\ thrown /\ ~pending /\ stack # <<>>
      /\ UNCHANGED <<pending, env, ready, raised, nested>>
  BY Parts DEF Unwind, OnItsWay
<1>2. CASE died' = "terminate" /\ UNCHANGED <<stack, thrown>>
  <2>1. Alive' < Alive BY <1>1, <1>2 DEF Alive
  <2> QED BY <1>1, <1>2, <2>1, StayDescends
<1>3. CASE Pop /\ UNCHANGED died BY <1>1, <1>3, PopDescends
<1> QED BY <1>2, <1>3 DEF Unwind

\* Steps of JVMTI, and those that set an environment.
LEMMA JvmtiDescends ==
  ASSUME IInv, IInv', JvmtiCall \/ EnsureInit \/ InitCall \/ InitDone
  PROVE  Left' \in Nat /\ Left' < Left
<1> DEFINE ops == {"jvmti", "ensureInit", "GetEnv", "AddCapabilities", "SetEventCallbacks",
                   "enableVMInit", "enableException", "setEnv"}
<1>1. /\ AtOp(ops) /\ UNCHANGED <<pending, raised, nested>>
      /\ \/ Advance /\ UNCHANGED <<thrown, died>>
         \/ CheckErrorFails
         \/ ThrowCpp /\ UNCHANGED died
  BY DEF JvmtiCall, EnsureInit, InitCall, InitDone, AtOp
<1>2. "return" \notin ops /\ "ExceptionClear" \notin ops OBVIOUS
<1>3. /\ stack # <<>> /\ Top.pc \in DOMAIN Script[Top.fn] /\ ~thrown /\ died = "no"
      /\ Op # "ExceptionClear"
  <2> HIDE DEF ops
  <2> QED BY <1>1, <1>2, AtStep
<1>4. CASE Advance /\ UNCHANGED <<thrown, died>> BY <1>1, <1>3, <1>4, AdvanceDescends
<1>5. CASE CheckErrorFails \/ (ThrowCpp /\ UNCHANGED died)
  <2>1. /\ UNCHANGED stack
        /\ \/ thrown' /\ died' = "no"
           \/ ~thrown' /\ died' # "no"
    BY <1>3, <1>5 DEF CheckErrorFails, ThrowCpp
  <2>2. Alive' < Alive BY <1>3, <2>1 DEF Alive
  <2> QED BY <1>1, <1>3, <2>1, <2>2, StayDescends
<1> QED BY <1>1, <1>4, <1>5

\* A callback inside costs less than what there was for it.
LEMMA NestedDescends ==
  ASSUME IInv, IInv', NEW e \in Envs, NestedEvent(e)
  PROVE  Left' \in Nat /\ Left' < Left
<1>1. /\ AtOp(RunsJava) /\ ~pending /\ nested' = nested + 1
      /\ Push(Top, "exceptionCallback", e)
      /\ UNCHANGED <<pending, thrown, env, ready, died, raised>>
  BY DEF NestedEvent
<1>2. stack # <<>> BY <1>1 DEF AtOp
<1>3. Top \in Good /\ "exceptionCallback" \in Functions BY <1>2, TopGood, Names
<1>4. PICK b \in Nat :
        /\ Cost(stack) = b + Remaining(Top)
        /\ Cost(stack)' = (b + Remaining(Top))
             + Rate("exceptionCallback") * (Len(Script["exceptionCallback"]) + 1)
  BY <1>1, <1>2, <1>3, PushCost
<1>5. PICK q \in Nat :
        /\ q = Rate("exceptionCallback") * (Len(Script["exceptionCallback"]) + 1)
        /\ q < Nesting
  <2>1. Rate("exceptionCallback") = 30000 BY DEF Rate
  <2>2. Len(Script["exceptionCallback"]) = 16 BY Scripts DEF ExceptionCallback
  <2> QED BY <2>1, <2>2 DEF Nesting
<1>6. PICK x \in Nat : x = Remaining(Top) BY <1>3, RemainingType
<1>7. Undescribed = 0 /\ Undescribed' = 0 BY <1>1 DEF Undescribed
<1>8. PICK a \in Nat : a = Alive /\ a = Alive' BY <1>1 DEF Alive
<1>9. ((b + x) + q) + 0 + a < (b + x) + 0 + a + Describing * 0 + Nesting * 1
  BY <1>5, SMTT(30) DEF Describing, Nesting
<1>10. Cost(stack)' + Undescribed' + Alive'
        < Cost(stack) + Undescribed + Alive + Describing * 0 + Nesting * 1
  BY <1>4, <1>5, <1>6, <1>7, <1>8, <1>9, Zenon
<1>11. raised' = raised + 0 BY <1>1 DEF IInv, TypeOK
<1> QED BY <1>1, <1>10, <1>11, Falls

LEMMA StepDescends ==
  ASSUME IInv, IInv', Step
  PROVE  Left' \in Nat /\ Left' < Left
BY JniCallDescends, CheckDescends, GiveUpDescends, ThrowDescends, GuardDescends,
   StringOfDescends, CallWrapperDescends, ReturnDescends, UnwindDescends, JvmtiDescends,
   ClearDescends DEF Step

\* From the event to its return, each step leaves less of a number that is never
\* negative, whatever fails, in the wrappers, in describing a failure, in describing
\* a failure of that, and in the callbacks inside: to describe an exception may
\* raise another, but what that may lead to is counted with the exception.
THEOREM CallbackDescends == Spec => [][Descends]_vars
<1>1. ASSUME IInv, [Next]_vars PROVE [Descends]_vars
  <2>1. IInv' BY <1>1, StepKeeps
  <2>2. CASE UNCHANGED vars BY <2>2
  <2>3. CASE Step BY <1>1, <2>1, <2>3, StepDescends DEF Descends
  <2>4. ASSUME NEW e \in Envs, NestedEvent(e) PROVE Descends
    BY <1>1, <2>1, <2>4, NestedDescends DEF Descends
  <2>5. ASSUME NEW e \in Envs, Load(e) \/ Event(e) PROVE Descends
    BY <2>5 DEF Load, Event, Descends
  <2>6. ASSUME NEW e \in Envs, Attach(e), stack # <<>> PROVE Left' \in Nat
    <3>1. UNCHANGED <<stack, pending, thrown, died, raised, nested>> BY <2>6 DEF Attach
    <3>2. Left' = Left
      BY <3>1 DEF Left, Cost, Remaining, Undescribed, Op, Top, Alive
    <3>3. Cost(stack) \in Nat /\ Undescribed \in Nat /\ Alive \in Nat
      BY <1>1, AllGood, CostType DEF Undescribed, Alive, Describing
    <3>4. MaxRaises - raised \in Nat /\ MaxNested - nested \in Nat
      BY <1>1, BoundsAssumption DEF IInv, TypeOK
    <3> QED BY <3>2, <3>3, <3>4 DEF Left, Describing, Nesting
  <2> QED BY <1>1, <2>2, <2>3, <2>4, <2>5, <2>6 DEF Next, Jvm, Descends
<1> QED BY <1>1, Inductive, PTL DEF Spec
=============================================================================
