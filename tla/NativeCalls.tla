----------------------------- MODULE NativeCalls -----------------------------
(***************************************************************************)
(* One thread's native side: loading the agent (cpp/onLoad.cpp,            *)
(* Jvmti::init), the Exception callback's calls of the JVMTI and JNI       *)
(* wrappers (api/Jvmti.h, api/Jni.h), and checkJniException and            *)
(* jstringToString (cpp/util.cpp), which call each other.                  *)
(*                                                                         *)
(* Two kinds of exception meet here.  A Java exception is left pending by  *)
(* a JNI function, and next to no JNI function may be called until it is   *)
(* cleared; a C++ exception unwinds the frames of the wrappers, and the    *)
(* destructor of a JniScopedExceptionChecker may throw while it does.      *)
(*                                                                         *)
(* A C++ function is the list of what it does, in order; the stack holds   *)
(* the functions that have not returned.  What is done once for all        *)
(* signatures is done here for String, the only type the agent asks for.   *)
(***************************************************************************)
EXTENDS Integers, Sequences, FiniteSets

CONSTANTS Envs,      \* JVMTI environments: one for each time the agent is loaded
          NoEnv,     \* nullptr
          MaxRaises, \* bound on the Java exceptions raised under one callback
          MaxNested  \* bound on the callbacks that Java code called by it enters

ASSUME EnvsAssumption == NoEnv \notin Envs

ASSUME BoundsAssumption == MaxRaises \in Nat /\ MaxNested \in Nat

-----------------------------------------------------------------------------
(* What each function does.                                                *)

\* JNI functions that may leave a Java exception pending,
Raising == {"FindClass", "GetMethodID", "GetStaticMethodID", "GetFieldID",
            "CallObjectMethod", "CallStaticObjectMethod", "NewStringUTF",
            "GetStringUTFChars"}

\* those that may be called while one is, and the others.
Permitted == {"DeleteLocalRef", "ReleaseStringUTFChars"}
Jni == Raising \cup Permitted \cup {"GetObjectClass", "GetObjectField", "SetObjectField"}

\* Those that run the application's code.
RunsJava == {"CallObjectMethod", "CallStaticObjectMethod"}

\* Variant: the destructor that checks left out.
InvokeVirtualUnguarded ==
  <<"GetObjectClass", "check", "GetMethodID", "check", "DeleteLocalRef",
    "CallObjectMethod", "jstringToString", "DeleteLocalRef">>

InvokeVirtual ==
  <<"GetObjectClass", "check", "GetMethodID", "check", "DeleteLocalRef", "guard",
    "CallObjectMethod", "jstringToString", "DeleteLocalRef">>

InvokeStatic ==
  <<"GetStaticMethodID", "check", "guard",
    "CallStaticObjectMethod", "jstringToString", "DeleteLocalRef">>

GetField ==
  <<"GetObjectClass", "check", "GetFieldID", "check", "DeleteLocalRef", "guard",
    "GetObjectField", "jstringToString">>

\* The new string is a JString, whose constructor and destructor check.
PutField ==
  <<"GetObjectClass", "check", "GetFieldID", "check", "DeleteLocalRef",
    "NewStringUTF", "check", "SetObjectField", "DeleteLocalRef", "check", "check">>

\* checkJniException(jni, true), of a pending exception.
CheckJniException ==
  <<"ExceptionClear",
    "GetObjectClass", "giveUp", "FindClass", "giveUp", "GetMethodID", "giveUp",
    "CallObjectMethod", "giveUp",
    "FindClass", "giveUp", "GetMethodID", "giveUp", "CallObjectMethod", "giveUp",
    "jstringToString", "jstringToString", "throw">>

\* jstringToString, of a string that is not null.
JstringToString ==
  <<"GetStringUTFChars", "check", "construct", "ReleaseStringUTFChars", "check">>

\* Variant: the callback relies on the environment being set.
ExceptionCallbackNoInit ==
  <<"jvmti", "mayReturn", "getClass", "invokeVirtual", "getField",
    "mayReturn", "jvmti", "invokeVirtual", "jvmti", "analyse", "jvmti",
    "invokeVirtual", "analyse", "putField", "printMethodParams">>

\* A run of JVMTI calls with no JNI call in between is one step.
ExceptionCallback ==
  <<"ensureInit", "jvmti", "mayReturn", "getClass", "invokeVirtual", "getField",
    "mayReturn", "jvmti", "invokeVirtual", "jvmti", "analyse", "jvmti",
    "invokeVirtual", "analyse", "putField", "printMethodParams">>

\* One argument of one frame, if there is any, stands for those of all frames.
PrintMethodParams == <<"jvmti", "invokeVirtual", "mayReturn", "localVariableToString">>

\* localVariableToString of a number, an object and an array.
Number == <<"jvmti">>
Object == <<"jvmti", "mayReturn", "invokeVirtual">>
Array == <<"jvmti", "findClass", "invokeStatic", "deleteLocalRef", "deleteLocalRef">>

AgentOnLoad ==
  <<"GetEnv", "AddCapabilities", "SetEventCallbacks", "enableVMInit",
    "enableException", "setEnv">>

Script ==
  [Agent_OnLoad      |-> AgentOnLoad,
   exceptionCallback |-> ExceptionCallback,
   printMethodParams |-> PrintMethodParams,
   number            |-> Number,
   object            |-> Object,
   array             |-> Array,
   getClass          |-> <<"GetObjectClass", "check">>,
   findClass         |-> <<"FindClass", "check">>,
   deleteLocalRef    |-> <<"DeleteLocalRef", "check">>,
   invokeVirtual     |-> InvokeVirtual,
   invokeStatic      |-> InvokeStatic,
   getField          |-> GetField,
   putField          |-> PutField,
   checkJniException |-> CheckJniException,
   jstringToString   |-> JstringToString]

Functions == DOMAIN Script

\* The functions that are called without a condition.
Wrappers == {"getClass", "findClass", "deleteLocalRef", "invokeVirtual",
             "invokeStatic", "getField", "putField", "printMethodParams"}

-----------------------------------------------------------------------------
VARIABLES
  stack,   \* the C++ functions that have not returned, innermost last
  pending, \* a Java exception is pending
  thrown,  \* a C++ exception is unwinding the stack
  env,     \* Jvmti::env of this thread
  ready,   \* the environments whose Exception event is enabled
  died,    \* how the process ended, if it did
  raised,  \* the Java exceptions raised under the outermost callback
  nested   \* the callbacks entered under it

vars == <<stack, pending, thrown, env, ready, died, raised, nested>>

\* A function in progress: the step it is at, whether it has a checker to
\* destroy, whether no JNI function it called failed, and the environment a
\* callback or a load is for.
Frame == [fn : Functions, pc : Nat, guard : BOOLEAN, clean : BOOLEAN,
          env : Envs \cup {NoEnv}]

New(fn, e) == [fn |-> fn, pc |-> 1, guard |-> FALSE, clean |-> TRUE, env |-> e]

Init ==
  /\ stack = <<>>
  /\ pending = FALSE
  /\ thrown = FALSE
  /\ env = NoEnv
  /\ ready = {}
  /\ died = "no"
  /\ raised = 0
  /\ nested = 0

Top == stack[Len(stack)]

Op == IF Top.pc \in DOMAIN Script[Top.fn] THEN Script[Top.fn][Top.pc] ELSE "return"

\* The next step of the innermost function is one of ops.
AtOp(ops) == died = "no" /\ ~thrown /\ stack # <<>> /\ Op \in ops

Replace(f) == stack' = [stack EXCEPT ![Len(stack)] = f]
Next1 == [Top EXCEPT !.pc = @ + 1]
Advance == Replace(Next1)
Pop == stack' = SubSeq(stack, 1, Len(stack) - 1)
Push(caller, fn, e) == stack' = Append([stack EXCEPT ![Len(stack)] = caller], New(fn, e))
Call(fn) == Push(Next1, fn, NoEnv)

Raise ==
  /\ raised < MaxRaises
  /\ pending' = TRUE
  /\ raised' = raised + 1
  /\ Replace([Next1 EXCEPT !.clean = FALSE])

\* The stack alone changes, or it and what unwinds it.
OnlyStack == UNCHANGED <<pending, thrown, env, ready, died, raised, nested>>
OnlyThrown == UNCHANGED <<pending, env, ready, died, raised, nested>>

ThrowCpp == thrown' = TRUE /\ UNCHANGED stack

-----------------------------------------------------------------------------
(* JNI calls and the checks after them.                                    *)

\* A function of the JNI returns, or leaves an exception and returns null.
JniCall ==
  /\ AtOp(Jni)
  /\ \/ Advance /\ UNCHANGED <<pending, raised>>
     \/ Op \in Raising /\ Raise
  /\ UNCHANGED <<thrown, env, ready, died, nested>>

\* checkJniException, in the line or in the destructor of a checker.
Check ==
  /\ AtOp({"check"})
  /\ IF pending THEN Call("checkJniException") ELSE Advance
  /\ OnlyStack

\* Variant: the exception not cleared before the describer throws.
GiveUpPending ==
  /\ AtOp({"giveUp"})
  /\ IF pending THEN ThrowCpp ELSE Advance /\ UNCHANGED thrown
  /\ OnlyThrown

\* checkJniException(jni, false): what happens in describing is not described.
GiveUp ==
  /\ AtOp({"giveUp"})
  /\ IF pending THEN ThrowCpp ELSE Advance /\ UNCHANGED thrown
  /\ pending' = FALSE
  /\ UNCHANGED <<env, ready, died, raised, nested>>

ExceptionClear ==
  /\ AtOp({"ExceptionClear"})
  /\ Advance
  /\ pending' = FALSE
  /\ UNCHANGED <<thrown, env, ready, died, raised, nested>>

\* The JniError with the description, an instruction that is not supported.
Throw ==
  /\ \/ AtOp({"throw"}) /\ ThrowCpp
     \/ AtOp({"analyse"}) /\ (ThrowCpp \/ (Advance /\ UNCHANGED thrown))
  /\ OnlyThrown

Guard ==
  /\ AtOp({"guard"})
  /\ Replace([Next1 EXCEPT !.guard = TRUE])
  /\ OnlyStack

\* Variant: the check of null in jstringToString left out.
StringOfAny ==
  /\ AtOp({"jstringToString"})
  /\ Call("jstringToString")
  /\ OnlyStack

\* jstringToString: a null string is empty.  A call that raised returned null.
StringOf ==
  /\ AtOp({"jstringToString"})
  /\ \/ Advance
     \/ ~pending /\ Call("jstringToString")
  /\ OnlyStack

\* std::string(cstring): the JVM may be out of memory and return null without
\* an exception; the constructor of std::string then throws.
Construct ==
  /\ AtOp({"construct"})
  /\ ThrowCpp \/ (Advance /\ UNCHANGED thrown)
  /\ OnlyThrown

-----------------------------------------------------------------------------
(* Calls, returns and unwinding.                                           *)

CallWrapper ==
  /\ \/ AtOp(Wrappers) /\ Call(Op)
     \/ /\ AtOp({"localVariableToString"})
        /\ \E type \in {"number", "object", "array"} : Call(type)
  /\ OnlyStack

Return ==
  /\ \/ AtOp({"mayReturn"}) /\ (Advance \/ Pop)
     \/ AtOp({"return"}) /\ ~Top.guard /\ Pop
     \/ /\ AtOp({"return"}) /\ Top.guard
        /\ LET f == [Top EXCEPT !.guard = FALSE] IN
             IF pending THEN Push(f, "checkJniException", NoEnv) ELSE Replace(f)
  /\ OnlyStack

\* A function ends by the exception.  A destructor that throws meanwhile, and
\* an exception that leaves Agent_OnLoad, end the process; exceptionCallback
\* catches it.
Unwind ==
  /\ died = "no" /\ thrown
  /\ IF Top.fn = "Agent_OnLoad" \/ (Top.guard /\ pending)
       THEN died' = "terminate" /\ UNCHANGED <<stack, thrown>>
       ELSE /\ thrown' = (Top.fn # "exceptionCallback")
            /\ Pop
            /\ UNCHANGED died
  /\ UNCHANGED <<pending, env, ready, raised, nested>>

-----------------------------------------------------------------------------
(* JVMTI.                                                                  *)

\* checkError asks the environment for the name of the error.
CheckErrorFails ==
  /\ IF env = NoEnv THEN died' = "nullPointer" /\ UNCHANGED thrown
                    ELSE thrown' = TRUE /\ UNCHANGED died
  /\ UNCHANGED <<stack, env, ready>>

JvmtiCall ==
  /\ AtOp({"jvmti"})
  /\ \/ env # NoEnv /\ Advance /\ UNCHANGED <<thrown, env, ready, died>>
     \/ CheckErrorFails
  /\ UNCHANGED <<pending, raised, nested>>

EnsureInit ==
  /\ AtOp({"ensureInit"})
  /\ env' = Top.env
  /\ Advance
  /\ UNCHANGED <<pending, thrown, ready, died, raised, nested>>

\* Jvmti::init, of the environment it was given.
InitCall ==
  /\ AtOp({"GetEnv", "AddCapabilities", "SetEventCallbacks", "enableVMInit",
           "enableException"})
  /\ \/ /\ Advance
        /\ ready' = ready \cup (IF Op = "enableException" THEN {Top.env} ELSE {})
        /\ UNCHANGED <<thrown, env, died>>
     \/ Op # "GetEnv" /\ CheckErrorFails
     \/ Op = "GetEnv" /\ ThrowCpp /\ UNCHANGED <<env, ready, died>>
  /\ UNCHANGED <<pending, raised, nested>>

InitDone ==
  /\ AtOp({"setEnv"})
  /\ env' = Top.env
  /\ Advance
  /\ UNCHANGED <<pending, thrown, ready, died, raised, nested>>

-----------------------------------------------------------------------------
(* What the JVM does.                                                      *)

\* Agent_OnLoad, or Agent_OnAttach in this thread,
Load(e) ==
  /\ died = "no" /\ stack = <<>> /\ e \notin ready
  /\ stack' = <<New("Agent_OnLoad", e)>>
  /\ OnlyStack

\* and in another: it makes a difference when the next event may come.
Attach(e) ==
  /\ (died = "no" /\ stack = <<>>) \/ AtOp(RunsJava)
  /\ e \notin ready
  /\ ready' = ready \cup {e}
  /\ UNCHANGED <<stack, pending, thrown, env, died, raised, nested>>

\* The Exception event of an exception thrown by this thread's Java code, for
\* each environment that has it enabled, one after the other.
Event(e) ==
  /\ died = "no" /\ e \in ready /\ stack = <<>>
  /\ stack' = <<New("exceptionCallback", e)>>
  /\ raised' = 0
  /\ nested' = 0
  /\ UNCHANGED <<pending, thrown, env, ready, died>>

NestedEvent(e) ==
  /\ AtOp(RunsJava) /\ ~pending /\ e \in ready
  /\ nested < MaxNested
  /\ nested' = nested + 1
  /\ Push(Top, "exceptionCallback", e)
  /\ UNCHANGED <<pending, thrown, env, ready, died, raised>>

Step == \/ JniCall \/ Check \/ GiveUp \/ ExceptionClear \/ Throw \/ Guard
        \/ StringOf \/ Construct \/ CallWrapper \/ Return \/ Unwind
        \/ JvmtiCall \/ EnsureInit \/ InitCall \/ InitDone

Jvm == \E e \in Envs : Load(e) \/ Attach(e) \/ Event(e) \/ NestedEvent(e)

Next == Step \/ Jvm

\* The thread runs on while it is in native code; that the JVM's functions and
\* the application's methods they call return is assumed.
Spec == Init /\ [][Next]_vars /\ WF_vars(Step)

-----------------------------------------------------------------------------
(* Properties.                                                             *)

Steps(fn) == 1..(Len(Script[fn]) + 1)

TypeOK ==
  /\ stack \in Seq(Frame)
  /\ \A i \in 1..Len(stack) : stack[i].pc \in Steps(stack[i].fn)
  /\ pending \in BOOLEAN
  /\ thrown \in BOOLEAN
  /\ env \in Envs \cup {NoEnv}
  /\ ready \in SUBSET Envs
  /\ died \in {"no", "terminate", "nullPointer"}
  /\ raised \in 0..MaxRaises
  /\ nested \in 0..MaxNested

\* At these steps an exception raised by an earlier step may still be there.
Clears == {"check", "giveUp", "ExceptionClear"}

Exposed ==
  [fn \in Functions |->
    {pc \in Steps(fn) :
      \/ fn = "checkJniException" /\ pc = 1
      \/ \E q \in 1..(pc - 1) :
           /\ Script[fn][q] \in Raising
           /\ \A r \in (q + 1)..(pc - 1) : Script[fn][r] \notin Clears}]

\* By step pc a checker is in scope.
Guarded ==
  [fn \in Functions |->
    {pc \in Steps(fn) : \E q \in 1..(pc - 1) : Script[fn][q] = "guard"}]

\* A pending exception is on its way to a check: the next one of the innermost
\* function, or the destructor's.
OnItsWay ==
  /\ thrown => ~pending /\ stack # <<>>
  /\ pending => /\ stack # <<>>
                /\ Top.pc \in Exposed[Top.fn]
                /\ Top.pc \in Guarded[Top.fn] => Top.guard

\* A function in which a call failed has the exception pending, is being
\* unwound, or waits for the describer, which does not return.
FailureSeen ==
  \A i \in 1..Len(stack) : ~stack[i].clean =>
    IF i = Len(stack) THEN pending \/ thrown
                      ELSE stack[i + 1].fn = "checkJniException"

FramesInOrder ==
  \A i \in 1..Len(stack) :
    LET f == stack[i] IN
      /\ f.guard => f.pc \in Guarded[f.fn]
      /\ (f.pc \in DOMAIN Script[f.fn] /\ f.pc \in Guarded[f.fn]) => f.guard
      /\ f.pc = 1 => f.clean
      /\ f.fn = "checkJniException" => f.pc \in DOMAIN Script[f.fn]
      /\ f.fn = "exceptionCallback" => f.env \in ready
      /\ f.fn = "Agent_OnLoad" => i = 1 /\ Len(stack) = 1 /\ f.env \in Envs
      /\ i = 1 => f.fn \in {"Agent_OnLoad", "exceptionCallback"}

InCallback == stack # <<>> /\ stack[1].fn = "exceptionCallback"

CallbackRuns ==
  InCallback =>
    /\ died = "no"
    /\ Len(stack) > 1 => stack[1].pc > 1
    /\ stack[1].pc > 1 => env \in ready

IInv == TypeOK /\ OnItsWay /\ FailureSeen /\ FramesInOrder /\ CallbackRuns

\* The process does not end in a callback: no checker's destructor throws while
\* another exception unwinds the stack, and no JVMTI call goes through a null
\* environment, whichever calls fail and however describing a failure fails.
CallbackSurvives == InCallback => died = "no"

\* With an exception pending the agent calls no JNI function but those that
\* release something, in the wrappers, in the describer and in the conversion
\* of its strings.
NoCallWhilePending ==
  (pending /\ ~thrown /\ stack # <<>>) => Op \notin Jni \ Permitted

\* The thread goes back to Java with no exception of the agent's own.
LeavesNothing == stack = <<>> => ~pending /\ ~thrown

\* A callback's JVMTI calls go through an environment with the capabilities and
\* the events of the agent, in a thread that did not load it and after a callback
\* of the other environment ran inside.
EnvironmentReady == AtOp({"jvmti"}) => env \in ready

\* No function returns as if it had succeeded when a JNI function it called
\* has failed: every Java exception ends the callback's work.
NoFailureIgnored ==
  [][~thrown /\ Len(stack') < Len(stack) => Top.clean]_vars

\* Every callback comes to an end: describing an exception may raise another,
\* whose description starts the same functions again, but only as often as
\* exceptions are raised.
CallbackEnds == InCallback ~> stack = <<>>
=============================================================================
