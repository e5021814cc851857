-------------------------- MODULE ExceptionCallback --------------------------
(***************************************************************************)
(* cpp/exceptionCallback.cpp and getLogger of cpp/util.cpp: the JVMTI      *)
(* Exception callback, run in every thread that throws.                    *)
(*                                                                         *)
(* The callback is entered once for each throw, on the thread that throws, *)
(* and returns before the exception is delivered.  Threads share two       *)
(* things: the exception objects, whose detailMessage the callback reads   *)
(* and later writes, and spdlog's registry, where the first walk of        *)
(* traceDetailedCause enters the logger "Analyzer".  A step here is the    *)
(* code between two accesses to them.  printMethodParams calls toString of *)
(* the application's objects: what they throw enters the callback again on *)
(* the same thread.                                                        *)
(***************************************************************************)
EXTENDS Integers, Sequences, FiniteSets

CONSTANTS Threads,    \* the application's threads
          Exceptions, \* exception objects
          Npe,        \* those whose class is java.lang.NullPointerException
          MayThrow,   \* the threads that may throw each of them
          MaxThrows,  \* bound on the throws
          MaxNest     \* bound on the callbacks open in one thread

\* A JVM has a thread, and as many as the operating system gives it.
ASSUME ThreadsAssumption == IsFiniteSet(Threads) /\ Threads # {}

ASSUME ExceptionsAssumption ==
  /\ Npe \subseteq Exceptions
  /\ MayThrow \in [Exceptions -> SUBSET Threads]

\* Every NPE stays in one thread.
Confined == \A x \in Npe : \A t, u \in MayThrow[x] : t = u

\* detailMessage: null (or ""), what the constructor was given, or what the
\* callback of the n-th throw wrote.
NoMessage == 0
Constructed == -1
Message == {NoMessage, Constructed} \cup (Nat \ {0})

\* Where it was thrown: in a native frame or at bytecode index 0; in another
\* frame, or in Objects.requireNonNull called from one; in requireNonNull
\* called from a native frame.
Site == {"filtered", "bytecode", "check from native"}

How == {"open", "filtered", "not an NPE", "has message", "annotated",
        "no logger", "failed"}

VARIABLES
  msg,       \* detailMessage of each exception
  active,    \* active[t]: the callbacks open in thread t, innermost last
  throws,    \* the throws so far: which exception, and how its callback ended
  analyzer   \* "Analyzer" is in the registry

vars == <<msg, active, throws, analyzer>>

PC == {"filter", "read", "analyse", "lookup", "create", "put", "params"}

Activation == [n : Nat \ {0}, x : Exceptions, site : Site, pc : PC]

Thrown == [x : Exceptions, how : How]

Init ==
  /\ msg \in [Exceptions -> {NoMessage, Constructed}]
  /\ active = [t \in Threads |-> <<>>]
  /\ throws = <<>>
  /\ analyzer = FALSE

-----------------------------------------------------------------------------
Top(t) == active[t][Len(active[t])]

At(t, pc) == active[t] # <<>> /\ Top(t).pc = pc

Goto(t, pc) ==
  /\ active' = [active EXCEPT ![t][Len(active[t])].pc = pc]
  /\ UNCHANGED throws

Return(t, how) ==
  /\ active' = [active EXCEPT ![t] = SubSeq(active[t], 1, Len(active[t]) - 1)]
  /\ throws' = [throws EXCEPT ![Top(t).n].how = how]

\* Variant: the arguments printed before the message is written.
EnterBeforePut(t, x, site) ==
  /\ t \in MayThrow[x]
  /\ active[t] = <<>> \/ At(t, "put")
  /\ Len(active[t]) < MaxNest
  /\ Len(throws) < MaxThrows
  /\ throws' = Append(throws, [x |-> x, how |-> "open"])
  /\ active' = [active EXCEPT ![t] =
       Append(@, [n |-> Len(throws) + 1, x |-> x, site |-> site, pc |-> "filter"])]
  /\ UNCHANGED <<msg, analyzer>>

\* A throw, or another throw of an exception that was caught, by the program
\* or by the toString of an argument.
Enter(t, x, site) ==
  /\ t \in MayThrow[x]
  /\ active[t] = <<>> \/ At(t, "params")
  /\ Len(active[t]) < MaxNest
  /\ Len(throws) < MaxThrows
  /\ throws' = Append(throws, [x |-> x, how |-> "open"])
  /\ active' = [active EXCEPT ![t] =
       Append(@, [n |-> Len(throws) + 1, x |-> x, site |-> site, pc |-> "filter"])]
  /\ UNCHANGED <<msg, analyzer>>

Filter(t) ==
  /\ At(t, "filter")
  /\ IF Top(t).site = "filtered" THEN Return(t, "filtered") ELSE Goto(t, "read")
  /\ UNCHANGED <<msg, analyzer>>

\* Variants: the check of the message left out ...
ReadMessageAny(t) ==
  /\ At(t, "read")
  /\ IF Top(t).x \notin Npe THEN Return(t, "not an NPE") ELSE Goto(t, "analyse")
  /\ UNCHANGED <<msg, analyzer>>

\* ... and the check of the class.
ReadMessageAnyClass(t) ==
  /\ At(t, "read")
  /\ IF msg[Top(t).x] # NoMessage THEN Return(t, "has message")
                                  ELSE Goto(t, "analyse")
  /\ UNCHANGED <<msg, analyzer>>

\* The class's name and the message are read, and checked in that order.
ReadMessage(t) ==
  /\ At(t, "read")
  /\ CASE Top(t).x \notin Npe          -> Return(t, "not an NPE")
       [] /\ Top(t).x \in Npe
          /\ msg[Top(t).x] # NoMessage -> Return(t, "has message")
       [] OTHER                        -> Goto(t, "analyse")
  /\ UNCHANGED <<msg, analyzer>>

\* The frame to describe is the thrower's, or its caller's when the thrower
\* is requireNonNull; a native one has no bytecodes.  A trace that looks at no
\* instruction does not log.
Analyse(t) ==
  /\ At(t, "analyse")
  /\ Top(t).site # "check from native"
  /\ \E pc \in {"lookup", "put"} : Goto(t, pc)
  /\ UNCHANGED <<msg, analyzer>>

\* Variant: the logger created without a look.
LookupLoggerNever(t) ==
  /\ At(t, "lookup")
  /\ Goto(t, "create")
  /\ UNCHANGED <<msg, analyzer>>

\* getLogger: spdlog::get, and if it finds nothing ...
LookupLogger(t) ==
  /\ At(t, "lookup")
  /\ Goto(t, IF analyzer THEN "put" ELSE "create")
  /\ UNCHANGED <<msg, analyzer>>

\* Variant: each thread waits for the other to be done.
CreateLoggerWaits(t) ==
  /\ At(t, "create")
  /\ \A u \in Threads \ {t} : ~At(u, "create")
  /\ IF analyzer THEN Return(t, "no logger") ELSE Goto(t, "put")
  /\ analyzer' = TRUE
  /\ UNCHANGED msg

\* ... stdout_color_st, which throws when the name has been taken meanwhile.
CreateLogger(t) ==
  /\ At(t, "create")
  /\ IF analyzer THEN Return(t, "no logger") ELSE Goto(t, "put")
  /\ analyzer' = TRUE
  /\ UNCHANGED msg

\* Variant: the field not written.
PutFieldLost(t) ==
  /\ At(t, "put")
  /\ Goto(t, "params")
  /\ UNCHANGED <<msg, analyzer>>

\* Variant: the exception and the throw kept per thread, not per callback.
PutFieldPerThread(t) ==
  /\ At(t, "put")
  /\ msg' = [msg EXCEPT ![Top(t).x] = active[t][1].n]
  /\ Goto(t, "params")
  /\ UNCHANGED analyzer

PutField(t) ==
  /\ At(t, "put")
  /\ msg' = [msg EXCEPT ![Top(t).x] = Top(t).n]
  /\ Goto(t, "params")
  /\ UNCHANGED analyzer

PrintParams(t) ==
  /\ At(t, "params")
  /\ Return(t, "annotated")
  /\ UNCHANGED <<msg, analyzer>>

\* A JVMTI or JNI call returns an error or leaves an exception, the class file
\* cannot be read, an opcode is not supported: a C++ exception, caught at the
\* end of exceptionCallback.
Fail(t) ==
  /\ active[t] # <<>>
  /\ Top(t).pc \notin {"lookup", "create"}
  /\ Return(t, "failed")
  /\ UNCHANGED <<msg, analyzer>>

Step(t) == \/ Filter(t) \/ ReadMessage(t) \/ Analyse(t) \/ LookupLogger(t)
           \/ CreateLogger(t) \/ PutField(t) \/ PrintParams(t) \/ Fail(t)

Throw(t) == \E x \in Exceptions, site \in Site : Enter(t, x, site)

Next == \E t \in Threads : Throw(t) \/ Step(t)

\* Each callback runs in its own thread, which the scheduler does not stop for
\* ever.  That the calls it makes return is assumed: the application's
\* toString does, and no thread has to throw.
Spec == Init /\ [][Next]_vars /\ \A t \in Threads : WF_vars(Step(t))

-----------------------------------------------------------------------------
(* Properties.                                                             *)

TypeOK ==
  /\ msg \in [Exceptions -> Message]
  /\ active \in [Threads -> Seq(Activation)]
  /\ throws \in Seq(Thrown)
  /\ \A t \in Threads : \A i \in 1..Len(active[t]) :
       active[t][i].n \in 1..Len(throws)
  /\ analyzer \in BOOLEAN

\* A message the constructor was given is never changed, whichever threads
\* throw the exception and however often.
ConstructorMessageKept ==
  [][\A x \in Exceptions : msg[x] = Constructed => msg'[x] = Constructed]_vars

\* The comment at the check of exceptionMessage: an NPE that has a message
\* keeps it.  The callback's own messages are messages too: one thrown again,
\* also from a toString while its callback prints the arguments, keeps the
\* description of the first throw.
MessageNotOverwritten ==
  [][\A x \in Exceptions : msg[x] # NoMessage => msg'[x] = msg[x]]_vars

\* A thread calls the application's code from printMethodParams only: of its
\* open callbacks all but the innermost are there.
NestsInParams ==
  \A t \in Threads : \A i \in 1..(Len(active[t]) - 1) :
    active[t][i].pc = "params"

Late == {"analyse", "lookup", "create", "put"}

\* Between the check of the message and the write, the check still holds: for
\* an NPE that only this thread throws, and for a constructor's message always.
Writable ==
  {x \in Npe : msg[x] # Constructed /\ (Confined => msg[x] = NoMessage)}

CheckStillHolds ==
  \A t \in Threads : \A i \in 1..Len(active[t]) :
    /\ t \in MayThrow[active[t][i].x]
    /\ active[t][i].pc \in Late => active[t][i].x \in Writable

IInv == TypeOK /\ NestsInParams /\ CheckStillHolds

\* What the agent writes into an exception is the description of a throw of
\* that exception, an NPE, whose callback passed the filter.
DescribesItsThrow ==
  \A x \in Exceptions : msg[x] > 0 =>
    /\ x \in Npe
    /\ throws[msg[x]].x = x
    /\ throws[msg[x]].how \in {"open", "annotated", "failed"}

\* No NPE goes without a message unless a filter or an error that was logged
\* says why; an error after the message was written, in printing the
\* arguments, does not take it away.
NoSilentLoss ==
  \A n \in 1..Len(throws) :
    /\ throws[n].how \in {"has message", "annotated"} => msg[throws[n].x] # NoMessage
    /\ throws[n].how = "not an NPE" => throws[n].x \notin Npe

Lost == {n \in 1..Len(throws) : throws[n].how = "no logger"}

\* The race for the registry can cost every thread but one the message of one
\* exception, at the first use of the logger, and no more.
LoggerRaceCost == Cardinality(Lost) < Cardinality(Threads)

Reports ==
  INSTANCE Annotations WITH
    message <- msg,
    thrown  <- [n \in DOMAIN throws |-> throws[n].x],
    open    <- {n \in DOMAIN throws : throws[n].how = "open"}

\* The callbacks of all threads together, nested or not, do what Annotations
\* says: the check of the message, the analysis and the write take effect at
\* once, at the write, and before the exception goes on to its handler.
Annotates == Reports!Spec

\* Every callback returns, and the thread goes on.
CallbacksReturn == \A t \in Threads : active[t] # <<>> ~> active[t] = <<>>
=============================================================================
