# npe-blame-agent: formal models

The agent is a JVMTI library.  The JVM calls it on every exception; when a
`NullPointerException` without a message is thrown, it decodes the bytecode of the
method that threw, works out which expression was null, and writes a description
into the exception's `detailMessage` before the exception is delivered.

This directory holds TLA+ models of that program, TLC configurations that check
them on small instances, and TLAPS proofs of what matters most for every value of
the constants.  Paths below are relative to `src/src/main/` unless they begin with
`src/`.

Contents: [parts](#1-the-parts-of-the-system),
[modules](#2-modules-and-the-code-they-model), [runs](#3-runs),
[bounds](#4-bounds), [fairness](#5-fairness), [proofs](#6-proofs),
[findings](#7-where-program-and-texts-disagree),
[what is left out](#8-what-is-not-modelled), [plan](#9-plan).

## 1. The parts of the system

| Part | State | Operations | Modelled by |
|---|---|---|---|
| Null origin analysis, `cpp/analyzer.cpp` | the walk's `ins` and `stackExcess` | `describeNPEInstruction`, `traceDetailedCause`, `getStackDelta` | `Analyzer` over `OperandStack` |
| Opcode tables, `cpp/bytecode/Constants.cpp`, `include/bytecode/Constants.h` | none (constants) | look-ups | `Bytecode` |
| Exception callback, `cpp/exceptionCallback.cpp` | per call: which throw, which step; shared: `detailMessage` of the exception objects | `exceptionCallback`, `printMethodParams` | `ExceptionCallback` |
| Logger registry, `getLogger` in `cpp/util.cpp` | spdlog's process-wide registry | look up, create | `ExceptionCallback` |
| Bytecode decoder, `cpp/bytecode/CodeAttribute.cpp` | `instructions`, `pos` | `init`, `getInstructionLength`, and the search of the list | `CodeAttribute` |
| Constant pool, `cpp/bytecode/ConstPool.cpp` | `entries`, `indexPos` | `ConstInfo::read`, `ConstPool::read`, the visitors, `entryToString`, `readFromMemberRef` | `ConstPool` |
| Members and local variables, `cpp/bytecode/{Method,Field,LocalVariableTable}.cpp` | the table of slots and names | descriptor parsing, naming of a slot | `LocalVariables`; members in `ConstPool` |
| JVMTI and JNI wrappers, `cpp/api/Jvmti.cpp`, `include/api/*.h` | the thread's environment pointers, a pending Java exception | one or several calls each, errors to C++ exceptions; `checkJniException`, `jstringToString` | `NativeCalls` |
| Agent loading, `cpp/onLoad.cpp` | the environment, the enabled events | `Agent_OnLoad`, `Agent_OnAttach`, `Jvmti::init` | `NativeCalls` |

How they interact: the JVM calls `exceptionCallback` on the thread that throws.
The callback reads the class's name and the message through JNI, makes a
`CodeAttribute` and a `ConstPool` from the bytes that JVMTI hands over, passes both
to `describeNPEInstruction`, which passes them on to `traceDetailedCause`; that asks the
pool for the members that instructions refer to, and the local variable table for
names.  Its answer is written into the exception.  Then `printMethodParams` logs the
arguments of the frames, by calling the application's `toString`, which may throw and
so enter the callback again on the same thread.  Threads share the exception objects
and the registry of loggers; everything else lives in one call of the callback.

What is hard in it:

- *The arithmetic of the walk.*  The analysis keeps no model of the stack: it keeps one
  number, the depth of the slot it follows, and subtracts a delta at every
  instruction it goes back over.  For the `dup` family the delta depends on the depth.
  One wrong delta, for one depth of one opcode, silently names another expression, and
  shows only after certain sequences of instructions.
- *Check, then act.*  The callback reads `detailMessage`, analyses, and writes it.  Other
  threads, and its own thread through `toString`, throw exceptions meanwhile.
- *Failures.*  Any JVMTI or JNI call may fail, before or after the message was written.  A
  JNI call fails by leaving a Java exception pending; then next to no JNI function may be
  called.  `checkJniException` describes it by JNI calls that may fail as well, and by
  `jstringToString`, which calls `checkJniException`; and it does so in destructors, during the
  unwinding of which a second C++ exception ends the process.
- *Re-entry.*  Java code called by the agent throws exceptions of its own, whose callbacks run
  inside, set the same thread-local pointers and use the same wrappers.
- *The registry.*  Look-up and creation of a logger are two calls.
- *Boundaries of the formats.*  The padding of a switch, an 8-bit return type for lengths
  that are not 8-bit, constants that take two indexes of the pool.
- *Waiting.*  The application's thread stands still until the callback returns.

What makes each part correct:

- analysis: a named cause is the expression that made the null; it is not a neighbour
  on the stack; the walk ends and does not choke on code before the null was made;
- callback: a message is the description of a throw of that very exception, a message
  once there is never replaced, none is lost without a reason in the log, and every
  callback returns;
- decoder: the list of instructions is in step with the bytes, and the instruction
  that threw is found in it;
- local variables: the message names the variable that held the null, as a parameter or a local
  variable, by its name or by a count;
- native calls: every failure ends the callback's work, is described and cleared, and never
  ends the process; the JVMTI environment used is one that was set up;
- constant pool: each constant is found at the index that the class refers to it by, and
  the names of a member are those of the class file.

`PROJECT.json` lists every hazard with the line at which it bites and the properties
that would catch it, and for those without one the reason.

## 2. Modules and the code they model

Each specification has two sides.  The JVM's (or the compiler's) actions build a
situation: a method, its stack, a class's constants.  The agent's actions then do what
the code does, seeing only what the code sees.  The properties compare the two.

A definition introduced by a comment "Variant: ..." is a plausible bug: the definition
after it with one guard, case or assignment changed.  No specification uses it.  It
is there to be put in the other's place, to see that the property aimed at that place
fails then; `PROJECT.json` lists which belongs to which.

### Bytecode

Opcode numbers, the table of instruction lengths and the table of stack deltas, as
functions over opcodes, mapped to the tables in `Constants.cpp` (`TableLength`,
`TableDelta`).  That the entries are right is stated twice by an assumption that TLC
evaluates on every run: `Analyzer!TableAssumption` compares the unmarked deltas with what
each instruction pushes and pops, `CodeAttribute!TableAssumption` compares the lengths with the
class file format.

### OperandStack

The JVM's operand stack, as far as the analysis is about it.  It is external to
the code, and written from the JVM's instruction set: an instruction is a record of
its opcode, its operand count `n` (the argument slots of a call, the dimensions of
`multianewarray`), the type pushed or accessed and the name called; a slot is a record of which
instruction made it and whether it is a reference; `After` is the effect of an
instruction and `NullDepth` the depth of the operand that an instruction dereferences.  A `wide`
prefix is not an instruction of its own here.

### Analyzer

| In the module | In `cpp/analyzer.cpp` |
|---|---|
| `Describe`, `StartExcess` | `describeNPEInstruction`, 239-288 |
| `TracePass`, `TraceFound`, `TraceThrow`, `TraceGiveUp` | a pass of the loop of `traceDetailedCause`, 133-210: go on, name and return, an exception of `getStackDelta`, the end of the loop |
| `StackDelta`, `InvokeDelta`, `FieldDelta`, `ShuffleDelta`, `Unsupported` | `getStackDelta`, 11-118 |
| `Stops`, `Nameable`, `LabelOf` | the conditions and branches of 145-206 |
| `Execute`, `Conditional`, `Fault`, `Throw` | the JVM: run an instruction, a conditional expression laid out as two arms, an instruction that meets a null, an `athrow` of an exception without a message |

`frames[i]` is the operand stack before `code[i]` and `origin` the instruction that made the
null.  They are ghosts: the agent's actions read `code` and `fault` only.  The text of the
message is abstracted to what it says is null: a kind (`verdict.label`) and the
instruction named (`verdict.at`).

The walk is right for the methods it can follow.  `Followable` says which these are,
and each of its parts is a place where the code's arithmetic and the JVM's stack part:

- `StartsRight`: the depth that `describeNPEInstruction` starts from is the null's.  It is
  not for a `putfield` of a long or a double (line 264 takes 1, the receiver is below two
  slots) nor for `requireNonNull` with a message argument (line 250 takes 0, the tested
  value is below the message).
- `SimpleOrigin`: the instruction that made the null did so in place of at most one slot.
  An `aaload`, and a call with a receiver and arguments, leave the excess at 0 with a delta
  other than 0, and line 146 goes on past them.
- `Straight`: no instruction on the way is joined by a branch with another stack in
  between.  The walk goes through the layout, so it counts both arms of a conditional
  expression.
- `OneSlotResult`: no call on the way returns a long or a double, which line 26 counts as
  one slot.

They limit the promises, not the model: all such methods are in the runs, and
`TypeOK`, `LaidOut`, `NullInPlace` and `Terminates` are about them too.  Three runs take the conditions away and show what
happens then (section 7).

Properties: `WatchesTheNull` (the slot followed holds the null that was
dereferenced, at every step), `BlamesOrigin` (what is named is what made it), `UnknownOnlyAtDup` (only a
plain `dup` makes the walk give up), `NeverOvershoots` (it looks at nothing before the
origin), `Terminates`.

### ExceptionCallback

`active[t]` is the stack of callbacks open in thread `t`; each is at one of seven points
of `exceptionCallback`, `PC`, which divide it at its accesses to what is shared.

| Action | Code |
|---|---|
| `Enter`, `Throw` | the JVM calls the callback: from the program, or from a `toString` called by `printMethodParams` |
| `Filter` | `cpp/exceptionCallback.cpp` 134-137: native frames and bytecode index 0 |
| `ReadMessage` | 139-146: the class's name, the message |
| `Analyse` | 148-168: which frame to describe, and its description |
| `LookupLogger`, `CreateLogger` | `getLogger`, `cpp/util.cpp` 12-18 |
| `PutField` | 169: the write of `detailMessage` |
| `PrintParams` | 100-122 and 171 |
| `Fail` | 172-174: a C++ exception from anywhere in between |

A message is absent, the constructor's, or the number of the throw whose callback wrote
it; so a property can say which throw a message describes.  `MayThrow` gives the threads that
may throw an exception; `Confined` says that no NPE is thrown by two.

Properties: `ConstructorMessageKept` (for all, confined or not), `MessageNotOverwritten` (when
confined: re-entry and rethrow do not replace the first description),
`DescribesItsThrow` (a message written is that of a throw of this exception, which is an NPE), `NoSilentLoss` (a callback that
reports success left a message), `LoggerRaceCost` (the registry's race costs fewer
messages than there are threads), `CallbacksReturn`, and `Annotates`, the refinement of the next module.

### Annotations

What the agent promises of a program's exceptions, without threads, callbacks and loggers: a
throw is held up (`open`), meanwhile its exception may be given a message, if it is an NPE that
has none, and then it goes on.  `ExceptionCallback!Annotates` is `Reports!Spec`, where
`Reports` is `INSTANCE Annotations` with `msg` for the messages, the exceptions of `throws`, and the
throws whose callback is open.  The check of the message, the analysis and the write, which are
steps apart and interleaved with other threads and with nested callbacks, so look like one step, at the
write.  It holds while every NPE stays in one thread (`Confined`); the run shared_exception
shows that it does not otherwise.

### NativeCalls

One thread's native side.  `stack` holds the C++ functions that have not returned, each with the
step it is at; `Script` is the list of steps of each function.  A step is a JNI call, a check, a
call of another function of the agent, or a run of JVMTI calls with no JNI call in between.

| In the module | Code |
|---|---|
| `InvokeVirtual`, `InvokeStatic`, `GetField`, `PutField` | the templates of `include/api/Jni.h`, 394-548, as instantiated for String |
| `CheckJniException`, `GiveUp`, `JstringToString`, `StringOf`, `Construct` | `cpp/util.cpp` 22-66 |
| `ExceptionCallback`, `PrintMethodParams`, `Number`, `Object`, `Array` | `cpp/exceptionCallback.cpp` 100-175, `localVariableToString` in `include/api/Jvmti.h` |
| `Check`, `Guard`, `Return` | `checkJniException` in the line, and in the destructor of `JniScopedExceptionChecker` |
| `Unwind` | a C++ exception leaves a function: destructors run, `exceptionCallback` catches |
| `JvmtiCall`, `CheckErrorFails`, `EnsureInit` | the wrappers of `cpp/api/Jvmti.cpp`, `checkError`, `ensureInit` |
| `Load`, `Attach`, `AgentOnLoad`, `InitCall`, `InitDone` | `Agent_OnLoad`, `Agent_OnAttach`, `Jvmti::init` |
| `JniCall`, `Event`, `NestedEvent` | the JVM: a function returns, or raises; an exception event, in Java code below or called by the agent |

A function's `clean` flag is a ghost: no JNI call in it has failed.  `died` says how the process
ended: by `std::terminate` or by a call through a null environment.  Both can happen while the agent loads (a
capability that is refused is reported through `env`, which is not set before the end of
`init`); the claims are about callbacks.

Properties: `CallbackSurvives` (no order of failures ends the process in a callback),
`NoCallWhilePending` (the rule of the JNI specification), `LeavesNothing` (the thread goes back to Java
with no exception of the agent's), `EnvironmentReady` (also in threads that did not load the agent, and
after a callback of another environment ran inside), `NoFailureIgnored` (no function returns
normally after a JNI call in it failed), `CallbackEnds`.

### LocalVariables

| Action | Code |
|---|---|
| `ReadType`, `SkipParenthesis`, `ReadDone` | the constructor of `Method`, `cpp/bytecode/Method.cpp` 7-35, with `toJavaTypeName` (`TypeAt`) |
| `FillTable` | the loop of `Jvmti::getLocalVariableTable`, `cpp/api/Jvmti.cpp` 145-155, with `LocalVariableTable::addEntry` |
| `Name` | `cpp/analyzer.cpp` 151-187: the slot (`SlotOf`, `OpcodeSlot`), whether it is a parameter, its name (`Entry`) or what is said without one (`Unnamed`, `Index`) |

A case is a method's parameters, its other variables and their slots, the entries of its table
in some order, the variable that holds the null, and an instruction that loads it.  A name is
the number of the variable that it belongs to, so that a property can say whose name is given.
Variable 0, `This`, is the receiver of an instance method: it is never null, but a table that lists the
parameters has its entry too, in slot 0, as `-g` leaves it, at any place in the order.
The map from slots to entries is the set `table` of records, which has a slot at most once; where the
parameters and the parts of a descriptor start is told by `Starts`, the sums of their sizes.

Properties: `ReadAsMeant` (types, return type and slots of the descriptor), `NamesTheVariable`,
`IndexCounts`.  Two conditions limit them: `Unambiguous`, that no other entry has the slot as far as
eight bits tell (the code cuts slots to eight bits, and keeps the first of the variables that
share one, whatever their ranges: of a load from slot 256 in an instance method compiled with `-g` the
message says `this`, which the model shows and the property does not defend); and the first parameter of a static method, which without
a table gets the index after the last (the loop of `cpp/analyzer.cpp` 174-183 compares the
slot after each parameter, and never 0).

### CodeAttribute

| Action | Code |
|---|---|
| `Emit` | the Java compiler writes an instruction with its padding and operands |
| `Construct` | one instruction threw; `GetBytecodes` hands over the method |
| `List`, `ListThrow`, `Listed` | `CodeAttribute::init`, 21-26, with `getInstructionLength`, 176-203 (`InstructionLengthAt`) |
| `Search`, `Found` | the first loop of `traceDetailedCause`, `cpp/analyzer.cpp` 126-131 |

Lengths are computed modulo 256, as the return type has it.  What a read beyond the
end of the code (or of the table) finds is any of `Stray`: the behaviour is undefined there.
`Measured` says of which switches the length is right: those whose operands need padding
(line 190 gives 4 bytes where none are needed) and that are shorter than 256 bytes.

Properties: `InStep`, `ReadsInside`, `FindsLocation`, `RefusesNone`, `Finds`.

### ConstPool

| Action | Code |
|---|---|
| `Write`, `HandOver` | the class file format, and `GetConstantPool` |
| `ReadNext`, `ReadThrow`, `ReadDone` | `ConstPool::read`, 259-274, with `ConstInfo::read`, 115-150 and the readers of the kinds, 152-257 (`ReadSize`, `ReadRefs`, `ReadText`) |
| `ReadMember` | `Method::readFromMemberRef` and `Field::readFromMemberRef`, by `ReadFromCodeInvoke` and `ReadFromFieldInsn` for the instructions that hold the index |
| `PrintEntry` | `entryToString` of an operand, `CodeAttribute::printInstruction` |
| `Visit`, `Named` | the visitors, 17-109: one entry's visit is a step, and `todo` is the recursion |

A pool is a sequence of constants, each a tag and its bytes; the references inside are
indexes, of which a long and a double take two.  `WellFormed` is the JVM's verification of
the class: `HandOver` passes on no other.  The texts keep the bytes they were read from;
how a number is printed, and the punctuation between the texts of an entry, are left out.

Properties: `Aligned` (what was read so far is at the indexes that the class uses, with what
the class says, and the reader is at the next constant), `CountAgrees` (the assertion in
`Jvmti::getConstPool`, `cpp/api/Jvmti.cpp:101`, which a release build drops), `RefusesOnlyNew`
(only the kinds `Dynamic`, `Module`, `Package` of later Java versions make the pool unreadable; no
reference throws and no cast fails), `MembersNamed` (class, name and descriptor of a member are
the class file's), `Resolves`.

### Modules for checking and proving

`MCAnalyzer`, `MCExceptionCallback`, `MCCodeAttribute`, `MCConstPool`, `MCNativeCalls` and `MCLocalVariables` define
the values of the constants for the `.cfg` files; `MCLocalVariables` also has TLC compare the
table of slots with the instruction set.  `Analyzer_proofs`, `ExceptionCallback_proofs`,
`LoggerRace_proofs` (also about `ExceptionCallback`), `NativeCalls_proofs`, `CodeAttribute_proofs`,
`ConstPool_proofs` and `LocalVariables_proofs` hold the theorems; `Induction` has the induction principle
for functions that are defined by recursion on a number, and sums of sequences with it.

## 3. Runs

| Run | Configuration | States | Question |
|---|---|---|---|
| shuffles | `Shuffles.cfg` | 210,809 | Do the deltas of the `dup` family, `swap` and `checkcast` follow a null through every sequence of up to six? |
| sources | `Sources.cfg` | 152,940 | Is the cause the null's for every kind of producer, consumer and dereference, with conditional expressions, long and double operands and unsupported instructions in the way?  Does the walk end?  Is the invariant of the proofs one? |
| callback | `Callback.cfg` | 558,656 | Are messages written once, for the right throw, with two threads, re-entry from `toString`, rethrows, and any step failing?  Do the callbacks implement `Annotations`? |
| native | `Native.cfg` | 554,226 | Is every failure of a JNI or JVMTI call seen, described and cleared, whatever fails in describing it, with callbacks inside callbacks and a second environment? |
| variables | `Variables.cfg` | 498,595 | Does the message name the variable that the null was loaded from?  Is the invariant of the proofs one? |
| scan | `Scan.cfg` | 53,369 | Is the list of instructions in step with the bytes at every alignment, and the thrower found? |
| pools | `Pools.cfg` | 1,878 | Is every constant found at its index, whatever kinds come before it?  Is the invariant of the proofs one? |
| chained_call, implicit_check, rethrow, shared_exception, switch_padding | | | one claim of the program's texts each, which the code does not keep (section 7) |

All but the five in the last row hold.  Deadlock is not
checked: a method that has been analysed, a throw budget that is spent, a pool that has
been refused, or a process that has ended is the end of a behaviour.  The longest, `callback`, takes about
two minutes.

## 4. Bounds

- `MaxCode`, `MaxStack` (6 and 6, 5 and 4): the methods of `Analyzer`.  Of the `dup` family the
  deepest form moves four slots, and a delta depends on the depth only up to 4; six
  instructions build a stack deep enough for each form at each depth, apply two of them
  and dereference the result.  With the wider set of `sources`, five make a base, a value,
  a conditional expression or a call around it and the dereference.
- `MaxThrows` 3, `MaxNest` 2, two threads, four exceptions: a throw, a throw inside of
  its callback, of the same exception or another NPE, and one by the other thread at any point of
  either; or the same exception thrown three times.  The race for the registry needs two threads.
- `MaxInsns` 3, `MaxBytes` 300, `Memory` 8: a first instruction sets the alignment, a second
  is measured, a third is found or missed.  The set includes a switch that is just short
  enough for the 8-bit length at some positions only, and one that is too long at all.
  `Memory` is where `push_back` fails; it is finite so that a length of 0 comes to an end.
- `MaxRaises` 2, `MaxNested` 1, two environments: a call fails, and the description of the failure fails
  too, at any of its steps; one callback runs inside another, of the same or the other environment, with
  failures in either.  A third Java exception can only meet the same functions again.  That the
  nesting itself has no bound in the code (a `toString` that always fails) is beyond every run;
  `CallbackDescends` says what keeps a callback from ending and what does not.
- `SomeTypes`, `MaxParams` 2, `SomeLocals`: a parameter of one slot or of two, an array of long (one slot, though
  its letter has two), a reference; a second parameter behind each; other variables next to
  them, sharing a slot, and 256 slots on, where eight bits and the wide form of the load matter, in
  static methods and in instance methods, where slot 256 meets the receiver's.
- `Pools`: six pools, which between them have every kind of constant, a text longer than 255
  bytes and an empty one, each laid out forwards and backwards from every place, so that
  references lead both ways across the constants that take two indexes.

The theorems of section 6 have none of these bounds: they are for any instructions, any
lengths, any threads.

## 5. Fairness

- `WF_vars(Agent)` in `Analyzer`, `CodeAttribute` and `ConstPool`: the code between the JVM's call and
  the callback's return runs in one thread and waits for nothing; weak fairness says that
  a thread that can run does.
- `WF_vars(Step(t))` for every thread in `ExceptionCallback`: the same, for threads that do not
  wait for one another.  Calls of JVMTI, JNI and `toString` are taken to return.  Nothing
  forces a thread to throw, and `Throw` is not fair.
- `WF_vars(Step)` in `NativeCalls`: the thread's own native code runs on, and the functions of the JVM and the
  methods it calls return or raise.  Events, loading and attaching are the JVM's and have no fairness.
- The JVM's and the compiler's actions have no fairness: nothing makes a program throw.

## 6. Proofs

Checked by `tlapm` for all values of the constants that satisfy the assumptions, which
say only that the parameters are what their names say: `EnvsAssumption` (`nullptr` is no environment), `InsnsAssumption`
(instructions are instructions), `BoundsAssumption` (bounds are numbers; there is memory for the list), `TableAssumption` (the
opcode tables, a closed formula that TLC evaluates), `StrayAssumption` (some byte is found),
`ExceptionsAssumption` (the types of `Npe` and `MayThrow`), `ThreadsAssumption` (there are threads, and finitely
many), `PoolsAssumption` (pools are sequences of constants), `TypesAssumption` (types have at most 255
dimensions, and slots are numbers).

Of the properties of the passing runs, all but the five liveness properties are theorems.

**Analyzer.**  `TypeCorrect`; `Inductive`, that `IInv` is an invariant; and from it `NullWatched`,
`OriginBlamed`, `UnknownIsDup` and `NoOvershoot`.  `WatchesTheNull` is not inductive.  It says
that the slot before the last instruction looked at holds the null; to take it one
instruction further back, one needs that this instruction had the operands it popped and
that slots are made by earlier instructions (`LaidOut`), where the null was to begin with
(`NullInPlace`), and that a walk that has left the stack did so at a `dup` (`LostAtDup`).  The heart
is one lemma per family of instructions: if `After` puts the null at depth `e`, and the
instruction did not make it, then it was at depth `e - StackDelta(insn, e)` before.
That is the claim the code's arithmetic makes, and it is proved for each form of `dup` and
`swap`, for calls of any number of arguments, and through `TableAssumption` for all opcodes with an
entry in the table.  The other conjuncts follow from where the walk stops.

**ExceptionCallback.**  `Inductive`, and from it `ConstructorMessages` and, under `Confined`, `FirstMessages`.
The invariant is that the check still holds when it is used (`CheckStillHolds`: from the check
to the write the exception is an NPE whose message may be written) for all callbacks open in
all threads.  It is kept because a thread has only one callback between the two at a time
(`NestsInParams`: those below the innermost have written and are printing arguments), and
because two threads have the same NPE only if not `Confined`.  `Described` and `NoneLostSilently` need in addition what
`throws` and `active` have to do with each other: an activation's throw is open, is of its
exception, and is no other activation's; how a throw ended is explained by the message that its
exception has.  `Implements` proves the refinement: each action is one of `Annotations` under the mapping,
or a stutter, and the write is an `Annotate` because of `CheckStillHolds`.

**NativeCalls.**  `Inductive`, and from it `Survives`, `CallsInOrder`, `NothingLeft`, `EnvironmentsReady` and `FailuresSeen`, for any number of
environments, exceptions and nested callbacks.  That nothing is called with an exception
pending is not inductive.  The invariant says that a pending exception is on its way
(`OnItsWay`): the innermost function is at a step (`Exposed`) between a call that may raise and the
next check, or at its end with a checker to destroy, and no C++ exception is unwinding the
stack; that a function in which a call failed has the exception pending, is being unwound, or waits for
`checkJniException`, which never returns normally (`FailureSeen`); and that the functions are where calls put
them (`FramesInOrder`, `CallbackRuns`).  Two lemmas about the scripts carry it: `ExposedNext`, which makes
`Exposed` step by step, and `ExposedOps`, that at every exposed step of every function the code does
only what is allowed then; they are what a wrapper added to the code would have to satisfy.

**CodeAttribute.**  `Inductive`, and from it `TypeCorrect`, `ListInStep`, `NoStrayRead`, `NoneRefused` and
`LocationFound`.  `InStep` needs what the bytes are (`Laid`: each instruction at its start, the next one
behind it) and, for the search, that what was passed is not what is sought (`Searched`).

**ConstPool.**  `Inductive`, and from it `TypeCorrect`, `ReaderAligned`, `CountRight`, `OnlyNewRefused` and
`NamesRight`, for pools of any size, in any order, with texts of any length.  `Laid` says where the class file has
its constants and which index each has; `ReadsConstant` is the lemma that carries `Aligned` one constant on: at the
start of a constant, the reader of its kind takes its bytes, no more, and gets its references and its text.  That the
pool is read to the end when it is used (`Ordered`) makes indexes and entries agree, so that a look-up never
throws; `Kinds` and `OneKind` say that the tests of the code tell the kinds apart.  For the members, `Visits`
says that what has been printed and what is still to be visited are together the three texts, at any
point of the recursion: a visit takes the next away, or puts in its place those it leads to.

**LoggerRace** (of `ExceptionCallback`).  `RaceCost`: however many throws there are, those that lose their message to
the registry's race are fewer than the threads.  The number of losses alone has no bound that a step keeps; what is
bounded is the losses together with the threads that have found no logger and are about to make one
(`RaceBounded`).  Who makes it leaves that set without a loss; every other member is lost at most once;
and nobody enters the set once the logger is there.

**LocalVariables.**  `Inductive`, and from it `DescriptorsRead`, `VariableNamed` and `IndexRightCounted`, for
any number of parameters, dimensions, other variables and entries.  The parser always stands
before a part of the descriptor (`Before`), with the types before it kept and their slots counted; that the 8-bit
counter does not wrap follows from the limit of 255 slots.  The table is that of the entries whose key no earlier one
has (`Filled` with `Firsts`), which is what `emplace` keeps.  Behind them are facts about sums: `Starts` grows by each
size (`StartsGrow`), so parts and slots do not overlap, and a position lies in one part (`DescriptorTokens`).  They are
proved by induction over numbers, in `Induction`: that a set of numbers that is not empty has a least one is
derived from finite sets, since the library's induction theorems take an operator, which the
provers cannot instantiate.

**The agent's steps descend.**  What the prover can say of termination is that no walk, loop or callback has infinitely
many steps of the agent's own.  For each component a natural number, `Left` (`Work` of a thread in
`ExceptionCallback`), bounds what is left, and each step lowers it:

- `WalkDescends`: the walk has at most two steps more than the method has instructions.
- `LoopsDescend`: the positions do not give the measure, since a `tableswitch` may be measured as 0 long or in
  eight bits (section 7); the list does, which grows until memory is spent.
- `CallbacksDescend`: a callback's steps follow one another, and those below it are at their last; only a throw,
  by the same thread, adds to what is left.
- `PoolDescends`: a constant of any size takes the reader forward.  For the visits of `entryToString` the measure is the
  sum, over the visits to come, of a weight by kind: what an entry refers to weighs less together
  than the entry, so that no references lead round in a circle in any pool whose references are of the kinds that
  the class file format asks for.
- `CallbackDescends`: the recursion here is the one the code should worry about: to describe a failure takes calls
  that may fail and be described, and the methods they run may throw, which is a callback inside.  A function in progress costs its remaining
  steps, each at the price (`Rate`) of the dearest function it may call, so that a call is paid for by the step that makes it
  (`CallsLighter`, over all scripts).  An exception pending costs its description (`Describing`), and a callback its steps (`Nesting`);
  both are taken from what there is of exceptions and callbacks to come, `MaxRaises - raised` and
  `MaxNested - nested`.  Hence the descent holds between one failure and the next, for any number of them; that they come to
  an end is for the environment.  The agent's loading in another thread is no step of the callback, and is left out.

From these, liveness is a step of fairness and `ENABLED` away: that the agent can always take a step until it is
done.  Deadlock in the middle of the work is what TLC's liveness runs exclude.

**A defect of the prover and what it means here.**  For its SMT backend, tlapm 1.4.5 states of every `S` that
`DOMAIN S = 1..N` holds if and only if `Len(S) = N` does.  The first implies the second for sequences; the converse is
wrong for functions that are not sequences, and with such a function in the hypotheses anything can be proved.  No
specification here has a function on `0..n` for that reason but `SlotsOf` of an instance method (sums are sequences that start at 1, the table is a set), whose `Len` nothing speaks of, and all
SMT obligations were checked once more outside of tlapm, with the axiom replaced by the implication that is
true: each is still found valid.

Model-checked only: liveness itself (`Terminates`, `CallbacksReturn`, `CallbackEnds`, `Finds`, `Resolves`), for the part
of fairness and `ENABLED`, which the prover does not reach.

## 7. Where program and texts disagree

| Run | What it shows |
|---|---|
| chained_call | `a.foo(b).bar()`, with a null result of `foo`: the walk goes on past the call, because it leaves an excess of 0 by a delta other than 0 (`cpp/analyzer.cpp:146`), and names another expression.  `src/Readme.md:47-48` gives chained calls as what the message is for. |
| implicit_check | `aload, dup, invokestatic requireNonNull`, as javac compiles an implicit check: the delta of `dup` is 1 at any depth, the walk ends above the stack, and the cause is UNKNOWN.  The comment at `cpp/exceptionCallback.cpp:152` has the frame analysed for this very case. |
| rethrow | An NPE without a message that is thrown again, as by `finally`, is said to be the throwing of a null (`cpp/analyzer.cpp:278`); nothing is null there. |
| shared_exception | Two threads that throw one NPE at the same time both find no message, and the second write replaces the first, against the comment at `cpp/exceptionCallback.cpp:145`. |
| switch_padding | A switch whose operands are aligned as they are is taken to have four bytes of padding (`cpp/bytecode/CodeAttribute.cpp:190`), against "0-3 padding" at line 193; the list is then out of step and the instruction that threw is missed. |

## 8. What is not modelled

- The wording of messages and the log, with the mnemonics: no property is about them.
  `shouldPrint` and `parseMethodSignature` are never called.  `printBytecode` formats every instruction of the method, whether the
  log shows it or not; that this can fail is in `ExceptionCallback` (`Fail`) and, for what operands
  refer to, in `ConstPool` (`PrintEntry`), the layout is nowhere.
- The ranges of bytecode in which a local variable has its slot: the code drops them.
- `getStatic`, `putStatic` and `invokeSpecial` of `include/api/Jni.h`: templates that nothing instantiates.  (The first
  two ask for the field by `GetFieldID`, which is for instance fields.)  `SignatureChecker` runs
  in the compiler.
- Undefined behaviour whose outcomes the program's state does not tell apart: the view of the agent's options
  that outlives its string (`cpp/onLoad.cpp:19`), an `int[]` handed to `deepToString(Object[])`
  (`include/api/Jvmti.h:123`), loggers for one thread used by several.
- The body of JVMTI, JNI and spdlog, and what their sinks do under concurrent use.
- The last branch of `describeNPEInstruction` (`cpp/analyzer.cpp:283-285`): no instruction of which the JVM
  reports an NPE gets there.
- What the value of a constant is: `LongInfo::read` (`cpp/bytecode/ConstPool.cpp:177`) takes 64 bits through a C++
  `long`, which keeps them where `long` has 64, as the build assumes (`-m64 -D_LP64=1`, `src/CMakeLists.txt:20`), and
  would not on 64-bit Windows.
- `ConstPool::read(std::ifstream, size_t)`, a stub that nothing calls.
- JNI local references taken by `printMethodParams`: released by the JVM when the callback
  returns.
- `external/typestring.hh` and other vendored code, the build.

## 9. Plan

Done: all modules of section 2, their runs, the refinement of `Annotations`, proofs of all properties that are not
liveness, and of the descent of every component's steps.  What is left: a composition of `CodeAttribute`'s list of instructions with `Analyzer`'s walk, which now starts from the
instruction that threw, as a module of its own; and an abstract specification for it, of an agent that is told the null's origin
by the JVM.
