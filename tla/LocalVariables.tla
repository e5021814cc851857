--------------------------- MODULE LocalVariables ---------------------------
(***************************************************************************)
(* Naming the variable a null was loaded from: the constructor of Method   *)
(* and toJavaTypeName read the descriptor, Jvmti::getLocalVariableTable    *)
(* fills a LocalVariableTable, and traceDetailedCause takes the slot from  *)
(* the load and looks it up, or counts the parameters.                     *)
(*                                                                         *)
(* A descriptor is a sequence of tokens; a class name is one token, "L".   *)
(* Variables are numbered in the order of their declaration, from 1 on; 0  *)
(* is the receiver of an instance method, "this".  A name is the number of *)
(* the variable it belongs to.                                             *)
(***************************************************************************)
EXTENDS Integers, Sequences

CONSTANTS Types,     \* types of parameters: [base, dim]
          MaxParams, \* bound on the parameters of a method
          Locals     \* slots of the variables that are not parameters, counted
                     \* from the first slot after these; a set of sequences

Bases == {"B", "C", "D", "F", "I", "J", "S", "Z", "V", "L"}

ASSUME TypesAssumption ==
  /\ Types \subseteq [base : Bases \ {"V"}, dim : 0..255]
  /\ Locals \subseteq Seq(Nat)
  /\ MaxParams \in Nat

-----------------------------------------------------------------------------
(* The method, its table and the load, as the JVM sees them.               *)

Void == [base |-> "V", dim |-> 0]

\* Where things of these widths start when they lie one after another from 0 on,
\* and at last where the last one ends.
Starts(w) ==
  LET s[k \in 1..(Len(w) + 1)] == IF k = 1 THEN 0 ELSE s[k - 1] + w[k - 1] IN s

\* Slots of a value (JVM specification, 2.6.1), and where the parameters start.
Slots(t) == IF t.dim = 0 /\ t.base \in {"J", "D"} THEN 2 ELSE 1

SlotStarts(params) == Starts([k \in 1..Len(params) |-> Slots(params[k])])

First(static) == IF static THEN 0 ELSE 1

Arguments(c) == First(c.static) + SlotStarts(c.params)[Len(c.params) + 1]

\* The receiver, which an instance method has as its first variable.
This == 0

Variables(c) == (IF c.static THEN 1 ELSE This)..(Len(c.params) + Len(c.locals))

\* The slot of the receiver, of each parameter, then of each other variable.
SlotsOf(c) ==
  [k \in Variables(c) |->
    IF k = This THEN 0
    ELSE IF k <= Len(c.params) THEN First(c.static) + SlotStarts(c.params)[k]
    ELSE Arguments(c) + c.locals[k - Len(c.params)]]

\* A descriptor: a parenthesis is a part of one token, a type has a bracket for
\* each of its dimensions and then a letter.
Parts(c) ==
  <<[base |-> "(", dim |-> 0]>> \o c.params \o <<[base |-> ")", dim |-> 0], c.ret>>

\* How many tokens are before each part, and in all.
PartStarts(c) == Starts([k \in 1..Len(Parts(c)) |-> Parts(c)[k].dim + 1])

PartAt(c, p) ==
  LET s == PartStarts(c) IN CHOOSE k \in 1..Len(Parts(c)) : s[k] < p /\ p <= s[k + 1]

Descriptor(c) ==
  [p \in 1..PartStarts(c)[Len(Parts(c)) + 1] |->
    LET k == PartAt(c, p)
    IN  IF p = PartStarts(c)[k + 1] THEN Parts(c)[k].base ELSE "["]

\* aload_0 to aload_3, aload, wide aload: the opcode and the bytes after it.
ALOAD == 25
ALOAD_0 == 42
Loads(slot) ==
  {[op |-> ALOAD, wide |-> TRUE, bytes |-> <<slot \div 256, slot % 256>>]}
    \cup {[op |-> ALOAD, wide |-> FALSE, bytes |-> <<s>>] : s \in {slot} \cap 0..255}
    \cup {[op |-> ALOAD_0 + s, wide |-> FALSE, bytes |-> <<>>] : s \in {slot} \cap 0..3}

\* The arguments of a method have at most 255 slots (JVM specification, 4.3.3),
\* all its variables at most 65535.
Cases ==
  {c \in [static : BOOLEAN, params : UNION {[1..n -> Types] : n \in 0..MaxParams},
          ret : Types \cup {Void}, locals : Locals] :
     Arguments(c) <= 255 /\ \A k \in Variables(c) : SlotsOf(c)[k] < 65535}

VARIABLES
  code,    \* the method
  phase, pos, types, length, returnType, \* reading its descriptor
  entries, \* the variables in its local variable table, in the table's order
  table,   \* the LocalVariableTable, a set of [slot, name]
  taken,   \* entries added to it
  loaded,  \* the variable that held the null, This before it is looked for
  cause    \* what the message says

vars == <<code, phase, pos, types, length, returnType, entries, table, taken,
          loaded, cause>>

\* Variables that may hold a null, which the receiver never does; those in Locals
\* are references.
References(c) ==
  {k \in Variables(c) \ {This} : k > Len(c.params) \/ c.params[k].base = "L" \/ c.params[k].dim > 0}

\* With -g a method has entries for all its variables, an instance method's
\* receiver in slot 0 among them, without for none, and a tool may add variables
\* that have none.  The order is not prescribed.
Listings(c) ==
  {e \in UNION {[1..n -> Variables(c)] :
                  n \in 0..(First(c.static) + Len(c.params) + Len(c.locals))} :
     /\ \A i, j \in 1..Len(e) : e[i] = e[j] => i = j
     /\ \/ \A p \in {v \in Variables(c) : v <= Len(c.params)} :
             \E i \in 1..Len(e) : e[i] = p
        \/ \A i \in 1..Len(e) : e[i] > Len(c.params)}

Init ==
  /\ code \in Cases
  /\ phase = "parse"
  /\ pos = 2
  /\ types = <<>>
  /\ length = 0
  /\ returnType = Void
  /\ entries = <<>>
  /\ table = {}
  /\ taken = 0
  /\ loaded = This
  /\ cause = [kind |-> "none"]

-----------------------------------------------------------------------------
(* Method::Method and toJavaTypeName.                                      *)

\* Variant: an array of long counted as a long.
LengthOfBase(t) == IF t.base \in {"J", "D"} THEN 2 ELSE 1

\* type == "long" || type == "double"
LengthOf(t) == IF t \in {[base |-> b, dim |-> 0] : b \in {"J", "D"}} THEN 2 ELSE 1

\* The brackets from p on, and the letter after them.
TypeAt(d, p) ==
  LET q == CHOOSE q \in p..Len(d) : d[q] # "[" /\ \A r \in p..(q - 1) : d[r] = "["
  IN  [base |-> d[q], dim |-> (q - p) % 256]

ReadType ==
  /\ phase = "parse" /\ pos <= Len(Descriptor(code)) /\ Descriptor(code)[pos] # ")"
  /\ LET d == Descriptor(code)
         t == TypeAt(d, pos)
     IN  /\ pos' = pos + t.dim + 1
         /\ IF pos' # Len(d) + 1
              THEN /\ types' = Append(types, t)
                   /\ length' = (length + LengthOf(t)) % 256
                   /\ UNCHANGED returnType
              ELSE returnType' = t /\ UNCHANGED <<types, length>>
  /\ UNCHANGED <<code, phase, entries, table, taken, loaded, cause>>

SkipParenthesis ==
  /\ phase = "parse" /\ pos <= Len(Descriptor(code)) /\ Descriptor(code)[pos] = ")"
  /\ pos' = pos + 1
  /\ UNCHANGED <<code, phase, types, length, returnType, entries, table, taken,
                 loaded, cause>>

ReadDone ==
  /\ phase = "parse" /\ pos > Len(Descriptor(code))
  /\ phase' = "table"
  /\ entries' \in Listings(code)
  /\ UNCHANGED <<code, pos, types, length, returnType, table, taken, loaded, cause>>

-----------------------------------------------------------------------------
(* Jvmti::getLocalVariableTable and LocalVariableTable.                    *)

\* Variant: the slot entered as it is.
AddEntryWide(t, slot, name) ==
  IF \E e \in t : e.slot = slot THEN t ELSE t \cup {[slot |-> slot, name |-> name]}

\* The slot is cut to eight bits; emplace keeps the entry that is there.
AddEntry(t, slot, name) ==
  IF \E e \in t : e.slot = slot % 256 THEN t
  ELSE t \cup {[slot |-> slot % 256, name |-> name]}

\* Variant: the slot not cut when it is looked up.
EntryWide(slot) == {e.name : e \in {f \in table : f.slot = slot}}

\* getEntry: the key is converted to the map's key type.
Entry(slot) == {e.name : e \in {f \in table : f.slot = slot % 256}}

FillTable ==
  /\ phase = "table" /\ taken < Len(entries)
  /\ LET k == entries[taken + 1] IN table' = AddEntry(table, SlotsOf(code)[k], k)
  /\ taken' = taken + 1
  /\ UNCHANGED <<code, phase, pos, types, length, returnType, entries, loaded, cause>>

-----------------------------------------------------------------------------
(* The naming in traceDetailedCause.                                       *)

\* From opcode 0 on; 9 stands for none.
loadStoreSlotLookupTable ==
  <<9, 9, 9, 9, 9, 9, 9, 9, 9, 9, 9, 9, 9, 9, 9, 9, 9, 9, 9, 9,
    9, 9, 9, 9, 9, 9, 0, 1, 2, 3, 0, 1, 2, 3, 0, 1, 2, 3, 0, 1,
    2, 3, 0, 1, 2, 3, 9, 9, 9, 9, 9, 9, 9, 9, 9, 9, 9, 9, 9, 0,
    1, 2, 3, 0, 1, 2, 3, 0, 1, 2, 3, 0, 1, 2, 3, 0, 1, 2, 3, 9>>

\* opcodeSlot, of the opcodes ILOAD_0 to ASTORE_3 that have a slot.
OpcodeSlot(op) == loadStoreSlotLookupTable[op + 1]

SlotOf(i) ==
  IF i.op > ALOAD THEN OpcodeSlot(i.op)
  ELSE IF i.wide THEN 256 * i.bytes[1] + i.bytes[2] ELSE i.bytes[1]

IsMethodParam(slot) == slot < length + (IF code.static THEN 0 ELSE 1)

\* Variant: every parameter counted as one slot.
SlotsReadAsOne(k) == k

\* The slots of the first k parameters, as the loop adds them up.
SlotsRead(k) == Starts([j \in 1..Len(types) |-> LengthOf(types[j])])[k + 1]

\* The loop stops at the first parameter that ends where the slot begins, or
\* after the last.
Index(slot) ==
  LET start == IF code.static THEN 1 ELSE 0
      ends == {k \in 1..Len(types) : SlotsRead(k) = slot}
  IN  start + (IF ends = {} THEN Len(types) ELSE CHOOSE k \in ends : \A l \in ends : k <= l)

Named(slot) ==
  \E name \in Entry(slot) :
    cause' = [kind |-> IF IsMethodParam(slot) THEN "parameter" ELSE "variable",
              name |-> name]

Unnamed(slot) ==
  /\ Entry(slot) = {}
  /\ cause' = IF IsMethodParam(slot)
                THEN [kind |-> "parameterAtIndex", index |-> Index(slot)]
                ELSE [kind |-> "variableInSlot", slot |-> slot]

\* The walk stops at a load.
Name ==
  /\ phase = "table" /\ taken = Len(entries)
  /\ \E k \in References(code) : \E insn \in Loads(SlotsOf(code)[k]) :
       /\ loaded' = k
       /\ Named(SlotOf(insn)) \/ Unnamed(SlotOf(insn))
  /\ phase' = "done"
  /\ UNCHANGED <<code, pos, types, length, returnType, entries, table, taken>>

Next == ReadType \/ SkipParenthesis \/ ReadDone \/ FillTable \/ Name

Spec == Init /\ [][Next]_vars

-----------------------------------------------------------------------------
(* Properties.                                                             *)

\* Names are variables', and a table's keys fit in eight bits.
TypeOK ==
  /\ code \in Cases
  /\ phase \in {"parse", "table", "done"}
  /\ length \in 0..255
  /\ entries \in IF phase = "parse" THEN {<<>>} ELSE Listings(code)
  /\ taken \in 0..Len(entries)
  /\ table \subseteq [slot : 0..255, name : Variables(code)]
  /\ loaded \in IF phase = "done" THEN References(code) ELSE {This}

-----------------------------------------------------------------------------
(* The inductive invariant.                                                *)

\* The parser stands before a part of the descriptor, or after the last, has
\* kept the parameters up to it and counted their slots, of which there are
\* fewer than its counter can hold.
Before(k) ==
  LET read == IF k - 2 <= Len(code.params) THEN k - 2 ELSE Len(code.params)
  IN  /\ pos = PartStarts(code)[k] + 1
      /\ types = [j \in 1..read |-> code.params[j]]
      /\ length = SlotStarts(code.params)[read + 1]
      /\ returnType = IF k > Len(Parts(code)) THEN code.ret ELSE Void

Parsed ==
  IF phase = "parse" THEN \E k \in 2..(Len(Parts(code)) + 1) : Before(k)
                     ELSE Before(Len(Parts(code)) + 1)

Key(i) == SlotsOf(code)[entries[i]] % 256

\* Of the first n entries, those with a key that none before has.
Firsts(n) == {i \in 1..n : \A j \in 1..(i - 1) : Key(j) # Key(i)}

\* A key has the first of the entries taken whose slot is the key in eight bits.
Filled ==
  /\ table = {[slot |-> Key(i), name |-> entries[i]] : i \in Firsts(taken)}
  /\ phase = "done" => taken = Len(entries)
  /\ phase # "done" => cause = [kind |-> "none"]

IInv == TypeOK /\ Parsed /\ Filled

-----------------------------------------------------------------------------
(* What they are for.                                                      *)

\* The descriptor is understood as the JVM does: the types in their order, the
\* return type apart, and the slots of the parameters, of which an array of long
\* takes one.
ReadAsMeant ==
  phase # "parse" =>
    /\ types = code.params
    /\ returnType = code.ret
    /\ First(code.static) + length = Arguments(code)

\* No other variable in the table has the slot, as far as eight bits tell: so not
\* for slot 256 of an instance method compiled with -g, which is named "this".
Unambiguous ==
  \A i \in 1..Len(entries) :
    SlotsOf(code)[entries[i]] % 256 = SlotsOf(code)[loaded] % 256 => entries[i] = loaded

\* The message names the variable the null was loaded from, by its name if the
\* table has one, and says whether it is a parameter, whichever load it was.
NamesTheVariable ==
  (phase = "done" /\ Unambiguous) =>
    LET param == loaded <= Len(code.params)
        named == \E i \in 1..Len(entries) : entries[i] = loaded
    IN  /\ named => cause = [kind |-> IF param THEN "parameter" ELSE "variable",
                             name |-> loaded]
        /\ ~named => cause.kind = IF param THEN "parameterAtIndex"
                                           ELSE "variableInSlot"
        /\ ~named /\ ~param => cause.slot = SlotsOf(code)[loaded]

\* The index of a parameter without a name counts the parameters up to it, those
\* of two slots once.  Not so for the first parameter of a static method: its
\* slot is 0, which the loop never adds up to, and it gets the index after the last.
IndexCounts ==
  (/\ cause.kind = "parameterAtIndex"
   /\ Unambiguous
   /\ ~(code.static /\ loaded = 1)) => cause.index = loaded
=============================================================================
