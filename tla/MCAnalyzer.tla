----------------------------- MODULE MCAnalyzer -----------------------------
(***************************************************************************)
(* Instances of Analyzer: sets of instructions to make methods from.       *)
(***************************************************************************)
EXTENDS Analyzer

LOCAL I(o, k, t) == [op |-> o, n |-> k, type |-> t, name |-> "other"]

\* Two sources of a null and everything that moves a slot about.
ShuffleInsns ==
  {I(o, 0, "void") : o \in DUP..SWAP \cup {ACONST_NULL, CHECKCAST}}
    \cup {I(ALOAD, 0, "ref"), I(INVOKEVIRTUAL, 0, "void")}

\* A member of each way to make a value, to consume one and to meet a null.
SourceInsns ==
  { I(ALOAD, 0, "ref"), I(ILOAD, 0, "word"), I(9, 0, "wide"),
    I(GETFIELD, 0, "ref"), I(GETSTATIC, 0, "wide"),
    I(PUTFIELD, 0, "wide"), I(PUTFIELD, 0, "word"),
    I(AALOAD, 0, "ref"), I(LASTORE, 0, "void"),
    I(INVOKESTATIC, 1, "ref"), I(INVOKEVIRTUAL, 1, "ref"),
    I(INVOKEVIRTUAL, 0, "wide"),
    I(INVOKEDYNAMIC, 1, "ref"), I(MULTIANEWARRAY, 2, "ref"),
    I(ATHROW, 0, "void") }

\* a.foo(b).bar()
ChainInsns ==
  { I(ALOAD, 0, "ref"), I(GETSTATIC, 0, "ref"), I(INVOKEVIRTUAL, 1, "ref"),
    I(INVOKEVIRTUAL, 0, "void") }

\* A method reference or an inner class: aload, dup, requireNonNull, pop.
RequireInsns ==
  { I(ALOAD, 0, "ref"), I(GETFIELD, 0, "ref"), I(DUP, 0, "void"), I(87, 0, "void"),
    [I(INVOKESTATIC, 1, "ref") EXCEPT !.name = "requireNonNull"] }

\* try ... finally: the handler stores the exception, loads it, throws it.
FinallyInsns ==
  { I(ALOAD, 0, "ref"), I(58, 0, "void"), I(INVOKEVIRTUAL, 0, "void"),
    I(ATHROW, 0, "void") }
=============================================================================
