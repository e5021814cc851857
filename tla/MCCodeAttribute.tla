--------------------------- MODULE MCCodeAttribute ---------------------------
(***************************************************************************)
(* Instances of CodeAttribute: sets of instructions to make methods from.  *)
(***************************************************************************)
EXTENDS CodeAttribute

LOCAL I(o, a) == [op |-> o, args |-> a]

\* default, low and high, and high - low + 1 targets
LOCAL Table(low, high) ==
  I(TABLESWITCH, <<0, 0, 0, 0>> \o <<0, 0, 0, low>> \o <<0, 0, 0, high>>
                   \o Zeros(4 * (high - low + 1)))

\* default, the number of pairs, and the pairs, which match 9
LOCAL Lookup(npairs) ==
  I(LOOKUPSWITCH, <<0, 0, 0, 0>> \o <<0, 0, 0, npairs>>
                    \o [i \in 1..(8 * npairs) |-> IF i % 8 = 4 THEN 9 ELSE 0])

\* One of each length, the two forms of wide, switches of several sizes; the
\* last tableswitch is too long for a uint8_t at any position, the one before
\* it at some.
ScanInsns ==
  { I(ALOAD_3, <<>>), I(ALOAD, <<7>>), I(GETFIELD, <<0, 170>>),
    I(MULTIANEWARRAY, <<0, 5, 2>>), I(INVOKEDYNAMIC, <<0, 171, 0, 0>>),
    I(WIDE, <<ALOAD, 1, 0>>), I(WIDE, <<IINC, 1, 0, 0, 196>>),
    Table(0, 0), Table(5, 6), Lookup(0), Lookup(1), Table(0, 59), Table(0, 60) }

\* A length of 0 and others; iinc, and other opcodes after a wide.
StrayBytes == {0, 1, IINC}
=============================================================================
