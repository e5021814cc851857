-------------------------- MODULE MCLocalVariables --------------------------
(***************************************************************************)
(* An instance of LocalVariables: parameters of one slot and of two, other *)
(* variables next to them, in one slot, and 256 slots on.                  *)
(***************************************************************************)
EXTENDS LocalVariables

SomeTypes == {[base |-> "I", dim |-> 0], [base |-> "J", dim |-> 0],
              [base |-> "J", dim |-> 1], [base |-> "L", dim |-> 0]}

SomeLocals == {<<>>, <<0, 0>>, <<0, 1>>, <<255>>, <<0, 256>>}

\* The table against the instruction set: xload_n and xstore_n of five types.
ASSUME SlotsAreJvm ==
  \A n \in 0..3, type \in 0..4 :
    /\ OpcodeSlot(26 + 4 * type + n) = n
    /\ OpcodeSlot(59 + 4 * type + n) = n
=============================================================================
