---------------------------- MODULE Annotations ----------------------------
(***************************************************************************)
(* What the agent promises of the exceptions of a program: each throw is   *)
(* held up while the agent looks at it, and then goes on to its handler;   *)
(* meanwhile, and at no other time, the exception may be given a message.  *)
(* It is given one only if it is a NullPointerException that has none, and *)
(* the message describes the throw that is held up.                        *)
(***************************************************************************)
EXTENDS Integers, Sequences

CONSTANTS Exceptions, Npe

VARIABLES
  message, \* of each exception: 0 for none, -1 for the constructor's, n for the
           \* description of the n-th throw
  thrown,  \* the exception of each throw
  open     \* the throws held up

vars == <<message, thrown, open>>

Init ==
  /\ message \in [Exceptions -> {0, -1}]
  /\ thrown = <<>>
  /\ open = {}

Throw(x) ==
  /\ thrown' = Append(thrown, x)
  /\ open' = open \cup {Len(thrown')}
  /\ UNCHANGED message

Annotate(n) ==
  /\ thrown[n] \in Npe
  /\ message[thrown[n]] = 0
  /\ message' = [message EXCEPT ![thrown[n]] = n]
  /\ UNCHANGED <<thrown, open>>

Deliver(n) ==
  /\ open' = open \ {n}
  /\ UNCHANGED <<message, thrown>>

Next == \/ \E x \in Exceptions : Throw(x)
        \/ \E n \in open : Annotate(n) \/ Deliver(n)

Spec == Init /\ [][Next]_vars
=============================================================================
