------------------------- MODULE MCExceptionCallback -------------------------
(***************************************************************************)
(* Instances of ExceptionCallback: exceptions that stay in one thread, and *)
(* an exception that two threads throw.                                    *)
(***************************************************************************)
EXTENDS ExceptionCallback

CONSTANTS t1, t2,     \* threads
          npe1, npe2, npe3, \* exception objects
          other

TwoThreads == {t1, t2}
FourExceptions == {npe1, npe2, npe3, other}
Npes == {npe1, npe2, npe3}

\* One thread has two NPEs, the other an NPE and another exception.
InOneThread == [x \in FourExceptions |-> IF x \in {npe1, npe2} THEN {t1} ELSE {t2}]

\* One NPE that both throw.
OneNpe == {npe1}
Shared == [x \in OneNpe |-> TwoThreads]
=============================================================================
