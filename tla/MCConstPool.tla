----------------------------- MODULE MCConstPool -----------------------------
(***************************************************************************)
(* Instances of ConstPool: a few pools, with their constants in any order. *)
(***************************************************************************)
EXTENDS ConstPool, FiniteSets

\* A constant of a template: refs are the places of others in the template,
\* pre and text what comes before and after them.
LOCAL C(tag, pre, refs, text) ==
  [tag |-> tag, pre |-> pre, refs |-> refs, text |-> text]

LOCAL Name(text) == C(Utf8, <<0, Len(text)>>, <<>>, text)
LOCAL LongName == C(Utf8, <<1, 2>>, <<>>, [i \in 1..258 |-> 7])

\* A call, with the texts of its own class, name and descriptor.
LOCAL Call == << Name(<<1>>), Name(<<>>), Name(<<40, 41>>),
                 C(Class, <<>>, <<1>>, <<>>), C(NameAndType, <<>>, <<2, 3>>, <<>>),
                 C(10, <<>>, <<4, 5>>, <<>>) >>

\* A field access among a long and a double.
LOCAL Access == << Name(<<5>>), C(Class, <<>>, <<1>>, <<>>),
                   C(NameAndType, <<>>, <<1, 1>>, <<>>), C(9, <<>>, <<2, 3>>, <<>>),
                   C(5, <<>>, <<>>, <<0, 0, 0, 0, 0, 0, 5, 6>>),
                   C(6, <<>>, <<>>, <<1, 0, 5, 0, 0, 0, 0, 0>>) >>

\* A method handle, a method type, and a text of more than 255 bytes.
LOCAL Handle == << LongName, C(Class, <<>>, <<1>>, <<>>),
                   C(NameAndType, <<>>, <<1, 1>>, <<>>), C(11, <<>>, <<2, 3>>, <<>>),
                   C(MethodHandle, <<9>>, <<4>>, <<>>),
                   C(MethodType, <<>>, <<1>>, <<>>) >>

\* The rest of the kinds ...
LOCAL Indy == << Name(<<18>>), C(NameAndType, <<>>, <<1, 1>>, <<>>),
                 C(InvokeDynamic, <<0, 1>>, <<2>>, <<>>), C(8, <<>>, <<1>>, <<>>),
                 C(3, <<>>, <<>>, <<0, 0, 0, 17>>), C(4, <<>>, <<>>, <<63, 0, 0, 0>>) >>

\* ... and those of Java 9 and 11.
LOCAL Condy == << Name(<<17>>), C(NameAndType, <<>>, <<1, 1>>, <<>>),
                  C(17, <<0, 0>>, <<2>>, <<>>), C(5, <<>>, <<>>, <<0, 0, 0, 0, 0, 0, 0, 1>>),
                  C(Class, <<>>, <<1>>, <<>>) >>
LOCAL Modular == << Name(<<19>>), C(19, <<>>, <<1>>, <<>>), C(20, <<>>, <<1>>, <<>>) >>

\* The template's constants in the order of the permutation p.
LOCAL LaidOut(template, p) ==
  LET n == Len(template)
      at(t) == CHOOSE k \in 1..n : p[k] = t
      place(t) == at(t) + Cardinality({k \in 1..(at(t) - 1) : template[p[k]].tag \in Wide})
      args(c) == c.pre \o [b \in 1..(2 * Len(c.refs)) |->
                             IF b % 2 = 1 THEN 0 ELSE place(c.refs[b \div 2])] \o c.text
  IN  [k \in 1..n |-> [tag |-> template[p[k]].tag, args |-> args(template[p[k]])]]

\* Every order that keeps neighbours together, forwards and backwards.
LOCAL Orders(n) ==
  {[k \in 1..n |-> IF back THEN n - ((k + shift) % n) ELSE 1 + ((k + shift) % n)] :
     shift \in 0..(n - 1), back \in BOOLEAN}

SomePools ==
  UNION {{LaidOut(template, p) : p \in Orders(Len(template))} :
           template \in {Call, Access, Handle, Indy, Condy, Modular}}
=============================================================================
