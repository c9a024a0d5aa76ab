---------------------------- MODULE MCMarkSweep ----------------------------
(***************************************************************************)
(* Small heaps for MarkSweep.  Classes are called by the size of their     *)
(* instances; the others are their instances, those of V and W weak.       *)
(***************************************************************************)
EXTENDS MarkSweep

MCBottom == [eden |-> 0, from |-> 20, old |-> 30]

Plain(size) == [size |-> size, weak |-> FALSE, refs |-> 1]
MCClasses == [C3 |-> Plain(3), C4 |-> Plain(4), C5 |-> Plain(5), C11 |-> Plain(11),
              V |-> [size |-> 5, weak |-> TRUE, refs |-> 1],
              W |-> [size |-> 5, weak |-> TRUE, refs |-> 2]]

MCClassOf == [C3 |-> "C3", C4 |-> "C3", C5 |-> "C3", C11 |-> "C3",
              V |-> "C3", W |-> "C3",
              a3 |-> "C3", b3 |-> "C3", a4 |-> "C4", a5 |-> "C5",
              a11 |-> "C11", w |-> "W", v |-> "V"]

\* Weak arrays in a new space before a large object, objects on both sides of
\* their classes, one that needs two bytes and more room in the old space,
\* and weak arrays that may hold each other.
MCLayouts ==
    {[old |-> <<"C3", "C5", "W">>, from |-> <<"w", "a3">>, eden |-> <<"a5">>],
     [old |-> <<"a3", "C3", "a5", "C5">>, from |-> <<>>, eden |-> <<"b3">>],
     [old |-> <<"C3", "C5", "C11", "a3">>, from |-> <<"a5">>, eden |-> <<"a11">>],
     [old |-> <<"C3", "V", "W">>, from |-> <<>>, eden |-> <<"v", "w", "a3">>]}

\* An object of exactly max_age words at the start of a card: the next one
\* starts on the same card.
MCLargestAge ==
    {[old |-> <<"C3", "C4", "C5">>, from |-> <<>>, eden |-> <<"a4", "a5">>]}

=============================================================================
