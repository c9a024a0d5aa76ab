----------------------------- MODULE MCDispatch -----------------------------
EXTENDS Dispatch

CONSTANTS a, b, c, n1, n2, m1, m2

MCKey == {a, b, c}
MCNative == {n1, n2}
MCMethod == {m1, m2}

(* Keys b and c share an element of the primary cache, all three share the *)
(* secondary one.                                                          *)
MCHash == (a :> 0) @@ (b :> 1) @@ (c :> 1)
MCKinds == {"compiled", "interpreted", "delta"}

(* The class of key a changes, b's selector may also be missing.           *)
MCDefinable == (a :> {m1, m2}) @@ (b :> {m1, None}) @@ (c :> {m1})
MCCompilable == {a, b, c}

Symmetry == Permutations(MCNative)
=============================================================================
