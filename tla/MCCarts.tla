------------------------------ MODULE MCCarts ------------------------------
(* Small instances of Carts for TLC. *)
EXTENDS Carts, TLC

CONSTANTS c1, c2, p1, p2, e1, e2, e3

\* Two products: a line of p1 may grow once, one of p2 not at all.
MCStock == p1 :> 2 @@ p2 :> 1
MCPrice == p1 :> 3 @@ p2 :> 4
MCName == p1 :> 1 @@ p2 :> 2
MCBaskets == {p1 :> 1 @@ p2 :> 0}

EditorSymmetry == Permutations(Editors)
============================================================================
