----------------------------- MODULE MCCartPage ----------------------------
(* Small instances of CartPage for TLC. *)
EXTENDS CartPage, TLC

CONSTANTS x1, x2, x3, x4, x5, c1, c2, k1, k2, k3, p1

PageSymmetry ==
    Permutations(Calls) \cup Permutations(Carts) \cup Permutations(Keys)
============================================================================
