------------------------------- MODULE MCShop ------------------------------
(* Small instances of Shop for TLC. *)
EXTENDS Shop, TLC

CONSTANTS c1, c2, k1, p1, r1, r2, e1

\* One product, two units of it; the total of a cart of two is over an Int4Max
\* of 10.
MCStock == p1 :> 2
MCPrice == p1 :> 7
MCName == p1 :> 1
MCBaskets == {p1 :> 1}
============================================================================
