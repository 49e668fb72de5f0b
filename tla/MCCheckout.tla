----------------------------- MODULE MCCheckout ----------------------------
(* Small instances of Checkout for TLC. *)
EXTENDS Checkout, TLC

CONSTANTS c1, c2, k1, k2, p1, p2, u1, r1, r2, r3

\* One product.  Two carts of one unit each can both be sold, and race for the
\* coupon and the key; the total of a cart of two is over an Int4Max of 10.
OneStock == p1 :> 2
OnePrice == p1 :> 7
OneName == p1 :> 1
OneBaskets == {p1 :> 1, p1 :> 2}

\* Two products whose names differ (TwoNames) or do not (SameName).
TwoStock == p1 :> 2 @@ p2 :> 1
TwoPrice == p1 :> 4 @@ p2 :> 3
TwoNames == p1 :> 1 @@ p2 :> 2
SameName == p1 :> 1 @@ p2 :> 1
TwoBaskets == {p1 :> 1 @@ p2 :> 1, p1 :> 2 @@ p2 :> 0}

\* Carts of one product each, the same or another (sales that share a coupon
\* need not wait for each other's stock), or of both.
EachStock == p1 :> 1 @@ p2 :> 2
EachBaskets ==
    {p1 :> 1 @@ p2 :> 0, p1 :> 0 @@ p2 :> 1, p1 :> 1 @@ p2 :> 1}

BuyerSymmetry == Permutations(Buyers)
KeySymmetry == Permutations(Keys)
BuyerKeyCartSymmetry == BuyerSymmetry \cup KeySymmetry \cup Permutations(Carts)
============================================================================
