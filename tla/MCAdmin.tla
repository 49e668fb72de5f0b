------------------------------ MODULE MCAdmin ------------------------------
(* Small instances of Admin for TLC. *)
EXTENDS Admin, TLC

CONSTANTS c1, c2, c3, c4, k1, k2, k3, k4, p1, u1, u2, u3,
          s1, s2, s3, s4, g1, g2, g3, q1

\* One product, one unit in each cart, and enough for all of them.
MCStock == p1 :> 4
MCPrice == p1 :> 7
MCName == p1 :> 1
MCBaskets == {p1 :> 1}

\* Each sale has a cart and a key of its own.
MCCartOf == s1 :> c1 @@ s2 :> c2 @@ s3 :> c3 @@ s4 :> c4
MCKeyOf == s1 :> k1 @@ s2 :> k2 @@ s3 :> k3 @@ s4 :> k4
============================================================================
