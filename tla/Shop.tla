-------------------------------- MODULE Shop -------------------------------
(***************************************************************************)
(* Checkouts and cart edits together: the requests of Checkout and those   *)
(* of Carts, over the same rows and under the same locks.                  *)
(***************************************************************************)
EXTENDS Checkout

CONSTANTS Editors, Quantities

VARIABLES itemId, edit, at, write, result

E == INSTANCE Carts

\* The assumptions of Carts, and that no request is of both kinds.
ASSUME EditorTypes ==
    /\ Editors \subseteq Requests
    /\ Editors \cap Buyers = {}
    /\ Editors \cap (Carts \X Products) = {}
    /\ Quantities \subseteq Nat
    /\ None \notin E!Edits \cup E!ItemIds

editing == <<itemId, edit, at, write, result>>
shopVars == <<vars, editing>>

ShopInit == Init /\ E!CartsInit

Buy(r) == (Arrive(r) \/ Step(r) \/ Abort(r)) /\ UNCHANGED editing

Edit(e) ==
    /\ E!ArriveEdit(e) \/ E!EditStep(e) \/ E!AbortEdit(e)
    /\ UNCHANGED checkoutVars

ShopNext == (\E r \in Buyers : Buy(r)) \/ (\E e \in Editors : Edit(e))

ShopSpec == ShopInit /\ [][ShopNext]_shopVars

\* As for checkouts: a request that has arrived keeps running.
FairShop ==
    /\ ShopSpec
    /\ \A r \in Buyers : WF_shopVars(Step(r) /\ UNCHANGED editing)
    /\ \A e \in Editors : WF_shopVars(E!EditStep(e) /\ UNCHANGED checkoutVars)

----------------------------------------------------------------------------
(* Correctness. *)

\* "items cannot be modified after checkout" (DECISIONS.md), also by an edit
\* that was under way when the checkout began: the lines of an order are those
\* its cart holds ever after.
OrdersMatchCarts ==
    \A s \in Requests : Made(s) => orders[s].lines = cartItems[orders[s].cart]

\* No edit is lost or misplaced, though checkouts lock and close carts between
\* its check and its commit; and a checkout edits no cart.
EditsApplied == E!EditsApplied

\* Every line is within the stock the product started with, and has an id of its
\* own.
LinesWithinStock == E!LinesWithinStock
IdsNameLines == E!IdsNameLines

\* What an edit has checked still holds when it commits, though checkouts close
\* carts meanwhile.
EditsReserved == E!EditsReserved

\* The inductive invariant of the composition.
ShopInv ==
    /\ IInv
    /\ E!CartsTypeOK
    /\ EditsReserved
    /\ IdsNameLines
    /\ LinesWithinStock
    /\ \A p \in Products : inventory[p] <= Stock[p]
    /\ OrdersMatchCarts

\* Checkouts and edits are all answered, or seen to fail, though they wait for
\* each other's carts.
AllAnswered ==
    /\ Answered
    /\ \A e \in Editors : at[e] # "idle" ~> at[e] = "done"

============================================================================
