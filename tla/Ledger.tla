------------------------------- MODULE Ledger ------------------------------
(***************************************************************************)
(* What checkout promises, with no requests in flight: a sale is one step  *)
(* that takes the stock, closes the cart, spends the coupon and records    *)
(* the idempotency key together, and a receipt is only ever handed out for *)
(* a sale that has happened, to a client that named its cart and its key.  *)
(***************************************************************************)
EXTENDS Integers

CONSTANTS Products, Carts, Coupons, Keys, Requests, None

VARIABLES
    asked,      \* the cart, key and coupon each request named, or None
    stock,      \* units of each product left to sell
    baskets,    \* what each cart holds
    sales,      \* the sale each request made (its cart, lines, coupon and
                \* whatever else an order shows), or None
    spentOn,    \* the sale each coupon was spent on, or None
    receipts,   \* [cart, order] recorded under each idempotency key, or None
    told        \* the sale each request's client has a receipt for, or None

vars == <<asked, stock, baskets, sales, spentOn, receipts, told>>

Asks == [cart : Carts, key : Keys, coupon : Coupons \cup {None}]

Sold(c) == \E s \in Requests : sales[s] # None /\ sales[s].cart = c

Init ==
    /\ asked = [r \in Requests |-> None]
    /\ stock \in [Products -> Nat]
    /\ baskets \in [Carts -> [Products -> Nat]]
    /\ sales = [r \in Requests |-> None]
    /\ spentOn = [u \in Coupons |-> None]
    /\ receipts = [k \in Keys |-> None]
    /\ told = [r \in Requests |-> None]

Ask(r) ==
    /\ asked[r] = None
    /\ \E ask \in Asks : asked' = [asked EXCEPT ![r] = ask]
    /\ UNCHANGED <<stock, baskets, sales, spentOn, receipts, told>>

\* A cart changes only until it is sold.
Refill(c) ==
    /\ ~ Sold(c)
    /\ baskets' \in [Carts -> [Products -> Nat]]
    /\ \A d \in Carts \ {c} : baskets'[d] = baskets[d]
    /\ UNCHANGED <<asked, stock, sales, spentOn, receipts, told>>

\* Request r sells what its cart holds, all or nothing.
Sell(r) ==
    /\ asked[r] # None
    /\ sales[r] = None
    /\ LET ask == asked[r]  lines == baskets[ask.cart] IN
        /\ ~ Sold(ask.cart)
        /\ receipts[ask.key] = None
        /\ ask.coupon # None => spentOn[ask.coupon] = None
        /\ \A p \in Products : lines[p] <= stock[p]
        /\ \E p \in Products : lines[p] > 0
        /\ stock' = [p \in Products |-> stock[p] - lines[p]]
        /\ sales'[r] # None
        /\ sales'[r].cart = ask.cart
        /\ sales'[r].lines = lines
        /\ sales'[r].coupon = ask.coupon
        /\ \A s \in Requests \ {r} : sales'[s] = sales[s]
        /\ spentOn' = [u \in Coupons |-> IF u = ask.coupon THEN r
                                         ELSE spentOn[u]]
        /\ receipts' = [receipts EXCEPT
                           ![ask.key] = [cart |-> ask.cart, order |-> r]]
    /\ UNCHANGED <<asked, baskets, told>>

\* Request r's client gets the receipt recorded under its key for its cart.
Tell(r) ==
    /\ asked[r] # None
    /\ told[r] = None
    /\ receipts[asked[r].key] # None
    /\ receipts[asked[r].key].cart = asked[r].cart
    /\ told' = [told EXCEPT ![r] = receipts[asked[r].key].order]
    /\ UNCHANGED <<asked, stock, baskets, sales, spentOn, receipts>>

Next ==
    \/ \E r \in Requests : Ask(r) \/ Sell(r) \/ Tell(r)
    \/ \E c \in Carts : Refill(c)

Spec == Init /\ [][Next]_vars

============================================================================
