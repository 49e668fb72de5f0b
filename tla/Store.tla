------------------------------- MODULE Store -------------------------------
(***************************************************************************)
(* The PostgreSQL rows that back-cart's requests share, and the row locks  *)
(* under which they change them.                                           *)
(*                                                                         *)
(* Every HTTP request runs one transaction at READ COMMITTED, so the       *)
(* variables below hold the COMMITTED value of each row: what a statement  *)
(* of any request reads.  A transaction's own uncommitted writes stay in   *)
(* the module of that transaction until its commit publishes them; until   *)
(* then `holder' keeps every other writer of the row waiting, as a row     *)
(* lock (or the index entry of an uncommitted insert) does.                *)
(*                                                                         *)
(* A request stands for its transaction, and for the order or coupon row   *)
(* that transaction inserts: identifiers are uuid4, drawn afresh by every  *)
(* attempt, so two requests never produce the same one.                    *)
(***************************************************************************)
EXTENDS Integers, FiniteSets, Functions

CONSTANTS
    Products,   \* rows of products
    Carts,      \* cart ids a client may name, whether or not the row exists
    Coupons,    \* coupon codes a client may name, whether or not issued
    Keys,       \* Idempotency-Key header values
    Requests,   \* HTTP requests: a retry is a request of its own
    None,       \* SQL NULL, and "no such row"
    Stock,      \* the inventory each product is seeded with
    Price,      \* unit_price_cents of each product
    Name,       \* the place of each product's name in ORDER BY Product.name
    Baskets,    \* what carts may hold to begin with
    Percent,    \* COUPON_DISCOUNT_PERCENT, copied into each coupon
    Int4Max     \* largest value of an Integer column (2147483647)

Rows == Products \cup Carts \cup Coupons \cup Keys

ASSUME RowsDistinct ==
    /\ Products \cap Carts = {}
    /\ (Products \cup Carts) \cap Coupons = {}
    /\ (Products \cup Carts \cup Coupons) \cap Keys = {}
    /\ None \notin Rows \cup Requests

ASSUME CatalogueTypes ==
    /\ Stock \in [Products -> Nat]
    /\ Price \in [Products -> Nat]
    /\ Name \in [Products -> Nat]

ASSUME LimitTypes == Int4Max \in Nat /\ Percent \in 1..100

\* cart_items and order_items as one function: the quantity on each
\* product's line, 0 where there is no line (a stored quantity is > 0).
Lines == [Products -> Nat]

EmptyLines == [p \in Products |-> 0]

\* The soft check of carts/service.py keeps every line within the stock.
ASSUME BasketTypes ==
    /\ Baskets \subseteq Lines
    /\ \A b \in Baskets : \A p \in Products : b[p] <= Stock[p]

OnLines(lines) == {p \in Products : lines[p] > 0}

\* An orders row with its order_items.  `coupon' is the coupon the order
\* redeemed (coupons.redeemed_by_order_id seen from the order), or None.
Orders ==
    [cart : Carts, lines : Lines, coupon : Coupons \cup {None},
     gross : 0..Int4Max, discount : 0..Int4Max, net : 0..Int4Max]

\* The columns' types and the CHECK constraints of orders (models.py): a row
\* that fails one is refused by the database.
RowAccepted(o) ==
    /\ o \in Orders
    /\ o.discount <= o.gross
    /\ o.net = o.gross - o.discount

\* An idempotency_keys row.  response_body renders the order's row and items,
\* which nothing updates after their insert: the order stands for it.
KeyRecords == [cart : Carts, order : Requests]

\* Tables tell a missing row from a stored one.
ASSUME NoneIsNoRow == None \notin Orders \cup KeyRecords

CartStatus == {"absent", "open", "checked_out"}
CouponStatus == {"absent", "available", "redeemed"}

VARIABLES
    inventory,      \* products.inventory
    cartStatus,     \* carts.status, "absent" where there is no row
    cartItems,      \* the lines of each cart
    orders,         \* the order each request committed, or None
    couponStatus,   \* coupons.status, "absent" where there is no row
    redeemedBy,     \* coupons.redeemed_by_order_id
    keyRecords,     \* the idempotency_keys row of each key, or None
    holder          \* the request whose transaction holds each row, or None

tables == <<inventory, cartStatus, cartItems, orders, couponStatus,
            redeemedBy, keyRecords>>
store == <<tables, holder>>

StoreTypeOK ==
    /\ inventory \in [Products -> Nat]
    /\ cartStatus \in [Carts -> CartStatus]
    /\ cartItems \in [Carts -> Lines]
    /\ orders \in [Requests -> Orders \cup {None}]
    /\ couponStatus \in [Coupons -> CouponStatus]
    /\ redeemedBy \in [Coupons -> Requests \cup {None}]
    /\ keyRecords \in [Keys -> KeyRecords \cup {None}]
    /\ holder \in [Rows -> Requests \cup {None}]

\* Carts exist and are filled, coupons have been issued, and no checkout has
\* begun: orders counts those of the run, Stock what is left as it starts.
StoreInit ==
    /\ inventory = Stock
    /\ cartStatus \in [Carts -> {"absent", "open"}]
    /\ cartItems \in [Carts -> Baskets \cup {EmptyLines}]
    /\ \A c \in Carts : cartStatus[c] = "absent" => cartItems[c] = EmptyLines
    /\ orders = [r \in Requests |-> None]
    /\ couponStatus \in [Coupons -> {"absent", "available"}]
    /\ redeemedBy = [u \in Coupons |-> None]
    /\ keyRecords = [k \in Keys |-> None]
    /\ holder = [row \in Rows |-> None]

----------------------------------------------------------------------------
(* Row locks.  A lock is held to the end of the transaction. *)

Free(r, row) == holder[row] \in {None, r}

Take(r, row) == holder' = [holder EXCEPT ![row] = r]

ReleaseAll(r) ==
    holder' = [row \in Rows |-> IF holder[row] = r THEN None ELSE holder[row]]

----------------------------------------------------------------------------
(* Money.  Integer minor units throughout. *)

Gross(lines) == SumFunction([p \in Products |-> Price[p] * lines[p]])

Least(a, b) == IF a <= b THEN a ELSE b

\* quote_discount: a coupon takes Percent of the gross, rounded down and
\* clamped to the gross.
Discount(gross, coupon) ==
    IF coupon = None THEN 0 ELSE Least((gross * Percent) \div 100, gross)

Net(gross, discount) == IF discount <= gross THEN gross - discount ELSE 0

\* The order of a request that asked for a cart and a coupon.
OrderFor(ask, basket) ==
    LET gross == Gross(basket)
        discount == Discount(gross, ask.coupon)
    IN  [cart |-> ask.cart, lines |-> basket, coupon |-> ask.coupon,
         gross |-> gross, discount |-> discount, net |-> Net(gross, discount)]

\* Everything a checkout writes, as its COMMIT makes it visible.
PublishSale(r, ask, basket, order) ==
    /\ inventory' = [p \in Products |-> inventory[p] - basket[p]]
    /\ cartStatus' = [cartStatus EXCEPT ![ask.cart] = "checked_out"]
    /\ orders' = [orders EXCEPT ![r] = order]
    /\ couponStatus' = [u \in Coupons |->
           IF u = ask.coupon THEN "redeemed" ELSE couponStatus[u]]
    /\ redeemedBy' = [u \in Coupons |->
           IF u = ask.coupon THEN r ELSE redeemedBy[u]]
    /\ keyRecords' = [keyRecords EXCEPT
           ![ask.key] = [cart |-> ask.cart, order |-> r]]
    /\ UNCHANGED cartItems

Made(s) == orders[s] # None

============================================================================
