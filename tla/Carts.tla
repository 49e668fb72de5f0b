-------------------------------- MODULE Carts ------------------------------
(***************************************************************************)
(* POST /carts, and POST, PATCH and DELETE of a cart's items: each request *)
(* one transaction that locks the cart, checks, writes one line, commits,  *)
(* and then reads the cart back without the lock to show it.               *)
(*                                                                         *)
(* An item's id is drawn when its line is inserted and gone when the line  *)
(* is removed: it is named here by the request that inserted the line, or  *)
(* by its cart and product for a line that was there to begin with.        *)
(***************************************************************************)
EXTENDS Store

CONSTANTS
    Editors,    \* the requests that create or edit carts
    Quantities  \* the quantities clients send

ASSUME EditorsAreRequests == Editors \subseteq Requests
ASSUME QuantityTypes == Quantities \subseteq Nat

VARIABLES
    itemId,     \* cart_items.id of the line of each product, or None
    edit,       \* what each request asks for, or None
    at,         \* how far it is in the code
    write,      \* the line it has written and not committed, or None
    result      \* what it answers

editVars == <<itemId, edit, at, write, result>>
vars == <<store, editVars>>

ItemIds == Editors \cup (Carts \X Products)

\* The requests, a PATCH to quantity 0 being a removal.  A product id that no
\* product has is None.
Edits ==
         [op : {"create"}, cart : Carts]
    \cup [op : {"add"}, cart : Carts, product : Products \cup {None},
          quantity : Quantities \ {0}]
    \cup [op : {"update"}, cart : Carts, item : ItemIds,
          quantity : Quantities \ {0}]
    \cup [op : {"remove"}, cart : Carts, item : ItemIds]

ASSUME NoneIsNoEdit ==
    /\ None \notin Edits \cup ItemIds
    /\ Editors \cap (Carts \X Products) = {}

Results ==
    {"NONE", "OK", "NO_ANSWER", "NOT_FOUND", "CART_ALREADY_CHECKED_OUT",
     "INSUFFICIENT_INVENTORY"}

Writes == [product : Products, quantity : Nat]

CartsTypeOK ==
    /\ itemId \in [Carts -> [Products -> ItemIds \cup {None}]]
    /\ edit \in [Editors -> Edits \cup {None}]
    /\ at \in [Editors -> {"idle", "create", "lock", "check", "commit",
                           "readback", "unwind", "done"}]
    /\ write \in [Editors -> Writes \cup {None}]
    /\ result \in [Editors -> Results]

TypeOK == StoreTypeOK /\ CartsTypeOK

CartsInit ==
    /\ itemId = [c \in Carts |-> [p \in Products |->
           IF cartItems[c][p] > 0 THEN <<c, p>> ELSE None]]
    /\ edit = [e \in Editors |-> None]
    /\ at = [e \in Editors |-> "idle"]
    /\ write = [e \in Editors |-> None]
    /\ result = [e \in Editors |-> "NONE"]

Init == StoreInit /\ CartsInit

\* The product on whose line of cart c the id is.
LineOf(c, id) == {p \in Products : itemId[c][p] = id}

Continue(e, to) == at' = [at EXCEPT ![e] = to]

Decline(e, code) ==
    /\ result' = [result EXCEPT ![e] = code]
    /\ Continue(e, "unwind")

----------------------------------------------------------------------------
(* The statements of a request, in the order it runs them. *)

CreatesCart(e, c) == edit[e] # None /\ edit[e].op = "create" /\ edit[e].cart = c

\* A new cart's id is drawn by its request: nothing has it yet.
FreshCart(c) ==
    cartStatus[c] = "absent" /\ \A e \in Editors : ~ CreatesCart(e, c)

ArriveEdit(e) ==
    /\ at[e] = "idle"
    /\ \E ask \in Edits :
        /\ ask.op = "create" => FreshCart(ask.cart)
        /\ edit' = [edit EXCEPT ![e] = ask]
        /\ Continue(e, IF ask.op = "create" THEN "create" ELSE "lock")
    /\ UNCHANGED <<store, itemId, write, result>>

\* INSERT of an empty open cart under an id nobody knows yet, and its commit.
CreateCart(e) ==
    /\ at[e] = "create"
    /\ cartStatus' = [cartStatus EXCEPT ![edit[e].cart] = "open"]
    /\ result' = [result EXCEPT ![e] = "OK"]
    /\ Continue(e, "readback")
    /\ UNCHANGED <<inventory, cartItems, orders, couponStatus, redeemedBy,
                   keyRecords, holder, itemId, edit, write>>

\* Faulty form: the cart is read without FOR UPDATE.
ReadOpenCart(e) ==
    /\ at[e] = "lock"
    /\ cartStatus[edit[e].cart] = "open"
    /\ Continue(e, "check")
    /\ UNCHANGED <<store, itemId, edit, write, result>>

\* Faulty form: the status of the locked cart is not looked at.
LockCartOfAnyStatus(e) ==
    /\ at[e] = "lock"
    /\ cartStatus[edit[e].cart] # "absent"
    /\ Free(e, edit[e].cart)
    /\ Take(e, edit[e].cart)
    /\ Continue(e, "check")
    /\ UNCHANGED <<tables, itemId, edit, write, result>>

\* SELECT ... FOR UPDATE on the cart, which must be open.
LockOpenCart(e) ==
    /\ at[e] = "lock"
    /\ LET c == edit[e].cart IN
        /\ Free(e, c)
        /\ \/ /\ cartStatus[c] = "absent"
              /\ Decline(e, "NOT_FOUND")
              /\ UNCHANGED holder
           \/ /\ cartStatus[c] = "checked_out"
              /\ Take(e, c)
              /\ Decline(e, "CART_ALREADY_CHECKED_OUT")
           \/ /\ cartStatus[c] = "open"
              /\ Take(e, c)
              /\ Continue(e, "check")
              /\ UNCHANGED result
    /\ UNCHANGED <<tables, itemId, edit, write>>

\* Line p is to hold n units: the soft check against the stock there is now,
\* of which it reserves nothing, and the write.
WriteLine(e, p, n) ==
    \/ /\ n <= inventory[p]
       /\ write' = [write EXCEPT ![e] = [product |-> p, quantity |-> n]]
       /\ Continue(e, "commit")
       /\ UNCHANGED result
    \/ /\ n > inventory[p]
       /\ Decline(e, "INSUFFICIENT_INVENTORY")
       /\ UNCHANGED write

\* Faulty form: the check is on what is added, not on what results.
AddItemCheckingAdded(e) ==
    /\ at[e] = "check" /\ edit[e].op = "add"
    /\ LET p == edit[e].product  n == edit[e].quantity IN
        /\ p # None /\ n <= inventory[p]
        /\ write' = [write EXCEPT ![e] =
               [product |-> p, quantity |-> n + cartItems[edit[e].cart][p]]]
    /\ Continue(e, "commit")
    /\ UNCHANGED <<store, itemId, edit, result>>

\* Faulty form: the product is not looked up.
AddItemOfAnyProduct(e) ==
    /\ at[e] = "check" /\ edit[e].op = "add"
    /\ write' = [write EXCEPT ![e] = [product |-> edit[e].product,
                                     quantity |-> edit[e].quantity]]
    /\ Continue(e, "commit")
    /\ UNCHANGED <<store, itemId, edit, result>>

\* add_item: on the line there is, or on a new one.
AddItem(e) ==
    /\ at[e] = "check" /\ edit[e].op = "add"
    /\ LET c == edit[e].cart  p == edit[e].product IN
        \/ p = None /\ Decline(e, "NOT_FOUND") /\ UNCHANGED write
        \/ p # None /\ WriteLine(e, p, edit[e].quantity + cartItems[c][p])
    /\ UNCHANGED <<store, itemId, edit>>

\* update_item_quantity and remove_item: the line must be one of this cart.
ChangeItem(e) ==
    /\ at[e] = "check" /\ edit[e].op \in {"update", "remove"}
    /\ LET found == LineOf(edit[e].cart, edit[e].item) IN
        \/ found = {} /\ Decline(e, "NOT_FOUND") /\ UNCHANGED write
        \/ /\ edit[e].op = "update"
           /\ \E p \in found : WriteLine(e, p, edit[e].quantity)
        \/ /\ edit[e].op = "remove"
           /\ \E p \in found :
                 write' = [write EXCEPT ![e] = [product |-> p, quantity |-> 0]]
           /\ Continue(e, "commit")
           /\ UNCHANGED result
    /\ UNCHANGED <<store, itemId, edit>>

\* Faulty form: a removed line is kept as a line of none, with its id.
NextIdKept(e, c, p, n) == IF itemId[c][p] = None THEN e ELSE itemId[c][p]

\* The id of line p of cart c once it holds n units by request e.
NextId(e, c, p, n) ==
    CASE n = 0 -> None
      [] n > 0 /\ itemId[c][p] = None -> e
      [] OTHER -> itemId[c][p]

\* COMMIT.
CommitEdit(e) ==
    /\ at[e] = "commit"
    /\ LET c == edit[e].cart  p == write[e].product  n == write[e].quantity IN
        /\ cartItems' = [cartItems EXCEPT ![c][p] = n]
        /\ itemId' = [itemId EXCEPT ![c][p] = NextId(e, c, p, n)]
    /\ ReleaseAll(e)
    /\ result' = [result EXCEPT ![e] = "OK"]
    /\ Continue(e, "readback")
    /\ UNCHANGED <<inventory, cartStatus, orders, couponStatus, redeemedBy,
                   keyRecords, edit, write>>

\* _cart_read, in a transaction of its own that locks nothing: the answer shows
\* the lines as they are by now.
ReadBack(e) ==
    /\ at[e] = "readback"
    /\ Continue(e, "done")
    /\ UNCHANGED <<store, itemId, edit, write, result>>

\* Faulty form: the session of a refused request is not closed.
EndEditWithoutRollback(e) ==
    /\ at[e] = "unwind"
    /\ Continue(e, "done")
    /\ UNCHANGED <<store, itemId, edit, write, result>>

\* A refused request's session closes, which rolls its transaction back.
EndEdit(e) ==
    /\ at[e] = "unwind"
    /\ ReleaseAll(e)
    /\ Continue(e, "done")
    /\ UNCHANGED <<tables, itemId, edit, write, result>>

\* The worker or a connection, to the client or to the database, is lost,
\* before or after the commit.
AbortEdit(e) ==
    /\ at[e] \notin {"idle", "done"}
    /\ ReleaseAll(e)
    /\ result' = [result EXCEPT ![e] = "NO_ANSWER"]
    /\ Continue(e, "done")
    /\ UNCHANGED <<tables, itemId, edit, write>>

EditStep(e) ==
    \/ CreateCart(e) \/ LockOpenCart(e) \/ AddItem(e) \/ ChangeItem(e)
    \/ CommitEdit(e) \/ ReadBack(e) \/ EndEdit(e)

Next == \E e \in Editors : ArriveEdit(e) \/ EditStep(e) \/ AbortEdit(e)

Spec == Init /\ [][Next]_vars

----------------------------------------------------------------------------
(* Correctness. *)

\* What a checkout relies on: a line that is on a cart had the stock for it,
\* however many adds it grew by.
LinesWithinStock ==
    \A c \in Carts : \A p \in Products : cartItems[c][p] <= Stock[p]

\* What line p of cart c is to hold after an edit, given what it holds now.
Edited(ask, c, p) ==
    CASE ask.op = "add" /\ ask.cart = c /\ ask.product = p ->
             cartItems[c][p] + ask.quantity
      [] ask.op = "update" /\ ask.cart = c /\ ask.item = itemId[c][p] ->
             ask.quantity
      [] ask.op = "remove" /\ ask.cart = c /\ ask.item = itemId[c][p] -> 0
      [] OTHER -> cartItems[c][p]

\* What an edit that runs has found, and relies on until it commits: its cart is
\* still open and unchanged since it looked, so that what it is about to write is
\* what its client asked for; and no line has an id it may draw.
EditReservedBy(e) ==
    LET c == edit[e].cart IN
    /\ at[e] = "idle" <=> edit[e] = None
    /\ at[e] = "create" => edit[e].op = "create" /\ cartStatus[c] = "absent"
    /\ at[e] \in {"check", "commit"} => holder[c] = e /\ cartStatus[c] = "open"
    /\ at[e] = "commit" =>
          /\ write[e] \in Writes
          /\ write[e].quantity <= Stock[write[e].product]
          /\ \A p \in Products : Edited(edit[e], c, p) =
                IF p = write[e].product THEN write[e].quantity
                                        ELSE cartItems[c][p]
    /\ at[e] \in {"idle", "create", "lock", "check", "commit"} =>
          /\ result[e] = "NONE"
          /\ \A d \in Carts : \A p \in Products : itemId[d][p] # e

EditsReserved ==
    /\ \A e \in Editors : EditReservedBy(e)
    /\ \A e, f \in Editors : \A c \in Carts :
          CreatesCart(e, c) /\ CreatesCart(f, c) => e = f

\* "The lock is held for the rest of the request's transaction"
\* (carts/service.py), no longer, and no other is held: an edit that waits for
\* its cart, that shows it, or that is over, however it ended, holds no row.
LocksReleased ==
    \A e \in Editors : \A row \in Rows :
        holder[row] = e =>
            row = edit[e].cart /\ at[e] \in {"check", "commit", "unwind"}

\* An id names one line, of one cart, for as long as the line is there.
IdsNameLines ==
    \A c \in Carts : \A p \in Products :
        /\ itemId[c][p] # None <=> cartItems[c][p] > 0
        /\ itemId[c][p] # None =>
              \A d \in Carts : \A q \in Products :
                  itemId[d][q] = itemId[c][p] => c = d /\ p = q

\* No update is lost and none lands on another line: the step in which a cart
\* changes does to its lines, as they are at that moment, what one request
\* asked for, and that request succeeds; and it does it while the cart is open.
EditsApplied ==
    [][\A c \in Carts : cartItems'[c] # cartItems[c] =>
          /\ cartStatus[c] = "open" /\ cartStatus'[c] = "open"
          /\ \E e \in Editors :
                /\ result[e] = "NONE" /\ result'[e] = "OK"
                /\ \A p \in Products : cartItems'[c][p] = Edited(edit[e], c, p)
      ]_vars

============================================================================
