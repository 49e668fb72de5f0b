------------------------------ MODULE Checkout -----------------------------
(***************************************************************************)
(* POST /carts/{cart_id}/checkout: the requests of many clients, each one  *)
(* transaction that runs the statements of orders/service.py one by one    *)
(* against the shared rows of Store, interleaved with the others.          *)
(*                                                                         *)
(* An action is one statement (a round trip to the database) with the      *)
(* Python that handles its result.  A statement that needs a locked row    *)
(* waits: its action is not enabled until the holder's transaction ends.   *)
(***************************************************************************)
EXTENDS Store

CONSTANTS
    Buyers,     \* the requests that are checkouts
    LongKeys    \* the keys that are longer than their column

ASSUME BuyersAreRequests == Buyers \subseteq Requests
ASSUME LongKeysAreKeys == LongKeys \subseteq Keys

VARIABLES
    pc,         \* how far each request is in the code
    request,    \* the cart, key and coupon code it came with, or None
    lines,      \* the cart lines its transaction loaded
    scan,       \* the order in which the query returned the products
    pending,    \* the products it has still to decrement
    draft,      \* the order it inserted and has not committed, or None
    answer      \* what it answers, or NoAnswer

steps == <<request, lines, scan, pending, draft>>
checkoutVars == <<pc, steps, answer>>
vars == <<store, checkoutVars>>

Asks == [cart : Carts, key : Keys, coupon : Coupons \cup {None}]

ASSUME NoneIsNoAsk == None \notin Asks

\* "OK" is 201 with the order's body; the others are error codes of
\* core/errors.py.  "INTERNAL_ERROR" is a statement the database refused.
\* "NO_ANSWER" is all a client learns of a dead worker or a lost connection,
\* and of a lost connection to the database: the 500 it is then sent says no
\* more of what was committed.
Codes ==
    {"NONE", "OK", "NO_ANSWER", "NOT_FOUND", "EMPTY_CART",
     "INSUFFICIENT_INVENTORY", "INVALID_COUPON", "COUPON_ALREADY_REDEEMED",
     "CART_ALREADY_CHECKED_OUT", "IDEMPOTENCY_KEY_REUSED", "INTERNAL_ERROR"}
Answers == [code : Codes, order : Requests \cup {None}]

Receipt(s) == [code |-> "OK", order |-> s]
Refusal(code) == [code |-> code, order |-> None]
NoAnswer == Refusal("NONE")

Places ==
    {"idle", "lock", "recheck", "load", "decrement", "order", "redeem", "key",
     "commit", "reply", "unwind", "done"}

\* ORDER BY Product.name: names are not unique, and products of equal name
\* come in whichever order the query happened to produce.
ScanOrders ==
    {f \in [Products -> 1..Cardinality(Products)] :
        \A p, q \in Products :
            /\ f[p] = f[q] => p = q
            /\ Name[p] < Name[q] => f[p] < f[q]}

TypeOK ==
    /\ StoreTypeOK
    /\ pc \in [Buyers -> Places]
    /\ request \in [Buyers -> Asks \cup {None}]
    /\ lines \in [Buyers -> Lines]
    /\ scan \in [Buyers -> [Products -> Nat]]
    /\ pending \in [Buyers -> SUBSET Products]
    /\ draft \in [Buyers -> Orders \cup {None}]
    /\ answer \in [Buyers -> Answers]

CheckoutInit ==
    /\ pc = [r \in Buyers |-> "idle"]
    /\ request = [r \in Buyers |-> None]
    /\ lines = [r \in Buyers |-> EmptyLines]
    /\ scan = [r \in Buyers |-> [p \in Products |-> 0]]
    /\ pending = [r \in Buyers |-> {}]
    /\ draft = [r \in Buyers |-> None]
    /\ answer = [r \in Buyers |-> NoAnswer]

Init == StoreInit /\ CheckoutInit

----------------------------------------------------------------------------
(* Waiting for rows. *)

\* The product whose decrement comes next: the first in the query's order.
NextProduct(r) ==
    {p \in pending[r] : \A q \in pending[r] : scan[r][p] <= scan[r][q]}

\* The row the next statement of r must lock.  An UPDATE passes over a product
\* that has too little already, and waits for nobody.
Wanted(r) ==
    CASE pc[r] = "lock" -> {request[r].cart}
      [] pc[r] = "decrement" ->
             {p \in NextProduct(r) : inventory[p] >= lines[r][p]}
      [] pc[r] = "redeem" -> {request[r].coupon}
      [] pc[r] = "key" -> {request[r].key}
      [] OTHER -> {}

\* Faulty form: the cart is read without FOR UPDATE.
GrantedWithoutCart(r) ==
    \A row \in Wanted(r) : row \in Carts \/ Free(r, row)

Granted(r) == \A row \in Wanted(r) : Free(r, row)

WaitsFor(r, s) == r # s /\ \E row \in Wanted(r) : holder[row] = s

\* Every member waits for a member, and is waited for by one.
WaitCycle(S) ==
    /\ S # {}
    /\ \A r \in S : /\ \E s \in S : WaitsFor(r, s)
                    /\ \E s \in S : WaitsFor(s, r)

----------------------------------------------------------------------------
(* How a statement ends. *)

Goto(r, place) == pc' = [pc EXCEPT ![r] = place]

\* An answer is decided: the transaction ends without having written.
Answer(r, a) ==
    /\ answer' = [answer EXCEPT ![r] = a]
    /\ Goto(r, "unwind")

Refuse(r, code) == Answer(r, Refusal(code))

\* Faulty form: the cart a key was first used for is not compared.
StoredReplayAnyCart(r, c, k) ==
    /\ keyRecords[k] # None
    /\ Answer(r, Receipt(keyRecords[k].order))

\* _stored_replay found a row under key k: for this cart, its response again.
StoredReplay(r, c, k) ==
    /\ keyRecords[k] # None
    /\ IF keyRecords[k].cart = c
       THEN Answer(r, Receipt(keyRecords[k].order))
       ELSE Refuse(r, "IDEMPOTENCY_KEY_REUSED")

----------------------------------------------------------------------------
(* Faulty forms of statements, each the code with one likely slip.  They are *)
(* no part of the specification: they show that the properties notice.      *)

\* The lookup after the lock is left out.
RecheckWithoutLookup(r) ==
    /\ pc[r] = "recheck"
    /\ Refuse(r, "CART_ALREADY_CHECKED_OUT")
    /\ UNCHANGED <<store, steps>>

\* The ORDER BY is left out.
LoadLinesUnordered(r) ==
    /\ pc[r] = "load"
    /\ LET found == cartItems[request[r].cart] IN
        /\ OnLines(found) # {}
        /\ lines' = [lines EXCEPT ![r] = found]
        /\ pending' = [pending EXCEPT ![r] = OnLines(found)]
        /\ \E f \in Injection(Products, 1..Cardinality(Products)) :
               scan' = [scan EXCEPT ![r] = f]
        /\ Goto(r, "decrement")
    /\ UNCHANGED <<store, request, draft, answer>>

\* The redeeming UPDATE trusts the quote: no WHERE status = 'available'.
RedeemAsQuoted(r) ==
    /\ pc[r] = "redeem"
    /\ Granted(r)
    /\ Take(r, request[r].coupon)
    /\ Goto(r, "key")
    /\ UNCHANGED <<tables, steps, answer>>

\* The key is upserted instead of inserted.
InsertKeyOverwriting(r) ==
    /\ pc[r] = "key"
    /\ Granted(r)
    /\ Take(r, request[r].key)
    /\ Goto(r, "commit")
    /\ UNCHANGED <<tables, steps, answer>>

\* Whatever refuses the insert of a key is taken for another cart's use of it.
InsertKeyBlamed(r) ==
    /\ pc[r] = "key"
    /\ Granted(r)
    /\ LET k == request[r].key IN
        \/ /\ keyRecords[k] = None /\ k \notin LongKeys
           /\ Take(r, k)
           /\ Goto(r, "commit")
           /\ UNCHANGED answer
        \/ /\ keyRecords[k] # None \/ k \in LongKeys
           /\ Refuse(r, "IDEMPOTENCY_KEY_REUSED")
           /\ UNCHANGED holder
    /\ UNCHANGED <<tables, steps>>

\* A refused checkout is committed, with the decrements it had made.
ReplyCommitting(r) ==
    /\ pc[r] \in {"unwind", "reply"}
    /\ inventory' = [p \in Products |->
           IF pc[r] = "unwind" /\ holder[p] = r
           THEN inventory[p] - lines[r][p] ELSE inventory[p]]
    /\ ReleaseAll(r)
    /\ Goto(r, "done")
    /\ UNCHANGED <<cartStatus, cartItems, orders, couponStatus, redeemedBy,
                   keyRecords, steps, answer>>

\* The transaction of a refused checkout is left open.
ReplyWithoutRollback(r) ==
    /\ pc[r] \in {"unwind", "reply"}
    /\ Goto(r, "done")
    /\ UNCHANGED <<store, steps, answer>>

----------------------------------------------------------------------------
(* The statements of checkout, in the order a request runs them. *)

\* The request arrives, and looks its key up before it touches the cart.
Arrive(r) ==
    /\ pc[r] = "idle"
    /\ \E ask \in Asks :
        /\ request' = [request EXCEPT ![r] = ask]
        /\ \/ StoredReplay(r, ask.cart, ask.key)
           \/ /\ keyRecords[ask.key] = None
              /\ Goto(r, "lock")
              /\ UNCHANGED answer
    /\ UNCHANGED <<store, lines, scan, pending, draft>>

\* SELECT ... FOR UPDATE on the cart, for the rest of the transaction.
LockCart(r) ==
    /\ pc[r] = "lock"
    /\ Granted(r)
    /\ LET c == request[r].cart IN
        \/ /\ cartStatus[c] = "absent"
           /\ Refuse(r, "NOT_FOUND")
           /\ UNCHANGED holder
        \/ /\ cartStatus[c] # "absent"
           /\ Take(r, c)
           /\ Goto(r, IF cartStatus[c] = "open" THEN "load" ELSE "recheck")
           /\ UNCHANGED answer
    /\ UNCHANGED <<tables, steps>>

\* The cart is closed: a request with the same key may have closed it while
\* this one waited for the lock.
Recheck(r) ==
    /\ pc[r] = "recheck"
    /\ \/ StoredReplay(r, request[r].cart, request[r].key)
       \/ /\ keyRecords[request[r].key] = None
          /\ Refuse(r, "CART_ALREADY_CHECKED_OUT")
    /\ UNCHANGED <<store, steps>>

\* The lines and their products, in name order.
LoadLines(r) ==
    /\ pc[r] = "load"
    /\ LET found == cartItems[request[r].cart] IN
        \/ /\ OnLines(found) = {}
           /\ Refuse(r, "EMPTY_CART")
           /\ UNCHANGED <<lines, scan, pending>>
        \/ /\ OnLines(found) # {}
           /\ lines' = [lines EXCEPT ![r] = found]
           /\ pending' = [pending EXCEPT ![r] = OnLines(found)]
           /\ \E f \in ScanOrders : scan' = [scan EXCEPT ![r] = f]
           /\ Goto(r, "decrement")
           /\ UNCHANGED answer
    /\ UNCHANGED <<store, request, draft>>

\* UPDATE products ... WHERE inventory >= quantity: the condition is read at
\* once, and again on the row as it stands when its lock is granted.
Decrement(r) ==
    /\ pc[r] = "decrement"
    /\ Granted(r)
    /\ \E p \in NextProduct(r) :
        \/ /\ inventory[p] >= lines[r][p]
           /\ Take(r, p)
           /\ pending' = [pending EXCEPT ![r] = @ \ {p}]
           /\ UNCHANGED <<pc, answer>>
        \/ /\ inventory[p] < lines[r][p]
           /\ Refuse(r, "INSUFFICIENT_INVENTORY")
           /\ UNCHANGED <<holder, pending>>
    /\ UNCHANGED <<tables, request, lines, scan, draft>>

\* quote_discount reads the coupon and writes nothing.
Quote(r) ==
    /\ pc[r] = "decrement"
    /\ pending[r] = {}
    /\ LET u == request[r].coupon IN
        \/ /\ u # None => couponStatus[u] = "available"
           /\ Goto(r, "order")
           /\ UNCHANGED answer
        \/ /\ u # None
           /\ couponStatus[u] = "absent"
           /\ Refuse(r, "INVALID_COUPON")
        \/ /\ u # None
           /\ couponStatus[u] = "redeemed"
           /\ Refuse(r, "COUPON_ALREADY_REDEEMED")
    /\ UNCHANGED <<store, steps>>

\* The order with its totals.  The database refuses a row outside its types
\* or CHECKs, and a second order for the cart.
NewOrder(r) == OrderFor(request[r], lines[r])

\* Faulty form: totals outside the column type are let through.
InsertableUnchecked(r) ==
    \A s \in Requests : orders[s] # None => orders[s].cart # request[r].cart

Insertable(r) ==
    /\ RowAccepted(NewOrder(r))
    /\ \A s \in Requests : orders[s] # None =>
           orders[s].cart # request[r].cart

InsertOrder(r) ==
    /\ pc[r] = "order"
    /\ \/ /\ Insertable(r)
          /\ draft' = [draft EXCEPT ![r] = NewOrder(r)]
          /\ Goto(r, IF request[r].coupon = None THEN "key" ELSE "redeem")
          /\ UNCHANGED answer
       \/ /\ ~ Insertable(r)
          /\ Refuse(r, "INTERNAL_ERROR")
          /\ UNCHANGED draft
    /\ UNCHANGED <<store, request, lines, scan, pending>>

\* UPDATE coupons ... WHERE status = 'available'.
Redeem(r) ==
    /\ pc[r] = "redeem"
    /\ Granted(r)
    /\ LET u == request[r].coupon IN
        \/ /\ couponStatus[u] = "available"
           /\ Take(r, u)
           /\ Goto(r, "key")
           /\ UNCHANGED answer
        \/ /\ couponStatus[u] # "available"
           /\ Refuse(r, "COUPON_ALREADY_REDEEMED")
           /\ UNCHANGED holder
    /\ UNCHANGED <<tables, steps>>

\* The order's items, the cart's new status and the idempotency key are
\* written; the insert of a key another transaction has inserted waits for
\* it, and fails on the primary key if that one committed.  A key that does not
\* fit its column fails at once.
InsertKey(r) ==
    /\ pc[r] = "key"
    /\ Granted(r)
    /\ LET k == request[r].key IN
        \/ /\ keyRecords[k] = None /\ k \notin LongKeys
           /\ Take(r, k)
           /\ Goto(r, "commit")
           /\ UNCHANGED answer
        \/ /\ keyRecords[k] # None \/ k \in LongKeys
           /\ Refuse(r, "INTERNAL_ERROR")
           /\ UNCHANGED holder
    /\ UNCHANGED <<tables, steps>>

\* COMMIT: everything the transaction wrote becomes visible at once.
Commit(r) ==
    /\ pc[r] = "commit"
    /\ PublishSale(r, request[r], lines[r], draft[r])
    /\ ReleaseAll(r)
    /\ answer' = [answer EXCEPT ![r] = Receipt(r)]
    /\ Goto(r, "reply")
    /\ UNCHANGED steps

\* The transaction of a refusal or a replay ends, or the one of a sale has
\* committed; the client gets the answer.
Reply(r) ==
    /\ pc[r] \in {"unwind", "reply"}
    /\ ReleaseAll(r)
    /\ Goto(r, "done")
    /\ UNCHANGED <<tables, steps, answer>>

\* PostgreSQL finds a wait cycle and fails one of its transactions.
DeadlockVictim(r) ==
    /\ \E S \in SUBSET Buyers : r \in S /\ WaitCycle(S)
    /\ Refuse(r, "INTERNAL_ERROR")
    /\ UNCHANGED <<store, steps>>

\* The worker dies, or a connection is lost (the client's or the database's),
\* before or after the commit.  PostgreSQL rolls back what was not committed;
\* the client does not learn whether there was a commit.
Abort(r) ==
    /\ pc[r] \notin {"idle", "done"}
    /\ ReleaseAll(r)
    /\ answer' = [answer EXCEPT ![r] = Refusal("NO_ANSWER")]
    /\ Goto(r, "done")
    /\ UNCHANGED <<tables, steps>>

Step(r) ==
    \/ LockCart(r) \/ Recheck(r) \/ LoadLines(r) \/ Decrement(r) \/ Quote(r)
    \/ InsertOrder(r) \/ Redeem(r) \/ InsertKey(r) \/ Commit(r) \/ Reply(r)
    \/ DeadlockVictim(r)

Next == \E r \in Buyers : Arrive(r) \/ Step(r) \/ Abort(r)

Spec == Init /\ [][Next]_vars

\* A request that has arrived keeps running: the event loop resumes it when
\* the database answers, and the database grants a lock it can grant.
\* Arrivals and failures are never owed.
Fairness == \A r \in Buyers : WF_vars(Step(r))
FairSpec == Spec /\ Fairness

----------------------------------------------------------------------------
(* Correctness. *)

\* Units of p in all orders.
Units(p) ==
    SumFunction([s \in Requests |-> IF Made(s) THEN orders[s].lines[p] ELSE 0])

\* No unit is sold twice, lost to a failed checkout, or sold without stock:
\* what left the shelf is what the orders hold, whatever interleaving or crash
\* the conditional decrements of several products went through.
StockConserved == \A p \in Products : inventory[p] + Units(p) = Stock[p]

\* The five tables a sale writes agree at every commit: a closed cart has one
\* order, with one idempotency record, and a redeemed coupon one order.
SoldTogether ==
    /\ \A s, t \in Requests :
          Made(s) /\ Made(t) /\ orders[s].cart = orders[t].cart => s = t
    /\ \A c \in Carts : cartStatus[c] = "checked_out" <=>
          \E s \in Requests : Made(s) /\ orders[s].cart = c
    /\ \A s \in Requests : Made(s) =>
          \E k \in Keys : keyRecords[k] # None /\ keyRecords[k].order = s
    /\ \A k \in Keys : keyRecords[k] # None =>
          /\ Made(keyRecords[k].order)
          /\ orders[keyRecords[k].order].cart = keyRecords[k].cart
    /\ \A j, k \in Keys :
          /\ keyRecords[j] # None /\ keyRecords[k] # None
          /\ keyRecords[j].order = keyRecords[k].order
          => j = k
    /\ \A u \in Coupons :
          /\ couponStatus[u] = "redeemed" <=> redeemedBy[u] # None
          /\ \A s \in Requests :
                redeemedBy[u] = s <=> Made(s) /\ orders[s].coupon = u

\* What request r has read or locked and still relies on.
ReservedBy(r) ==
    LET ask == request[r] IN
    /\ pc[r] = "recheck" =>
          holder[ask.cart] = r /\ cartStatus[ask.cart] = "checked_out"
    /\ pc[r] \in {"load", "decrement", "order", "redeem", "key", "commit"} =>
          holder[ask.cart] = r /\ cartStatus[ask.cart] = "open"
    /\ pc[r] \in {"decrement", "order", "redeem", "key", "commit"} =>
          /\ lines[r] = cartItems[ask.cart]
          /\ OnLines(lines[r]) # {}
          /\ \A p \in OnLines(lines[r]) \ pending[r] :
                holder[p] = r /\ lines[r][p] <= inventory[p]
    /\ pc[r] \in {"order", "redeem", "key", "commit"} => pending[r] = {}
    /\ pc[r] \in {"redeem", "key", "commit"} =>
          draft[r] = NewOrder(r) /\ draft[r] \in Orders
    /\ pc[r] = "redeem" => ask.coupon # None
    /\ pc[r] \in {"key", "commit"} /\ ask.coupon # None =>
          holder[ask.coupon] = r /\ couponStatus[ask.coupon] = "available"
    /\ pc[r] = "commit" =>
          holder[ask.key] = r /\ keyRecords[ask.key] = None

\* What a running checkout has established stays so until it commits or gives
\* up, though it was read statements ago and other requests have committed
\* since: its cart is open and unchanged, the stock it has decremented covers
\* its lines, its coupon is unspent and its key unrecorded.
Reserved == \A r \in Buyers : ReservedBy(r)

\* Every 201, first answer or replay, shows the one order recorded under the
\* key and cart of its request: retries of one attempt all see one order.
ReceiptsAgree ==
    \A r \in Buyers : answer[r].code = "OK" =>
        LET record == keyRecords[request[r].key] IN
        /\ record # None
        /\ record.cart = request[r].cart
        /\ record.order = answer[r].order

\* A refusal is never the work of a transaction that then rolled back: what it
\* reports is so in the committed tables, and stays so.  A client told that its
\* cart is sold did not sell it itself under the key it presented.  A checkout
\* that fails after its order was inserted fails for its key: another cart's, or
\* one too long to be stored.
HonestRefusals ==
    \A r \in Buyers :
        LET ask == request[r] IN
        CASE answer[r].code = "INSUFFICIENT_INVENTORY" ->
                 \E p \in Products : lines[r][p] > inventory[p]
          [] answer[r].code = "COUPON_ALREADY_REDEEMED" ->
                 redeemedBy[ask.coupon] # None
          [] answer[r].code = "CART_ALREADY_CHECKED_OUT" ->
                 /\ cartStatus[ask.cart] = "checked_out"
                 /\ \/ keyRecords[ask.key] = None
                    \/ keyRecords[ask.key].cart # ask.cart
          [] answer[r].code = "IDEMPOTENCY_KEY_REUSED" ->
                 keyRecords[ask.key] # None /\ keyRecords[ask.key].cart # ask.cart
          [] answer[r].code = "INTERNAL_ERROR" /\ draft[r] # None ->
                 \/ ask.key \in LongKeys
                 \/ keyRecords[ask.key] # None /\ keyRecords[ask.key].cart # ask.cart
          [] OTHER -> TRUE

\* A checkout that fails before its order is inserted fails for its size: where
\* names are distinct, neither a CHECK of the order's totals nor its unique cart
\* nor a deadlock is ever behind an INTERNAL_ERROR.
ErrorsExplained ==
    \A r \in Buyers :
        answer[r].code = "INTERNAL_ERROR" /\ draft[r] = None =>
            Gross(lines[r]) > Int4Max

\* How far a request is agrees with what it has: its ask, an answer, an order.
Progress ==
    /\ \A r \in Buyers : pc[r] = "idle" <=> request[r] = None
    /\ \A r \in Buyers :
          pc[r] \notin {"unwind", "reply", "done"} => answer[r] = NoAnswer
    /\ \A s \in Requests :
          Made(s) => s \in Buyers /\ pc[s] \in {"reply", "done"}

\* The inductive invariant: the properties, strengthened by what each running
\* transaction holds and has read.
IInv == TypeOK /\ Progress /\ Reserved /\ SoldTogether /\ ReceiptsAgree

\* "A key is bound to the cart it was first used with: presenting it for a
\* different cart ... returns 409 IDEMPOTENCY_KEY_REUSED" (DECISIONS.md), also
\* when the two carts are checked out at the same time.
KeyReuseReported ==
    \A r \in Buyers :
        ~ ( /\ draft[r] # None
            /\ answer[r].code = "INTERNAL_ERROR"
            /\ keyRecords[request[r].key] # None
            /\ keyRecords[request[r].key].cart # request[r].cart )

\* Locking the cart, then products by name, then the coupon, then the key
\* keeps checkouts from waiting for each other in a circle.
NoWaitCycle == \A S \in SUBSET Buyers : ~ WaitCycle(S)

Asked == [r \in Requests |-> IF r \in Buyers THEN request[r] ELSE None]

\* The order on each receipt that has reached its client.
Told ==
    [r \in Requests |->
        IF r \in Buyers /\ pc[r] = "done" /\ answer[r].code = "OK"
        THEN answer[r].order ELSE None]

L == INSTANCE Ledger WITH
    asked <- Asked, stock <- inventory, baskets <- cartItems, sales <- orders,
    spentOn <- redeemedBy, receipts <- keyRecords, told <- Told

\* Checkout is the atomic sale of Ledger: the commit is the sale, and the reply
\* that shows an order is the receipt.
ImplementsLedger == L!Spec

\* Every checkout that arrives is answered, or its client sees it fail: no
\* lock wait, not even a circular one, lasts for ever.
Answered == \A r \in Buyers : pc[r] # "idle" ~> pc[r] = "done"

============================================================================
