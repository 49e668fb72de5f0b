--------------------------- MODULE CheckoutProofs --------------------------
(***************************************************************************)
(* Theorems about Checkout, for any number of requests, carts, products,   *)
(* coupons and keys, and for any stock, prices and carts.                  *)
(***************************************************************************)
EXTENDS Checkout, TLAPS

LEMMA InitIInv == Init => IInv
<1> SUFFICES ASSUME Init PROVE IInv
    OBVIOUS
<1> USE RowsDistinct, CatalogueTypes, LimitTypes, NoneIsNoRow,
        BuyersAreRequests, BasketTypes, NoneIsNoAsk
<1>1. TypeOK
    BY DEF Init, StoreInit, CheckoutInit, TypeOK, StoreTypeOK, EmptyLines,
           Lines, CartStatus, CouponStatus, Places, Answers, NoAnswer,
           Refusal, Codes
<1>2. Progress
    BY DEF Init, StoreInit, CheckoutInit, Progress, Made
<1>3. Reserved
    BY DEF Init, StoreInit, CheckoutInit, Reserved, ReservedBy
<1>4. SoldTogether
    BY DEF Init, StoreInit, CheckoutInit, SoldTogether, Made
<1>5. ReceiptsAgree
    BY DEF Init, StoreInit, CheckoutInit, ReceiptsAgree, NoAnswer, Refusal
<1> QED BY <1>1, <1>2, <1>3, <1>4, <1>5 DEF IInv

LEMMA GotoType ==
    ASSUME pc \in [Buyers -> Places], NEW r \in Buyers, NEW place \in Places,
           Goto(r, place)
    PROVE  pc' \in [Buyers -> Places]
    BY DEF Goto

LEMMA AnswerType ==
    ASSUME TypeOK, NEW r \in Buyers, NEW a \in Answers, Answer(r, a)
    PROVE  pc' \in [Buyers -> Places] /\ answer' \in [Buyers -> Answers]
    BY DEF Answer, Goto, Places, TypeOK

LEMMA RefuseType ==
    ASSUME TypeOK, NEW r \in Buyers, NEW code \in Codes, Refuse(r, code)
    PROVE  pc' \in [Buyers -> Places] /\ answer' \in [Buyers -> Answers]
<1>1. Refusal(code) \in Answers
    BY DEF Refusal, Answers
<1> QED BY <1>1, AnswerType DEF Refuse

LEMMA TakeType ==
    ASSUME TypeOK, NEW r \in Buyers, NEW row \in Rows, Take(r, row)
    PROVE  holder' \in [Rows -> Requests \cup {None}]
    BY BuyersAreRequests DEF Take, TypeOK, StoreTypeOK

LEMMA ReleaseType ==
    ASSUME TypeOK, NEW r \in Buyers, ReleaseAll(r)
    PROVE  holder' \in [Rows -> Requests \cup {None}]
    BY DEF ReleaseAll, TypeOK, StoreTypeOK

LEMMA AskType ==
    ASSUME IInv, NEW r \in Buyers, pc[r] # "idle"
    PROVE  /\ request[r] \in Asks
           /\ request[r].cart \in Carts /\ request[r].cart \in Rows
           /\ request[r].key \in Keys /\ request[r].key \in Rows
           /\ request[r].coupon \in Coupons \cup {None}
           /\ request[r].coupon # None => request[r].coupon \in Rows
    BY DEF IInv, TypeOK, Progress, Asks, Rows

LEMMA ReplayType ==
    ASSUME TypeOK, NEW r \in Buyers, NEW c \in Carts, NEW k \in Keys,
           StoredReplay(r, c, k)
    PROVE  pc' \in [Buyers -> Places] /\ answer' \in [Buyers -> Answers]
<1>1. keyRecords[k] \in KeyRecords
    BY DEF StoredReplay, TypeOK, StoreTypeOK
<1>2. Receipt(keyRecords[k].order) \in Answers
    BY <1>1 DEF Receipt, KeyRecords, Answers, Codes
<1>3. CASE Answer(r, Receipt(keyRecords[k].order))
    BY <1>2, <1>3, AnswerType
<1>4. CASE Refuse(r, "IDEMPOTENCY_KEY_REUSED")
    BY <1>4, RefuseType DEF Codes
<1> QED BY <1>3, <1>4 DEF StoredReplay

LEMMA TypeOKStep == IInv /\ [Next]_vars => TypeOK'
<1> SUFFICES ASSUME IInv, [Next]_vars PROVE TypeOK'
    OBVIOUS
<1>0. TypeOK
    BY DEF IInv
<1> DEFINE Control == /\ pc' \in [Buyers -> Places]
                      /\ answer' \in [Buyers -> Answers]
           Locks == holder' \in [Rows -> Requests \cup {None}]
<1>1. ASSUME NEW r \in Buyers, Arrive(r) PROVE TypeOK'
  <2>1. PICK ask \in Asks :
          /\ request' = [request EXCEPT ![r] = ask]
          /\ \/ StoredReplay(r, ask.cart, ask.key)
             \/ Goto(r, "lock") /\ UNCHANGED answer
    BY <1>1 DEF Arrive
  <2>2. Control
    <3>1. CASE StoredReplay(r, ask.cart, ask.key)
      BY <1>0, <3>1, ReplayType DEF Asks
    <3>2. CASE Goto(r, "lock") /\ UNCHANGED answer
      BY <1>0, <3>2, GotoType DEF Places, TypeOK
    <3> QED BY <2>1, <3>1, <3>2
  <2> QED BY <1>0, <1>1, <2>1, <2>2 DEF Arrive, TypeOK, StoreTypeOK, store, tables
<1>2. ASSUME NEW r \in Buyers, LockCart(r) PROVE TypeOK'
  <2> DEFINE c == request[r].cart
  <2>1. c \in Rows
    BY <1>2, AskType DEF LockCart
  <2>2. Control
    <3>1. CASE Refuse(r, "NOT_FOUND")
      BY <1>0, <3>1, RefuseType DEF Codes
    <3>2. CASE /\ Goto(r, IF cartStatus[c] = "open" THEN "load" ELSE "recheck")
               /\ UNCHANGED answer
      BY <1>0, <3>2, GotoType DEF Places, TypeOK
    <3> QED BY <1>2, <3>1, <3>2 DEF LockCart
  <2>3. Locks
    <3>1. CASE Take(r, c)
      BY <1>0, <2>1, <3>1, TakeType
    <3>2. CASE UNCHANGED holder
      BY <1>0, <3>2 DEF TypeOK, StoreTypeOK
    <3> QED BY <1>2, <3>1, <3>2 DEF LockCart
  <2> QED BY <1>0, <1>2, <2>2, <2>3
          DEF LockCart, TypeOK, StoreTypeOK, tables, steps
<1>3. ASSUME NEW r \in Buyers, Recheck(r) PROVE TypeOK'
  <2>1. request[r].cart \in Carts /\ request[r].key \in Keys
    BY <1>3, AskType DEF Recheck
  <2>2. Control
    <3>1. CASE StoredReplay(r, request[r].cart, request[r].key)
      BY <1>0, <2>1, <3>1, ReplayType
    <3>2. CASE Refuse(r, "CART_ALREADY_CHECKED_OUT")
      BY <1>0, <3>2, RefuseType DEF Codes
    <3> QED BY <1>3, <3>1, <3>2 DEF Recheck
  <2> QED BY <1>0, <1>3, <2>2
          DEF Recheck, TypeOK, StoreTypeOK, store, tables, steps
<1>4. ASSUME NEW r \in Buyers, LoadLines(r) PROVE TypeOK'
  <2> DEFINE found == cartItems[request[r].cart]
  <2>1. found \in Lines
    BY <1>0, <1>4, AskType DEF LoadLines, TypeOK, StoreTypeOK
  <2>2. CASE Refuse(r, "EMPTY_CART") /\ UNCHANGED <<lines, scan, pending>>
    <3>1. Control
      BY <1>0, <2>2, RefuseType DEF Codes
    <3> QED BY <1>0, <1>4, <2>2, <3>1
            DEF LoadLines, TypeOK, StoreTypeOK, store, tables
  <2>3. CASE /\ lines' = [lines EXCEPT ![r] = found]
             /\ pending' = [pending EXCEPT ![r] = OnLines(found)]
             /\ \E f \in ScanOrders : scan' = [scan EXCEPT ![r] = f]
             /\ Goto(r, "decrement")
             /\ UNCHANGED answer
    <3>1. Control
      BY <1>0, <2>3, GotoType DEF Places, TypeOK
    <3>2. pending' \in [Buyers -> SUBSET Products]
      BY <1>0, <2>3 DEF TypeOK, OnLines
    <3>3. lines' \in [Buyers -> Lines]
      BY <1>0, <2>1, <2>3 DEF TypeOK
    <3>4. scan' \in [Buyers -> [Products -> Nat]]
      <4>1. PICK f \in ScanOrders : scan' = [scan EXCEPT ![r] = f]
        BY <2>3
      <4>2. f \in [Products -> Nat]
        BY SMT DEF ScanOrders
      <4> QED BY <1>0, <4>1, <4>2 DEF TypeOK
    <3> QED BY <1>0, <1>4, <3>1, <3>2, <3>3, <3>4
            DEF LoadLines, TypeOK, StoreTypeOK, store, tables
  <2> QED BY <1>4, <2>2, <2>3 DEF LoadLines
<1>5. ASSUME NEW r \in Buyers, Decrement(r) PROVE TypeOK'
  <2>1. PICK p \in NextProduct(r) :
          \/ /\ Take(r, p)
             /\ pending' = [pending EXCEPT ![r] = @ \ {p}]
             /\ UNCHANGED <<pc, answer>>
          \/ /\ Refuse(r, "INSUFFICIENT_INVENTORY")
             /\ UNCHANGED <<holder, pending>>
    BY <1>5 DEF Decrement
  <2>2. p \in Rows
    BY <1>0, <2>1 DEF NextProduct, TypeOK, Rows
  <2>3. CASE /\ Take(r, p)
             /\ pending' = [pending EXCEPT ![r] = @ \ {p}]
             /\ UNCHANGED <<pc, answer>>
    <3>1. Locks
      BY <1>0, <2>2, <2>3, TakeType
    <3>2. pending' \in [Buyers -> SUBSET Products]
      BY <1>0, <2>3 DEF TypeOK
    <3> QED BY <1>0, <1>5, <2>3, <3>1, <3>2
            DEF Decrement, TypeOK, StoreTypeOK, tables
  <2>4. CASE /\ Refuse(r, "INSUFFICIENT_INVENTORY")
             /\ UNCHANGED <<holder, pending>>
    <3>1. Control
      BY <1>0, <2>4, RefuseType DEF Codes
    <3> QED BY <1>0, <1>5, <2>4, <3>1
            DEF Decrement, TypeOK, StoreTypeOK, tables
  <2> QED BY <2>1, <2>3, <2>4
<1>6. ASSUME NEW r \in Buyers, Quote(r) PROVE TypeOK'
  <2>1. Control
    <3>1. CASE Goto(r, "order") /\ UNCHANGED answer
      BY <1>0, <3>1, GotoType DEF Places, TypeOK
    <3>2. CASE Refuse(r, "INVALID_COUPON")
      BY <1>0, <3>2, RefuseType DEF Codes
    <3>3. CASE Refuse(r, "COUPON_ALREADY_REDEEMED")
      BY <1>0, <3>3, RefuseType DEF Codes
    <3> QED BY <1>6, <3>1, <3>2, <3>3 DEF Quote
  <2> QED BY <1>0, <1>6, <2>1
          DEF Quote, TypeOK, StoreTypeOK, store, tables, steps
<1>7. ASSUME NEW r \in Buyers, InsertOrder(r) PROVE TypeOK'
  <2>1. CASE /\ Insertable(r)
             /\ draft' = [draft EXCEPT ![r] = NewOrder(r)]
             /\ Goto(r, IF request[r].coupon = None THEN "key" ELSE "redeem")
             /\ UNCHANGED answer
    <3>1. Control
      BY <1>0, <2>1, GotoType DEF Places, TypeOK
    <3>2. draft' \in [Buyers -> Orders \cup {None}]
      BY <1>0, <2>1 DEF TypeOK, Insertable, RowAccepted
    <3> QED BY <1>0, <1>7, <3>1, <3>2
            DEF InsertOrder, TypeOK, StoreTypeOK, store, tables
  <2>2. CASE Refuse(r, "INTERNAL_ERROR") /\ UNCHANGED draft
    <3>1. Control
      BY <1>0, <2>2, RefuseType DEF Codes
    <3> QED BY <1>0, <1>7, <2>2, <3>1
            DEF InsertOrder, TypeOK, StoreTypeOK, store, tables
  <2> QED BY <1>7, <2>1, <2>2 DEF InsertOrder
<1>8. ASSUME NEW r \in Buyers, Redeem(r) PROVE TypeOK'
  <2>1. request[r].coupon \in Rows
    BY <1>8, AskType DEF Redeem, IInv, Reserved, ReservedBy
  <2>2. CASE Take(r, request[r].coupon) /\ Goto(r, "key") /\ UNCHANGED answer
    <3>1. Control /\ Locks
      BY <1>0, <2>1, <2>2, GotoType, TakeType DEF Places, TypeOK
    <3> QED BY <1>0, <1>8, <3>1 DEF Redeem, TypeOK, StoreTypeOK, tables, steps
  <2>3. CASE Refuse(r, "COUPON_ALREADY_REDEEMED") /\ UNCHANGED holder
    <3>1. Control
      BY <1>0, <2>3, RefuseType DEF Codes
    <3> QED BY <1>0, <1>8, <2>3, <3>1
            DEF Redeem, TypeOK, StoreTypeOK, tables, steps
  <2> QED BY <1>8, <2>2, <2>3 DEF Redeem
<1>9. ASSUME NEW r \in Buyers, InsertKey(r) PROVE TypeOK'
  <2>1. request[r].key \in Rows
    BY <1>9, AskType DEF InsertKey
  <2>2. CASE Take(r, request[r].key) /\ Goto(r, "commit") /\ UNCHANGED answer
    <3>1. Control /\ Locks
      BY <1>0, <2>1, <2>2, GotoType, TakeType DEF Places, TypeOK
    <3> QED BY <1>0, <1>9, <3>1
            DEF InsertKey, TypeOK, StoreTypeOK, tables, steps
  <2>3. CASE Refuse(r, "INTERNAL_ERROR") /\ UNCHANGED holder
    <3>1. Control
      BY <1>0, <2>3, RefuseType DEF Codes
    <3> QED BY <1>0, <1>9, <2>3, <3>1
            DEF InsertKey, TypeOK, StoreTypeOK, tables, steps
  <2> QED BY <1>9, <2>2, <2>3 DEF InsertKey
<1>10. ASSUME NEW r \in Buyers, Commit(r) PROVE TypeOK'
  <2> DEFINE ask == request[r]
  <2>1. ask.cart \in Carts /\ ask.key \in Keys /\ r \in Requests
    BY <1>10, AskType, BuyersAreRequests DEF Commit, PublishSale
  <2>2. \A p \in Products : lines[r][p] \in Nat /\ inventory[p] \in Nat
    BY <1>0 DEF TypeOK, StoreTypeOK, Lines
  <2>3. \A p \in Products : lines[r][p] <= inventory[p]
    <3>1. pending[r] = {}
      BY <1>10 DEF Commit, PublishSale, IInv, Reserved, ReservedBy
    <3>2. \A p \in OnLines(lines[r]) : lines[r][p] <= inventory[p]
      BY <1>10, <3>1 DEF Commit, PublishSale, IInv, Reserved, ReservedBy
    <3> QED BY <2>2, <3>2 DEF OnLines
  <2>4. inventory' \in [Products -> Nat]
    BY <1>10, <2>2, <2>3 DEF Commit, PublishSale
  <2>5. cartStatus' \in [Carts -> CartStatus]
    BY <1>0, <1>10 DEF Commit, PublishSale, TypeOK, StoreTypeOK, CartStatus
  <2>6. orders' \in [Requests -> Orders \cup {None}]
    BY <1>0, <1>10 DEF Commit, PublishSale, TypeOK, StoreTypeOK
  <2>7. /\ couponStatus' \in [Coupons -> CouponStatus]
        /\ redeemedBy' \in [Coupons -> Requests \cup {None}]
    BY <1>0, <1>10, <2>1 DEF Commit, PublishSale, TypeOK, StoreTypeOK,
       CouponStatus
  <2>8. keyRecords' \in [Keys -> KeyRecords \cup {None}]
    BY <1>0, <1>10, <2>1 DEF Commit, PublishSale, TypeOK, StoreTypeOK,
       KeyRecords
  <2>9. Control /\ Locks
    <3>1. Receipt(r) \in Answers
      BY <2>1 DEF Receipt, Answers, Codes
    <3>2. Goto(r, "reply") /\ ReleaseAll(r)
      BY <1>10 DEF Commit, PublishSale
    <3>3. answer' = [answer EXCEPT ![r] = Receipt(r)]
      BY <1>10 DEF Commit, PublishSale
    <3> QED BY <1>0, <3>1, <3>2, <3>3, GotoType, ReleaseType DEF Places, TypeOK
  <2> QED BY <1>0, <1>10, <2>4, <2>5, <2>6, <2>7, <2>8, <2>9
          DEF Commit, PublishSale, TypeOK, StoreTypeOK, steps
<1>11. ASSUME NEW r \in Buyers, Reply(r) PROVE TypeOK'
  <2>1. Control /\ Locks
    BY <1>0, <1>11, GotoType, ReleaseType DEF Reply, Places, TypeOK
  <2> QED BY <1>0, <1>11, <2>1 DEF Reply, TypeOK, StoreTypeOK, tables, steps
<1>12. ASSUME NEW r \in Buyers, DeadlockVictim(r) PROVE TypeOK'
  <2>1. Control
    BY <1>0, <1>12, RefuseType DEF DeadlockVictim, Codes
  <2> QED BY <1>0, <1>12, <2>1
          DEF DeadlockVictim, TypeOK, StoreTypeOK, store, tables, steps
<1>13. ASSUME NEW r \in Buyers, Abort(r) PROVE TypeOK'
  <2>1. Refusal("NO_ANSWER") \in Answers
    BY DEF Refusal, Answers, Codes
  <2>2. Control /\ Locks
    BY <1>0, <1>13, <2>1, GotoType, ReleaseType DEF Abort, Places, TypeOK
  <2> QED BY <1>0, <1>13, <2>2 DEF Abort, TypeOK, StoreTypeOK, tables, steps
<1>14. CASE UNCHANGED vars
    BY <1>0, <1>14
       DEF TypeOK, StoreTypeOK, vars, store, tables, checkoutVars, steps
<1> QED
    BY <1>1, <1>2, <1>3, <1>4, <1>5, <1>6, <1>7, <1>8, <1>9, <1>10, <1>11,
       <1>12, <1>13, <1>14 DEF Next, Step

----------------------------------------------------------------------------
(* What a step of one request leaves alone. *)

\* A lock of another request is neither taken nor released.
LEMMA LocksOfOthers ==
    ASSUME TypeOK, NEW r \in Buyers, NEW s \in Buyers, s # r,
           NEW row \in Rows, holder[row] = s,
           \/ UNCHANGED holder
           \/ ReleaseAll(r)
           \/ \E wanted \in Rows : Free(r, wanted) /\ Take(r, wanted)
    PROVE  holder'[row] = s
<1>1. s # None
    BY RowsDistinct, BuyersAreRequests
<1>2. CASE UNCHANGED holder
    BY <1>2
<1>3. CASE ReleaseAll(r)
    BY <1>3 DEF ReleaseAll
<1>4. CASE \E wanted \in Rows : Free(r, wanted) /\ Take(r, wanted)
    BY <1>1, <1>4 DEF Free, Take, TypeOK, StoreTypeOK
<1> QED BY <1>2, <1>3, <1>4

\* How a step may change the locks.
LEMMA LockSteps ==
    ASSUME IInv, NEW r \in Buyers, Arrive(r) \/ Step(r) \/ Abort(r)
    PROVE  \/ UNCHANGED holder
           \/ ReleaseAll(r)
           \/ \E wanted \in Rows : Free(r, wanted) /\ Take(r, wanted)
<1>1. CASE LockCart(r)
    BY <1>1, AskType DEF LockCart, Granted, Wanted
<1>2. CASE Decrement(r)
  <2>1. \A p \in NextProduct(r) : p \in Rows
    BY DEF NextProduct, IInv, TypeOK, Rows
  <2> QED BY <1>2, <2>1 DEF Decrement, Granted, Wanted
<1>3. CASE Redeem(r)
  <2>1. request[r].coupon \in Rows
    BY <1>3, AskType DEF Redeem, IInv, Reserved, ReservedBy
  <2> QED BY <1>3, <2>1 DEF Redeem, Granted, Wanted
<1>4. CASE InsertKey(r)
    BY <1>4, AskType DEF InsertKey, Granted, Wanted
<1>5. CASE \/ Arrive(r) \/ Recheck(r) \/ LoadLines(r) \/ Quote(r)
           \/ InsertOrder(r) \/ DeadlockVictim(r)
    BY <1>5 DEF Arrive, Recheck, LoadLines, Quote, InsertOrder,
                DeadlockVictim, store
<1>6. CASE Commit(r) \/ Reply(r) \/ Abort(r)
    BY <1>6 DEF Commit, PublishSale, Reply, Abort
<1> QED BY <1>1, <1>2, <1>3, <1>4, <1>5, <1>6 DEF Step

\* Another request stays where it is and keeps what it has.
LEMMA OthersKept ==
    ASSUME IInv, NEW r \in Buyers, Arrive(r) \/ Step(r) \/ Abort(r),
           NEW s \in Buyers, s # r
    PROVE  /\ pc'[s] = pc[s] /\ request'[s] = request[s]
           /\ lines'[s] = lines[s] /\ pending'[s] = pending[s]
           /\ draft'[s] = draft[s] /\ answer'[s] = answer[s]
           /\ \A row \in Rows : holder[row] = s => holder'[row] = s
<1>1. TypeOK
    BY DEF IInv
<1>2. \A row \in Rows : holder[row] = s => holder'[row] = s
    BY <1>1, LockSteps, LocksOfOthers
<1>3. pc'[s] = pc[s] /\ answer'[s] = answer[s]
    BY <1>1 DEF TypeOK, Step, Arrive, LockCart, Recheck, LoadLines, Decrement,
       Quote, InsertOrder, Redeem, InsertKey, Commit, PublishSale, Reply,
       DeadlockVictim,
       Abort, StoredReplay, Refuse, Answer, Goto
<1>4. /\ request'[s] = request[s] /\ lines'[s] = lines[s]
      /\ pending'[s] = pending[s] /\ draft'[s] = draft[s]
    BY <1>1 DEF TypeOK, Step, Arrive, LockCart, Recheck, LoadLines, Decrement,
       Quote, InsertOrder, Redeem, InsertKey, Commit, PublishSale, Reply,
       DeadlockVictim,
       Abort, steps
<1> QED BY <1>2, <1>3, <1>4

\* Only a commit changes a table.
LEMMA TablesKept ==
    ASSUME NEW r \in Buyers, Arrive(r) \/ Step(r) \/ Abort(r), ~ Commit(r)
    PROVE  UNCHANGED tables
    BY DEF Step, Arrive, LockCart, Recheck, LoadLines, Decrement, Quote,
       InsertOrder, Redeem, InsertKey, Reply, DeadlockVictim, Abort, store

\* Only a request that waits for a row is ever a deadlock's victim.
LEMMA VictimWaits ==
    ASSUME NEW r \in Buyers, DeadlockVictim(r)
    PROVE  pc[r] \in {"lock", "decrement", "redeem", "key"}
<1>1. Wanted(r) # {}
    BY DEF DeadlockVictim, WaitCycle, WaitsFor
<1> QED BY <1>1 DEF Wanted

\* A request with an answer only goes on to be done.
LEMMA AnsweredSteps ==
    ASSUME IInv, NEW r \in Buyers, Arrive(r) \/ Step(r) \/ Abort(r),
           pc[r] \in {"unwind", "reply", "done"}
    PROVE  Reply(r) \/ Abort(r)
    BY VictimWaits DEF Step, Arrive, LockCart, Recheck, LoadLines, Decrement,
       Quote, InsertOrder, Redeem, InsertKey, Commit, PublishSale

----------------------------------------------------------------------------
(* Progress. *)

LEMMA ProgressStep == IInv /\ [Next]_vars => Progress'
<1> SUFFICES ASSUME IInv, [Next]_vars PROVE Progress'
    OBVIOUS
<1>0. TypeOK /\ Progress
    BY DEF IInv
<1>1. ASSUME NEW r \in Buyers, Arrive(r) \/ Step(r) \/ Abort(r) PROVE Progress'
  <2>1. pc'[r] = "idle" <=> request'[r] = None
    BY <1>0, <1>1, NoneIsNoAsk
       DEF TypeOK, Progress, Step, Arrive, LockCart, Recheck, LoadLines,
           Decrement, Quote, InsertOrder, Redeem, InsertKey, Commit,
           PublishSale, Reply,
           DeadlockVictim, Abort, StoredReplay, Refuse, Answer, Goto, steps,
           WaitCycle, WaitsFor, Wanted
  <2>2. pc'[r] \notin {"unwind", "reply", "done"} => answer'[r] = NoAnswer
    BY <1>0, <1>1
       DEF TypeOK, Progress, Step, Arrive, LockCart, Recheck, LoadLines,
           Decrement, Quote, InsertOrder, Redeem, InsertKey, Commit,
           PublishSale, Reply,
           DeadlockVictim, Abort, StoredReplay, Refuse, Answer, Goto
  <2>3. Made(r)' => pc'[r] \in {"reply", "done"}
    <3>1. CASE Commit(r)
      BY <1>0, <3>1 DEF Commit, PublishSale, Goto, TypeOK
    <3>2. CASE ~ Commit(r) /\ Made(r)'
      <4>1. pc[r] \in {"reply", "done"}
        BY <1>0, <1>1, <3>2, TablesKept, BuyersAreRequests
           DEF Made, tables, Progress
      <4>2. Reply(r) \/ Abort(r)
        BY <1>1, <4>1, AnsweredSteps
      <4> QED BY <1>0, <4>2 DEF Reply, Abort, Goto, TypeOK
    <3> QED BY <3>1, <3>2
  <2>4. \A s \in Requests : s # r => (Made(s)' <=> Made(s))
    <3>1. CASE Commit(r)
      BY <1>0, <3>1 DEF Commit, PublishSale, Made, TypeOK, StoreTypeOK
    <3>2. CASE ~ Commit(r)
      BY <1>1, <3>2, TablesKept DEF Made, tables
    <3> QED BY <3>1, <3>2
  <2>5. \A s \in Buyers : s # r =>
          /\ pc'[s] = pc[s] /\ request'[s] = request[s]
          /\ answer'[s] = answer[s]
    BY <1>1, OthersKept
  <2> QED BY <1>0, <2>1, <2>2, <2>3, <2>4, <2>5, BuyersAreRequests DEF Progress
<1>2. CASE UNCHANGED vars
    BY <1>0, <1>2 DEF Progress, Made, vars, store, tables, checkoutVars, steps
<1> QED BY <1>1, <1>2 DEF Next

----------------------------------------------------------------------------
(* SoldTogether. *)

LEMMA SoldTogetherStep == IInv /\ [Next]_vars => SoldTogether'
<1> SUFFICES ASSUME IInv, [Next]_vars PROVE SoldTogether'
    OBVIOUS
<1>0. TypeOK /\ Progress /\ Reserved /\ SoldTogether
    BY DEF IInv
<1>1. ASSUME UNCHANGED tables PROVE SoldTogether'
    BY <1>0, <1>1 DEF SoldTogether, Made, tables
<1>2. ASSUME NEW r \in Buyers, Commit(r) PROVE SoldTogether'
  <2> DEFINE ask == request[r]
  <2>1. /\ ask.cart \in Carts /\ ask.key \in Keys
        /\ ask.coupon \in Coupons \cup {None} /\ r \in Requests /\ r # None
    BY <1>2, AskType, BuyersAreRequests, RowsDistinct DEF Commit, PublishSale
  <2>2. /\ cartStatus[ask.cart] = "open" /\ keyRecords[ask.key] = None
        /\ ask.coupon # None => couponStatus[ask.coupon] = "available"
    BY <1>0, <1>2 DEF Commit, PublishSale, Reserved, ReservedBy
  <2>3. /\ draft[r] \in Orders /\ draft[r] # None
        /\ draft[r].cart = ask.cart /\ draft[r].coupon = ask.coupon
    <3>1. draft[r] = NewOrder(r) /\ draft[r] \in Orders
      BY <1>0, <1>2 DEF Commit, PublishSale, Reserved, ReservedBy
    <3>2. NewOrder(r).cart = ask.cart /\ NewOrder(r).coupon = ask.coupon
      BY DEF NewOrder, OrderFor
    <3> QED BY <3>1, <3>2, NoneIsNoRow
  <2>4. ~ Made(r)
    BY <1>0, <1>2, <2>1 DEF Commit, PublishSale, Progress
  <2>5. /\ orders'[r] = draft[r] /\ Made(r)'
        /\ \A s \in Requests : s # r =>
              orders'[s] = orders[s] /\ (Made(s)' <=> Made(s))
    BY <1>0, <1>2, <2>1, <2>3 DEF Commit, PublishSale, Made, TypeOK,
       StoreTypeOK
  <2>6. /\ keyRecords'[ask.key] = [cart |-> ask.cart, order |-> r]
        /\ keyRecords'[ask.key] # None
        /\ \A k \in Keys : k # ask.key => keyRecords'[k] = keyRecords[k]
    <3>1. [cart |-> ask.cart, order |-> r] \in KeyRecords
      BY <2>1 DEF KeyRecords
    <3> QED BY <1>0, <1>2, <2>1, <3>1, NoneIsNoRow DEF Commit, PublishSale,
    TypeOK, StoreTypeOK
  <2>7. \A s, t \in Requests :
          Made(s)' /\ Made(t)' /\ orders'[s].cart = orders'[t].cart => s = t
    <3>1. \A s \in Requests : Made(s) => orders[s].cart # ask.cart
      BY <1>0, <2>1, <2>2 DEF SoldTogether
    <3> QED BY <1>0, <2>3, <2>5, <3>1 DEF SoldTogether
  <2>8. \A c \in Carts : cartStatus'[c] = "checked_out" <=>
          \E s \in Requests : Made(s)' /\ orders'[s].cart = c
    <3>1. \A c \in Carts : cartStatus'[c] =
            IF c = ask.cart THEN "checked_out" ELSE cartStatus[c]
      BY <1>0, <1>2 DEF Commit, PublishSale, TypeOK, StoreTypeOK
    <3> QED BY <1>0, <2>1, <2>2, <2>3, <2>4, <2>5, <3>1 DEF SoldTogether
  <2>9. \A s \in Requests : Made(s)' =>
          \E k \in Keys : keyRecords'[k] # None /\ keyRecords'[k].order = s
    <3>1. ASSUME NEW s \in Requests, Made(s)', s # r
          PROVE  \E k \in Keys : keyRecords'[k] # None /\ keyRecords'[k].order = s
      <4>1. PICK k \in Keys : keyRecords[k] # None /\ keyRecords[k].order = s
        BY <1>0, <2>5, <3>1 DEF SoldTogether
      <4> QED BY <2>2, <2>6, <4>1
    <3> QED BY <2>1, <2>6, <3>1
  <2>10. \A k \in Keys : keyRecords'[k] # None =>
          /\ keyRecords'[k].order \in Requests
          /\ orders'[keyRecords'[k].order] # None
          /\ orders'[keyRecords'[k].order].cart = keyRecords'[k].cart
    <3>1. ASSUME NEW k \in Keys, k # ask.key, keyRecords[k] # None
          PROVE  /\ keyRecords[k].order \in Requests
                 /\ Made(keyRecords[k].order)
                 /\ orders[keyRecords[k].order].cart = keyRecords[k].cart
      BY <1>0, <3>1 DEF SoldTogether, TypeOK, StoreTypeOK, KeyRecords
    <3>2. ASSUME NEW k \in Keys, k # ask.key, keyRecords[k] # None
          PROVE  orders'[keyRecords[k].order] = orders[keyRecords[k].order]
      BY <2>4, <2>5, <3>1, <3>2
    <3> QED BY <2>1, <2>3, <2>5, <2>6, <3>1, <3>2 DEF Made
  <2>11. \A j, k \in Keys :
          /\ keyRecords'[j] # None /\ keyRecords'[k] # None
          /\ keyRecords'[j].order = keyRecords'[k].order
          => j = k
    <3>1. \A k \in Keys : keyRecords[k] # None => keyRecords[k].order # r
      BY <1>0, <2>4 DEF SoldTogether
    <3> QED BY <1>0, <2>1, <2>6, <3>1 DEF SoldTogether
  <2>12. \A u \in Coupons :
          /\ couponStatus'[u] = "redeemed" <=> redeemedBy'[u] # None
          /\ \A s \in Requests :
                redeemedBy'[u] = s <=> Made(s)' /\ orders'[s].coupon = u
    <3>1. \A u \in Coupons :
            /\ couponStatus'[u] = IF u = ask.coupon THEN "redeemed" ELSE couponStatus[u]
            /\ redeemedBy'[u] = IF u = ask.coupon THEN r ELSE redeemedBy[u]
      BY <1>2 DEF Commit, PublishSale
    <3>2. \A u \in Coupons : u # None
      BY RowsDistinct DEF Rows
    <3>3. \A u \in Coupons, s \in Requests :
            u = ask.coupon => ~ (Made(s) /\ orders[s].coupon = u)
      BY <1>0, <2>2, <3>2, RowsDistinct DEF SoldTogether
    <3>4. \A u \in Coupons : redeemedBy[u] # r
      BY <1>0, <2>1, <2>4 DEF SoldTogether
    <3>5. \A u \in Coupons : couponStatus'[u] = "redeemed" <=> redeemedBy'[u] # None
      BY <1>0, <2>1, <3>1 DEF SoldTogether
    <3>6. ASSUME NEW u \in Coupons, NEW s \in Requests
          PROVE  redeemedBy'[u] = s <=> Made(s)' /\ orders'[s].coupon = u
      <4>1. redeemedBy[u] = s <=> Made(s) /\ orders[s].coupon = u
        BY <1>0 DEF SoldTogether
      <4>2. CASE s = r
        BY <2>3, <2>4, <2>5, <3>1, <3>4, <4>1, <4>2
      <4>3. CASE s # r
        BY <2>5, <3>1, <3>3, <4>1, <4>3
      <4> QED BY <4>2, <4>3
    <3> QED BY <3>5, <3>6
  <2> QED BY <2>7, <2>8, <2>9, <2>10, <2>11, <2>12 DEF SoldTogether, Made
<1>3. CASE UNCHANGED vars
    BY <1>1, <1>3 DEF vars, store
<1> QED BY <1>1, <1>2, <1>3, TablesKept DEF Next

----------------------------------------------------------------------------
(* ReceiptsAgree. *)

\* Orders and idempotency records are written once.
LEMMA RecordsKept ==
    ASSUME IInv, NEW r \in Buyers, Arrive(r) \/ Step(r) \/ Abort(r)
    PROVE  /\ \A k \in Keys : keyRecords[k] # None => keyRecords'[k] = keyRecords[k]
           /\ \A s \in Requests : Made(s) => orders'[s] = orders[s]
<1>1. CASE Commit(r)
  <2>1. keyRecords[request[r].key] = None
    BY <1>1 DEF Commit, PublishSale, IInv, Reserved, ReservedBy
  <2>2. r \in Requests /\ ~ Made(r)
    BY <1>1, BuyersAreRequests DEF Commit, PublishSale, IInv, Progress
  <2> QED BY <1>1, <2>1, <2>2 DEF Commit, PublishSale, IInv, TypeOK,
  StoreTypeOK
<1>2. CASE ~ Commit(r)
    BY <1>2, TablesKept DEF tables
<1> QED BY <1>1, <1>2

LEMMA ReceiptsAgreeStep == IInv /\ [Next]_vars => ReceiptsAgree'
<1> SUFFICES ASSUME IInv, [Next]_vars PROVE ReceiptsAgree'
    OBVIOUS
<1>0. TypeOK /\ Progress /\ Reserved /\ SoldTogether /\ ReceiptsAgree
    BY DEF IInv
<1> DEFINE Agrees(s) ==
        answer[s].code = "OK" =>
            LET record == keyRecords[request[s].key] IN
            /\ record # None
            /\ record.cart = request[s].cart
            /\ record.order = answer[s].order
<1>1. ASSUME NEW r \in Buyers, Arrive(r) \/ Step(r) \/ Abort(r),
             NEW s \in Buyers, request'[s] = request[s], answer'[s] = answer[s]
      PROVE  Agrees(s)'
  <2> SUFFICES ASSUME answer[s].code = "OK" PROVE Agrees(s)'
    BY <1>1
  <2>1. Agrees(s)
    BY <1>0 DEF ReceiptsAgree
  <2>2. request[s].key \in Keys
    <3>1. pc[s] # "idle"
      BY <1>0 DEF Progress, NoAnswer, Refusal
    <3> QED BY <3>1, AskType
  <2> QED BY <1>1, <2>1, <2>2, RecordsKept
<1>2. ASSUME NEW r \in Buyers, NEW c, NEW k \in Keys, StoredReplay(r, c, k),
             UNCHANGED tables, request'[r].cart = c, request'[r].key = k
      PROVE  Agrees(r)'
  <2>1. CASE /\ keyRecords[k].cart = c
             /\ Answer(r, Receipt(keyRecords[k].order))
    <3>1. answer'[r].order = keyRecords[k].order
      BY <1>0, <2>1 DEF Answer, Receipt, TypeOK
    <3> QED BY <1>2, <2>1, <3>1 DEF StoredReplay, tables
  <2>2. CASE Refuse(r, "IDEMPOTENCY_KEY_REUSED")
    BY <1>0, <2>2 DEF Refuse, Answer, Refusal, TypeOK
  <2> QED BY <1>2, <2>1, <2>2 DEF StoredReplay
<1>3. ASSUME NEW r \in Buyers, Arrive(r) PROVE Agrees(r)'
  <2>1. PICK ask \in Asks :
          /\ request' = [request EXCEPT ![r] = ask]
          /\ \/ StoredReplay(r, ask.cart, ask.key)
             \/ UNCHANGED answer
    BY <1>3 DEF Arrive
  <2>2. request'[r] = ask /\ ask.key \in Keys
    BY <1>0, <2>1 DEF TypeOK, Asks
  <2>3. CASE StoredReplay(r, ask.cart, ask.key)
    BY <1>2, <1>3, <2>2, <2>3 DEF Arrive, store
  <2>4. CASE UNCHANGED answer
    BY <1>0, <1>3, <2>4 DEF Arrive, Progress, NoAnswer, Refusal
  <2> QED BY <2>1, <2>3, <2>4
<1>4. ASSUME NEW r \in Buyers, Recheck(r) PROVE Agrees(r)'
  <2>1. request'[r] = request[r] /\ request[r].key \in Keys /\ UNCHANGED tables
    BY <1>4, AskType DEF Recheck, steps, store
  <2>2. CASE StoredReplay(r, request[r].cart, request[r].key)
    BY <1>2, <2>1, <2>2
  <2>3. CASE Refuse(r, "CART_ALREADY_CHECKED_OUT")
    BY <1>0, <2>3 DEF Refuse, Answer, Refusal, TypeOK
  <2> QED BY <1>4, <2>2, <2>3 DEF Recheck
<1>5. ASSUME NEW r \in Buyers, Commit(r) PROVE Agrees(r)'
  <2>1. /\ request'[r] = request[r] /\ request[r].key \in Keys
        /\ request[r].cart \in Carts /\ r \in Requests
    BY <1>5, AskType, BuyersAreRequests DEF Commit, PublishSale, steps
  <2>2. [cart |-> request[r].cart, order |-> r] \in KeyRecords
    BY <2>1 DEF KeyRecords
  <2>3. keyRecords'[request[r].key] = [cart |-> request[r].cart, order |-> r]
    BY <1>0, <1>5, <2>1 DEF Commit, PublishSale, TypeOK, StoreTypeOK
  <2>4. answer'[r].order = r
    BY <1>0, <1>5 DEF Commit, PublishSale, Receipt, TypeOK
  <2> QED BY <2>1, <2>2, <2>3, <2>4, NoneIsNoRow
<1>6. ASSUME NEW r \in Buyers, Reply(r) PROVE Agrees(r)'
  <2>1. request'[r] = request[r] /\ answer'[r] = answer[r]
    BY <1>6 DEF Reply, steps
  <2> QED BY <1>1, <1>6, <2>1 DEF Step
<1>7. ASSUME NEW r \in Buyers,
             \/ LockCart(r) \/ LoadLines(r) \/ Decrement(r) \/ Quote(r)
             \/ InsertOrder(r) \/ Redeem(r) \/ InsertKey(r)
             \/ DeadlockVictim(r) \/ Abort(r)
      PROVE  answer'[r].code # "OK"
  <2>1. CASE UNCHANGED answer /\ pc[r] \notin {"unwind", "reply", "done"}
    BY <1>0, <2>1 DEF Progress, NoAnswer, Refusal
  <2>2. CASE \E code \in Codes \ {"OK"} : answer' = [answer EXCEPT ![r] = Refusal(code)]
    BY <1>0, <2>2 DEF Refusal, TypeOK
  <2> QED BY <1>7, <2>1, <2>2
          DEF LockCart, LoadLines, Decrement, Quote, InsertOrder, Redeem,
              InsertKey, DeadlockVictim, Abort, Refuse, Answer, Codes
<1>8. ASSUME NEW r \in Buyers, Arrive(r) \/ Step(r) \/ Abort(r)
      PROVE  ReceiptsAgree'
  <2>1. Agrees(r)'
    BY <1>3, <1>4, <1>5, <1>6, <1>7, <1>8 DEF Step
  <2>2. \A s \in Buyers : s # r => Agrees(s)'
    BY <1>1, <1>8, OthersKept
  <2> QED BY <2>1, <2>2 DEF ReceiptsAgree
<1>9. CASE UNCHANGED vars
    BY <1>0, <1>9 DEF ReceiptsAgree, vars, store, tables, checkoutVars, steps
<1> QED BY <1>8, <1>9 DEF Next

----------------------------------------------------------------------------
(* Reserved. *)

\* What a request relies on survives the steps of the others: they change
\* tables only by committing, and commit only to rows they hold themselves.
LEMMA ReservedByOthers ==
    ASSUME IInv, NEW r \in Buyers, Arrive(r) \/ Step(r) \/ Abort(r),
           NEW s \in Buyers, s # r
    PROVE  ReservedBy(s)'
<1> DEFINE ask == request[s]
<1>0. TypeOK /\ ReservedBy(s)
    BY DEF IInv, Reserved
<1>1. /\ pc'[s] = pc[s] /\ request'[s] = request[s]
      /\ lines'[s] = lines[s] /\ pending'[s] = pending[s]
      /\ draft'[s] = draft[s]
      /\ \A row \in Rows : holder[row] = s => holder'[row] = s
    BY OthersKept
<1>2. NewOrder(s)' = NewOrder(s)
    BY <1>1 DEF NewOrder, OrderFor
<1> SUFFICES ASSUME pc[s] \notin {"idle", "lock", "unwind", "reply", "done"}
             PROVE  ReservedBy(s)'
    BY <1>0, <1>1 DEF ReservedBy, TypeOK, Places
<1>3. /\ ask.cart \in Carts /\ ask.cart \in Rows
      /\ ask.key \in Keys /\ ask.key \in Rows
      /\ ask.coupon # None => ask.coupon \in Coupons /\ ask.coupon \in Rows
    BY AskType
<1>4. /\ cartItems' = cartItems
      /\ holder[ask.cart] = s => cartStatus'[ask.cart] = cartStatus[ask.cart]
      /\ \A p \in Products : holder[p] = s => inventory'[p] = inventory[p]
      /\ ask.coupon # None /\ holder[ask.coupon] = s =>
            couponStatus'[ask.coupon] = couponStatus[ask.coupon]
      /\ holder[ask.key] = s => keyRecords'[ask.key] = keyRecords[ask.key]
  <2>1. CASE ~ Commit(r)
    BY <2>1, TablesKept DEF tables
  <2>2. CASE Commit(r)
    <3>1. /\ holder[request[r].cart] = r /\ holder[request[r].key] = r
          /\ request[r].coupon # None => holder[request[r].coupon] = r
          /\ \A p \in Products : lines[r][p] > 0 => holder[p] = r
      BY <2>2 DEF Commit, PublishSale, IInv, Reserved, ReservedBy, OnLines
    <3>2. \A p \in Products :
            lines[r][p] \in Nat /\ inventory[p] \in Nat /\ lines[r] \in Lines
      BY <1>0 DEF TypeOK, StoreTypeOK, Lines
    <3>3. ASSUME NEW p \in Products, holder[p] = s
          PROVE  inventory'[p] = inventory[p]
      BY <2>2, <3>1, <3>2, <3>3 DEF Commit, PublishSale
    <3>4. /\ holder[ask.cart] = s => cartStatus'[ask.cart] = cartStatus[ask.cart]
          /\ holder[ask.key] = s => keyRecords'[ask.key] = keyRecords[ask.key]
      BY <1>0, <1>3, <2>2, <3>1 DEF Commit, PublishSale, TypeOK, StoreTypeOK
    <3>5. ask.coupon # None /\ holder[ask.coupon] = s =>
            couponStatus'[ask.coupon] = couponStatus[ask.coupon]
      BY <1>3, <2>2, <3>1 DEF Commit, PublishSale
    <3> QED BY <2>2, <3>3, <3>4, <3>5 DEF Commit, PublishSale
  <2> QED BY <2>1, <2>2
<1>5. OnLines(lines[s])' = OnLines(lines[s]) /\ OnLines(lines[s]) \subseteq Products
    BY <1>1 DEF OnLines
<1>6. OnLines(lines[s]) \subseteq Rows
    BY <1>5 DEF Rows
<1> QED
    BY <1>0, <1>1, <1>2, <1>3, <1>4, <1>5, <1>6 DEF ReservedBy

LEMMA ReservedStep == IInv /\ [Next]_vars => Reserved'
<1> SUFFICES ASSUME IInv, [Next]_vars PROVE Reserved'
    OBVIOUS
<1>0. TypeOK /\ Progress
    BY DEF IInv
<1>1. ASSUME NEW r \in Buyers, Arrive(r) \/ Step(r) \/ Abort(r)
      PROVE  ReservedBy(r)'
  <2>0. ReservedBy(r)
    BY DEF IInv, Reserved
  <2>1. CASE pc'[r] \in {"idle", "lock", "unwind", "reply", "done"}
    BY <2>1 DEF ReservedBy
  <2> SUFFICES ASSUME pc'[r] \notin {"idle", "lock", "unwind", "reply", "done"}
               PROVE  ReservedBy(r)'
    BY <2>1
  <2>2. CASE LockCart(r)
    <3>1. request[r].cart \in Carts /\ request[r].cart \in Rows
      BY <2>2, AskType DEF LockCart
    <3>2. /\ Take(r, request[r].cart)
          /\ pc'[r] = IF cartStatus[request[r].cart] = "open"
                      THEN "load" ELSE "recheck"
          /\ cartStatus[request[r].cart] \in {"open", "checked_out"}
      BY <1>0, <2>2, <3>1
         DEF LockCart, Refuse, Answer, Goto, TypeOK, StoreTypeOK, CartStatus
    <3>3. holder'[request[r].cart] = r
      BY <1>0, <3>1, <3>2 DEF Take, TypeOK, StoreTypeOK
    <3>4. UNCHANGED <<tables, steps>>
      BY <2>2 DEF LockCart
    <3> QED BY <3>2, <3>3, <3>4 DEF ReservedBy, tables, steps
  <2>3. CASE LoadLines(r)
    <3> DEFINE found == cartItems[request[r].cart]
    <3>1. /\ lines' = [lines EXCEPT ![r] = found]
          /\ pending' = [pending EXCEPT ![r] = OnLines(found)]
          /\ pc' = [pc EXCEPT ![r] = "decrement"]
          /\ OnLines(found) # {}
          /\ UNCHANGED <<store, request, draft>>
      BY <1>0, <2>3 DEF LoadLines, Refuse, Answer, Goto, TypeOK
    <3>2. /\ lines'[r] = found /\ pending'[r] = OnLines(found)
          /\ pc'[r] = "decrement"
      BY <1>0, <3>1 DEF TypeOK
    <3>3. holder[request[r].cart] = r /\ cartStatus[request[r].cart] = "open"
      BY <2>0, <2>3 DEF LoadLines, ReservedBy
    <3> QED BY <3>1, <3>2, <3>3 DEF ReservedBy, store, tables, OnLines
  <2>4. CASE Decrement(r)
    <3>1. PICK p \in NextProduct(r) :
            /\ inventory[p] >= lines[r][p]
            /\ Take(r, p)
            /\ pending' = [pending EXCEPT ![r] = @ \ {p}]
            /\ UNCHANGED <<pc, answer>>
            /\ UNCHANGED <<tables, request, lines, scan, draft>>
      BY <1>0, <2>4 DEF Decrement, Refuse, Answer, Goto, TypeOK
    <3>2. p \in Rows /\ p \in Products
      BY <1>0, <3>1 DEF NextProduct, TypeOK, Rows
    <3>3. /\ holder'[p] = r
          /\ \A row \in Rows : holder[row] = r => holder'[row] = r
      BY <1>0, <3>1, <3>2 DEF Take, TypeOK, StoreTypeOK
    <3>4. pending'[r] = pending[r] \ {p} /\ pc'[r] = "decrement"
      BY <1>0, <2>4, <3>1 DEF TypeOK, Decrement
    <3>5. request[r].cart \in Rows
      BY <2>4, AskType DEF Decrement
    <3>6. \A q \in Products : lines[r][q] \in Nat /\ inventory[q] \in Nat
      BY <1>0 DEF TypeOK, StoreTypeOK, Lines
    <3>7. /\ holder[request[r].cart] = r /\ cartStatus[request[r].cart] = "open"
          /\ lines[r] = cartItems[request[r].cart] /\ OnLines(lines[r]) # {}
          /\ \A q \in OnLines(lines[r]) \ pending[r] :
                holder[q] = r /\ lines[r][q] <= inventory[q]
      BY <2>0, <2>4 DEF Decrement, ReservedBy
    <3>8. \A q \in OnLines(lines[r]) \ pending'[r] :
            holder'[q] = r /\ lines[r][q] <= inventory[q]
      BY <3>1, <3>2, <3>3, <3>4, <3>6, <3>7 DEF OnLines, Rows
    <3> QED BY <3>1, <3>3, <3>4, <3>5, <3>7, <3>8 DEF ReservedBy, tables, OnLines
  <2>5. CASE Quote(r)
    <3>1. pc'[r] = "order" /\ pending[r] = {} /\ UNCHANGED <<store, steps>>
      BY <1>0, <2>5 DEF Quote, Refuse, Answer, Goto, TypeOK
    <3>2. pc[r] = "decrement"
      BY <2>5 DEF Quote
    <3> QED BY <2>0, <3>1, <3>2 DEF ReservedBy, store, tables, steps, OnLines
  <2>6. CASE InsertOrder(r)
    <3>1. /\ Insertable(r)
          /\ draft' = [draft EXCEPT ![r] = NewOrder(r)]
          /\ pc' = [pc EXCEPT ![r] = IF request[r].coupon = None THEN "key"
                                    ELSE "redeem"]
          /\ UNCHANGED <<store, request, lines, scan, pending>>
      BY <1>0, <2>6 DEF InsertOrder, Refuse, Answer, Goto, TypeOK
    <3>2. /\ draft'[r] = NewOrder(r) /\ NewOrder(r) \in Orders
          /\ pc'[r] = IF request[r].coupon = None THEN "key" ELSE "redeem"
      BY <1>0, <3>1 DEF TypeOK, Insertable, RowAccepted
    <3>3. NewOrder(r)' = NewOrder(r)
      BY <3>1 DEF NewOrder, OrderFor
    <3>4. pc[r] = "order"
      BY <2>6 DEF InsertOrder
    <3> QED BY <2>0, <3>1, <3>2, <3>3, <3>4 DEF ReservedBy, store, tables, OnLines
  <2>7. CASE Redeem(r)
    <3>1. /\ couponStatus[request[r].coupon] = "available"
          /\ Take(r, request[r].coupon)
          /\ pc'[r] = "key"
          /\ UNCHANGED <<tables, steps>>
      BY <1>0, <2>7 DEF Redeem, Refuse, Answer, Goto, TypeOK
    <3>2. /\ pc[r] = "redeem" /\ request[r].coupon \in Rows
          /\ request[r].cart \in Rows
      BY <2>0, <2>7, AskType DEF Redeem, ReservedBy
    <3>3. /\ holder'[request[r].coupon] = r
          /\ \A row \in Rows : holder[row] = r => holder'[row] = r
      BY <1>0, <3>1, <3>2 DEF Take, TypeOK, StoreTypeOK
    <3>4. NewOrder(r)' = NewOrder(r)
      BY <3>1 DEF NewOrder, OrderFor, steps
    <3>5. OnLines(lines[r]) \subseteq Rows
      BY DEF OnLines, Rows
    <3> QED BY <2>0, <3>1, <3>2, <3>3, <3>4, <3>5
            DEF ReservedBy, tables, steps, OnLines
  <2>8. CASE InsertKey(r)
    <3>1. /\ keyRecords[request[r].key] = None
          /\ Take(r, request[r].key)
          /\ pc'[r] = "commit"
          /\ UNCHANGED <<tables, steps>>
      BY <1>0, <2>8 DEF InsertKey, Refuse, Answer, Goto, TypeOK
    <3>2. /\ pc[r] = "key" /\ request[r].key \in Rows
          /\ request[r].cart \in Rows
          /\ request[r].coupon # None => request[r].coupon \in Rows
      BY <2>8, AskType DEF InsertKey
    <3>3. /\ holder'[request[r].key] = r
          /\ \A row \in Rows : holder[row] = r => holder'[row] = r
      BY <1>0, <3>1, <3>2 DEF Take, TypeOK, StoreTypeOK
    <3>4. NewOrder(r)' = NewOrder(r)
      BY <3>1 DEF NewOrder, OrderFor, steps
    <3>5. OnLines(lines[r]) \subseteq Rows
      BY DEF OnLines, Rows
    <3> QED BY <2>0, <3>1, <3>2, <3>3, <3>4, <3>5
            DEF ReservedBy, tables, steps, OnLines
  <2>9. CASE \/ Arrive(r) \/ Recheck(r) \/ Commit(r) \/ Reply(r)
             \/ DeadlockVictim(r) \/ Abort(r)
    BY <1>0, <2>9 DEF Arrive, Recheck, Commit, PublishSale, Reply,
       DeadlockVictim, Abort,
                      StoredReplay, Refuse, Answer, Goto, TypeOK
  <2> QED BY <1>1, <2>2, <2>3, <2>4, <2>5, <2>6, <2>7, <2>8, <2>9 DEF Step
<1>2. CASE UNCHANGED vars
  <2>1. ASSUME NEW s \in Buyers PROVE ReservedBy(s)'
    <3>1. ReservedBy(s) /\ NewOrder(s)' = NewOrder(s)
      BY <1>2 DEF IInv, Reserved, NewOrder, OrderFor, vars, checkoutVars, steps
    <3> QED BY <1>2, <3>1
            DEF ReservedBy, OnLines, vars, store, tables, checkoutVars, steps
  <2> QED BY <2>1 DEF Reserved
<1> QED BY <1>1, <1>2, ReservedByOthers DEF Next, Reserved

----------------------------------------------------------------------------
(* The invariant, and the properties it implies. *)

LEMMA StepIInv == IInv /\ [Next]_vars => IInv'
    BY TypeOKStep, ProgressStep, ReservedStep, SoldTogetherStep,
       ReceiptsAgreeStep DEF IInv

THEOREM Invariance == Spec => []IInv
    BY InitIInv, StepIInv, PTL DEF Spec

\* Every variable keeps its type: no total leaves its column, and no product's
\* inventory goes below zero.
THEOREM TypeCorrect == Spec => []TypeOK
    BY Invariance, PTL DEF IInv

\* What a running checkout has read or locked holds until it ends.
THEOREM ReservationsHold == Spec => []Reserved
    BY Invariance, PTL DEF IInv

\* Cart, order, coupon and idempotency record agree after every step.
THEOREM SalesAreWhole == Spec => []SoldTogether
    BY Invariance, PTL DEF IInv

\* A 201 shows the order recorded under the request's own key and cart.
THEOREM ReceiptsAreTrue == Spec => []ReceiptsAgree
    BY Invariance, PTL DEF IInv

----------------------------------------------------------------------------
(* Checkout implements Ledger. *)

LEMMA InitRefines == Init => L!Init
<1> SUFFICES ASSUME Init PROVE L!Init
    OBVIOUS
<1>1. /\ inventory \in [Products -> Nat]
      /\ cartItems \in [Carts -> [Products -> Nat]]
    BY CatalogueTypes, BasketTypes DEF Init, StoreInit, EmptyLines, Lines
<1>2. Asked = [r \in Requests |-> None] /\ Told = [r \in Requests |-> None]
    BY DEF Init, CheckoutInit, Asked, Told
<1> QED BY <1>1, <1>2 DEF L!Init, Init, StoreInit

\* Requests are asked as they arrive, and told as they are answered.
LEMMA AskedKept ==
    ASSUME IInv, NEW r \in Buyers, Step(r) \/ Abort(r)
    PROVE  Asked' = Asked
    BY DEF Step, LockCart, Recheck, LoadLines, Decrement, Quote, InsertOrder,
       Redeem, InsertKey, Commit, PublishSale, Reply, DeadlockVictim, Abort,
       steps, Asked

LEMMA ToldKept ==
    ASSUME IInv, NEW r \in Buyers, Arrive(r) \/ Step(r) \/ Abort(r),
           pc[r] # "done", ~ (pc'[r] = "done" /\ answer'[r].code = "OK")
    PROVE  Told' = Told
    BY OthersKept DEF Told

LEMMA StepRefines == IInv /\ [Next]_vars => [L!Next]_L!vars
<1> SUFFICES ASSUME IInv, [Next]_vars PROVE [L!Next]_L!vars
    OBVIOUS
<1>0. TypeOK /\ Progress /\ Reserved /\ SoldTogether /\ ReceiptsAgree
    BY DEF IInv
<1>1. ASSUME NEW r \in Buyers, Arrive(r) PROVE L!Ask(r)
  <2>1. PICK ask \in Asks : request' = [request EXCEPT ![r] = ask]
    BY <1>1 DEF Arrive
  <2>2. pc[r] = "idle" /\ r \in Requests /\ Asked[r] = None
    BY <1>0, <1>1, BuyersAreRequests DEF Arrive, Progress, Asked
  <2>3. Asked' = [Asked EXCEPT ![r] = ask]
    BY <1>0, <2>1, <2>2 DEF Asked, TypeOK
  <2>4. pc'[r] # "done"
    BY <1>0, <1>1 DEF Arrive, StoredReplay, Refuse, Answer, Goto, TypeOK
  <2>5. Told' = Told
    BY <1>1, <2>2, <2>4, ToldKept
  <2>6. ask \in L!Asks
    BY <2>1 DEF Asks, L!Asks
  <2> QED BY <1>1, <2>2, <2>3, <2>5, <2>6 DEF L!Ask, Arrive, store, tables
<1>2. ASSUME NEW r \in Buyers, Commit(r) PROVE L!Sell(r)
  <2> DEFINE ask == request[r]
             basket == cartItems[ask.cart]
  <2>1. /\ ask \in Asks /\ ask.cart \in Carts /\ ask.key \in Keys /\ r \in Requests
        /\ ask.coupon \in Coupons \cup {None} /\ pc[r] = "commit"
    BY <1>2, AskType, BuyersAreRequests DEF Commit, PublishSale
  <2>2. Asked[r] = ask /\ Asked[r] # None
    BY <2>1, NoneIsNoAsk DEF Asked
  <2>3. orders[r] = None
    BY <1>0, <2>1 DEF Progress, Made
  <2>4. /\ cartStatus[ask.cart] = "open" /\ keyRecords[ask.key] = None
        /\ ask.coupon # None => couponStatus[ask.coupon] = "available"
        /\ lines[r] = basket /\ OnLines(basket) # {} /\ pending[r] = {}
        /\ \A p \in OnLines(basket) : basket[p] <= inventory[p]
    BY <1>0, <2>1 DEF Reserved, ReservedBy
  <2>5. ~ L!Sold(ask.cart)
    BY <1>0, <2>1, <2>4 DEF L!Sold, SoldTogether, Made
  <2>6. ask.coupon # None => redeemedBy[ask.coupon] = None
    BY <1>0, <2>1, <2>4 DEF SoldTogether
  <2>7. /\ \A p \in Products : basket[p] <= inventory[p]
        /\ \E p \in Products : basket[p] > 0
    <3>1. \A p \in Products : basket[p] \in Nat /\ inventory[p] \in Nat
      BY <1>0, <2>1 DEF TypeOK, StoreTypeOK, Lines
    <3> QED BY <2>4, <3>1 DEF OnLines
  <2>8. /\ draft[r] # None /\ draft[r].cart = ask.cart
        /\ draft[r].lines = basket /\ draft[r].coupon = ask.coupon
    <3>1. draft[r] = NewOrder(r) /\ draft[r] \in Orders
      BY <1>0, <2>1 DEF Reserved, ReservedBy
    <3>2. /\ NewOrder(r).cart = ask.cart /\ NewOrder(r).lines = lines[r]
          /\ NewOrder(r).coupon = ask.coupon
      BY DEF NewOrder, OrderFor
    <3> QED BY <2>4, <3>1, <3>2, NoneIsNoRow
  <2>9. orders'[r] = draft[r] /\ \A s \in Requests \ {r} : orders'[s] = orders[s]
    BY <1>0, <1>2, <2>1 DEF Commit, PublishSale, TypeOK, StoreTypeOK
  <2>10. Asked' = Asked
    BY <1>2, AskedKept DEF Step
  <2>11. Told' = Told
    <3>1. pc'[r] = "reply"
      BY <1>0, <1>2 DEF Commit, PublishSale, Goto, TypeOK
    <3> QED BY <1>2, <2>1, <3>1, ToldKept DEF Step
  <2> QED
    BY <1>2, <2>1, <2>2, <2>3, <2>4, <2>5, <2>6, <2>7, <2>8, <2>9, <2>10, <2>11
       DEF L!Sell, Commit, PublishSale
<1>3. ASSUME NEW r \in Buyers, Reply(r), answer[r].code = "OK" PROVE L!Tell(r)
  <2>1. /\ pc[r] \notin {"idle", "done"} /\ pc'[r] = "done"
        /\ answer' = answer /\ UNCHANGED tables /\ r \in Requests
    BY <1>0, <1>3, BuyersAreRequests DEF Reply, Goto, TypeOK
  <2>2. request[r] \in Asks /\ Asked[r] = request[r] /\ Asked[r] # None
    BY <2>1, AskType, NoneIsNoAsk DEF Asked
  <2>3. /\ keyRecords[request[r].key] # None
        /\ keyRecords[request[r].key].cart = request[r].cart
        /\ keyRecords[request[r].key].order = answer[r].order
    BY <1>0, <1>3 DEF ReceiptsAgree
  <2>4. Told[r] = None
    BY <2>1 DEF Told
  <2>5. Told' = [Told EXCEPT ![r] = answer[r].order]
    <3>1. \A s \in Buyers : s # r => pc'[s] = pc[s] /\ answer'[s] = answer[s]
      BY <1>3, OthersKept DEF Step
    <3> QED BY <1>3, <2>1, <3>1 DEF Told
  <2>6. Asked' = Asked
    BY <1>3, AskedKept DEF Step
  <2> QED BY <2>1, <2>2, <2>3, <2>4, <2>5, <2>6 DEF L!Tell, tables
<1>4. ASSUME NEW r \in Buyers, Step(r) \/ Abort(r), ~ Commit(r),
             ~ (Reply(r) /\ answer[r].code = "OK")
      PROVE  UNCHANGED L!vars
  <2>1. pc[r] # "done"
    BY <1>4, AnsweredSteps DEF Reply, Abort
  <2>2. ~ (pc'[r] = "done" /\ answer'[r].code = "OK")
    BY <1>0, <1>4 DEF TypeOK, Step, LockCart, Recheck, LoadLines, Decrement,
       Quote, InsertOrder, Redeem, InsertKey, Reply, DeadlockVictim, Abort,
       StoredReplay, Refuse, Answer, Goto, Refusal
  <2>3. Told' = Told /\ Asked' = Asked
    BY <1>4, <2>1, <2>2, ToldKept, AskedKept
  <2> QED BY <1>4, <2>3, TablesKept DEF L!vars, tables
<1>5. CASE UNCHANGED vars
    BY <1>5 DEF L!vars, Asked, Told, vars, store, tables, checkoutVars, steps
<1> QED BY <1>1, <1>2, <1>3, <1>4, <1>5, BuyersAreRequests DEF Next, Step, L!Next

\* Every run of Checkout is a run of Ledger: atomic sales, true receipts.
THEOREM Refinement == Spec => ImplementsLedger
    BY Invariance, InitRefines, StepRefines, PTL DEF Spec, L!Spec, ImplementsLedger
============================================================================
