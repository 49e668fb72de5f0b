----------------------------- MODULE LockProofs ----------------------------
(***************************************************************************)
(* More theorems about Checkout: the order in which its transactions take  *)
(* their locks, what follows for circles of waits, and that a refusal      *)
(* tells the truth.                                                        *)
(***************************************************************************)
EXTENDS CheckoutProofs, WellFoundedInduction

(* The locks a request holds, by how far it is. *)

\* Cart, products by name, coupon, key: whoever has come to one of these has
\* none of those that come after it.
LocksOf(s) ==
    /\ pc[s] \in {"idle", "lock", "reply", "done"} =>
          \A row \in Rows : holder[row] # s
    /\ pc[s] \in {"recheck", "load"} => \A p \in Products : holder[p] # s
    /\ pc[s] = "decrement" =>
          /\ scan[s] \in ScanOrders
          /\ \A p \in Products, q \in pending[s] :
                holder[p] = s => p # q /\ Name[p] <= Name[q]
    /\ \A u \in Coupons : holder[u] = s => pc[s] \in {"key", "commit", "unwind"}
    /\ \A k \in Keys : holder[k] = s => pc[s] \in {"commit", "unwind"}

\* What a request has seen of its coupon, and when it has an order.
QuotedBy(s) ==
    /\ pc[s] \in {"idle", "lock", "recheck", "load", "decrement", "order"} =>
          draft[s] = None
    /\ pc[s] \in {"order", "redeem"} /\ request[s].coupon # None =>
          couponStatus[request[s].coupon] # "absent"

LockInv == IInv /\ \A s \in Buyers : LocksOf(s) /\ QuotedBy(s)

----------------------------------------------------------------------------

LEMMA LockInitInv == Init => LockInv
<1> SUFFICES ASSUME Init PROVE LockInv
    OBVIOUS
<1>1. \A row \in Rows : \A s \in Buyers : holder[row] # s
    BY RowsDistinct, BuyersAreRequests DEF Init, StoreInit
<1>2. ASSUME NEW s \in Buyers PROVE LocksOf(s) /\ QuotedBy(s)
    BY <1>1 DEF Init, CheckoutInit, LocksOf, QuotedBy, Rows
<1> QED BY <1>2, InitIInv DEF LockInv

\* A step gives no lock to another request, and leaves its scan alone.
LEMMA NothingGiven ==
    ASSUME IInv, NEW r \in Buyers, Arrive(r) \/ Step(r) \/ Abort(r),
           NEW s \in Buyers, s # r
    PROVE  /\ scan'[s] = scan[s]
           /\ \A row \in Rows : holder'[row] = s => holder[row] = s
<1>1. TypeOK
    BY DEF IInv
<1>2. s # None
    BY RowsDistinct, BuyersAreRequests
<1>3. \A row \in Rows : holder'[row] = s => holder[row] = s
  <2>1. CASE UNCHANGED holder
    BY <2>1
  <2>2. CASE ReleaseAll(r)
    BY <1>2, <2>2 DEF ReleaseAll
  <2>3. CASE \E wanted \in Rows : Free(r, wanted) /\ Take(r, wanted)
    BY <1>1, <2>3 DEF Take, TypeOK, StoreTypeOK
  <2> QED BY <2>1, <2>2, <2>3, LockSteps
<1>4. scan'[s] = scan[s]
    BY <1>1 DEF TypeOK, Step, Arrive, LockCart, Recheck, LoadLines, Decrement,
       Quote, InsertOrder, Redeem, InsertKey, Commit, PublishSale, Reply,
       DeadlockVictim, Abort, steps
<1> QED BY <1>3, <1>4

\* A transaction that ends keeps no lock.
LEMMA AllReleased ==
    ASSUME TypeOK, NEW r \in Buyers, ReleaseAll(r)
    PROVE  \A row \in Rows : holder'[row] # r
<1>1. r # None
    BY RowsDistinct, BuyersAreRequests
<1> QED BY <1>1 DEF ReleaseAll

\* The locks of a request that takes a row are those it had and that row.
LEMMA OneTaken ==
    ASSUME TypeOK, NEW r \in Buyers, NEW wanted \in Rows, Take(r, wanted)
    PROVE  \A row \in Rows : holder'[row] = r => holder[row] = r \/ row = wanted
    BY DEF Take, TypeOK, StoreTypeOK

\* The product that comes next is by name not behind any that is to come.
LEMMA NextByName ==
    ASSUME TypeOK, NEW r \in Buyers, scan[r] \in ScanOrders,
           NEW p \in NextProduct(r), NEW q \in pending[r]
    PROVE  Name[p] <= Name[q]
<1>1. p \in Products /\ q \in Products
    BY DEF NextProduct, TypeOK
<1>2. scan[r][p] <= scan[r][q]
    BY DEF NextProduct
<1>3. scan[r][p] \in Nat /\ scan[r][q] \in Nat
    BY <1>1 DEF TypeOK
<1>4. Name[q] < Name[p] => scan[r][q] < scan[r][p]
    BY <1>1 DEF ScanOrders
<1>5. Name[p] \in Nat /\ Name[q] \in Nat
    BY <1>1, CatalogueTypes
<1> QED BY <1>2, <1>3, <1>4, <1>5

LEMMA LocksOfStep ==
    ASSUME LockInv, NEW r \in Buyers, Arrive(r) \/ Step(r) \/ Abort(r)
    PROVE  LocksOf(r)'
<1>0. TypeOK /\ Progress /\ Reserved /\ LocksOf(r)
    BY DEF LockInv, IInv
<1>r. /\ Products \subseteq Rows /\ Coupons \subseteq Rows /\ Keys \subseteq Rows
      /\ Products \cap Coupons = {} /\ Products \cap Keys = {}
      /\ Coupons \cap Keys = {}
      /\ \A c \in Carts : c \notin Products /\ c \notin Coupons /\ c \notin Keys
    BY RowsDistinct DEF Rows
<1>1. CASE pc'[r] = "unwind"
    BY <1>1 DEF LocksOf
<1>2. CASE Commit(r) \/ Reply(r) \/ Abort(r)
  <2>1. \A row \in Rows : holder'[row] # r
    BY <1>0, <1>2, AllReleased DEF Commit, Reply, Abort
  <2>2. pc'[r] \in {"reply", "done"}
    BY <1>0, <1>2 DEF Commit, Reply, Abort, Goto, TypeOK
  <2> QED BY <1>r, <2>1, <2>2 DEF LocksOf
<1> SUFFICES ASSUME pc'[r] # "unwind", ~ (Commit(r) \/ Reply(r) \/ Abort(r))
             PROVE  LocksOf(r)'
    BY <1>1, <1>2
<1>3. CASE Arrive(r)
  <2>1. pc[r] = "idle" /\ pc'[r] = "lock" /\ UNCHANGED holder
    BY <1>0, <1>3 DEF Arrive, StoredReplay, Refuse, Answer, Goto, TypeOK, store
  <2> QED BY <1>0, <1>r, <2>1 DEF LocksOf
<1>4. CASE LockCart(r)
  <2>1. /\ pc[r] = "lock" /\ pc'[r] \in {"load", "recheck"}
        /\ Take(r, request[r].cart)
    BY <1>0, <1>4 DEF LockCart, Refuse, Answer, Goto, TypeOK
  <2>2. request[r].cart \in Rows /\ request[r].cart \in Carts
    BY <2>1, AskType DEF LockInv
  <2>3. \A row \in Rows : holder'[row] = r => row = request[r].cart
    BY <1>0, <2>1, <2>2, OneTaken DEF LocksOf
  <2> QED BY <1>r, <2>1, <2>2, <2>3 DEF LocksOf
<1>5. CASE LoadLines(r)
  <2>1. PICK f \in ScanOrders :
          /\ pc[r] = "load" /\ pc'[r] = "decrement"
          /\ scan' = [scan EXCEPT ![r] = f] /\ UNCHANGED holder
    BY <1>0, <1>5 DEF LoadLines, Refuse, Answer, Goto, TypeOK, store
  <2>2. scan'[r] \in ScanOrders
    BY <1>0, <2>1 DEF TypeOK
  <2> QED BY <1>0, <1>r, <2>1, <2>2 DEF LocksOf, ScanOrders
<1>6. CASE Decrement(r)
  <2>1. PICK p \in NextProduct(r) :
          /\ Take(r, p) /\ pending' = [pending EXCEPT ![r] = @ \ {p}]
          /\ UNCHANGED pc
    BY <1>0, <1>6 DEF Decrement, Refuse, Answer, Goto, TypeOK
  <2>2. /\ p \in Products /\ p \in pending[r] /\ p \in Rows
        /\ pending[r] \subseteq Products
        /\ pending'[r] = pending[r] \ {p}
    BY <1>0, <1>r, <2>1 DEF NextProduct, TypeOK
  <2>3. /\ pc[r] = "decrement" /\ pc'[r] = "decrement"
        /\ scan' = scan /\ scan[r] \in ScanOrders
    BY <1>0, <1>6, <2>1 DEF Decrement, LocksOf
  <2>4. \A row \in Rows : holder'[row] = r => holder[row] = r \/ row = p
    BY <1>0, <2>1, <2>2, OneTaken
  <2>5. ASSUME NEW o \in Products, NEW q \in pending'[r], holder'[o] = r
        PROVE  o # q /\ Name[o] <= Name[q]
    <3>1. CASE o = p
      BY <1>0, <2>1, <2>2, <2>3, <3>1, NextByName
    <3>2. CASE holder[o] = r
      BY <1>0, <2>2, <2>3, <3>2 DEF LocksOf
    <3> QED BY <1>r, <2>4, <2>5, <3>1, <3>2
  <2>6. /\ \A u \in Coupons : holder'[u] # r
        /\ \A k \in Keys : holder'[k] # r
    BY <1>0, <1>r, <2>2, <2>3, <2>4 DEF LocksOf
  <2>7. scan'[r] \in ScanOrders'
    BY <2>3 DEF ScanOrders
  <2> QED BY <2>3, <2>5, <2>6, <2>7 DEF LocksOf
<1>7. CASE Quote(r) \/ InsertOrder(r)
  <2>1. /\ pc[r] \in {"decrement", "order"}
        /\ pc'[r] \in {"order", "redeem", "key"}
        /\ UNCHANGED holder
    BY <1>0, <1>7 DEF Quote, InsertOrder, Refuse, Answer, Goto, TypeOK, store
  <2> QED BY <1>0, <2>1 DEF LocksOf
<1>8. CASE Redeem(r)
  <2>1. /\ pc[r] = "redeem" /\ pc'[r] = "key" /\ Take(r, request[r].coupon)
    BY <1>0, <1>8 DEF Redeem, Refuse, Answer, Goto, TypeOK
  <2>2. request[r].coupon \in Coupons
    BY <1>0, <2>1, AskType DEF LockInv, Reserved, ReservedBy
  <2>3. \A row \in Rows : holder'[row] = r =>
            holder[row] = r \/ row = request[r].coupon
    BY <1>0, <1>r, <2>1, <2>2, OneTaken
  <2> QED BY <1>0, <1>r, <2>1, <2>2, <2>3 DEF LocksOf
<1>9. CASE InsertKey(r)
  <2>1. pc'[r] = "commit"
    BY <1>0, <1>9 DEF InsertKey, Refuse, Answer, Goto, TypeOK
  <2> QED BY <2>1 DEF LocksOf
<1>10. CASE Recheck(r) \/ DeadlockVictim(r)
    BY <1>0, <1>10
       DEF Recheck, DeadlockVictim, StoredReplay, Refuse, Answer, Goto, TypeOK
<1> QED BY <1>3, <1>4, <1>5, <1>6, <1>7, <1>8, <1>9, <1>10 DEF Step

LEMMA QuotedByStep ==
    ASSUME LockInv, NEW r \in Buyers, Arrive(r) \/ Step(r) \/ Abort(r)
    PROVE  QuotedBy(r)'
<1>0. TypeOK /\ Progress /\ Reserved /\ QuotedBy(r)
    BY DEF LockInv, IInv
<1>1. pc'[r] \in {"idle", "lock", "recheck", "load", "decrement", "order"} =>
          draft'[r] = None
    BY <1>0 DEF QuotedBy, TypeOK, Step, Arrive, LockCart, Recheck, LoadLines,
       Decrement, Quote, InsertOrder, Redeem, InsertKey, Commit, Reply,
       DeadlockVictim, Abort, StoredReplay, Refuse, Answer, Goto, steps
<1>2. ASSUME pc'[r] \in {"order", "redeem"}, request'[r].coupon # None
      PROVE  couponStatus'[request'[r].coupon] # "absent"
  <2>1. CASE Quote(r)
    BY <1>0, <1>2, <2>1
       DEF Quote, Refuse, Answer, Goto, TypeOK, store, tables, steps
  <2>2. CASE InsertOrder(r)
    BY <1>0, <1>2, <2>2
       DEF InsertOrder, QuotedBy, store, tables
  <2>3. CASE ~ Quote(r) /\ ~ InsertOrder(r)
    BY <1>0, <1>2, <2>3 DEF TypeOK, Step, Arrive, LockCart, Recheck,
       LoadLines, Decrement, Redeem, InsertKey, Commit, Reply, DeadlockVictim,
       Abort, StoredReplay, Refuse, Answer, Goto, store, tables, steps
  <2> QED BY <2>1, <2>2, <2>3
<1> QED BY <1>1, <1>2 DEF QuotedBy

----------------------------------------------------------------------------
(* What is so in the tables stays so. *)

LEMMA FactsStay ==
    ASSUME IInv, NEW r \in Buyers, Arrive(r) \/ Step(r) \/ Abort(r)
    PROVE  /\ \A p \in Products : inventory'[p] <= inventory[p]
           /\ \A c \in Carts : cartStatus[c] = "checked_out" =>
                  cartStatus'[c] = "checked_out"
           /\ \A u \in Coupons : couponStatus[u] # "absent" =>
                  couponStatus'[u] # "absent"
           /\ \A u \in Coupons : redeemedBy[u] # None => redeemedBy'[u] # None
           /\ \A k \in Keys : keyRecords[k] # None =>
                  keyRecords'[k] = keyRecords[k]
           /\ \A k \in Keys : keyRecords[k] = None /\ keyRecords'[k] # None =>
                  cartStatus[keyRecords'[k].cart] = "open"
<1>0. TypeOK /\ Reserved
    BY DEF IInv
<1>1. \A p \in Products : inventory[p] \in Nat /\ lines[r][p] \in Nat
    BY <1>0 DEF TypeOK, StoreTypeOK, Lines
<1>2. CASE ~ Commit(r)
  <2>1. UNCHANGED tables
    BY <1>2, TablesKept
  <2> QED BY <1>1, <2>1 DEF tables
<1>3. CASE Commit(r)
  <2> DEFINE ask == request[r]
  <2>1. /\ ask.cart \in Carts /\ ask.key \in Keys /\ r # None
        /\ pc[r] = "commit"
    BY <1>3, AskType, BuyersAreRequests, RowsDistinct DEF Commit
  <2>2. cartStatus[ask.cart] = "open" /\ keyRecords[ask.key] = None
    BY <1>0, <2>1 DEF Reserved, ReservedBy
  <2>3. PublishSale(r, ask, lines[r], draft[r])
    BY <1>3 DEF Commit
  <2>4. \A p \in Products : inventory'[p] <= inventory[p]
    BY <1>1, <2>3 DEF PublishSale
  <2>5. cartStatus'[ask.cart] = "checked_out" /\
        \A c \in Carts : c # ask.cart => cartStatus'[c] = cartStatus[c]
    BY <1>0, <2>1, <2>3 DEF PublishSale, TypeOK, StoreTypeOK
  <2>6. \A u \in Coupons :
          /\ couponStatus'[u] \in {"redeemed", couponStatus[u]}
          /\ redeemedBy'[u] \in {r, redeemedBy[u]}
    BY <2>3 DEF PublishSale
  <2>7. /\ keyRecords'[ask.key].cart = ask.cart
        /\ \A k \in Keys : k # ask.key => keyRecords'[k] = keyRecords[k]
    BY <1>0, <2>1, <2>3 DEF PublishSale, TypeOK, StoreTypeOK
  <2> QED BY <2>1, <2>2, <2>4, <2>5, <2>6, <2>7
<1> QED BY <1>2, <1>3

LEMMA LockStep == LockInv /\ [Next]_vars => LockInv'
<1> SUFFICES ASSUME LockInv, [Next]_vars PROVE LockInv'
    OBVIOUS
<1>1. IInv'
    BY StepIInv DEF LockInv
<1>2. ASSUME NEW r \in Buyers, Arrive(r) \/ Step(r) \/ Abort(r),
             NEW s \in Buyers
      PROVE  LocksOf(s)' /\ QuotedBy(s)'
  <2>1. CASE s = r
    BY <1>2, <2>1, LocksOfStep, QuotedByStep
  <2>2. CASE s # r
    <3>1. /\ pc'[s] = pc[s] /\ request'[s] = request[s]
          /\ pending'[s] = pending[s] /\ draft'[s] = draft[s]
          /\ scan'[s] = scan[s]
          /\ \A row \in Rows : holder'[row] = s => holder[row] = s
      BY <1>2, <2>2, OthersKept, NothingGiven DEF LockInv
    <3>2. Products \subseteq Rows /\ Coupons \subseteq Rows /\ Keys \subseteq Rows
      BY DEF Rows
    <3>3. LocksOf(s)'
      <4>1. LocksOf(s)
        BY DEF LockInv
      <4>2. ScanOrders' = ScanOrders
        BY DEF ScanOrders
      <4> HIDE DEF ScanOrders
      <4> QED BY <3>1, <3>2, <4>1, <4>2 DEF LocksOf
    <3>4. QuotedBy(s)'
      <4>1. QuotedBy(s)
        BY DEF LockInv
      <4>2. pc[s] \in {"order", "redeem"} => request[s].coupon \in Coupons \cup {None}
        BY AskType DEF LockInv
      <4> QED BY <1>2, <3>1, <4>1, <4>2, FactsStay DEF QuotedBy, LockInv
    <3> QED BY <3>3, <3>4
  <2> QED BY <2>1, <2>2
<1>3. ASSUME UNCHANGED vars PROVE LockInv'
    BY <1>1, <1>3 DEF LockInv, LocksOf, QuotedBy, ScanOrders, vars,
       store, tables, checkoutVars, steps
<1> QED BY <1>1, <1>2, <1>3 DEF Next, LockInv

LEMMA LockInvariance == Spec => []LockInv
    BY LockInitInv, LockStep, PTL DEF Spec

----------------------------------------------------------------------------
(* Circles of waits. *)

\* The holder of a row that a request in the circle waits for is itself in the
\* circle: it waits, and has come as far as that row.  So nobody in a circle
\* waits for a cart, a coupon or a key.
LEMMA OnlyStockWaits ==
    ASSUME LockInv, NEW S \in SUBSET Buyers, WaitCycle(S), NEW r \in S
    PROVE  pc[r] = "decrement"
<1>0. \A s \in S : s \in Buyers /\ LocksOf(s)
    BY DEF LockInv
<1>1. \A s \in S : Wanted(s) # {}
    BY DEF WaitCycle, WaitsFor
<1>2. \A s \in S : pc[s] \in {"lock", "decrement", "redeem", "key"}
    BY <1>1 DEF Wanted
<1>3. \A s \in S : pc[s] # "lock"
  <2>1. SUFFICES ASSUME NEW s \in S, pc[s] = "lock" PROVE FALSE
    OBVIOUS
  <2>2. PICK t \in S : WaitsFor(t, s)
    BY DEF WaitCycle
  <2>3. PICK row \in Wanted(t) : holder[row] = s
    BY <2>2 DEF WaitsFor
  <2>4. row \in Rows
    <3>1. t \in Buyers /\ pc[t] \in {"lock", "decrement", "redeem", "key"}
      BY <1>2
    <3>2. NextProduct(t) \subseteq Rows
      BY <3>1 DEF NextProduct, LockInv, IInv, TypeOK, Rows
    <3>3. pc[t] = "redeem" => request[t].coupon # None
      BY <3>1 DEF LockInv, IInv, Reserved, ReservedBy
    <3> QED BY <2>3, <3>1, <3>2, <3>3, AskType DEF Wanted, LockInv
  <2> QED BY <1>0, <2>1, <2>3, <2>4 DEF LocksOf
<1>4. \A s \in S : pc[s] # "key"
  <2>1. SUFFICES ASSUME NEW s \in S, pc[s] = "key" PROVE FALSE
    OBVIOUS
  <2>2. PICK t \in S : holder[request[s].key] = t
    BY <2>1 DEF WaitCycle, WaitsFor, Wanted
  <2>3. request[s].key \in Keys
    BY <1>0, <2>1, AskType DEF LockInv
  <2>4. pc[t] \in {"commit", "unwind"}
    BY <1>0, <2>2, <2>3 DEF LocksOf
  <2> QED BY <1>2, <2>4
<1>5. \A s \in S : pc[s] # "redeem"
  <2>1. SUFFICES ASSUME NEW s \in S, pc[s] = "redeem" PROVE FALSE
    OBVIOUS
  <2>2. PICK t \in S : holder[request[s].coupon] = t
    BY <2>1 DEF WaitCycle, WaitsFor, Wanted
  <2>3. request[s].coupon \in Coupons
    BY <1>0, <2>1, AskType DEF LockInv, IInv, Reserved, ReservedBy
  <2>4. pc[t] \in {"key", "commit", "unwind"}
    BY <1>0, <2>2, <2>3 DEF LocksOf
  <2> QED BY <1>2, <1>4, <2>4
<1> QED BY <1>2, <1>3, <1>4, <1>5

Below == {pair \in Nat \X Nat : pair[1] < pair[2]}

LEMMA NoEndlessDescent == IsWellFoundedOn(Below, Nat)
<1>1. Below = OpToRel(<, Nat)
    BY Zenon DEF Below, OpToRel
<1> QED BY <1>1, NatLessThanWellFounded, Zenon

LEMMA SmallestExists ==
    ASSUME NEW T, T \subseteq Nat, T # {}
    PROVE  \E m \in T : \A k \in T : m <= k
<1>1. PICK m \in T : \A k \in T : ~ (<<k, m>> \in Below)
    BY NoEndlessDescent, WFMin, Zenon
<1>2. ASSUME NEW k \in T PROVE m <= k
  <2>1. k \in Nat /\ m \in Nat
    OBVIOUS
  <2>2. <<k, m>> \notin Below
    BY <1>1
  <2> QED BY <2>1, <2>2 DEF Below
<1> QED BY <1>2

NamesDistinct == \A p, q \in Products : Name[p] = Name[q] => p = q

\* Whoever waits for a product has none with a later name.
LEMMA WaitsAscend ==
    ASSUME LockInv, NamesDistinct,
           NEW S \in SUBSET Buyers, WaitCycle(S), NEW r \in S, NEW s \in S,
           WaitsFor(r, s), NEW p \in NextProduct(r), NEW q \in NextProduct(s)
    PROVE  Name[p] < Name[q]
<1>1. r \in Buyers /\ s \in Buyers /\ TypeOK /\ LocksOf(s) /\ LocksOf(r)
    BY DEF LockInv, IInv
<1>2. pc[r] = "decrement" /\ pc[s] = "decrement"
    BY OnlyStockWaits
<1>3. PICK o \in NextProduct(r) : holder[o] = s
    BY <1>2 DEF WaitsFor, Wanted
<1>4. /\ o \in Products /\ p \in Products /\ q \in Products
      /\ o \in pending[r] /\ p \in pending[r] /\ q \in pending[s]
    BY <1>1 DEF NextProduct, TypeOK
<1>5. o = p
  <2>1. scan[r] \in ScanOrders
    BY <1>1, <1>2 DEF LocksOf
  <2>2. scan[r][o] <= scan[r][p] /\ scan[r][p] <= scan[r][o]
    BY <1>4 DEF NextProduct
  <2>3. scan[r][o] \in Nat /\ scan[r][p] \in Nat
    BY <1>1, <1>4 DEF TypeOK
  <2> QED BY <1>4, <2>1, <2>2, <2>3 DEF ScanOrders
<1>6. p # q /\ Name[p] <= Name[q]
    BY <1>1, <1>2, <1>3, <1>4, <1>5 DEF LocksOf
<1>7. Name[p] \in Nat /\ Name[q] \in Nat /\ Name[p] # Name[q]
    BY <1>4, <1>6, CatalogueTypes DEF NamesDistinct
<1> QED BY <1>6, <1>7

LEMMA NoCircle == ASSUME LockInv, NamesDistinct PROVE NoWaitCycle
<1> SUFFICES ASSUME NEW S \in SUBSET Buyers, WaitCycle(S) PROVE FALSE
    BY DEF NoWaitCycle
<1> DEFINE awaited == UNION {NextProduct(r) : r \in S}
           T == {Name[p] : p \in awaited}
<1>1. \A r \in S : NextProduct(r) # {} /\ NextProduct(r) \subseteq Products
  <2> TAKE r \in S
  <2>1. pc[r] = "decrement"
    BY OnlyStockWaits
  <2>2. Wanted(r) # {}
    BY DEF WaitCycle, WaitsFor
  <2> QED BY <2>1, <2>2 DEF Wanted, NextProduct, LockInv, IInv, TypeOK
<1>2. T \subseteq Nat /\ T # {}
  <2>1. awaited \subseteq Products /\ awaited # {}
    BY <1>1 DEF WaitCycle
  <2> QED BY <2>1, CatalogueTypes
<1>3. PICK m \in T : \A k \in T : m <= k
  <2> HIDE DEF T
  <2> QED BY <1>2, SmallestExists
<1>4. PICK s \in S : \E q \in NextProduct(s) : m = Name[q]
    BY <1>3
<1>5. PICK q \in NextProduct(s) : m = Name[q]
    BY <1>4
<1>6. PICK r \in S : WaitsFor(r, s)
    BY DEF WaitCycle
<1>7. PICK p \in NextProduct(r) : TRUE
    BY <1>1
<1>8. Name[p] < m
    BY <1>5, <1>6, WaitsAscend
<1>9. Name[p] \in T
    OBVIOUS
<1>10. m <= Name[p] /\ m \in Nat /\ Name[p] \in Nat
  <2> HIDE DEF T
  <2> QED BY <1>2, <1>3, <1>9
<1> QED BY <1>8, <1>10

\* Where no two products share a name, checkouts never wait for each other in
\* a circle, however many there are.
THEOREM NoDeadlock ==
    ASSUME NamesDistinct
    PROVE  Spec => []NoWaitCycle
    BY NoCircle, LockInvariance, PTL

----------------------------------------------------------------------------
(* Refusals. *)

\* What HonestRefusals says of one request, one code at a time.
Honest(r) ==
    LET ask == request[r]
        code == answer[r].code
        boundElsewhere ==
            keyRecords[ask.key] # None /\ keyRecords[ask.key].cart # ask.cart
    IN
    /\ code = "INSUFFICIENT_INVENTORY" =>
           \E p \in Products : lines[r][p] > inventory[p]
    /\ code = "COUPON_ALREADY_REDEEMED" => redeemedBy[ask.coupon] # None
    /\ code = "CART_ALREADY_CHECKED_OUT" =>
           /\ cartStatus[ask.cart] = "checked_out"
           /\ keyRecords[ask.key] = None \/ boundElsewhere
    /\ code = "IDEMPOTENCY_KEY_REUSED" => boundElsewhere
    /\ code = "INTERNAL_ERROR" /\ draft[r] # None =>
           ask.key \in LongKeys \/ boundElsewhere
    \* A coupon is refused only to a request that came with one.
    /\ code = "COUPON_ALREADY_REDEEMED" => ask.coupon # None

RefusalInv == LockInv /\ \A r \in Buyers : Honest(r)

LEMMA HonestAre == (\A r \in Buyers : Honest(r)) => HonestRefusals
    BY DEF HonestRefusals, Honest

\* A transaction that is failed to end a circle of waits has no order yet.
LEMMA VictimHasNoOrder ==
    ASSUME LockInv, NEW r \in Buyers, DeadlockVictim(r)
    PROVE  draft[r] = None
<1>1. PICK S \in SUBSET Buyers : r \in S /\ WaitCycle(S)
    BY DEF DeadlockVictim
<1>2. pc[r] = "decrement"
    BY <1>1, OnlyStockWaits
<1> QED BY <1>2 DEF LockInv, QuotedBy

\* The record that a key is found under is of another cart than one that is open.
LEMMA RecordedElsewhere ==
    ASSUME IInv, NEW k \in Keys, keyRecords[k] # None,
           NEW c \in Carts, cartStatus[c] = "open"
    PROVE  keyRecords[k].cart # c
<1>1. keyRecords[k].order \in Requests
    BY DEF IInv, TypeOK, StoreTypeOK, KeyRecords
<1>2. /\ Made(keyRecords[k].order)
      /\ orders[keyRecords[k].order].cart = keyRecords[k].cart
    BY DEF IInv, SoldTogether
<1> QED BY <1>1, <1>2 DEF IInv, SoldTogether

\* What one request has been told stays true as others go on, and as its own
\* transaction ends.
LEMMA HonestStays ==
    ASSUME RefusalInv, NEW r \in Buyers, Arrive(r) \/ Step(r) \/ Abort(r),
           NEW s \in Buyers, pc[s] # "idle",
           request'[s] = request[s], lines'[s] = lines[s],
           draft'[s] = draft[s], answer'[s] = answer[s]
    PROVE  Honest(s)'
<1> DEFINE ask == request[s]
<1>0. TypeOK /\ Honest(s)
    BY DEF RefusalInv, LockInv, IInv
<1>1. ask.cart \in Carts /\ ask.key \in Keys /\ ask.coupon \in Coupons \cup {None}
    BY AskType DEF RefusalInv, LockInv
<1>2. \A p \in Products : lines[s][p] > inventory[p] => lines[s][p] > inventory'[p]
  <2>1. \A p \in Products : /\ lines[s][p] \in Nat /\ inventory[p] \in Nat
                            /\ inventory'[p] \in Nat
    <3>1. TypeOK'
      BY StepIInv DEF RefusalInv, LockInv, IInv, Next
    <3> QED BY <1>0, <3>1 DEF TypeOK, StoreTypeOK, Lines
  <2>2. \A p \in Products : inventory'[p] <= inventory[p]
    BY FactsStay DEF RefusalInv, LockInv
  <2> QED BY <2>1, <2>2
<1>3. /\ keyRecords[ask.key] # None => keyRecords'[ask.key] = keyRecords[ask.key]
      /\ cartStatus[ask.cart] = "checked_out" =>
            /\ cartStatus'[ask.cart] = "checked_out"
            /\ keyRecords[ask.key] = None /\ keyRecords'[ask.key] # None =>
                  keyRecords'[ask.key].cart # ask.cart
      /\ ask.coupon # None /\ redeemedBy[ask.coupon] # None =>
            redeemedBy'[ask.coupon] # None
    BY <1>1, FactsStay DEF RefusalInv, LockInv
<1> QED BY <1>0, <1>2, <1>3 DEF Honest

\* What a request is told is true when it is told it.
LEMMA HonestStep ==
    ASSUME RefusalInv, NEW r \in Buyers, Arrive(r) \/ Step(r) \/ Abort(r)
    PROVE  Honest(r)'
<1> DEFINE ask == request[r]
           Said(codes) == answer'[r].code \in codes
           Unsaid == {"NONE", "OK", "NO_ANSWER", "NOT_FOUND", "EMPTY_CART",
                      "INVALID_COUPON"}
<1>0. TypeOK /\ Progress /\ Reserved /\ SoldTogether /\ QuotedBy(r) /\ IInv
    BY DEF RefusalInv, LockInv, IInv
<1>1. CASE Said(Unsaid)
    BY <1>1 DEF Honest
<1>2. CASE Reply(r)
    BY <1>0, <1>2, HonestStays DEF Reply, steps
<1> SUFFICES ASSUME ~ Said(Unsaid), ~ Reply(r) PROVE Honest(r)'
    BY <1>1, <1>2
<1>3. CASE Arrive(r)
  <2>1. PICK a \in Asks :
          /\ request' = [request EXCEPT ![r] = a]
          /\ StoredReplay(r, a.cart, a.key)
    <3>1. answer'[r] # NoAnswer
      BY DEF NoAnswer, Refusal
    <3>2. answer[r] = NoAnswer
      BY <1>0, <1>3 DEF Arrive, Progress
    <3> QED BY <1>3, <3>1, <3>2 DEF Arrive
  <2>2. /\ request'[r] = a
        /\ keyRecords[a.key] # None /\ keyRecords[a.key].cart # a.cart
        /\ answer'[r].code = "IDEMPOTENCY_KEY_REUSED"
    BY <1>0, <2>1 DEF TypeOK, StoredReplay, Refuse, Answer, Refusal, Receipt
  <2>3. keyRecords' = keyRecords
    BY <1>3 DEF Arrive, store, tables
  <2> QED BY <2>2, <2>3 DEF Honest
<1>4. CASE Recheck(r)
  <2>1. pc[r] = "recheck" /\ UNCHANGED <<tables, steps>>
    BY <1>4 DEF Recheck, store
  <2>2. cartStatus[ask.cart] = "checked_out" /\ draft[r] = None
    BY <1>0, <2>1 DEF Reserved, ReservedBy, QuotedBy
  <2>3. \/ /\ keyRecords[ask.key] # None /\ keyRecords[ask.key].cart # ask.cart
           /\ answer'[r].code = "IDEMPOTENCY_KEY_REUSED"
        \/ /\ keyRecords[ask.key] = None
           /\ answer'[r].code = "CART_ALREADY_CHECKED_OUT"
    BY <1>0, <1>4 DEF TypeOK, Recheck, StoredReplay, Refuse, Answer, Refusal,
       Receipt
  <2> QED BY <2>1, <2>2, <2>3 DEF Honest, tables, steps
<1>5. CASE Decrement(r)
  <2>1. /\ pc[r] = "decrement"
        /\ UNCHANGED <<inventory, lines>>
        /\ \E p \in NextProduct(r) : inventory[p] < lines[r][p]
        /\ answer'[r].code = "INSUFFICIENT_INVENTORY"
    BY <1>0, <1>5 DEF Decrement, Progress, NoAnswer, TypeOK, Refuse, Answer,
       Refusal, tables
  <2>2. \E p \in Products : lines'[r][p] > inventory'[p]
    <3>1. NextProduct(r) \subseteq Products
      BY <1>0 DEF NextProduct, TypeOK
    <3>2. \A p \in Products : lines[r][p] \in Nat /\ inventory[p] \in Nat
      BY <1>0 DEF TypeOK, StoreTypeOK, Lines
    <3> QED BY <2>1, <3>1, <3>2
  <2> QED BY <2>1, <2>2 DEF Honest
<1>6. CASE Quote(r) \/ Redeem(r)
  <2>1. /\ ask.coupon # None /\ couponStatus[ask.coupon] = "redeemed"
        /\ answer'[r].code = "COUPON_ALREADY_REDEEMED"
        /\ UNCHANGED <<tables, steps>>
    <3>1. CASE Quote(r)
      BY <1>0, <3>1 DEF Quote, Progress, NoAnswer, TypeOK, Refuse, Answer,
         Refusal, store, steps
    <3>2. CASE Redeem(r)
      <4>1. /\ ask.coupon \in Coupons /\ ask.coupon # None
            /\ couponStatus[ask.coupon] # "absent"
        BY <1>0, <3>2, AskType DEF Redeem, Reserved, ReservedBy, QuotedBy
      <4>2. couponStatus[ask.coupon] \in {"absent", "available", "redeemed"}
        BY <1>0, <4>1 DEF TypeOK, StoreTypeOK, CouponStatus
      <4>3. couponStatus[ask.coupon] # "available" /\ Said({"COUPON_ALREADY_REDEEMED"})
        BY <1>0, <3>2 DEF Redeem, Progress, NoAnswer, TypeOK, Refuse, Answer,
           Refusal
      <4> QED BY <3>2, <4>1, <4>2, <4>3 DEF Redeem
    <3> QED BY <1>6, <3>1, <3>2
  <2>2. ask.coupon \in Coupons
    BY <1>0, <1>6, <2>1, AskType DEF Quote, Redeem
  <2>3. redeemedBy[ask.coupon] # None
    BY <1>0, <2>1, <2>2 DEF SoldTogether
  <2> QED BY <2>1, <2>3 DEF Honest, tables, steps
<1>7. CASE InsertOrder(r) \/ DeadlockVictim(r)
  <2>1. /\ answer'[r].code = "INTERNAL_ERROR" /\ draft'[r] = None
    <3>1. CASE InsertOrder(r)
      BY <1>0, <3>1 DEF InsertOrder, QuotedBy, Progress, NoAnswer, TypeOK,
         Refuse, Answer, Refusal
    <3>2. CASE DeadlockVictim(r)
      BY <1>0, <3>2, VictimHasNoOrder DEF RefusalInv, DeadlockVictim, TypeOK,
         Refuse, Answer, Refusal, steps
    <3> QED BY <1>7, <3>1, <3>2
  <2> QED BY <2>1 DEF Honest
<1>8. CASE InsertKey(r)
  <2>1. /\ pc[r] = "key"
        /\ keyRecords[ask.key] # None \/ ask.key \in LongKeys
        /\ answer'[r].code = "INTERNAL_ERROR"
        /\ UNCHANGED <<tables, steps>>
    BY <1>0, <1>8 DEF InsertKey, Progress, NoAnswer, TypeOK, Refuse, Answer,
       Refusal
  <2>2. /\ cartStatus[ask.cart] = "open"
        /\ ask.cart \in Carts /\ ask.key \in Keys
    BY <1>0, <2>1, AskType DEF Reserved, ReservedBy
  <2>3. keyRecords[ask.key] # None => keyRecords[ask.key].cart # ask.cart
    BY <1>0, <2>2, RecordedElsewhere
  <2> QED BY <2>1, <2>3 DEF Honest, tables, steps
<1>9. CASE LockCart(r) \/ LoadLines(r) \/ Commit(r) \/ Abort(r)
    BY <1>0, <1>9 DEF LockCart, LoadLines, Commit, Abort, Progress, NoAnswer,
       TypeOK, Refuse, Answer, Refusal, Receipt
<1> QED BY <1>3, <1>4, <1>5, <1>6, <1>7, <1>8, <1>9 DEF Step

LEMMA RefusalStep == RefusalInv /\ [Next]_vars => RefusalInv'
<1> SUFFICES ASSUME RefusalInv, [Next]_vars PROVE RefusalInv'
    OBVIOUS
<1>1. LockInv'
    BY LockStep DEF RefusalInv
<1>2. ASSUME NEW r \in Buyers, Arrive(r) \/ Step(r) \/ Abort(r),
             NEW s \in Buyers
      PROVE  Honest(s)'
  <2>1. CASE s = r
    BY <1>2, <2>1, HonestStep
  <2>2. ASSUME s # r
        PROVE  /\ request'[s] = request[s] /\ lines'[s] = lines[s]
               /\ draft'[s] = draft[s] /\ answer'[s] = answer[s]
               /\ pc'[s] = pc[s]
    BY <1>2, <2>2, OthersKept DEF RefusalInv, LockInv
  <2>3. CASE s # r /\ pc[s] # "idle"
    BY <1>2, <2>2, <2>3, HonestStays
  <2>4. CASE s # r /\ pc[s] = "idle"
    BY <2>2, <2>4 DEF RefusalInv, LockInv, IInv, Progress, NoAnswer, Refusal,
       Honest
  <2> QED BY <2>1, <2>3, <2>4
<1>3. ASSUME UNCHANGED vars PROVE RefusalInv'
    BY <1>1, <1>3 DEF RefusalInv, Honest, vars, store, tables, checkoutVars,
       steps
<1> QED BY <1>1, <1>2, <1>3 DEF Next, RefusalInv

LEMMA RefusalInit == Init => RefusalInv
    BY LockInitInv DEF RefusalInv, Init, CheckoutInit, NoAnswer, Refusal, Honest

\* A refusal reports what is so in the committed tables and stays so, whatever
\* the transaction that decided it had read, waited for and rolled back.
THEOREM RefusalsAreTrue == Spec => []HonestRefusals
<1>1. RefusalInv => HonestRefusals
    BY HonestAre DEF RefusalInv
<1> QED BY <1>1, RefusalInit, RefusalStep, PTL DEF Spec
============================================================================
