------------------------------ MODULE ShopProofs ----------------------------
(***************************************************************************)
(* Theorems about Shop: checkouts and cart edits over the same rows, for   *)
(* any number of each.  What is proved of Checkout alone stays true while  *)
(* carts are edited, and edits are neither lost nor misplaced.             *)
(***************************************************************************)
EXTENDS Shop, StockProofs

\* What is proved of edits alone, for the editors of the shop.
P == INSTANCE CartsProofs

\* The assumptions of Carts hold of them: those of Store are the shop's own, and
\* EditorTypes has the others.
LEMMA AssumptionsOfCarts ==
    /\ Products \cap Carts = {}
    /\ (Products \cup Carts) \cap Coupons = {}
    /\ (Products \cup Carts \cup Coupons) \cap Keys = {}
    /\ None \notin P!Rows \cup Requests
    /\ Stock \in [Products -> Nat]
    /\ Price \in [Products -> Nat]
    /\ Name \in [Products -> Nat]
    /\ Int4Max \in Nat /\ Percent \in 1..100
    /\ Baskets \subseteq P!Lines
    /\ \A b \in Baskets : \A p \in Products : b[p] <= Stock[p]
    /\ None \notin P!Orders \cup P!KeyRecords
    /\ Editors \subseteq Requests
    /\ Quantities \subseteq Nat
    /\ None \notin P!Edits \cup P!ItemIds
    /\ Editors \cap (Carts \X Products) = {}
<1>1. /\ P!Rows = Rows /\ P!Lines = Lines /\ P!Orders = Orders
      /\ P!KeyRecords = KeyRecords
    BY Zenon DEF P!Rows, Rows, P!Lines, Lines, P!Orders, Orders, P!KeyRecords,
       KeyRecords
<1>2. P!Edits = E!Edits /\ P!ItemIds = E!ItemIds
    BY Zenon DEF P!Edits, E!Edits, P!ItemIds, E!ItemIds
<1> QED BY <1>1, <1>2, RowsDistinct, CatalogueTypes, LimitTypes, BasketTypes,
        NoneIsNoRow, EditorTypes

----------------------------------------------------------------------------
(* The lemmas of CartsProofs, in the terms of Shop. *)

LEMMA SameSteps ==
    ASSUME NEW e \in Editors, Edit(e)
    PROVE  P!EditBy(e) /\ UNCHANGED checkoutVars
<1> USE DEF E!Continue, P!Continue, E!Edits, P!Edits, E!ItemIds, P!ItemIds,
        E!store, P!store, E!tables, P!tables, E!ReleaseAll, P!ReleaseAll,
        E!Rows, P!Rows
<1>1. E!ArriveEdit(e) => P!ArriveEdit(e)
    BY Zenon DEF E!ArriveEdit, P!ArriveEdit, E!FreshCart, P!FreshCart,
       E!CreatesCart, P!CreatesCart
<1>2. E!EditStep(e) => P!EditStep(e)
    BY Zenon DEF E!EditStep, P!EditStep, E!CreateCart, P!CreateCart,
       E!LockOpenCart, P!LockOpenCart, E!AddItem, P!AddItem, E!ChangeItem,
       P!ChangeItem, E!CommitEdit, P!CommitEdit, E!ReadBack, P!ReadBack,
       E!EndEdit, P!EndEdit, E!Decline, P!Decline, E!WriteLine, P!WriteLine,
       E!LineOf, P!LineOf, E!Free, P!Free, E!Take, P!Take, E!NextId, P!NextId
<1>3. E!AbortEdit(e) => P!AbortEdit(e)
    BY Zenon DEF E!AbortEdit, P!AbortEdit
<1> QED BY <1>1, <1>2, <1>3 DEF Edit, P!EditBy

LEMMA SameTypes ==
    /\ P!StoreTypeOK <=> StoreTypeOK
    /\ P!CartsTypeOK <=> E!CartsTypeOK
<1>1. P!StoreTypeOK <=> StoreTypeOK
    BY Zenon DEF StoreTypeOK, P!StoreTypeOK, Rows, P!Rows, Lines, P!Lines,
       CartStatus, P!CartStatus, CouponStatus, P!CouponStatus, KeyRecords,
       P!KeyRecords, Orders, P!Orders
<1>2. P!CartsTypeOK <=> E!CartsTypeOK
    BY Zenon DEF E!CartsTypeOK, P!CartsTypeOK, E!ItemIds, P!ItemIds, E!Edits,
       P!Edits, E!Results, P!Results, E!Writes, P!Writes
<1> QED BY <1>1, <1>2

LEMMA SameInv ==
    P!CartsInv <=>
        /\ StoreTypeOK /\ E!CartsTypeOK
        /\ EditsReserved /\ IdsNameLines /\ LinesWithinStock
        /\ \A p \in Products : inventory[p] <= Stock[p]
<1>1. P!EditsReserved <=> EditsReserved
    BY Zenon DEF EditsReserved, E!EditsReserved, P!EditsReserved,
       E!EditReservedBy, P!EditReservedBy, E!Edited, P!Edited, E!Writes,
       P!Writes, E!CreatesCart, P!CreatesCart
<1>2. P!IdsNameLines <=> IdsNameLines
    BY Zenon DEF IdsNameLines, E!IdsNameLines, P!IdsNameLines
<1>3. P!LinesWithinStock <=> LinesWithinStock
    BY Zenon DEF LinesWithinStock, E!LinesWithinStock, P!LinesWithinStock
<1> QED BY <1>1, <1>2, <1>3, SameTypes DEF P!CartsInv, P!TypeOK

LEMMA SameInvNext ==
    P!CartsInv' <=>
        ( /\ StoreTypeOK /\ E!CartsTypeOK
          /\ EditsReserved /\ IdsNameLines /\ LinesWithinStock
          /\ \A p \in Products : inventory[p] <= Stock[p] )'
    BY SameInv, PTL

\* What an edit finds: its own invariant, and a step of Carts.
LEMMA EditFacts ==
    ASSUME ShopInv
    PROVE  /\ P!CartsInv
           /\ TypeOK /\ StoreTypeOK /\ E!CartsTypeOK
           /\ \A e \in Editors : E!EditReservedBy(e)
<1>1. StoreTypeOK
    BY DEF ShopInv, IInv, TypeOK
<1> QED BY <1>1, SameInv DEF ShopInv, IInv, TypeOK, EditsReserved,
        E!EditsReserved

\* Of the tables an edit changes only the lines of an open cart it holds, or
\* makes a cart that was absent open.
LEMMA EditTables ==
    ASSUME ShopInv, NEW e \in Editors, Edit(e)
    PROVE  /\ UNCHANGED <<inventory, orders, couponStatus, redeemedBy, keyRecords>>
           /\ \A c \in Carts : cartStatus'[c] # cartStatus[c] =>
                 cartStatus[c] = "absent" /\ cartStatus'[c] = "open"
           /\ \A c \in Carts : cartItems'[c] # cartItems[c] =>
                 cartStatus[c] = "open" /\ holder[c] = e
           /\ cartStatus' \in [Carts -> CartStatus]
           /\ cartItems' \in [Carts -> Lines]
           /\ holder' \in [Rows -> Requests \cup {None}]
<1>1. P!CartsInv /\ P!EditBy(e)
    BY EditFacts, SameSteps
<1> QED BY <1>1, AssumptionsOfCarts, P!EditTables
        DEF Rows, P!Rows, Lines, P!Lines, CartStatus, P!CartStatus

\* It takes only rows that are free, and gives up only its own.
LEMMA EditLockSteps ==
    ASSUME ShopInv, NEW e \in Editors, Edit(e),
           NEW s \in Requests, s # e, NEW row \in Rows
    PROVE  holder'[row] = s <=> holder[row] = s
    BY AssumptionsOfCarts, EditFacts, SameSteps, P!EditLockSteps
       DEF Rows, P!Rows

LEMMA ShopInitInv == ShopInit => ShopInv
<1> SUFFICES ASSUME ShopInit PROVE ShopInv
    OBVIOUS
<1>1. IInv
    BY InitIInv DEF ShopInit
<1>2. P!StoreInit /\ P!CartsInit
  <2>1. P!StoreInit
    BY Zenon DEF ShopInit, Init, StoreInit, P!StoreInit, Rows, P!Rows,
       EmptyLines, P!EmptyLines
  <2>2. P!CartsInit
    BY Zenon DEF ShopInit, E!CartsInit, P!CartsInit
  <2> QED BY <2>1, <2>2
<1>3. P!CartsInv
    BY <1>2, AssumptionsOfCarts, P!StoreBegins, P!EditsBegin
<1>4. OrdersMatchCarts
    BY DEF OrdersMatchCarts, Made, ShopInit, Init, StoreInit
<1> QED BY <1>1, <1>3, <1>4, SameInv DEF ShopInv

----------------------------------------------------------------------------
(* Steps of a checkout. *)

\* It takes no row that an edit holds.
LEMMA EditLocksKept ==
    ASSUME ShopInv, NEW r \in Buyers, Arrive(r) \/ Step(r) \/ Abort(r),
           NEW e \in Editors, NEW row \in Rows, holder[row] = e
    PROVE  holder'[row] = e
<1>1. e # r /\ e # None /\ TypeOK
    BY EditorTypes, RowsDistinct, EditFacts
<1>2. \/ UNCHANGED holder
      \/ ReleaseAll(r)
      \/ \E wanted \in Rows : Free(r, wanted) /\ Take(r, wanted)
    BY LockSteps DEF ShopInv
<1>3. CASE UNCHANGED holder
    BY <1>3
<1>4. CASE ReleaseAll(r)
    BY <1>1, <1>4 DEF ReleaseAll
<1>5. CASE \E wanted \in Rows : Free(r, wanted) /\ Take(r, wanted)
    BY <1>1, <1>5 DEF Free, Take, TypeOK, StoreTypeOK
<1> QED BY <1>2, <1>3, <1>4, <1>5

\* It closes only a cart that is open and its own, and changes no line.
LEMMA CartsKept ==
    ASSUME ShopInv, NEW r \in Buyers, Arrive(r) \/ Step(r) \/ Abort(r)
    PROVE  /\ cartItems' = cartItems
           /\ \A c \in Carts : cartStatus'[c] # cartStatus[c] =>
                 cartStatus[c] = "open" /\ holder[c] = r
<1>1. CASE ~ Commit(r)
    BY <1>1, TablesKept DEF tables
<1>2. CASE Commit(r)
  <2>1. /\ holder[request[r].cart] = r /\ cartStatus[request[r].cart] = "open"
        /\ \A c \in Carts : c # request[r].cart => cartStatus'[c] = cartStatus[c]
    BY <1>2, EditFacts DEF ShopInv, IInv, Reserved, ReservedBy, Commit,
       PublishSale, StoreTypeOK
  <2> QED BY <1>2, <2>1 DEF Commit, PublishSale
<1> QED BY <1>1, <1>2

LEMMA BuyKeepsInv ==
    ASSUME ShopInv, NEW r \in Buyers, Buy(r)
    PROVE  ShopInv'
<1>0. /\ Arrive(r) \/ Step(r) \/ Abort(r)
      /\ UNCHANGED editing
      /\ TypeOK /\ StoreTypeOK /\ E!CartsTypeOK
    BY EditFacts DEF Buy
<1>1. IInv'
    BY <1>0, StepIInv DEF ShopInv, Next
<1>2. E!CartsTypeOK'
    BY <1>0 DEF E!CartsTypeOK, editing
<1>3. EditsReserved'
  <2>1. ASSUME NEW e \in Editors PROVE E!EditReservedBy(e)'
    <3> DEFINE c == edit[e].cart
    <3>0. E!EditReservedBy(e)
      BY EditFacts
    <3>1. at[e] # "idle" => c \in Carts /\ c \in Rows
      BY <1>0, <3>0 DEF E!EditReservedBy, E!CartsTypeOK, E!Edits, Rows
    <3>2. at[e] \in {"check", "commit"} => holder'[c] = e /\ cartStatus'[c] = "open"
      <4> SUFFICES ASSUME at[e] \in {"check", "commit"}
                   PROVE  holder'[c] = e /\ cartStatus'[c] = "open"
        OBVIOUS
      <4>1. holder[c] = e /\ cartStatus[c] = "open" /\ c \in Rows /\ c \in Carts
        BY <3>0, <3>1 DEF E!EditReservedBy
      <4>2. e # r
        BY EditorTypes
      <4> QED BY <1>0, <4>1, <4>2, EditLocksKept, CartsKept
    <3>3. at[e] = "create" => cartStatus'[c] = "absent"
      BY <1>0, <3>0, <3>1, CartsKept DEF E!EditReservedBy
    <3>4. cartItems' = cartItems
      BY <1>0, CartsKept
    <3>5. /\ itemId' = itemId /\ edit' = edit /\ at' = at /\ write' = write
          /\ result' = result
      BY <1>0 DEF editing
    <3> QED BY <3>0, <3>2, <3>3, <3>4, <3>5 DEF E!EditReservedBy, E!Edited
  <2>2. \A e, f \in Editors : \A c \in Carts :
          E!CreatesCart(e, c)' /\ E!CreatesCart(f, c)' => e = f
    BY <1>0 DEF ShopInv, EditsReserved, E!EditsReserved, E!CreatesCart, editing
  <2> QED BY <2>1, <2>2 DEF EditsReserved, E!EditsReserved
<1>4. IdsNameLines' /\ LinesWithinStock'
    BY <1>0, CartsKept DEF ShopInv, IdsNameLines, E!IdsNameLines,
       LinesWithinStock, E!LinesWithinStock, editing
<1>5. \A p \in Products : inventory'[p] <= Stock[p]
  <2>1. CASE ~ Commit(r)
    BY <1>0, <2>1, TablesKept DEF ShopInv, tables
  <2>2. CASE Commit(r)
    BY <1>0, <2>2, CatalogueTypes DEF ShopInv, Commit, PublishSale, TypeOK,
       StoreTypeOK, Lines
  <2> QED BY <2>1, <2>2
<1>6. OrdersMatchCarts'
  <2>1. CASE ~ Commit(r)
    BY <1>0, <2>1, TablesKept DEF ShopInv, OrdersMatchCarts, Made, tables
  <2>2. CASE Commit(r)
    <3>1. orders'[r].lines = cartItems[orders'[r].cart]
      <4>1. /\ draft[r] = NewOrder(r) /\ lines[r] = cartItems[request[r].cart]
            /\ orders' = [orders EXCEPT ![r] = draft[r]]
        BY <2>2 DEF ShopInv, IInv, Reserved, ReservedBy, Commit, PublishSale
      <4>2. /\ NewOrder(r).lines = lines[r]
            /\ NewOrder(r).cart = request[r].cart
        BY DEF NewOrder, OrderFor
      <4> QED BY <1>0, <4>1, <4>2, BuyersAreRequests DEF StoreTypeOK
    <3>2. \A s \in Requests : s # r => orders'[s] = orders[s]
      BY <1>0, <2>2 DEF Commit, PublishSale, StoreTypeOK
    <3> QED BY <1>0, <3>1, <3>2, CartsKept DEF ShopInv, OrdersMatchCarts, Made
  <2> QED BY <2>1, <2>2
<1> QED BY <1>1, <1>2, <1>3, <1>4, <1>5, <1>6 DEF ShopInv

----------------------------------------------------------------------------
(* Steps of an edit. *)

\* What a checkout relies on survives: its cart is locked and not absent.
LEMMA EditKeepsIInv ==
    ASSUME ShopInv, NEW e \in Editors, Edit(e)
    PROVE  IInv'
<1>0. /\ IInv /\ TypeOK /\ Progress /\ Reserved /\ SoldTogether /\ ReceiptsAgree
      /\ UNCHANGED <<inventory, orders, couponStatus, redeemedBy, keyRecords>>
      /\ UNCHANGED <<pc, request, lines, scan, pending, draft, answer>>
    BY EditTables DEF ShopInv, IInv, Edit, checkoutVars, steps
<1>1. TypeOK'
    BY <1>0, EditTables DEF TypeOK, StoreTypeOK
<1>2. Progress'
    BY <1>0 DEF Progress, Made
<1>3. Reserved'
  <2> SUFFICES ASSUME NEW r \in Buyers PROVE ReservedBy(r)'
    BY DEF Reserved
  <2>1. ReservedBy(r) /\ NewOrder(r)' = NewOrder(r)
    BY <1>0 DEF Reserved, NewOrder, OrderFor
  <2> SUFFICES ASSUME pc[r] \notin {"idle", "lock", "unwind", "reply", "done"}
               PROVE  ReservedBy(r)'
    BY <1>0 DEF ReservedBy
  <2>2. /\ r \in Requests /\ r # e /\ r # None
        /\ request[r].cart \in Carts /\ request[r].cart \in Rows
        /\ request[r].key \in Rows
        /\ request[r].coupon # None => request[r].coupon \in Rows
    BY <1>0, AskType, BuyersAreRequests, EditorTypes, RowsDistinct
  <2>3. \A row \in Rows : holder[row] = r => holder'[row] = r
    BY <2>2, EditLockSteps
  <2>4. /\ holder[request[r].cart] = r /\ cartStatus[request[r].cart] # "absent"
    BY <1>0, <2>1 DEF ReservedBy, TypeOK, Places
  <2>5. /\ cartStatus'[request[r].cart] = cartStatus[request[r].cart]
        /\ cartItems'[request[r].cart] = cartItems[request[r].cart]
    BY <2>2, <2>4, EditTables
  <2>6. OnLines(lines[r]) \subseteq Rows
    BY DEF OnLines, Rows
  <2> QED BY <1>0, <2>1, <2>2, <2>3, <2>5, <2>6 DEF ReservedBy, OnLines
<1>4. SoldTogether'
  <2>1. \A c \in Carts : cartStatus'[c] = "checked_out" <=> cartStatus[c] = "checked_out"
    BY EditTables
  <2> QED BY <1>0, <2>1 DEF SoldTogether, Made
<1>5. ReceiptsAgree'
    BY <1>0 DEF ReceiptsAgree
<1> QED BY <1>1, <1>2, <1>3, <1>4, <1>5 DEF IInv

LEMMA EditKeepsInv ==
    ASSUME ShopInv, NEW e \in Editors, Edit(e)
    PROVE  ShopInv'
<1>1. IInv'
    BY EditKeepsIInv
<1>2. P!CartsInv'
    BY EditFacts, SameSteps, AssumptionsOfCarts, P!EditKeepsInv
<1>3. OrdersMatchCarts'
  <2> SUFFICES ASSUME NEW s \in Requests, Made(s)
               PROVE  orders[s].lines = cartItems'[orders[s].cart]
    BY EditTables DEF OrdersMatchCarts, Made
  <2>1. orders[s].cart \in Carts
    BY EditFacts DEF StoreTypeOK, Made, Orders
  <2>2. cartStatus[orders[s].cart] = "checked_out"
    BY <2>1 DEF ShopInv, IInv, SoldTogether
  <2>3. cartItems'[orders[s].cart] = cartItems[orders[s].cart]
    BY <2>1, <2>2, EditTables
  <2> QED BY <2>3 DEF ShopInv, OrdersMatchCarts
<1> QED BY <1>1, <1>2, <1>3, SameInvNext DEF ShopInv

LEMMA ShopStepInv == ShopInv /\ [ShopNext]_shopVars => ShopInv'
<1> SUFFICES ASSUME ShopInv, [ShopNext]_shopVars PROVE ShopInv'
    OBVIOUS
<1>1. CASE ShopNext
    BY <1>1, BuyKeepsInv, EditKeepsInv DEF ShopNext
<1>2. CASE UNCHANGED shopVars
  <2>1. UNCHANGED vars /\ UNCHANGED editing
    BY <1>2 DEF shopVars
  <2>2. IInv'
    BY <2>1, StepIInv DEF ShopInv
  <2>3. E!CartsTypeOK' /\ EditsReserved' /\ IdsNameLines' /\ LinesWithinStock'
    BY <2>1 DEF ShopInv, E!CartsTypeOK, EditsReserved, E!EditsReserved,
       E!EditReservedBy, E!Edited, E!CreatesCart, IdsNameLines, E!IdsNameLines,
       LinesWithinStock, E!LinesWithinStock, vars, store, tables, editing
  <2>4. OrdersMatchCarts' /\ \A p \in Products : inventory'[p] <= Stock[p]
    BY <2>1 DEF ShopInv, OrdersMatchCarts, Made, vars, store, tables
  <2> QED BY <2>2, <2>3, <2>4 DEF ShopInv
<1> QED BY <1>1, <1>2

----------------------------------------------------------------------------
(* The properties. *)

THEOREM ShopInvariance == ShopSpec => []ShopInv
    BY ShopInitInv, ShopStepInv, PTL DEF ShopSpec

\* All that is proved of checkouts holds while carts are edited.
THEOREM CheckoutsUndisturbed == ShopSpec => []IInv
    BY ShopInvariance, PTL DEF ShopInv

\* An order's lines are those of its cart ever after: no edit reaches a sold
\* cart, and none slips in between a checkout's read and its commit.
THEOREM OrdersStay == ShopSpec => []OrdersMatchCarts
    BY ShopInvariance, PTL DEF ShopInv

\* What an edit has checked of its cart still holds as it commits.
THEOREM EditsHold == ShopSpec => []EditsReserved
    BY ShopInvariance, PTL DEF ShopInv

\* No line ever exceeds the stock its product was seeded with.
THEOREM LinesCovered == ShopSpec => []LinesWithinStock
    BY ShopInvariance, PTL DEF ShopInv

\* An item id names one line of one cart for as long as the line is there.
THEOREM IdsUnique == ShopSpec => []IdsNameLines
    BY ShopInvariance, PTL DEF ShopInv

----------------------------------------------------------------------------
(* Locks, refusals, stock and money with edits. *)

\* An edit gives a checkout no lock, and changes nothing a refusal is about.
LEMMA EditKeepsRefusals ==
    ASSUME ShopInv, RefusalInv, NEW e \in Editors, Edit(e)
    PROVE  RefusalInv'
<1>1. ShopInv' /\ UNCHANGED <<inventory, couponStatus, redeemedBy, keyRecords>>
    BY EditKeepsInv, EditTables
<1>2. UNCHANGED <<pc, request, lines, scan, pending, draft, answer>>
    BY DEF Edit, checkoutVars, steps
<1>3. ASSUME NEW r \in Buyers
      PROVE  LocksOf(r)' /\ QuotedBy(r)' /\ Honest(r)'
  <2>1. LocksOf(r) /\ QuotedBy(r) /\ Honest(r)
    BY DEF RefusalInv, LockInv
  <2>2. \A row \in Rows : holder'[row] = r <=> holder[row] = r
    BY EditLockSteps, BuyersAreRequests, EditorTypes
  <2>3. Products \subseteq Rows /\ Coupons \subseteq Rows /\ Keys \subseteq Rows
    BY DEF Rows
  <2>4. LocksOf(r)'
    BY <1>2, <2>1, <2>2, <2>3 DEF LocksOf, ScanOrders
  <2>5. QuotedBy(r)'
    BY <1>1, <1>2, <2>1 DEF QuotedBy
  <2>6. ASSUME answer[r].code = "CART_ALREADY_CHECKED_OUT"
        PROVE  cartStatus'[request[r].cart] = "checked_out"
    <3>1. cartStatus[request[r].cart] = "checked_out"
      BY <2>1, <2>6 DEF Honest
    <3>2. answer[r] # NoAnswer
      BY <2>6 DEF NoAnswer, Refusal
    <3>3. pc[r] # "idle"
      BY <3>2 DEF ShopInv, IInv, Progress
    <3>4. request[r].cart \in Carts
      BY <3>3, AskType DEF ShopInv
    <3> QED BY <3>1, <3>4, EditTables
  <2>7. Honest(r)'
    BY <1>1, <1>2, <2>1, <2>6 DEF Honest
  <2> QED BY <2>4, <2>5, <2>7
<1> QED BY <1>1, <1>3 DEF RefusalInv, LockInv, ShopInv

LEMMA ShopRefusals == ShopSpec => []RefusalInv
<1>1. ShopInit => RefusalInv
    BY RefusalInit DEF ShopInit
<1>2. ShopInv /\ RefusalInv /\ [ShopNext]_shopVars => RefusalInv'
  <2> SUFFICES ASSUME ShopInv, RefusalInv, [ShopNext]_shopVars
               PROVE  RefusalInv'
    OBVIOUS
  <2>1. ASSUME NEW r \in Buyers, Buy(r) PROVE RefusalInv'
    BY <2>1, RefusalStep DEF Buy, Next
  <2>2. CASE UNCHANGED shopVars
    BY <2>2, RefusalStep DEF shopVars
  <2> QED BY <2>1, <2>2, EditKeepsRefusals DEF ShopNext
<1> QED BY <1>1, <1>2, ShopInvariance, PTL DEF ShopSpec

\* Refusals stay true while carts are edited.
THEOREM RefusalsStayTrue == ShopSpec => []HonestRefusals
    BY ShopRefusals, HonestAre, PTL DEF RefusalInv

\* Nor do checkouts wait in a circle for what edits release.
THEOREM NoDeadlockWithEdits ==
    ASSUME NamesDistinct
    PROVE  ShopSpec => []NoWaitCycle
<1>1. RefusalInv => NoWaitCycle
    BY NoCircle DEF RefusalInv
<1> QED BY <1>1, ShopRefusals, PTL

\* An edit that waits holds nothing, here too: a checkout gives no edit a lock.
LEMMA EditLocksEnd == ShopSpec => []E!LocksReleased
<1>1. E!LocksReleased <=> P!LocksReleased
    BY Zenon DEF E!LocksReleased, P!LocksReleased, E!Rows, P!Rows
<1>2. E!LocksReleased' <=> P!LocksReleased'
    BY <1>1, PTL
<1>3. ShopInit => E!LocksReleased
    BY EditorTypes, RowsDistinct
       DEF ShopInit, Init, StoreInit, E!LocksReleased, E!Rows, Rows
<1>4. ShopInv /\ E!LocksReleased /\ [ShopNext]_shopVars => E!LocksReleased'
  <2> SUFFICES ASSUME ShopInv, E!LocksReleased, [ShopNext]_shopVars
               PROVE  E!LocksReleased'
    OBVIOUS
  <2>1. ASSUME NEW r \in Buyers, Buy(r) PROVE E!LocksReleased'
    <3>1. /\ edit' = edit /\ at' = at
          /\ \A e \in Editors : e # r /\ e \in Requests
      BY <2>1, EditorTypes DEF Buy, editing
    <3>2. \A e \in Editors : \A row \in Rows : holder'[row] = e => holder[row] = e
      <4> TAKE e \in Editors
      <4>1. e # r /\ e # None
        BY EditorTypes, RowsDistinct
      <4>2. \/ UNCHANGED holder
            \/ ReleaseAll(r)
            \/ \E wanted \in Rows : Free(r, wanted) /\ Take(r, wanted)
        BY <2>1, LockSteps DEF Buy, ShopInv
      <4> QED BY <4>1, <4>2, EditFacts DEF ReleaseAll, Take, StoreTypeOK
    <3> QED BY <3>1, <3>2 DEF E!LocksReleased, E!Rows, Rows
  <2>2. ASSUME NEW e \in Editors, Edit(e) PROVE E!LocksReleased'
    BY <1>1, <1>2, <2>2, EditFacts, SameSteps, AssumptionsOfCarts,
       P!EditKeepsLocks
  <2>3. CASE UNCHANGED shopVars
    BY <2>3 DEF shopVars, vars, store, editing, E!LocksReleased
  <2> QED BY <2>1, <2>2, <2>3 DEF ShopNext
<1> QED BY <1>3, <1>4, ShopInvariance, PTL DEF ShopSpec

\* Request r, a checkout or an edit, waits for a row that s holds.
Waits(r, s) ==
    \/ r \in Buyers /\ WaitsFor(r, s)
    \/ r \in Editors /\ at[r] = "lock" /\ r # s /\ holder[edit[r].cart] = s

\* No requests, of whatever kinds, all wait for one another.
NoCircleAtAll ==
    \A S \in SUBSET (Buyers \cup Editors) :
        S # {} => \E r \in S : \/ \A s \in S : ~ Waits(r, s)
                               \/ \A s \in S : ~ Waits(s, r)

\* So a circle of waits would be one of checkouts alone, and there is none.
THEOREM NoDeadlockAtAll ==
    ASSUME NamesDistinct
    PROVE  ShopSpec => []NoCircleAtAll
<1>1. ASSUME ShopInv, RefusalInv, E!LocksReleased PROVE NoCircleAtAll
  <2> SUFFICES ASSUME NEW S \in SUBSET (Buyers \cup Editors), S # {},
                      \A r \in S : /\ \E s \in S : Waits(r, s)
                                   /\ \E s \in S : Waits(s, r)
               PROVE  FALSE
    BY DEF NoCircleAtAll
  <2>1. ASSUME NEW e \in S, e \in Editors PROVE FALSE
    <3>1. PICK s \in S : Waits(s, e)
      BY <2>1
    <3>2. at[e] = "lock"
      BY <2>1, EditorTypes DEF Waits
    <3>3. \E row \in Rows : holder[row] = e
      <4>1. CASE s \in Buyers /\ WaitsFor(s, e)
        <5>1. pc[s] = "redeem" => request[s].coupon # None
          BY <1>1, <4>1 DEF ShopInv, IInv, Reserved, ReservedBy
        <5>2. NextProduct(s) \subseteq Rows
          BY <1>1, <4>1, EditFacts DEF NextProduct, Rows, TypeOK
        <5>3. Wanted(s) \subseteq Rows
          BY <1>1, <4>1, <5>1, <5>2, AskType DEF Wanted, ShopInv
        <5> QED BY <4>1, <5>3 DEF WaitsFor
      <4>2. CASE s \in Editors /\ at[s] = "lock" /\ holder[edit[s].cart] = e
        <5>1. edit[s].cart \in Rows
          BY <1>1, <4>2, EditFacts, AssumptionsOfCarts, P!EditType
             DEF Rows, P!Rows
        <5> QED BY <4>2, <5>1
      <4> QED BY <3>1, <4>1, <4>2 DEF Waits
    <3> QED BY <1>1, <2>1, <3>2, <3>3 DEF E!LocksReleased, E!Rows, Rows
  <2>2. S \subseteq Buyers
    BY <2>1
  <2>3. WaitCycle(S)
    BY <2>1, <2>2, EditorTypes DEF WaitCycle, Waits
  <2> QED BY <1>1, <2>2, <2>3, NoCircle DEF NoWaitCycle, RefusalInv
<1> QED BY <1>1, ShopInvariance, ShopRefusals, EditLocksEnd, PTL

\* Edits reserve and sell nothing: the stock is conserved.
THEOREM StockStaysConserved ==
    ASSUME IsFiniteSet(Requests)
    PROVE  ShopSpec => []StockConserved
<1>1. ShopInit => StockConserved
    BY InitStock DEF ShopInit
<1>2. ShopInv /\ ShopInv' /\ StockConserved /\ [ShopNext]_shopVars =>
          StockConserved'
  <2> SUFFICES ASSUME ShopInv, ShopInv', StockConserved, [ShopNext]_shopVars
               PROVE  StockConserved'
    OBVIOUS
  <2>1. ASSUME NEW r \in Buyers, Buy(r) PROVE StockConserved'
    BY <2>1, StepStock DEF Buy, Next, ShopInv
  <2>2. ASSUME NEW e \in Editors, Edit(e) PROVE StockConserved'
    BY <2>2, EditTables DEF StockConserved, Units, Made
  <2>3. CASE UNCHANGED shopVars
    BY <2>3, StepStock DEF shopVars, ShopInv
  <2> QED BY <2>1, <2>2, <2>3 DEF ShopNext
<1> QED BY <1>1, <1>2, ShopInvariance, PTL DEF ShopSpec

\* And a checkout still fails only for its size.
THEOREM ErrorsStayForSize ==
    ASSUME IsFiniteSet(Products), NamesDistinct
    PROVE  ShopSpec => []ErrorsExplained
<1>1. ShopInit => ErrorsExplained
    BY ExplainedInit DEF ShopInit
<1>2. RefusalInv /\ ErrorsExplained /\ [ShopNext]_shopVars => ErrorsExplained'
  <2> SUFFICES ASSUME RefusalInv, ErrorsExplained, [ShopNext]_shopVars
               PROVE  ErrorsExplained'
    OBVIOUS
  <2>1. ASSUME NEW r \in Buyers, Buy(r) PROVE ErrorsExplained'
    BY <2>1, ExplainedStep DEF Buy, Next, RefusalInv
  <2>2. ASSUME NEW e \in Editors, Edit(e) PROVE ErrorsExplained'
    BY <2>2 DEF Edit, ErrorsExplained, checkoutVars, steps
  <2>3. CASE UNCHANGED shopVars
    BY <2>3, ExplainedStep DEF shopVars, RefusalInv
  <2> QED BY <2>1, <2>2, <2>3 DEF ShopNext
<1> QED BY <1>1, <1>2, ShopRefusals, PTL DEF ShopSpec

----------------------------------------------------------------------------
(* Edits are applied: each as it was asked, to an open cart, by one step. *)

LEMMA StepApplies ==
    ASSUME ShopInv, [ShopNext]_shopVars, NEW c \in Carts,
           cartItems'[c] # cartItems[c]
    PROVE  /\ cartStatus[c] = "open" /\ cartStatus'[c] = "open"
           /\ \E e \in Editors :
                 /\ result[e] = "NONE" /\ result'[e] = "OK"
                 /\ \A p \in Products :
                       cartItems'[c][p] = E!Edited(edit[e], c, p)
<1>1. CASE UNCHANGED shopVars
    BY <1>1 DEF shopVars, vars, store, tables
<1>2. ASSUME NEW r \in Buyers, Buy(r) PROVE FALSE
    BY <1>2, CartsKept DEF Buy
<1>3. ASSUME NEW e \in Editors, Edit(e)
      PROVE  /\ cartStatus[c] = "open" /\ cartStatus'[c] = "open"
             /\ result[e] = "NONE" /\ result'[e] = "OK"
             /\ \A p \in Products :
                   cartItems'[c][p] = E!Edited(edit[e], c, p)
  <2>1. /\ cartStatus[c] = "open" /\ cartStatus'[c] = "open"
        /\ result[e] = "NONE" /\ result'[e] = "OK"
        /\ \A p \in Products :
              cartItems'[c][p] = P!Edited(edit[e], c, p)
    BY <1>3, EditFacts, SameSteps, AssumptionsOfCarts, P!EditApplies
  <2>2. \A p \in Products : P!Edited(edit[e], c, p) = E!Edited(edit[e], c, p)
    BY Zenon DEF P!Edited, E!Edited
  <2> QED BY <2>1, <2>2
<1> QED BY <1>1, <1>2, <1>3 DEF ShopNext

\* No update is lost and none lands on another line or in a sold cart.
THEOREM EditsLand == ShopSpec => EditsApplied
<1>1. ShopInv /\ [ShopNext]_shopVars =>
        [\A c \in Carts : cartItems'[c] # cartItems[c] =>
            /\ cartStatus[c] = "open" /\ cartStatus'[c] = "open"
            /\ \E e \in Editors :
                  /\ result[e] = "NONE" /\ result'[e] = "OK"
                  /\ \A p \in Products :
                        cartItems'[c][p] = E!Edited(edit[e], c, p)]_E!vars
    BY StepApplies
<1> QED BY <1>1, ShopInvariance, PTL DEF ShopSpec, EditsApplied, E!EditsApplied

----------------------------------------------------------------------------
(* The composition implements Ledger, an edit being a Refill. *)

LEMMA ShopInitRefines == ShopInit => L!Init
    BY InitRefines DEF ShopInit

LEMMA EditRefines ==
    ASSUME ShopInv, NEW e \in Editors, Edit(e)
    PROVE  (\E c \in Carts : L!Refill(c)) \/ UNCHANGED L!vars
<1>0. /\ StoreTypeOK
      /\ Asked' = Asked /\ Told' = Told
      /\ UNCHANGED <<inventory, orders, redeemedBy, keyRecords>>
      /\ cartItems' \in [Carts -> Lines]
    BY EditFacts, EditTables DEF Edit, checkoutVars, steps, Asked, Told
<1>1. CASE \A c \in Carts : cartItems'[c] = cartItems[c]
    BY <1>0, <1>1 DEF L!vars, StoreTypeOK
<1>2. ASSUME NEW c \in Carts, cartItems'[c] # cartItems[c]
      PROVE  L!Refill(c)
  <2>1. \A d \in Carts \ {c} : cartItems'[d] = cartItems[d]
    BY <1>2, EditFacts, SameSteps, AssumptionsOfCarts, P!EditOneCart
  <2>2. ~ L!Sold(c)
    BY <1>2, EditTables DEF L!Sold, ShopInv, IInv, SoldTogether, Made
  <2> QED BY <1>0, <2>1, <2>2 DEF L!Refill, Lines
<1> QED BY <1>1, <1>2

LEMMA ShopStepRefines == ShopInv /\ [ShopNext]_shopVars => [L!Next]_L!vars
<1> SUFFICES ASSUME ShopInv, [ShopNext]_shopVars PROVE [L!Next]_L!vars
    OBVIOUS
<1>1. ASSUME NEW r \in Buyers, Buy(r) PROVE [L!Next]_L!vars
    BY <1>1, StepRefines DEF Buy, Next, ShopInv
<1>2. ASSUME NEW e \in Editors, Edit(e) PROVE [L!Next]_L!vars
    BY <1>2, EditRefines DEF L!Next
<1>3. CASE UNCHANGED shopVars
    BY <1>3, StepRefines DEF shopVars, ShopInv
<1> QED BY <1>1, <1>2, <1>3 DEF ShopNext

\* Every run of the shop, edits included, is a run of Ledger.
THEOREM ShopRefinement == ShopSpec => ImplementsLedger
    BY ShopInvariance, ShopInitRefines, ShopStepRefines, PTL
       DEF ShopSpec, L!Spec, ImplementsLedger
============================================================================
