----------------------------- MODULE CartsProofs ----------------------------
(***************************************************************************)
(* Theorems about Carts, for any number of requests, carts, products and   *)
(* quantities.  The lemmas say what one step of one edit does; they hold   *)
(* whatever else happens between two steps, as long as CartsInv does.      *)
(***************************************************************************)
EXTENDS Carts, TLAPS

\* The inductive invariant: the properties, and what each edit relies on.  Stock
\* only falls, though no edit makes it.
CartsInv ==
    /\ TypeOK
    /\ EditsReserved
    /\ IdsNameLines
    /\ LinesWithinStock
    /\ \A p \in Products : inventory[p] <= Stock[p]

EditBy(e) == ArriveEdit(e) \/ EditStep(e) \/ AbortEdit(e)

LEMMA CartsInvTypes ==
    ASSUME CartsInv
    PROVE  /\ StoreTypeOK /\ CartsTypeOK
           /\ \A e \in Editors : EditReservedBy(e)
    BY DEF CartsInv, TypeOK, EditsReserved

----------------------------------------------------------------------------
(* Steps of an edit. *)

\* What an edit asks for, and the cart it names.
LEMMA EditType ==
    ASSUME CartsInv, NEW e \in Editors, at[e] # "idle"
    PROVE  /\ edit[e] \in Edits
           /\ edit[e].cart \in Carts /\ edit[e].cart \in Rows
<1>1. edit[e] \in Edits
    BY CartsInvTypes DEF EditReservedBy, CartsTypeOK
<1> QED BY <1>1 DEF Edits, Rows

\* An edit takes only rows that are free, and gives up only its own.
LEMMA EditLockSteps ==
    ASSUME CartsInv, NEW e \in Editors, EditBy(e),
           NEW s \in Requests, s # e, NEW row \in Rows
    PROVE  holder'[row] = s <=> holder[row] = s
<1>0. StoreTypeOK /\ s # None
    BY CartsInvTypes, RowsDistinct
<1>1. CASE LockOpenCart(e)
  <2>1. edit[e].cart \in Rows
    BY <1>1, EditType DEF LockOpenCart
  <2> QED BY <1>0, <1>1, <2>1 DEF LockOpenCart, Free, Take, StoreTypeOK
<1>2. CASE CommitEdit(e) \/ EndEdit(e) \/ AbortEdit(e)
    BY <1>0, <1>2 DEF CommitEdit, EndEdit, AbortEdit, ReleaseAll
<1>3. CASE \/ ArriveEdit(e) \/ CreateCart(e) \/ AddItem(e)
           \/ ChangeItem(e) \/ ReadBack(e)
    BY <1>3 DEF ArriveEdit, CreateCart, AddItem, ChangeItem, ReadBack, store
<1> QED BY <1>1, <1>2, <1>3 DEF EditBy, EditStep

\* Of the tables it changes only the lines of an open cart it holds, or makes a
\* cart that was absent open.
LEMMA EditTables ==
    ASSUME CartsInv, NEW e \in Editors, EditBy(e)
    PROVE  /\ UNCHANGED <<inventory, orders, couponStatus, redeemedBy, keyRecords>>
           /\ \A c \in Carts : cartStatus'[c] # cartStatus[c] =>
                 cartStatus[c] = "absent" /\ cartStatus'[c] = "open"
           /\ \A c \in Carts : cartItems'[c] # cartItems[c] =>
                 cartStatus[c] = "open" /\ holder[c] = e
           /\ cartStatus' \in [Carts -> CartStatus]
           /\ cartItems' \in [Carts -> Lines]
           /\ holder' \in [Rows -> Requests \cup {None}]
<1>0. StoreTypeOK /\ CartsTypeOK /\ EditReservedBy(e) /\ e \in Requests
    BY CartsInvTypes, EditorsAreRequests
<1>1. CASE CreateCart(e)
  <2>1. cartStatus[edit[e].cart] = "absent" /\ edit[e].cart \in Carts
    BY <1>0, <1>1, EditType DEF CreateCart, EditReservedBy
  <2> QED BY <1>0, <1>1, <2>1 DEF CreateCart, StoreTypeOK, CartStatus
<1>2. CASE CommitEdit(e)
  <2> DEFINE c == edit[e].cart
             p == write[e].product
             n == write[e].quantity
  <2>1. /\ c \in Carts /\ cartStatus[c] = "open" /\ holder[c] = e
        /\ p \in Products /\ n \in Nat
    BY <1>0, <1>2, EditType DEF CommitEdit, EditReservedBy, CartsTypeOK,
       Writes
  <2>2. cartItems' = [cartItems EXCEPT ![c] = [@ EXCEPT ![p] = n]]
    BY <1>2 DEF CommitEdit
  <2>3. /\ cartItems' \in [Carts -> Lines]
        /\ \A d \in Carts : d # c => cartItems'[d] = cartItems[d]
    BY <1>0, <2>1, <2>2 DEF StoreTypeOK, Lines
  <2>4. holder' \in [Rows -> Requests \cup {None}]
    BY <1>0, <1>2 DEF CommitEdit, ReleaseAll, StoreTypeOK
  <2> QED BY <1>0, <1>2, <2>1, <2>3, <2>4 DEF CommitEdit, StoreTypeOK
<1>3. CASE LockOpenCart(e)
  <2>1. edit[e].cart \in Rows
    BY <1>3, EditType DEF LockOpenCart
  <2> QED BY <1>0, <1>3, <2>1 DEF LockOpenCart, Take, tables, StoreTypeOK
<1>4. CASE EndEdit(e) \/ AbortEdit(e)
  <2>1. holder' \in [Rows -> Requests \cup {None}]
    BY <1>0, <1>4 DEF EndEdit, AbortEdit, ReleaseAll, StoreTypeOK
  <2> QED BY <1>0, <1>4, <2>1 DEF EndEdit, AbortEdit, tables, StoreTypeOK
<1>5. CASE ArriveEdit(e) \/ AddItem(e) \/ ChangeItem(e) \/ ReadBack(e)
    BY <1>0, <1>5 DEF ArriveEdit, AddItem, ChangeItem, ReadBack,
       store, tables, StoreTypeOK
<1> QED BY <1>1, <1>2, <1>3, <1>4, <1>5 DEF EditBy, EditStep

----------------------------------------------------------------------------
(* What an edit does to the carts. *)

\* The id it names is that of one line.
LEMMA OneLine ==
    ASSUME CartsInv, NEW c \in Carts, NEW id \in ItemIds,
           NEW p \in LineOf(c, id), NEW q \in LineOf(c, id)
    PROVE  p = q
<1>1. itemId[c][p] = id /\ itemId[c][q] = id /\ p \in Products /\ q \in Products
    BY DEF LineOf
<1>2. id # None
    BY NoneIsNoEdit
<1> QED BY <1>1, <1>2 DEF CartsInv, IdsNameLines

\* A line that passes the soft check is within the stock, and is what was asked.
LEMMA WriteSteps ==
    ASSUME CartsInv, NEW e \in Editors, AddItem(e) \/ ChangeItem(e)
    PROVE  \/ /\ at' = [at EXCEPT ![e] = "unwind"]
              /\ result' \in [Editors -> Results]
              /\ \A f \in Editors : f # e => result'[f] = result[f]
              /\ write' = write
           \/ /\ at' = [at EXCEPT ![e] = "commit"]
              /\ result' = result
              /\ \E p \in Products, n \in Nat :
                    /\ write' = [write EXCEPT ![e] = [product |-> p, quantity |-> n]]
                    /\ n <= Stock[p]
                    /\ \A q \in Products :
                          Edited(edit[e], edit[e].cart, q) =
                              IF q = p THEN n ELSE cartItems[edit[e].cart][q]
<1> DEFINE c == edit[e].cart
           ask == edit[e]
           Declined ==
              /\ at' = [at EXCEPT ![e] = "unwind"]
              /\ result' \in [Editors -> Results]
              /\ \A f \in Editors : f # e => result'[f] = result[f]
              /\ write' = write
           Written(p, n) ==
              /\ at' = [at EXCEPT ![e] = "commit"]
              /\ result' = result
              /\ write' = [write EXCEPT ![e] = [product |-> p, quantity |-> n]]
<1>0. /\ StoreTypeOK /\ CartsTypeOK
      /\ ask \in Edits /\ c \in Carts /\ at[e] = "check"
    BY CartsInvTypes, EditType DEF AddItem, ChangeItem
<1>1. ASSUME NEW code \in {"NOT_FOUND", "INSUFFICIENT_INVENTORY"},
             Decline(e, code), UNCHANGED write
      PROVE  Declined
    BY <1>0, <1>1 DEF Decline, Continue, CartsTypeOK, Results
<1>2. ASSUME NEW p \in Products, NEW n \in Nat, WriteLine(e, p, n)
      PROVE  Declined \/ (Written(p, n) /\ n <= Stock[p])
  <2>1. CASE n > inventory[p]
    <3>1. Decline(e, "INSUFFICIENT_INVENTORY") /\ UNCHANGED write
      BY <1>0, <1>2, <2>1 DEF WriteLine, StoreTypeOK
    <3> QED BY <1>1, <3>1
  <2>2. CASE n <= inventory[p]
    <3>1. inventory[p] \in Nat /\ Stock[p] \in Nat /\ inventory[p] <= Stock[p]
      BY <1>0, CatalogueTypes DEF StoreTypeOK, CartsInv
    <3> QED BY <1>2, <2>2, <3>1 DEF WriteLine, Continue
  <2> QED BY <1>0, <2>1, <2>2 DEF StoreTypeOK
<1>3. CASE AddItem(e)
  <2>1. CASE ask.product = None
    BY <1>1, <1>3, <2>1 DEF AddItem
  <2>2. CASE ask.product # None
    <3> DEFINE p == ask.product
               n == ask.quantity + cartItems[c][p]
    <3>1. /\ ask.op = "add" /\ p \in Products
          /\ ask.quantity \in Nat /\ cartItems[c][p] \in Nat
      <4>1. ask.op = "add"
        BY <1>3 DEF AddItem
      <4>2. ask.product \in Products \cup {None} /\ ask.quantity \in Quantities
        BY <1>0, <4>1 DEF Edits
      <4>3. p \in Products
        BY <2>2, <4>2
      <4>4. ask.quantity \in Nat
        BY <4>2, QuantityTypes
      <4>5. cartItems[c] \in [Products -> Nat]
        BY <1>0 DEF StoreTypeOK, Lines
      <4> QED BY <4>1, <4>3, <4>4, <4>5
    <3>2. WriteLine(e, p, n)
      BY <1>3, <2>2 DEF AddItem
    <3>3. \A q \in Products :
            Edited(ask, c, q) = IF q = p THEN n ELSE cartItems[c][q]
      BY <3>1 DEF Edited
    <3> QED BY <1>2, <3>1, <3>2, <3>3
  <2> QED BY <2>1, <2>2
<1>4. CASE ChangeItem(e)
  <2> DEFINE found == LineOf(c, ask.item)
  <2>1. CASE found = {}
    BY <1>1, <1>4, <2>1 DEF ChangeItem, Decline, Continue
  <2>2. ask.item \in ItemIds /\ ask.op \in {"update", "remove"}
    BY <1>0, <1>4 DEF ChangeItem, Edits
  <2>3. ASSUME NEW p \in found
        PROVE  /\ p \in Products
               /\ \A q \in Products : itemId[c][q] = ask.item <=> q = p
    <3>1. p \in Products /\ itemId[c][p] = ask.item
      BY <2>3 DEF LineOf
    <3>2. \A q \in Products : itemId[c][q] = ask.item => q \in found
      BY DEF LineOf
    <3> QED BY <1>0, <2>2, <3>1, <3>2, OneLine
  <2>4. CASE ask.op = "update" /\ \E p \in found : WriteLine(e, p, ask.quantity)
    <3>1. PICK p \in found : WriteLine(e, p, ask.quantity)
      BY <2>4
    <3>2. ask.quantity \in Nat
      BY <1>0, <2>4, QuantityTypes DEF Edits
    <3>3. \A q \in Products :
            Edited(ask, c, q) = IF q = p THEN ask.quantity ELSE cartItems[c][q]
      BY <2>3, <2>4 DEF Edited
    <3> QED BY <1>2, <2>3, <3>1, <3>2, <3>3
  <2>5. CASE /\ ask.op = "remove"
             /\ \E p \in found : write' = [write EXCEPT ![e] =
                                      [product |-> p, quantity |-> 0]]
             /\ Continue(e, "commit")
             /\ UNCHANGED result
    <3>1. PICK p \in found : Written(p, 0)
      BY <2>5 DEF Continue
    <3>2. \A q \in Products :
            Edited(ask, c, q) = IF q = p THEN 0 ELSE cartItems[c][q]
      BY <2>3, <2>5 DEF Edited
    <3>3. p \in Products /\ 0 <= Stock[p] /\ 0 \in Nat
      BY <2>3, CatalogueTypes
    <3> QED BY <3>1, <3>2, <3>3
  <2> QED BY <1>4, <2>1, <2>4, <2>5 DEF ChangeItem
<1> QED BY <1>3, <1>4

\* How a step of an edit changes what the edits have.
LEMMA EditOthersKept ==
    ASSUME CartsInv, NEW e \in Editors, EditBy(e), NEW f \in Editors, f # e
    PROVE  /\ edit'[f] = edit[f] /\ at'[f] = at[f]
           /\ write'[f] = write[f] /\ result'[f] = result[f]
    BY CartsInvTypes DEF CartsTypeOK, EditBy, EditStep, ArriveEdit,
       CreateCart, LockOpenCart, AddItem, ChangeItem, WriteLine,
       CommitEdit, ReadBack, EndEdit, AbortEdit, Decline, Continue

\* The commit of e writes n units and an id, old or fresh, on line p of cart c.
Puts(e, c, p, n, id) ==
    /\ c = edit[e].cart /\ n <= Stock[p]
    /\ cartStatus[c] = "open" /\ holder[c] = e
    /\ cartItems' = [cartItems EXCEPT ![c] = [@ EXCEPT ![p] = n]]
    /\ itemId' = [itemId EXCEPT ![c] = [@ EXCEPT ![p] = id]]
    /\ id = None <=> n = 0
    /\ \/ id = None \/ id = itemId[c][p]
       \/ id = e /\ \A d \in Carts : \A q \in Products : itemId[d][q] # e
    /\ \A q \in Products :
          Edited(edit[e], c, q) = IF q = p THEN n ELSE cartItems[c][q]

\* Only a commit changes a line or an id, and only one.
LEMMA CommitSteps ==
    ASSUME CartsInv, NEW e \in Editors, CommitEdit(e)
    PROVE  \E c \in Carts, p \in Products, n \in Nat, id \in ItemIds \cup {None} :
              Puts(e, c, p, n, id)
<1> DEFINE c == edit[e].cart
           p == write[e].product
           n == write[e].quantity
           id == NextId(e, c, p, n)
<1>1. CartsTypeOK /\ EditReservedBy(e) /\ at[e] = "commit" /\ c \in Carts
    BY CartsInvTypes, EditType DEF CommitEdit
<1>2. p \in Products /\ n \in Nat
    BY <1>1 DEF EditReservedBy, CartsTypeOK, Writes
<1>3. itemId[c][p] \in ItemIds \cup {None} /\ e \in ItemIds /\ e # None
  <2>1. itemId[c][p] \in ItemIds \cup {None} /\ e \in ItemIds
    BY <1>1, <1>2 DEF CartsTypeOK, ItemIds
  <2> QED BY <2>1, NoneIsNoEdit
<1>4. /\ id \in ItemIds \cup {None}
      /\ id = None <=> n = 0
      /\ id = None \/ id = itemId[c][p] \/ id = e
  <2>1. CASE n = 0
    BY <2>1 DEF NextId
  <2>2. CASE n > 0 /\ itemId[c][p] = None
    BY <1>2, <1>3, <2>2 DEF NextId
  <2>3. CASE n > 0 /\ itemId[c][p] # None
    BY <1>2, <1>3, <2>3 DEF NextId
  <2> QED BY <1>2, <2>1, <2>2, <2>3
<1>5. /\ cartItems' = [cartItems EXCEPT ![c] = [@ EXCEPT ![p] = n]]
      /\ itemId' = [itemId EXCEPT ![c] = [@ EXCEPT ![p] = id]]
    BY DEF CommitEdit
<1>6. /\ n <= Stock[p] /\ cartStatus[c] = "open" /\ holder[c] = e
      /\ \A q \in Products :
            Edited(edit[e], c, q) = IF q = p THEN n ELSE cartItems[c][q]
      /\ \A d \in Carts : \A q \in Products : itemId[d][q] # e
    BY <1>1 DEF EditReservedBy
<1>7. Puts(e, c, p, n, id)
  <2> HIDE DEF id
  <2> QED BY <1>4, <1>5, <1>6 DEF Puts
<1> HIDE DEF c, p, n, id
<1> QED BY <1>1, <1>2, <1>4, <1>7

LEMMA NoCommitKeepsLines ==
    ASSUME NEW e \in Editors, EditBy(e), ~ CommitEdit(e)
    PROVE  cartItems' = cartItems /\ itemId' = itemId
    BY DEF EditBy, EditStep, ArriveEdit, CreateCart, LockOpenCart,
       AddItem, ChangeItem, ReadBack, EndEdit, AbortEdit, store,
       tables

LEMMA EditKeepsLines ==
    ASSUME CartsInv, NEW e \in Editors, EditBy(e)
    PROVE  /\ itemId' \in [Carts -> [Products -> ItemIds \cup {None}]]
           /\ IdsNameLines' /\ LinesWithinStock'
<1>0. StoreTypeOK /\ CartsTypeOK /\ IdsNameLines /\ LinesWithinStock
    BY CartsInvTypes DEF CartsInv
<1>1. CASE ~ CommitEdit(e)
    BY <1>0, <1>1, NoCommitKeepsLines DEF IdsNameLines,
       LinesWithinStock, CartsTypeOK
<1>2. CASE CommitEdit(e)
  <2>1. PICK c \in Carts, p \in Products, n \in Nat,
             id \in ItemIds \cup {None} : Puts(e, c, p, n, id)
    BY <1>2, CommitSteps
  <2>2. /\ itemId' \in [Carts -> [Products -> ItemIds \cup {None}]]
        /\ \A d \in Carts : \A q \in Products :
              itemId'[d][q] = IF d = c /\ q = p THEN id ELSE itemId[d][q]
    BY <1>0, <2>1 DEF Puts, CartsTypeOK
  <2>3. \A d \in Carts : \A q \in Products :
          cartItems'[d][q] = IF d = c /\ q = p THEN n ELSE cartItems[d][q]
    BY <1>0, <2>1 DEF Puts, StoreTypeOK, Lines
  <2>4. IdsNameLines'
    <3>1. ASSUME NEW d \in Carts, NEW q \in Products
          PROVE  itemId'[d][q] # None <=> cartItems'[d][q] > 0
      BY <1>0, <2>1, <2>2, <2>3, <3>1 DEF Puts, IdsNameLines
    <3>2. ASSUME NEW d \in Carts, NEW q \in Products, itemId'[d][q] # None,
                 NEW f \in Carts, NEW s \in Products,
                 itemId'[f][s] = itemId'[d][q]
          PROVE  d = f /\ q = s
      BY <1>0, <2>1, <2>2, <3>2 DEF Puts, IdsNameLines
    <3> QED BY <3>1, <3>2 DEF IdsNameLines
  <2>5. LinesWithinStock'
    BY <1>0, <2>1, <2>3 DEF Puts, LinesWithinStock
  <2> QED BY <2>2, <2>4, <2>5
<1> QED BY <1>1, <1>2

\* No two carts change at once.
LEMMA EditOneCart ==
    ASSUME CartsInv, NEW e \in Editors, EditBy(e),
           NEW c \in Carts, cartItems'[c] # cartItems[c],
           NEW d \in Carts, cartItems'[d] # cartItems[d]
    PROVE  c = d
<1>1. CommitEdit(e)
    BY NoCommitKeepsLines
<1>2. PICK b \in Carts, p \in Products, n \in Nat,
           id \in ItemIds \cup {None} : Puts(e, b, p, n, id)
    BY <1>1, CommitSteps
<1> QED BY <1>2, CartsInvTypes DEF Puts, StoreTypeOK

----------------------------------------------------------------------------
(* What edits rely on. *)

LEMMA EditKeepsTypes ==
    ASSUME CartsInv, NEW e \in Editors, EditBy(e)
    PROVE  CartsTypeOK'
<1>0. CartsTypeOK /\ StoreTypeOK
    BY CartsInvTypes
<1>1. itemId' \in [Carts -> [Products -> ItemIds \cup {None}]]
    BY EditKeepsLines
<1>2. CASE ArriveEdit(e)
    BY <1>0, <1>1, <1>2 DEF ArriveEdit, Continue, CartsTypeOK
<1>3. CASE AddItem(e) \/ ChangeItem(e)
  <2>1. edit' = edit
    BY <1>3 DEF AddItem, ChangeItem
  <2>2. CASE /\ at' = [at EXCEPT ![e] = "unwind"]
             /\ result' \in [Editors -> Results]
             /\ write' = write
    BY <1>0, <1>1, <2>1, <2>2 DEF CartsTypeOK
  <2>3. CASE /\ at' = [at EXCEPT ![e] = "commit"]
             /\ result' = result
             /\ \E p \in Products, n \in Nat :
                   write' = [write EXCEPT ![e] = [product |-> p, quantity |-> n]]
    <3>1. write' \in [Editors -> Writes \cup {None}]
      BY <1>0, <2>3 DEF CartsTypeOK, Writes
    <3> QED BY <1>0, <1>1, <2>1, <2>3, <3>1 DEF CartsTypeOK
  <2> QED BY <1>3, <2>2, <2>3, WriteSteps
<1>4. CASE CreateCart(e) \/ CommitEdit(e)
    BY <1>0, <1>1, <1>4 DEF CreateCart, CommitEdit, Continue,
       CartsTypeOK, Results
<1>5. CASE LockOpenCart(e)
    BY <1>0, <1>1, <1>5 DEF LockOpenCart, Decline, Continue,
       CartsTypeOK, Results
<1>6. CASE ReadBack(e) \/ EndEdit(e) \/ AbortEdit(e)
    BY <1>0, <1>1, <1>6 DEF ReadBack, EndEdit, AbortEdit, Continue,
       CartsTypeOK, Results
<1> QED BY <1>2, <1>3, <1>4, <1>5, <1>6 DEF EditBy, EditStep

\* Carts are created by one edit each.
LEMMA EditKeepsCreators ==
    ASSUME CartsInv, NEW e \in Editors, EditBy(e)
    PROVE  \A f, g \in Editors : \A c \in Carts :
              CreatesCart(f, c)' /\ CreatesCart(g, c)' => f = g
<1>0. /\ CartsTypeOK
      /\ \A f, g \in Editors : \A c \in Carts :
            CreatesCart(f, c) /\ CreatesCart(g, c) => f = g
    BY CartsInvTypes DEF CartsInv, EditsReserved
<1>1. CASE ArriveEdit(e)
  <2>1. PICK ask \in Edits :
          /\ ask.op = "create" => FreshCart(ask.cart)
          /\ edit' = [edit EXCEPT ![e] = ask]
    BY <1>1 DEF ArriveEdit
  <2>2. edit'[e] = ask /\ \A f \in Editors : f # e => edit'[f] = edit[f]
    BY <1>0, <2>1 DEF CartsTypeOK
  <2>3. ASSUME NEW f \in Editors, f # e, NEW c \in Carts
        PROVE  ~ (CreatesCart(e, c)' /\ CreatesCart(f, c)')
    BY <2>1, <2>2, <2>3 DEF CreatesCart, FreshCart
  <2> QED BY <1>0, <2>2, <2>3 DEF CreatesCart
<1>2. CASE ~ ArriveEdit(e)
  <2>1. edit' = edit
    BY <1>2 DEF EditBy, EditStep, CreateCart, LockOpenCart, AddItem,
       ChangeItem, CommitEdit, ReadBack, EndEdit, AbortEdit
  <2> QED BY <1>0, <2>1 DEF CreatesCart
<1> QED BY <1>1, <1>2

\* An edit holds only its own cart, and only from the lock to the end.
LEMMA EditKeepsLocks ==
    ASSUME CartsInv, LocksReleased, NEW e \in Editors, EditBy(e)
    PROVE  LocksReleased'
<1> SUFFICES ASSUME NEW f \in Editors, NEW row \in Rows, holder'[row] = f
             PROVE  /\ row = edit'[f].cart
                    /\ at'[f] \in {"check", "commit", "unwind"}
    BY DEF LocksReleased, Rows
<1>0. StoreTypeOK /\ CartsTypeOK /\ f # None
    BY CartsInvTypes, EditorsAreRequests, RowsDistinct
<1>1. CASE f # e
  <2>1. holder[row] = f
    BY <1>1, EditLockSteps, EditorsAreRequests
  <2> QED BY <1>1, <2>1, EditOthersKept DEF LocksReleased
<1> SUFFICES ASSUME f = e
             PROVE  /\ row = edit'[e].cart
                    /\ at'[e] \in {"check", "commit", "unwind"}
    BY <1>1
<1>2. CASE CommitEdit(e) \/ EndEdit(e) \/ AbortEdit(e)
    BY <1>0, <1>2 DEF CommitEdit, EndEdit, AbortEdit, ReleaseAll
<1>3. CASE LockOpenCart(e)
  <2>1. edit[e].cart \in Rows /\ holder[row] # e /\ edit' = edit
    BY <1>3, EditType DEF LockOpenCart, LocksReleased
  <2>2. /\ Take(e, edit[e].cart)
        /\ at' = [at EXCEPT ![e] = "check"] \/ at' = [at EXCEPT ![e] = "unwind"]
    BY <1>3, <2>1 DEF LockOpenCart, Decline, Continue
  <2> QED BY <1>0, <2>1, <2>2 DEF Take, StoreTypeOK, CartsTypeOK
<1>4. CASE AddItem(e) \/ ChangeItem(e)
  <2>1. holder' = holder /\ edit' = edit
    BY <1>4 DEF AddItem, ChangeItem, store
  <2>2. at'[e] \in {"commit", "unwind"}
    BY <1>0, <1>4, WriteSteps DEF CartsTypeOK
  <2> QED BY <2>1, <2>2 DEF LocksReleased
<1>5. CASE ArriveEdit(e) \/ CreateCart(e) \/ ReadBack(e)
  <2>1. holder' = holder /\ at[e] \in {"idle", "create", "readback"}
    BY <1>5 DEF ArriveEdit, CreateCart, ReadBack, store
  <2> QED BY <2>1 DEF LocksReleased
<1> QED BY <1>2, <1>3, <1>4, <1>5 DEF EditBy, EditStep

\* Another edit keeps what it has found: its cart is locked, or not yet there.
LEMMA EditKeepsOthersReserved ==
    ASSUME CartsInv, NEW e \in Editors, EditBy(e), NEW f \in Editors, f # e
    PROVE  EditReservedBy(f)'
<1> DEFINE c == edit[f].cart
<1>0. EditReservedBy(f) /\ CartsTypeOK /\ StoreTypeOK
    BY CartsInvTypes
<1>1. /\ edit'[f] = edit[f] /\ at'[f] = at[f]
      /\ write'[f] = write[f] /\ result'[f] = result[f]
    BY EditOthersKept
<1>2. at[f] # "idle" => c \in Carts /\ c \in Rows
    BY EditType
<1>3. at[f] \in {"check", "commit"} => holder'[c] = f /\ cartStatus'[c] = "open"
  <2> SUFFICES ASSUME at[f] \in {"check", "commit"}
               PROVE  holder'[c] = f /\ cartStatus'[c] = "open"
    OBVIOUS
  <2>1. holder[c] = f /\ cartStatus[c] = "open" /\ f \in Requests
    BY <1>0, EditorsAreRequests DEF EditReservedBy
  <2> QED BY <1>2, <2>1, EditLockSteps, EditTables
<1>4. at[f] = "create" => cartStatus'[c] = "absent"
  <2> SUFFICES ASSUME at[f] = "create" PROVE cartStatus'[c] = "absent"
    OBVIOUS
  <2>1. cartStatus[c] = "absent" /\ CreatesCart(f, c) /\ c \in Carts
    BY <1>0, <1>2 DEF EditReservedBy, CreatesCart
  <2>2. ~ CreatesCart(e, c)
    BY <2>1 DEF CartsInv, EditsReserved
  <2>3. CASE CreateCart(e)
    <3>1. edit[e].cart # c
      BY <2>2, <2>3, CartsInvTypes DEF CreateCart, CreatesCart,
         EditReservedBy
    <3> QED BY <1>0, <2>1, <2>3, <3>1 DEF CreateCart, StoreTypeOK
  <2>4. CASE ~ CreateCart(e)
    BY <2>1, <2>4 DEF EditBy, EditStep, ArriveEdit, LockOpenCart,
       AddItem, ChangeItem, CommitEdit, ReadBack, EndEdit,
       AbortEdit, store, tables
  <2> QED BY <2>3, <2>4
<1>5. at[f] = "commit" => cartItems'[c] = cartItems[c] /\ itemId'[c] = itemId[c]
  <2> SUFFICES ASSUME at[f] = "commit"
               PROVE  cartItems'[c] = cartItems[c] /\ itemId'[c] = itemId[c]
    OBVIOUS
  <2>1. holder[c] = f /\ c \in Carts
    BY <1>0, <1>2 DEF EditReservedBy
  <2>2. CASE CommitEdit(e)
    <3>1. PICK d \in Carts, p \in Products, n \in Nat,
               id \in ItemIds \cup {None} : Puts(e, d, p, n, id)
      BY <2>2, CommitSteps
    <3>2. c # d
      BY <2>1, <3>1 DEF Puts
    <3> QED BY <1>0, <2>1, <3>1, <3>2 DEF Puts, StoreTypeOK, CartsTypeOK
  <2> QED BY <2>2, NoCommitKeepsLines
<1>6. at[f] \in {"idle", "create", "lock", "check", "commit"} =>
          \A d \in Carts : \A p \in Products : itemId'[d][p] # f
  <2> SUFFICES ASSUME \A d \in Carts : \A p \in Products : itemId[d][p] # f
               PROVE  \A d \in Carts : \A p \in Products : itemId'[d][p] # f
    BY <1>0 DEF EditReservedBy
  <2>1. CASE CommitEdit(e)
    <3>1. PICK d \in Carts, p \in Products, n \in Nat,
               id \in ItemIds \cup {None} : Puts(e, d, p, n, id)
      BY <2>1, CommitSteps
    <3>2. f # None
      BY NoneIsNoEdit DEF ItemIds
    <3>3. id # f
      BY <3>1, <3>2 DEF Puts
    <3> QED BY <1>0, <3>1, <3>3 DEF Puts, CartsTypeOK
  <2> QED BY <2>1, NoCommitKeepsLines
<1> QED BY <1>0, <1>1, <1>3, <1>4, <1>5, <1>6 DEF EditReservedBy, Edited

\* An edit relies on what it has just found.
LEMMA EditKeepsOwnReserved ==
    ASSUME CartsInv, NEW e \in Editors, EditBy(e)
    PROVE  EditReservedBy(e)'
<1> DEFINE c == edit[e].cart
<1>0. EditReservedBy(e) /\ CartsTypeOK /\ StoreTypeOK
    BY CartsInvTypes
<1>1. CASE ArriveEdit(e)
  <2>1. PICK ask \in Edits :
          /\ ask.op = "create" => FreshCart(ask.cart)
          /\ edit' = [edit EXCEPT ![e] = ask]
          /\ at' = [at EXCEPT ![e] = IF ask.op = "create" THEN "create" ELSE "lock"]
          /\ UNCHANGED <<store, itemId, write, result>>
          /\ at[e] = "idle"
    BY <1>1 DEF ArriveEdit, Continue
  <2>2. /\ edit'[e] = ask /\ ask # None
        /\ at'[e] = IF ask.op = "create" THEN "create" ELSE "lock"
    BY <1>0, <2>1, NoneIsNoEdit DEF CartsTypeOK
  <2>3. ask.op = "create" => cartStatus[ask.cart] = "absent"
    BY <2>1 DEF FreshCart
  <2> QED BY <1>0, <2>1, <2>2, <2>3 DEF EditReservedBy, store, tables
<1>2. CASE LockOpenCart(e)
  <2>1. c \in Carts /\ c \in Rows
    BY <1>2, EditType DEF LockOpenCart
  <2>2. CASE Take(e, c) /\ cartStatus[c] = "open" /\ at' = [at EXCEPT ![e] = "check"]
             /\ UNCHANGED <<result, tables, itemId, edit, write>>
    <3>1. holder'[c] = e /\ at'[e] = "check"
      BY <1>0, <2>1, <2>2 DEF Take, StoreTypeOK, CartsTypeOK
    <3> QED BY <1>0, <1>2, <2>2, <3>1 DEF LockOpenCart, EditReservedBy, tables
  <2>3. CASE at' = [at EXCEPT ![e] = "unwind"] /\ edit' = edit
    BY <1>0, <1>2, <2>3 DEF LockOpenCart, EditReservedBy, CartsTypeOK
  <2> QED BY <1>2, <2>2, <2>3 DEF LockOpenCart, Decline, Continue
<1>3. CASE AddItem(e) \/ ChangeItem(e)
  <2>1. /\ at[e] = "check" /\ edit' = edit /\ itemId' = itemId
        /\ UNCHANGED <<cartStatus, cartItems, holder>>
    BY <1>3 DEF AddItem, ChangeItem, store, tables
  <2>2. CASE at' = [at EXCEPT ![e] = "unwind"]
    BY <1>0, <2>1, <2>2 DEF EditReservedBy, CartsTypeOK
  <2>3. ASSUME at' = [at EXCEPT ![e] = "commit"], result' = result,
               NEW p \in Products, NEW n \in Nat,
               write' = [write EXCEPT ![e] = [product |-> p, quantity |-> n]],
               n <= Stock[p],
               \A q \in Products :
                   Edited(edit[e], c, q) = IF q = p THEN n ELSE cartItems[c][q]
        PROVE  EditReservedBy(e)'
    <3>1. /\ write'[e].product = p /\ write'[e].quantity = n
          /\ at'[e] = "commit"
      BY <1>0, <2>3 DEF CartsTypeOK
    <3>2. write'[e] \in Writes
      BY <1>0, <2>3 DEF CartsTypeOK, Writes
    <3>3. \A q \in Products : Edited(edit[e], c, q)' = Edited(edit[e], c, q)
      BY <2>1 DEF Edited
    <3> QED BY <1>0, <2>1, <2>3, <3>1, <3>2, <3>3 DEF EditReservedBy
  <2> QED BY <1>3, <2>2, <2>3, WriteSteps
<1>4. CASE CreateCart(e) \/ CommitEdit(e)
    BY <1>0, <1>4 DEF CreateCart, CommitEdit, Continue, EditReservedBy,
       CartsTypeOK
<1>5. CASE ReadBack(e) \/ EndEdit(e) \/ AbortEdit(e)
    BY <1>0, <1>5 DEF ReadBack, EndEdit, AbortEdit, Continue,
       EditReservedBy, CartsTypeOK
<1> QED BY <1>1, <1>2, <1>3, <1>4, <1>5 DEF EditBy, EditStep

----------------------------------------------------------------------------
(* The properties. *)

LEMMA EditApplies ==
    ASSUME CartsInv, NEW e \in Editors, EditBy(e), NEW c \in Carts,
           cartItems'[c] # cartItems[c]
    PROVE  /\ cartStatus[c] = "open" /\ cartStatus'[c] = "open"
           /\ result[e] = "NONE" /\ result'[e] = "OK"
           /\ \A p \in Products : cartItems'[c][p] = Edited(edit[e], c, p)
<1>0. StoreTypeOK /\ CartsTypeOK /\ EditReservedBy(e)
    BY CartsInvTypes
<1>1. CommitEdit(e)
    BY NoCommitKeepsLines
<1>2. PICK d \in Carts, p \in Products, n \in Nat,
           id \in ItemIds \cup {None} : Puts(e, d, p, n, id)
    BY <1>1, CommitSteps
<1>3. c = d
    BY <1>0, <1>2 DEF Puts, StoreTypeOK
<1>4. \A q \in Products : cartItems'[c][q] = Edited(edit[e], c, q)
    BY <1>0, <1>2, <1>3 DEF Puts, StoreTypeOK, Lines
<1>5. cartStatus[c] = "open" /\ cartStatus'[c] = "open"
    BY <1>1, <1>2, <1>3 DEF Puts, CommitEdit
<1>6. result[e] = "NONE" /\ result'[e] = "OK"
    BY <1>0, <1>1 DEF CommitEdit, EditReservedBy, CartsTypeOK
<1> QED BY <1>4, <1>5, <1>6

\* To begin with: each line has its own id and is within the stock.
LEMMA EditsBegin ==
    ASSUME StoreTypeOK, StoreInit, CartsInit
    PROVE  CartsInv
<1>1. CartsTypeOK
    BY DEF CartsInit, CartsTypeOK, ItemIds, Results
<1>2. EditsReserved
  <2>1. ASSUME NEW e \in Editors PROVE EditReservedBy(e)
    <3>1. \A d \in Carts : \A p \in Products : itemId[d][p] # e
      BY NoneIsNoEdit, <2>1 DEF CartsInit, ItemIds
    <3> QED BY <3>1 DEF CartsInit, EditReservedBy
  <2>2. \A e \in Editors : edit[e] = None
    BY DEF CartsInit
  <2> QED BY <2>1, <2>2 DEF EditsReserved, CreatesCart
<1>3. /\ cartItems \in [Carts -> Baskets \cup {EmptyLines}]
      /\ \A c \in Carts : \A p \in Products :
            cartItems[c][p] \in Nat /\ cartItems[c][p] <= Stock[p]
    BY BasketTypes, CatalogueTypes DEF StoreInit, EmptyLines, Lines
<1>4. IdsNameLines
  <2>1. \A c \in Carts : \A p \in Products : <<c, p>> # None
    BY NoneIsNoEdit DEF ItemIds
  <2> QED BY <2>1 DEF IdsNameLines, CartsInit
<1>5. LinesWithinStock /\ \A p \in Products : inventory[p] <= Stock[p]
    BY <1>3, CatalogueTypes DEF LinesWithinStock, StoreInit
<1> QED BY <1>1, <1>2, <1>4, <1>5 DEF CartsInv, TypeOK

LEMMA StoreBegins == StoreInit => StoreTypeOK
<1> SUFFICES ASSUME StoreInit PROVE StoreTypeOK
    OBVIOUS
<1>1. cartItems \in [Carts -> Lines]
    BY BasketTypes DEF StoreInit, Lines, EmptyLines
<1> QED BY <1>1, CatalogueTypes
        DEF StoreInit, StoreTypeOK, CartStatus, CouponStatus

LEMMA EditKeepsInv ==
    ASSUME CartsInv, NEW e \in Editors, EditBy(e)
    PROVE  CartsInv'
<1>1. StoreTypeOK'
    BY CartsInvTypes, EditTables DEF StoreTypeOK
<1>2. CartsTypeOK' /\ IdsNameLines' /\ LinesWithinStock'
    BY EditKeepsTypes, EditKeepsLines
<1>3. EditsReserved'
    BY EditKeepsOwnReserved, EditKeepsOthersReserved, EditKeepsCreators
       DEF EditsReserved
<1>4. \A p \in Products : inventory'[p] <= Stock[p]
    BY EditTables DEF CartsInv
<1> QED BY <1>1, <1>2, <1>3, <1>4 DEF CartsInv, TypeOK

\* What edits rely on is a matter of the carts, their locks and their own state.
LEMMA CartsInvStays ==
    ASSUME CartsInv, UNCHANGED <<store, editVars>>
    PROVE  CartsInv'
    BY DEF CartsInv, TypeOK, StoreTypeOK, CartsTypeOK, EditsReserved,
       EditReservedBy, Edited, CreatesCart, IdsNameLines, LinesWithinStock,
       store, tables, editVars

LEMMA CartsStep == CartsInv /\ [Next]_vars => CartsInv'
    BY EditKeepsInv, CartsInvStays DEF Next, EditBy, vars

LEMMA CartsInvariance == Spec => []CartsInv
<1>1. Init => CartsInv
    BY StoreBegins, EditsBegin DEF Init
<1> QED BY <1>1, CartsStep, PTL DEF Spec

\* Every variable keeps its type; in particular no edit is committed of a line
\* that is not of a product.
THEOREM EditsTyped == Spec => []TypeOK
    BY CartsInvariance, PTL DEF CartsInv

\* What an edit has checked of its cart still holds as it commits.
THEOREM EditsKeepWhatTheyFound == Spec => []EditsReserved
    BY CartsInvariance, PTL DEF CartsInv

\* However many adds a line grew by, it was within the stock each time.
THEOREM LinesCovered == Spec => []LinesWithinStock
    BY CartsInvariance, PTL DEF CartsInv

\* An item id names one line of one cart for as long as the line is there.
THEOREM IdsUnique == Spec => []IdsNameLines
    BY CartsInvariance, PTL DEF CartsInv

\* An edit locks nothing but its cart, and nothing while it waits or once it is
\* over.
THEOREM LocksEnd == Spec => []LocksReleased
<1>1. Init => LocksReleased
    BY EditorsAreRequests, RowsDistinct DEF Init, StoreInit, LocksReleased
<1>2. CartsInv /\ LocksReleased /\ [Next]_vars => LocksReleased'
  <2> SUFFICES ASSUME CartsInv, LocksReleased, [Next]_vars PROVE LocksReleased'
    OBVIOUS
  <2>1. CASE UNCHANGED vars
    BY <2>1 DEF LocksReleased, vars, store, editVars
  <2> QED BY <2>1, EditKeepsLocks DEF Next, EditBy
<1> QED BY <1>1, <1>2, CartsInvariance, PTL DEF Spec

\* Every change of a cart is one whole edit, as it was asked.
THEOREM EditsLand == Spec => EditsApplied
<1>1. CartsInv /\ [Next]_vars =>
        [\A c \in Carts : cartItems'[c] # cartItems[c] =>
            /\ cartStatus[c] = "open" /\ cartStatus'[c] = "open"
            /\ \E e \in Editors :
                  /\ result[e] = "NONE" /\ result'[e] = "OK"
                  /\ \A p \in Products :
                        cartItems'[c][p] = Edited(edit[e], c, p)]_vars
    BY EditApplies DEF Next, EditBy
<1> QED BY <1>1, CartsInvariance, PTL DEF Spec, EditsApplied

============================================================================
