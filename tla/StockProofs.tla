---------------------------- MODULE StockProofs ----------------------------
(***************************************************************************)
(* Theorems about the totals of Checkout: the units of a product over all  *)
(* orders, and the cents of a cart.  Both are sums over finite sets.  What *)
(* a sum is, and how it changes, is shown first; induction over sets and   *)
(* numbers is an argument about a smallest counterexample.                 *)
(***************************************************************************)
EXTENDS LockProofs, FiniteSetTheorems

(* Two forms of induction, over a set of what has the property. *)

LEMMA NumberInduction ==
    ASSUME NEW T, 0 \in T, \A n \in Nat : n \in T => n + 1 \in T
    PROVE  Nat \subseteq T
<1> SUFFICES ASSUME Nat \ T # {} PROVE FALSE
    OBVIOUS
<1>1. PICK m \in Nat \ T : \A k \in Nat \ T : m <= k
    BY SmallestExists
<1>2. m # 0 /\ m - 1 \in Nat /\ m - 1 \in T
    BY <1>1
<1> QED BY <1>1, <1>2

\* The element that a sum takes first.
Pick(s) == CHOOSE x \in s : TRUE

LEMMA Picked == ASSUME NEW s, s # {} PROVE Pick(s) \in s
    BY DEF Pick

LEMMA SmallerSet ==
    ASSUME NEW s, IsFiniteSet(s), s # {}
    PROVE  /\ IsFiniteSet(s \ {Pick(s)})
           /\ Cardinality(s) \in Nat
           /\ Cardinality(s \ {Pick(s)}) = Cardinality(s) - 1
    BY Picked, FS_RemoveElement, FS_CardinalityType

LEMMA SetInduction ==
    ASSUME NEW D, IsFiniteSet(D), NEW T, {} \in T,
           \A s \in SUBSET D : s # {} /\ s \ {Pick(s)} \in T => s \in T
    PROVE  SUBSET D \subseteq T
<1> DEFINE Sizes == {Cardinality(s) : s \in (SUBSET D) \ T}
<1> SUFFICES ASSUME (SUBSET D) \ T # {} PROVE FALSE
    OBVIOUS
<1>1. \A s \in SUBSET D : IsFiniteSet(s) /\ Cardinality(s) \in Nat
    BY FS_Subset, FS_CardinalityType
<1>2. PICK s \in (SUBSET D) \ T :
         \A t \in (SUBSET D) \ T : Cardinality(s) <= Cardinality(t)
  <2>1. Sizes \subseteq Nat /\ Sizes # {}
    BY <1>1
  <2>2. PICK m \in Sizes : \A k \in Sizes : m <= k
    BY <2>1, SmallestExists
  <2> QED BY <2>2
<1>3. s # {} /\ IsFiniteSet(s)
    BY <1>1
<1>4. s \ {Pick(s)} \notin T
    OBVIOUS
<1>5. Cardinality(s \ {Pick(s)}) = Cardinality(s) - 1 /\ Cardinality(s) \in Nat
    BY <1>3, SmallerSet
<1> QED BY <1>2, <1>4, <1>5

----------------------------------------------------------------------------
(* Sums. *)

\* What a table g of sums of f has at the set s.
Entry(f, g, s) == IF s = {} THEN 0 ELSE f[Pick(s)] + g[s \ {Pick(s)}]

\* The table of which SumFunction takes the last entry.
SumTo(f) == CHOOSE g : g = [s \in SUBSET (DOMAIN f) |->
                IF s = {} THEN 0 ELSE f[Pick(s)] + g[s \ {Pick(s)}]]

LEMMA SumIsLastEntry == \A f : SumFunction(f) = SumTo(f)[DOMAIN f]
    BY DEF SumFunction, SumFunctionOnSet, FoldFunctionOnSet, MapThenFoldSet,
       SumTo, Pick

Small(D, n) == {s \in SUBSET D : Cardinality(s) <= n}

\* A table of the sums over small sets grows into one over larger sets.
LEMMA TablesGrow ==
    ASSUME NEW f, IsFiniteSet(DOMAIN f), NEW n \in Nat
    PROVE  \E g : g = [s \in Small(DOMAIN f, n) |-> Entry(f, g, s)]
<1> DEFINE D == DOMAIN f
           Table(m) == \E g : g = [s \in Small(D, m) |-> Entry(f, g, s)]
           T == {m \in Nat : Table(m)}
<1>1. \A s \in SUBSET D : IsFiniteSet(s) /\ Cardinality(s) \in Nat
    BY FS_Subset, FS_CardinalityType
<1>2. 0 \in T
  <2>1. \A s \in Small(D, 0) : s = {}
    BY <1>1, FS_EmptySet DEF Small
  <2> DEFINE g == [s \in Small(D, 0) |-> 0]
  <2>2. g = [s \in Small(D, 0) |-> Entry(f, g, s)]
    BY <2>1 DEF Entry
  <2> QED BY <2>2
<1>3. ASSUME NEW m \in Nat, m \in T PROVE m + 1 \in T
  <2>1. PICK g : g = [s \in Small(D, m) |-> Entry(f, g, s)]
    BY <1>3
  <2> DEFINE h == [s \in Small(D, m + 1) |-> Entry(f, g, s)]
  <2>2. \A s \in Small(D, m) : s \in Small(D, m + 1) /\ h[s] = g[s]
    <3>1. \A s \in Small(D, m) : s \in Small(D, m + 1)
      BY <1>1 DEF Small
    <3>2. \A s \in Small(D, m) : g[s] = Entry(f, g, s)
      BY <2>1
    <3> QED BY <3>1, <3>2
  <2>3. ASSUME NEW s \in Small(D, m + 1) PROVE Entry(f, g, s) = Entry(f, h, s)
    <3>1. CASE s = {}
      BY <3>1 DEF Entry
    <3>2. CASE s # {}
      <4>1. s \in SUBSET D /\ Cardinality(s) <= m + 1 /\ IsFiniteSet(s)
        BY <1>1 DEF Small
      <4>2. s \ {Pick(s)} \in Small(D, m)
        BY <3>2, <4>1, SmallerSet DEF Small
      <4>3. h[s \ {Pick(s)}] = g[s \ {Pick(s)}]
        BY <2>2, <4>2
      <4> HIDE DEF h
      <4> QED BY <4>3 DEF Entry
    <3> QED BY <3>1, <3>2
  <2>4. h = [s \in Small(D, m + 1) |-> Entry(f, h, s)]
    BY <2>3
  <2> HIDE DEF h
  <2> QED BY <2>4
<1>4. n \in T
  <2> HIDE DEF T
  <2> QED BY <1>2, <1>3, NumberInduction
<1> QED BY <1>4

\* The fold's defining equation has a solution, so its sums are the ones meant.
LEMMA SumEquation ==
    ASSUME NEW f, IsFiniteSet(DOMAIN f)
    PROVE  \A s \in SUBSET (DOMAIN f) : SumTo(f)[s] = Entry(f, SumTo(f), s)
<1>1. \A s \in SUBSET (DOMAIN f) : Cardinality(s) <= Cardinality(DOMAIN f)
    BY FS_Subset
<1>2. Small(DOMAIN f, Cardinality(DOMAIN f)) = SUBSET (DOMAIN f)
    BY <1>1 DEF Small
<1>3. \E g : g = [s \in SUBSET (DOMAIN f) |-> Entry(f, g, s)]
  <2>1. Cardinality(DOMAIN f) \in Nat
    BY FS_CardinalityType
  <2>2. PICK g : g = [s \in Small(DOMAIN f, Cardinality(DOMAIN f)) |->
                         Entry(f, g, s)]
    BY <2>1, TablesGrow
  <2> QED BY <1>2, <2>2
<1>4. SumTo(f) = [s \in SUBSET (DOMAIN f) |-> Entry(f, SumTo(f), s)]
    BY <1>3 DEF SumTo, Entry
<1> QED BY <1>4

\* A sum of natural numbers is one.
LEMMA SumType ==
    ASSUME NEW D, IsFiniteSet(D), NEW f \in [D -> Nat]
    PROVE  SumFunction(f) \in Nat
<1> DEFINE T == {s \in SUBSET D : SumTo(f)[s] \in Nat}
<1>0. DOMAIN f = D /\ \A x \in D : f[x] \in Nat
    OBVIOUS
<1>1. \A s \in SUBSET D : SumTo(f)[s] = Entry(f, SumTo(f), s)
    BY <1>0, SumEquation
<1>2. {} \in T
    BY <1>1 DEF Entry
<1>3. ASSUME NEW s \in SUBSET D, s # {}, s \ {Pick(s)} \in T PROVE s \in T
    BY <1>0, <1>1, <1>3, Picked DEF Entry
<1>4. D \in T
  <2> HIDE DEF T
  <2> QED BY <1>2, <1>3, SetInduction
<1> QED BY <1>0, <1>4, SumIsLastEntry

\* A sum of nothing is zero.
LEMMA SumOfZeros ==
    ASSUME NEW D, IsFiniteSet(D), NEW f \in [D -> Nat], \A x \in D : f[x] = 0
    PROVE  SumFunction(f) = 0
<1> DEFINE T == {s \in SUBSET D : SumTo(f)[s] = 0}
<1>0. DOMAIN f = D
    OBVIOUS
<1>1. \A s \in SUBSET D : SumTo(f)[s] = Entry(f, SumTo(f), s)
    BY <1>0, SumEquation
<1>2. {} \in T
    BY <1>1 DEF Entry
<1>3. ASSUME NEW s \in SUBSET D, s # {}, s \ {Pick(s)} \in T PROVE s \in T
  <2>1. Pick(s) \in D /\ f[Pick(s)] = 0
    BY <1>3, Picked
  <2>2. SumTo(f)[s] = f[Pick(s)] + SumTo(f)[s \ {Pick(s)}]
    BY <1>1, <1>3 DEF Entry
  <2> QED BY <1>3, <2>1, <2>2
<1>4. D \in T
  <2> HIDE DEF T
  <2> QED BY <1>2, <1>3, SetInduction
<1> QED BY <1>0, <1>4, SumIsLastEntry

\* Where one value changes, the sum changes by as much.
LEMMA SumOfChange ==
    ASSUME NEW D, IsFiniteSet(D), NEW f \in [D -> Nat], NEW g \in [D -> Nat],
           NEW r \in D, \A x \in D \ {r} : g[x] = f[x]
    PROVE  /\ SumFunction(f) \in Nat /\ SumFunction(g) \in Nat
           /\ SumFunction(g) = SumFunction(f) + g[r] - f[r]
<1> DEFINE T == {s \in SUBSET D :
                    /\ SumTo(f)[s] \in Int /\ SumTo(g)[s] \in Int
                    /\ SumTo(g)[s] = SumTo(f)[s] +
                          (IF r \in s THEN g[r] - f[r] ELSE 0)}
<1>0. DOMAIN f = D /\ DOMAIN g = D /\ \A x \in D : f[x] \in Int /\ g[x] \in Int
    OBVIOUS
<1>1. \A s \in SUBSET D : /\ SumTo(f)[s] = Entry(f, SumTo(f), s)
                          /\ SumTo(g)[s] = Entry(g, SumTo(g), s)
    BY <1>0, SumEquation
<1>2. {} \in T
  <2>1. SumTo(f)[{}] = 0 /\ SumTo(g)[{}] = 0
    BY <1>1 DEF Entry
  <2> QED BY <2>1
<1>3. ASSUME NEW s \in SUBSET D, s # {}, s \ {Pick(s)} \in T PROVE s \in T
  <2>1. Pick(s) \in s /\ Pick(s) \in D
    BY <1>3, Picked
  <2>2. /\ SumTo(f)[s] = f[Pick(s)] + SumTo(f)[s \ {Pick(s)}]
        /\ SumTo(g)[s] = g[Pick(s)] + SumTo(g)[s \ {Pick(s)}]
    BY <1>1, <1>3 DEF Entry
  <2>3. CASE Pick(s) = r
    BY <1>0, <1>3, <2>1, <2>2, <2>3
  <2>4. CASE Pick(s) # r
    BY <1>0, <1>3, <2>1, <2>2, <2>4
  <2> QED BY <2>3, <2>4
<1>4. D \in T
  <2> HIDE DEF T
  <2> QED BY <1>2, <1>3, SetInduction
<1> QED BY <1>0, <1>4, SumIsLastEntry, SumType

----------------------------------------------------------------------------
(* The stock. *)

\* Units of p as a function of the request whose order holds them.
Share(p) == [s \in Requests |-> IF Made(s) THEN orders[s].lines[p] ELSE 0]

LEMMA ShareType ==
    ASSUME TypeOK, NEW p \in Products PROVE Share(p) \in [Requests -> Nat]
    BY NoneIsNoRow DEF Share, Made, TypeOK, StoreTypeOK, Orders, Lines

LEMMA ShareTypeNext ==
    ASSUME TypeOK', NEW p \in Products PROVE Share(p)' \in [Requests -> Nat]
    BY NoneIsNoRow DEF Share, Made, TypeOK, StoreTypeOK, Orders, Lines

LEMMA InitStock == ASSUME IsFiniteSet(Requests), Init PROVE StockConserved
<1> SUFFICES ASSUME NEW p \in Products PROVE inventory[p] + Units(p) = Stock[p]
    BY DEF StockConserved
<1>1. Share(p) \in [Requests -> Nat]
    BY InitIInv, ShareType DEF IInv
<1>2. \A s \in Requests : Share(p)[s] = 0
    BY DEF Share, Made, Init, StoreInit
<1>3. Units(p) = 0
    BY <1>1, <1>2, SumOfZeros DEF Units, Share
<1> QED BY <1>3, CatalogueTypes DEF Init, StoreInit

\* A commit moves from the shelf to its order what the order's lines say.
LEMMA CommitStock ==
    ASSUME IsFiniteSet(Requests), IInv, IInv', StockConserved,
           NEW r \in Buyers, Commit(r)
    PROVE  StockConserved'
<1> SUFFICES ASSUME NEW p \in Products
             PROVE  inventory'[p] + Units(p)' = Stock[p]
    BY DEF StockConserved
<1>0. TypeOK /\ TypeOK' /\ Progress /\ ReservedBy(r) /\ r \in Requests
    BY BuyersAreRequests DEF IInv, Reserved
<1>1. Share(p) \in [Requests -> Nat] /\ Share(p)' \in [Requests -> Nat]
    BY <1>0, ShareType, ShareTypeNext
<1>2. /\ pc[r] = "commit"
      /\ inventory'[p] = inventory[p] - lines[r][p]
      /\ orders' = [orders EXCEPT ![r] = draft[r]]
    BY DEF Commit, PublishSale
<1>3. draft[r] \in Orders /\ draft[r].lines = lines[r]
    BY <1>0, <1>2 DEF ReservedBy, NewOrder, OrderFor
<1>4. Share(p)[r] = 0
    BY <1>0, <1>2 DEF Progress, Share
<1>5. Share(p)'[r] = lines[r][p]
    BY <1>0, <1>2, <1>3, NoneIsNoRow DEF Share, Made, TypeOK, StoreTypeOK
<1>6. \A s \in Requests \ {r} : Share(p)'[s] = Share(p)[s]
    BY <1>0, <1>2 DEF Share, Made, TypeOK, StoreTypeOK
<1>7. Units(p) \in Nat /\ Units(p)' = Units(p) + lines[r][p]
    BY <1>0, <1>1, <1>4, <1>5, <1>6, SumOfChange DEF Units, Share
<1>8. inventory[p] \in Nat /\ lines[r][p] \in Nat /\ Stock[p] \in Nat
    BY <1>0, CatalogueTypes DEF TypeOK, StoreTypeOK, Lines
<1> QED BY <1>2, <1>7, <1>8 DEF StockConserved

LEMMA StepStock ==
    ASSUME IsFiniteSet(Requests), IInv, IInv', StockConserved, [Next]_vars
    PROVE  StockConserved'
<1>1. CASE UNCHANGED tables
    BY <1>1 DEF StockConserved, Units, Made, tables
<1>2. CASE \E r \in Buyers : Commit(r)
    BY <1>2, CommitStock
<1>3. UNCHANGED vars => UNCHANGED tables
    BY DEF vars, store
<1> QED BY <1>1, <1>2, <1>3, TablesKept DEF Next

\* No unit is sold twice, lost to a failed checkout, or sold without stock.
THEOREM StockIsConserved ==
    ASSUME IsFiniteSet(Requests)
    PROVE  Spec => []StockConserved
<1>1. Init => StockConserved
    BY InitStock
<1>2. IInv /\ IInv' /\ StockConserved /\ [Next]_vars => StockConserved'
    BY StepStock
<1> QED BY <1>1, <1>2, Invariance, PTL DEF Spec

----------------------------------------------------------------------------
(* Money. *)

LEMMA GrossType ==
    ASSUME IsFiniteSet(Products), NEW basket \in Lines
    PROVE  Gross(basket) \in Nat
<1>1. \A p \in Products : Price[p] \in Nat /\ basket[p] \in Nat
    BY CatalogueTypes DEF Lines
<1>2. \A a, b \in Nat : a * b \in Nat
    OBVIOUS
<1>3. [p \in Products |-> Price[p] * basket[p]] \in [Products -> Nat]
    BY <1>1, <1>2
<1> QED BY <1>3, SumType DEF Gross

\* A discount is never more than what it is taken from.
LEMMA DiscountBound ==
    ASSUME NEW gross \in Nat, NEW coupon
    PROVE  Discount(gross, coupon) \in 0..gross
<1>1. gross * Percent \in Nat
    BY LimitTypes
<1>2. (gross * Percent) \div 100 \in Nat
    BY <1>1
<1> QED BY <1>2 DEF Discount, Least

\* The database accepts the totals of every order whose gross fits its column.
LEMMA OrderFits ==
    ASSUME IsFiniteSet(Products), NEW ask \in Asks, NEW basket \in Lines,
           Gross(basket) <= Int4Max
    PROVE  RowAccepted(OrderFor(ask, basket))
<1> DEFINE gross == Gross(basket)
           discount == Discount(gross, ask.coupon)
<1>1. gross \in 0..Int4Max
    BY GrossType, LimitTypes
<1>2. discount \in 0..gross
    BY <1>1, DiscountBound
<1> HIDE DEF gross, discount
<1>3. /\ discount \in 0..Int4Max /\ discount <= gross
      /\ Net(gross, discount) = gross - discount
      /\ gross - discount \in 0..Int4Max
    BY <1>1, <1>2, LimitTypes DEF Net
<1>4. OrderFor(ask, basket) =
          [cart |-> ask.cart, lines |-> basket, coupon |-> ask.coupon,
           gross |-> gross, discount |-> discount, net |-> gross - discount]
    BY <1>3 DEF OrderFor, gross, discount
<1>5. ask.cart \in Carts /\ ask.coupon \in Coupons \cup {None}
    BY DEF Asks
<1> QED BY <1>1, <1>3, <1>4, <1>5 DEF RowAccepted, Orders

\* An insert is refused for the total alone: the cart, locked and open, has no
\* order yet.
LEMMA RefusedForSize ==
    ASSUME IsFiniteSet(Products), IInv, NEW r \in Buyers,
           pc[r] = "order", ~ Insertable(r)
    PROVE  Gross(lines[r]) > Int4Max
<1>1. TypeOK /\ SoldTogether /\ ReservedBy(r) /\ request[r] \in Asks
    BY AskType DEF IInv, Reserved
<1>2. cartStatus[request[r].cart] = "open" /\ request[r].cart \in Carts
    BY <1>1, AskType DEF ReservedBy
<1>3. \A s \in Requests : orders[s] # None => orders[s].cart # request[r].cart
    BY <1>1, <1>2 DEF SoldTogether, Made
<1>4. ~ RowAccepted(OrderFor(request[r], lines[r]))
    BY <1>3 DEF Insertable, NewOrder
<1>5. lines[r] \in Lines
    BY <1>1 DEF TypeOK
<1>6. Gross(lines[r]) \in Nat /\ ~ (Gross(lines[r]) <= Int4Max)
    BY <1>1, <1>4, <1>5, OrderFits, GrossType
<1> QED BY <1>6, LimitTypes

Explained(r) ==
    answer[r].code = "INTERNAL_ERROR" /\ draft[r] = None =>
        Gross(lines[r]) > Int4Max

LEMMA ExplainedOwn ==
    ASSUME IsFiniteSet(Products), NamesDistinct, LockInv, NEW r \in Buyers,
           Explained(r), Arrive(r) \/ Step(r) \/ Abort(r)
    PROVE  Explained(r)'
<1>0. /\ TypeOK /\ Progress /\ ReservedBy(r) /\ QuotedBy(r) /\ IInv
      /\ r \in Requests
    BY BuyersAreRequests DEF LockInv, IInv, Reserved
<1>1. CASE InsertOrder(r)
  <2>1. CASE Insertable(r)
    BY <1>0, <1>1, <2>1 DEF InsertOrder, Explained, Progress, NoAnswer, Refusal
  <2>2. CASE ~ Insertable(r)
    <3>1. pc[r] = "order" /\ lines' = lines
      BY <1>1 DEF InsertOrder
    <3> QED BY <1>0, <2>2, <3>1, RefusedForSize DEF Explained
  <2> QED BY <2>1, <2>2
<1>2. CASE InsertKey(r)
  <2>1. draft[r] # None /\ draft' = draft
    BY <1>0, <1>2, NoneIsNoRow DEF InsertKey, ReservedBy, steps
  <2> QED BY <2>1 DEF Explained
<1>3. ~ DeadlockVictim(r)
    BY NoCircle DEF DeadlockVictim, NoWaitCycle
<1>4. CASE Reply(r)
    BY <1>4 DEF Reply, steps, Explained
<1>5. CASE \/ Arrive(r) \/ LockCart(r) \/ Recheck(r) \/ LoadLines(r)
           \/ Decrement(r) \/ Quote(r) \/ Redeem(r) \/ Commit(r) \/ Abort(r)
  <2>1. answer'[r] = answer[r] \/ answer'[r].code # "INTERNAL_ERROR"
    BY <1>0, <1>5 DEF Arrive, LockCart, Recheck, LoadLines, Decrement, Quote,
       Redeem, Commit, Abort, StoredReplay, Refuse, Answer, Refusal, Receipt,
       TypeOK
  <2>2. pc[r] \notin {"unwind", "reply", "done"} =>
            answer[r].code # "INTERNAL_ERROR"
    BY <1>0 DEF Progress, NoAnswer, Refusal
  <2>3. CASE pc[r] \notin {"unwind", "reply", "done"}
    BY <2>1, <2>2, <2>3 DEF Explained
  <2>4. CASE pc[r] \in {"unwind", "reply", "done"}
    <3>1. Abort(r)
      BY <1>0, <1>5, <2>4, AnsweredSteps DEF Reply, Arrive, LockCart, Recheck,
         LoadLines, Decrement, Quote, Redeem, Commit
    <3> QED BY <3>1, <2>1 DEF Abort, steps, Explained
  <2> QED BY <2>3, <2>4
<1> QED BY <1>1, <1>2, <1>3, <1>4, <1>5 DEF Step

LEMMA ExplainedStep ==
    ASSUME IsFiniteSet(Products), NamesDistinct, LockInv, ErrorsExplained,
           [Next]_vars
    PROVE  ErrorsExplained'
<1>1. ASSUME NEW r \in Buyers, Arrive(r) \/ Step(r) \/ Abort(r),
             NEW s \in Buyers
      PROVE  Explained(s)'
  <2>1. CASE s = r
    BY <1>1, <2>1, ExplainedOwn DEF ErrorsExplained, Explained
  <2>2. CASE s # r
    BY <1>1, <2>2, OthersKept DEF ErrorsExplained, Explained, LockInv
  <2> QED BY <2>1, <2>2
<1>2. CASE UNCHANGED vars
    BY <1>2 DEF ErrorsExplained, vars, checkoutVars, steps
<1> QED BY <1>1, <1>2 DEF Next, ErrorsExplained, Explained

LEMMA ExplainedInit == Init => ErrorsExplained
    BY DEF Init, CheckoutInit, ErrorsExplained, NoAnswer, Refusal

\* Where names are distinct, a checkout that fails before its order is inserted
\* fails because its total is over the column, for any prices, percentage and
\* carts.
THEOREM ErrorsAreForSize ==
    ASSUME IsFiniteSet(Products), NamesDistinct
    PROVE  Spec => []ErrorsExplained
<1>1. LockInv /\ ErrorsExplained /\ [Next]_vars => ErrorsExplained'
    BY ExplainedStep
<1> QED BY <1>1, ExplainedInit, LockInvariance, PTL DEF Spec

=============================================================================
