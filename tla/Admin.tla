-------------------------------- MODULE Admin ------------------------------
(***************************************************************************)
(* POST /admin/coupons/generate and GET /admin/report, while checkouts     *)
(* commit.                                                                 *)
(*                                                                         *)
(* Both read at READ COMMITTED: every statement sees what has been         *)
(* committed when it runs, so the statements of one request may see        *)
(* different sets of orders.  An action is one statement.  A checkout is   *)
(* the single step in which its transaction commits, which is all that the *)
(* statements here can see of one.                                         *)
(***************************************************************************)
EXTENDS Store

CONSTANTS
    Sellers,    \* requests that are checkouts
    CartOf,     \* the cart each of those names
    KeyOf,      \* the Idempotency-Key it carries
    Generators, \* requests that ask for a coupon
    Reporters,  \* requests that ask for the report
    Every       \* COUPON_MILESTONE_EVERY

Admins == Generators \cup Reporters

ASSUME AdminRequests ==
    /\ Sellers \cup Admins \subseteq Requests
    /\ Sellers \cap Admins = {}
    /\ Generators \cap Reporters = {}

ASSUME SellersAsk == CartOf \in [Sellers -> Carts] /\ KeyOf \in [Sellers -> Keys]

ASSUME EveryType == Every \in Nat \ {0}

ASSUME NoneIsNoMilestone == None \notin Nat

VARIABLES
    milestone,  \* coupons.milestone_number, or None where there is no row
    place,      \* how far each request is in the code
    target,     \* the milestone each generator computed
    coupon,     \* the coupon row each generator inserted, or None
    outcome,    \* what each generator answers
    report      \* what each reporter's statements returned

adminVars == <<place, target, coupon, outcome, report>>
vars == <<store, milestone, adminVars>>

Milestones == Nat

Outcomes ==
    {"NONE", "CREATED", "MILESTONE_NOT_REACHED", "MILESTONE_ALREADY_REWARDED",
     "NO_ANSWER"}

\* The orders the totals are summed over, the coupons counted, those of them
\* counted as redeemed, and the orders whose items are summed by product.
Reports ==
    [orders : SUBSET Requests, issued : SUBSET Coupons,
     redeemed : SUBSET Coupons, items : SUBSET Requests]

TypeOK ==
    /\ StoreTypeOK
    /\ milestone \in [Coupons -> Milestones \cup {None}]
    /\ place \in [Admins -> {"idle", "insert", "commit", "coupons", "items",
                             "done"}]
    /\ target \in [Generators -> Nat]
    /\ coupon \in [Generators -> Coupons \cup {None}]
    /\ outcome \in [Generators -> Outcomes]
    /\ report \in [Reporters -> Reports]

\* No coupon has been issued yet.
Init ==
    /\ StoreInit
    /\ couponStatus = [u \in Coupons |-> "absent"]
    /\ milestone = [u \in Coupons |-> None]
    /\ place = [r \in Admins |-> "idle"]
    /\ target = [g \in Generators |-> 0]
    /\ coupon = [g \in Generators |-> None]
    /\ outcome = [g \in Generators |-> "NONE"]
    /\ report = [q \in Reporters |->
           [orders |-> {}, issued |-> {}, redeemed |-> {}, items |-> {}]]

Sales == {s \in Requests : Made(s)}
Issued == {u \in Coupons : couponStatus[u] # "absent"}
Redeemed == {u \in Coupons : couponStatus[u] = "redeemed"}

MoveTo(r, to) == place' = [place EXCEPT ![r] = to]

----------------------------------------------------------------------------
(* generate_coupon *)

\* Faulty form: one milestone behind.
CountOrdersBehind(g) ==
    /\ place[g] = "idle"
    /\ target' = [target EXCEPT
           ![g] = (Cardinality(Sales) \div Every) * Every - Every]
    /\ MoveTo(g, "insert")
    /\ UNCHANGED <<store, milestone, coupon, outcome, report>>

\* The milestone the successful orders have reached.
CountOrders(g) ==
    /\ place[g] = "idle"
    /\ LET reached == (Cardinality(Sales) \div Every) * Every IN
        /\ target' = [target EXCEPT ![g] = reached]
        /\ \/ /\ reached = 0
              /\ outcome' = [outcome EXCEPT ![g] = "MILESTONE_NOT_REACHED"]
              /\ MoveTo(g, "done")
           \/ /\ reached # 0
              /\ MoveTo(g, "insert")
              /\ UNCHANGED outcome
    /\ UNCHANGED <<store, milestone, coupon, report>>

\* An insert waits for another transaction's uncommitted row of the same
\* milestone.
Inserting(m) ==
    \E g \in Generators :
        coupon[g] # None /\ holder[coupon[g]] = g /\ target[g] = m

\* Faulty form: milestone_number has no UNIQUE constraint, and the application
\* looks whether the coupon exists.
InsertCouponAfterCheck(g) ==
    /\ place[g] = "insert"
    /\ \A u \in Coupons : milestone[u] # target[g]
    /\ \E u \in Coupons :
          /\ couponStatus[u] = "absent" /\ holder[u] = None
          /\ Take(g, u)
          /\ coupon' = [coupon EXCEPT ![g] = u]
    /\ MoveTo(g, "commit")
    /\ UNCHANGED <<tables, milestone, target, outcome, report>>

\* Faulty form: another's uncommitted coupon is taken for a coupon.
InsertCouponNotWaiting(g) ==
    /\ place[g] = "insert"
    /\ \/ /\ Inserting(target[g])
          /\ outcome' = [outcome EXCEPT ![g] = "MILESTONE_ALREADY_REWARDED"]
          /\ MoveTo(g, "done")
          /\ UNCHANGED <<holder, coupon>>
       \/ /\ ~ Inserting(target[g])
          /\ \E u \in Coupons :
                /\ couponStatus[u] = "absent" /\ holder[u] = None
                /\ Take(g, u)
                /\ coupon' = [coupon EXCEPT ![g] = u]
          /\ MoveTo(g, "commit")
          /\ UNCHANGED outcome
    /\ UNCHANGED <<tables, milestone, target, report>>

InsertCoupon(g) ==
    /\ place[g] = "insert"
    /\ ~ Inserting(target[g])
    /\ \/ /\ \E u \in Coupons : milestone[u] = target[g]
          /\ outcome' = [outcome EXCEPT ![g] = "MILESTONE_ALREADY_REWARDED"]
          /\ MoveTo(g, "done")
          /\ UNCHANGED <<holder, coupon>>
       \/ /\ \A u \in Coupons : milestone[u] # target[g]
          /\ \E u \in Coupons :
                /\ couponStatus[u] = "absent" /\ holder[u] = None
                /\ Take(g, u)
                /\ coupon' = [coupon EXCEPT ![g] = u]
          /\ MoveTo(g, "commit")
          /\ UNCHANGED outcome
    /\ UNCHANGED <<tables, milestone, target, report>>

CommitCoupon(g) ==
    /\ place[g] = "commit"
    /\ couponStatus' = [couponStatus EXCEPT ![coupon[g]] = "available"]
    /\ milestone' = [milestone EXCEPT ![coupon[g]] = target[g]]
    /\ ReleaseAll(g)
    /\ outcome' = [outcome EXCEPT ![g] = "CREATED"]
    /\ MoveTo(g, "done")
    /\ UNCHANGED <<inventory, cartStatus, cartItems, orders, redeemedBy,
                   keyRecords, target, coupon, report>>

\* Faulty form: the transaction of a failed request is left open.
FailGenerateWithoutRollback(g) ==
    /\ place[g] \in {"insert", "commit"}
    /\ outcome' = [outcome EXCEPT ![g] = "NO_ANSWER"]
    /\ MoveTo(g, "done")
    /\ UNCHANGED <<store, milestone, target, coupon, report>>

\* The worker or a connection dies before the commit; PostgreSQL rolls the
\* insert back.
FailGenerate(g) ==
    /\ place[g] \in {"insert", "commit"}
    /\ ReleaseAll(g)
    /\ outcome' = [outcome EXCEPT ![g] = "NO_ANSWER"]
    /\ MoveTo(g, "done")
    /\ UNCHANGED <<tables, milestone, target, coupon, report>>

Generate(g) == CountOrders(g) \/ InsertCoupon(g) \/ CommitCoupon(g)

----------------------------------------------------------------------------
(* build_report *)

ReadOrders(q) ==
    /\ place[q] = "idle"
    /\ report' = [report EXCEPT ![q].orders = Sales]
    /\ MoveTo(q, "coupons")
    /\ UNCHANGED <<store, milestone, target, coupon, outcome>>

ReadCoupons(q) ==
    /\ place[q] = "coupons"
    /\ report' = [report EXCEPT ![q].issued = Issued, ![q].redeemed = Redeemed]
    /\ MoveTo(q, "items")
    /\ UNCHANGED <<store, milestone, target, coupon, outcome>>

\* Faulty form: the items are summed over the orders found at first.
ReadItemsOfOrdersRead(q) ==
    /\ place[q] = "items"
    /\ report' = [report EXCEPT ![q].items = report[q].orders]
    /\ MoveTo(q, "done")
    /\ UNCHANGED <<store, milestone, target, coupon, outcome>>

ReadItems(q) ==
    /\ place[q] = "items"
    /\ report' = [report EXCEPT ![q].items = Sales]
    /\ MoveTo(q, "done")
    /\ UNCHANGED <<store, milestone, target, coupon, outcome>>

BuildReport(q) == ReadOrders(q) \/ ReadCoupons(q) \/ ReadItems(q)

----------------------------------------------------------------------------
(* The rest of the shop. *)

\* A checkout commits: its cart was open and not empty, and what it sells and
\* spends was there.
Sale(s) ==
    /\ ~ Made(s)
    /\ \E u \in Coupons \cup {None} :
        LET ask == [cart |-> CartOf[s], key |-> KeyOf[s], coupon |-> u]
            basket == cartItems[ask.cart]
            order == OrderFor(ask, basket)
        IN  /\ cartStatus[ask.cart] = "open"
            /\ OnLines(basket) # {}
            /\ \A p \in Products : basket[p] <= inventory[p]
            /\ u # None => couponStatus[u] = "available"
            /\ keyRecords[ask.key] = None
            /\ RowAccepted(order)
            /\ PublishSale(s, ask, basket, order)
    /\ UNCHANGED <<holder, milestone, adminVars>>

Next ==
    \/ \E g \in Generators : Generate(g) \/ FailGenerate(g)
    \/ \E q \in Reporters : BuildReport(q)
    \/ \E s \in Sellers : Sale(s)

Spec == Init /\ [][Next]_vars

\* A request that has sent a statement gets its result: the event loop and the
\* database keep running.  No request is ever owed, nor is a failure.
Running(g) == place[g] # "idle" /\ Generate(g)
FairSpec == Spec /\ \A g \in Generators : WF_vars(Running(g))

----------------------------------------------------------------------------
(* Correctness. *)

\* A milestone is rewarded once, however many admins ask at the same time and
\* though each inserts for a count it read earlier; and it has been earned: no
\* coupon is ahead of the orders.
CouponsEarned ==
    /\ \A u \in Issued :
          /\ milestone[u] \in 1..Cardinality(Sales)
          /\ milestone[u] % Every = 0
    /\ \A t, u \in Issued : milestone[t] = milestone[u] => t = u

\* The answer of generate is about a coupon that is there: the one it says it
\* has created, or the one it says it has found.
OutcomesTrue ==
    \A g \in Generators :
        outcome[g] \in {"CREATED", "MILESTONE_ALREADY_REWARDED"} =>
            \E u \in Issued :
                /\ milestone[u] = target[g]
                /\ outcome[g] = "CREATED" <=> coupon[g] = u

\* The sections of a report are read one after the other, and a later one is
\* never behind an earlier one: every coupon spent by an order in the totals
\* is counted as redeemed, and every coupon counted as redeemed was spent by
\* an order whose items are listed.
SectionsInOrder ==
    \A q \in Reporters : place[q] = "done" =>
        /\ report[q].orders \subseteq report[q].items
        /\ \A s \in report[q].orders :
              orders[s].coupon \in report[q].redeemed \cup {None}
        /\ \A u \in report[q].redeemed : redeemedBy[u] \in report[q].items

\* Units of p in the orders of S.
UnitsIn(S, p) ==
    SumFunction([s \in Requests |-> IF s \in S THEN orders[s].lines[p] ELSE 0])

\* "its aggregates always reconcile with the actual set of orders and coupons
\* in the system at query time" (DECISIONS.md): the units listed by product
\* are those of the orders in the totals.
Reconciles ==
    \A q \in Reporters : place[q] = "done" =>
        \A p \in Products :
            UnitsIn(report[q].items, p) = UnitsIn(report[q].orders, p)

\* Every generate that arrives is answered, or its client sees it fail: the
\* wait for another generate's uncommitted coupon ends.
GenerateAnswered ==
    \A g \in Generators : place[g] # "idle" ~> place[g] = "done"

============================================================================
