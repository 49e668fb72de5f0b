----------------------------- MODULE AdminProofs ----------------------------
(***************************************************************************)
(* Theorems about Admin, for any number of checkouts, coupon requests and  *)
(* reports, and any COUPON_MILESTONE_EVERY.                                *)
(***************************************************************************)
EXTENDS Admin, FiniteSetTheorems, TLAPS

(* The inductive invariant: what each request relies on between two of its *)
(* statements, next to the properties themselves.                          *)

\* What a sale writes in orders and in coupons agrees.
SpentTogether ==
    /\ IsFiniteSet(Sales)
    /\ \A s \in Sales : orders[s].coupon \in Redeemed \cup {None}
    /\ \A u \in Redeemed : redeemedBy[u] \in Sales

\* Rows are given a milestone as they become visible.
Numbered == \A u \in Coupons : milestone[u] = None <=> u \notin Issued

\* A generate that has inserted its row keeps every other generate from the
\* row and from the milestone; the milestone has been reached, and stays so.
GeneratorHolds(g) ==
    /\ place[g] \in {"idle", "insert", "commit", "done"}
    /\ place[g] \in {"insert", "commit"} =>
          /\ target[g] \in 1..Cardinality(Sales)
          /\ target[g] % Every = 0
    /\ place[g] \in {"idle", "insert"} =>
          coupon[g] = None /\ outcome[g] = "NONE"
    /\ place[g] = "commit" =>
          /\ coupon[g] \in Coupons \ Issued
          /\ holder[coupon[g]] = g
          /\ outcome[g] = "NONE"
          /\ \A u \in Issued : milestone[u] # target[g]
    /\ outcome[g] = "MILESTONE_ALREADY_REWARDED" => coupon[g] = None

OneInserter ==
    \A g, h \in Generators :
        place[g] = "commit" /\ place[h] = "commit" /\ target[g] = target[h]
            => g = h

\* The sections a report has so far are each not behind the one before, and
\* none is ahead of the database.
ReporterHolds(q) ==
    /\ place[q] # "idle" => report[q].orders \subseteq Sales
    /\ place[q] \in {"items", "done"} =>
          /\ \A s \in report[q].orders :
                orders[s].coupon \in report[q].redeemed \cup {None}
          /\ report[q].redeemed \subseteq Redeemed
    /\ place[q] = "done" =>
          /\ report[q].orders \subseteq report[q].items
          /\ \A u \in report[q].redeemed : redeemedBy[u] \in report[q].items

AdminInv ==
    /\ TypeOK
    /\ SpentTogether
    /\ Numbered
    /\ \A g \in Generators : GeneratorHolds(g)
    /\ OneInserter
    /\ \A q \in Reporters : ReporterHolds(q)
    /\ CouponsEarned
    /\ OutcomesTrue

----------------------------------------------------------------------------

LEMMA Milestone ==
    ASSUME NEW n \in Nat
    PROVE  LET reached == (n \div Every) * Every IN
             /\ reached \in Nat
             /\ reached <= n
             /\ reached % Every = 0
<1>1. Every \in Nat \ {0}
    BY EveryType
<1>2. (n \div Every) * Every \in Nat
    BY <1>1, SMTT(30)
<1>3. (n \div Every) * Every <= n
    BY <1>1, SMTT(30)
<1>4. ((n \div Every) * Every) % Every = 0
    BY <1>1, SMTT(30)
<1> QED BY <1>2, <1>3, <1>4

LEMMA AdminInitInv == Init => AdminInv
<1> SUFFICES ASSUME Init PROVE AdminInv
    OBVIOUS
<1>1. TypeOK
    BY RowsDistinct, CatalogueTypes, NoneIsNoRow, BasketTypes, AdminRequests
       DEF Init, StoreInit, TypeOK, StoreTypeOK, EmptyLines, Lines,
           CartStatus, CouponStatus, Milestones, Outcomes, Reports, Admins
<1>2. Sales = {} /\ Issued = {} /\ Redeemed = {}
    BY DEF Init, StoreInit, Sales, Made, Issued, Redeemed
<1>3. SpentTogether
    BY <1>2, FS_EmptySet DEF SpentTogether
<1>4. Numbered
    BY <1>2 DEF Numbered, Init
<1>5. \A g \in Generators : GeneratorHolds(g)
    BY DEF Init, GeneratorHolds, Admins
<1>6. OneInserter
    BY DEF Init, OneInserter, Admins
<1>7. \A q \in Reporters : ReporterHolds(q)
    BY DEF Init, ReporterHolds, Admins
<1>8. CouponsEarned
    BY <1>2 DEF CouponsEarned
<1>9. OutcomesTrue
    BY DEF Init, OutcomesTrue
<1> QED BY <1>1, <1>3, <1>4, <1>5, <1>6, <1>7, <1>8, <1>9 DEF AdminInv

\* What the steps that change no table keep.
LEMMA TablesKept ==
    ASSUME AdminInv, UNCHANGED tables
    PROVE  /\ Sales' = Sales /\ Issued' = Issued /\ Redeemed' = Redeemed
           /\ SpentTogether'
<1>1. Sales' = Sales /\ Issued' = Issued /\ Redeemed' = Redeemed
    BY DEF tables, Sales, Made, Issued, Redeemed
<1> QED BY <1>1 DEF AdminInv, SpentTogether, tables

\* A generate leaves reports alone.
LEMMA ReportsKept ==
    ASSUME AdminInv, UNCHANGED <<tables, report>>, NEW g \in Generators,
           \A r \in Admins \ {g} : place'[r] = place[r]
    PROVE  \A q \in Reporters : ReporterHolds(q)'
<1> SUFFICES ASSUME NEW q \in Reporters PROVE ReporterHolds(q)'
    OBVIOUS
<1>1. place'[q] = place[q]
    BY AdminRequests DEF Admins
<1>2. ReporterHolds(q)
    BY DEF AdminInv
<1> QED BY <1>1, <1>2, TablesKept DEF ReporterHolds, tables

\* A generate takes one step at a time, and no other one with it.
LEMMA OthersWait ==
    ASSUME AdminInv, NEW r \in Admins, NEW to, MoveTo(r, to)
    PROVE  /\ place'[r] = to
           /\ \A s \in Admins \ {r} : place'[s] = place[s]
    BY DEF MoveTo, AdminInv, TypeOK

LEMMA CountKeepsInv ==
    ASSUME AdminInv, NEW g \in Generators, CountOrders(g)
    PROVE  AdminInv'
<1> DEFINE reached == (Cardinality(Sales) \div Every) * Every
<1>0. /\ TypeOK /\ StoreTypeOK /\ UNCHANGED <<tables, milestone, coupon, report>>
      /\ holder' = holder
      /\ g \in Admins
    BY DEF AdminInv, TypeOK, CountOrders, store, Admins
<1>1. Cardinality(Sales) \in Nat
    BY FS_CardinalityType DEF AdminInv, SpentTogether
<1>2. reached \in Nat /\ reached <= Cardinality(Sales) /\ reached % Every = 0
    BY <1>1, Milestone
<1>3. /\ place[g] = "idle"
      /\ target' = [target EXCEPT ![g] = reached]
      /\ \/ /\ reached = 0
            /\ outcome' = [outcome EXCEPT ![g] = "MILESTONE_NOT_REACHED"]
            /\ MoveTo(g, "done")
         \/ reached # 0 /\ MoveTo(g, "insert") /\ UNCHANGED outcome
    BY DEF CountOrders
<1> HIDE DEF reached
<1>4. TypeOK'
    BY <1>0, <1>2, <1>3 DEF TypeOK, StoreTypeOK, MoveTo, Outcomes, tables
<1>5. SpentTogether' /\ Sales' = Sales /\ Issued' = Issued
    BY <1>0, TablesKept
<1>6. Numbered'
    BY <1>0, <1>5 DEF AdminInv, Numbered
<1>7. ASSUME NEW h \in Generators PROVE GeneratorHolds(h)'
  <2>1. GeneratorHolds(h)
    BY DEF AdminInv
  <2>2. CASE h # g
    <3>1. /\ place'[h] = place[h] /\ target'[h] = target[h]
          /\ outcome'[h] = outcome[h]
      BY <1>0, <1>3, <2>2 DEF TypeOK, MoveTo, Admins
    <3> QED BY <1>0, <1>5, <2>1, <3>1 DEF GeneratorHolds
  <2>3. CASE h = g
    <3>1. coupon'[g] = None /\ target'[g] = reached
      BY <1>0, <1>3, <2>1, <2>3 DEF GeneratorHolds, TypeOK
    <3>2. CASE reached = 0 /\ MoveTo(g, "done")
               /\ outcome' = [outcome EXCEPT ![g] = "MILESTONE_NOT_REACHED"]
      <4>1. place'[g] = "done"
        BY <1>0, <3>2 DEF TypeOK, MoveTo
      <4> QED BY <2>3, <3>1, <4>1 DEF GeneratorHolds
    <3>3. CASE reached # 0 /\ MoveTo(g, "insert") /\ UNCHANGED outcome
      <4>1. place'[g] = "insert" /\ outcome'[g] = "NONE"
        BY <1>0, <1>3, <2>1, <2>3, <3>3 DEF TypeOK, MoveTo, GeneratorHolds
      <4>2. target'[g] \in 1..Cardinality(Sales') /\ target'[g] % Every = 0
        BY <1>1, <1>2, <1>5, <3>1, <3>3
      <4> QED BY <2>3, <3>1, <4>1, <4>2 DEF GeneratorHolds
    <3> QED BY <1>3, <3>2, <3>3
  <2> QED BY <2>2, <2>3
<1>8. OneInserter'
  <2>1. place'[g] # "commit"
    BY <1>0, <1>3 DEF TypeOK, MoveTo
  <2>2. \A h \in Generators : h # g =>
          place'[h] = place[h] /\ target'[h] = target[h]
    BY <1>0, <1>3 DEF TypeOK, MoveTo, Admins
  <2> QED BY <2>1, <2>2 DEF AdminInv, OneInserter
<1>9. \A q \in Reporters : ReporterHolds(q)'
  <2>1. \A r \in Admins \ {g} : place'[r] = place[r]
    BY <1>0, <1>3 DEF TypeOK, MoveTo
  <2> QED BY <1>0, <2>1, ReportsKept
<1>10. CouponsEarned'
    BY <1>0, <1>5 DEF AdminInv, CouponsEarned
<1>11. OutcomesTrue'
  <2>1. \A h \in Generators : h # g =>
          outcome'[h] = outcome[h] /\ target'[h] = target[h]
    BY <1>0, <1>3 DEF TypeOK
  <2>2. outcome'[g] \notin {"CREATED", "MILESTONE_ALREADY_REWARDED"}
    BY <1>0, <1>3 DEF TypeOK, AdminInv, GeneratorHolds
  <2> QED BY <1>0, <1>5, <2>1, <2>2 DEF AdminInv, OutcomesTrue
<1> QED BY <1>4, <1>5, <1>6, <1>7, <1>8, <1>9, <1>10, <1>11 DEF AdminInv

LEMMA InsertKeepsInv ==
    ASSUME AdminInv, NEW g \in Generators, InsertCoupon(g)
    PROVE  AdminInv'
<1>0. /\ TypeOK /\ StoreTypeOK
      /\ UNCHANGED <<tables, milestone, target, report>>
      /\ g \in Admins /\ g # None
      /\ place[g] = "insert" /\ GeneratorHolds(g)
      /\ coupon[g] = None /\ outcome[g] = "NONE"
      /\ ~ Inserting(target[g])
    BY AdminRequests, RowsDistinct
       DEF AdminInv, TypeOK, InsertCoupon, Admins, GeneratorHolds
<1>1. /\ SpentTogether' /\ Sales' = Sales /\ Issued' = Issued
      /\ Redeemed' = Redeemed
    BY <1>0, TablesKept
<1>2. Numbered' /\ CouponsEarned'
    BY <1>0, <1>1 DEF AdminInv, Numbered, CouponsEarned
<1>3. CASE /\ \E u \in Coupons : milestone[u] = target[g]
           /\ outcome' = [outcome EXCEPT ![g] = "MILESTONE_ALREADY_REWARDED"]
           /\ MoveTo(g, "done")
           /\ UNCHANGED <<holder, coupon>>
  <2>1. TypeOK'
    BY <1>0, <1>3 DEF TypeOK, StoreTypeOK, MoveTo, Outcomes, tables
  <2>2. place'[g] = "done" /\ \A r \in Admins \ {g} : place'[r] = place[r]
    BY <1>0, <1>3, OthersWait
  <2>3. \A h \in Generators : h # g => outcome'[h] = outcome[h]
    BY <1>0, <1>3 DEF TypeOK
  <2>4. ASSUME NEW h \in Generators PROVE GeneratorHolds(h)'
    <3>1. GeneratorHolds(h)
      BY DEF AdminInv
    <3>2. CASE h = g
      BY <1>0, <1>3, <2>2, <3>2 DEF GeneratorHolds
    <3>3. CASE h # g
      BY <1>0, <1>1, <1>3, <2>2, <2>3, <3>1, <3>3 DEF GeneratorHolds, Admins
    <3> QED BY <3>2, <3>3
  <2>5. OneInserter'
    BY <1>0, <2>2 DEF AdminInv, OneInserter, Admins
  <2>6. \A q \in Reporters : ReporterHolds(q)'
    BY <1>0, <2>2, ReportsKept
  <2>7. OutcomesTrue'
    <3>1. PICK u \in Coupons : milestone[u] = target[g]
      BY <1>3
    <3>2. u \in Issued
      BY <1>0, <3>1, NoneIsNoMilestone DEF AdminInv, Numbered, TypeOK
    <3>3. outcome'[g] = "MILESTONE_ALREADY_REWARDED" /\ coupon'[g] # u
      BY <1>0, <1>3, RowsDistinct DEF TypeOK, Rows
    <3> QED BY <1>0, <1>1, <1>3, <2>3, <3>1, <3>2, <3>3
            DEF AdminInv, OutcomesTrue
  <2> QED BY <1>1, <1>2, <2>1, <2>4, <2>5, <2>6, <2>7 DEF AdminInv
<1>4. ASSUME NEW u \in Coupons,
             /\ \A t \in Coupons : milestone[t] # target[g]
             /\ couponStatus[u] = "absent" /\ holder[u] = None
             /\ Take(g, u)
             /\ coupon' = [coupon EXCEPT ![g] = u]
             /\ MoveTo(g, "commit")
             /\ UNCHANGED outcome
      PROVE  AdminInv'
  <2>1. u \in Rows /\ u \in Coupons \ Issued
    BY <1>4 DEF Rows, Issued
  <2>2. TypeOK'
    BY <1>0, <1>4, <2>1, AdminRequests
       DEF TypeOK, StoreTypeOK, MoveTo, Take, tables, Admins
  <2>3. place'[g] = "commit" /\ \A r \in Admins \ {g} : place'[r] = place[r]
    BY <1>0, <1>4, OthersWait
  <2>4. /\ coupon'[g] = u
        /\ \A h \in Generators : h # g => coupon'[h] = coupon[h]
    BY <1>0, <1>4 DEF TypeOK
  <2>5. ASSUME NEW h \in Generators PROVE GeneratorHolds(h)'
    <3>1. GeneratorHolds(h)
      BY DEF AdminInv
    <3>2. CASE h = g
      <4>1. holder'[u] = g
        BY <1>0, <1>4, <2>1 DEF Take, StoreTypeOK
      <4>2. \A t \in Issued : milestone[t] # target[g]
        BY <1>4 DEF Issued
      <4> QED BY <1>0, <1>1, <1>4, <2>1, <2>3, <2>4, <3>1, <3>2, <4>1, <4>2
              DEF GeneratorHolds
    <3>3. CASE h # g
      <4>1. place[h] = "commit" => holder'[coupon[h]] = h
        BY <1>0, <1>4, <2>1, <3>1, RowsDistinct, AdminRequests
           DEF GeneratorHolds, Take, StoreTypeOK, Rows, Admins
      <4> QED BY <1>0, <1>1, <1>4, <2>3, <2>4, <3>1, <3>3, <4>1
              DEF GeneratorHolds, Admins
    <3> QED BY <3>2, <3>3
  <2>6. OneInserter'
    <3>1. ASSUME NEW h \in Generators, h # g, place'[h] = "commit"
          PROVE  target[h] # target[g]
      <4>1. place[h] = "commit" /\ GeneratorHolds(h)
        BY <2>3, <3>1 DEF AdminInv, Admins
      <4>2. coupon[h] # None /\ holder[coupon[h]] = h
        BY <4>1, RowsDistinct DEF GeneratorHolds, Rows
      <4> QED BY <1>0, <4>2 DEF Inserting
    <3> QED BY <1>0, <2>3, <3>1 DEF AdminInv, OneInserter, Admins
  <2>7. \A q \in Reporters : ReporterHolds(q)'
    BY <1>0, <2>3, ReportsKept
  <2>8. OutcomesTrue'
    BY <1>0, <1>1, <1>4, <2>4 DEF AdminInv, OutcomesTrue
  <2> QED BY <1>1, <1>2, <2>2, <2>5, <2>6, <2>7, <2>8 DEF AdminInv
<1> QED BY <1>3, <1>4 DEF InsertCoupon

LEMMA CommitCouponKeepsInv ==
    ASSUME AdminInv, NEW g \in Generators, CommitCoupon(g)
    PROVE  AdminInv'
<1> DEFINE row == coupon[g]
<1>0. /\ TypeOK /\ StoreTypeOK /\ UNCHANGED <<target, coupon, report>>
      /\ orders' = orders /\ redeemedBy' = redeemedBy
      /\ g \in Admins /\ g # None
      /\ place[g] = "commit" /\ GeneratorHolds(g)
      /\ row \in Coupons \ Issued /\ couponStatus[row] = "absent" /\ holder[row] = g
      /\ target[g] \in 1..Cardinality(Sales) /\ target[g] % Every = 0
      /\ \A t \in Issued : milestone[t] # target[g]
    BY AdminRequests, RowsDistinct
       DEF AdminInv, TypeOK, CommitCoupon, Admins, GeneratorHolds, Issued
<1>1. /\ \A t \in Coupons \ {row} :
            couponStatus'[t] = couponStatus[t] /\ milestone'[t] = milestone[t]
      /\ couponStatus'[row] = "available" /\ milestone'[row] = target[g]
    BY <1>0 DEF CommitCoupon, TypeOK, StoreTypeOK
<1>2. Sales' = Sales /\ Issued' = Issued \cup {row} /\ Redeemed' = Redeemed
    BY <1>0, <1>1 DEF Sales, Made, Issued, Redeemed
<1>3. SpentTogether'
    BY <1>0, <1>2 DEF AdminInv, SpentTogether
<1>4. TypeOK'
    BY <1>0 DEF CommitCoupon, TypeOK, StoreTypeOK, MoveTo, ReleaseAll,
                Outcomes, CouponStatus, Milestones
<1>5. Numbered'
    BY <1>0, <1>1, <1>2, NoneIsNoMilestone DEF AdminInv, Numbered
<1>6. place'[g] = "done" /\ \A r \in Admins \ {g} : place'[r] = place[r]
    BY <1>0, OthersWait DEF CommitCoupon
<1>7. /\ outcome'[g] = "CREATED"
      /\ \A h \in Generators : h # g => outcome'[h] = outcome[h]
    BY <1>0 DEF CommitCoupon, TypeOK
<1>8. ASSUME NEW h \in Generators PROVE GeneratorHolds(h)'
  <2>1. GeneratorHolds(h)
    BY DEF AdminInv
  <2>2. CASE h = g
    BY <1>6, <1>7, <2>2 DEF GeneratorHolds
  <2>3. CASE h # g
    <3>1. ASSUME place[h] = "commit"
          PROVE  /\ coupon[h] # row /\ holder'[coupon[h]] = h
                 /\ target[h] # target[g]
      <4>1. coupon[h] \in Rows /\ holder[coupon[h]] = h
        BY <2>1, <3>1 DEF GeneratorHolds, Rows
      <4>2. target[h] # target[g]
        BY <1>0, <2>3, <3>1 DEF AdminInv, OneInserter
      <4> QED BY <1>0, <2>3, <4>1, <4>2 DEF CommitCoupon, ReleaseAll
    <3>2. place'[h] = place[h] /\ outcome'[h] = outcome[h]
      BY <1>6, <1>7, <2>3 DEF Admins
    <3> QED BY <1>0, <1>1, <1>2, <2>1, <3>1, <3>2 DEF GeneratorHolds, Issued
  <2> QED BY <2>2, <2>3
<1>9. OneInserter'
  <2>1. \A h \in Generators : h # g => place'[h] = place[h]
    BY <1>6 DEF Admins
  <2> QED BY <1>0, <1>6, <2>1 DEF AdminInv, OneInserter
<1>10. ASSUME NEW q \in Reporters PROVE ReporterHolds(q)'
  <2>1. ReporterHolds(q) /\ place'[q] = place[q]
    BY <1>6, AdminRequests DEF AdminInv, Admins
  <2> QED BY <1>0, <1>2, <2>1 DEF ReporterHolds
<1>11. CouponsEarned'
  <2>1. CouponsEarned
    BY DEF AdminInv
  <2>2. \A t \in Issued : milestone'[t] = milestone[t]
    BY <1>0, <1>1 DEF Issued
  <2> QED BY <1>0, <1>1, <1>2, <2>1, <2>2 DEF CouponsEarned
<1>12. OutcomesTrue'
  <2>1. ASSUME NEW h \in Generators, h # g,
               outcome'[h] \in {"CREATED", "MILESTONE_ALREADY_REWARDED"}
        PROVE  \E t \in Issued' : /\ milestone'[t] = target'[h]
                                  /\ outcome'[h] = "CREATED" <=> coupon'[h] = t
    <3>1. PICK t \in Issued : /\ milestone[t] = target[h]
                              /\ outcome[h] = "CREATED" <=> coupon[h] = t
      BY <1>7, <2>1 DEF AdminInv, OutcomesTrue
    <3>2. t \in Issued' /\ milestone'[t] = milestone[t]
      BY <1>0, <1>1, <1>2 DEF Issued
    <3> QED BY <1>0, <1>7, <2>1, <3>1, <3>2
  <2>2. row \in Issued' /\ milestone'[row] = target'[g] /\ coupon'[g] = row
    BY <1>0, <1>1, <1>2
  <2>3. ASSUME NEW h \in Generators,
               outcome'[h] \in {"CREATED", "MILESTONE_ALREADY_REWARDED"}
        PROVE  \E t \in Issued' : /\ milestone'[t] = target'[h]
                                  /\ outcome'[h] = "CREATED" <=> coupon'[h] = t
    <3>1. CASE h # g
      BY <2>1, <2>3, <3>1
    <3>2. CASE h = g
      BY <1>0, <1>7, <2>2, <3>2
    <3> QED BY <3>1, <3>2
  <2> QED BY <2>3 DEF OutcomesTrue
<1> QED BY <1>3, <1>4, <1>5, <1>8, <1>9, <1>10, <1>11, <1>12 DEF AdminInv

LEMMA FailKeepsInv ==
    ASSUME AdminInv, NEW g \in Generators, FailGenerate(g)
    PROVE  AdminInv'
<1>0. /\ TypeOK /\ StoreTypeOK
      /\ UNCHANGED <<tables, milestone, target, coupon, report>>
      /\ g \in Admins
      /\ place[g] \in {"insert", "commit"}
    BY DEF AdminInv, TypeOK, FailGenerate, Admins
<1>1. /\ SpentTogether' /\ Sales' = Sales /\ Issued' = Issued
      /\ Redeemed' = Redeemed
    BY <1>0, TablesKept
<1>2. Numbered' /\ CouponsEarned'
    BY <1>0, <1>1 DEF AdminInv, Numbered, CouponsEarned
<1>3. TypeOK'
    BY <1>0 DEF FailGenerate, TypeOK, StoreTypeOK, MoveTo, ReleaseAll,
                Outcomes, tables
<1>4. place'[g] = "done" /\ \A r \in Admins \ {g} : place'[r] = place[r]
    BY <1>0, OthersWait DEF FailGenerate
<1>5. /\ outcome'[g] = "NO_ANSWER"
      /\ \A h \in Generators : h # g => outcome'[h] = outcome[h]
    BY <1>0 DEF FailGenerate, TypeOK
<1>6. ASSUME NEW h \in Generators PROVE GeneratorHolds(h)'
  <2>1. GeneratorHolds(h)
    BY DEF AdminInv
  <2>2. CASE h = g
    BY <1>4, <1>5, <2>2 DEF GeneratorHolds
  <2>3. CASE h # g
    <3>1. ASSUME place[h] = "commit" PROVE holder'[coupon[h]] = h
      <4>1. coupon[h] \in Rows /\ holder[coupon[h]] = h
        BY <2>1, <3>1 DEF GeneratorHolds, Rows
      <4> QED BY <2>3, <4>1 DEF FailGenerate, ReleaseAll
    <3>2. place'[h] = place[h] /\ outcome'[h] = outcome[h]
      BY <1>4, <1>5, <2>3 DEF Admins
    <3> QED BY <1>0, <1>1, <2>1, <3>1, <3>2 DEF GeneratorHolds
  <2> QED BY <2>2, <2>3
<1>7. OneInserter'
  <2>1. \A h \in Generators : h # g => place'[h] = place[h]
    BY <1>4 DEF Admins
  <2> QED BY <1>0, <1>4, <2>1 DEF AdminInv, OneInserter
<1>8. \A q \in Reporters : ReporterHolds(q)'
    BY <1>0, <1>4, ReportsKept
<1>9. OutcomesTrue'
    BY <1>0, <1>1, <1>5 DEF AdminInv, OutcomesTrue
<1> QED BY <1>1, <1>2, <1>3, <1>6, <1>7, <1>8, <1>9 DEF AdminInv

LEMMA ReportKeepsInv ==
    ASSUME AdminInv, NEW q \in Reporters, BuildReport(q)
    PROVE  AdminInv'
<1>0. /\ TypeOK /\ StoreTypeOK
      /\ UNCHANGED <<store, tables, milestone, target, coupon, outcome>>
      /\ q \in Admins /\ ReporterHolds(q)
    BY DEF AdminInv, TypeOK, BuildReport, ReadOrders, ReadCoupons, ReadItems,
           store, Admins
<1>1. /\ SpentTogether' /\ Sales' = Sales /\ Issued' = Issued
      /\ Redeemed' = Redeemed
    BY <1>0, TablesKept
<1>2. Sales \subseteq Requests /\ Issued \subseteq Coupons
      /\ Redeemed \subseteq Coupons
    BY DEF Sales, Issued, Redeemed
<1>3. PICK to \in {"coupons", "items", "done"} : MoveTo(q, to)
    BY DEF BuildReport, ReadOrders, ReadCoupons, ReadItems
<1>4. \A r \in Admins \ {q} : place'[r] = place[r]
    BY <1>0, <1>3, OthersWait
<1>5. TypeOK'
  <2>1. report' \in [Reporters -> Reports]
    BY <1>0, <1>2 DEF BuildReport, ReadOrders, ReadCoupons, ReadItems, TypeOK,
       Reports
  <2> QED BY <1>0, <1>3, <2>1 DEF TypeOK, StoreTypeOK, MoveTo, store, tables
<1>6. \A g \in Generators : place'[g] = place[g]
    BY <1>4, AdminRequests DEF Admins
<1>7. /\ Numbered' /\ CouponsEarned' /\ OutcomesTrue' /\ OneInserter'
      /\ \A g \in Generators : GeneratorHolds(g)'
    BY <1>0, <1>1, <1>6
       DEF AdminInv, Numbered, CouponsEarned, OutcomesTrue, OneInserter,
           GeneratorHolds, store
<1>8. ASSUME NEW p \in Reporters PROVE ReporterHolds(p)'
  <2>1. CASE p # q
    <3>1. place'[p] = place[p] /\ report'[p] = report[p] /\ ReporterHolds(p)
      BY <1>0, <1>4, <2>1 DEF AdminInv, Admins, BuildReport, ReadOrders,
         ReadCoupons, ReadItems, TypeOK
    <3> QED BY <1>0, <1>1, <3>1 DEF ReporterHolds, tables
  <2>2. CASE p = q /\ ReadOrders(q)
    <3>1. place'[q] = "coupons" /\ report'[q].orders = Sales
      BY <1>0, <2>2 DEF ReadOrders, MoveTo, TypeOK, Reports
    <3> QED BY <1>1, <2>2, <3>1 DEF ReporterHolds
  <2>3. CASE p = q /\ ReadCoupons(q)
    <3>1. /\ place[q] = "coupons" /\ place'[q] = "items"
          /\ report'[q].orders = report[q].orders
          /\ report'[q].redeemed = Redeemed
      BY <1>0, <2>3 DEF ReadCoupons, MoveTo, TypeOK, Reports
    <3> QED BY <1>0, <1>1, <2>3, <3>1
            DEF AdminInv, SpentTogether, ReporterHolds, tables
  <2>4. CASE p = q /\ ReadItems(q)
    <3>1. /\ place[q] = "items" /\ place'[q] = "done"
          /\ report'[q].orders = report[q].orders
          /\ report'[q].redeemed = report[q].redeemed
          /\ report'[q].items = Sales
      BY <1>0, <2>4 DEF ReadItems, MoveTo, TypeOK, Reports
    <3> QED BY <1>0, <1>1, <2>4, <3>1
            DEF AdminInv, SpentTogether, ReporterHolds, tables
  <2> QED BY <2>1, <2>2, <2>3, <2>4 DEF BuildReport
<1> QED BY <1>1, <1>5, <1>7, <1>8 DEF AdminInv

LEMMA SaleKeepsInv ==
    ASSUME AdminInv, NEW s \in Sellers, Sale(s)
    PROVE  AdminInv'
<1>0. /\ TypeOK /\ StoreTypeOK /\ SpentTogether
      /\ UNCHANGED <<holder, milestone, adminVars>>
      /\ s \in Requests /\ orders[s] = None
    BY AdminRequests DEF AdminInv, TypeOK, Sale, SpentTogether, Made
<1> DEFINE c == CartOf[s]
           k == KeyOf[s]
<1>1. PICK u \in Coupons \cup {None}, order \in Orders :
         /\ \A p \in Products : cartItems[c][p] <= inventory[p]
         /\ u # None => couponStatus[u] = "available"
         /\ order.coupon = u
         /\ inventory' = [p \in Products |-> inventory[p] - cartItems[c][p]]
         /\ cartStatus' = [cartStatus EXCEPT ![c] = "checked_out"]
         /\ orders' = [orders EXCEPT ![s] = order]
         /\ couponStatus' = [v \in Coupons |->
                IF v = u THEN "redeemed" ELSE couponStatus[v]]
         /\ redeemedBy' = [v \in Coupons |-> IF v = u THEN s ELSE redeemedBy[v]]
         /\ keyRecords' = [keyRecords EXCEPT ![k] = [cart |-> c, order |-> s]]
         /\ UNCHANGED cartItems
  <2>1. PICK u \in Coupons \cup {None} :
           LET ask == [cart |-> c, key |-> k, coupon |-> u]
               order == OrderFor(ask, cartItems[c])
           IN  /\ \A p \in Products : cartItems[c][p] <= inventory[p]
               /\ u # None => couponStatus[u] = "available"
               /\ RowAccepted(order)
               /\ PublishSale(s, ask, cartItems[c], order)
    BY DEF Sale
  <2> DEFINE order == OrderFor([cart |-> c, key |-> k, coupon |-> u],
                               cartItems[c])
  <2>2. order \in Orders /\ order.coupon = u
    BY <2>1 DEF RowAccepted, OrderFor
  <2> QED BY <2>1, <2>2 DEF PublishSale
<1>2. c \in Carts /\ k \in Keys
    BY SellersAsk
<1> HIDE DEF c, k
<1>3. TypeOK'
  <2>1. \A p \in Products : cartItems[c][p] \in Nat /\ inventory[p] \in Nat
    BY <1>0, <1>2 DEF StoreTypeOK, Lines
  <2>2. StoreTypeOK'
    BY <1>0, <1>1, <1>2, <2>1
       DEF StoreTypeOK, CartStatus, CouponStatus, KeyRecords
  <2> QED BY <1>0, <2>2 DEF TypeOK, adminVars
<1>4. /\ Sales' = Sales \cup {s} /\ s \notin Sales
      /\ Issued' = Issued
      /\ Redeemed' = Redeemed \cup ({u} \ {None})
      /\ u \notin Redeemed
    BY <1>0, <1>1, NoneIsNoRow, RowsDistinct
       DEF Sales, Made, Issued, Redeemed, StoreTypeOK, Rows
<1>5. /\ \A r \in Sales : orders'[r] = orders[r]
      /\ orders'[s].coupon = u
      /\ \A v \in Redeemed : redeemedBy'[v] = redeemedBy[v]
      /\ u # None => redeemedBy'[u] = s
    BY <1>0, <1>1, <1>4 DEF StoreTypeOK, Redeemed, Sales
<1>6. SpentTogether'
  <2>1. IsFiniteSet(Sales')
    BY <1>0, <1>4, FS_AddElement DEF SpentTogether
  <2>2. \A r \in Sales' : orders'[r].coupon \in Redeemed' \cup {None}
    BY <1>0, <1>4, <1>5 DEF SpentTogether
  <2>3. \A v \in Redeemed' : redeemedBy'[v] \in Sales'
    BY <1>0, <1>4, <1>5 DEF SpentTogether
  <2> QED BY <2>1, <2>2, <2>3 DEF SpentTogether
<1>7. /\ Cardinality(Sales) \in Nat /\ Cardinality(Sales') \in Nat
      /\ Cardinality(Sales) <= Cardinality(Sales')
    BY <1>0, <1>4, <1>6, FS_CardinalityType, FS_Subset DEF SpentTogether
<1>8. Numbered' /\ OutcomesTrue' /\ OneInserter'
    BY <1>0, <1>4 DEF AdminInv, Numbered, OutcomesTrue, OneInserter, adminVars
<1>9. CouponsEarned'
    BY <1>0, <1>4, <1>7 DEF AdminInv, CouponsEarned
<1>10. ASSUME NEW g \in Generators PROVE GeneratorHolds(g)'
  <2>1. GeneratorHolds(g)
    BY DEF AdminInv
  <2> QED BY <1>0, <1>4, <1>7, <2>1 DEF GeneratorHolds, adminVars
<1>11. ASSUME NEW q \in Reporters PROVE ReporterHolds(q)'
  <2>1. ReporterHolds(q) /\ place'[q] = place[q] /\ report'[q] = report[q]
    BY <1>0 DEF AdminInv, adminVars
  <2>2. place[q] = "idle" \/ report[q].orders \subseteq Sales
    BY <2>1 DEF ReporterHolds
  <2> QED BY <1>4, <1>5, <2>1, <2>2 DEF ReporterHolds
<1> QED BY <1>3, <1>6, <1>8, <1>9, <1>10, <1>11 DEF AdminInv

LEMMA AdminStep == AdminInv /\ [Next]_vars => AdminInv'
<1> SUFFICES ASSUME AdminInv, [Next]_vars PROVE AdminInv'
    OBVIOUS
<1>1. CASE Next
    BY <1>1, CountKeepsInv, InsertKeepsInv, CommitCouponKeepsInv, FailKeepsInv,
       ReportKeepsInv, SaleKeepsInv DEF Next, Generate
<1>2. CASE UNCHANGED vars
  <2>1. UNCHANGED <<store, tables, milestone, place, target, coupon, outcome,
                    report>>
    BY <1>2 DEF vars, store, adminVars
  <2>2. /\ SpentTogether' /\ Sales' = Sales /\ Issued' = Issued
        /\ Redeemed' = Redeemed
    BY <2>1, TablesKept
  <2> QED BY <2>1, <2>2
          DEF AdminInv, TypeOK, StoreTypeOK, Numbered, GeneratorHolds,
              OneInserter, ReporterHolds, CouponsEarned, OutcomesTrue, store,
              tables
<1> QED BY <1>1, <1>2

----------------------------------------------------------------------------

\* The inductive invariant holds in every reachable state.
THEOREM AdminInvariance == Spec => []AdminInv
    BY AdminInitInv, AdminStep, PTL DEF Spec

\* Every variable keeps its type: no report counts what was never there.
THEOREM AdminTypes == Spec => []TypeOK
<1>1. AdminInv => TypeOK
    BY DEF AdminInv
<1> QED BY <1>1, AdminInvariance, PTL

\* generate_coupon rewards a milestone at most once, and only when the orders
\* have reached it, whatever COUPON_MILESTONE_EVERY and however many admins
\* ask at a time.
THEOREM MilestonesEarned == Spec => []CouponsEarned
<1>1. AdminInv => CouponsEarned
    BY DEF AdminInv
<1> QED BY <1>1, AdminInvariance, PTL

\* What generate_coupon answers is about a coupon that is there.
THEOREM AnswersTrue == Spec => []OutcomesTrue
<1>1. AdminInv => OutcomesTrue
    BY DEF AdminInv
<1> QED BY <1>1, AdminInvariance, PTL

\* A section of build_report is never behind one that was read before it.
THEOREM ReportInOrder == Spec => []SectionsInOrder
<1>1. AdminInv => SectionsInOrder
    BY DEF AdminInv, ReporterHolds, SectionsInOrder
<1> QED BY <1>1, AdminInvariance, PTL
============================================================================
