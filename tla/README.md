# Verification of back-cart

TLA+ models of the order path of back-cart (FastAPI + PostgreSQL), checked with
TLC on small instances and, where it matters most, proved with TLAPS for every
value of the constants. Paths below are relative to the repository.

## The system

| Component | State it keeps | Operations | Interacts with |
|---|---|---|---|
| PostgreSQL rows (`app/features/*/models.py`, `app/db/session.py`) | `products.inventory`, `carts.status`, `cart_items`, `orders` + `order_items`, `coupons`, `idempotency_keys`; row locks | one transaction per HTTP request at READ COMMITTED | every request |
| Checkout (`orders/service.py`, `orders/router.py`, `coupons/service.py`) | none of its own: the rows it has read and locked | `POST /carts/{id}/checkout` | carts, products, coupons, keys |
| Carts (`carts/service.py`, `carts/router.py`) | none of its own | create, add, update, remove (view only reads) | checkout, through the cart row's lock; products, through the soft inventory check |
| Admin (`admin/service.py`, `admin/router.py`) | none of its own | generate a milestone coupon, build the report | orders and coupons as checkouts commit them |
| Startup (`alembic/`, `products/seed.py`, the start command in `docker-compose.yml`, `Makefile`) | the schema, `alembic_version`, `products` rows | upgrade to the head, downgrade, seed what is missing by name, serve | other instances that start; checkout orders its decrements by name |
| Catalogue (`products/`) | `products` rows | list, read | the demo UI |
| Demo UI (`frontend/src`) | idempotency key, attempt count, cart view | click, retry, reload | checkout and carts over a network that loses answers |

The code keeps no locks in process: what makes it correct is `SELECT ... FOR
UPDATE` on the cart, conditional `UPDATE`s whose row count is checked, unique
constraints, and one commit per request. What is hard is therefore the
interleaving of statements of several transactions, lock waits, a failure after
some of the writes, and an answer that is lost after the commit. What makes each
component correct:

- checkout: a sale happens once and whole (stock, cart, order, coupon, key);
  no stock is sold twice; a retry sees the order of its first attempt; a refusal
  tells the truth; every request ends;
- carts: no update is lost, none lands on another line, none reaches a sold
  cart, and no line exceeds the stock;
- admin: a milestone is rewarded at most once and only when reached; a report's
  sections are of moments in order;
- startup: the schema is at all times that of one revision; whoever serves has a
  whole catalogue; seeding again neither restocks nor replaces a row;
- cart page: once everything is answered it shows the cart as it is; a retry
  carries the key of the attempt it retries and any other attempt a new one.

## Modules

| Module | What it is |
|---|---|
| `Store` | the rows, their constraints, row locks, money; `PublishSale`, everything a checkout's commit makes visible |
| `Ledger` | what checkout promises: a sale is one atomic step, a receipt only ever shows a sale recorded under its cart and key |
| `Checkout` | every statement of `service.checkout`, `quote_discount`, `mark_redeemed`, and the router's commit or rollback |
| `CheckoutProofs` | theorems about `Checkout` |
| `LockProofs` | more of them: the order of its locks, circles of waits, refusals |
| `StockProofs` | more of them: what is summed, the units of stock and an order's money |
| `Carts` | the four mutating cart endpoints |
| `CartsProofs` | theorems about `Carts` |
| `Shop` | `Checkout` and `Carts` over the same rows |
| `ShopProofs` | theorems about `Shop`, from the lemmas of all of the above |
| `Admin` | `generate_coupon` and `build_report` against committing checkouts |
| `AdminProofs` | theorems about `Admin` |
| `CartPage` | the demo UI's cart page: clicks, calls, loads and what it shows, against a service that serves each request in one step |
| `CartPageProofs` | theorems about `CartPage` |
| `Startup` | migrations, seed script and start command of several instances and operators, with crashes |
| `StartupProofs` | theorems about `Startup` |
| `MCCheckout`, `MCCarts`, `MCShop`, `MCAdmin`, `MCCartPage`, `MCStartup` | small instances for TLC, one `.cfg` per run |

How state and actions correspond to the code:

- The variables of `Store` are the *committed* values of the columns. A
  transaction's own uncommitted writes are kept in its module (`pending`,
  `draft`, `write`, `coupon`) until `Commit`, `CommitEdit` or `CommitCoupon`
  publishes them; `holder` is the transaction that keeps other writers of a row
  waiting. This is READ COMMITTED: each statement reads what is committed when
  it runs, and a conditional `UPDATE` that waited for a lock evaluates its
  `WHERE` on the row as it is then.
- An action is one statement with the Python that handles its result, so a
  request can be interrupted by any other between two of its statements. Writes
  that no other transaction can see or wait for are part of the next statement
  that can: the order's items and the cart's new status (`InsertKey`), the
  `refresh` after an insert.
- A statement that needs a locked row is not enabled until the lock is free. A
  decrement that finds too little stock needs no lock: PostgreSQL evaluates the
  `WHERE` before it waits. `DeadlockVictim` is PostgreSQL's failing of one
  transaction in a circle of waits.
- `Abort` and `AbortEdit` are a lost connection, to the client or to the database,
  or a dead worker at any point; after the commit they are a lost answer. The 500
  that a lost database connection is answered with counts as `NO_ANSWER`: it tells
  the client no more of what was committed. `FailGenerate` is the same before the
  commit; after it a lost answer would leave the coupon that the admin can see in
  the report, and nothing else.
- `LongKeys` are the idempotency keys of more than 255 characters. Nothing but the
  column checks the length, so `InsertKey` is what fails.
- `Checkout!Arrive` is the key lookup before the lock, `Recheck` the one behind
  it. `Reply` ends the transaction of a refusal or a replay (`session.rollback()`,
  or the commit of a transaction that wrote nothing) and gives the client its
  answer.
- Uuids are drawn afresh by every attempt; an order, an item and a coupon row
  are named by the request that inserts them. A retry is a request of its own
  that names the same key.
- In `Shop`, requests of the two kinds interleave on the same rows. `Admin` takes
  a whole checkout as the step in which it commits, since its statements read
  only committed rows and wait for no row a checkout locks.
- In `CartPage` a call is a member of `Calls`, made once; `waiting` are those the
  page awaits, and a call it has given up on can still be served. `load` is the
  fetch of the current effect, which the next effect cancels; `reloads` are
  those of `reload()`, which nothing cancels. A component that React keeps keeps
  its state: `button` is the mounted `CheckoutButton` with its key, and `Show`
  mounts and unmounts it. A state update, the rendering and the effects it
  causes are one step. The user waits for nothing: edits, adds, checkouts and new
  carts overlap. A line whose edit is under way has its buttons off, but only as
  long as that `CartLine` is mounted: `loose` are the edits whose line has gone
  from the screen since, and a line that comes back can be edited again. A failed
  call (`CallFails`) gives either notice: the response may be lost, or be there
  and not be read. Reloads begun at different losses are different members of
  `reloads`. `unsure` is a history variable, no state of the page (as are
  `Crossing`, `LoneFetch` and `Doubt`, which say when it changes): a request has
  failed, or a line edit or reload has crossed another request, and no fetch has
  been alone since.
- In `Startup` a command is one run of the start command, of `alembic upgrade`,
  of `alembic downgrade` or of the seed script; a restart is a further command.
  All revisions a command applies are one transaction (`env.py`), of which a step
  is one DDL statement or the update of `alembic_version`; `done` is what it has
  created or dropped and not committed, and locks. A statement takes the locks it
  needs together. A downgrade drops the enum types as `checkfirst` does, passing
  over one that is not there; one to a later revision than the database's fails at
  once. `Sell` stands for the checkouts of an instance that serves.

Operators headed *Faulty form* are not part of any specification. Each is a
definition with one likely slip of the code; with it in place of the original,
the run named in `PROJECT.json` finds the property it breaks.

## Runs

| Run | Instance | Shows |
|---|---|---|
| `checkout_safety` | 3 checkouts, 2 carts, 2 products of distinct names, 2 keys, 1 coupon | `SoldTogether`, `ReceiptsAgree`, `HonestRefusals`, `Reserved`, `StockConserved` when a later decrement fails, `NoWaitCycle`, `ImplementsLedger`: same-key retries, keys reused across carts, the coupon race, lost answers |
| `checkout_live` | 2 checkouts, 2 products of one name, 2 keys, one over-long | `Answered`: lock waits end, circular ones through the victim; `HonestRefusals` where statements fail because of a circle or of a key |
| `cart_edits` | 3 edits of 1 cart, 2 products, ids of its lines, of removed lines and of none | `EditsApplied`, `IdsNameLines`, `LinesWithinStock`, `LocksReleased` |
| `shop` | 2 checkouts and an edit, 2 carts of 1 product; the order of a cart of two overflows | `EditsReserved`, `OrdersMatchCarts`, `EditsApplied`, `AllAnswered`, `ErrorsExplained`: the overflow is the one way to fail before there is an order; and `TypeOK`, `IInv`, `ImplementsLedger` with edits going on |
| `admin_race` | 2 generates, 1 report, 4 checkouts, milestone every 2 orders | `CouponsEarned`, `OutcomesTrue`, `SectionsInOrder`, `GenerateAnswered` |
| `page_race` | 5 calls, 2 carts of one product, 3 keys, 1 loss | `FreshWhenQuiet`, `LabelTellsRetry`, `EditsOnlyWhatIsShown` |
| `startup` | 3 commands of any kind, 2 product names, the 4 revisions, crashes anywhere | `SchemaOfVersion`, `FailedForLatest`, `ServesCatalogue`, `SeedKeepsRows`, `Settles` |

Five runs end in a counterexample: three to a sentence of DECISIONS.md, one to what
the page tells its user and one to what the seed script says of itself:

- `name_ties`: decrements are ordered by product *name*, which is not unique, so
  two products of one name can be locked in opposite orders and two checkouts
  deadlock. (Everything else holds: one is rolled back whole and its client can
  retry, which `checkout_live` checks.)
- `key_race`: one key used for two carts *at the same time* passes both lookups;
  the second insert fails on the primary key and the client is told
  INTERNAL_ERROR instead of `IDEMPOTENCY_KEY_REUSED`. No wrong order is shown.
- `torn_report`: the three queries of a report run at different moments, so a
  checkout between them is in the units sold and not in the revenue.
  `SectionsInOrder` says how far apart the sections can be.
- `retry_other_cart`: after a lost answer the user makes another cart and puts
  something in it before it is loaded. React keeps the first cart's
  `CheckoutButton`, with its notice and its key; every click for the new cart is
  refused with IDEMPOTENCY_KEY_REUSED, and a failure keeps the key.
- `seed_twice`: two seed scripts that overlap both find a name missing and both
  insert it; no constraint refuses the second. The catalogue then shows every
  product twice, and two products of one name are what `name_ties` needs.

A sixth disagreement is one of documents only. DECISIONS.md:430-432 says that
"booting the stack does not populate products automatically", while
`docker-compose.yml:26-29` runs the seed script before the API serves, and
README.md:29 says so. The code is as `ServesCatalogue` has it, which holds; the
sentence of DECISIONS.md is out of date.

**Bounds.** Two requests are enough for most races and three for a race with a
retry or with a third that arrives in between. Two carts and two keys give every equality pattern among
three asks that the code distinguishes. Two products are what a partial failure
and a lock-order conflict need, and what lets two checkouts race for one coupon:
with one product the second would wait for the first one's stock until the first
has committed, and only quote the coupon after that. Stock of two units makes one, both or none of the
sales possible. Five calls of the page are a cart, a line, a checkout and two more
of any kind (another cart and its line, an edit, a retry); more keys than three
add no state. Three commands are two that race and a third that comes after or
between, such as a downgrade. `Int4Max` is set so that in `shop` the total of some
cart exceeds it. The over-long key is in `checkout_live`, whose two requests leave room for
it; ids of another cart's lines are exercised in `shop`, which has two carts. The
instances are kept to a few minutes of checking each.
`CHECK_DEADLOCK FALSE` is given because a run ends when every request has been
answered.

**Fairness.** Only for statements of requests that have arrived: the event loop
resumes a coroutine whose result is there, and PostgreSQL grants a lock that is
free. Weak fairness is enough, since a checkout waits for a cart held by requests
each of which ends. No arrival and no failure is ever assumed. In
`Startup` a command that has begun goes on, unless it crashes, from its first
statement through its seeding (`Settles`). In all runs
the number of requests is finite, so a wait cannot be prolonged for ever by
newcomers; the code gives no guarantee against that.

## Proofs

`CheckoutProofs` proves for every number of checkouts, carts, products, coupons
and keys, and every stock, price and cart content:

- `Invariance`: `Spec => []IInv`;
- `TypeCorrect`, `ReservationsHold`, `SalesAreWhole`, `ReceiptsAreTrue`: its
  parts as properties of their own;
- `Refinement`: `Spec => ImplementsLedger`.

`IInv` is `TypeOK /\ Progress /\ Reserved /\ SoldTogether /\ ReceiptsAgree`.
`SoldTogether` alone is not inductive: that a commit closes a cart which no order
has yet, spends a coupon which is unspent and records a key which is unrecorded
follows only from what the transaction *reserved* statements earlier and still
holds. `Reserved` says that, request by request and place by place; it is
preserved by the steps of others because whoever commits a change to a row holds
its lock (`ReservedByOthers`). `Progress` ties a request's place to its having an
ask, an answer or an order. The refinement maps a commit to `Sell`, an arrival to
`Ask`, a reply that shows an order to `Tell`, and all else to stuttering.

The assumptions are those of `Store` and `Checkout` on the constants: rows of
different tables are different, `None` is no row, stock and prices are naturals,
`Percent` is in 1..100, carts start within the stock. The last is what the soft
inventory check ensures (`CartsProofs!LinesCovered`).

`CartsProofs` proves all of the safety properties of the cart endpoints, for every
number of requests, carts, products and quantities:

- `CartsInvariance`: `Spec => []CartsInv`, with its parts `EditsTyped`,
  `EditsKeepWhatTheyFound`, `LinesCovered` and `IdsUnique`;
- `EditsLand`: `Spec => EditsApplied`;
- `LocksEnd`: `Spec => []LocksReleased`.

`EditsReserved` is to an edit what `Reserved` is to a checkout: from its check to
its commit it holds its cart, the cart is open, and what it is about to write is
what was asked for, of the lines as they are; this is what makes `EditsApplied`
provable. That an id names one line needs that an edit's own id is on no line before
its commit. `CommitSteps` says what a commit does (`Puts`), and the proofs about lines
and ids follow from that alone. Every lemma is about one step of one edit in a state
where `CartsInv` holds, and says nothing of what other steps there are.

`ShopProofs` proves the same of checkouts and edits together, for every number of
each:

- `ShopInvariance`: `ShopSpec => []ShopInv`, with its parts `CheckoutsUndisturbed`
  (`IInv`), `EditsHold`, `OrdersStay`, `LinesCovered` and `IdsUnique`;
- `RefusalsStayTrue`, `NoDeadlockWithEdits`, `StockStaysConserved` and
  `ErrorsStayForSize`: what `LockProofs` and `StockProofs` say of checkouts alone;
- `NoDeadlockAtAll`: no circle of waits among requests of both kinds. An edit in a
  circle would wait for a cart and hold a row, which `EditLocksEnd` excludes; so the
  circle would be one of checkouts;
- `EditsLand`: `ShopSpec => EditsApplied`;
- `ShopRefinement`: `ShopSpec => ImplementsLedger`, the commit of an edit being a
  `Refill`.

`ShopInv` is `IInv`, the invariant of `Carts` and `OrdersMatchCarts`. A step of a
checkout keeps what edits rely on because it closes only carts it holds
(`CartsKept`) and takes no row an edit has (`EditLocksKept`). A step of an edit keeps
what checkouts rely on because it changes only a cart that it holds or that is absent
(`EditTables`). What it does to the carts is not proved again: `Shop` instantiates
`Carts`, `ShopProofs` instantiates `CartsProofs`, `SameSteps` and `SameInv` say that
the two instances have the same steps and the same invariant, and
`AssumptionsOfCarts` discharges the assumptions of `Carts`. The assumptions of `Shop`
(`EditorTypes`) are that no request is both an edit and a checkout and that ids drawn
by requests are not those of lines there were to begin with.

`LockProofs` proves two more properties of `Checkout`:

- `NoDeadlock`: `Spec => []NoWaitCycle` if no two products share a name. A checkout
  takes its locks in the order cart, products by name, coupon, key (`LocksOf`), so
  that whoever holds a coupon or a key waits for nothing but a key, and nobody in a
  circle waits for a cart, a coupon or a key (`OnlyStockWaits`). Along the waits
  that are left the names ascend (`WaitsAscend`), which a circle cannot do for ever
  backwards: some name in it is the smallest (`SmallestExists`, by well-founded
  induction over the naturals). The assumption is the one whose failure `name_ties`
  shows.
- `RefusalsAreTrue`: `Spec => []HonestRefusals`. `RefusalInv` adds to
  `LockInv` that a refusal is true of the committed rows from the moment it is
  decided (`Honest`), before its transaction has ended; it stays true since stock
  only falls, a sold cart is never opened, a coupon never unspent and a key
  never forgotten.

`StockProofs` proves two properties of sums:

- `StockIsConserved`: `Spec => []StockConserved`, for a finite set of requests (any
  run has served finitely many; a sum over infinitely many is not defined). The sum
  is a fold of the community modules, which is defined by choosing a function that
  satisfies its equation. `SumEquation` shows that there is one, by induction on the
  size of the set (a predicate is made a set, so that no induction theorem with an
  operator parameter is needed); `SumOfZeros` and `SumOfChange` follow: a sum of
  zeros is zero, and one term more changes the sum by that term. A commit takes from
  the inventory what it adds to the sum (`CommitStock`), no other step changes
  either.
- `ErrorsAreForSize`: `Spec => []ErrorsExplained`, for finitely many products with
  distinct names. The discount is at most the subtotal (`DiscountBound`), so the one
  constraint of `orders` that can fail is the width of its columns (`OrderFits`); and
  a deadlock, the other way to fail, needs a circle (`NoCircle`).

`AdminProofs` proves, for any number of generates, reports and checkouts, that
`AdminInv` is invariant (`AdminInvariance`), and from it `AdminTypes`,
`MilestonesEarned`, `AnswersTrue` and `ReportInOrder`. That no milestone is rewarded
twice and none early needs three facts beside the property: exactly the committed
coupons have a milestone (`Numbered`), a generate that is about to insert has a
multiple of `Every` that the committed orders have reached (`GeneratorHolds`), and
an inserted row that is not committed keeps every other generate from its milestone
(`OneInserter`). A report is in order since sales only grow (`ReporterHolds`). That
the set of sales is finite is part of the invariant and no assumption.

`StartupProofs` proves, for any number of commands, names and revisions, that
overlapping, failing and crashing upgrades and downgrades keep `SchemaOfVersion`
(`SchemaFollowsVersion`): at most one transaction at a time has written
`alembic_version` (`OneStamps`), and what such a transaction sees, the committed
schema with what it has done, is the schema of the revision it has come to with as
much of the next one as is done (`MigrationHolds`). `SeedingIsSafe` is an action property of the same
specification. While nobody downgrades the revision only grows (`OnwardInv`), from
which `OnlyRacesFail` and `CatalogueServed`.

`CartPageProofs` proves all of the page's safety properties, for any number of
calls, carts, keys and losses; the one assumption is that `None` is none of the
others. `PageInv` says that the lines of every view, on its way or shown, bear ids of
adds to that view's cart (`AllSourced`). An edit therefore names a line of the cart
that was shown, and can only be served by that cart (`EditsHitWhatIsShown`).
For `ScreenIsFresh`, `Sure` says what is true while `unsure` is not: nothing crosses,
every request the page gave up on was answered, and what is shown is
`UpToDate`, which means that a response is coming whose effect fetches the cart, or
the fetch or edit under way will show it as it is, or it is shown already. The
lemmas named `...Sures` keep it action by action; `LoneFetchSures` restores it.

Only model-checked are the liveness properties (`Answered`, `AllAnswered`,
`GenerateAnswered`, `Settles`), which are out of the prover's reach, and what each
counterexample shows. Every other property of a passing run is also proved.

## Not modelled

The catalogue's reads, the rendering of responses and error envelopes,
configuration and the health check keep no state that requests race for. Prices,
names and the milestone settings do not change while the service runs: the code
has no operation that changes them. Of the demo UI the product list and the stock
it shows, the coupon field, the receipt and the admin panel are left out, and which
quantity a line's field happens to hold: the user sends any. Of alembic the
offline mode and the writing of new revisions are left out; columns and constraints
are those of the tables in `Store`.

## Plan

1. `CartPage` over `Ledger` instead of a service of its own.
2. `Admin` and `Checkout` together, so that a coupon is generated, quoted and
   spent statement by statement.
