------------------------------- MODULE Startup ------------------------------
(***************************************************************************)
(* How instances of the service come up against one database: each runs    *)
(* `alembic upgrade head`, then the seed script, then serves; operators    *)
(* run the first two by hand as well, and downgrade.                       *)
(*                                                                         *)
(* A command is one run of one of these; a restart is another command.     *)
(* All revisions that a command applies are one transaction (env.py), of   *)
(* which a step is one DDL statement.  A statement takes the locks it      *)
(* needs together, and waits while another transaction has one of them.    *)
(***************************************************************************)
EXTENDS Integers, Sequences, FiniteSets

CONSTANTS
    Commands,   \* the runs of a command
    Names,      \* the names in SEED_PRODUCTS
    Stock,      \* the inventory each of them is seeded with
    Targets,    \* the revisions that operators downgrade to
    None

----------------------------------------------------------------------------
(* The revisions, in order: what each creates, with what that needs to     *)
(* exist (the tables it references and the types of its columns), and what *)
(* its downgrade drops.                                                    *)

Object(name, needs) == [name |-> name, needs |-> needs]

ProductRevision ==
    [creates |-> <<Object("products", {})>>, drops |-> <<"products">>]

\* Faulty form: the downgrade drops its tables and leaves their type.
CartRevisionLeavingType ==
    [creates |-> <<Object("cart_status", {}),
                   Object("carts", {"cart_status"}),
                   Object("cart_items", {"carts", "products"})>>,
     drops |-> <<"cart_items", "carts">>]

CartRevision ==
    [creates |-> <<Object("cart_status", {}),
                   Object("carts", {"cart_status"}),
                   Object("cart_items", {"carts", "products"})>>,
     drops |-> <<"cart_items", "carts", "cart_status">>]

OrderRevision ==
    [creates |-> <<Object("idempotency_keys", {}),
                   Object("order_status", {}),
                   Object("orders", {"order_status", "carts"}),
                   Object("order_items", {"orders", "products"})>>,
     drops |-> <<"order_items", "orders", "idempotency_keys", "order_status">>]

CouponRevision ==
    [creates |-> <<Object("coupon_status", {}),
                   Object("coupons", {"coupon_status", "orders"})>>,
     drops |-> <<"coupons", "coupon_status">>]

\* What is an enum type and no table.
Types == {"cart_status", "order_status", "coupon_status"}

Revisions == <<ProductRevision, CartRevision, OrderRevision, CouponRevision>>

Latest == Len(Revisions)

ASSUME StartupTypes ==
    /\ Stock \in [Names -> Nat]
    /\ Targets \subseteq 0..(Latest - 1)

CreatedBy(v) ==
    {Revisions[v].creates[i] : i \in 1..Len(Revisions[v].creates)}

\* The tables and types of a database at revision v.
SchemaOf(v) == {o.name : o \in UNION {CreatedBy(u) : u \in 1..v}}

Needs == [name \in SchemaOf(Latest) |->
    UNION {o.needs : o \in {p \in UNION {CreatedBy(u) : u \in 1..Latest} :
                               p.name = name}}]

----------------------------------------------------------------------------

VARIABLES
    version,    \* the revision in alembic_version, 0 when it has no row
    schema,     \* the tables and types there are
    rows,       \* the products rows: a name, who inserted it, the units left
    job,        \* what each command is, or None before it begins
    at,         \* how far it is
    rev,        \* the revision its transaction has got to
    goal,       \* the revision it goes to
    done,       \* what it has created or dropped, and not committed
    found       \* the names its seed script read

database == <<version, schema, rows>>
vars == <<database, job, at, rev, goal, done, found>>

Jobs == {"start", "migrate", "seed", "downgrade"}

ASSUME NoneIsNoJob == None \notin Jobs

Places == {"idle", "migrating", "seeding", "inserting", "serving",
           "ended", "failed", "crashed"}

Rows == [name : Names, by : Commands, left : Nat]

\* alembic_version, whose row says the version, is there from the start.
Stamp == "alembic_version"

TypeOK ==
    /\ version \in 0..Latest
    /\ schema \subseteq SchemaOf(Latest)
    /\ rows \subseteq Rows
    /\ job \in [Commands -> Jobs \cup {None}]
    /\ at \in [Commands -> Places]
    /\ rev \in [Commands -> 0..Latest]
    /\ goal \in [Commands -> 0..Latest]
    /\ done \in [Commands -> SUBSET (SchemaOf(Latest) \cup {Stamp})]
    /\ found \in [Commands -> SUBSET Names]

Init ==
    /\ version = 0
    /\ schema = {}
    /\ rows = {}
    /\ job = [c \in Commands |-> None]
    /\ at = [c \in Commands |-> "idle"]
    /\ rev = [c \in Commands |-> 0]
    /\ goal = [c \in Commands |-> 0]
    /\ done = [c \in Commands |-> {}]
    /\ found = [c \in Commands |-> {}]

Goto(c, place) == at' = [at EXCEPT ![c] = place]

----------------------------------------------------------------------------
(* Transactions. *)

\* The schema as the transaction of c sees it.
View(c) ==
    IF job[c] = "downgrade" THEN schema \ done[c]
    ELSE schema \cup (done[c] \ {Stamp})

\* What the transaction of c has locked: what it has created, dropped or
\* written, and the tables that these reference.
Locked(c) == done[c] \cup UNION {Needs[o] : o \in done[c] \ {Stamp}}

Free(c, objects) ==
    \A d \in Commands \ {c} : Locked(d) \cap objects = {}

\* A statement fails: the transaction is rolled back and the command exits.
Fail(c) ==
    /\ Goto(c, "failed")
    /\ done' = [done EXCEPT ![c] = {}]
    /\ UNCHANGED <<database, job, rev, goal, found>>

----------------------------------------------------------------------------
(* Migrations. *)

\* A command begins; one that migrates reads the version to start from, and is
\* refused a downgrade to a later one.
Begin(c) ==
    /\ at[c] = "idle"
    /\ \E j \in Jobs : \E v \in IF j = "downgrade" THEN Targets ELSE {Latest} :
        /\ job' = [job EXCEPT ![c] = j]
        /\ goal' = [goal EXCEPT ![c] = v]
        /\ Goto(c, CASE j = "seed" -> "seeding"
                     [] j = "downgrade" /\ v > version -> "failed"
                     [] OTHER -> "migrating")
    /\ rev' = [rev EXCEPT ![c] = version]
    /\ UNCHANGED <<database, done, found>>

Upgrading(c) ==
    at[c] = "migrating" /\ job[c] # "downgrade" /\ rev[c] < goal[c]

Downgrading(c) ==
    at[c] = "migrating" /\ job[c] = "downgrade" /\ rev[c] > goal[c]

\* The statements of a revision's function, by their place in it, that the
\* transaction of c has still to run.
ToCreate(c) ==
    LET creates == Revisions[rev[c] + 1].creates
    IN  {i \in 1..Len(creates) : creates[i].name \notin done[c]}

ToDrop(c) ==
    LET drops == Revisions[rev[c]].drops
    IN  {i \in 1..Len(drops) : drops[i] \notin done[c]}

Foremost(statements) == {i \in statements : \A j \in statements : i <= j}

Did(c, name) ==
    /\ done' = [done EXCEPT ![c] = @ \cup {name}]
    /\ UNCHANGED <<database, job, at, rev, goal, found>>

\* CREATE fails on a name that is taken or a reference to what is not there,
\* and waits for another transaction that is creating or dropping either.
Create(c) ==
    /\ Upgrading(c)
    /\ \E i \in Foremost(ToCreate(c)) :
        LET o == Revisions[rev[c] + 1].creates[i] IN
        \/ /\ ~ o.needs \subseteq View(c)
           /\ Fail(c)
        \/ /\ o.needs \subseteq View(c)
           /\ Free(c, {o.name} \cup o.needs)
           /\ IF o.name \in View(c) THEN Fail(c) ELSE Did(c, o.name)

\* DROP waits in the same way, and for a seed script that has read the
\* products; it fails on what is still needed, and on a table that is not there
\* (a type that is not there is passed over: checkfirst).
Drop(c) ==
    /\ Downgrading(c)
    /\ \E i \in Foremost(ToDrop(c)) :
        LET name == Revisions[rev[c]].drops[i] IN
        /\ Free(c, {name} \cup Needs[name])
        /\ "products" \in {name} \cup Needs[name] =>
              \A d \in Commands : at[d] # "inserting"
        /\ IF name \in View(c) \cup Types /\ \A o \in View(c) : name \notin Needs[o]
           THEN Did(c, name)
           ELSE Fail(c)

\* Faulty form: a downgrade is numbered as the upgrade after it.
FollowingUp(c) == rev[c] + 1

Following(c) == IF job[c] = "downgrade" THEN rev[c] - 1 ELSE rev[c] + 1

\* The revision is done: its number replaces, in alembic_version, the one that
\* the command found or wrote there, and nothing else.
Stamped(c) ==
    /\ \/ Upgrading(c) /\ ToCreate(c) = {}
       \/ Downgrading(c) /\ ToDrop(c) = {}
    /\ Free(c, {Stamp})
    /\ IF Stamp \notin done[c] /\ version # rev[c]
       THEN Fail(c)
       ELSE /\ rev' = [rev EXCEPT ![c] = Following(c)]
            /\ done' = [done EXCEPT ![c] = @ \cup {Stamp}]
            /\ UNCHANGED <<database, job, at, goal, found>>

\* COMMIT, when there is no revision left; a starting instance goes on to seed.
CommitMigration(c) ==
    /\ at[c] = "migrating"
    /\ ~ Upgrading(c) /\ ~ Downgrading(c)
    /\ schema' = View(c)
    /\ version' = IF Stamp \in done[c] THEN rev[c] ELSE version
    /\ rows' = IF "products" \in View(c) THEN rows ELSE {}
    /\ done' = [done EXCEPT ![c] = {}]
    /\ Goto(c, IF job[c] = "start" THEN "seeding" ELSE "ended")
    /\ UNCHANGED <<job, rev, goal, found>>

----------------------------------------------------------------------------
(* The seed script. *)

\* SELECT name FROM products.
ReadNames(c) ==
    /\ at[c] = "seeding"
    /\ \A d \in Commands : job[d] = "downgrade" => "products" \notin Locked(d)
    /\ IF "products" \notin schema THEN Fail(c)
       ELSE /\ found' = [found EXCEPT ![c] = {row.name : row \in rows}]
            /\ Goto(c, "inserting")
            /\ UNCHANGED <<database, job, rev, goal, done>>

Seeded(c, names) ==
    {[name |-> n, by |-> c, left |-> Stock[n]] : n \in names}

\* Faulty form: what is in the catalogue is brought up to date.
InsertOrRestock(c) ==
    /\ at[c] = "inserting"
    /\ Free(c, {"products"})
    /\ rows' = {[row EXCEPT !.left = Stock[row.name]] : row \in rows}
                   \cup Seeded(c, Names \ found[c])
    /\ Goto(c, IF job[c] = "start" THEN "serving" ELSE "ended")
    /\ UNCHANGED <<version, schema, job, rev, goal, done, found>>

\* The names that were not there are inserted and committed; a starting
\* instance goes on to serve.
InsertMissing(c) ==
    /\ at[c] = "inserting"
    /\ Free(c, {"products"})
    /\ rows' = rows \cup Seeded(c, Names \ found[c])
    /\ Goto(c, IF job[c] = "start" THEN "serving" ELSE "ended")
    /\ UNCHANGED <<version, schema, job, rev, goal, done, found>>

----------------------------------------------------------------------------

\* An instance that serves sells a unit: the checkouts of other modules.
Sell(c) ==
    /\ at[c] = "serving"
    /\ schema = SchemaOf(Latest)
    /\ \A d \in Commands : done[d] = {}
    /\ \E row \in rows :
        /\ row.left > 0
        /\ rows' = (rows \ {row}) \cup {[row EXCEPT !.left = @ - 1]}
    /\ UNCHANGED <<version, schema, job, at, rev, goal, done, found>>

\* Faulty form: every statement of a migration is committed by itself.
CrashLeavingDone(c) ==
    /\ at[c] \in {"migrating", "seeding", "inserting", "serving"}
    /\ Goto(c, "crashed")
    /\ schema' = View(c)
    /\ done' = [done EXCEPT ![c] = {}]
    /\ UNCHANGED <<version, rows, job, rev, goal, found>>

\* Faulty form: the parts of the start command are joined by `;'.
CrashGoingOn(c) ==
    /\ at[c] \in {"migrating", "seeding", "inserting"}
    /\ Goto(c, CASE job[c] # "start" -> "crashed"
                 [] job[c] = "start" /\ at[c] = "migrating" -> "seeding"
                 [] OTHER -> "serving")
    /\ done' = [done EXCEPT ![c] = {}]
    /\ UNCHANGED <<database, job, rev, goal, found>>

\* Faulty form: the transaction outlives its command.
CrashWithoutRollback(c) ==
    /\ at[c] \in {"migrating", "seeding", "inserting", "serving"}
    /\ Goto(c, "crashed")
    /\ UNCHANGED <<database, job, rev, goal, done, found>>

\* The process is stopped or loses its connection.
Crash(c) ==
    /\ at[c] \in {"migrating", "seeding", "inserting", "serving"}
    /\ Goto(c, "crashed")
    /\ done' = [done EXCEPT ![c] = {}]
    /\ UNCHANGED <<database, job, rev, goal, found>>

Step(c) ==
    \/ Create(c) \/ Drop(c) \/ Stamped(c) \/ CommitMigration(c)
    \/ ReadNames(c) \/ InsertMissing(c)

Next == \E c \in Commands : Begin(c) \/ Step(c) \/ Sell(c) \/ Crash(c)

Spec == Init /\ [][Next]_vars

\* A command that has begun goes on; none is ever owed, and no sale.
FairSpec == Spec /\ \A c \in Commands : WF_vars(Step(c))

----------------------------------------------------------------------------
(* Correctness. *)

\* Whatever commands run, fail and die together, the database is at one
\* revision: its tables and types are those that alembic_version says, so that
\* "every migration has a working downgrade()" (README) and the next upgrade
\* finds no leftover of it.
SchemaOfVersion == schema = SchemaOf(version)

Downgraded == \E c \in Commands : job[c] = "downgrade"

\* An instance or an upgrade that exits because a statement failed has lost a
\* race and no more: another command has brought the database to the head, and
\* the instance can be started again.
FailedForLatest ==
    \A c \in Commands :
        at[c] = "failed" /\ job[c] # "seed" /\ ~ Downgraded => version = Latest

\* An instance that serves has every table and every product to serve, as long
\* as nobody downgrades: "a working, populated API" (docker-compose.yml).  An
\* older line, "booting the stack does not populate products automatically"
\* (DECISIONS.md), is no longer so: the start command runs the seed script.
ServesCatalogue ==
    \A c \in Commands : at[c] = "serving" /\ ~ Downgraded =>
        /\ version = Latest
        /\ \A n \in Names : \E row \in rows : row.name = n

KeepsRows ==
    \A row \in rows :
        \/ "products" \notin schema'
        \/ \E later \in rows' : /\ later.name = row.name /\ later.by = row.by
                                /\ later.left <= row.left

\* "It's always safe to re-run" (run-the-project.md) while instances sell:
\* seeding gives nothing back that was sold and removes nothing; a row is gone
\* only with its table.
SeedKeepsRows == [][KeepsRows]_vars

\* No command waits for ever for the locks of others.
Settles ==
    \A c \in Commands :
        at[c] \in {"migrating", "seeding", "inserting"}
            ~> at[c] \in {"serving", "ended", "failed", "crashed"}

\* "Skipping any product whose name already exists, so it is safe to run
\* repeatedly" (seed.py): no name is in the catalogue twice.
NamesOnce ==
    \A r, s \in rows : r.name = s.name => r = s

============================================================================
