---------------------------- MODULE StartupProofs ---------------------------
(***************************************************************************)
(* Theorems about Startup, for any number of commands, any catalogue and   *)
(* any revisions that operators downgrade to.                              *)
(***************************************************************************)
EXTENDS Startup, TLAPS

(* What the four revisions are, as far as the proofs need it. *)

NamesOf(v) == {o.name : o \in CreatedBy(v)}

DroppedBy(v) == {Revisions[v].drops[i] : i \in 1..Len(Revisions[v].drops)}

LEMMA LatestIs == Latest = 4
    BY DEF Latest, Revisions

LEMMA RevisionIs ==
    /\ Revisions[1] = ProductRevision
    /\ Revisions[2] = CartRevision
    /\ Revisions[3] = OrderRevision
    /\ Revisions[4] = CouponRevision
    BY DEF Revisions

LEMMA Named ==
    /\ NamesOf(1) = {"products"}
    /\ NamesOf(2) = {"cart_status", "carts", "cart_items"}
    /\ NamesOf(3) = {"idempotency_keys", "order_status", "orders", "order_items"}
    /\ NamesOf(4) = {"coupon_status", "coupons"}
<1>1. NamesOf(1) = {"products"}
    BY RevisionIs DEF NamesOf, CreatedBy, ProductRevision, Object
<1>2. NamesOf(2) = {"cart_status", "carts", "cart_items"}
    BY RevisionIs DEF NamesOf, CreatedBy, CartRevision, Object
<1>3. NamesOf(3) = {"idempotency_keys", "order_status", "orders", "order_items"}
    BY RevisionIs DEF NamesOf, CreatedBy, OrderRevision, Object
<1>4. NamesOf(4) = {"coupon_status", "coupons"}
    BY RevisionIs DEF NamesOf, CreatedBy, CouponRevision, Object
<1> QED BY <1>1, <1>2, <1>3, <1>4

LEMMA DropsUndo == \A v \in 1..Latest : DroppedBy(v) = NamesOf(v)
<1>1. DroppedBy(1) = NamesOf(1)
    BY RevisionIs, Named DEF DroppedBy, ProductRevision
<1>2. DroppedBy(2) = NamesOf(2)
    BY RevisionIs, Named DEF DroppedBy, CartRevision
<1>3. DroppedBy(3) = NamesOf(3)
    BY RevisionIs, Named DEF DroppedBy, OrderRevision
<1>4. DroppedBy(4) = NamesOf(4)
    BY RevisionIs, Named DEF DroppedBy, CouponRevision
<1> QED BY <1>1, <1>2, <1>3, <1>4, LatestIs

LEMMA SchemaGrows ==
    /\ SchemaOf(0) = {}
    /\ \A v \in 1..Latest : SchemaOf(v) = SchemaOf(v - 1) \cup NamesOf(v)
<1>1. SchemaOf(0) = {}
    BY DEF SchemaOf
<1>2. ASSUME NEW v \in 1..Latest
      PROVE  SchemaOf(v) = SchemaOf(v - 1) \cup NamesOf(v)
  <2>1. \A u : u \in 1..v <=> u \in 1..(v - 1) \/ u = v
    BY <1>2, LatestIs
  <2> HIDE DEF CreatedBy
  <2> QED BY <2>1 DEF SchemaOf, NamesOf
<1> QED BY <1>1, <1>2

LEMMA SchemaIs ==
    /\ SchemaOf(0) = {}
    /\ SchemaOf(1) = {"products"}
    /\ SchemaOf(2) = SchemaOf(1) \cup {"cart_status", "carts", "cart_items"}
    /\ SchemaOf(3) = SchemaOf(2) \cup {"idempotency_keys", "order_status",
                                       "orders", "order_items"}
    /\ SchemaOf(4) = SchemaOf(3) \cup {"coupon_status", "coupons"}
    BY SchemaGrows, Named, LatestIs

LEMMA NamesAreNew ==
    /\ \A v \in 1..Latest : SchemaOf(v - 1) \cap NamesOf(v) = {}
    /\ Stamp \notin SchemaOf(Latest)
    BY SchemaIs, Named, LatestIs DEF Stamp

LEMMA SchemaMonotonic ==
    ASSUME NEW u \in 0..Latest, NEW v \in u..Latest
    PROVE  SchemaOf(u) \subseteq SchemaOf(v)
    BY SchemaIs, LatestIs

----------------------------------------------------------------------------
(* The inductive invariant of migrations. *)

\* What the revision under way is to create or drop.
Doing(c) ==
    IF Upgrading(c) THEN NamesOf(rev[c] + 1)
    ELSE IF Downgrading(c) THEN NamesOf(rev[c]) ELSE {}

\* A transaction that has stamped the version sees the schema of the revision
\* it stamped, and what it has done of the one under way; one that has not has
\* done nothing else yet.
MigrationHolds(c) ==
    /\ at[c] = "idle" => job[c] = None
    /\ at[c] # "migrating" => done[c] = {}
    /\ at[c] = "migrating" =>
          /\ job[c] \in {"start", "migrate", "downgrade"}
          /\ job[c] # "downgrade" => goal[c] = Latest
          /\ Stamp \notin done[c] => done[c] \subseteq Doing(c)
          /\ Stamp \in done[c] =>
                View(c) = IF job[c] = "downgrade"
                          THEN SchemaOf(rev[c]) \ (done[c] \cap Doing(c))
                          ELSE SchemaOf(rev[c]) \cup (done[c] \cap Doing(c))

\* The lock on the row of alembic_version.
OneStamps ==
    \A c, d \in Commands : Stamp \in done[c] /\ Stamp \in done[d] => c = d

SchemaInv ==
    /\ TypeOK
    /\ SchemaOfVersion
    /\ \A c \in Commands : MigrationHolds(c)
    /\ OneStamps

LEMMA SchemaInitInv == Init => SchemaInv
<1> SUFFICES ASSUME Init PROVE SchemaInv
    OBVIOUS
<1>1. TypeOK
    BY LatestIs DEF Init, TypeOK, Places
<1>2. SchemaOfVersion
    BY SchemaIs DEF Init, SchemaOfVersion
<1>3. \A c \in Commands : MigrationHolds(c)
    BY DEF Init, MigrationHolds
<1>4. OneStamps
    BY DEF Init, OneStamps
<1> QED BY <1>1, <1>2, <1>3, <1>4 DEF SchemaInv

LEMMA DoingIs ==
    ASSUME SchemaInv, NEW c \in Commands
    PROVE  /\ rev[c] \in 0..4 /\ goal[c] \in 0..4 /\ version \in 0..4
           /\ schema = SchemaOf(version)
           /\ Doing(c) \subseteq SchemaOf(Latest)
           /\ Stamp \notin Doing(c)
           /\ Upgrading(c) => /\ rev[c] + 1 \in 1..Latest
                              /\ Doing(c) = NamesOf(rev[c] + 1)
           /\ Downgrading(c) => /\ rev[c] \in 1..Latest
                                /\ Doing(c) = NamesOf(rev[c])
           /\ ~ (Upgrading(c) /\ Downgrading(c))
<1>1. /\ rev[c] \in 0..4 /\ goal[c] \in 0..4 /\ version \in 0..4
      /\ schema = SchemaOf(version)
    BY LatestIs DEF SchemaInv, TypeOK, SchemaOfVersion
<1>2. ~ (Upgrading(c) /\ Downgrading(c))
    BY DEF Upgrading, Downgrading
<1>3. /\ Upgrading(c) => /\ rev[c] + 1 \in 1..Latest
                         /\ Doing(c) = NamesOf(rev[c] + 1)
      /\ Downgrading(c) => /\ rev[c] \in 1..Latest
                           /\ Doing(c) = NamesOf(rev[c])
    BY <1>1, LatestIs DEF Upgrading, Downgrading, Doing
<1>4. \A v \in 1..Latest : NamesOf(v) \subseteq SchemaOf(Latest)
    BY LatestIs, SchemaIs, Named
<1>5. Doing(c) \subseteq SchemaOf(Latest) /\ Stamp \notin Doing(c)
    BY <1>3, <1>4, NamesAreNew DEF Doing
<1> QED BY <1>1, <1>2, <1>3, <1>5

\* Steps that leave the database, and what a command has done, alone.
LEMMA OthersMigrate ==
    ASSUME SchemaInv, NEW c \in Commands, NEW d \in Commands \ {c},
           UNCHANGED <<version, schema>>,
           job'[d] = job[d], at'[d] = at[d], rev'[d] = rev[d],
           goal'[d] = goal[d], done'[d] = done[d]
    PROVE  MigrationHolds(d)'
<1>1. MigrationHolds(d)
    BY DEF SchemaInv
<1> QED BY <1>1 DEF MigrationHolds, View, Doing, Upgrading, Downgrading

LEMMA FailKeepsSchema ==
    ASSUME SchemaInv, NEW c \in Commands, Fail(c) \/ Crash(c), at[c] # "idle"
    PROVE  SchemaInv'
<1>0. /\ TypeOK
      /\ UNCHANGED <<version, schema, rows, job, rev, goal, found>>
      /\ at' \in [Commands -> Places]
      /\ at'[c] \in {"failed", "crashed"}
      /\ \A d \in Commands \ {c} : at'[d] = at[d]
      /\ done' = [done EXCEPT ![c] = {}]
    BY DEF SchemaInv, TypeOK, Fail, Crash, Goto, database, Places
<1>1. TypeOK'
    BY <1>0 DEF TypeOK
<1>2. SchemaOfVersion'
    BY <1>0 DEF SchemaInv, SchemaOfVersion
<1>3. ASSUME NEW d \in Commands PROVE MigrationHolds(d)'
  <2>1. CASE d = c
    BY <1>0, <2>1 DEF MigrationHolds, TypeOK
  <2>2. CASE d # c
    BY <1>0, <2>2, OthersMigrate DEF TypeOK
  <2> QED BY <2>1, <2>2
<1>4. OneStamps'
    BY <1>0 DEF SchemaInv, OneStamps, TypeOK
<1> QED BY <1>1, <1>2, <1>3, <1>4 DEF SchemaInv

LEMMA BeginKeepsSchema ==
    ASSUME SchemaInv, NEW c \in Commands, Begin(c)
    PROVE  SchemaInv'
<1>0. /\ TypeOK /\ MigrationHolds(c) /\ at[c] = "idle"
      /\ UNCHANGED <<version, schema, rows, done, found>>
      /\ rev' = [rev EXCEPT ![c] = version]
      /\ done[c] = {}
    BY DEF SchemaInv, Begin, database, MigrationHolds
<1>1. PICK j \in Jobs, place \in {"seeding", "migrating", "failed"},
           v \in Targets \cup {Latest} :
         /\ job' = [job EXCEPT ![c] = j]
         /\ goal' = [goal EXCEPT ![c] = v]
         /\ Goto(c, place)
         /\ j # "downgrade" => v = Latest
         /\ j = "seed" => place = "seeding"
    BY DEF Begin
<1>2. TypeOK'
  <2>1. goal' \in [Commands -> 0..Latest]
    BY <1>0, <1>1, StartupTypes, LatestIs DEF TypeOK
  <2> QED BY <1>0, <1>1, <2>1 DEF TypeOK, Goto, Places
<1>3. SchemaOfVersion' /\ OneStamps'
    BY <1>0 DEF SchemaInv, SchemaOfVersion, OneStamps
<1>4. ASSUME NEW d \in Commands PROVE MigrationHolds(d)'
  <2>1. CASE d = c
    BY <1>0, <1>1, <2>1 DEF MigrationHolds, TypeOK, Goto, Jobs
  <2>2. CASE d # c
    BY <1>0, <1>1, <2>2, OthersMigrate DEF TypeOK, Goto
  <2> QED BY <2>1, <2>2
<1> QED BY <1>2, <1>3, <1>4 DEF SchemaInv

\* The places in a revision that are left name what is left to do.
LEMMA LeftToCreate ==
    ASSUME SchemaInv, NEW c \in Commands, Upgrading(c)
    PROVE  /\ \A i \in ToCreate(c) :
                 Revisions[rev[c] + 1].creates[i].name \in Doing(c)
           /\ ToCreate(c) = {} => Doing(c) \subseteq done[c]
<1>1. Doing(c) = NamesOf(rev[c] + 1)
    BY DoingIs
<1> QED BY <1>1 DEF ToCreate, NamesOf, CreatedBy

LEMMA LeftToDrop ==
    ASSUME SchemaInv, NEW c \in Commands, Downgrading(c)
    PROVE  /\ \A i \in ToDrop(c) : Revisions[rev[c]].drops[i] \in Doing(c)
           /\ ToDrop(c) = {} => Doing(c) \subseteq done[c]
<1>1. Doing(c) = DroppedBy(rev[c])
    BY DoingIs, DropsUndo
<1> QED BY <1>1 DEF ToDrop, DroppedBy

LEMMA DidKeepsSchema ==
    ASSUME SchemaInv, NEW c \in Commands, NEW name \in Doing(c), Did(c, name),
           at[c] = "migrating"
    PROVE  SchemaInv'
<1>0. /\ TypeOK /\ MigrationHolds(c)
      /\ UNCHANGED <<version, schema, rows, job, at, rev, goal, found>>
      /\ done'[c] = done[c] \cup {name}
      /\ \A d \in Commands \ {c} : done'[d] = done[d]
      /\ name # Stamp /\ name \in SchemaOf(Latest)
    BY DoingIs DEF SchemaInv, Did, database, TypeOK
<1>1. TypeOK'
    BY <1>0 DEF TypeOK, Did
<1>2. SchemaOfVersion'
    BY <1>0 DEF SchemaInv, SchemaOfVersion
<1>3. ASSUME NEW d \in Commands PROVE MigrationHolds(d)'
  <2>1. CASE d = c
    <3>1. Doing(c)' = Doing(c)
      BY <1>0 DEF Doing, Upgrading, Downgrading
    <3>2. View(c)' = IF job[c] = "downgrade" THEN View(c) \ {name}
                     ELSE View(c) \cup {name}
      BY <1>0 DEF View
    <3>3. done'[c] \cap Doing(c)' = (done[c] \cap Doing(c)) \cup {name}
      BY <1>0, <3>1
    <3> QED BY <1>0, <2>1, <3>1, <3>2, <3>3 DEF MigrationHolds
  <2>2. CASE d # c
    BY <1>0, <2>2, OthersMigrate
  <2> QED BY <2>1, <2>2
<1>4. OneStamps'
    BY <1>0 DEF SchemaInv, OneStamps
<1> QED BY <1>1, <1>2, <1>3, <1>4 DEF SchemaInv

LEMMA CreateKeepsSchema ==
    ASSUME SchemaInv, NEW c \in Commands, Create(c)
    PROVE  SchemaInv'
<1>0. at[c] = "migrating" /\ Upgrading(c)
    BY DEF Create, Upgrading
<1>1. PICK i \in ToCreate(c) :
         Fail(c) \/ Did(c, Revisions[rev[c] + 1].creates[i].name)
    BY DEF Create, Foremost
<1>2. Revisions[rev[c] + 1].creates[i].name \in Doing(c)
    BY <1>0, LeftToCreate
<1> QED BY <1>0, <1>1, <1>2, FailKeepsSchema, DidKeepsSchema

LEMMA DropKeepsSchema ==
    ASSUME SchemaInv, NEW c \in Commands, Drop(c)
    PROVE  SchemaInv'
<1>0. at[c] = "migrating" /\ Downgrading(c)
    BY DEF Drop, Downgrading
<1>1. PICK i \in ToDrop(c) : Fail(c) \/ Did(c, Revisions[rev[c]].drops[i])
    BY DEF Drop, Foremost
<1>2. Revisions[rev[c]].drops[i] \in Doing(c)
    BY <1>0, LeftToDrop
<1> QED BY <1>0, <1>1, <1>2, FailKeepsSchema, DidKeepsSchema

\* What the transaction sees when the revision under way is done.
LEMMA StampedView ==
    ASSUME SchemaInv, NEW c \in Commands, at[c] = "migrating",
           Stamp \in done[c] \/ version = rev[c],
           Doing(c) \subseteq done[c]
    PROVE  /\ Upgrading(c) => View(c) = SchemaOf(rev[c] + 1)
           /\ Downgrading(c) => View(c) = SchemaOf(rev[c] - 1)
<1>0. MigrationHolds(c)
    BY DEF SchemaInv
<1>1. View(c) = IF job[c] = "downgrade" THEN SchemaOf(rev[c]) \ Doing(c)
                ELSE SchemaOf(rev[c]) \cup Doing(c)
  <2>1. CASE Stamp \in done[c]
    BY <1>0, <2>1 DEF MigrationHolds
  <2>2. CASE Stamp \notin done[c]
    BY <1>0, <2>2, DoingIs DEF MigrationHolds, View
  <2> QED BY <2>1, <2>2
<1>2. CASE Upgrading(c)
  <2>1. /\ rev[c] + 1 \in 1..Latest /\ Doing(c) = NamesOf(rev[c] + 1)
        /\ (rev[c] + 1) - 1 = rev[c]
        /\ ~ Downgrading(c)
    BY <1>2, DoingIs
  <2>2. SchemaOf(rev[c] + 1) = SchemaOf(rev[c]) \cup Doing(c)
    BY <2>1, SchemaGrows
  <2> QED BY <1>1, <1>2, <2>1, <2>2 DEF Upgrading
<1>3. CASE Downgrading(c)
  <2>1. rev[c] \in 1..Latest /\ Doing(c) = NamesOf(rev[c]) /\ ~ Upgrading(c)
    BY <1>3, DoingIs
  <2>2. SchemaOf(rev[c]) \ Doing(c) = SchemaOf(rev[c] - 1)
    BY <2>1, SchemaGrows, NamesAreNew
  <2> QED BY <1>1, <1>3, <2>1, <2>2 DEF Downgrading
<1> QED BY <1>2, <1>3

LEMMA StampedKeepsSchema ==
    ASSUME SchemaInv, NEW c \in Commands, Stamped(c)
    PROVE  SchemaInv'
<1>0. /\ TypeOK /\ MigrationHolds(c) /\ at[c] = "migrating"
      /\ Upgrading(c) \/ Downgrading(c)
    BY DEF SchemaInv, Stamped, Upgrading, Downgrading
<1>1. Doing(c) \subseteq done[c]
    BY LeftToCreate, LeftToDrop DEF Stamped
<1>2. CASE Fail(c)
    BY <1>0, <1>2, FailKeepsSchema
<1>3. CASE ~ Fail(c)
  <2>1. /\ Stamp \in done[c] \/ version = rev[c]
        /\ rev' = [rev EXCEPT ![c] = Following(c)]
        /\ done' = [done EXCEPT ![c] = @ \cup {Stamp}]
        /\ UNCHANGED <<version, schema, rows, job, at, goal, found>>
        /\ \A d \in Commands \ {c} : Stamp \notin done[d]
    BY <1>3 DEF Stamped, database, Free, Locked
  <2>2. /\ rev'[c] = Following(c) /\ done'[c] = done[c] \cup {Stamp}
        /\ \A d \in Commands \ {c} : rev'[d] = rev[d] /\ done'[d] = done[d]
    BY <1>0, <2>1 DEF TypeOK
  <2>3. Following(c) \in 0..Latest
    BY <1>0, DoingIs, LatestIs DEF Following, Upgrading, Downgrading
  <2>4. View(c) = SchemaOf(Following(c))
    BY <1>0, <1>1, <2>1, StampedView DEF Following, Upgrading, Downgrading
  <2>5. TypeOK'
    BY <1>0, <2>1, <2>3 DEF TypeOK
  <2>6. SchemaOfVersion'
    BY <2>1 DEF SchemaInv, SchemaOfVersion
  <2>7. OneStamps'
    BY <2>1, <2>2 DEF SchemaInv, OneStamps
  <2>8. MigrationHolds(c)'
    <3>1. View(c)' = View(c)
      <4>1. Stamp \notin schema
        BY <1>0, NamesAreNew DEF TypeOK
      <4> QED BY <2>1, <2>2, <4>1 DEF View
    <3>2. CASE job[c] # "downgrade"
      <4>1. done[c] \ {Stamp} \subseteq SchemaOf(Following(c))
        BY <2>4, <3>2 DEF View
      <4>2. Upgrading(c)' => /\ Following(c) + 1 \in 1..Latest
                             /\ Doing(c)' = NamesOf(Following(c) + 1)
                             /\ (Following(c) + 1) - 1 = Following(c)
        BY <1>0, <2>1, <2>2, <2>3, LatestIs DEF TypeOK, Upgrading, Doing
      <4>3. ~ Downgrading(c)'
        BY <2>1, <3>2 DEF Downgrading
      <4>4. Stamp \notin Doing(c)'
        BY <4>2, <4>3, LatestIs, Named DEF Doing, Stamp
      <4>5. done'[c] \cap Doing(c)' = {}
        BY <2>2, <4>1, <4>2, <4>3, <4>4, NamesAreNew DEF Doing
      <4> QED BY <1>0, <2>1, <2>2, <2>4, <3>1, <3>2, <4>5 DEF MigrationHolds
    <3>3. CASE job[c] = "downgrade"
      <4>1. done[c] \cap SchemaOf(Following(c)) = {}
        BY <2>4, <3>3 DEF View
      <4>2. Downgrading(c)' => /\ Following(c) \in 1..Latest
                               /\ Doing(c)' = NamesOf(Following(c))
        BY <1>0, <2>1, <2>2, <2>3, <3>3, LatestIs
           DEF TypeOK, Downgrading, Upgrading, Doing
      <4>3. ~ Upgrading(c)'
        BY <2>1, <3>3 DEF Upgrading
      <4>4. Stamp \notin Doing(c)'
        BY <4>2, <4>3, LatestIs, Named DEF Doing, Stamp
      <4>5. Doing(c)' \subseteq SchemaOf(Following(c))
        BY <4>2, <4>3, SchemaGrows DEF Doing
      <4>6. done'[c] \cap Doing(c)' = {}
        BY <2>2, <4>1, <4>4, <4>5
      <4> QED BY <1>0, <2>1, <2>2, <2>4, <3>1, <3>3, <4>6 DEF MigrationHolds
    <3> QED BY <3>2, <3>3
  <2>9. ASSUME NEW d \in Commands, d # c PROVE MigrationHolds(d)'
    BY <2>1, <2>2, <2>9, OthersMigrate
  <2> QED BY <2>5, <2>6, <2>7, <2>8, <2>9 DEF SchemaInv
<1> QED BY <1>2, <1>3

LEMMA CommitKeepsSchema ==
    ASSUME SchemaInv, NEW c \in Commands, CommitMigration(c)
    PROVE  /\ SchemaInv'
           /\ Stamp \notin done[c] => version' = version /\ schema' = schema
<1>0. /\ TypeOK /\ MigrationHolds(c) /\ at[c] = "migrating"
      /\ ~ Upgrading(c) /\ ~ Downgrading(c)
      /\ schema' = View(c)
      /\ version' = IF Stamp \in done[c] THEN rev[c] ELSE version
      /\ rows' = IF "products" \in View(c) THEN rows ELSE {}
      /\ done' = [done EXCEPT ![c] = {}]
      /\ UNCHANGED <<job, rev, goal, found>>
      /\ schema = SchemaOf(version)
    BY DEF SchemaInv, CommitMigration, SchemaOfVersion
<1>1. /\ at' \in [Commands -> Places] /\ at'[c] \in {"seeding", "ended"}
      /\ \A d \in Commands \ {c} : at'[d] = at[d]
    BY <1>0 DEF CommitMigration, Goto, TypeOK, Places
<1>2. done'[c] = {} /\ \A d \in Commands \ {c} : done'[d] = done[d]
    BY <1>0 DEF TypeOK
<1>3. Doing(c) = {}
    BY <1>0 DEF Doing
<1>4. IF Stamp \in done[c] THEN View(c) = SchemaOf(rev[c])
      ELSE View(c) = schema
  <2>1. CASE Stamp \in done[c]
    BY <1>0, <1>3, <2>1 DEF MigrationHolds
  <2>2. CASE Stamp \notin done[c]
    BY <1>0, <1>3, <2>2 DEF MigrationHolds, View
  <2> QED BY <2>1, <2>2
<1>5. SchemaOfVersion'
    BY <1>0, <1>4 DEF SchemaOfVersion
<1>6. TypeOK'
  <2>1. View(c) \subseteq SchemaOf(Latest)
    BY <1>0, <1>4, LatestIs, SchemaMonotonic DEF TypeOK
  <2> QED BY <1>0, <1>1, <2>1 DEF TypeOK
<1>7. ASSUME NEW d \in Commands PROVE MigrationHolds(d)'
  <2>1. CASE d = c
    BY <1>1, <1>2, <2>1 DEF MigrationHolds
  <2>2. CASE d # c
    <3>1. MigrationHolds(d)
      BY DEF SchemaInv
    <3>2. Doing(d)' = Doing(d)
      BY <1>0, <1>1, <2>2 DEF Doing, Upgrading, Downgrading
    <3>3. Stamp \in done[d] => View(d)' = View(d)
      <4> SUFFICES ASSUME Stamp \in done[d] PROVE View(d)' = View(d)
        OBVIOUS
      <4>1. Stamp \notin done[c]
        BY <2>2 DEF SchemaInv, OneStamps
      <4> QED BY <1>0, <1>2, <1>4, <2>2, <4>1 DEF View
    <3> QED BY <1>0, <1>1, <1>2, <2>2, <3>1, <3>2, <3>3 DEF MigrationHolds
  <2> QED BY <2>1, <2>2
<1>8. OneStamps'
    BY <1>2 DEF SchemaInv, OneStamps
<1> QED BY <1>0, <1>4, <1>5, <1>6, <1>7, <1>8 DEF SchemaInv

\* Seeding and selling change rows only.
LEMMA RowsKeepSchema ==
    ASSUME SchemaInv, NEW c \in Commands, ReadNames(c) \/ InsertMissing(c) \/ Sell(c)
    PROVE  SchemaInv'
<1>1. CASE ReadNames(c) /\ Fail(c)
    BY <1>1, FailKeepsSchema DEF ReadNames
<1>2. CASE (ReadNames(c) /\ ~ Fail(c)) \/ InsertMissing(c) \/ Sell(c)
  <2>0. TypeOK /\ MigrationHolds(c)
    BY DEF SchemaInv
  <2>1. /\ UNCHANGED <<version, schema, job, rev, goal, done>>
        /\ at' \in [Commands -> Places] /\ at[c] # "migrating"
        /\ at[c] # "idle" /\ at'[c] # "idle" /\ at'[c] # "migrating"
        /\ \A d \in Commands \ {c} : at'[d] = at[d]
    BY <1>2, <2>0 DEF ReadNames, InsertMissing, Sell, Goto, TypeOK, Places, database
  <2>2. found' \in [Commands -> SUBSET Names]
    BY <1>2, <2>0 DEF ReadNames, InsertMissing, Sell, TypeOK, Rows
  <2>3. rows' \subseteq Rows
    <3>1. CASE rows' = rows
      BY <2>0, <3>1 DEF TypeOK
    <3>2. CASE InsertMissing(c)
      BY <2>0, <3>2, StartupTypes DEF InsertMissing, Seeded, Rows, TypeOK
    <3>3. CASE Sell(c)
      BY <2>0, <3>3 DEF Sell, Rows, TypeOK
    <3> QED BY <1>2, <3>1, <3>2, <3>3 DEF ReadNames, database
  <2>4. TypeOK'
    BY <2>0, <2>1, <2>2, <2>3 DEF TypeOK
  <2>5. SchemaOfVersion' /\ OneStamps'
    BY <2>1 DEF SchemaInv, SchemaOfVersion, OneStamps
  <2>6. ASSUME NEW d \in Commands PROVE MigrationHolds(d)'
    <3>1. CASE d = c
      BY <2>0, <2>1, <3>1 DEF MigrationHolds
    <3>2. CASE d # c
      BY <2>1, <3>2, OthersMigrate
    <3> QED BY <3>1, <3>2
  <2> QED BY <2>4, <2>5, <2>6 DEF SchemaInv
<1> QED BY <1>1, <1>2

LEMMA SchemaStep == SchemaInv /\ [Next]_vars => SchemaInv'
<1> SUFFICES ASSUME SchemaInv, [Next]_vars PROVE SchemaInv'
    OBVIOUS
<1>1. ASSUME NEW c \in Commands, Begin(c) PROVE SchemaInv'
    BY <1>1, BeginKeepsSchema
<1>2. ASSUME NEW c \in Commands, Step(c) PROVE SchemaInv'
    BY <1>2, CreateKeepsSchema, DropKeepsSchema, StampedKeepsSchema,
       CommitKeepsSchema, RowsKeepSchema DEF Step
<1>3. ASSUME NEW c \in Commands, Sell(c) PROVE SchemaInv'
    BY <1>3, RowsKeepSchema
<1>4. ASSUME NEW c \in Commands, Crash(c) PROVE SchemaInv'
    BY <1>4, FailKeepsSchema DEF Crash
<1>5. CASE UNCHANGED vars
    BY <1>5 DEF SchemaInv, TypeOK, SchemaOfVersion, MigrationHolds, OneStamps,
       View, Doing, Upgrading, Downgrading, vars, database
<1> QED BY <1>1, <1>2, <1>3, <1>4, <1>5 DEF Next

----------------------------------------------------------------------------
(* While nobody downgrades. *)

Listed == {row.name : row \in rows}

\* A transaction is ahead of the database only once it has stamped the
\* version; whoever reads or serves the catalogue does so at the head.
Onward(c) ==
    /\ at[c] = "migrating" =>
          IF Stamp \in done[c] THEN version < rev[c] ELSE rev[c] <= version
    /\ at[c] = "seeding" =>
          job[c] = "seed" \/ (job[c] = "start" /\ version = Latest)
    /\ at[c] \in {"inserting", "serving"} => version = Latest
    /\ at[c] = "inserting" => found[c] \subseteq Listed
    /\ at[c] = "serving" => Names \subseteq Listed
    /\ at[c] = "failed" /\ job[c] # "seed" => version = Latest

\* Every upgrade goes to the head, so that no database stops in between.
OnwardInv ==
    ~ Downgraded =>
        /\ version \in {0, Latest}
        /\ \A c \in Commands : Onward(c)

\* What a revision's statement needs is of an earlier revision, or made by an
\* earlier statement.
LEMMA NeedsMet ==
    ASSUME NEW v \in 1..Latest, NEW i \in 1..Len(Revisions[v].creates)
    PROVE  Revisions[v].creates[i].needs \subseteq
               SchemaOf(v - 1) \cup
               {Revisions[v].creates[j].name : j \in 1..(i - 1)}
<1>1. CASE v = 1
    BY <1>1, RevisionIs DEF ProductRevision, Object
<1>2. CASE v = 2
    BY <1>2, RevisionIs, SchemaIs DEF CartRevision, Object
<1>3. CASE v = 3
    BY <1>3, RevisionIs, SchemaIs DEF OrderRevision, Object
<1>4. CASE v = 4
    BY <1>4, RevisionIs, SchemaIs DEF CouponRevision, Object
<1> QED BY <1>1, <1>2, <1>3, <1>4, LatestIs

LEMMA OnwardInit == Init => OnwardInv
    BY DEF Init, OnwardInv, Onward

\* The steps of a command that leave the version and the catalogue alone.
LEMMA OthersOnward ==
    ASSUME OnwardInv, ~ Downgraded, UNCHANGED <<version, rows>>,
           NEW c \in Commands, Onward(c)',
           \A d \in Commands \ {c} :
               /\ job'[d] = job[d] /\ at'[d] = at[d] /\ rev'[d] = rev[d]
               /\ done'[d] = done[d] /\ found'[d] = found[d]
    PROVE  OnwardInv'
<1>1. ASSUME NEW d \in Commands, d # c PROVE Onward(d)'
    BY <1>1 DEF OnwardInv, Onward, Listed
<1> QED BY <1>1 DEF OnwardInv

LEMMA FailOnward ==
    ASSUME SchemaInv, OnwardInv, ~ Downgraded, NEW c \in Commands,
           Fail(c), job[c] = "seed" \/ version = Latest
    PROVE  OnwardInv'
<1>1. /\ UNCHANGED <<version, rows, job, rev, found>>
      /\ at'[c] = "failed"
      /\ \A d \in Commands \ {c} : at'[d] = at[d] /\ done'[d] = done[d]
    BY DEF SchemaInv, TypeOK, Fail, Goto, database
<1>2. Onward(c)'
    BY <1>1 DEF Onward
<1> QED BY <1>1, <1>2, OthersOnward

LEMMA DidOnward ==
    ASSUME SchemaInv, OnwardInv, ~ Downgraded, NEW c \in Commands,
           at[c] = "migrating", NEW name \in Doing(c), Did(c, name)
    PROVE  OnwardInv'
<1>1. /\ UNCHANGED <<version, rows, job, at, rev, found>>
      /\ done'[c] = done[c] \cup {name} /\ name # Stamp
      /\ \A d \in Commands \ {c} : done'[d] = done[d]
    BY DoingIs DEF SchemaInv, TypeOK, Did, database
<1>2. Onward(c)'
    BY <1>1 DEF OnwardInv, Onward
<1> QED BY <1>1, <1>2, OthersOnward

\* A CREATE fails only on what another command has brought to the head.
LEMMA CreateFails ==
    ASSUME SchemaInv, OnwardInv, ~ Downgraded, NEW c \in Commands,
           Upgrading(c), version # Latest, NEW i \in Foremost(ToCreate(c))
    PROVE  LET o == Revisions[rev[c] + 1].creates[i]
           IN  o.needs \subseteq View(c) /\ o.name \notin View(c)
<1> DEFINE creates == Revisions[rev[c] + 1].creates
<1>0. /\ MigrationHolds(c) /\ Onward(c) /\ version = 0 /\ at[c] = "migrating"
      /\ job[c] # "downgrade" /\ rev[c] \in 0..4 /\ rev[c] + 1 \in 1..Latest
      /\ schema = {}
    BY DoingIs, SchemaIs DEF SchemaInv, OnwardInv, Upgrading
<1>1. /\ i \in 1..Len(creates) /\ creates[i].name \notin done[c]
      /\ \A j \in 1..(i - 1) : creates[j].name \in done[c] \cap Doing(c)
  <2>1. i \in ToCreate(c) /\ \A j \in ToCreate(c) : i <= j
    BY DEF Foremost
  <2>2. Len(creates) \in Nat
    BY <1>0, LatestIs, RevisionIs
       DEF ProductRevision, CartRevision, OrderRevision, CouponRevision
  <2>3. ASSUME NEW j \in 1..(i - 1) PROVE creates[j].name \in done[c] \cap Doing(c)
    <3>1. j \in 1..Len(creates) /\ j \notin ToCreate(c)
      BY <2>1, <2>2 DEF ToCreate
    <3>2. Doing(c) = NamesOf(rev[c] + 1)
      BY DoingIs
    <3> QED BY <3>1, <3>2 DEF ToCreate, NamesOf, CreatedBy
  <2> QED BY <2>1, <2>3 DEF ToCreate
<1>2. View(c) = SchemaOf(rev[c]) \cup (done[c] \cap Doing(c))
  <2>1. CASE Stamp \in done[c]
    BY <1>0, <2>1 DEF MigrationHolds
  <2>2. CASE Stamp \notin done[c]
    <3>1. rev[c] = 0 /\ done[c] \subseteq Doing(c)
      BY <1>0, <2>2 DEF Onward, MigrationHolds
    <3> QED BY <1>0, <2>2, <3>1, SchemaIs DEF View
  <2> QED BY <2>1, <2>2
<1>3. creates[i].needs \subseteq View(c)
  <2>1. (rev[c] + 1) - 1 = rev[c]
    BY <1>0
  <2>2. creates[i].needs \subseteq
            SchemaOf(rev[c]) \cup {creates[j].name : j \in 1..(i - 1)}
    BY <1>0, <1>1, <2>1, NeedsMet
  <2> QED BY <1>1, <1>2, <2>2
<1>4. creates[i].name \notin View(c)
  <2>1. creates[i].name \in Doing(c)
    BY LeftToCreate DEF Foremost
  <2>2. Doing(c) \cap SchemaOf(rev[c]) = {}
    <3>1. Doing(c) = NamesOf(rev[c] + 1) /\ (rev[c] + 1) - 1 = rev[c]
      BY <1>0, DoingIs
    <3> QED BY <1>0, <3>1, NamesAreNew
  <2> QED BY <1>1, <1>2, <2>1, <2>2
<1> QED BY <1>3, <1>4

LEMMA StepOnward ==
    ASSUME SchemaInv, OnwardInv, ~ Downgraded, NEW c \in Commands,
           Create(c) \/ Drop(c) \/ Stamped(c)
    PROVE  OnwardInv'
<1>0. /\ TypeOK /\ Onward(c) /\ job[c] # "downgrade" /\ version \in {0, Latest}
      /\ at[c] = "migrating" /\ Upgrading(c)
    BY DEF SchemaInv, OnwardInv, Downgraded, Create, Drop, Stamped, Upgrading,
           Downgrading
<1>1. CASE Create(c)
  <2>1. PICK i \in Foremost(ToCreate(c)) :
          LET o == Revisions[rev[c] + 1].creates[i]
          IN  \/ ~ o.needs \subseteq View(c) /\ Fail(c)
              \/ o.name \in View(c) /\ Fail(c)
              \/ Did(c, o.name)
    BY <1>1 DEF Create
  <2>2. Revisions[rev[c] + 1].creates[i].name \in Doing(c)
    BY <1>0, LeftToCreate DEF Foremost
  <2>3. CASE version = Latest
    BY <1>0, <2>1, <2>2, <2>3, FailOnward, DidOnward
  <2>4. CASE version # Latest
    BY <1>0, <2>1, <2>2, <2>4, CreateFails, DidOnward
  <2> QED BY <2>3, <2>4
<1>2. CASE Stamped(c) /\ Fail(c) /\ Stamp \notin done[c] /\ version # rev[c]
  <2>1. version = Latest
    BY <1>0, <1>2, LatestIs DEF Onward, TypeOK
  <2> QED BY <1>0, <1>2, <2>1, FailOnward
<1>3. CASE /\ Stamped(c)
           /\ ~ (Stamp \notin done[c] /\ version # rev[c])
  <2>1. /\ rev'[c] = rev[c] + 1 /\ done'[c] = done[c] \cup {Stamp}
        /\ \A d \in Commands \ {c} : rev'[d] = rev[d] /\ done'[d] = done[d]
        /\ UNCHANGED <<version, rows, job, at, found>>
    BY <1>0, <1>3 DEF Stamped, Following, TypeOK, database
  <2>2. version < rev'[c]
    BY <1>0, <1>3, <2>1, LatestIs DEF Onward, TypeOK
  <2>3. Onward(c)'
    BY <1>0, <2>1, <2>2 DEF Onward
  <2> QED BY <2>1, <2>3, OthersOnward
<1>4. ~ Drop(c)
    BY <1>0 DEF Drop, Downgrading
<1> QED BY <1>1, <1>2, <1>3, <1>4 DEF Stamped

LEMMA CommitOnward ==
    ASSUME SchemaInv, OnwardInv, ~ Downgraded, NEW c \in Commands,
           CommitMigration(c)
    PROVE  OnwardInv'
<1>0. /\ TypeOK /\ Onward(c) /\ MigrationHolds(c) /\ at[c] = "migrating"
      /\ job[c] \in {"start", "migrate"} /\ goal[c] = Latest
      /\ ~ Upgrading(c)
      /\ rev[c] \in 0..4 /\ goal[c] \in 0..4
    BY DoingIs DEF SchemaInv, OnwardInv, Downgraded, CommitMigration,
       MigrationHolds
<1>1. rev[c] = Latest
    BY <1>0, LatestIs DEF Upgrading
<1>2. /\ version' = Latest
      /\ version = Latest => rows' = rows
  <2>1. CASE Stamp \in done[c]
    BY <1>0, <1>1, <2>1, LatestIs DEF CommitMigration, Onward
  <2>2. CASE Stamp \notin done[c]
    <3>1. version = Latest
      BY <1>0, <1>1, <2>2, LatestIs DEF OnwardInv, Onward
    <3>2. schema' = schema /\ version' = version
      BY <2>2, CommitKeepsSchema
    <3>3. "products" \in View(c)
      BY <3>1, <3>2, DoingIs, SchemaIs, LatestIs DEF CommitMigration
    <3> QED BY <3>1, <3>2, <3>3 DEF CommitMigration
  <2> QED BY <2>1, <2>2
<1>3. /\ at'[c] = IF job[c] = "start" THEN "seeding" ELSE "ended"
      /\ \A d \in Commands \ {c} : at'[d] = at[d] /\ done'[d] = done[d]
      /\ UNCHANGED <<job, rev, found>>
    BY <1>0 DEF CommitMigration, Goto, TypeOK
<1>4. ASSUME NEW d \in Commands PROVE Onward(d)'
  <2>1. CASE d = c
    BY <1>0, <1>2, <1>3, <2>1 DEF Onward
  <2>2. CASE d # c
    <3>1. Onward(d)
      BY DEF OnwardInv
    <3>2. at[d] = "migrating" /\ Stamp \in done[d] =>
            version' = version /\ version < rev[d]
      <4> SUFFICES ASSUME at[d] = "migrating", Stamp \in done[d]
                   PROVE  version' = version /\ version < rev[d]
        OBVIOUS
      <4>1. Stamp \notin done[c]
        BY <2>2 DEF SchemaInv, OneStamps
      <4> QED BY <3>1, <4>1, CommitKeepsSchema DEF Onward
    <3>3. at[d] = "migrating" => rev[d] <= Latest
      BY DoingIs, LatestIs
    <3>4. at[d] \in {"inserting", "serving"} => rows' = rows
      BY <1>2, <3>1 DEF Onward
    <3> QED BY <1>2, <1>3, <2>2, <3>1, <3>2, <3>3, <3>4 DEF Onward, Listed
  <2> QED BY <2>1, <2>2
<1> QED BY <1>2, <1>4 DEF OnwardInv

LEMMA RowsOnward ==
    ASSUME SchemaInv, OnwardInv, ~ Downgraded, NEW c \in Commands,
           ReadNames(c) \/ InsertMissing(c) \/ Sell(c)
    PROVE  OnwardInv'
<1>0. /\ TypeOK /\ Onward(c) /\ version \in {0, Latest}
      /\ schema = SchemaOf(version)
    BY DoingIs DEF SchemaInv, OnwardInv
<1>1. CASE ReadNames(c) /\ "products" \notin schema
  <2>1. version # Latest
    BY <1>0, <1>1, SchemaIs, LatestIs
  <2>2. job[c] = "seed" /\ Fail(c)
    BY <1>0, <1>1, <2>1 DEF ReadNames, Onward
  <2> QED BY <2>2, FailOnward
<1>2. CASE ReadNames(c) /\ "products" \in schema
  <2>1. version = Latest
    BY <1>0, <1>2, SchemaIs
  <2>2. /\ found'[c] = Listed /\ at'[c] = "inserting"
        /\ \A d \in Commands \ {c} : found'[d] = found[d] /\ at'[d] = at[d]
        /\ UNCHANGED <<version, rows, job, rev, done>>
    BY <1>0, <1>2 DEF ReadNames, Goto, TypeOK, Listed, database
  <2>3. Onward(c)'
    BY <2>1, <2>2 DEF Onward, Listed
  <2> QED BY <2>2, <2>3, OthersOnward
<1>3. CASE InsertMissing(c) \/ Sell(c)
  <2>1. /\ at'[c] \in {"serving", "ended"}
        /\ at[c] \in {"inserting", "serving"}
        /\ \A d \in Commands \ {c} : at'[d] = at[d]
        /\ UNCHANGED <<version, job, rev, done, found>>
    BY <1>0, <1>3 DEF InsertMissing, Sell, Goto, TypeOK
  <2>2. Listed \subseteq Listed'
    <3>1. CASE InsertMissing(c)
      BY <3>1 DEF InsertMissing, Listed
    <3>2. CASE Sell(c)
      <4>1. PICK sold \in rows :
              rows' = (rows \ {sold}) \cup {[sold EXCEPT !.left = @ - 1]}
        BY <3>2 DEF Sell
      <4>2. [sold EXCEPT !.left = @ - 1].name = sold.name
        BY <1>0 DEF TypeOK, Rows
      <4>3. ASSUME NEW row \in rows PROVE \E later \in rows' : later.name = row.name
        BY <4>1, <4>2
      <4> QED BY <4>3 DEF Listed
    <3> QED BY <1>3, <3>1, <3>2
  <2>3. Names \subseteq Listed'
    <3>1. CASE InsertMissing(c)
      <4>1. found[c] \subseteq Listed
        BY <1>0, <3>1 DEF InsertMissing, Onward
      <4>2. Names \ found[c] \subseteq Listed'
        <5>1. Seeded(c, Names \ found[c]) \subseteq rows'
          BY <3>1 DEF InsertMissing
        <5>2. ASSUME NEW n \in Names \ found[c]
              PROVE  \E row \in rows' : row.name = n
          <6> DEFINE row == [name |-> n, by |-> c, left |-> Stock[n]]
          <6>1. row \in rows' /\ row.name = n
            BY <5>1 DEF Seeded
          <6> QED BY <6>1
        <5> QED BY <5>2 DEF Listed
      <4> QED BY <2>2, <4>1, <4>2
    <3>2. CASE Sell(c)
      BY <1>0, <2>2, <3>2 DEF Sell, Onward
    <3> QED BY <1>3, <3>1, <3>2
  <2>4. ASSUME NEW d \in Commands PROVE Onward(d)'
    <3>1. Onward(d)
      BY DEF OnwardInv
    <3>2. CASE d = c
      BY <1>0, <2>1, <2>3, <3>1, <3>2 DEF Onward
    <3>3. CASE d # c
      BY <2>1, <2>2, <3>1, <3>3 DEF Onward
    <3> QED BY <3>2, <3>3
  <2> QED BY <1>0, <2>1, <2>4 DEF OnwardInv
<1> QED BY <1>1, <1>2, <1>3

LEMMA OnwardStep ==
    ASSUME SchemaInv, OnwardInv, [Next]_vars
    PROVE  OnwardInv'
<1> SUFFICES ASSUME ~ Downgraded' PROVE OnwardInv'
    BY DEF OnwardInv
<1>1. ~ Downgraded
  <2>1. ASSUME NEW c \in Commands, Begin(c) PROVE ~ Downgraded
    <3>1. job[c] = None /\ \A d \in Commands \ {c} : job'[d] = job[d]
      BY <2>1 DEF SchemaInv, TypeOK, MigrationHolds, Begin
    <3> QED BY <3>1, NoneIsNoJob DEF Downgraded, Jobs
  <2>2. CASE job' = job
    BY <2>2 DEF Downgraded
  <2>3. \/ \E c \in Commands : Begin(c)
        \/ job' = job
    BY DEF Next, Step, Create, Drop, Did, Stamped, CommitMigration, ReadNames,
       InsertMissing, Sell, Crash, Fail, vars
  <2> QED BY <2>1, <2>2, <2>3
<1>2. ASSUME NEW c \in Commands, Begin(c) PROVE OnwardInv'
  <2>1. PICK j \in Jobs \ {"downgrade"} :
          /\ job' = [job EXCEPT ![c] = j]
          /\ Goto(c, IF j = "seed" THEN "seeding" ELSE "migrating")
    <3>1. job'[c] # "downgrade"
      BY DEF Downgraded
    <3>2. \A j \in Jobs : job' = [job EXCEPT ![c] = j] => job'[c] = j
      BY DEF SchemaInv, TypeOK
    <3> QED BY <1>2, <3>1, <3>2 DEF Begin
  <2>2. /\ done[c] = {} /\ version \in 0..4
        /\ job'[c] = j /\ rev'[c] = version
        /\ at'[c] = IF j = "seed" THEN "seeding" ELSE "migrating"
        /\ \A d \in Commands \ {c} :
              job'[d] = job[d] /\ rev'[d] = rev[d] /\ at'[d] = at[d]
        /\ UNCHANGED <<version, rows, done, found>>
    BY <1>2, <2>1, DoingIs
       DEF SchemaInv, TypeOK, MigrationHolds, Begin, Goto, database
  <2>3. Onward(c)'
    BY <2>2 DEF Onward
  <2> QED BY <1>1, <2>2, <2>3, OthersOnward
<1>3. ASSUME NEW c \in Commands, Crash(c) PROVE OnwardInv'
  <2>1. /\ at'[c] = "crashed"
        /\ \A d \in Commands \ {c} : at'[d] = at[d] /\ done'[d] = done[d]
        /\ UNCHANGED <<version, rows, job, rev, found>>
    BY <1>3 DEF SchemaInv, TypeOK, Crash, Goto, database
  <2>2. Onward(c)'
    BY <2>1 DEF Onward
  <2> QED BY <1>1, <2>1, <2>2, OthersOnward
<1>4. CASE UNCHANGED vars
    BY <1>4 DEF OnwardInv, Onward, Downgraded, Listed, vars, database
<1> QED BY <1>1, <1>2, <1>3, <1>4, StepOnward, CommitOnward, RowsOnward
        DEF Next, Step

----------------------------------------------------------------------------

LEMMA StartupInvariance == Spec => [](SchemaInv /\ OnwardInv)
<1>1. Init => SchemaInv /\ OnwardInv
    BY SchemaInitInv, OnwardInit
<1>2. SchemaInv /\ OnwardInv /\ [Next]_vars => (SchemaInv /\ OnwardInv)'
    BY SchemaStep, OnwardStep
<1> QED BY <1>1, <1>2, PTL DEF Spec

\* Every variable keeps its type: no seeded row goes below zero units, and no
\* transaction makes a table that is not of a revision.
THEOREM StartupTypeCorrect == Spec => []TypeOK
<1>1. SchemaInv => TypeOK
    BY DEF SchemaInv
<1> QED BY <1>1, StartupInvariance, PTL

\* Upgrades, downgrades, failures and crashes together leave the tables and
\* types that alembic_version says.
THEOREM SchemaFollowsVersion == Spec => []SchemaOfVersion
<1>1. SchemaInv => SchemaOfVersion
    BY DEF SchemaInv
<1> QED BY <1>1, StartupInvariance, PTL

\* Unless somebody downgrades, an upgrade fails only when another has brought
\* the database to the head.
THEOREM OnlyRacesFail == Spec => []FailedForLatest
<1>1. OnwardInv => FailedForLatest
    BY DEF OnwardInv, Onward, FailedForLatest
<1> QED BY <1>1, StartupInvariance, PTL

\* Unless somebody downgrades, an instance that serves has every table and
\* every product.
THEOREM CatalogueServed == Spec => []ServesCatalogue
<1>1. OnwardInv => ServesCatalogue
    BY DEF OnwardInv, Onward, ServesCatalogue, Listed
<1> QED BY <1>1, StartupInvariance, PTL

LEMMA StepKeepsRows ==
    ASSUME SchemaInv, [Next]_vars
    PROVE  KeepsRows
<1>0. rows \subseteq Rows
    BY DEF SchemaInv, TypeOK
<1>1. CASE rows \subseteq rows'
    BY <1>0, <1>1 DEF KeepsRows, Rows
<1>2. ASSUME NEW c \in Commands, Sell(c) PROVE KeepsRows
  <2>1. PICK sold \in rows :
          rows' = (rows \ {sold}) \cup {[sold EXCEPT !.left = @ - 1]}
    BY <1>2 DEF Sell
  <2>2. ASSUME NEW row \in rows
        PROVE  \E later \in rows' : /\ later.name = row.name
                                    /\ later.by = row.by
                                    /\ later.left <= row.left
    <3>1. row \in Rows
      BY <1>0
    <3>2. CASE row = sold
      <4>1. [sold EXCEPT !.left = @ - 1] \in rows'
        BY <2>1
      <4> QED BY <3>1, <3>2, <4>1 DEF Rows
    <3>3. CASE row # sold
      <4>1. row \in rows'
        BY <2>1, <3>3
      <4> QED BY <3>1, <4>1 DEF Rows
    <3> QED BY <3>2, <3>3
  <2> QED BY <2>2 DEF KeepsRows
<1>3. ASSUME NEW c \in Commands, CommitMigration(c) PROVE KeepsRows
  <2>1. CASE "products" \in View(c)
    BY <1>1, <1>3, <2>1 DEF CommitMigration
  <2>2. CASE "products" \notin View(c)
    BY <1>3, <2>2 DEF CommitMigration, KeepsRows
  <2> QED BY <2>1, <2>2
<1>4. ASSUME NEW c \in Commands, InsertMissing(c) PROVE KeepsRows
    BY <1>1, <1>4 DEF InsertMissing
<1>5. ASSUME NEW c \in Commands,
             \/ Begin(c) \/ Create(c) \/ Drop(c) \/ Stamped(c)
             \/ ReadNames(c) \/ Crash(c)
      PROVE  KeepsRows
  <2>1. rows' = rows
    BY <1>5 DEF Begin, Create, Drop, Did, Stamped, ReadNames, Crash, Fail,
       database
  <2> QED BY <1>1, <2>1
<1>6. CASE UNCHANGED vars
    BY <1>1, <1>6 DEF vars, database
<1> QED BY <1>2, <1>3, <1>4, <1>5, <1>6 DEF Next, Step

\* Seeding gives back nothing that was sold and takes no row away.
THEOREM SeedingIsSafe == Spec => SeedKeepsRows
<1>1. SchemaInv /\ [Next]_vars => [KeepsRows]_vars
    BY StepKeepsRows
<1> QED BY <1>1, StartupInvariance, PTL DEF Spec, SeedKeepsRows
============================================================================
