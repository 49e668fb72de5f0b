--------------------------- MODULE CartPageProofs --------------------------
(***************************************************************************)
(* Theorems about CartPage, for any number of calls, carts, products and   *)
(* keys, and any number of losses.                                         *)
(***************************************************************************)
EXTENDS CartPage, FiniteSetTheorems, TLAPS

\* Call x is an add that was sent for cart c.
AddedTo(x, c) == sent[x] # None /\ sent[x].op = "add" /\ sent[x].cart = c

\* A view's lines bear the ids of adds to its cart.
Sourced(view) ==
    \A p \in Products :
        view.items[p] # None => AddedTo(view.items[p].id, view.cart)

\* Every view there is, at the service, on its way or on the screen.
AllSourced ==
    /\ \A c \in Carts : Sourced(View(c))
    /\ shown # None => Sourced(shown)
    /\ load # None /\ load.view # None => Sourced(load.view)
    /\ \A f \in reloads : f.view # None => Sourced(f.view)

\* What the page knows are carts that exist, and the page has one if it shows
\* or fetches one or has sent anything for one.
CartsExist ==
    /\ cartId # None => status[cartId] # "absent"
    /\ cartId = None => shown = None /\ load = None /\ reloads = {} /\ ~ loadError
    /\ load # None => status[load.cart] # "absent"
    /\ \A f \in reloads : status[f.cart] # "absent"
    /\ button # None => shown # None

CallHolds(x) ==
    /\ sent[x] = None => answer[x] = None /\ x \notin waiting
    /\ sent[x] # None /\ sent[x].op # "create" => cartId # None
    /\ sent[x] # None /\ sent[x].op = "edit" =>
          AddedTo(sent[x].item, sent[x].seen)
    /\ answer[x] # None /\ answer[x].code = "OK" =>
          /\ sent[x].op = "create" =>
                answer[x].body \in Carts /\ status[answer[x].body] # "absent"
          /\ sent[x].op = "edit" =>
                answer[x].body \in Views /\ Sourced(answer[x].body)

PageInv ==
    /\ TypeOK
    /\ CartsExist
    /\ AllSourced
    /\ \A x \in Calls : CallHolds(x)
    /\ EditsOnlyWhatIsShown
    /\ LabelTellsRetry

\* With nothing but what can no longer spoil it under way, the screen shows
\* the cart as it is or will.
Same(view) == view = View(cartId)

\* The answer of a call that makes the page fetch its cart again.
FetchToCome ==
    \E x \in waiting : sent[x].op # "edit" /\ answer[x] # None
                       /\ answer[x].code = "OK"

UpToDate ==
    \/ FetchToCome
    \/ load # None /\ (load.view # None => Same(load.view))
    \/ load = None /\ \E f \in reloads : f.view # None => Same(f.view)
    \/ /\ load = None /\ reloads = {}
       /\ \E x \in waiting : /\ sent[x].op = "edit" /\ answer[x] # None
                             /\ answer[x].code = "OK" /\ Same(answer[x].body)
    \/ /\ load = None /\ reloads = {} /\ Same(shown)
       /\ \A x \in waiting : sent[x].op = "edit" /\ answer[x] # None =>
              answer[x].code = "REFUSED"

Sure ==
    /\ ~ Crossing
    /\ \A x \in Calls : sent[x] # None /\ x \notin waiting => answer[x] # None
    /\ load # None => load.cart = cartId
    /\ \A f \in reloads : f.cart = cartId
    /\ \A x \in Awaited("edit") : sent[x].cart = cartId
    /\ cartId # None => UpToDate

SureInv ==
    /\ IsFiniteSet(waiting)
    /\ IsFiniteSet(reloads)
    /\ ~ unsure => Sure

----------------------------------------------------------------------------

LEMMA PageInitInv == Init => PageInv /\ SureInv
<1> SUFFICES ASSUME Init PROVE PageInv /\ SureInv
    OBVIOUS
<1>1. TypeOK
  <2>1. /\ losses \in 0..MaxLosses
        /\ status \in [Carts -> {"absent", "open", "checked_out"}]
        /\ items \in [Carts -> [Products -> Item \cup {None}]]
        /\ orderUnder \in [Keys -> Calls \cup {None}]
        /\ sent \in [Calls -> Asks \cup {None}]
        /\ answer \in [Calls -> Answers \cup {None}]
    BY PageTypes DEF Init, NoItems
  <2>2. loadError \in BOOLEAN /\ unsure \in BOOLEAN
    BY Zenon DEF Init
  <2> QED BY <2>1, <2>2 DEF Init, TypeOK
<1>2. CartsExist /\ AllSourced
    BY DEF Init, CartsExist, AllSourced, Sourced, View, NoItems
<1>3. \A x \in Calls : CallHolds(x)
    BY DEF Init, CallHolds
<1>4. EditsOnlyWhatIsShown /\ LabelTellsRetry
    BY DEF Init, EditsOnlyWhatIsShown, LabelTellsRetry
<1>5. ~ Crossing
    BY DEF Init, Crossing, Awaited
<1>6. SureInv
    BY <1>5, FS_EmptySet DEF Init, SureInv, Sure, Awaited
<1> QED BY <1>1, <1>2, <1>3, <1>4, <1>6 DEF PageInv

\* What calls of each kind name.
LEMMA AskFields ==
    ASSUME NEW a \in Asks
    PROVE  /\ a.op \in {"create", "add", "edit", "checkout"}
           /\ a.op = "add" => /\ a.cart \in Carts /\ a.product \in Products
                              /\ a.quantity \in Quantities
           /\ a.op = "edit" => /\ a.cart \in Carts /\ a.item \in Calls
                               /\ a.quantity \in Quantities \cup {0}
                               /\ a.seen \in Carts
           /\ a.op = "checkout" => a.cart \in Carts /\ a.key \in Keys
    BY DEF Asks

LEMMA ViewType ==
    ASSUME TypeOK, NEW c \in Carts, status[c] # "absent"
    PROVE  View(c) \in Views
    BY DEF TypeOK, View, Views

LEMMA DoubtType == Doubt => unsure' \in BOOLEAN
    BY DEF Doubt

\* A reload is a fetch, but for its mark.
LEMMA ReloadType ==
    ASSUME NEW f \in Reloads
    PROVE  /\ f.cart \in Carts
           /\ f.view \in Views \cup {None}
           /\ \A v \in Views : /\ [f EXCEPT !.view = v] \in Reloads
                               /\ [f EXCEPT !.view = v].cart = f.cart
                               /\ [f EXCEPT !.view = v].view = v
    BY DEF Reloads

LEMMA LooseType ==
    ASSUME TypeOK, [Next]_vars
    PROVE  loose' \subseteq Calls
<1>1. CASE UNCHANGED loose
    BY <1>1 DEF TypeOK
<1>2. CASE \E view : Show(view)
    BY <1>2 DEF Show, Awaited, TypeOK
<1>3. UNCHANGED loose \/ \E view : Show(view)
    BY DEF Next, Click, ClickCreate, ClickAdd, ClickEdit, ClickCheckout, Serve,
       Answered, CreateAnswered, AddAnswered, EditAnswered, CheckoutAnswered,
       Refused, CallFails, Notify, ServeLoad, ServeReload, LoadAnswered,
       ReloadAnswered, LoadFails, DismissLoadError, DismissNotice, page, vars,
       pageVars
<1> QED BY <1>1, <1>2, <1>3

----------------------------------------------------------------------------
(* Steps of the service. *)

LEMMA CreateServed ==
    ASSUME PageInv, NEW x \in Calls, sent[x] # None, ServeCreate(x)
    PROVE  /\ status' \in [Carts -> {"absent", "open", "checked_out"}]
           /\ \A c \in Carts : status[c] # "absent" => status'[c] # "absent"
           /\ UNCHANGED <<items, orderUnder>>
           /\ \E a \in Answers :
                /\ answer' = [answer EXCEPT ![x] = a]
                /\ a.code = "OK" => a.body \in Carts /\ status'[a.body] # "absent"
           /\ sent[x].op = "create"
<1>1. PICK c \in Carts : /\ status' = [status EXCEPT ![c] = "open"]
                         /\ Respond(x, "OK", c)
    BY DEF ServeCreate
<1>2. [code |-> "OK", body |-> c] \in Answers
    BY DEF Answers
<1>3. status \in [Carts -> {"absent", "open", "checked_out"}]
    BY DEF PageInv, TypeOK
<1> QED BY <1>1, <1>2, <1>3 DEF ServeCreate, Respond

LEMMA CallRefused ==
    ASSUME NEW x \in Calls, RefuseCall(x)
    PROVE  /\ UNCHANGED service
           /\ \E a \in Answers :
                answer' = [answer EXCEPT ![x] = a] /\ a.code = "REFUSED"
<1>1. [code |-> "REFUSED", body |-> None] \in Answers
    BY DEF Answers
<1> QED BY <1>1 DEF RefuseCall, Respond

LEMMA AddServed ==
    ASSUME PageInv, NEW x \in Calls, sent[x] # None, ServeAdd(x)
    PROVE  /\ UNCHANGED <<status, orderUnder>>
           /\ items' \in [Carts -> [Products -> Item \cup {None}]]
           /\ \A c \in Carts, p \in Products : items'[c][p] # None =>
                \/ items[c][p] # None /\ items'[c][p].id = items[c][p].id
                \/ items'[c][p].id = x /\ AddedTo(x, c)
           /\ \E a \in Answers :
                /\ answer' = [answer EXCEPT ![x] = a]
                /\ a.code = "REFUSED" => UNCHANGED items
           /\ sent[x].op = "add"
<1> DEFINE c == sent[x].cart
           p == sent[x].product
           n == sent[x].quantity
<1>0. /\ items \in [Carts -> [Products -> Item \cup {None}]]
      /\ sent[x] \in Asks /\ sent[x].op = "add"
    BY DEF PageInv, TypeOK, ServeAdd
<1>1. c \in Carts /\ p \in Products /\ n \in Nat \ {0}
  <2>1. c \in Carts /\ p \in Products /\ n \in Quantities
    BY <1>0, AskFields
  <2> QED BY <2>1, PageTypes
<1>2. CASE RefuseCall(x)
    BY <1>0, <1>2, CallRefused DEF service
<1>3. CASE ~ RefuseCall(x)
  <2> DEFINE line == LineWith(items[c][p], x)
  <2>1. /\ items' = [items EXCEPT ![c][p] = line]
        /\ Respond(x, "OK", None)
        /\ UNCHANGED <<status, orderUnder>>
    BY <1>3 DEF ServeAdd
  <2>2. line \in Item /\ (items[c][p] # None => line.id = items[c][p].id)
    <3>1. CASE items[c][p] = None
      BY <1>1, <3>1 DEF LineWith, Item
    <3>2. CASE items[c][p] # None
      <4>1. items[c][p] \in Item
        BY <1>0, <1>1, <3>2
      <4> QED BY <1>1, <3>2, <4>1 DEF LineWith, Item
    <3> QED BY <3>1, <3>2
  <2>3. items[c][p] = None => line.id = x
    BY DEF LineWith
  <2>4. \A d \in Carts, q \in Products :
          items'[d][q] = IF d = c /\ q = p THEN line ELSE items[d][q]
    <3> HIDE DEF line
    <3> QED BY <1>0, <1>1, <2>1
  <2>5. items' \in [Carts -> [Products -> Item \cup {None}]]
    <3> HIDE DEF line
    <3> QED BY <1>0, <1>1, <2>1, <2>2
  <2>6. AddedTo(x, c)
    BY <1>0 DEF AddedTo
  <2>7. [code |-> "OK", body |-> None] \in Answers
    BY DEF Answers
  <2> HIDE DEF line
  <2> QED BY <1>0, <2>1, <2>2, <2>3, <2>4, <2>5, <2>6, <2>7 DEF Respond
<1> QED BY <1>2, <1>3

LEMMA EditServed ==
    ASSUME PageInv, NEW x \in Calls, sent[x] # None, ServeEdit(x),
           UNCHANGED sent
    PROVE  /\ UNCHANGED <<status, orderUnder>>
           /\ items' \in [Carts -> [Products -> Item \cup {None}]]
           /\ \A c \in Carts, p \in Products : items'[c][p] # None =>
                items[c][p] # None /\ items'[c][p].id = items[c][p].id
           /\ \E a \in Answers :
                /\ answer' = [answer EXCEPT ![x] = a]
                /\ a.code = "REFUSED" => UNCHANGED items
                /\ a.code = "OK" =>
                     /\ a.body = View(sent[x].cart)' /\ a.body \in Views
                     /\ sent[x].cart = sent[x].seen
           /\ sent[x].op = "edit"
           /\ sent[x].cart \in Carts
<1> DEFINE c == sent[x].cart
           n == sent[x].quantity
<1>0. /\ items \in [Carts -> [Products -> Item \cup {None}]]
      /\ status \in [Carts -> {"absent", "open", "checked_out"}]
      /\ sent[x] \in Asks /\ sent[x].op = "edit"
    BY DEF PageInv, TypeOK, ServeEdit
<1>1. c \in Carts /\ n \in Nat
  <2>1. c \in Carts /\ (n \in Quantities \/ n = 0)
    BY <1>0, AskFields
  <2>2. n \in Quantities => n \in Nat
    BY PageTypes
  <2>3. n = 0 => n \in Nat
    OBVIOUS
  <2> QED BY <2>1, <2>2, <2>3
<1>2. CASE RefuseCall(x)
    BY <1>0, <1>1, <1>2, CallRefused DEF service
<1>3. CASE ~ RefuseCall(x)
  <2>1. PICK p \in LineOf(c, sent[x].item) :
          /\ status[c] = "open"
          /\ items' = [items EXCEPT ![c][p] = NewLine(@, n)]
          /\ Respond(x, "OK", [View(c) EXCEPT !.items = items'[c]])
          /\ UNCHANGED <<status, orderUnder>>
    BY <1>3 DEF ServeEdit
  <2> DEFINE line == NewLine(items[c][p], n)
  <2>2. p \in Products /\ items[c][p] # None /\ items[c][p].id = sent[x].item
    BY <2>1 DEF LineOf
  <2>3. items[c][p] \in Item
    BY <1>0, <1>1, <2>2
  <2>4. /\ line \in Item \cup {None}
        /\ line # None => line.id = items[c][p].id
    BY <1>1, <2>3 DEF NewLine, Item
  <2>5. \A d \in Carts, q \in Products :
          items'[d][q] = IF d = c /\ q = p THEN line ELSE items[d][q]
    BY <1>0, <1>1, <2>1, <2>2
  <2>6. items' \in [Carts -> [Products -> Item \cup {None}]]
    BY <1>0, <1>1, <2>1, <2>2, <2>4
  <2> DEFINE body == [View(c) EXCEPT !.items = items'[c]]
  <2>7. body = View(c)' /\ body \in Views
    <3>1. body = [cart |-> c, status |-> "open", items |-> items'[c]]
      BY <2>1 DEF View
    <3>2. View(c)' = [cart |-> c, status |-> "open", items |-> items'[c]]
      BY <2>1 DEF View
    <3>3. items'[c] \in [Products -> Item \cup {None}]
      BY <1>1, <2>6
    <3> QED BY <1>1, <3>1, <3>2, <3>3 DEF Views
  <2>8. [code |-> "OK", body |-> body] \in Answers
    BY <2>7 DEF Answers
  <2>9. c = sent[x].seen
    <3>1. AddedTo(sent[x].item, sent[x].seen)
      BY <1>0 DEF PageInv, CallHolds
    <3>2. Sourced(View(c))
      BY <1>1 DEF PageInv, AllSourced
    <3>3. AddedTo(items[c][p].id, c)
      BY <2>2, <3>2 DEF Sourced, View
    <3> QED BY <2>2, <3>1, <3>3 DEF AddedTo
  <2> HIDE DEF line, body
  <2> QED BY <1>0, <1>1, <2>1, <2>2, <2>4, <2>5, <2>6, <2>7, <2>8, <2>9
          DEF Respond, body
<1> QED BY <1>2, <1>3

LEMMA CheckoutServed ==
    ASSUME PageInv, NEW x \in Calls, sent[x] # None, ServeCheckout(x)
    PROVE  /\ status' \in [Carts -> {"absent", "open", "checked_out"}]
           /\ \A c \in Carts : status[c] # "absent" => status'[c] # "absent"
           /\ UNCHANGED items
           /\ orderUnder' \in [Keys -> Calls \cup {None}]
           /\ \E a \in Answers :
                /\ answer' = [answer EXCEPT ![x] = a]
                /\ a.code = "REFUSED" => UNCHANGED service
           /\ sent[x].op = "checkout"
<1> DEFINE c == sent[x].cart
           k == sent[x].key
<1>0. /\ status \in [Carts -> {"absent", "open", "checked_out"}]
      /\ orderUnder \in [Keys -> Calls \cup {None}]
      /\ sent[x] \in Asks /\ sent[x].op = "checkout"
    BY DEF PageInv, TypeOK, ServeCheckout
<1>1. c \in Carts /\ k \in Keys
    BY <1>0, AskFields
<1>2. CASE RefuseCall(x)
    BY <1>0, <1>2, CallRefused DEF service
<1>3. CASE orderUnder[k] # None /\ Respond(x, "OK", orderUnder[k]) /\ UNCHANGED service
  <2>1. [code |-> "OK", body |-> orderUnder[k]] \in Answers
    BY <1>0, <1>1 DEF Answers
  <2> QED BY <1>0, <1>3, <2>1 DEF Respond, service
<1>4. CASE /\ status' = [status EXCEPT ![c] = "checked_out"]
           /\ orderUnder' = [orderUnder EXCEPT ![k] = x]
           /\ Respond(x, "OK", x)
           /\ UNCHANGED items
  <2>1. [code |-> "OK", body |-> x] \in Answers
    BY DEF Answers
  <2> QED BY <1>0, <1>1, <1>4, <2>1 DEF Respond
<1> QED BY <1>2, <1>3, <1>4 DEF ServeCheckout

\* What a request that is served does, of whichever kind it is.
LEMMA Served ==
    ASSUME PageInv, NEW x \in Calls, Serve(x)
    PROVE  /\ sent[x] # None /\ answer[x] = None
           /\ UNCHANGED <<sent, waiting, losses, page>>
           /\ status' \in [Carts -> {"absent", "open", "checked_out"}]
           /\ \A c \in Carts : status[c] # "absent" => status'[c] # "absent"
           /\ items' \in [Carts -> [Products -> Item \cup {None}]]
           /\ \A c \in Carts, p \in Products : items'[c][p] # None =>
                \/ items[c][p] # None /\ items'[c][p].id = items[c][p].id
                \/ items'[c][p].id = x /\ AddedTo(x, c)
           /\ orderUnder' \in [Keys -> Calls \cup {None}]
           /\ \E a \in Answers :
                /\ answer' = [answer EXCEPT ![x] = a]
                /\ a.code = "REFUSED" => UNCHANGED service
                /\ a.code = "OK" /\ sent[x].op = "create" =>
                     a.body \in Carts /\ status'[a.body] # "absent"
                /\ a.code = "OK" /\ sent[x].op = "edit" =>
                     /\ a.body = View(sent[x].cart)' /\ a.body \in Views
                     /\ sent[x].cart = sent[x].seen /\ sent[x].cart \in Carts
<1>0. /\ status \in [Carts -> {"absent", "open", "checked_out"}]
      /\ items \in [Carts -> [Products -> Item \cup {None}]]
      /\ orderUnder \in [Keys -> Calls \cup {None}]
      /\ sent[x] # None /\ answer[x] = None
      /\ UNCHANGED <<sent, waiting, losses, page>>
    BY DEF PageInv, TypeOK, Serve
<1>1. CASE ServeCreate(x)
  <2>1. sent[x].op = "create" /\ UNCHANGED <<items, orderUnder>>
    BY <1>0, <1>1, CreateServed
  <2>2. PICK a \in Answers :
          /\ answer' = [answer EXCEPT ![x] = a]
          /\ a.code = "OK" => a.body \in Carts /\ status'[a.body] # "absent"
    BY <1>0, <1>1, CreateServed
  <2>3. a.code = "OK"
    <3>1. PICK c \in Carts : answer' = [answer EXCEPT ![x] =
                                            [code |-> "OK", body |-> c]]
      BY <1>1 DEF ServeCreate, Respond
    <3>2. x \in DOMAIN answer
      BY DEF PageInv, TypeOK
    <3>3. answer'[x] = [code |-> "OK", body |-> c] /\ answer'[x] = a
      BY <2>2, <3>1, <3>2
    <3> QED BY <3>3
  <2> QED BY <1>0, <1>1, <2>1, <2>2, <2>3, CreateServed
<1>2. CASE ServeAdd(x)
  <2>1. sent[x].op = "add" /\ UNCHANGED <<status, orderUnder>>
    BY <1>0, <1>2, AddServed
  <2> QED BY <1>0, <1>2, <2>1, AddServed DEF service
<1>3. CASE ServeEdit(x)
  <2>1. sent[x].op = "edit" /\ UNCHANGED <<status, orderUnder>>
    BY <1>0, <1>3, EditServed
  <2> QED BY <1>0, <1>3, <2>1, EditServed DEF service
<1>4. CASE ServeCheckout(x)
    BY <1>0, <1>4, CheckoutServed
<1> QED BY <1>1, <1>2, <1>3, <1>4 DEF Serve

LEMMA ServeKeeps ==
    ASSUME PageInv, NEW x \in Calls, Serve(x), Doubt
    PROVE  PageInv'
<1>0. TypeOK /\ CartsExist /\ AllSourced /\ \A y \in Calls : CallHolds(y)
    BY DEF PageInv
<1>1. /\ sent[x] # None /\ answer[x] = None
      /\ UNCHANGED <<sent, waiting, losses, page>>
      /\ status' \in [Carts -> {"absent", "open", "checked_out"}]
      /\ \A c \in Carts : status[c] # "absent" => status'[c] # "absent"
      /\ items' \in [Carts -> [Products -> Item \cup {None}]]
      /\ orderUnder' \in [Keys -> Calls \cup {None}]
    BY Served
<1>2. PICK a \in Answers :
        /\ answer' = [answer EXCEPT ![x] = a]
        /\ a.code = "OK" /\ sent[x].op = "create" =>
             a.body \in Carts /\ status'[a.body] # "absent"
        /\ a.code = "OK" /\ sent[x].op = "edit" =>
             /\ a.body = View(sent[x].cart)' /\ a.body \in Views
             /\ sent[x].cart = sent[x].seen /\ sent[x].cart \in Carts
    BY Served
<1>3. /\ answer'[x] = a
      /\ \A y \in Calls : y # x => answer'[y] = answer[y]
    BY <1>0, <1>2 DEF TypeOK
<1>4. TypeOK'
  <2>1. answer' \in [Calls -> Answers \cup {None}]
    BY <1>0, <1>2 DEF TypeOK
  <2> QED BY <1>0, <1>1, <2>1, DoubtType DEF TypeOK, page
<1>5. \A c \in Carts : Sourced(View(c))'
  <2> TAKE c \in Carts
  <2>1. ASSUME NEW p \in Products, items'[c][p] # None
        PROVE  AddedTo(items'[c][p].id, c)
    <3>1. \/ items[c][p] # None /\ items'[c][p].id = items[c][p].id
          \/ items'[c][p].id = x /\ AddedTo(x, c)
      BY <2>1, Served
    <3>2. items[c][p] # None => AddedTo(items[c][p].id, c)
      BY <1>0 DEF AllSourced, Sourced, View
    <3> QED BY <3>1, <3>2
  <2> QED BY <1>1, <2>1 DEF Sourced, View, AddedTo
<1>6. AllSourced'
    BY <1>0, <1>1, <1>5 DEF AllSourced, Sourced, AddedTo, page
<1>7. CartsExist'
    BY <1>0, <1>1 DEF CartsExist, TypeOK, page, Fetches, Reloads
<1>8. \A y \in Calls : CallHolds(y)'
  <2> TAKE y \in Calls
  <2>1. CASE y # x
    BY <1>0, <1>1, <1>3, <2>1 DEF CallHolds, Sourced, AddedTo, page
  <2>2. CASE y = x
    <3>1. a.code = "OK" /\ sent[x].op = "edit" => Sourced(a.body)'
      BY <1>1, <1>2, <1>5 DEF Sourced, AddedTo
    <3> QED BY <1>0, <1>1, <1>2, <1>3, <2>2, <3>1 DEF CallHolds, AddedTo, page
  <2> QED BY <2>1, <2>2
<1>9. EditsOnlyWhatIsShown'
    BY <1>1, <1>2, <1>3 DEF PageInv, EditsOnlyWhatIsShown
<1>10. LabelTellsRetry'
    BY <1>1 DEF PageInv, LabelTellsRetry, page
<1> QED BY <1>4, <1>6, <1>7, <1>8, <1>9, <1>10 DEF PageInv

----------------------------------------------------------------------------
(* Clicks. *)

LEMMA SourcedKept ==
    ASSUME NEW view \in Views, Sourced(view),
           \A y \in Calls : sent[y] # None => sent'[y] = sent[y]
    PROVE  \A p \in Products :
              view.items[p] # None => AddedTo(view.items[p].id, view.cart)'
<1>1. \A p \in Products : view.items[p] # None => view.items[p].id \in Calls
    BY DEF Views, Item
<1> QED BY <1>1 DEF Sourced, AddedTo

LEMMA SendKeeps ==
    ASSUME PageInv, NEW x \in Calls, NEW ask \in Asks, Send(x, ask), Doubt,
           UNCHANGED <<cartId, shown, loadError, load, reloads>>,
           ask.op # "create" => cartId # None,
           ask.op = "edit" => AddedTo(ask.item, ask.seen),
           button' \in Buttons \cup {None}, button' # None => shown # None,
           LabelTellsRetry', loose' \subseteq Calls
    PROVE  PageInv'
<1>0. TypeOK /\ CartsExist /\ AllSourced /\ \A y \in Calls : CallHolds(y)
    BY DEF PageInv
<1>1. /\ UNCHANGED <<status, items, orderUnder, answer, losses>>
      /\ sent[x] = None /\ waiting' = waiting \cup {x}
      /\ sent' = [sent EXCEPT ![x] = ask]
    BY DEF Send, service
<1>2. /\ sent'[x] = ask /\ ask # None
      /\ \A y \in Calls : y # x => sent'[y] = sent[y]
    BY <1>0, <1>1, NoneIsNothing DEF TypeOK
<1>3. \A y \in Calls : sent[y] # None => sent'[y] = sent[y]
    BY <1>1, <1>2
<1>4. TypeOK'
  <2>1. sent' \in [Calls -> Asks \cup {None}] /\ waiting' \subseteq Calls
    BY <1>0, <1>1 DEF TypeOK
  <2> QED BY <1>0, <1>1, <2>1, DoubtType DEF TypeOK
<1>5. CartsExist'
    BY <1>0, <1>1 DEF CartsExist
<1>6. AllSourced'
  <2>1. \A c \in Carts : Sourced(View(c))'
    <3> TAKE c \in Carts
    <3>1. \A p \in Products : items[c][p] # None =>
              items[c][p].id \in Calls /\ AddedTo(items[c][p].id, c)
      BY <1>0 DEF AllSourced, Sourced, View, TypeOK, Item
    <3> QED BY <1>1, <1>3, <3>1 DEF Sourced, View, AddedTo
  <2>2. shown # None => Sourced(shown)'
    BY <1>0, <1>3, SourcedKept DEF AllSourced, TypeOK, Sourced
  <2>3. load # None /\ load.view # None => Sourced(load.view)'
    BY <1>0, <1>3, SourcedKept DEF AllSourced, TypeOK, Fetches, Sourced
  <2>4. \A f \in reloads : f.view # None => Sourced(f.view)'
    <3> TAKE f \in reloads
    <3> QED BY <1>0, <1>3, SourcedKept DEF AllSourced, TypeOK, Reloads, Sourced
  <2> QED BY <1>1, <2>1, <2>2, <2>3, <2>4 DEF AllSourced
<1>7. \A y \in Calls : CallHolds(y)'
  <2> TAKE y \in Calls
  <2>1. CASE y = x
    <3>1. answer[x] = None
      BY <1>0, <1>1 DEF CallHolds
    <3>2. ask.op = "edit" => AddedTo(ask.item, ask.seen)'
      <4>1. ask.op = "edit" => ask.item \in Calls
        BY AskFields
      <4> QED BY <1>3, <4>1 DEF AddedTo
    <3> QED BY <1>1, <1>2, <2>1, <3>1, <3>2 DEF CallHolds, AddedTo
  <2>2. CASE y # x
    <3>1. sent'[y] = sent[y] /\ answer'[y] = answer[y]
          /\ (y \in waiting' <=> y \in waiting)
      BY <1>1, <1>2, <2>2
    <3>2. sent[y] # None /\ sent[y].op = "edit" =>
              AddedTo(sent[y].item, sent[y].seen)'
      <4>1. sent[y] # None /\ sent[y].op = "edit" => sent[y].item \in Calls
        BY <1>0, AskFields DEF TypeOK
      <4> QED BY <1>0, <1>3, <3>1, <4>1 DEF CallHolds, AddedTo
    <3>3. answer[y] # None /\ answer[y].code = "OK" /\ sent[y].op = "edit" =>
              Sourced(answer[y].body)'
      BY <1>0, <1>3, <3>1, SourcedKept DEF CallHolds, Sourced
    <3> QED BY <1>0, <1>1, <3>1, <3>2, <3>3 DEF CallHolds, AddedTo, Sourced
  <2> QED BY <2>1, <2>2
<1>8. EditsOnlyWhatIsShown'
  <2>1. answer[x] = None
    BY <1>0, <1>1 DEF CallHolds
  <2> QED BY <1>1, <1>2, <2>1 DEF PageInv, EditsOnlyWhatIsShown
<1> QED BY <1>4, <1>5, <1>6, <1>7, <1>8 DEF PageInv

LEMMA ClickKeeps ==
    ASSUME PageInv, NEW x \in Calls, Click(x), Doubt
    PROVE  PageInv'
<1>0. TypeOK /\ CartsExist /\ LabelTellsRetry
    BY DEF PageInv
<1>1. ASSUME NEW ask \in Asks, Send(x, ask), ask.op # "checkout", UNCHANGED page
      PROVE  LabelTellsRetry' /\ button' \in Buttons \cup {None}
             /\ (button' # None => shown # None) /\ loose' \subseteq Calls
  <2>1. \A y \in Calls : y # x => sent'[y] = sent[y]
    BY <1>0, <1>1 DEF Send, TypeOK
  <2>2. sent'[x] = ask /\ sent[x] = None
    BY <1>0, <1>1 DEF Send, TypeOK
  <2>3. \A y \in Calls :
          (sent'[y] # None /\ sent'[y].op = "checkout") <=>
          (sent[y] # None /\ sent[y].op = "checkout")
    BY <1>1, <2>1, <2>2
  <2>4. LabelTellsRetry'
    BY <1>0, <1>1, <2>1, <2>2, <2>3 DEF LabelTellsRetry, page
  <2> QED BY <1>0, <1>1, <2>4 DEF TypeOK, CartsExist, page
<1>2. CASE ClickCreate(x)
  <2>1. [op |-> "create"] \in Asks
    BY DEF Asks
  <2> QED BY <1>1, <1>2, <2>1, SendKeeps DEF ClickCreate, page
<1>3. CASE ClickAdd(x)
  <2>1. PICK p \in Products, n \in Quantities :
          Send(x, [op |-> "add", cart |-> cartId, product |-> p, quantity |-> n])
    BY <1>3 DEF ClickAdd
  <2> DEFINE ask == [op |-> "add", cart |-> cartId, product |-> p, quantity |-> n]
  <2>2. ask \in Asks /\ ask.op = "add" /\ cartId # None
    BY <1>0, <1>3 DEF Asks, ClickAdd, TypeOK
  <2>3. UNCHANGED page
    BY <1>3 DEF ClickAdd
  <2> HIDE DEF ask
  <2> QED BY <1>1, <2>1, <2>2, <2>3, SendKeeps DEF page, ask
<1>4. CASE ClickEdit(x)
  <2>1. PICK p \in Products, n \in Quantities \cup {0} :
          /\ shown.items[p] # None
          /\ Send(x, [op |-> "edit", cart |-> cartId, item |-> shown.items[p].id,
                      quantity |-> n, seen |-> shown.cart])
    BY <1>4 DEF ClickEdit
  <2> DEFINE ask == [op |-> "edit", cart |-> cartId, item |-> shown.items[p].id,
                     quantity |-> n, seen |-> shown.cart]
  <2>2. shown # None /\ cartId # None /\ shown \in Views /\ cartId \in Carts
    BY <1>0, <1>4 DEF ClickEdit, CartsExist, TypeOK
  <2>3. shown.items[p].id \in Calls /\ shown.cart \in Carts
    BY <2>1, <2>2 DEF Views, Item
  <2>4. ask \in Asks /\ ask.op = "edit"
    BY <2>2, <2>3 DEF Asks
  <2>5. AddedTo(shown.items[p].id, shown.cart)
    BY <2>1, <2>2 DEF PageInv, AllSourced, Sourced
  <2>6. ask.item = shown.items[p].id /\ ask.seen = shown.cart
    OBVIOUS
  <2>7. UNCHANGED page
    BY <1>4 DEF ClickEdit
  <2>8. Send(x, ask)
    BY <2>1
  <2> HIDE DEF ask
  <2> QED BY <1>1, <2>2, <2>4, <2>5, <2>6, <2>7, <2>8, SendKeeps DEF page
<1>5. CASE ClickCheckout(x)
  <2> DEFINE ask == [op |-> "checkout", cart |-> cartId, key |-> button.key]
  <2>1. /\ button # None /\ button \in Buttons /\ shown # None
        /\ cartId # None /\ cartId \in Carts
    BY <1>0, <1>5 DEF ClickCheckout, CartsExist, TypeOK
  <2>2. ask \in Asks /\ ask.op = "checkout" /\ ask.key = button.key
    BY <2>1 DEF Asks, Buttons
  <2>3. /\ Send(x, ask)
        /\ UNCHANGED <<cartId, shown, loadError, load, reloads, loose>>
        /\ button' = [button EXCEPT !.attempts = @ + 1, !.notice = "none"]
    BY <1>5 DEF ClickCheckout
  <2>4. /\ button' \in Buttons /\ button'.key = button.key
        /\ button'.attempts > 0
    <3>1. button.attempts \in Nat /\ button.key \in Keys
      BY <2>1 DEF Buttons
    <3>2. button.attempts + 1 \in Nat /\ button.attempts + 1 > 0
      BY <3>1
    <3>3. /\ button' \in Buttons /\ button'.key = button.key
          /\ button'.attempts = button.attempts + 1
      BY <2>1, <2>3, <3>1, <3>2 DEF Buttons
    <3> QED BY <3>2, <3>3
  <2>5. sent'[x] = ask /\ ask # None
    BY <1>0, <2>2, <2>3, NoneIsNothing DEF Send, TypeOK
  <2> HIDE DEF ask
  <2>6. LabelTellsRetry'
    BY <2>2, <2>4, <2>5 DEF LabelTellsRetry
  <2>7. loose' \subseteq Calls
    BY <1>0, <2>3 DEF TypeOK
  <2> QED BY <2>1, <2>2, <2>3, <2>4, <2>6, <2>7, SendKeeps
<1> QED BY <1>2, <1>3, <1>4, <1>5 DEF Click

----------------------------------------------------------------------------
(* What comes back. *)

\* The button that is on the screen after a step, if any, says what is so of
\* its key.
ButtonHolds(b) ==
    /\ b \in Buttons
    /\ b.attempts > 0 <=> \E x \in Calls : /\ sent[x] # None
                                           /\ sent[x].op = "checkout"
                                           /\ sent[x].key = b.key

LEMMA FreshButton ==
    ASSUME NEW k \in FreshKeys
    PROVE  ButtonHolds(NewButton(k))
<1>1. NewButton(k) \in Buttons /\ NewButton(k).attempts = 0 /\ NewButton(k).key = k
    BY DEF NewButton, Buttons, FreshKeys
<1> QED BY <1>1 DEF ButtonHolds, FreshKeys

LEMMA ButtonBefore ==
    ASSUME PageInv, button # None
    PROVE  ButtonHolds(button)
    BY DEF PageInv, TypeOK, LabelTellsRetry, ButtonHolds

LEMMA Shows ==
    ASSUME PageInv, NEW view \in Views, Show(view)
    PROVE  /\ shown' = view /\ loadError' = FALSE
           /\ button' # None => ButtonHolds(button')
<1>1. CASE ~ Offered(view)
    BY <1>1 DEF Show
<1>2. CASE Offered(view) /\ button # None
    BY <1>2, ButtonBefore DEF Show
<1>3. CASE Offered(view) /\ button = None
  <2>1. PICK k \in FreshKeys : button' = NewButton(k)
    BY <1>3 DEF Show
  <2> QED BY <1>3, <2>1, FreshButton DEF Show
<1> QED BY <1>1, <1>2, <1>3 DEF Show

\* What is enough to know of a step that changes neither the service nor a
\* call.
LEMMA PageKeeps ==
    ASSUME PageInv, Doubt, UNCHANGED <<service, sent, answer>>,
           waiting' \subseteq waiting, losses' \in 0..MaxLosses,
           cartId' \in Carts \cup {None}, loadError' \in BOOLEAN,
           cartId # None => cartId' # None,
           cartId' # None => status[cartId'] # "absent",
           shown' # None => shown' \in Views /\ Sourced(shown') /\ cartId' # None,
           load' # None => /\ load' \in Fetches /\ status[load'.cart] # "absent"
                           /\ load'.view # None => Sourced(load'.view)
                           /\ cartId' # None,
           \A f \in reloads' : /\ f \in Reloads /\ status[f.cart] # "absent"
                               /\ f.view # None => Sourced(f.view)
                               /\ cartId' # None,
           loadError' => cartId' # None, loose' \subseteq Calls,
           button' # None => ButtonHolds(button') /\ shown' # None
    PROVE  PageInv'
<1>0. TypeOK /\ CartsExist /\ AllSourced /\ \A y \in Calls : CallHolds(y)
    BY DEF PageInv
<1>1. TypeOK'
    BY <1>0, DoubtType DEF TypeOK, service, ButtonHolds
<1>2. CartsExist'
    BY DEF CartsExist, service
<1>3. AllSourced'
    BY <1>0 DEF AllSourced, Sourced, AddedTo, View, service
<1>4. \A y \in Calls : CallHolds(y)'
    BY <1>0 DEF CallHolds, AddedTo, Sourced, service
<1>5. EditsOnlyWhatIsShown' /\ LabelTellsRetry'
    BY DEF PageInv, EditsOnlyWhatIsShown, LabelTellsRetry, ButtonHolds
<1> QED BY <1>1, <1>2, <1>3, <1>4, <1>5 DEF PageInv

LEMMA FetchKeeps ==
    ASSUME PageInv, Doubt,
           ServeLoad \/ ServeReload \/ LoadAnswered \/ ReloadAnswered \/ LoadFails
    PROVE  PageInv'
<1>0. TypeOK /\ CartsExist /\ AllSourced
    BY DEF PageInv
<1>l. loose' \subseteq Calls
    BY <1>0, LooseType DEF Next
<1>1. \A c \in Carts : status[c] # "absent" => View(c) \in Views /\ Sourced(View(c))
    BY <1>0, ViewType DEF AllSourced
<1>2. /\ load # None => load \in Fetches /\ load.cart \in Carts
                        /\ cartId # None /\ cartId \in Carts
      /\ \A f \in reloads : f \in Reloads /\ f.cart \in Carts
                            /\ cartId # None /\ cartId \in Carts
      /\ button # None => ButtonHolds(button) /\ shown # None
      /\ shown # None => shown \in Views /\ Sourced(shown) /\ cartId # None
    BY <1>0, ButtonBefore DEF TypeOK, Fetches, Reloads, CartsExist, AllSourced
<1>3. CASE ServeLoad
  <2>1. /\ load # None /\ load' = [load EXCEPT !.view = View(load.cart)]
        /\ UNCHANGED <<service, network, cartId, shown, loadError, reloads, button>>
    BY <1>3 DEF ServeLoad
  <2>2. View(load.cart) \in Views /\ Sourced(View(load.cart))
        /\ status[load.cart] # "absent"
    BY <1>0, <1>1, <1>2, <2>1 DEF CartsExist
  <2>3. /\ load' \in Fetches /\ load'.cart = load.cart
        /\ load'.view = View(load.cart)
    BY <1>2, <2>1, <2>2 DEF Fetches
  <2> QED BY <1>0, <1>l, <1>2, <2>1, <2>2, <2>3, PageKeeps
          DEF network, TypeOK, CartsExist, AllSourced
<1>4. CASE ServeReload
  <2>1. PICK f \in reloads :
          /\ reloads' = (reloads \ {f}) \cup {[f EXCEPT !.view = View(f.cart)]}
          /\ UNCHANGED <<service, network, cartId, shown, loadError, load, button>>
    BY <1>4 DEF ServeReload
  <2> DEFINE g == [f EXCEPT !.view = View(f.cart)]
  <2>2. View(f.cart) \in Views /\ Sourced(View(f.cart)) /\ status[f.cart] # "absent"
    BY <1>0, <1>1, <1>2 DEF CartsExist
  <2>3. g \in Reloads /\ g.cart = f.cart /\ g.view = View(f.cart)
    BY <1>2, <2>1, <2>2, ReloadType
  <2>4. reloads' = (reloads \ {f}) \cup {g}
    BY <2>1
  <2> HIDE DEF g
  <2>5. \A h \in reloads' : h \in reloads \/ h = g
    BY <2>4
  <2> QED BY <1>0, <1>l, <1>2, <2>1, <2>2, <2>3, <2>5, PageKeeps
          DEF network, TypeOK, CartsExist, AllSourced
<1>5. CASE LoadAnswered
  <2>1. /\ load # None /\ load.view # None /\ Show(load.view) /\ load' = None
        /\ UNCHANGED <<service, network, cartId, reloads>>
    BY <1>5 DEF LoadAnswered
  <2>2. load.view \in Views /\ Sourced(load.view) /\ load.view # None
    BY <1>0, <1>2, <2>1 DEF Fetches, AllSourced
  <2>3. /\ shown' = load.view /\ loadError' = FALSE
        /\ button' # None => ButtonHolds(button')
    BY <2>1, <2>2, Shows
  <2> QED BY <1>0, <1>l, <1>2, <2>1, <2>2, <2>3, PageKeeps
          DEF network, TypeOK, CartsExist, AllSourced
<1>6. CASE ReloadAnswered
  <2>1. PICK f \in reloads :
          /\ f.view # None /\ Show(f.view) /\ reloads' = reloads \ {f}
          /\ UNCHANGED <<service, network, cartId, load>>
    BY <1>6 DEF ReloadAnswered
  <2>2. f.view \in Views /\ Sourced(f.view) /\ f.view # None
    BY <1>0, <1>2, <2>1, ReloadType DEF AllSourced
  <2>3. /\ shown' = f.view /\ loadError' = FALSE
        /\ button' # None => ButtonHolds(button')
    BY <2>1, <2>2, Shows
  <2> QED BY <1>0, <1>l, <1>2, <2>1, <2>2, <2>3, PageKeeps
          DEF network, TypeOK, CartsExist, AllSourced
<1>7. CASE LoadFails
  <2>1. /\ losses < MaxLosses /\ losses' = losses + 1
        /\ loadError' = TRUE
        /\ UNCHANGED <<service, sent, answer, waiting, cartId, shown, button>>
    BY <1>7 DEF LoadFails, Lose
  <2>2. \/ load # None /\ load' = None /\ UNCHANGED reloads
        \/ \E f \in reloads : reloads' = reloads \ {f} /\ UNCHANGED load
    BY <1>7 DEF LoadFails
  <2>3. losses' \in 0..MaxLosses
    BY <1>0, <2>1, PageTypes DEF TypeOK
  <2>4. cartId # None
    BY <1>2, <2>2
  <2> QED BY <1>0, <1>l, <1>2, <2>1, <2>2, <2>3, <2>4, PageKeeps
          DEF TypeOK, CartsExist, AllSourced
<1> QED BY <1>3, <1>4, <1>5, <1>6, <1>7

LEMMA DismissKeeps ==
    ASSUME PageInv, Doubt, DismissLoadError \/ DismissNotice
    PROVE  PageInv'
<1>0. TypeOK /\ CartsExist /\ AllSourced
    BY DEF PageInv
<1>l. loose' \subseteq Calls
    BY <1>0, LooseType DEF Next
<1>1. button # None => ButtonHolds(button) /\ shown # None
    BY <1>0, ButtonBefore DEF CartsExist
<1>2. CASE DismissLoadError
  <2> DEFINE f == [cart |-> cartId, view |-> None, after |-> losses]
  <2>1. /\ loadError /\ reloads' = reloads \cup {f} /\ loadError' = FALSE
        /\ UNCHANGED <<service, network, cartId, shown, load, button>>
    BY <1>2 DEF DismissLoadError
  <2>2. cartId # None /\ cartId \in Carts
    BY <1>0, <2>1 DEF CartsExist, TypeOK
  <2>3. f \in Reloads /\ f.view = None /\ f.cart = cartId
    BY <1>0, <2>2 DEF Reloads, TypeOK
  <2> HIDE DEF f
  <2> QED BY <1>0, <1>l, <1>1, <2>1, <2>2, <2>3, PageKeeps
          DEF network, TypeOK, CartsExist, AllSourced
<1>3. CASE DismissNotice
  <2>1. /\ button # None /\ button' = [button EXCEPT !.notice = "none"]
        /\ UNCHANGED <<service, network, cartId, shown, loadError, load, reloads>>
    BY <1>3 DEF DismissNotice
  <2>2. ButtonHolds(button')
    BY <1>1, <2>1 DEF ButtonHolds, Buttons
  <2> QED BY <1>0, <1>l, <1>1, <2>1, <2>2, PageKeeps
          DEF network, TypeOK, CartsExist, AllSourced
<1> QED BY <1>2, <1>3

LEMMA NotifyHolds ==
    ASSUME PageInv, NEW x \in Calls, NEW notice \in {"none", "error", "network"},
           Notify(x, notice)
    PROVE  button' # None => ButtonHolds(button') /\ shown' # None
<1>1. button # None => ButtonHolds(button) /\ shown # None
    BY ButtonBefore DEF PageInv, CartsExist
<1>2. CASE button' = button
    BY <1>1, <1>2 DEF Notify
<1>3. CASE button # None /\ button' = [button EXCEPT !.notice = notice]
    BY <1>1, <1>3 DEF Notify, ButtonHolds, Buttons
<1> QED BY <1>2, <1>3 DEF Notify, Mounted

LEMMA AnsweredKeeps ==
    ASSUME PageInv, Doubt, NEW x \in Calls, Answered(x)
    PROVE  PageInv'
<1>0. TypeOK /\ CartsExist /\ AllSourced /\ CallHolds(x)
    BY DEF PageInv
<1>l. loose' \subseteq Calls
    BY <1>0, LooseType DEF Next
<1>1. button # None => ButtonHolds(button) /\ shown # None
    BY <1>0, ButtonBefore DEF CartsExist
<1>2. \A op, code : Receive(x, op, code) =>
        /\ sent[x] # None /\ sent[x].op = op /\ waiting' \subseteq waiting
        /\ answer[x] # None /\ answer[x].code = code
        /\ losses' \in 0..MaxLosses
        /\ UNCHANGED <<service, sent, answer, losses>>
    BY <1>0 DEF Receive, Awaited, CallHolds, TypeOK
<1>3. CASE CreateAnswered(x)
  <2> DEFINE c == answer[x].body
             f == [cart |-> c, view |-> None]
  <2>1. /\ Receive(x, "create", "OK") /\ cartId' = c
        /\ load' = f /\ loadError' = FALSE
        /\ UNCHANGED <<reloads, shown, button>>
    BY <1>3 DEF CreateAnswered, Refetch
  <2>2. c \in Carts /\ status[c] # "absent" /\ c # None
    BY <1>0, <1>2, <2>1, NoneIsNothing DEF CallHolds
  <2>3. f \in Fetches /\ f.view = None /\ f.cart = c
    BY <2>2 DEF Fetches
  <2> HIDE DEF f, c
  <2> QED BY <1>0, <1>l, <1>1, <1>2, <2>1, <2>2, <2>3, PageKeeps
          DEF TypeOK, CartsExist, AllSourced
<1>4. CASE AddAnswered(x) \/ CheckoutAnswered(x)
  <2> DEFINE f == [cart |-> cartId, view |-> None]
  <2>1. /\ Receive(x, "add", "OK") \/ Receive(x, "checkout", "OK")
        /\ load' = f /\ loadError' = FALSE
        /\ UNCHANGED <<cartId, reloads, shown>>
    BY <1>4 DEF AddAnswered, CheckoutAnswered, Refetch
  <2>2. cartId # None /\ cartId \in Carts /\ status[cartId] # "absent"
    BY <1>0, <1>2, <2>1 DEF CallHolds, TypeOK, CartsExist
  <2>3. f \in Fetches /\ f.view = None /\ f.cart = cartId
    BY <2>2 DEF Fetches
  <2>4. button' # None => ButtonHolds(button') /\ shown # None
    <3>1. CASE button' = button
      BY <1>1, <3>1
    <3>2. CASE button' # button
      <4>1. button # None /\ \E k \in FreshKeys : button' = NewButton(k)
        BY <1>4, <3>2 DEF AddAnswered, CheckoutAnswered, NewKeyAfterOrder, Mounted
      <4>2. ButtonHolds(button')
        BY <4>1, FreshButton
      <4> QED BY <1>1, <4>1, <4>2
    <3> QED BY <3>1, <3>2
  <2> HIDE DEF f
  <2> QED BY <1>0, <1>l, <1>2, <2>1, <2>2, <2>3, <2>4, PageKeeps
          DEF TypeOK, CartsExist, AllSourced
<1>5. CASE EditAnswered(x)
  <2> DEFINE view == answer[x].body
  <2>1. /\ Receive(x, "edit", "OK") /\ Show(view)
        /\ UNCHANGED <<cartId, load, reloads>>
    BY <1>5 DEF EditAnswered
  <2>2. view \in Views /\ Sourced(view) /\ view # None /\ cartId # None
    BY <1>0, <1>2, <2>1, NoneIsNothing DEF CallHolds
  <2>3. /\ shown' = view /\ loadError' = FALSE
        /\ button' # None => ButtonHolds(button')
    BY <2>1, <2>2, Shows
  <2> HIDE DEF view
  <2> QED BY <1>0, <1>l, <1>2, <2>1, <2>2, <2>3, PageKeeps
          DEF TypeOK, CartsExist, AllSourced
<1>6. CASE Refused(x) \/ CallFails(x)
  <2>1. /\ UNCHANGED <<service, sent, answer>> /\ waiting' \subseteq waiting
        /\ losses' \in 0..MaxLosses
    <3>1. CASE Refused(x)
      BY <1>2, <3>1 DEF Refused
    <3>2. CASE CallFails(x)
      <4>1. losses \in 0..MaxLosses /\ losses < MaxLosses /\ losses' = losses + 1
        BY <1>0, <3>2 DEF CallFails, Lose, TypeOK
      <4> QED BY <3>2, <4>1, PageTypes DEF CallFails
    <3> QED BY <1>6, <3>1, <3>2
  <2>2. PICK notice \in {"none", "error", "network"} : Notify(x, notice)
    BY <1>6 DEF Refused, CallFails
  <2>3. button' # None => ButtonHolds(button') /\ shown' # None
    BY <2>2, NotifyHolds
  <2>4. UNCHANGED <<cartId, shown, loadError, load, reloads>>
    BY <2>2 DEF Notify
  <2> QED BY <1>0, <1>l, <2>1, <2>3, <2>4, PageKeeps DEF TypeOK, CartsExist, AllSourced
<1> QED BY <1>3, <1>4, <1>5, <1>6 DEF Answered

LEMMA PageStep == PageInv /\ [Next]_vars => PageInv'
<1> SUFFICES ASSUME PageInv, [Next]_vars PROVE PageInv'
    OBVIOUS
<1>1. ASSUME Next PROVE PageInv'
    BY <1>1, ClickKeeps, ServeKeeps, AnsweredKeeps, FetchKeeps, DismissKeeps
       DEF Next
<1>2. ASSUME UNCHANGED vars PROVE PageInv'
  <2>1. UNCHANGED <<status, items, orderUnder, sent, answer, waiting, losses,
                    cartId, shown, loadError, load, reloads, button, loose, unsure>>
    BY <1>2 DEF vars, pageVars, service, network, page
  <2>2. TypeOK'
    BY <2>1 DEF PageInv, TypeOK
  <2>3. CartsExist' /\ AllSourced'
    BY <2>1 DEF PageInv, CartsExist, AllSourced, Sourced, AddedTo, View
  <2>4. \A y \in Calls : CallHolds(y)'
    BY <2>1 DEF PageInv, CallHolds, AddedTo, Sourced
  <2>5. EditsOnlyWhatIsShown' /\ LabelTellsRetry'
    BY <2>1 DEF PageInv, EditsOnlyWhatIsShown, LabelTellsRetry
  <2> QED BY <2>2, <2>3, <2>4, <2>5 DEF PageInv
<1> QED BY <1>1, <1>2

LEMMA PageInvariance == Spec => []PageInv
    BY PageInitInv, PageStep, PTL DEF Spec

\* Every variable keeps its type; the page never fetches or edits no cart.
THEOREM PageTypeCorrect == Spec => []TypeOK
    BY PageInvariance, PTL DEF PageInv

\* The button says "Retry" exactly when its key has been sent.
THEOREM LabelIsTrue == Spec => []LabelTellsRetry
    BY PageInvariance, PTL DEF PageInv

\* An edit that is served changes the cart that was on the screen.
THEOREM EditsHitWhatIsShown == Spec => []EditsOnlyWhatIsShown
    BY PageInvariance, PTL DEF PageInv

----------------------------------------------------------------------------
(* What is on the screen. *)

LEMMA AtMostOne ==
    ASSUME NEW W, NEW R, NEW l \in {0, 1}, IsFiniteSet(W), IsFiniteSet(R),
           ~ (Cardinality(W) + Cardinality(R) + l > 1)
    PROVE  /\ R # {} => W = {} /\ l = 0 /\ \E f : R = {f}
           /\ W # {} => R = {} /\ l = 0 /\ \E x : W = {x}
<1> DEFINE n == Cardinality(W)
           m == Cardinality(R)
<1>1. /\ n \in Nat /\ m \in Nat
      /\ n = 0 <=> W = {}
      /\ m = 0 <=> R = {}
    BY FS_CardinalityType, FS_EmptySet
<1>2. /\ n = 1 => \E x : W = {x}
      /\ m = 1 => \E f : R = {f}
    BY FS_Singleton
<1> HIDE DEF n, m
<1>3. ASSUME R # {} PROVE n = 0 /\ l = 0 /\ m = 1
    BY <1>1, <1>3 DEF n, m
<1>4. ASSUME W # {} PROVE m = 0 /\ l = 0 /\ n = 1
    BY <1>1, <1>4 DEF n, m
<1> QED BY <1>1, <1>2, <1>3, <1>4

\* Without crossing, a reload or an edit that is under way is alone.
LEMMA Alone ==
    ASSUME IsFiniteSet(waiting), IsFiniteSet(reloads), ~ Crossing
    PROVE  /\ reloads # {} => /\ waiting = {} /\ load = None
                              /\ \E f : reloads = {f}
           /\ Awaited("edit") # {} => /\ reloads = {} /\ load = None
                                      /\ \E x : waiting = {x}
<1> DEFINE l == IF load = None THEN 0 ELSE 1
<1>1. l \in {0, 1} /\ (l = 0 => load = None)
    OBVIOUS
<1>2. Awaited("edit") # {} => waiting # {}
    BY DEF Awaited
<1>3. \/ Awaited("edit") = {} /\ reloads = {}
      \/ ~ (Cardinality(waiting) + Cardinality(reloads) + l > 1)
    BY DEF Crossing
<1> HIDE DEF l
<1> QED BY <1>1, <1>2, <1>3, AtMostOne

LEMMA AloneThen ==
    ASSUME IsFiniteSet(waiting)', IsFiniteSet(reloads)', ~ Crossing'
    PROVE  /\ reloads' # {} => /\ waiting' = {} /\ load' = None
                               /\ \E f : reloads' = {f}
           /\ Awaited("edit")' # {} => /\ reloads' = {} /\ load' = None
                                       /\ \E x : waiting' = {x}
<1> DEFINE l == IF load' = None THEN 0 ELSE 1
<1>1. l \in {0, 1} /\ (l = 0 => load' = None)
    OBVIOUS
<1>2. Awaited("edit")' # {} => waiting' # {}
    BY DEF Awaited
<1>3. \/ Awaited("edit")' = {} /\ reloads' = {}
      \/ ~ (Cardinality(waiting') + Cardinality(reloads') + l > 1)
    BY DEF Crossing
<1> HIDE DEF l
<1> QED BY <1>1, <1>2, <1>3, AtMostOne

LEMMA FiniteStep ==
    ASSUME PageInv, SureInv, Next
    PROVE  IsFiniteSet(waiting)' /\ IsFiniteSet(reloads)'
<1>0. IsFiniteSet(waiting) /\ IsFiniteSet(reloads)
    BY DEF SureInv
<1>1. \/ waiting' \subseteq waiting
      \/ \E x \in Calls : waiting' = waiting \cup {x}
    BY DEF Next, Click, ClickCreate, ClickAdd, ClickEdit, ClickCheckout, Send,
       Serve, Answered, CreateAnswered, AddAnswered, EditAnswered,
       CheckoutAnswered, Refused, CallFails, Receive, ServeLoad, ServeReload,
       LoadAnswered, ReloadAnswered, LoadFails, DismissLoadError,
       DismissNotice, network
<1>2. \/ reloads' \subseteq reloads
      \/ \E f : reloads' \subseteq reloads \cup {f}
    BY DEF Next, Click, ClickCreate, ClickAdd, ClickEdit, ClickCheckout,
       Serve, Answered, CreateAnswered, AddAnswered, EditAnswered,
       CheckoutAnswered, Refused, CallFails, Notify, Refetch, ServeLoad,
       ServeReload, LoadAnswered, ReloadAnswered, LoadFails, DismissLoadError,
       DismissNotice, page
<1>3. \A f : IsFiniteSet(waiting \cup {f}) /\ IsFiniteSet(reloads \cup {f})
    BY <1>0, FS_AddElement
<1> QED BY <1>0, <1>1, <1>2, <1>3, FS_Subset

\* A fetch that is alone makes the page sure again.
LEMMA LoneFetchSures ==
    ASSUME PageInv', LoneFetch', ~ Crossing'
    PROVE  Sure'
<1> DEFINE f == [cart |-> cartId', view |-> None]
<1>1. /\ waiting' = {}
      /\ \A x \in Calls : sent'[x] # None => answer'[x] # None
      /\ \/ load' = f /\ reloads' = {}
         \/ /\ load' = None
            /\ \E g \in reloads' :
                   reloads' = {g} /\ g.cart = cartId' /\ g.view = None
    BY DEF LoneFetch
<1>2. f.view = None /\ f.cart = cartId'
    OBVIOUS
<1>3. cartId' # None => f # None
  <2>1. cartId' # None => f \in Fetches
    BY DEF PageInv, TypeOK, Fetches
  <2> QED BY <2>1, NoneIsNothing
<1> HIDE DEF f
<1>4. /\ load' # None => load'.cart = cartId' /\ load'.view = None
      /\ \A g \in reloads' : g.cart = cartId'
    BY <1>1, <1>2
<1>5. cartId' # None => UpToDate'
    BY <1>1, <1>2, <1>3 DEF UpToDate
<1> QED BY <1>1, <1>4, <1>5 DEF Sure, Awaited

\* A sure page stays sure on a step in which no request fails and after which
\* none crosses another.  First a click.
LEMMA ClickSures ==
    ASSUME PageInv, Sure, ~ Crossing', NEW x \in Calls, Click(x)
    PROVE  Sure'
<1>1. PICK ask : /\ Send(x, ask)
                 /\ UNCHANGED <<cartId, shown, load, reloads>>
                 /\ ask.op = "edit" => ask.cart = cartId
  <2>1. CASE ClickCreate(x)
    <3>1. [op |-> "create"].op # "edit"
      OBVIOUS
    <3> QED BY <2>1, <3>1 DEF ClickCreate, page
  <2>2. CASE ClickAdd(x)
    <3>1. PICK ask : Send(x, ask) /\ ask.op = "add"
      BY <2>2 DEF ClickAdd
    <3> QED BY <2>2, <3>1 DEF ClickAdd, page
  <2>3. CASE ClickEdit(x)
    <3>1. PICK ask : Send(x, ask) /\ ask.cart = cartId
      BY <2>3 DEF ClickEdit
    <3> QED BY <2>3, <3>1 DEF ClickEdit, page
  <2>4. CASE ClickCheckout(x)
    <3>1. PICK ask : Send(x, ask) /\ ask.op = "checkout"
      BY <2>4 DEF ClickCheckout
    <3> QED BY <2>4, <3>1 DEF ClickCheckout
  <2> QED BY <2>1, <2>2, <2>3, <2>4 DEF Click
<1>2. /\ sent \in [Calls -> Asks \cup {None}]
      /\ waiting \subseteq Calls
      /\ sent[x] = None /\ x \notin waiting /\ answer[x] = None
    BY <1>1 DEF PageInv, TypeOK, CallHolds, Send
<1>3. /\ \A y \in Calls : y # x => sent'[y] = sent[y]
      /\ sent'[x] = ask
      /\ waiting' = waiting \cup {x}
      /\ UNCHANGED <<status, items, answer>>
    BY <1>1, <1>2 DEF Send, service
<1>4. \A y \in waiting : y \in Calls /\ y # x
    BY <1>2
<1>5. \A y \in Calls : sent'[y] # None /\ y \notin waiting' => answer'[y] # None
    BY <1>3 DEF Sure
<1>6. \A y \in Awaited("edit")' : sent'[y].cart = cartId'
    BY <1>1, <1>3, <1>4 DEF Awaited, Sure
<1>7. cartId' # None => UpToDate'
    BY <1>1, <1>2, <1>3, <1>4 DEF Sure, UpToDate, FetchToCome, Same, View
<1> QED BY <1>1, <1>5, <1>6, <1>7 DEF Sure

\* The same of a request that is served.
LEMMA ServeSures ==
    ASSUME PageInv, SureInv, Sure, ~ Crossing', NEW x \in Calls, Serve(x)
    PROVE  Sure'
<1>1. /\ sent[x] # None /\ answer[x] = None
      /\ UNCHANGED <<sent, waiting, cartId, shown, load, reloads>>
    BY DEF Serve, page
<1>2. PICK a \in Answers :
        /\ answer' = [answer EXCEPT ![x] = a]
        /\ a.code = "REFUSED" => UNCHANGED service
        /\ a.code = "OK" /\ sent[x].op = "edit" => a.body = View(sent[x].cart)'
    BY Served
<1>3. /\ waiting \subseteq Calls
      /\ answer'[x] = a /\ \A y \in Calls : y # x => answer'[y] = answer[y]
    BY <1>2 DEF PageInv, TypeOK
<1>4. a # None /\ a.code \in {"OK", "REFUSED"}
    BY NoneIsNothing DEF Answers
<1>5. x \in waiting
    BY <1>1 DEF Sure
<1>6. \A y \in Calls : sent'[y] # None /\ y \notin waiting' => answer'[y] # None
    BY <1>1, <1>3, <1>5 DEF Sure
<1>7. \A y \in Awaited("edit")' : sent'[y].cart = cartId'
    BY <1>1 DEF Awaited, Sure
<1>8. CASE a.code = "OK" /\ sent[x].op # "edit"
  <2>1. FetchToCome'
    BY <1>1, <1>3, <1>4, <1>5, <1>8 DEF FetchToCome
  <2> QED BY <1>1, <1>6, <1>7, <2>1 DEF Sure, UpToDate
<1>9. CASE a.code = "OK" /\ sent[x].op = "edit"
  <2>1. x \in Awaited("edit")
    BY <1>5, <1>9 DEF Awaited
  <2>2. reloads = {} /\ load = None
    BY <2>1, Alone DEF SureInv, Sure
  <2>3. a.body = View(sent[x].cart)' /\ sent[x].cart = cartId
    BY <1>2, <1>9, <2>1 DEF Sure
  <2>4. Same(a.body)'
    BY <1>1, <2>3 DEF Same, View
  <2>5. Same(answer[x].body)'
    BY <1>3, <2>4 DEF Same
  <2>6. UpToDate'
    BY <1>1, <1>3, <1>4, <1>5, <1>9, <2>2, <2>5 DEF UpToDate
  <2> QED BY <1>1, <1>6, <1>7, <2>6 DEF Sure
<1>10. CASE a.code = "REFUSED"
  <2>1. UNCHANGED <<status, items>>
    BY <1>2, <1>10 DEF service
  <2>2. cartId' # None => UpToDate'
    BY <1>1, <1>3, <1>10, <2>1 DEF Sure, UpToDate, FetchToCome, Same, View
  <2> QED BY <1>1, <1>6, <1>7, <2>2 DEF Sure
<1> QED BY <1>4, <1>8, <1>9, <1>10

\* The same of a fetch that is served or shown.
LEMMA FetchSures ==
    ASSUME PageInv, SureInv, Sure, ~ Crossing',
           ServeLoad \/ ServeReload \/ LoadAnswered \/ ReloadAnswered
    PROVE  Sure'
<1>1. UNCHANGED <<status, items, sent, answer, waiting, cartId>>
    BY DEF ServeLoad, ServeReload, LoadAnswered, ReloadAnswered, service, network
<1>2. /\ \A y \in Calls : sent'[y] # None /\ y \notin waiting' => answer'[y] # None
      /\ \A y \in Awaited("edit")' : sent'[y].cart = cartId'
    BY <1>1 DEF Sure, Awaited
<1>3. /\ load \in Fetches \cup {None} /\ reloads \subseteq Reloads
      /\ None \notin Fetches
    BY NoneIsNothing DEF PageInv, TypeOK
<1>4. /\ reloads # {} => /\ waiting = {} /\ load = None
                         /\ \E f : reloads = {f}
      /\ Awaited("edit") # {} => reloads = {} /\ load = None
    BY Alone DEF SureInv, Sure
<1>5. \A view : Same(view)' <=> Same(view)
    BY <1>1 DEF Same, View
<1>6. FetchToCome' <=> FetchToCome
    BY <1>1 DEF FetchToCome
<1>7. CASE ServeLoad
  <2>1. /\ load # None /\ load' = [load EXCEPT !.view = View(load.cart)]
        /\ UNCHANGED <<shown, reloads>>
    BY <1>7 DEF ServeLoad
  <2>2. load.cart = cartId /\ load \in Fetches
    BY <1>3, <2>1 DEF Sure
  <2>3. load'.cart = cartId /\ load'.view = View(cartId)
    BY <2>1, <2>2 DEF Fetches
  <2>4. load' # None
    BY <1>3, <2>2, <2>1, ViewType DEF PageInv, CartsExist, Fetches
  <2>5. UpToDate'
    BY <1>5, <2>3, <2>4 DEF UpToDate, Same
  <2> QED BY <1>1, <1>2, <2>1, <2>3, <2>5 DEF Sure
<1>8. CASE ServeReload
  <2>1. PICK f \in reloads :
          /\ reloads' = (reloads \ {f}) \cup {[f EXCEPT !.view = View(f.cart)]}
          /\ UNCHANGED <<shown, load>>
    BY <1>8 DEF ServeReload
  <2> DEFINE g == [f EXCEPT !.view = View(f.cart)]
  <2>2. reloads = {f} /\ load = None
    BY <1>4, <2>1
  <2>3. f.cart = cartId /\ f \in Reloads
    BY <1>3, <2>1 DEF Sure
  <2>4. g.cart = cartId /\ g.view = View(cartId)
    BY <2>3 DEF Reloads
  <2>5. reloads' = {g}
    BY <2>1, <2>2
  <2> HIDE DEF g
  <2>6. UpToDate'
    BY <1>5, <2>1, <2>2, <2>4, <2>5 DEF UpToDate, Same
  <2> QED BY <1>1, <1>2, <2>1, <2>2, <2>4, <2>5, <2>6 DEF Sure
<1>9. CASE LoadAnswered
  <2>1. /\ load # None /\ load.view # None /\ shown' = load.view /\ load' = None
        /\ UNCHANGED reloads
    BY <1>9 DEF LoadAnswered, Show
  <2>2. reloads = {} /\ Awaited("edit") = {}
    BY <1>4, <2>1
  <2>3. UpToDate => FetchToCome \/ Same(load.view)
    BY <2>1, <2>2 DEF UpToDate
  <2>4. \A y \in waiting' : sent'[y].op # "edit"
    BY <1>1, <2>2 DEF Awaited
  <2>5. Same(load.view) => Same(shown)'
    BY <1>1, <2>1 DEF Same, View
  <2>6. UpToDate => UpToDate'
    BY <1>6, <2>1, <2>2, <2>3, <2>4, <2>5 DEF UpToDate
  <2> QED BY <1>1, <1>2, <2>1, <2>2, <2>6 DEF Sure
<1>10. CASE ReloadAnswered
  <2>1. PICK f \in reloads :
          /\ f.view # None /\ shown' = f.view /\ reloads' = reloads \ {f}
          /\ UNCHANGED load
    BY <1>10 DEF ReloadAnswered, Show
  <2>2. reloads = {f} /\ load = None /\ waiting = {}
    BY <1>4, <2>1
  <2>3. reloads' = {} /\ load' = None /\ waiting' = {}
    BY <1>1, <2>1, <2>2
  <2>4. UpToDate => Same(f.view)
    BY <2>1, <2>2 DEF UpToDate, FetchToCome
  <2>5. Same(f.view) => Same(shown)'
    BY <1>1, <2>1 DEF Same, View
  <2>6. UpToDate => UpToDate'
    BY <2>3, <2>4, <2>5 DEF UpToDate
  <2> QED BY <1>1, <1>2, <2>3, <2>6 DEF Sure
<1> QED BY <1>7, <1>8, <1>9, <1>10

\* The same of a reload, and of a notice that is dismissed.
LEMMA DismissSures ==
    ASSUME PageInv, SureInv, Sure, ~ Crossing',
           IsFiniteSet(waiting)', IsFiniteSet(reloads)',
           DismissLoadError \/ DismissNotice
    PROVE  Sure'
<1>1. UNCHANGED <<status, items, sent, answer, waiting, cartId, shown, load>>
    BY DEF DismissLoadError, DismissNotice, service, network
<1>2. /\ \A y \in Calls : sent'[y] # None /\ y \notin waiting' => answer'[y] # None
      /\ \A y \in Awaited("edit")' : sent'[y].cart = cartId'
    BY <1>1 DEF Sure, Awaited
<1>3. CASE DismissLoadError
  <2> DEFINE g == [cart |-> cartId, view |-> None, after |-> losses]
  <2>1. reloads' = reloads \cup {g} /\ g.cart = cartId /\ g.view = None
    BY <1>3 DEF DismissLoadError
  <2> HIDE DEF g
  <2>2. load' = None /\ g \in reloads' /\ reloads' = {g}
    BY <2>1, AloneThen
  <2>3. UpToDate'
    BY <2>1, <2>2 DEF UpToDate
  <2> QED BY <1>1, <1>2, <2>1, <2>2, <2>3 DEF Sure
<1>4. CASE DismissNotice
  <2>1. UNCHANGED reloads
    BY <1>4 DEF DismissNotice
  <2>2. UpToDate => UpToDate'
    BY <1>1, <2>1 DEF UpToDate, FetchToCome, Same, View
  <2> QED BY <1>1, <1>2, <2>1, <2>2 DEF Sure
<1> QED BY <1>3, <1>4

\* The same of a response that comes.
LEMMA AnsweredSures ==
    ASSUME PageInv, PageInv', SureInv, Sure, ~ Crossing',
           IsFiniteSet(waiting)', IsFiniteSet(reloads)',
           NEW x \in Calls, Answered(x), ~ CallFails(x)
    PROVE  Sure'
<1>1. PICK op, code :
        /\ Receive(x, op, code)
        /\ op = "edit" /\ code = "OK" => EditAnswered(x)
        /\ op # "edit" /\ code = "OK" =>
              CreateAnswered(x) \/ AddAnswered(x) \/ CheckoutAnswered(x)
        /\ code # "OK" => code = "REFUSED" /\ UNCHANGED <<cartId, shown, load, reloads>>
    BY DEF Answered, CreateAnswered, AddAnswered, EditAnswered,
       CheckoutAnswered, Refused, Notify
<1>2. /\ x \in waiting /\ sent[x].op = op
      /\ answer[x] # None /\ answer[x].code = code
      /\ waiting' = waiting \ {x}
      /\ UNCHANGED <<status, items, sent, answer>>
    BY <1>1 DEF Receive, Awaited, service
<1>3. \A y \in Calls : sent'[y] # None /\ y \notin waiting' => answer'[y] # None
    BY <1>2 DEF Sure
<1>4. CASE op # "edit" /\ code = "OK"
  <2>1. /\ load' = [cart |-> cartId', view |-> None]
        /\ UNCHANGED reloads
    BY <1>1, <1>4 DEF CreateAnswered, AddAnswered, CheckoutAnswered, Refetch
  <2>2. cartId' # None
    <3>1. CASE CreateAnswered(x)
      <4>1. answer[x].body \in Carts /\ cartId' = answer[x].body
        BY <1>2, <1>4, <3>1
           DEF PageInv, CallHolds, CreateAnswered, Receive, Awaited
      <4> QED BY <4>1, NoneIsNothing
    <3>2. CASE AddAnswered(x) \/ CheckoutAnswered(x)
      <4>1. sent[x].op # "create" /\ UNCHANGED cartId
        BY <3>2 DEF AddAnswered, CheckoutAnswered, Receive, Awaited
      <4>2. sent[x] # None
        BY <1>2 DEF PageInv, CallHolds
      <4> QED BY <4>1, <4>2 DEF PageInv, CallHolds
    <3> QED BY <1>1, <1>4, <3>1, <3>2
  <2>3. load' \in Fetches /\ load'.cart = cartId' /\ load'.view = None
    BY <2>1, <2>2 DEF PageInv, TypeOK, Fetches
  <2>4. load' # None
    BY <2>3, NoneIsNothing
  <2>5. reloads' = {} /\ Awaited("edit")' = {}
    BY <2>4, AloneThen
  <2>6. UpToDate'
    BY <2>3, <2>4 DEF UpToDate
  <2> QED BY <1>3, <2>3, <2>5, <2>6 DEF Sure
<1>5. CASE op = "edit" /\ code = "OK"
  <2>1. shown' = answer[x].body /\ UNCHANGED <<cartId, load, reloads>>
    BY <1>1, <1>5 DEF EditAnswered, Show
  <2>2. x \in Awaited("edit")
    BY <1>2, <1>5 DEF Awaited
  <2>3. reloads = {} /\ load = None /\ waiting = {x}
    BY <1>2, <2>2, Alone DEF SureInv, Sure
  <2>4. UpToDate => Same(answer[x].body)
    BY <1>2, <1>5, <2>3 DEF UpToDate, FetchToCome
  <2>5. Same(answer[x].body) => Same(shown)'
    BY <1>2, <2>1 DEF Same, View
  <2>6. waiting' = {} /\ reloads' = {} /\ load' = None
    BY <1>2, <2>1, <2>3
  <2>7. UpToDate => UpToDate'
    BY <2>4, <2>5, <2>6 DEF UpToDate
  <2> QED BY <1>3, <2>1, <2>6, <2>7 DEF Sure, Awaited
<1>6. CASE code # "OK"
  <2>1. UNCHANGED <<cartId, shown, load, reloads>> /\ code = "REFUSED"
    BY <1>1, <1>6
  <2>2. UpToDate => UpToDate'
    BY <1>2, <2>1 DEF UpToDate, FetchToCome, Same, View
  <2>3. \A y \in Awaited("edit")' : sent'[y].cart = cartId'
    BY <1>2, <2>1 DEF Sure, Awaited
  <2> QED BY <1>3, <2>1, <2>2, <2>3 DEF Sure
<1> QED BY <1>4, <1>5, <1>6

LEMMA SureStep == PageInv /\ PageInv' /\ SureInv /\ [Next]_vars => SureInv'
<1> SUFFICES ASSUME PageInv, PageInv', SureInv, [Next]_vars PROVE SureInv'
    OBVIOUS
<1>1. ASSUME UNCHANGED vars PROVE SureInv'
  <2>1. UNCHANGED <<status, items, sent, answer, waiting, losses, cartId, shown,
                    loadError, load, reloads, unsure>>
    BY <1>1 DEF vars, pageVars, service, network, page
  <2>2. UpToDate => UpToDate'
    BY <2>1 DEF UpToDate, FetchToCome, Same, View
  <2>3. Crossing' => Crossing
    BY <2>1 DEF Crossing, Awaited
  <2>4. Sure => Sure'
    BY <2>1, <2>2, <2>3 DEF Sure, Awaited
  <2> QED BY <2>1, <2>4 DEF SureInv
<1>2. ASSUME Next, ~ unsure' PROVE Sure'
  <2>1. /\ ~ Crossing'
        /\ LoneFetch' \/ (~ unsure /\ losses' = losses)
    BY <1>2 DEF Next, Doubt
  <2>2. IsFiniteSet(waiting)' /\ IsFiniteSet(reloads)'
    BY <1>2, FiniteStep
  <2>3. CASE LoneFetch'
    BY <2>1, <2>3, LoneFetchSures
  <2>4. CASE ~ unsure /\ losses' = losses
    <3>1. Sure
      BY <2>4 DEF SureInv
    <3>2. ~ Lose
      BY <2>4 DEF Lose, PageInv, TypeOK
    <3>3. CASE \E x \in Calls : Click(x)
      BY <2>1, <3>1, <3>3, ClickSures
    <3>4. CASE \E x \in Calls : Serve(x)
      BY <2>1, <3>1, <3>4, ServeSures
    <3>5. CASE \E x \in Calls : Answered(x)
      <4>1. \A x \in Calls : ~ CallFails(x)
        BY <3>2 DEF CallFails
      <4> QED BY <2>1, <2>2, <3>1, <3>5, <4>1, AnsweredSures
    <3>6. CASE ServeLoad \/ ServeReload \/ LoadAnswered \/ ReloadAnswered
      BY <2>1, <3>1, <3>6, FetchSures
    <3>7. CASE DismissLoadError \/ DismissNotice
      BY <2>1, <2>2, <3>1, <3>7, DismissSures
    <3> QED BY <1>2, <3>2, <3>3, <3>4, <3>5, <3>6, <3>7 DEF Next, LoadFails
  <2> QED BY <2>1, <2>3, <2>4
<1> QED BY <1>1, <1>2, FiniteStep DEF SureInv

\* With nothing under way, and unless a request failed or crossed an edit or a
\* reload since the last fetch that was alone, the screen shows App's cart as
\* the service holds it.
THEOREM ScreenIsFresh == Spec => []FreshWhenQuiet
<1>1. PageInv /\ SureInv => FreshWhenQuiet
    BY DEF SureInv, Sure, UpToDate, FetchToCome, Same, FreshWhenQuiet, Quiet
<1> QED BY <1>1, PageInitInv, PageStep, SureStep, PTL DEF Spec

============================================================================
