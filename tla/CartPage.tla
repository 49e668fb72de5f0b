------------------------------ MODULE CartPage -----------------------------
(***************************************************************************)
(* The cart page of the demo UI (App, Cart, CheckoutButton, ProductList    *)
(* and the hooks of useAsync.ts): what it shows, what it sends, and what   *)
(* it does with responses that come late, in another order, or never.      *)
(*                                                                         *)
(* The service serves each request in one step, as Shop says it may be     *)
(* seen to; the page is its only client.  A state update and the rendering *)
(* it causes are one step, and so is an effect that the rendering re-runs. *)
(*                                                                         *)
(* Every POST, PATCH or DELETE of the page is a member of Calls, made at   *)
(* most once, and names the cart line or the order that it makes.  Calls,  *)
(* Carts, Keys and MaxLosses bound the model.                              *)
(***************************************************************************)
EXTENDS Integers, FiniteSets

CONSTANTS Calls, Carts, Products, Quantities, Keys, MaxLosses, None

ASSUME PageTypes ==
    /\ Quantities \subseteq Nat \ {0}
    /\ MaxLosses \in Nat

VARIABLES
    status,     \* of each cart at the service
    items,      \* its lines: the id and quantity on each product's, or None
    orderUnder, \* the order recorded under each idempotency key, or None
    sent,       \* what each call asks, None before it is made
    answer,     \* the service's response to it, or None
    waiting,    \* the calls the page still awaits
    losses,     \* how many requests have failed on the network
    cartId,     \* App's cart, or None
    shown,      \* the cart data on the screen, or None
    loadError,  \* whether the last load of the cart failed
    load,       \* the fetch of the current effect, or None
    reloads,    \* fetches begun by reload(), which nothing cancels
    button,     \* the mounted CheckoutButton, or None
    loose,      \* the edits whose CartLine has been unmounted since the click
    unsure      \* whether what is shown may be old, see Doubt

service == <<status, items, orderUnder>>
network == <<sent, answer, waiting, losses>>
page == <<cartId, shown, loadError, load, reloads, button, loose>>
pageVars == <<service, network, page>>
vars == <<pageVars, unsure>>

Item == [id : Calls, quantity : Nat \ {0}]
Views == [cart : Carts, status : {"open", "checked_out"},
          items : [Products -> Item \cup {None}]]
Fetches == [cart : Carts, view : Views \cup {None}]

\* `after' tells reloads apart: each is of another failed load.
Reloads == [cart : Carts, view : Views \cup {None}, after : 0..MaxLosses]

\* `seen' is the cart on the screen when a line edit is clicked; it is not
\* sent, and here for EditsOnlyWhatIsShown to speak of.
Asks ==
         [op : {"create"}]
    \cup [op : {"add"}, cart : Carts, product : Products, quantity : Quantities]
    \cup [op : {"edit"}, cart : Carts, item : Calls,
          quantity : Quantities \cup {0}, seen : Carts]
    \cup [op : {"checkout"}, cart : Carts, key : Keys]

Answers == [code : {"OK", "REFUSED"}, body : Carts \cup Views \cup Calls \cup {None}]

Buttons == [key : Keys, attempts : Nat, notice : {"none", "error", "network"}]

ASSUME NoneIsNothing ==
    None \notin Calls \cup Carts \cup Keys \cup Item \cup Views \cup Fetches
                \cup Reloads \cup Asks \cup Answers \cup Buttons

TypeOK ==
    /\ status \in [Carts -> {"absent", "open", "checked_out"}]
    /\ items \in [Carts -> [Products -> Item \cup {None}]]
    /\ orderUnder \in [Keys -> Calls \cup {None}]
    /\ sent \in [Calls -> Asks \cup {None}]
    /\ answer \in [Calls -> Answers \cup {None}]
    /\ waiting \subseteq Calls
    /\ losses \in 0..MaxLosses
    /\ cartId \in Carts \cup {None}
    /\ shown \in Views \cup {None}
    /\ loadError \in BOOLEAN
    /\ load \in Fetches \cup {None}
    /\ reloads \subseteq Reloads
    /\ button \in Buttons \cup {None}
    /\ loose \subseteq Calls
    /\ unsure \in BOOLEAN

NoItems == [p \in Products |-> None]

Init ==
    /\ status = [c \in Carts |-> "absent"]
    /\ items = [c \in Carts |-> NoItems]
    /\ orderUnder = [k \in Keys |-> None]
    /\ sent = [x \in Calls |-> None]
    /\ answer = [x \in Calls |-> None]
    /\ waiting = {}
    /\ losses = 0
    /\ cartId = None /\ shown = None /\ loadError = FALSE
    /\ load = None /\ reloads = {} /\ button = None
    /\ loose = {}
    /\ unsure = FALSE

----------------------------------------------------------------------------
(* The service. *)

View(c) == [cart |-> c, status |-> status[c], items |-> items[c]]

\* Faulty form: the line is looked up by its id alone, in whichever cart.
LineOfAnyCart(c, id) ==
    {p \in Products : \E d \in Carts :
        items[d][p] # None /\ items[d][p].id = id}

\* The line of cart c with that id.
LineOf(c, id) == {p \in Products : items[c][p] # None /\ items[c][p].id = id}

Respond(x, code, body) ==
    answer' = [answer EXCEPT ![x] = [code |-> code, body |-> body]]

\* Refused with a 4xx and an error envelope.
RefuseCall(x) == Respond(x, "REFUSED", None) /\ UNCHANGED service

ServeCreate(x) ==
    /\ sent[x].op = "create"
    /\ \E c \in Carts :
        /\ status[c] = "absent"
        /\ status' = [status EXCEPT ![c] = "open"]
        /\ Respond(x, "OK", c)
    /\ UNCHANGED <<items, orderUnder>>

\* On the line there is, or a new one.
LineWith(line, x) ==
    IF line = None THEN [id |-> x, quantity |-> sent[x].quantity]
    ELSE [line EXCEPT !.quantity = @ + sent[x].quantity]

\* There may be too little stock.
ServeAdd(x) ==
    /\ sent[x].op = "add"
    /\ LET c == sent[x].cart  p == sent[x].product IN
        \/ RefuseCall(x)
        \/ /\ status[c] = "open"
           /\ items' = [items EXCEPT ![c][p] = LineWith(@, x)]
           /\ Respond(x, "OK", None)
           /\ UNCHANGED <<status, orderUnder>>

\* Faulty form: a PATCH to 0 writes 0 instead of removing the line.
NewLineOfNone(line, n) == [line EXCEPT !.quantity = n]

NewLine(line, n) == IF n = 0 THEN None ELSE [line EXCEPT !.quantity = n]

\* PATCH and DELETE answer with the cart as it has become.
ServeEdit(x) ==
    /\ sent[x].op = "edit"
    /\ LET c == sent[x].cart  n == sent[x].quantity IN
        \/ RefuseCall(x)
        \/ \E p \in LineOf(c, sent[x].item) :
            /\ status[c] = "open"
            /\ items' = [items EXCEPT ![c][p] = NewLine(@, n)]
            /\ Respond(x, "OK", [View(c) EXCEPT !.items = items'[c]])
            /\ UNCHANGED <<status, orderUnder>>

\* The order under the key again, if it was for this cart; or a sale of the
\* open cart, unless stock or coupon forbid it.
ServeCheckout(x) ==
    /\ sent[x].op = "checkout"
    /\ LET c == sent[x].cart  k == sent[x].key IN
        \/ /\ orderUnder[k] # None
           /\ IF sent[orderUnder[k]].cart = c
              THEN Respond(x, "OK", orderUnder[k]) /\ UNCHANGED service
              ELSE RefuseCall(x)
        \/ orderUnder[k] = None /\ RefuseCall(x)
        \/ /\ orderUnder[k] = None
           /\ status[c] = "open" /\ items[c] # NoItems
           /\ status' = [status EXCEPT ![c] = "checked_out"]
           /\ orderUnder' = [orderUnder EXCEPT ![k] = x]
           /\ Respond(x, "OK", x)
           /\ UNCHANGED items

\* A request is served also when the page has stopped waiting for it.
Serve(x) ==
    /\ sent[x] # None /\ answer[x] = None
    /\ ServeCreate(x) \/ ServeAdd(x) \/ ServeEdit(x) \/ ServeCheckout(x)
    /\ UNCHANGED <<sent, waiting, losses, page>>

ServeLoad ==
    /\ load # None /\ load.view = None
    /\ load' = [load EXCEPT !.view = View(load.cart)]
    /\ UNCHANGED <<service, network, cartId, shown, loadError, reloads, button,
                   loose>>

ServeReload ==
    /\ \E f \in reloads :
        /\ f.view = None
        /\ reloads' = (reloads \ {f}) \cup {[f EXCEPT !.view = View(f.cart)]}
    /\ UNCHANGED <<service, network, cartId, shown, loadError, load, button,
                   loose>>

----------------------------------------------------------------------------
(* What the page shows. *)

\* A key never sent and not on the button: crypto.randomUUID().
FreshKeys ==
    {k \in Keys :
        /\ \A x \in Calls : sent[x] # None /\ sent[x].op = "checkout" =>
               sent[x].key # k
        /\ button # None => button.key # k}

NewButton(k) == [key |-> k, attempts |-> 0, notice |-> "none"]

\* Cart shows the button while its data is an open cart with lines.
Offered(view) == view.status = "open" /\ view.items # NoItems

Awaited(op) == {x \in waiting : sent[x].op = op}

\* The cart data is replaced.  The lines it does not have unmount; the button
\* mounts, stays the component it is, or unmounts.
Show(view) ==
    /\ shown' = view
    /\ loadError' = FALSE
    /\ loose' = loose \cup
           {x \in Awaited("edit") : \A p \in Products :
               view.items[p] # None => view.items[p].id # sent[x].item}
    /\ IF ~ Offered(view) THEN button' = None
       ELSE IF button # None THEN UNCHANGED button
       ELSE \E k \in FreshKeys : button' = NewButton(k)

\* Faulty form: while a fetch is under way no other is begun.
RefetchUnlessLoading(c) ==
    /\ load' = IF load # None THEN load ELSE [cart |-> c, view |-> None]
    /\ loadError' = FALSE
    /\ UNCHANGED reloads

\* The effect runs again for cart c, and cancels its earlier fetch.
Refetch(c) ==
    /\ load' = [cart |-> c, view |-> None]
    /\ loadError' = FALSE
    /\ UNCHANGED reloads

LoadAnswered ==
    /\ load # None /\ load.view # None
    /\ Show(load.view)
    /\ load' = None
    /\ UNCHANGED <<service, network, cartId, reloads>>

ReloadAnswered ==
    /\ \E f \in reloads :
        /\ f.view # None
        /\ Show(f.view)
        /\ reloads' = reloads \ {f}
    /\ UNCHANGED <<service, network, cartId, load>>

Lose == losses < MaxLosses /\ losses' = losses + 1

\* A load fails: the data stays on the screen, under a banner.
LoadFails ==
    /\ Lose
    /\ \/ load # None /\ load' = None /\ UNCHANGED reloads
       \/ \E f \in reloads : reloads' = reloads \ {f} /\ UNCHANGED load
    /\ loadError' = TRUE
    /\ UNCHANGED <<service, sent, answer, waiting, cartId, shown, button,
                   loose>>

----------------------------------------------------------------------------
(* Clicks. *)

Quiet == waiting = {} /\ load = None /\ reloads = {}

Send(x, ask) ==
    /\ sent[x] = None
    /\ sent' = [sent EXCEPT ![x] = ask]
    /\ waiting' = waiting \cup {x}
    /\ UNCHANGED <<service, answer, losses>>

ClickCreate(x) ==
    /\ Awaited("create") = {}
    /\ \E c \in Carts : status[c] = "absent" \* bounds the model
    /\ Send(x, [op |-> "create"])
    /\ UNCHANGED page

\* For App's cart, whichever is on the screen.
ClickAdd(x) ==
    /\ cartId # None
    /\ \E p \in Products : \E n \in Quantities :
        /\ \A y \in Awaited("add") : sent[y].product # p
        /\ Send(x, [op |-> "add", cart |-> cartId, product |-> p,
                    quantity |-> n])
    /\ UNCHANGED page

\* The line is of the cart on the screen, the cart in the URL is App's.  Each
\* CartLine lets one call through at a time, and is none the wiser of one that
\* was made before it was mounted.
ClickEdit(x) ==
    /\ shown # None /\ shown.status = "open"
    /\ \E p \in Products : \E n \in Quantities \cup {0} :
        /\ shown.items[p] # None /\ n # shown.items[p].quantity
        /\ \A y \in Awaited("edit") \ loose :
               sent[y].item # shown.items[p].id
        /\ Send(x, [op |-> "edit", cart |-> cartId, item |-> shown.items[p].id,
                    quantity |-> n, seen |-> shown.cart])
    /\ UNCHANGED page

\* useAction lets one call of the button through at a time.
Loading == \E x \in Awaited("checkout") : sent[x].key = button.key

ClickCheckout(x) ==
    /\ button # None /\ ~ Loading
    /\ Send(x, [op |-> "checkout", cart |-> cartId, key |-> button.key])
    /\ button' = [button EXCEPT !.attempts = @ + 1, !.notice = "none"]
    /\ UNCHANGED <<cartId, shown, loadError, load, reloads, loose>>

\* ErrorBanner's cross on a failed load: reload() keeps no handle to cancel.
DismissLoadError ==
    /\ loadError
    /\ reloads' = reloads \cup
           {[cart |-> cartId, view |-> None, after |-> losses]}
    /\ loadError' = FALSE
    /\ UNCHANGED <<service, network, cartId, shown, load, button, loose>>

\* Its cross on a refused checkout; a network notice has none.
DismissNotice ==
    /\ button # None /\ button.notice = "error"
    /\ button' = [button EXCEPT !.notice = "none"]
    /\ UNCHANGED <<service, network, cartId, shown, loadError, load, reloads,
                   loose>>

----------------------------------------------------------------------------
(* Responses. *)

Receive(x, op, code) ==
    /\ x \in Awaited(op)
    /\ answer[x] # None /\ answer[x].code = code
    /\ waiting' = waiting \ {x}
    /\ UNCHANGED <<service, sent, answer, losses>>

CreateAnswered(x) ==
    /\ Receive(x, "create", "OK")
    /\ cartId' = answer[x].body
    /\ Refetch(answer[x].body)
    /\ UNCHANGED <<shown, button, loose>>

AddAnswered(x) ==
    /\ Receive(x, "add", "OK")
    /\ Refetch(cartId)
    /\ UNCHANGED <<cartId, shown, button, loose>>

\* The response's cart is put on the screen.
EditAnswered(x) ==
    /\ Receive(x, "edit", "OK")
    /\ Show(answer[x].body)
    /\ UNCHANGED <<cartId, load, reloads>>

\* The button that made call x is still mounted.
Mounted(x) == button # None /\ button.key = sent[x].key

\* Faulty form: the key is kept after a success.
KeyKeptAfterOrder(x) ==
    IF Mounted(x) THEN button' = NewButton(button.key) ELSE UNCHANGED button

\* The next checkout is a new attempt.
NewKeyAfterOrder(x) ==
    IF Mounted(x) THEN \E k \in FreshKeys : button' = NewButton(k)
    ELSE UNCHANGED button

\* onCheckedOut runs though the button may be gone.
CheckoutAnswered(x) ==
    /\ Receive(x, "checkout", "OK")
    /\ Refetch(cartId)
    /\ NewKeyAfterOrder(x)
    /\ UNCHANGED <<cartId, shown, loose>>

\* A failed checkout keeps its key and says so.
Notify(x, notice) ==
    /\ button' = IF sent[x].op = "checkout" /\ Mounted(x)
                 THEN [button EXCEPT !.notice = notice] ELSE button
    /\ UNCHANGED <<cartId, shown, loadError, load, reloads, loose>>

Refused(x) ==
    /\ \E op \in {"add", "edit", "checkout"} : Receive(x, op, "REFUSED")
    /\ Notify(x, "error")

\* No response: the request was not served, or not yet, or its answer is lost.
\* The notice is another when its body breaks off, or is a proxy's and no JSON.
CallFails(x) ==
    /\ x \in waiting
    /\ Lose
    /\ waiting' = waiting \ {x}
    /\ \E notice \in {"error", "network"} : Notify(x, notice)
    /\ UNCHANGED <<service, sent, answer>>

Click(x) == ClickCreate(x) \/ ClickAdd(x) \/ ClickEdit(x) \/ ClickCheckout(x)

Answered(x) ==
    \/ CreateAnswered(x) \/ AddAnswered(x) \/ EditAnswered(x)
    \/ CheckoutAnswered(x) \/ Refused(x) \/ CallFails(x)

\* A line edit or a reload, whose responses are shown whenever they come, is
\* under way together with anything else.
Crossing ==
    /\ Awaited("edit") # {} \/ reloads # {}
    /\ Cardinality(waiting) + Cardinality(reloads)
           + (IF load = None THEN 0 ELSE 1) > 1

\* All that the page ever sent has been served, and nothing is under way but one
\* fetch of App's cart, which has not been.
LoneFetch ==
    /\ waiting = {}
    /\ \A x \in Calls : sent[x] # None => answer[x] # None
    /\ \/ load = [cart |-> cartId, view |-> None] /\ reloads = {}
       \/ /\ load = None
          /\ \E f \in reloads :
                 reloads = {f} /\ f.cart = cartId /\ f.view = None

\* History: a request has failed or others have crossed, and no fetch has been
\* alone since.
Doubt ==
    unsure' = \/ Crossing'
              \/ (unsure \/ losses' # losses) /\ ~ LoneFetch'

Next ==
    /\ \/ \E x \in Calls : Click(x) \/ Serve(x) \/ Answered(x)
       \/ ServeLoad \/ ServeReload \/ LoadAnswered \/ ReloadAnswered
       \/ LoadFails \/ DismissLoadError \/ DismissNotice
    /\ Doubt

Spec == Init /\ [][Next]_vars

----------------------------------------------------------------------------
(* Correctness. *)

\* With nothing under way the screen shows the cart that App holds as the
\* service holds it, in whatever order adds, checkouts, new carts and the
\* loads they set off were answered.  Only a failed request, or a line edit or
\* reload that crossed another request, can leave an old view ("backend's fresh
\* cart - no refetch needed", Cart.tsx), and one fetch made alone mends it.
FreshWhenQuiet ==
    Quiet /\ ~ unsure /\ cartId # None => shown = View(cartId)

\* The button says "Checkout" when its key is new and "Retry" when it is not,
\* after any number of orders, refusals, remounts and lost answers: "a fresh
\* key is generated for each new checkout attempt".
LabelTellsRetry ==
    button # None =>
        (button.attempts > 0 <=>
            \E x \in Calls : /\ sent[x] # None /\ sent[x].op = "checkout"
                             /\ sent[x].key = button.key)

\* No line changes but of the cart on the screen, although the screen may show
\* another cart than the one the page sends the edit for.
EditsOnlyWhatIsShown ==
    \A x \in Calls :
        sent[x] # None /\ sent[x].op = "edit" /\ answer[x] # None
            /\ answer[x].code = "OK" => sent[x].cart = sent[x].seen

\* "Click Retry checkout - it reuses key ..., so you'll get the original order
\* back if so, never a duplicate": while the notice is up, with nothing under
\* way and App's cart on the screen, the order under the button's key is for
\* the cart that the next click will name.
RetryReturnsOrder ==
    (/\ Quiet /\ cartId # None /\ shown = View(cartId)
     /\ button # None /\ button.notice = "network"
     /\ orderUnder[button.key] # None)
        => sent[orderUnder[button.key]].cart = cartId

============================================================================
