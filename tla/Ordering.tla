------------------------------ MODULE Ordering ------------------------------
(***************************************************************************)
(* The carts and orders of one user: POST /tenant/cart, the two item       *)
(* routes, checkout and the status route of routes/tenant.ts, with the     *)
(* ORDER branch of StateMachineService.transition.                         *)
(*                                                                         *)
(* Each route is one READ COMMITTED transaction that reads, checks and     *)
(* writes by id, hence two steps: Begin... reads, the other one writes.    *)
(***************************************************************************)
EXTENDS Naturals, SequencesExt

CONSTANTS States, Terminal, Edges,   \* the registry of orders
          None,           \* SQL NULL
          Items,          \* catalog items
          Moq,            \* item -> its minimum order quantity
          MaxQty,         \* bound: quantities of a cart item
          Carts, Orders,  \* bounds: ids
          Reqs,           \* slots for concurrent requests
          MaxOverlaps     \* bound: requests that begin while another is open

Registry == INSTANCE StateMachine

ASSUME OrderingAssumption ==
  /\ {"PAYMENT_PENDING", "CONFIRMED", "FULFILLED", "CANCELLED"} \subseteq States
  /\ "PAYMENT_PENDING" \notin Terminal
  /\ Moq \in [Items -> Nat \ {0}] /\ MaxQty \in Nat /\ MaxOverlaps \in Nat
  /\ None \notin Carts \cup Orders \cup Items \cup States

VARIABLES cart,      \* cart id -> its row and items
          order,     \* order id -> its row, log rows and morgue rows
          tx,        \* slot -> the open request
          overlaps   \* history: how many requests began while another was open

vars == <<cart, order, tx, overlaps>>

Lines    == UNION {[part -> 1..MaxQty] : part \in SUBSET Items}
Cart     == [status: {"ACTIVE", "CHECKED_OUT"}, items: Lines]
LogRow   == [from: States \cup {None}, to: States]
Order    == [cart: Carts, lines: Lines, status: {"PAYMENT_PENDING", "PLACED", "CANCELLED"},
             log: Seq(LogRow), morgue: Seq(Terminal)]

(* A void request has lost the row it means to write.                        *)
Ops == {"createCart", "createItem", "updateItem", "deleteItem", "checkout", "setStatus", "void"}

(* lines: the items a checkout read; read: the place of the log row a status *)
(* change goes on from; buried: whether it found a morgue row.               *)
Request == [op: Ops, cart: Carts \cup {None}, item: Items \cup {None}, qty: 0..MaxQty,
            lines: Lines, order: Orders \cup {None}, to: States \cup {None},
            read: Nat, buried: BOOLEAN]

TypeOK ==
  /\ DOMAIN cart \subseteq Carts /\ cart \in [DOMAIN cart -> Cart]
  /\ DOMAIN order \subseteq Orders /\ order \in [DOMAIN order -> Order]
  /\ DOMAIN tx \subseteq Reqs /\ tx \in [DOMAIN tx -> Request]
  /\ overlaps \in 0..MaxOverlaps

Init == cart = << >> /\ order = << >> /\ tx = << >> /\ overlaps = 0

Blank(op) == [op |-> op, cart |-> None, item |-> None, qty |-> 0, lines |-> << >>,
              order |-> None, to |-> None, read |-> 0, buried |-> FALSE]

Begin(r, request) ==
  /\ r \notin DOMAIN tx
  /\ tx' = [x \in DOMAIN tx \cup {r} |-> IF x = r THEN request ELSE tx[x]]
  /\ IF DOMAIN tx = {} THEN UNCHANGED overlaps
     ELSE overlaps < MaxOverlaps /\ overlaps' = overlaps + 1
  /\ UNCHANGED <<cart, order>>

Open(r, op) == r \in DOMAIN tx /\ tx[r].op = op

End(r) == tx' = [x \in DOMAIN tx \ {r} |-> tx[x]] /\ UNCHANGED overlaps

Abort(r) == r \in DOMAIN tx /\ End(r) /\ UNCHANGED <<cart, order>>

Set(f, x, v) == [y \in DOMAIN f \cup {x} |-> IF y = x THEN v ELSE f[y]]

-----------------------------------------------------------------------------
Active   == {c \in DOMAIN cart : cart[c].status = "ACTIVE"}
NewCart  == [status |-> "ACTIVE", items |-> << >>]

(* Nothing to do when there is an active cart.  An item route that found     *)
(* none and whose quantity is below the minimum leaves an empty cart, too.   *)
BeginCreateCart(r) == Active = {} /\ Begin(r, Blank("createCart"))

CreateCart(r, c) ==
  /\ Open(r, "createCart") /\ c \notin DOMAIN cart
  /\ cart' = Set(cart, c, NewCart)
  /\ End(r) /\ UNCHANGED order

InCart(c, i) == IF c # None /\ i \in DOMAIN cart[c].items THEN cart[c].items[i] ELSE 0

(* Any of the active carts is found; without one, None is created with the   *)
(* item.  The quantities add up, and the minimum is held against the sum.    *)
BeginAddItem(r, i, qty) ==
  \E c \in IF Active = {} THEN {None} ELSE Active :
    LET sum == InCart(c, i) + qty IN
    /\ sum >= Moq[i] /\ sum <= MaxQty
    /\ Begin(r, [Blank(IF InCart(c, i) = 0 THEN "createItem" ELSE "updateItem")
                   EXCEPT !.cart = c, !.item = i, !.qty = sum])

CreateItem(r, c) ==
  LET row == IF tx[r].cart = None THEN NewCart ELSE cart[c] IN
  /\ Open(r, "createItem")
  /\ IF tx[r].cart = None THEN c \notin DOMAIN cart ELSE c = tx[r].cart
  /\ tx[r].item \notin DOMAIN row.items      \* UNIQUE (cart_id, catalog_item_id)
  /\ cart' = Set(cart, c, [row EXCEPT !.items = Set(@, tx[r].item, tx[r].qty)])
  /\ End(r) /\ UNCHANGED order

(* The item of an active cart; 0 removes it.  The minimum is not looked at.  *)
BeginPatchItem(r, c, i, qty) ==
  /\ c \in Active /\ i \in DOMAIN cart[c].items
  /\ Begin(r, [Blank(IF qty = 0 THEN "deleteItem" ELSE "updateItem")
                 EXCEPT !.cart = c, !.item = i, !.qty = qty])

UpdateItem(r) ==
  /\ Open(r, "updateItem")
  /\ cart' = [cart EXCEPT ![tx[r].cart].items[tx[r].item] = tx[r].qty]
  /\ End(r) /\ UNCHANGED order

OnRowOf(x, r) == /\ tx[x].op \in {"updateItem", "deleteItem"}
                 /\ tx[x].cart = tx[r].cart /\ tx[x].item = tx[r].item

(* Requests that read the row will not find it again: an item put back gets  *)
(* another row.                                                              *)
DeleteItem(r) ==
  /\ Open(r, "deleteItem")
  /\ cart' = [cart EXCEPT ![tx[r].cart].items =
                [i \in DOMAIN @ \ {tx[r].item} |-> @[i]]]
  /\ tx' = [x \in DOMAIN tx \ {r} |-> IF OnRowOf(x, r) THEN [tx[x] EXCEPT !.op = "void"] ELSE tx[x]]
  /\ UNCHANGED <<order, overlaps>>

-----------------------------------------------------------------------------
BeginCheckout(r, c) ==
  /\ c \in Active /\ cart[c].items # << >>
  /\ Begin(r, [Blank("checkout") EXCEPT !.cart = c, !.lines = cart[c].items])

NewOrder(r) == [cart |-> tx[r].cart, lines |-> tx[r].lines, status |-> "PAYMENT_PENDING",
                log |-> <<[from |-> None, to |-> "PAYMENT_PENDING"]>>, morgue |-> << >>]

CheckoutKeepingCart(r, o) ==
  /\ Open(r, "checkout") /\ o \notin DOMAIN order
  /\ order' = Set(order, o, NewOrder(r))
  /\ End(r) /\ UNCHANGED cart

(* The order with the items that were read, its first log row, and the cart, *)
(* by its id, checked out.                                                   *)
Checkout(r, o) ==
  /\ Open(r, "checkout") /\ o \notin DOMAIN order
  /\ order' = Set(order, o, NewOrder(r))
  /\ cart' = [cart EXCEPT ![tx[r].cart].status = "CHECKED_OUT"]
  /\ End(r)

Applied(from, to) ==
  Registry!Verdict([from |-> from, to |-> to, actor |-> "TENANT_ADMIN", user |-> "user",
                    admin |-> None, ai |-> "NO", level |-> 0, maker |-> None]) = "APPLIED"

(* Where the order is, is what its latest log row says.                      *)
BeginSetStatus(r, o, to) ==
  LET log == order[o].log IN
  /\ o \in DOMAIN order /\ Applied(Last(log).to, to)
  /\ Begin(r, [Blank("setStatus") EXCEPT !.order = o, !.to = to, !.read = Len(log),
                 !.buried = Contains(order[o].morgue, to)])

StatusIsState(state) == state

(* The status column knows PLACED for both CONFIRMED and FULFILLED.          *)
StatusOf(state) == IF state \in {"CONFIRMED", "FULFILLED"} THEN "PLACED" ELSE state

(* The log is ordered by the time of the inserts: a new row comes after the  *)
(* one it goes on from, not always after what others have committed since.   *)
Places(r) == tx[r].read + 1..Len(order[tx[r].order].log) + 1

Log(r, at) == LET log == order[tx[r].order].log IN
  InsertAt(log, at, [from |-> log[tx[r].read].to, to |-> tx[r].to])

EndInsert(r, at) ==
  /\ tx' = [x \in DOMAIN tx \ {r} |->
              IF tx[x].order = tx[r].order /\ tx[x].read >= at THEN [tx[x] EXCEPT !.read = @ + 1]
              ELSE tx[x]]
  /\ UNCHANGED <<cart, overlaps>>

SetStatusUnburied(r) ==
  /\ Open(r, "setStatus")
  /\ \E at \in Places(r) :
       /\ order' = [order EXCEPT ![tx[r].order] =
                      [@ EXCEPT !.log = Log(r, at), !.status = StatusOf(tx[r].to)]]
       /\ EndInsert(r, at)

SetStatusIfFinal(r) ==
  /\ Open(r, "setStatus")
  /\ \E at \in Places(r) :
       /\ order' = [order EXCEPT ![tx[r].order] =
                      [@ EXCEPT !.log = Log(r, at), !.status = IF tx[r].to \in Terminal THEN StatusOf(tx[r].to) ELSE @,
                                !.morgue = IF tx[r].to \in Terminal THEN Append(@, tx[r].to) ELSE @]]
       /\ EndInsert(r, at)

Changed(old, log, to, found) ==
  [old EXCEPT !.log = log, !.status = StatusOf(to),
              !.morgue = IF to \in Terminal /\ ~found THEN Append(@, to) ELSE @]

(* A final state gets a morgue row unless the request found one, when it     *)
(* read the log or later.                                                    *)
SetStatus(r) ==
  /\ Open(r, "setStatus")
  /\ \E at \in Places(r), found \in {tx[r].buried, Contains(order[tx[r].order].morgue, tx[r].to)} :
       /\ order' = [order EXCEPT ![tx[r].order] = Changed(@, Log(r, at), tx[r].to, found)]
       /\ EndInsert(r, at)

-----------------------------------------------------------------------------
Filling ==
  \E r \in Reqs :
    \/ BeginCreateCart(r)
    \/ \E i \in Items, qty \in 1..MaxQty : BeginAddItem(r, i, qty)
    \/ \E c \in Carts : CreateCart(r, c) \/ CreateItem(r, c)
    \/ \E c \in Carts, i \in Items, qty \in 0..MaxQty : BeginPatchItem(r, c, i, qty)
    \/ UpdateItem(r) \/ DeleteItem(r)

Selling ==
  \E r \in Reqs :
    \/ \E c \in Carts : BeginCheckout(r, c)
    \/ \E o \in Orders : Checkout(r, o)
    \/ \E o \in Orders, to \in {"CONFIRMED", "FULFILLED", "CANCELLED"} : BeginSetStatus(r, o, to)
    \/ SetStatus(r)

Next == Filling \/ Selling \/ \E r \in Reqs : Abort(r)

Spec == Init /\ [][Next]_vars

-----------------------------------------------------------------------------
(* As long as no two requests overlap, a cart is sold once and as it stands: *)
(* it is CHECKED_OUT exactly when there is an order for it, the only one,    *)
(* with its items, at least one; and there is one active cart at most.       *)
CartIsSoldOnce ==
  overlaps = 0 =>
    /\ \A c \in DOMAIN cart : cart[c].status = "CHECKED_OUT" <=> \E o \in DOMAIN order : order[o].cart = c
    /\ \A o, p \in DOMAIN order : order[o].cart = order[p].cart => o = p
    /\ \A o \in DOMAIN order : order[o].lines = cart[order[o].cart].items /\ order[o].lines # << >>
    /\ \A c, d \in Active : c = d

(* As long as no two requests overlap, an order's status column and morgue   *)
(* are what its latest log row says, and the log is one path of the registry.*)
OrderIsItsLog ==
  overlaps = 0 =>
    \A o \in DOMAIN order : LET log == order[o].log IN
      /\ order[o].status = StatusOf(Last(log).to)
      /\ order[o].morgue = IF Last(log).to \in Terminal THEN <<Last(log).to>> ELSE << >>
      /\ \A k \in 2..Len(log) : log[k].from = log[k - 1].to

(* Over every interleaving of status changes: the log of an order begins     *)
(* with its checkout, every other row takes an edge of the registry from the *)
(* state of a row before it, and the morgue has a row of exactly the final   *)
(* states in the log.                                                        *)
LedgersAgree ==
  \A o \in DOMAIN order : LET log == order[o].log IN
    /\ \A k \in 1..Len(log) :
         IF k = 1 THEN log[k] = [from |-> None, to |-> "PAYMENT_PENDING"]
         ELSE /\ \E e \in Edges : e.from = log[k].from /\ e.to = log[k].to
              /\ \E j \in 1..k - 1 : log[j].to = log[k].from
    /\ ToSet(order[o].morgue) = {log[k].to : k \in 1..Len(log)} \cap Terminal
=============================================================================
