--------------------------- MODULE Ordering_proofs ---------------------------
(***************************************************************************)
(* Carts and orders, for every registry of orders, any minimum quantities  *)
(* and any number of concurrent requests.                                  *)
(***************************************************************************)
EXTENDS Ordering, TLAPS

Targets == {"CONFIRMED", "FULFILLED", "CANCELLED"}

(* What the reads and checks of a request leave true until it writes,        *)
(* whatever commits in between: the log row a status change goes on from is  *)
(* still in the log, and a morgue row that was found is still there.         *)
Promise(q) ==
  /\ q.op = "createItem" => q.cart \in DOMAIN cart \cup {None}
  /\ q.op \in {"updateItem", "deleteItem", "checkout"} => q.cart \in DOMAIN cart
  /\ q.op \in {"createItem", "updateItem"} => q.item \in Items /\ q.qty \in 1..MaxQty
  /\ q.op = "setStatus" =>
       /\ q.order \in DOMAIN order /\ q.to \in Targets
       /\ q.read \in 1..Len(order[q.order].log)
       /\ \E e \in Edges : e.from = order[q.order].log[q.read].to /\ e.to = q.to
       /\ q.buried => q.to \in ToSet(order[q.order].morgue)

Promises == \A r \in DOMAIN tx : Promise(tx[r])

(* LedgersAgree, for one log and for one order.                              *)
Path(log) ==
  \A k \in 1..Len(log) :
    IF k = 1 THEN log[k] = [from |-> None, to |-> "PAYMENT_PENDING"]
    ELSE /\ \E e \in Edges : e.from = log[k].from /\ e.to = log[k].to
         /\ \E j \in 1..k - 1 : log[j].to = log[k].from

Visited(log) == {log[k].to : k \in 1..Len(log)}

Agrees(row) == Path(row.log) /\ ToSet(row.morgue) = Visited(row.log) \cap Terminal

AllAgree ==
  \A o \in DOMAIN order :
    order[o].cart \in DOMAIN cart /\ order[o].log # << >> /\ Agrees(order[o])

IInv == TypeOK /\ Promises /\ AllAgree

(* With one request at a time, what it read is still so when it writes.      *)
Read(q) ==
  /\ q.op = "createCart" => Active = {}
  /\ q.op = "createItem" => IF q.cart = None THEN Active = {} ELSE q.cart \in Active
  /\ q.op \in {"updateItem", "deleteItem", "checkout"} => q.cart \in Active
  /\ q.op = "checkout" => q.lines = cart[q.cart].items /\ q.lines # << >>
  /\ q.op = "setStatus" =>
       LET log == order[q.order].log IN
       /\ q.read = Len(log) /\ Last(log).to \notin Terminal
       /\ ~q.buried

(* The bodies of CartIsSoldOnce and OrderIsItsLog.                           *)
Sold ==
  /\ \A c \in DOMAIN cart : cart[c].status = "CHECKED_OUT" <=> \E o \in DOMAIN order : order[o].cart = c
  /\ \A o, p \in DOMAIN order : order[o].cart = order[p].cart => o = p
  /\ \A o \in DOMAIN order : order[o].lines = cart[order[o].cart].items /\ order[o].lines # << >>
  /\ \A c, d \in Active : c = d

IsItsLog(row) ==
  /\ row.status = StatusOf(Last(row.log).to)
  /\ row.morgue = IF Last(row.log).to \in Terminal THEN <<Last(row.log).to>> ELSE << >>
  /\ \A k \in 2..Len(row.log) : row.log[k].from = row.log[k - 1].to

Serial ==
  /\ \A x, y \in DOMAIN tx : x = y
  /\ \A r \in DOMAIN tx : Read(tx[r])
  /\ Sold
  /\ \A o \in DOMAIN order : IsItsLog(order[o])

SerialWhileAlone == overlaps = 0 => Serial

-----------------------------------------------------------------------------
(* The operators of the model.                                               *)
LEMMA SetParts ==
  ASSUME NEW f, NEW x, NEW v
  PROVE  /\ DOMAIN Set(f, x, v) = DOMAIN f \cup {x} /\ Set(f, x, v)[x] = v
         /\ \A y \in DOMAIN f \ {x} : Set(f, x, v)[y] = f[y]
BY DEF Set

LEMMA SetTyped ==
  ASSUME NEW T, NEW f, f \in [DOMAIN f -> T], NEW x, NEW v \in T
  PROVE  Set(f, x, v) \in [DOMAIN Set(f, x, v) -> T]
BY DEF Set

LEMMA InsertAtParts ==
  ASSUME NEW S, NEW s \in Seq(S), NEW at \in 1..Len(s) + 1, NEW e \in S
  PROVE  /\ InsertAt(s, at, e) \in Seq(S) /\ Len(InsertAt(s, at, e)) = Len(s) + 1
         /\ \A j \in 1..at - 1 : InsertAt(s, at, e)[j] = s[j]
         /\ InsertAt(s, at, e)[at] = e
         /\ \A j \in at..Len(s) : InsertAt(s, at, e)[j + 1] = s[j]
<1> DEFINE a == SubSeq(s, 1, at - 1)
           b == SubSeq(s, at, Len(s))
<1>1. /\ Len(s) \in Nat /\ at \in Nat
      /\ a \in Seq(S) /\ Len(a) = at - 1 /\ \A j \in 1..at - 1 : a[j] = s[j]
      /\ b \in Seq(S) /\ Len(b) = Len(s) - at + 1 /\ \A j \in 1..Len(b) : b[j] = s[at + j - 1]
  OBVIOUS
<1>2. <<e>> \in Seq(S) /\ Len(<<e>>) = 1 /\ <<e>>[1] = e
  OBVIOUS
<1>3. InsertAt(s, at, e) = (a \o <<e>>) \o b
  BY DEF InsertAt
<1> HIDE DEF a, b
<1> DEFINE c == a \o <<e>>
<1>4. /\ c \in Seq(S) /\ Len(c) = at /\ c[at] = e /\ \A j \in 1..at - 1 : c[j] = s[j]
  BY <1>1, <1>2
<1> HIDE DEF c
<1>5. /\ (c \o b) \in Seq(S) /\ Len(c \o b) = Len(s) + 1
      /\ \A j \in 1..at : (c \o b)[j] = c[j]
      /\ \A j \in 1..Len(b) : (c \o b)[at + j] = b[j]
  BY <1>1, <1>4
<1>6. ASSUME NEW j \in at..Len(s) PROVE (c \o b)[j + 1] = s[j]
  <2> DEFINE k == j - at + 1
  <2>1. k \in 1..Len(b) /\ at + k = j + 1 /\ at + k - 1 = j
    BY <1>1
  <2> HIDE DEF k
  <2>2. (c \o b)[at + k] = b[k] /\ b[k] = s[at + k - 1]
    BY <1>1, <1>5, <2>1
  <2> QED BY <2>1, <2>2
<1>7. InsertAt(s, at, e) = c \o b
  BY <1>3 DEF c
<1>8. \A j \in 1..at - 1 : (c \o b)[j] = s[j]
  <2> TAKE j \in 1..at - 1
  <2>1. j \in 1..at
    BY <1>1
  <2> QED BY <1>4, <1>5, <2>1
<1>9. (c \o b)[at] = e
  BY <1>1, <1>4, <1>5
<1> QED BY <1>5, <1>6, <1>7, <1>8, <1>9

LEMMA ContainsIsIn ==
  ASSUME NEW S, NEW s \in Seq(S), NEW x
  PROVE  Contains(s, x) <=> x \in ToSet(s)
BY DEF Contains, ToSet

LEMMA AppendedSet ==
  ASSUME NEW S, NEW s \in Seq(S), NEW x \in S
  PROVE  /\ Append(s, x) \in Seq(S) /\ ToSet(Append(s, x)) = ToSet(s) \cup {x}
<1>1. /\ Len(s) \in Nat /\ Len(Append(s, x)) = Len(s) + 1 /\ Append(s, x)[Len(s) + 1] = x
      /\ \A i \in 1..Len(s) : Append(s, x)[i] = s[i]
      /\ Append(s, x) \in Seq(S)
  OBVIOUS
<1>2. DOMAIN s = 1..Len(s) /\ DOMAIN Append(s, x) = 1..Len(s) + 1
  BY <1>1
<1> QED BY <1>1, <1>2 DEF ToSet

(* An insertion after the row it goes on from keeps a log a path.            *)
LEMMA InsertedPath ==
  ASSUME NEW log \in Seq(LogRow), Path(log), NEW read \in 1..Len(log),
         NEW at \in read + 1..Len(log) + 1, NEW e \in LogRow, e.from = log[read].to,
         \E d \in Edges : d.from = e.from /\ d.to = e.to,
         NEW log2, log2 = InsertAt(log, at, e)
  PROVE  Path(log2) /\ Visited(log2) = Visited(log) \cup {e.to}
<1>1. Len(log) \in Nat /\ read \in Nat /\ at \in 2..Len(log) + 1 /\ at \in 1..Len(log) + 1
  OBVIOUS
<1>4. /\ Len(log2) = Len(log) + 1
      /\ \A j \in 1..at - 1 : log2[j] = log[j]
      /\ log2[at] = e
      /\ \A j \in at..Len(log) : log2[j + 1] = log[j]
  <2>1. at \in 1..Len(log) + 1 => \A j \in 1..at - 1 : InsertAt(log, at, e)[j] = log[j]
    BY InsertAtParts, SMT
  <2>2. at \in 1..Len(log) + 1 => InsertAt(log, at, e)[at] = e /\ Len(InsertAt(log, at, e)) = Len(log) + 1
    BY InsertAtParts, SMT
  <2>3. at \in 1..Len(log) + 1 => \A j \in at..Len(log) : InsertAt(log, at, e)[j + 1] = log[j]
    BY InsertAtParts, SMT
  <2> QED BY <1>1, <2>1, <2>2, <2>3
<1>6. ASSUME NEW k \in 1..Len(log2)
      PROVE  IF k = 1 THEN log2[k] = [from |-> None, to |-> "PAYMENT_PENDING"]
             ELSE /\ \E d \in Edges : d.from = log2[k].from /\ d.to = log2[k].to
                  /\ \E j \in 1..k - 1 : log2[j].to = log2[k].from
  <2>1. CASE k < at
    <3>1. k \in 1..Len(log) /\ log2[k] = log[k] /\ \A i \in 1..k - 1 : log2[i] = log[i]
      BY <1>1, <1>4, <2>1
    <3>2. CASE k = 1
      BY <3>1, <3>2 DEF Path
    <3>3. CASE k # 1
      <4>1. /\ \E d \in Edges : d.from = log[k].from /\ d.to = log[k].to
            /\ \E j \in 1..k - 1 : log[j].to = log[k].from
        BY <3>1, <3>3 DEF Path
      <4>2. \E j \in 1..k - 1 : log2[j].to = log[k].from
        BY <3>1, <4>1
      <4> QED BY <3>1, <3>3, <4>1, <4>2
    <3> QED BY <3>2, <3>3
  <2>2. CASE k = at
    <3>1. read \in 1..k - 1 /\ read \in 1..at - 1 /\ k # 1
      BY <1>1, <2>2
    <3>2. log2[read] = log[read] /\ log2[k] = e
      BY <1>4, <2>2, <3>1
    <3> QED BY <3>1, <3>2
  <2>3. CASE k > at
    <3>1. /\ k - 1 \in at..Len(log) /\ k - 1 # 1 /\ k # 1 /\ k - 1 \in 1..Len(log)
          /\ (k - 1) + 1 = k
      BY <1>1, <1>4, <2>3
    <3>2. log2[k] = log[k - 1]
      BY <1>4, <3>1
    <3>3. PICK i \in 1..(k - 1) - 1 : log[i].to = log[k - 1].from
      BY <3>1 DEF Path
    <3>4. \E j \in 1..k - 1 : log2[j] = log[i]
      <4>1. CASE i < at
        <5>1. i \in 1..at - 1 /\ i \in 1..k - 1
          BY <1>1, <3>1, <4>1
        <5> QED BY <1>4, <5>1
      <4>2. CASE i >= at
        <5>1. i \in at..Len(log) /\ i + 1 \in 1..k - 1
          BY <1>1, <1>4, <3>1, <4>2
        <5> QED BY <1>4, <5>1
      <4> QED BY <1>1, <4>1, <4>2
    <3>5. \E d \in Edges : d.from = log[k - 1].from /\ d.to = log[k - 1].to
      BY <3>1 DEF Path
    <3>6. \E j \in 1..k - 1 : log2[j].to = log[k - 1].from
      BY <3>3, <3>4
    <3> QED BY <3>1, <3>2, <3>5, <3>6
  <2> QED BY <1>1, <1>4, <2>1, <2>2, <2>3
<1>7. Visited(log2) = Visited(log) \cup {e.to}
  <2>1. ASSUME NEW k \in 1..Len(log2)
        PROVE  log2[k] = e \/ \E j \in 1..Len(log) : log2[k] = log[j]
    <3>1. CASE k < at
      BY <1>1, <1>4, <3>1
    <3>2. CASE k > at
      <4>1. k - 1 \in at..Len(log) /\ k - 1 \in 1..Len(log) /\ (k - 1) + 1 = k
        BY <1>1, <1>4, <3>2
      <4>2. log2[k] = log[k - 1]
        BY <1>4, <4>1
      <4> QED BY <4>1, <4>2
    <3> QED BY <1>1, <1>4, <3>1, <3>2
  <2>2. ASSUME NEW j \in 1..Len(log)
        PROVE  \E k \in 1..Len(log2) : log2[k] = log[j]
    <3>1. CASE j < at
      <4>1. j \in 1..Len(log2) /\ log2[j] = log[j]
        BY <1>1, <1>4, <3>1
      <4> QED BY <4>1
    <3>2. CASE j >= at
      <4>1. j + 1 \in 1..Len(log2) /\ log2[j + 1] = log[j]
        BY <1>1, <1>4, <3>2
      <4> QED BY <4>1
    <3> QED BY <1>1, <3>1, <3>2
  <2>3. at \in 1..Len(log2) /\ log2[at] = e
    BY <1>1, <1>4
  <2>4. ASSUME NEW x \in Visited(log2) PROVE x \in Visited(log) \cup {e.to}
    BY <2>1, <2>4 DEF Visited
  <2>5. ASSUME NEW x \in Visited(log) PROVE x \in Visited(log2)
    BY <2>2, <2>5 DEF Visited
  <2>6. e.to \in Visited(log2)
    BY <2>3 DEF Visited
  <2> QED BY <2>4, <2>5, <2>6
<1> QED BY <1>6, <1>7 DEF Path

-----------------------------------------------------------------------------
(* Types.                                                                    *)
LEMMA LinesParts ==
  /\ \A items \in Lines : DOMAIN items \subseteq Items /\ items \in [DOMAIN items -> 1..MaxQty]
  /\ \A items : DOMAIN items \subseteq Items /\ items \in [DOMAIN items -> 1..MaxQty] => items \in Lines
BY DEF Lines

LEMMA EmptyLines == << >> \in Lines
<1>1. << >> \in [{} -> 1..MaxQty]
  OBVIOUS
<1> QED BY <1>1 DEF Lines

LEMMA NewCartTyped == NewCart \in Cart
BY EmptyLines DEF NewCart, Cart

LEMMA BlankParts ==
  ASSUME NEW op \in Ops
  PROVE  /\ Blank(op) \in Request /\ Blank(op).op = op /\ Blank(op).cart = None
         /\ Blank(op).order = None
BY EmptyLines, OrderingAssumption DEF Blank, Request

ForItem(op, c, i, qty) == [Blank(op) EXCEPT !.cart = c, !.item = i, !.qty = qty]

LEMMA ForItemParts ==
  ASSUME NEW op \in Ops, NEW c \in Carts \cup {None}, NEW i \in Items, NEW qty \in 0..MaxQty
  PROVE  LET q == ForItem(op, c, i, qty) IN
         q \in Request /\ q.op = op /\ q.cart = c /\ q.item = i /\ q.qty = qty
<1> DEFINE b == Blank(op)
<1>1. b \in Request /\ b.op = op
  BY BlankParts
<1> HIDE DEF b
<1>2. ForItem(op, c, i, qty) = [b EXCEPT !.cart = c, !.item = i, !.qty = qty]
  BY DEF b, ForItem
<1> QED BY <1>1, <1>2 DEF Request

LEMMA Opened ==
  ASSUME IInv, NEW r \in Reqs, NEW q \in Request, Promise(q), Begin(r, q)
  PROVE  IInv'
<1>1. /\ DOMAIN tx' = DOMAIN tx \cup {r} /\ UNCHANGED <<cart, order>>
      /\ \A x \in DOMAIN tx' : tx'[x] = IF x = r THEN q ELSE tx[x]
      /\ tx' \in [DOMAIN tx' -> Request]
  BY DEF Begin, IInv, TypeOK
<1>2. overlaps' \in 0..MaxOverlaps
  BY OrderingAssumption DEF Begin, IInv, TypeOK
<1>3. TypeOK'
  BY <1>1, <1>2 DEF IInv, TypeOK
<1>4. Promises'
  BY <1>1 DEF IInv, Promises, Promise
<1>5. AllAgree'
  BY <1>1 DEF IInv, AllAgree
<1> QED BY <1>3, <1>4, <1>5 DEF IInv

LEMMA Ended ==
  ASSUME TypeOK, NEW r \in DOMAIN tx, End(r)
  PROVE  /\ DOMAIN tx' = DOMAIN tx \ {r} /\ tx' \in [DOMAIN tx' -> Request]
         /\ \A x \in DOMAIN tx' : tx'[x] = tx[x]
         /\ overlaps' = overlaps
BY DEF TypeOK, End

(* A request that stays open, or loses its row, keeps its promise when carts *)
(* and orders are only added.                                                *)
LEMMA PromisesStay ==
  ASSUME IInv, DOMAIN tx' \subseteq DOMAIN tx,
         \A x \in DOMAIN tx' : tx'[x] = tx[x] \/ tx'[x].op = "void",
         DOMAIN cart \subseteq DOMAIN cart', DOMAIN order \subseteq DOMAIN order',
         \A o \in DOMAIN order : order'[o] = order[o]
  PROVE  Promises'
<1> SUFFICES ASSUME NEW x \in DOMAIN tx' PROVE Promise(tx[x])' \/ tx'[x].op = "void"
  BY DEF Promises, Promise
<1>1. Promise(tx[x])
  BY DEF IInv, Promises
<1>2. CASE tx'[x].op = "void"
  BY <1>2
<1>3. CASE tx'[x] = tx[x]
  BY <1>1, <1>3 DEF Promise
<1> QED BY <1>2, <1>3

(* One cart is written.                                                      *)
LEMMA CartWritten ==
  ASSUME IInv, NEW c \in Carts, NEW v \in Cart, cart' = Set(cart, c, v), UNCHANGED order,
         DOMAIN tx' \subseteq DOMAIN tx, tx' \in [DOMAIN tx' -> Request],
         \A x \in DOMAIN tx' : tx'[x] = tx[x] \/ tx'[x].op = "void",
         overlaps' = overlaps
  PROVE  IInv'
<1>1. cart' \in [DOMAIN cart' -> Cart] /\ DOMAIN cart' = DOMAIN cart \cup {c}
  BY SetParts, SetTyped DEF IInv, TypeOK
<1>2. TypeOK'
  BY <1>1 DEF IInv, TypeOK
<1>3. Promises'
  BY <1>1, PromisesStay
<1>4. AllAgree'
  BY <1>1 DEF IInv, AllAgree
<1> QED BY <1>2, <1>3, <1>4 DEF IInv

-----------------------------------------------------------------------------
(* Filling a cart.                                                           *)
LEMMA BeginCreateCartKeeps == ASSUME IInv, NEW r \in Reqs, BeginCreateCart(r) PROVE IInv'
<1> DEFINE q == Blank("createCart")
<1>1. Begin(r, q)
  BY DEF BeginCreateCart
<1>2. q \in Request /\ q.op = "createCart"
  BY BlankParts DEF Ops
<1> HIDE DEF q
<1>3. Promise(q)
  BY <1>2 DEF Promise
<1> HIDE DEF q
<1> QED BY <1>1, <1>2, <1>3, Opened

LEMMA BeginAddItemKeeps ==
  ASSUME IInv, NEW r \in Reqs, NEW i \in Items, NEW qty \in 1..MaxQty, BeginAddItem(r, i, qty)
  PROVE  IInv'
<1>1. PICK c \in IF Active = {} THEN {None} ELSE Active :
        LET sum == InCart(c, i) + qty IN
        /\ sum >= Moq[i] /\ sum <= MaxQty
        /\ Begin(r, [Blank(IF InCart(c, i) = 0 THEN "createItem" ELSE "updateItem")
                       EXCEPT !.cart = c, !.item = i, !.qty = sum])
  BY DEF BeginAddItem
<1>2. c \in DOMAIN cart \cup {None} /\ c \in Carts \cup {None} /\ (c = None => InCart(c, i) = 0)
  BY <1>1 DEF Active, InCart, IInv, TypeOK
<1>3. InCart(c, i) \in Nat
  <2>1. CASE c # None /\ i \in DOMAIN cart[c].items
    <3>1. cart[c].items \in Lines
      BY <1>2, <2>1 DEF IInv, TypeOK, Cart
    <3>2. cart[c].items[i] \in 1..MaxQty
      BY <2>1, <3>1, LinesParts
    <3> QED BY <2>1, <3>2, OrderingAssumption DEF InCart
  <2> QED BY <2>1 DEF InCart
<1> DEFINE sum == InCart(c, i) + qty
           op  == IF InCart(c, i) = 0 THEN "createItem" ELSE "updateItem"
           q   == ForItem(op, c, i, sum)
<1>4. sum \in 1..MaxQty /\ sum \in 0..MaxQty
  BY <1>1, <1>3, OrderingAssumption
<1>5. op \in {"createItem", "updateItem"} /\ (op = "updateItem" => c # None)
  BY <1>2
<1>6. Begin(r, q)
  BY <1>1 DEF ForItem
<1> HIDE DEF sum, op
<1>7. q \in Request /\ q.op = op /\ q.cart = c /\ q.item = i /\ q.qty = sum
  <2>1. op \in Ops
    BY <1>5 DEF Ops
  <2> QED BY <1>2, <1>4, <2>1, ForItemParts
<1> HIDE DEF q
<1>8. Promise(q)
  BY <1>2, <1>4, <1>5, <1>7 DEF Promise
<1> QED BY <1>6, <1>7, <1>8, Opened

LEMMA BeginPatchItemKeeps ==
  ASSUME IInv, NEW r \in Reqs, NEW c \in Carts, NEW i \in Items, NEW qty \in 0..MaxQty,
         BeginPatchItem(r, c, i, qty)
  PROVE  IInv'
<1> DEFINE op == IF qty = 0 THEN "deleteItem" ELSE "updateItem"
           q  == ForItem(op, c, i, qty)
<1>1. Begin(r, q) /\ c \in DOMAIN cart
  BY DEF BeginPatchItem, Active, ForItem
<1>2. op \in {"deleteItem", "updateItem"} /\ (op = "updateItem" => qty \in 1..MaxQty)
  BY OrderingAssumption
<1> HIDE DEF op
<1>3. q \in Request /\ q.op = op /\ q.cart = c /\ q.item = i /\ q.qty = qty
  <2>1. op \in Ops
    BY <1>2 DEF Ops
  <2> QED BY <2>1, ForItemParts
<1> HIDE DEF q
<1>4. Promise(q)
  BY <1>1, <1>2, <1>3 DEF Promise
<1> QED BY <1>1, <1>3, <1>4, Opened

LEMMA CreateCartKeeps ==
  ASSUME IInv, NEW r \in Reqs, NEW c \in Carts, CreateCart(r, c) PROVE IInv'
<1>1. r \in DOMAIN tx /\ End(r) /\ cart' = Set(cart, c, NewCart) /\ UNCHANGED order
  BY DEF CreateCart, Open
<1> QED BY <1>1, NewCartTyped, CartWritten, Ended DEF IInv

LEMMA CreateItemKeeps ==
  ASSUME IInv, NEW r \in Reqs, NEW c \in Carts, CreateItem(r, c) PROVE IInv'
<1> DEFINE row == IF tx[r].cart = None THEN NewCart ELSE cart[c]
           v   == [row EXCEPT !.items = Set(@, tx[r].item, tx[r].qty)]
<1>1. /\ r \in DOMAIN tx /\ End(r) /\ cart' = Set(cart, c, v) /\ UNCHANGED order
      /\ tx[r].cart # None => c = tx[r].cart
      /\ tx[r].op = "createItem"
  BY DEF CreateItem, Open
<1>2. Promise(tx[r])
  BY <1>1 DEF IInv, Promises
<1>3. row \in Cart
  BY <1>1, <1>2, NewCartTyped DEF Promise, IInv, TypeOK
<1>4. tx[r].item \in Items /\ tx[r].qty \in 1..MaxQty
  BY <1>1, <1>2 DEF Promise
<1> HIDE DEF row
<1>5. Set(row.items, tx[r].item, tx[r].qty) \in Lines
  <2>1. row.items \in Lines
    BY <1>3 DEF Cart
  <2>2. DOMAIN row.items \subseteq Items /\ row.items \in [DOMAIN row.items -> 1..MaxQty]
    BY <2>1, LinesParts
  <2> DEFINE new == Set(row.items, tx[r].item, tx[r].qty)
  <2>3. DOMAIN new \subseteq Items
    BY <1>4, <2>2 DEF Set
  <2>4. new \in [DOMAIN new -> 1..MaxQty]
    BY <1>4, <2>2, SetTyped
  <2> QED BY <2>3, <2>4, LinesParts
<1>6. v \in Cart
  BY <1>3, <1>5 DEF Cart
<1> HIDE DEF v
<1> QED BY <1>1, <1>6, CartWritten, Ended DEF IInv

LEMMA UpdateItemKeeps == ASSUME IInv, NEW r \in Reqs, UpdateItem(r) PROVE IInv'
<1> DEFINE c == tx[r].cart
           items == [cart[c].items EXCEPT ![tx[r].item] = tx[r].qty]
           v == [cart[c] EXCEPT !.items = items]
<1>1. r \in DOMAIN tx /\ End(r) /\ UNCHANGED order /\ tx[r].op = "updateItem"
  BY DEF UpdateItem, Open
<1>2. Promise(tx[r])
  BY <1>1 DEF IInv, Promises
<1>3. c \in DOMAIN cart /\ c \in Carts /\ cart[c] \in Cart /\ tx[r].qty \in 1..MaxQty
  BY <1>1, <1>2 DEF Promise, IInv, TypeOK
<1>4. items \in Lines
  <2>1. cart[c].items \in Lines
    BY <1>3 DEF Cart
  <2>2. /\ DOMAIN items = DOMAIN cart[c].items /\ DOMAIN items \subseteq Items
        /\ items \in [DOMAIN items -> 1..MaxQty]
    BY <1>3, <2>1, LinesParts
  <2> QED BY <2>2, LinesParts
<1>5. v \in Cart
  BY <1>3, <1>4 DEF Cart
<1>6. cart' = [cart EXCEPT ![c] = v]
  BY DEF UpdateItem
<1> HIDE DEF v, c
<1>7. cart' = Set(cart, c, v)
  BY <1>3, <1>6 DEF Set, IInv, TypeOK
<1> QED BY <1>1, <1>3, <1>5, <1>7, CartWritten, Ended DEF IInv

LEMMA DeleteItemKeeps == ASSUME IInv, NEW r \in Reqs, DeleteItem(r) PROVE IInv'
<1> DEFINE c == tx[r].cart
           old == cart[c].items
           items == [i \in DOMAIN old \ {tx[r].item} |-> old[i]]
           v == [cart[c] EXCEPT !.items = items]
<1>1. /\ r \in DOMAIN tx /\ tx[r].op = "deleteItem" /\ UNCHANGED <<order, overlaps>>
      /\ tx' = [x \in DOMAIN tx \ {r} |-> IF OnRowOf(x, r) THEN [tx[x] EXCEPT !.op = "void"] ELSE tx[x]]
  BY DEF DeleteItem, Open
<1>2. Promise(tx[r])
  BY <1>1 DEF IInv, Promises
<1>3. c \in DOMAIN cart /\ c \in Carts /\ cart[c] \in Cart
  BY <1>1, <1>2 DEF Promise, IInv, TypeOK
<1>4. items \in Lines
  <2>1. old \in Lines
    BY <1>3 DEF Cart
  <2>2. DOMAIN items \subseteq Items /\ items \in [DOMAIN items -> 1..MaxQty]
    BY <2>1, LinesParts
  <2> QED BY <2>2, LinesParts
<1>5. v \in Cart
  BY <1>3, <1>4 DEF Cart
<1>6. cart' = [cart EXCEPT ![c] = v]
  BY DEF DeleteItem
<1>7. [cart EXCEPT ![c] = v] = Set(cart, c, v)
  BY <1>3 DEF Set, IInv, TypeOK
<1>8. /\ DOMAIN tx' \subseteq DOMAIN tx
      /\ \A x \in DOMAIN tx' : tx'[x] = tx[x] \/ tx'[x] = [tx[x] EXCEPT !.op = "void"]
  BY <1>1
<1>9. \A x \in DOMAIN tx : [tx[x] EXCEPT !.op = "void"] \in Request /\ [tx[x] EXCEPT !.op = "void"].op = "void"
  BY DEF IInv, TypeOK, Request, Ops
<1>10. /\ tx' \in [DOMAIN tx' -> Request]
       /\ \A x \in DOMAIN tx' : tx'[x] = tx[x] \/ tx'[x].op = "void"
  <2>1. \A x \in DOMAIN tx' : tx'[x] \in Request
    BY <1>8, <1>9 DEF IInv, TypeOK
  <2>2. tx' = [x \in DOMAIN tx' |-> tx'[x]]
    BY <1>1, Zenon
  <2> QED BY <1>8, <1>9, <2>1, <2>2
<1>11. cart' = Set(cart, c, v) /\ overlaps' = overlaps /\ order' = order
  BY <1>1, <1>6, <1>7
<1> HIDE DEF v, c
<1> QED BY <1>3, <1>5, <1>8, <1>10, <1>11, CartWritten

-----------------------------------------------------------------------------
(* Selling it.                                                               *)
LEMMA BeginCheckoutKeeps ==
  ASSUME IInv, NEW r \in Reqs, NEW c \in Carts, BeginCheckout(r, c) PROVE IInv'
<1> DEFINE b == Blank("checkout")
           q == [b EXCEPT !.cart = c, !.lines = cart[c].items]
<1>1. Begin(r, q) /\ c \in DOMAIN cart
  BY DEF BeginCheckout, Active
<1>2. b \in Request /\ b.op = "checkout"
  BY BlankParts DEF Ops
<1>3. cart[c].items \in Lines
  BY <1>1 DEF IInv, TypeOK, Cart
<1> HIDE DEF b
<1>4. q \in Request /\ q.op = "checkout" /\ q.cart = c
  BY <1>2, <1>3 DEF Request
<1> HIDE DEF q
<1>5. Promise(q)
  BY <1>1, <1>4 DEF Promise
<1> QED BY <1>1, <1>4, <1>5, Opened

LEMMA FirstRow ==
  ASSUME NEW row, row = [from |-> None, to |-> "PAYMENT_PENDING"]
  PROVE  /\ <<row>> \in Seq(LogRow) /\ <<row>> # << >> /\ Path(<<row>>)
         /\ Visited(<<row>>) \cap Terminal = {} /\ Last(<<row>>) = row /\ Len(<<row>>) = 1
<1>1. row \in LogRow /\ row.to = "PAYMENT_PENDING"
  BY OrderingAssumption DEF LogRow
<1>2. <<row>> \in Seq(LogRow) /\ Len(<<row>>) = 1 /\ <<row>>[1] = row
  BY <1>1
<1>3. Path(<<row>>)
  BY <1>2 DEF Path
<1>4. \A x \in Visited(<<row>>) : x = "PAYMENT_PENDING"
  BY <1>1, <1>2 DEF Visited
<1>5. Last(<<row>>) = row
  BY <1>2 DEF Last
<1>6. <<row>> # << >>
  OBVIOUS
<1> QED BY <1>2, <1>3, <1>4, <1>5, <1>6, OrderingAssumption

LEMMA NewOrderParts ==
  ASSUME IInv, NEW r \in DOMAIN tx, tx[r].op = "checkout"
  PROVE  LET row == NewOrder(r) IN
         /\ row \in Order /\ row.cart = tx[r].cart /\ row.cart \in DOMAIN cart
         /\ row.lines = tx[r].lines /\ row.log # << >> /\ Agrees(row)
         /\ row.status = "PAYMENT_PENDING" /\ row.morgue = << >>
         /\ Len(row.log) = 1 /\ Last(row.log).to = "PAYMENT_PENDING"
<1> DEFINE first == [from |-> None, to |-> "PAYMENT_PENDING"]
           log   == <<first>>
           row   == NewOrder(r)
<1>1. /\ log \in Seq(LogRow) /\ log # << >> /\ Path(log) /\ Visited(log) \cap Terminal = {}
      /\ Last(log) = first /\ Len(log) = 1
  BY FirstRow
<1>2. tx[r].cart \in DOMAIN cart /\ tx[r].lines \in Lines /\ DOMAIN cart \subseteq Carts
  BY DEF IInv, TypeOK, Promises, Promise, Request
<1> HIDE DEF log
<1>3. row = [cart |-> tx[r].cart, lines |-> tx[r].lines, status |-> "PAYMENT_PENDING",
             log |-> log, morgue |-> << >>]
  BY DEF NewOrder, log
<1>4. /\ row.cart = tx[r].cart /\ row.lines = tx[r].lines /\ row.status = "PAYMENT_PENDING"
      /\ row.log = log /\ row.morgue = << >>
  BY <1>3
<1>5. << >> \in Seq(Terminal) /\ ToSet(<< >>) = {}
  BY DEF ToSet
<1>6. row \in Order
  BY <1>1, <1>2, <1>3, <1>5 DEF Order
<1> HIDE DEF row
<1>7. Agrees(row)
  BY <1>1, <1>4, <1>5 DEF Agrees
<1>8. Last(log).to = "PAYMENT_PENDING"
  BY <1>1
<1> QED BY <1>1, <1>2, <1>4, <1>6, <1>7, <1>8 DEF row

LEMMA CheckoutKeeps ==
  ASSUME IInv, NEW r \in Reqs, NEW o \in Orders, Checkout(r, o) PROVE IInv'
<1> DEFINE c == tx[r].cart
           v == [cart[c] EXCEPT !.status = "CHECKED_OUT"]
           row == NewOrder(r)
<1>1. /\ r \in DOMAIN tx /\ tx[r].op = "checkout" /\ End(r) /\ o \notin DOMAIN order
      /\ order' = Set(order, o, row) /\ cart' = [cart EXCEPT ![c] = v]
  BY DEF Checkout, Open
<1>2. row \in Order /\ row.cart \in DOMAIN cart /\ row.log # << >> /\ Agrees(row)
  BY <1>1, NewOrderParts
<1>3. c \in DOMAIN cart /\ cart[c] \in Cart
  BY <1>1 DEF IInv, TypeOK, Promises, Promise
<1>4. v \in Cart
  BY <1>3 DEF Cart
<1> HIDE DEF v, row, c
<1>5. cart' \in [DOMAIN cart' -> Cart] /\ DOMAIN cart' = DOMAIN cart
  BY <1>1, <1>4 DEF IInv, TypeOK
<1>6. /\ DOMAIN order' = DOMAIN order \cup {o} /\ order'[o] = row
      /\ \A p \in DOMAIN order : order'[p] = order[p]
  BY <1>1 DEF Set
<1>7. order' \in [DOMAIN order' -> Order]
  BY <1>1, <1>2, SetTyped DEF IInv, TypeOK
<1>8. TypeOK'
  BY <1>1, <1>5, <1>6, <1>7, Ended DEF IInv, TypeOK
<1>9. Promises'
  BY <1>1, <1>5, <1>6, PromisesStay, Ended DEF IInv
<1>10. AllAgree'
  BY <1>2, <1>5, <1>6 DEF IInv, AllAgree
<1> QED BY <1>8, <1>9, <1>10 DEF IInv

LEMMA AppliedParts ==
  ASSUME NEW from, NEW to, Applied(from, to)
  PROVE  from \notin Terminal /\ \E e \in Edges : e.from = from /\ e.to = to
BY DEF Applied, Registry!Verdict, Registry!Declared

LEMMA LastRow ==
  ASSUME NEW S, NEW s \in Seq(S), s # << >>
  PROVE  Len(s) \in 1..Len(s) /\ Last(s) = s[Len(s)]
BY DEF Last

LEMMA BeginSetStatusKeeps ==
  ASSUME IInv, NEW r \in Reqs, NEW o \in Orders, NEW to \in Targets, BeginSetStatus(r, o, to)
  PROVE  IInv'
<1> DEFINE b == Blank("setStatus")
           log == order[o].log
           buried == Contains(order[o].morgue, to)
           q == [b EXCEPT !.order = o, !.to = to, !.read = Len(log), !.buried = buried]
<1>1. Begin(r, q) /\ o \in DOMAIN order /\ Applied(Last(log).to, to)
  BY DEF BeginSetStatus
<1>2. b \in Request /\ b.op = "setStatus"
  BY BlankParts DEF Ops
<1>3. log \in Seq(LogRow) /\ log # << >> /\ order[o].morgue \in Seq(Terminal)
  BY <1>1 DEF IInv, TypeOK, AllAgree, Order
<1>4. to \in States /\ Len(log) \in Nat /\ buried \in BOOLEAN /\ (buried <=> to \in ToSet(order[o].morgue))
  BY <1>3, ContainsIsIn, OrderingAssumption DEF Targets, Contains
<1>5. Len(log) \in 1..Len(log) /\ Last(log) = log[Len(log)]
  BY <1>3, LastRow
<1>6. \E e \in Edges : e.from = Last(log).to /\ e.to = to
  BY <1>1, AppliedParts
<1> HIDE DEF b, buried
<1>7. /\ q \in Request /\ q.op = "setStatus" /\ q.order = o /\ q.to = to /\ q.read = Len(log)
      /\ q.buried = buried
  BY <1>2, <1>4 DEF Request
<1> HIDE DEF q
<1>8. Promise(q)
  BY <1>1, <1>4, <1>5, <1>6, <1>7 DEF Promise
<1> QED BY <1>1, <1>7, <1>8, Opened

(* The row a status change leaves.                                           *)
Inserted(old, read, at, to) == InsertAt(old.log, at, [from |-> old.log[read].to, to |-> to])

(* A change to state to that goes on from row read, with a new row at place  *)
(* at, and what it leaves.                                                   *)
Changeable(old, read, to, at, found) ==
  /\ old \in Order /\ Agrees(old) /\ old.log # << >>
  /\ read \in 1..Len(old.log) /\ to \in Targets
  /\ \E d \in Edges : d.from = old.log[read].to /\ d.to = to
  /\ at \in read + 1..Len(old.log) + 1
  /\ found \in BOOLEAN /\ (found => to \in ToSet(old.morgue))

IsChange(old, read, to, at, found, new) ==
  /\ new \in Order /\ new.cart = old.cart /\ new.lines = old.lines
  /\ new.log # << >> /\ Agrees(new)
  /\ new.status = StatusOf(to)
  /\ new.morgue = IF to \in Terminal /\ ~found THEN Append(old.morgue, to) ELSE old.morgue
  /\ ToSet(old.morgue) \subseteq ToSet(new.morgue)
  /\ Len(new.log) = Len(old.log) + 1
  /\ new.log[at] = [from |-> old.log[read].to, to |-> to]
  /\ \A j \in 1..at - 1 : new.log[j] = old.log[j]
  /\ \A j \in at..Len(old.log) : new.log[j + 1] = old.log[j]

LEMMA ChangedParts ==
  ASSUME NEW old, NEW read, NEW to, NEW at, NEW found, Changeable(old, read, to, at, found)
  PROVE  IsChange(old, read, to, at, found, Changed(old, Inserted(old, read, at, to), to, found))
<1> USE DEF Changeable
<1> DEFINE log == Inserted(old, read, at, to)
           new == Changed(old, log, to, found)
           e == [from |-> old.log[read].to, to |-> to]
           morgue == IF to \in Terminal /\ ~found THEN Append(old.morgue, to) ELSE old.morgue
<1>1. /\ old.log \in Seq(LogRow) /\ old.morgue \in Seq(Terminal) /\ Len(old.log) \in Nat
      /\ at \in 1..Len(old.log) + 1 /\ old.log[read] \in LogRow /\ to \in States
  BY OrderingAssumption DEF Order, Targets
<1>2. e \in LogRow /\ e.from = old.log[read].to /\ e.to = to
  BY <1>1 DEF LogRow
<1> HIDE DEF e
<1>3. log = InsertAt(old.log, at, e)
  BY DEF e, Inserted
<1> HIDE DEF log
<1>4. /\ log \in Seq(LogRow) /\ Len(log) = Len(old.log) + 1
      /\ \A j \in 1..at - 1 : log[j] = old.log[j]
      /\ log[at] = e
      /\ \A j \in at..Len(old.log) : log[j + 1] = old.log[j]
  <2> DEFINE s == old.log
  <2>1. s \in Seq(LogRow) /\ at \in 1..Len(s) + 1
    BY <1>1
  <2> HIDE DEF s
  <2>2. InsertAt(s, at, e) \in Seq(LogRow)
    BY <1>2, <2>1, InsertAtParts
  <2>3. \A j \in 1..at - 1 : InsertAt(s, at, e)[j] = s[j]
    BY <1>2, <2>1, InsertAtParts
  <2>4. InsertAt(s, at, e)[at] = e /\ Len(InsertAt(s, at, e)) = Len(s) + 1
    BY <1>2, <2>1, InsertAtParts, SMT
  <2>5. \A j \in at..Len(s) : InsertAt(s, at, e)[j + 1] = s[j]
    BY <1>2, <2>1, InsertAtParts
  <2> QED BY <1>3, <2>2, <2>3, <2>4, <2>5 DEF s
<1>5. Path(log) /\ Visited(log) = Visited(old.log) \cup {to}
  <2> DEFINE s == old.log
  <2>1. s \in Seq(LogRow) /\ Path(s) /\ read \in 1..Len(s) /\ at \in read + 1..Len(s) + 1
    BY <1>1 DEF Agrees
  <2>2. e.from = s[read].to /\ (\E d \in Edges : d.from = e.from /\ d.to = e.to) /\ log = InsertAt(s, at, e)
    BY <1>2, <1>3
  <2> HIDE DEF s
  <2>3. Path(log) /\ Visited(log) = Visited(s) \cup {e.to}
    BY <1>2, <2>1, <2>2, InsertedPath
  <2> QED BY <1>2, <2>3 DEF s
<1>6. morgue \in Seq(Terminal) /\ ToSet(morgue) = ToSet(old.morgue) \cup ({to} \cap Terminal)
  <2>1. CASE to \in Terminal /\ ~found
    BY <1>1, <2>1, AppendedSet
  <2>2. CASE to \notin Terminal \/ found
    BY <1>1, <2>2
  <2> QED BY <2>1, <2>2
<1>7. StatusOf(to) \in {"PLACED", "CANCELLED"}
  BY DEF StatusOf, Targets
<1>8. new = [old EXCEPT !.log = log, !.status = StatusOf(to), !.morgue = morgue]
  BY DEF Changed
<1> HIDE DEF morgue, new
<1>9. /\ new \in Order /\ new.cart = old.cart /\ new.lines = old.lines /\ new.log = log
      /\ new.status = StatusOf(to) /\ new.morgue = morgue
  BY <1>4, <1>6, <1>7, <1>8 DEF Order
<1>10. Agrees(new)
  BY <1>5, <1>6, <1>9 DEF Agrees
<1>11. log # << >> /\ at \in 1..Len(log)
  BY <1>1, <1>4
<1>12. IsChange(old, read, to, at, found, new)
  BY <1>4, <1>6, <1>9, <1>10, <1>11 DEF e, morgue, IsChange
<1> QED BY <1>12 DEF new, log

(* What SetStatus does: it goes on from row read of order o and leaves new.  *)
StatusChange(r, o, read, to, at, found, new) ==
  LET old == order[o] IN
  /\ r \in DOMAIN tx /\ tx[r].op = "setStatus" /\ tx[r].read = read
  /\ tx[r].order = o /\ o \in DOMAIN order /\ tx[r].to = to /\ to \in Targets
  /\ found \in {tx[r].buried, Contains(old.morgue, to)}
  /\ Len(old.log) \in Nat /\ read \in 1..Len(old.log) /\ at \in read + 1..Len(old.log) + 1
  /\ IsChange(old, read, to, at, found, new)
  /\ order' = [order EXCEPT ![o] = new]
  /\ EndInsert(r, at)

LEMMA SetStatusParts ==
  ASSUME IInv, NEW r \in Reqs, SetStatus(r)
  PROVE  \E o, read, to, at, found, new : StatusChange(r, o, read, to, at, found, new)
<1>1. PICK o, read, to : o = tx[r].order /\ read = tx[r].read /\ to = tx[r].to
  OBVIOUS
<1>2. PICK old : old = order[o]
  OBVIOUS
<1>3. r \in DOMAIN tx /\ tx[r].op = "setStatus"
  BY DEF SetStatus, Open
<1>4. Promise(tx[r])
  BY <1>3 DEF IInv, Promises
<1>5. /\ o \in DOMAIN order /\ old \in Order /\ Agrees(old) /\ old.log # << >>
      /\ read \in 1..Len(old.log) /\ to \in Targets
      /\ \E d \in Edges : d.from = old.log[read].to /\ d.to = to
      /\ tx[r].buried => to \in ToSet(old.morgue)
      /\ tx[r].buried \in BOOLEAN
  BY <1>1, <1>2, <1>3, <1>4 DEF Promise, IInv, AllAgree, TypeOK, Request
<1>6. Contains(old.morgue, to) <=> to \in ToSet(old.morgue)
  BY <1>5, ContainsIsIn DEF Order
<1>7. PICK at \in Places(r), found \in {tx[r].buried, Contains(old.morgue, to)} :
        /\ order' = [order EXCEPT ![o] = Changed(old, Log(r, at), to, found)]
        /\ EndInsert(r, at)
  BY <1>1, <1>2 DEF SetStatus
<1>8. found \in BOOLEAN /\ (found => to \in ToSet(old.morgue))
  BY <1>5, <1>6, <1>7 DEF Contains
<1>9. Log(r, at) = Inserted(old, read, at, to)
  BY <1>1, <1>2 DEF Log, Inserted
<1>10. at \in read + 1..Len(old.log) + 1 /\ Len(old.log) \in Nat
  BY <1>1, <1>2, <1>5, <1>7 DEF Places, Order
<1>11. PICK new : new = Changed(old, Inserted(old, read, at, to), to, found)
  OBVIOUS
<1>12. Changeable(old, read, to, at, found)
  BY <1>5, <1>8, <1>10 DEF Changeable
<1>13. IsChange(old, read, to, at, found, new)
  BY <1>11, <1>12, ChangedParts
<1>14. order' = [order EXCEPT ![o] = new] /\ EndInsert(r, at)
  BY <1>7, <1>9, <1>11
<1>15. StatusChange(r, o, read, to, at, found, new)
  BY <1>1, <1>2, <1>3, <1>5, <1>7, <1>10, <1>13, <1>14 DEF StatusChange
<1> QED BY <1>15

LEMMA SetStatusKeeps == ASSUME IInv, NEW r \in Reqs, SetStatus(r) PROVE IInv'
<1>1. PICK o, read, to, at, found, new : StatusChange(r, o, read, to, at, found, new)
  BY SetStatusParts
<1>2. PICK old : old = order[o]
  OBVIOUS
<1>3. /\ r \in DOMAIN tx /\ o \in DOMAIN order
      /\ Len(old.log) \in Nat /\ read \in 1..Len(old.log) /\ at \in read + 1..Len(old.log) + 1
      /\ new \in Order /\ new.cart = old.cart /\ new.log # << >> /\ Agrees(new)
      /\ ToSet(old.morgue) \subseteq ToSet(new.morgue)
      /\ Len(new.log) = Len(old.log) + 1
      /\ \A j \in 1..at - 1 : new.log[j] = old.log[j]
      /\ \A j \in at..Len(old.log) : new.log[j + 1] = old.log[j]
      /\ order' = [order EXCEPT ![o] = new]
  BY <1>1, <1>2 DEF StatusChange, IsChange
<1>4. /\ cart' = cart /\ overlaps' = overlaps
      /\ DOMAIN tx' = DOMAIN tx \ {r} /\ tx' = [x \in DOMAIN tx' |-> tx'[x]]
      /\ \A x \in DOMAIN tx' :
           tx'[x] = IF tx[x].order = o /\ tx[x].read >= at THEN [tx[x] EXCEPT !.read = tx[x].read + 1]
                    ELSE tx[x]
  BY <1>1 DEF StatusChange, EndInsert
<1>5. /\ order' \in [DOMAIN order' -> Order] /\ DOMAIN order' = DOMAIN order /\ order'[o] = new
      /\ \A p \in DOMAIN order \ {o} : order'[p] = order[p]
  BY <1>3 DEF IInv, TypeOK
<1>6. \A x \in DOMAIN tx : tx[x] \in Request /\ tx[x].read \in Nat
  BY DEF IInv, TypeOK, Request
<1>7. ASSUME NEW q \in Request, NEW p, p = [q EXCEPT !.read = q.read + 1]
      PROVE  /\ p \in Request /\ p.op = q.op /\ p.cart = q.cart /\ p.item = q.item
             /\ p.qty = q.qty /\ p.order = q.order /\ p.to = q.to
             /\ p.read = q.read + 1 /\ p.buried = q.buried
  BY <1>7 DEF Request
<1>8. tx' \in [DOMAIN tx' -> Request]
  <2>1. \A x \in DOMAIN tx' : tx'[x] \in Request
    BY <1>4, <1>6, <1>7
  <2> QED BY <1>4, <2>1
<1>9. TypeOK'
  BY <1>4, <1>5, <1>8 DEF IInv, TypeOK
<1>10. AllAgree'
  BY <1>2, <1>3, <1>4, <1>5 DEF IInv, AllAgree
<1>11. ASSUME NEW x \in DOMAIN tx' PROVE Promise(tx[x])'
  <2>1. PICK q : q = tx[x]
    OBVIOUS
  <2>2. PICK p : p = tx'[x]
    OBVIOUS
  <2>3. x \in DOMAIN tx /\ Promise(q) /\ q \in Request /\ q.read \in Nat
    BY <1>4, <1>6, <2>1 DEF IInv, Promises
  <2>4. p = IF q.order = o /\ q.read >= at THEN [q EXCEPT !.read = q.read + 1] ELSE q
    BY <1>4, <2>1, <2>2
  <2>5. /\ p.op = q.op /\ p.cart = q.cart /\ p.item = q.item
        /\ p.qty = q.qty /\ p.order = q.order /\ p.to = q.to /\ p.buried = q.buried
        /\ p.read = IF q.order = o /\ q.read >= at THEN q.read + 1 ELSE q.read
    BY <1>7, <2>3, <2>4
  <2>6. Promise(p)'
    <3>1. CASE p.op # "setStatus"
      BY <1>4, <2>3, <2>5, <3>1 DEF Promise
    <3>2. CASE p.op = "setStatus" /\ q.order # o
      BY <1>4, <1>5, <2>3, <2>5, <3>2 DEF Promise
    <3>3. CASE p.op = "setStatus" /\ q.order = o
      <4>1. /\ q.to \in Targets /\ q.read \in 1..Len(old.log)
            /\ \E e \in Edges : e.from = old.log[q.read].to /\ e.to = q.to
            /\ q.buried => q.to \in ToSet(old.morgue)
        BY <1>2, <2>3, <2>5, <3>3 DEF Promise
      <4>2. p.read \in 1..Len(new.log) /\ new.log[p.read] = old.log[q.read]
        <5>1. CASE q.read >= at
          <6>1. q.read \in at..Len(old.log) /\ p.read = q.read + 1 /\ p.read \in 1..Len(new.log)
            BY <1>3, <2>5, <3>3, <4>1, <5>1
          <6>2. new.log[q.read + 1] = old.log[q.read]
            BY <1>3, <6>1
          <6> QED BY <6>1, <6>2
        <5>2. CASE q.read < at
          <6>1. q.read \in 1..at - 1 /\ p.read = q.read /\ p.read \in 1..Len(new.log)
            BY <1>3, <2>5, <3>3, <4>1, <5>2
          <6>2. new.log[q.read] = old.log[q.read]
            BY <1>3, <6>1
          <6> QED BY <6>1, <6>2
        <5> QED BY <1>3, <2>3, <5>1, <5>2
      <4>3. p.order \in DOMAIN order' /\ order'[p.order] = new /\ p.order \in DOMAIN order
        BY <1>3, <1>5, <2>5, <3>3
      <4> QED BY <1>3, <2>5, <3>3, <4>1, <4>2, <4>3 DEF Promise
    <3> QED BY <3>1, <3>2, <3>3
  <2> QED BY <2>2, <2>6 DEF Promise
<1> QED BY <1>9, <1>10, <1>11 DEF IInv, Promises

LEMMA AbortKeeps == ASSUME IInv, NEW r \in Reqs, Abort(r) PROVE IInv'
<1>1. /\ UNCHANGED <<cart, order, overlaps>> /\ DOMAIN tx' \subseteq DOMAIN tx
      /\ tx' \in [DOMAIN tx' -> Request] /\ \A x \in DOMAIN tx' : tx'[x] = tx[x]
  BY Ended DEF Abort, IInv
<1>2. Promises'
  BY <1>1, PromisesStay
<1> QED BY <1>1, <1>2 DEF IInv, TypeOK, AllAgree

-----------------------------------------------------------------------------
LEMMA IInvInitially == Init => IInv
<1> SUFFICES ASSUME Init PROVE IInv
  OBVIOUS
<1>1. /\ DOMAIN cart = {} /\ cart \in [{} -> Cart] /\ DOMAIN order = {} /\ order \in [{} -> Order]
      /\ DOMAIN tx = {} /\ tx \in [{} -> Request]
  BY DEF Init
<1> QED BY <1>1, OrderingAssumption DEF Init, IInv, TypeOK, Promises, AllAgree

LEMMA IInvInductive == IInv /\ [Next]_vars => IInv'
<1> SUFFICES ASSUME IInv, [Next]_vars PROVE IInv'
  OBVIOUS
<1>1. CASE Filling
  BY <1>1, BeginCreateCartKeeps, BeginAddItemKeeps, BeginPatchItemKeeps, CreateCartKeeps,
     CreateItemKeeps, UpdateItemKeeps, DeleteItemKeeps DEF Filling
<1>2. CASE Selling
  BY <1>2, BeginCheckoutKeeps, CheckoutKeeps, BeginSetStatusKeeps, SetStatusKeeps
     DEF Selling, Targets
<1>3. CASE UNCHANGED vars
  BY <1>3 DEF vars, IInv, TypeOK, Promises, Promise, AllAgree
<1> QED BY <1>1, <1>2, <1>3, AbortKeeps DEF Next

(* Carts, orders and requests keep their types: an order names a cart, its   *)
(* quantities are positive, its log rows name registered states.             *)
THEOREM TypeCorrect == Spec => []TypeOK
<1>1. IInv => TypeOK
  BY DEF IInv
<1> QED BY <1>1, IInvInitially, IInvInductive, PTL DEF Spec

(* Over every interleaving of any number of status changes, an order's log   *)
(* begins with its checkout and takes only declared edges, each from a state *)
(* it was in before, and its morgue has exactly the final states of the log. *)
THEOREM LedgersHold == Spec => []LedgersAgree
<1>1. IInv => LedgersAgree
  BY DEF IInv, AllAgree, Agrees, Path, Visited, LedgersAgree
<1> QED BY <1>1, IInvInitially, IInvInductive, PTL DEF Spec

-----------------------------------------------------------------------------
(* One request at a time.                                                    *)
LEMMA BeginIsSerial ==
  ASSUME Serial, overlaps = 0, overlaps' = 0, NEW r, NEW q, Begin(r, q), Read(q)
  PROVE  Serial'
<1>1. DOMAIN tx' = {r} /\ tx'[r] = q /\ UNCHANGED <<cart, order>>
  BY DEF Begin
<1> QED BY <1>1 DEF Serial, Read, Sold, Active

LEMMA EndsAlone ==
  ASSUME Serial, NEW r \in DOMAIN tx, DOMAIN tx' = DOMAIN tx \ {r}
  PROVE  DOMAIN tx' = {}
BY DEF Serial

LEMMA BeginsAreSerial ==
  ASSUME IInv, Serial, overlaps = 0, overlaps' = 0, NEW r \in Reqs,
         \/ BeginCreateCart(r)
         \/ \E i \in Items, qty \in 1..MaxQty : BeginAddItem(r, i, qty)
         \/ \E c \in Carts, i \in Items, qty \in 0..MaxQty : BeginPatchItem(r, c, i, qty)
         \/ \E c \in Carts : BeginCheckout(r, c)
         \/ \E o \in Orders, to \in Targets : BeginSetStatus(r, o, to)
  PROVE  Serial'
<1>1. ASSUME BeginCreateCart(r) PROVE \E q : Begin(r, q) /\ Read(q)
  <2>1. PICK q : q = Blank("createCart")
    OBVIOUS
  <2>2. Begin(r, q) /\ Active = {} /\ q.op = "createCart"
    BY <1>1, <2>1 DEF BeginCreateCart, Blank
  <2> QED BY <2>2 DEF Read
<1>2. ASSUME NEW i \in Items, NEW qty \in 1..MaxQty, BeginAddItem(r, i, qty)
      PROVE  \E q : Begin(r, q) /\ Read(q)
  <2>1. PICK c \in IF Active = {} THEN {None} ELSE Active :
          \E op, sum :
            /\ op \in {"createItem", "updateItem"} /\ (op = "updateItem" => InCart(c, i) # 0)
            /\ Begin(r, ForItem(op, c, i, sum))
    BY <1>2 DEF BeginAddItem, ForItem
  <2>2. PICK op, sum : /\ op \in {"createItem", "updateItem"} /\ (op = "updateItem" => InCart(c, i) # 0)
                       /\ Begin(r, ForItem(op, c, i, sum))
    BY <2>1
  <2>3. PICK q : q = ForItem(op, c, i, sum)
    OBVIOUS
  <2>4. q.op = op /\ q.cart = c
    BY <2>3 DEF ForItem, Blank
  <2>5. op = "updateItem" => c # None
    BY <2>2 DEF InCart
  <2>6. c = None => Active = {}
    BY <2>1, OrderingAssumption DEF Active, IInv, TypeOK
  <2>7. Read(q)
    BY <2>1, <2>2, <2>4, <2>5, <2>6 DEF Read
  <2> QED BY <2>2, <2>3, <2>7
<1>3. ASSUME NEW c \in Carts, NEW i \in Items, NEW qty \in 0..MaxQty, BeginPatchItem(r, c, i, qty)
      PROVE  \E q : Begin(r, q) /\ Read(q)
  <2>1. PICK op : op \in {"deleteItem", "updateItem"} /\ Begin(r, ForItem(op, c, i, qty))
    BY <1>3 DEF BeginPatchItem, ForItem
  <2>2. PICK q : q = ForItem(op, c, i, qty)
    OBVIOUS
  <2>3. q.op = op /\ q.cart = c /\ c \in Active
    BY <1>3, <2>2 DEF ForItem, Blank, BeginPatchItem
  <2>4. Read(q)
    BY <2>1, <2>3 DEF Read
  <2> QED BY <2>1, <2>2, <2>4
<1>4. ASSUME NEW c \in Carts, BeginCheckout(r, c) PROVE \E q : Begin(r, q) /\ Read(q)
  <2>1. PICK q : q = [Blank("checkout") EXCEPT !.cart = c, !.lines = cart[c].items]
    OBVIOUS
  <2>2. q.op = "checkout" /\ q.cart = c /\ q.lines = cart[c].items
    BY <2>1 DEF Blank
  <2>3. Begin(r, q) /\ c \in Active /\ cart[c].items # << >>
    BY <1>4, <2>1 DEF BeginCheckout
  <2>4. Read(q)
    BY <2>2, <2>3 DEF Read
  <2> QED BY <2>3, <2>4
<1>5. ASSUME NEW o \in Orders, NEW to \in Targets, BeginSetStatus(r, o, to)
      PROVE  \E q : Begin(r, q) /\ Read(q)
  <2>1. PICK row : row = order[o]
    OBVIOUS
  <2>2. PICK q : q = [Blank("setStatus") EXCEPT !.order = o, !.to = to, !.read = Len(row.log),
                        !.buried = Contains(row.morgue, to)]
    OBVIOUS
  <2>3. /\ q.op = "setStatus" /\ q.order = o /\ q.read = Len(row.log)
        /\ q.buried = Contains(row.morgue, to)
    BY <2>2 DEF Blank
  <2>4. Begin(r, q) /\ o \in DOMAIN order /\ Applied(Last(row.log).to, to)
    BY <1>5, <2>1, <2>2 DEF BeginSetStatus
  <2>5. Last(row.log).to \notin Terminal
    BY <2>4, AppliedParts
  <2>6. row.morgue = << >>
    BY <2>1, <2>4, <2>5 DEF Serial, IsItsLog
  <2>7. ~Contains(row.morgue, to)
    BY <2>6 DEF Contains
  <2>8. Read(q)
    BY <2>1, <2>3, <2>5, <2>7 DEF Read
  <2> QED BY <2>4, <2>8
<1>6. \E q : Begin(r, q) /\ Read(q)
  BY <1>1, <1>2, <1>3, <1>4, <1>5
<1> QED BY <1>6, BeginIsSerial

(* The cart being filled is the active one, or the first.                    *)
LEMMA FilledIsSerial ==
  ASSUME IInv, Serial, NEW c, NEW v, v.status = "ACTIVE",
         c \in Active \/ (c \notin DOMAIN cart /\ Active = {}),
         cart' = Set(cart, c, v), UNCHANGED order,
         NEW r \in DOMAIN tx, DOMAIN tx' = DOMAIN tx \ {r}
  PROVE  Serial'
<1>1. DOMAIN tx' = {}
  BY EndsAlone
<1>2. /\ DOMAIN cart' = DOMAIN cart \cup {c} /\ cart'[c] = v
      /\ \A d \in DOMAIN cart \ {c} : cart'[d] = cart[d]
  BY DEF Set
<1>3. \A o \in DOMAIN order : order[o].cart \in DOMAIN cart /\ order[o].cart # c
  BY DEF IInv, AllAgree, Serial, Sold, Active
<1>4. Sold'
  <2>1. \A d \in Active' : d = c
    BY <1>2 DEF Serial, Sold, Active
  <2>2. \A d \in DOMAIN cart' : cart'[d].status = "CHECKED_OUT" <=> \E o \in DOMAIN order' : order'[o].cart = d
    BY <1>2, <1>3 DEF Serial, Sold
  <2>3. \A o \in DOMAIN order' : order'[o].lines = cart'[order'[o].cart].items /\ order'[o].lines # << >>
    BY <1>2, <1>3 DEF Serial, Sold
  <2>4. \A o, p \in DOMAIN order' : order'[o].cart = order'[p].cart => o = p
    BY DEF Serial, Sold
  <2> QED BY <2>1, <2>2, <2>3, <2>4 DEF Sold
<1>5. \A o \in DOMAIN order' : IsItsLog(order'[o])
  BY DEF Serial
<1> QED BY <1>1, <1>4, <1>5 DEF Serial

LEMMA FillingIsSerial ==
  ASSUME IInv, Serial, NEW r \in Reqs,
         \/ \E c \in Carts : CreateCart(r, c) \/ CreateItem(r, c)
         \/ UpdateItem(r) \/ DeleteItem(r)
  PROVE  Serial'
<1>0. r \in DOMAIN tx /\ Read(tx[r]) /\ DOMAIN tx' = DOMAIN tx \ {r} /\ UNCHANGED order
  BY DEF CreateCart, CreateItem, UpdateItem, DeleteItem, Open, End, Serial
<1>1. ASSUME NEW c \in Carts, CreateCart(r, c) PROVE Serial'
  <2>1. c \notin DOMAIN cart /\ Active = {} /\ cart' = Set(cart, c, NewCart) /\ NewCart.status = "ACTIVE"
    BY <1>0, <1>1 DEF CreateCart, Open, Read, NewCart
  <2> QED BY <1>0, <2>1, FilledIsSerial
<1>2. ASSUME NEW c \in Carts, CreateItem(r, c) PROVE Serial'
  <2>1. PICK row : row = IF tx[r].cart = None THEN NewCart ELSE cart[c]
    OBVIOUS
  <2>2. PICK v : v = [row EXCEPT !.items = Set(row.items, tx[r].item, tx[r].qty)]
    OBVIOUS
  <2>3. /\ cart' = Set(cart, c, v) /\ tx[r].op = "createItem"
        /\ IF tx[r].cart = None THEN c \notin DOMAIN cart ELSE c = tx[r].cart
    BY <1>2, <2>1, <2>2 DEF CreateItem, Open
  <2>4. c \in Active \/ (c \notin DOMAIN cart /\ Active = {})
    BY <1>0, <2>3 DEF Read
  <2>5. row.status = "ACTIVE"
    BY <1>0, <2>1, <2>3 DEF Read, Active, NewCart
  <2>6. v.status = "ACTIVE"
    <3>1. CASE tx[r].cart = None
      BY <2>1, <2>2, <3>1 DEF NewCart
    <3>2. CASE tx[r].cart # None
      <4>1. c \in DOMAIN cart /\ row = cart[c]
        BY <1>0, <2>1, <2>3, <3>2 DEF Read, Active
      <4>2. row \in Cart
        BY <4>1 DEF IInv, TypeOK
      <4> QED BY <2>2, <2>5, <4>2 DEF Cart
    <3> QED BY <3>1, <3>2
  <2> QED BY <1>0, <2>3, <2>4, <2>6, FilledIsSerial
<1>3. ASSUME NEW c, NEW items, NEW v, c = tx[r].cart, v = [cart[c] EXCEPT !.items = items],
             cart' = [cart EXCEPT ![c] = v], tx[r].op \in {"updateItem", "deleteItem"}
      PROVE  Serial'
  <2>1. c \in Active /\ c \in DOMAIN cart /\ cart[c].status = "ACTIVE" /\ cart[c] \in Cart
    BY <1>0, <1>3 DEF Read, Active, IInv, TypeOK
  <2>2. v.status = "ACTIVE"
    BY <1>3, <2>1 DEF Cart
  <2>3. cart' = Set(cart, c, v)
    BY <1>3, <2>1 DEF Set, IInv, TypeOK
  <2> QED BY <1>0, <2>1, <2>2, <2>3, FilledIsSerial
<1>4. ASSUME UpdateItem(r) PROVE Serial'
  <2>1. PICK c : c = tx[r].cart
    OBVIOUS
  <2>2. PICK items : items = [cart[c].items EXCEPT ![tx[r].item] = tx[r].qty]
    OBVIOUS
  <2>3. cart' = [cart EXCEPT ![c] = [cart[c] EXCEPT !.items = items]] /\ tx[r].op = "updateItem"
    BY <1>4, <2>1, <2>2 DEF UpdateItem, Open
  <2> QED BY <1>3, <2>1, <2>3
<1>5. ASSUME DeleteItem(r) PROVE Serial'
  <2>1. PICK c : c = tx[r].cart
    OBVIOUS
  <2>2. PICK items : items = [i \in DOMAIN cart[c].items \ {tx[r].item} |-> cart[c].items[i]]
    OBVIOUS
  <2>3. cart' = [cart EXCEPT ![c] = [cart[c] EXCEPT !.items = items]] /\ tx[r].op = "deleteItem"
    BY <1>5, <2>1, <2>2 DEF DeleteItem, Open
  <2> QED BY <1>3, <2>1, <2>3
<1> QED BY <1>1, <1>2, <1>4, <1>5

LEMMA CheckoutIsSerial ==
  ASSUME IInv, Serial, NEW r \in Reqs, NEW o \in Orders, Checkout(r, o)
  PROVE  Serial'
<1>1. PICK c, row, v : c = tx[r].cart /\ row = NewOrder(r) /\ v = [cart[c] EXCEPT !.status = "CHECKED_OUT"]
  OBVIOUS
<1>2. /\ r \in DOMAIN tx /\ tx[r].op = "checkout" /\ End(r) /\ o \notin DOMAIN order
      /\ order' = Set(order, o, row) /\ cart' = [cart EXCEPT ![c] = v]
  BY <1>1 DEF Checkout, Open
<1>3. /\ row.cart = c /\ row.lines = tx[r].lines
      /\ row.status = "PAYMENT_PENDING" /\ row.morgue = << >>
      /\ Len(row.log) = 1 /\ Last(row.log).to = "PAYMENT_PENDING"
  BY <1>1, <1>2, NewOrderParts
<1>4. c \in Active /\ c \in DOMAIN cart /\ row.lines = cart[c].items /\ row.lines # << >>
  BY <1>1, <1>2, <1>3 DEF Serial, Read, Active
<1>5. cart[c] \in Cart /\ cart[c].status = "ACTIVE"
  BY <1>4 DEF Active, IInv, TypeOK
<1>6. v.status = "CHECKED_OUT" /\ v.items = cart[c].items
  BY <1>1, <1>5 DEF Cart
<1>7. /\ DOMAIN cart' = DOMAIN cart /\ cart'[c] = v
      /\ \A d \in DOMAIN cart \ {c} : cart'[d] = cart[d]
  BY <1>2, <1>4
<1>8. /\ DOMAIN order' = DOMAIN order \cup {o} /\ order'[o] = row
      /\ \A p \in DOMAIN order : order'[p] = order[p]
  BY <1>2 DEF Set
<1>9. \A p \in DOMAIN order : order[p].cart \in DOMAIN cart /\ order[p].cart # c
  BY <1>5 DEF IInv, AllAgree, Serial, Sold
<1>10. DOMAIN tx' = {}
  BY <1>2, EndsAlone DEF End
<1>11. Sold'
  <2>1. \A d \in DOMAIN cart' : cart'[d].status = "CHECKED_OUT" <=> \E p \in DOMAIN order' : order'[p].cart = d
    <3> SUFFICES ASSUME NEW d \in DOMAIN cart
                 PROVE  cart'[d].status = "CHECKED_OUT" <=> \E p \in DOMAIN order' : order'[p].cart = d
      BY <1>7
    <3>1. CASE d = c
      BY <1>3, <1>6, <1>7, <1>8, <3>1
    <3>2. CASE d # c
      <4>1. cart'[d] = cart[d]
        BY <1>7, <3>2
      <4>2. (\E p \in DOMAIN order' : order'[p].cart = d) <=> \E p \in DOMAIN order : order[p].cart = d
        BY <1>3, <1>8, <3>2
      <4> QED BY <4>1, <4>2 DEF Serial, Sold
    <3> QED BY <3>1, <3>2
  <2>2. \A p, q \in DOMAIN order' : order'[p].cart = order'[q].cart => p = q
    BY <1>3, <1>8, <1>9 DEF Serial, Sold
  <2>3. \A p \in DOMAIN order' : order'[p].lines = cart'[order'[p].cart].items /\ order'[p].lines # << >>
    BY <1>3, <1>4, <1>6, <1>7, <1>8, <1>9 DEF Serial, Sold
  <2>4. \A d, e \in Active' : d = e
    BY <1>6, <1>7 DEF Serial, Sold, Active
  <2> QED BY <2>1, <2>2, <2>3, <2>4 DEF Sold
<1>12. IsItsLog(row)
  <2>1. row.status = StatusOf(Last(row.log).to)
    BY <1>3 DEF StatusOf
  <2>2. row.morgue = IF Last(row.log).to \in Terminal THEN <<Last(row.log).to>> ELSE << >>
    BY <1>3, OrderingAssumption
  <2>3. \A k \in 2..Len(row.log) : row.log[k].from = row.log[k - 1].to
    BY <1>3
  <2> QED BY <2>1, <2>2, <2>3 DEF IsItsLog
<1>13. \A p \in DOMAIN order' : IsItsLog(order'[p])
  BY <1>8, <1>12 DEF Serial
<1> QED BY <1>10, <1>11, <1>13 DEF Serial

LEMMA SetStatusIsSerial ==
  ASSUME IInv, Serial, NEW r \in Reqs, SetStatus(r) PROVE Serial'
<1>1. PICK o, read, to, at, found, new : StatusChange(r, o, read, to, at, found, new)
  BY SetStatusParts
<1>2. PICK old, q : old = order[o] /\ q = tx[r]
  OBVIOUS
<1>3. /\ r \in DOMAIN tx /\ q.op = "setStatus" /\ q.order = o /\ q.read = read /\ q.to = to
      /\ o \in DOMAIN order /\ Len(old.log) \in Nat /\ read \in 1..Len(old.log)
      /\ at \in read + 1..Len(old.log) + 1
      /\ found \in {q.buried, Contains(old.morgue, to)}
      /\ order' = [order EXCEPT ![o] = new] /\ EndInsert(r, at)
      /\ IsChange(old, read, to, at, found, new)
  BY <1>1, <1>2 DEF StatusChange
<1>4. Read(q) /\ IsItsLog(old) /\ old \in Order
  BY <1>2, <1>3 DEF Serial, IInv, TypeOK
<1>5. read = Len(old.log) /\ Last(old.log).to \notin Terminal /\ ~q.buried
  BY <1>2, <1>3, <1>4 DEF Read
<1>6. old.morgue = << >>
  BY <1>4, <1>5 DEF IsItsLog
<1>7. ~found
  <2>1. ~Contains(old.morgue, to)
    BY <1>6 DEF Contains
  <2>2. found = q.buried \/ found = Contains(old.morgue, to)
    BY <1>3
  <2> QED BY <1>5, <2>1, <2>2, Zenon
<1>8. at = Len(old.log) + 1
  BY <1>3, <1>5
<1>9. /\ new.cart = old.cart /\ new.lines = old.lines /\ new.status = StatusOf(to)
      /\ new.morgue = IF to \in Terminal THEN Append(old.morgue, to) ELSE old.morgue
      /\ Len(new.log) = at /\ new.log[at] = [from |-> old.log[read].to, to |-> to]
      /\ \A j \in 1..at - 1 : new.log[j] = old.log[j]
      /\ new.log \in Seq(LogRow) /\ new.log # << >>
  BY <1>3, <1>7, <1>8 DEF IsChange, Order
<1>10. Last(new.log) = new.log[at] /\ Last(new.log).to = to
  BY <1>9, LastRow
<1>11. IsItsLog(new)
  <2>1. new.morgue = IF to \in Terminal THEN <<to>> ELSE << >>
    BY <1>6, <1>9
  <2>2. ASSUME NEW k \in 2..Len(new.log) PROVE new.log[k].from = new.log[k - 1].to
    <3>1. CASE k = at
      <4>1. new.log[k].from = old.log[read].to /\ k - 1 = read /\ read \in 1..at - 1
        BY <1>3, <1>5, <1>8, <1>9, <3>1
      <4>2. new.log[read] = old.log[read]
        BY <1>9, <4>1
      <4> QED BY <4>1, <4>2
    <3>2. CASE k < at
      <4>1. k \in 2..Len(old.log) /\ k \in 1..at - 1 /\ k - 1 \in 1..at - 1
        BY <1>3, <1>8, <1>9, <3>2
      <4>2. new.log[k] = old.log[k] /\ new.log[k - 1] = old.log[k - 1]
        BY <1>9, <4>1
      <4> QED BY <1>4, <4>1, <4>2 DEF IsItsLog
    <3> QED BY <1>3, <1>8, <1>9, <3>1, <3>2
  <2> QED BY <1>9, <1>10, <2>1, <2>2 DEF IsItsLog
<1>12. /\ DOMAIN order' = DOMAIN order /\ order'[o] = new
       /\ \A p \in DOMAIN order \ {o} : order'[p] = order[p]
       /\ cart' = cart /\ DOMAIN tx' = DOMAIN tx \ {r}
  BY <1>3 DEF EndInsert
<1>13. DOMAIN tx' = {}
  BY <1>3, <1>12, EndsAlone
<1>14. \A p \in DOMAIN order : order'[p].cart = order[p].cart /\ order'[p].lines = order[p].lines
  BY <1>2, <1>9, <1>12
<1>15. Sold'
  BY <1>12, <1>14 DEF Serial, Sold, Active
<1>16. \A p \in DOMAIN order' : IsItsLog(order'[p])
  BY <1>11, <1>12 DEF Serial
<1> QED BY <1>13, <1>15, <1>16 DEF Serial

LEMMA OverlapsGrow == IInv /\ [Next]_vars /\ overlaps' = 0 => overlaps = 0
<1> SUFFICES ASSUME IInv, [Next]_vars, overlaps' = 0 PROVE overlaps = 0
  OBVIOUS
<1>1. ASSUME NEW r, NEW q, Begin(r, q) PROVE overlaps = 0
  BY <1>1, OrderingAssumption DEF Begin, IInv, TypeOK
<1>2. UNCHANGED overlaps \/ \E r, q : Begin(r, q)
  BY DEF Next, Filling, Selling, BeginCreateCart, BeginAddItem, BeginPatchItem, CreateCart,
         CreateItem, UpdateItem, DeleteItem, BeginCheckout, Checkout, BeginSetStatus, SetStatus,
         EndInsert, Abort, End, vars
<1> QED BY <1>1, <1>2

LEMMA SerialInductive ==
  /\ Init => SerialWhileAlone
  /\ IInv /\ SerialWhileAlone /\ [Next]_vars => SerialWhileAlone'
<1>1. Init => SerialWhileAlone
  BY DEF Init, SerialWhileAlone, Serial, Sold, Active
<1>2. ASSUME IInv, Serial, overlaps = 0, overlaps' = 0, [Next]_vars PROVE Serial'
  <2>1. CASE Filling
    BY <1>2, <2>1, BeginsAreSerial, FillingIsSerial DEF Filling
  <2>2. CASE Selling
    BY <1>2, <2>2, BeginsAreSerial, CheckoutIsSerial, SetStatusIsSerial DEF Selling, Targets
  <2>3. ASSUME NEW r \in Reqs, Abort(r) PROVE Serial'
    <3>1. DOMAIN tx' = {} /\ UNCHANGED <<cart, order>>
      BY <1>2, <2>3, EndsAlone DEF Abort, End
    <3> QED BY <1>2, <3>1 DEF Serial, Sold, Active
  <2>4. CASE UNCHANGED vars
    BY <1>2, <2>4 DEF vars, Serial, Read, Sold, Active
  <2> QED BY <1>2, <2>1, <2>2, <2>3, <2>4 DEF Next
<1> QED BY <1>1, <1>2, OverlapsGrow DEF SerialWhileAlone

(* As long as no two requests overlap, a cart is sold once and as it stands. *)
THEOREM CartsAreSoldOnce == Spec => []CartIsSoldOnce
<1>1. SerialWhileAlone => CartIsSoldOnce
  BY DEF SerialWhileAlone, Serial, Sold, CartIsSoldOnce
<1> QED BY <1>1, SerialInductive, IInvInitially, IInvInductive, PTL DEF Spec

(* As long as no two requests overlap, an order's status column and morgue   *)
(* are what its latest log row says, and the log is one path.                *)
THEOREM OrdersAreTheirLogs == Spec => []OrderIsItsLog
<1>1. SerialWhileAlone => OrderIsItsLog
  BY DEF SerialWhileAlone, Serial, IsItsLog, OrderIsItsLog
<1> QED BY <1>1, SerialInductive, IInvInitially, IInvInductive, PTL DEF Spec
=============================================================================
