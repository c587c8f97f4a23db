---------------------------- MODULE PaymentsProofs ----------------------------
(* What is proved of Payments, for any numbers of bookings, orders, keys and   *)
(* slots, wherever a handler or an answer of PayPal's is lost.                 *)
EXTENDS Payments, FiniteSetTheorems, TLAPS

-----------------------------------------------------------------------------
(* Which operation is at which step. *)

Reversers == {"reversePayment", "cancelBooking", "cancelRoute"}
Answering == {"createPayment", "createPaypalOrder", "capturePaypalOrder", "reversePayment"}
Savers == Ops \ {"createPayment", "completeBooking"}
Saves(p) == p.at \in {"save", "flush"}

Shape(p) ==
    /\ p.at = "idle" => p = Idle
    /\ p.at # "idle" => p.op \in Ops
    /\ p.at = "insert" => p.op = "createPayment"
    /\ p.at = "order" => p.op = "createPaypalOrder"
    /\ p.at = "capture" => p.op = "capturePaypalOrder"
    /\ p.at \in {"reverse", "refund"} => p.op \in Reversers
    /\ p.at = "tx" => p.op \in {"cancelBooking", "markNoShow", "completeBooking"}
    /\ p.at = "read" => p.op \in {"cancelBooking", "markNoShow"}
    /\ p.at \in {"close", "bulk", "select", "loop"} => p.op = "cancelRoute"
    /\ p.at = "store" => p.op \in Answering
    /\ Saves(p) => /\ p.op \in Savers
                   /\ p.then = "store" => p.op \in Answering
                   /\ p.then = "catch" => p.op \in Reversers
                   /\ p.op = "createPaypalOrder" => p.then = "store"
                   /\ p.op \in {"cancelBooking", "cancelRoute"} => p.then \in {"catch", "next"}
    /\ p.op # "cancelRoute" => p.todo = {}

ShapeInv == TypeOK /\ \A w \in Workers : Shape(proc[w])

-----------------------------------------------------------------------------
(* Rows and handlers. *)

Columns == {"status", "paypalOrderId", "paypalCaptureId"}

LEMMA NoPaymentType ==
    /\ NoPayment \in Payment /\ DOMAIN NoPayment = Columns
    /\ NoPayment.status = "none" /\ NoPayment.paypalOrderId = NoOrder
    /\ NoPayment.paypalCaptureId = NoOrder
  BY DEF NoPayment, Payment, Columns

LEMMA RowOperators ==
    ASSUME NEW copy \in Payment, NEW row \in Payment, NEW cols
    PROVE  /\ PaymentDiff(copy, row) \in SUBSET Columns
           /\ PaymentUpdate(copy, row, cols) \in Payment
           /\ cols = PaymentDiff(copy, row) => PaymentUpdate(copy, row, cols) = copy
<1>1. DOMAIN row = Columns /\ DOMAIN copy = Columns
  BY DEF Payment, Columns
<1>2. PaymentUpdate(copy, row, cols) = [c \in Columns |-> IF c \in cols THEN copy[c] ELSE row[c]]
  BY <1>1 DEF PaymentUpdate
<1>3. /\ copy["status"] \in EstadoPago \cup {"none"} /\ row["status"] \in EstadoPago \cup {"none"}
      /\ copy["paypalOrderId"] \in Orders \cup {NoOrder} /\ row["paypalOrderId"] \in Orders \cup {NoOrder}
      /\ copy["paypalCaptureId"] \in Orders \cup {NoOrder}
      /\ row["paypalCaptureId"] \in Orders \cup {NoOrder}
  BY DEF Payment
<1>4. PaymentDiff(copy, row) = {c \in Columns : copy[c] # row[c]}
  BY <1>1 DEF PaymentDiff
<1>5. ASSUME cols = PaymentDiff(copy, row)
      PROVE  PaymentUpdate(copy, row, cols) = copy
  <2>1. \A c \in Columns : (IF c \in cols THEN copy[c] ELSE row[c]) = copy[c]
    BY <1>4, <1>5
  <2>2. copy = [c \in Columns |-> copy[c]]
    BY <1>1 DEF Payment, Columns
  <2>. QED  BY <1>2, <2>1, <2>2
<1>6. PaymentUpdate(copy, row, cols) \in Payment
  <2> DEFINE new == PaymentUpdate(copy, row, cols)
  <2>1. /\ new["status"] \in EstadoPago \cup {"none"} /\ new["paypalOrderId"] \in Orders \cup {NoOrder}
        /\ new["paypalCaptureId"] \in Orders \cup {NoOrder}
    BY <1>2, <1>3 DEF Columns
  <2>2. new = [c \in Columns |-> new[c]]
    BY <1>2
  <2> HIDE DEF new
  <2>3. new \in Payment
    BY <2>1, <2>2 DEF Payment, Columns
  <2>. QED  BY <2>3 DEF new
<1>. QED  BY <1>4, <1>5, <1>6

LEMMA FailedIs ==
    ASSUME NEW row \in Payment
    PROVE  /\ Failed(row) \in Payment /\ Failed(row).status = "FAILED"
           /\ Failed(row).paypalOrderId = row.paypalOrderId
           /\ Failed(row).paypalCaptureId = row.paypalCaptureId
  BY DEF Failed, Payment, EstadoPago

LEMMA IdleType ==
    /\ Idle \in Proc /\ Idle.at = "idle" /\ Idle.op = "none" /\ Idle.todo = {} /\ Idle.then = "done"
    /\ Idle.pago = NoPayment /\ Idle.cols = {}
    /\ Shape(Idle)
<1>1. AnyBooking \in Bookings
  BY PaymentAssumption DEF AnyBooking
<1>2. Idle \in Proc
  BY <1>1, NoPaymentType DEF Idle, Proc, Stages
<1>3. /\ Idle.at = "idle" /\ Idle.op = "none" /\ Idle.todo = {} /\ Idle.then = "done"
      /\ Idle.pago = NoPayment /\ Idle.cols = {}
  BY DEF Idle
<1>. QED  BY <1>2, <1>3 DEF Shape, Saves

LEMMA CallIs ==
    ASSUME NEW op \in Ops, NEW at \in Stages, NEW b \in Bookings, NEW key \in Keys \cup {NoKey}
    PROVE  LET p == Call(op, at, b, key)
           IN  /\ p \in Proc /\ p.op = op /\ p.at = at /\ p.b = b /\ p.key = key
               /\ p.todo = {} /\ p.then = "done" /\ p.pago = NoPayment
  BY IdleType DEF Call, Proc

LEMMA AtIs ==
    ASSUME NEW p \in Proc, NEW at \in Stages
    PROVE  LET s == [p EXCEPT !.at = at]
           IN  /\ s \in Proc /\ s.at = at /\ s.op = p.op /\ s.b = p.b /\ s.key = p.key
               /\ s.todo = p.todo /\ s.pago = p.pago /\ s.pagos = p.pagos /\ s.then = p.then
  BY DEF Proc

-----------------------------------------------------------------------------
(* What each step makes of its handler. *)

Same(q, p) ==
    q.op = p.op /\ q.b = p.b /\ q.key = p.key /\ q.todo = p.todo /\ q.pagos = p.pagos

\* A handler p of operation op, as its call leaves it.
Started(p, op) ==
    /\ p.op = op /\ p.todo = {} /\ Shape(p)
    /\ \/ op = "createPayment" /\ p.at = "insert" /\ booking[p.b] = "CONFIRMADA"
       \/ /\ op = "createPaypalOrder" /\ p.at = "order"
          /\ ~Cached(op, p.b, p.key) /\ p.pago = payment[p.b] /\ p.pago.status = "PENDING"
       \/ /\ op = "capturePaypalOrder" /\ p.at = "capture"
          /\ p.pago = payment[p.b] /\ p.pago.paypalOrderId # NoOrder
       \/ op = "reversePayment" /\ p.at = "reverse"
       \/ op \in {"cancelBooking", "markNoShow", "completeBooking"} /\ p.at = "tx"
       \/ op = "cancelRoute" /\ p.at = "close"

LEMMA CallsStart ==
    ASSUME ShapeInv, NEW w \in Workers, Calls(w)
    PROVE  /\ \E op \in Ops : Called(w, op) /\ \E p \in Proc : Become(w, p) /\ Started(p, op)
           /\ UNCHANGED <<window, routeActive, booking, payment, order, cache, faults>>
<1>0. /\ payment \in [Bookings -> Payment] /\ NoKey \in Keys \cup {NoKey}
      /\ AnyBooking \in Bookings
  BY PaymentAssumption DEF ShapeInv, TypeOK, AnyBooking
<1>1. CASE CancelRoute(w)
  <2> DEFINE p == Call("cancelRoute", "close", AnyBooking, NoKey)
  <2>1. p \in Proc /\ p.op = "cancelRoute" /\ p.at = "close" /\ p.todo = {}
    BY <1>0, CallIs DEF Ops, Stages
  <2>2. Become(w, p) /\ Called(w, "cancelRoute")
        /\ UNCHANGED <<window, routeActive, booking, payment, order, cache, faults>>
    BY <1>1 DEF CancelRoute
  <2> HIDE DEF p
  <2>3. Started(p, "cancelRoute")
    BY <2>1 DEF Started, Shape, Saves, Ops
  <2>. QED  BY <2>1, <2>2, <2>3 DEF Ops
<1>2. ASSUME NEW b \in Bookings, NEW op \in {"cancelBooking", "markNoShow", "completeBooking"},
             NEW refundable \in BOOLEAN, Called(w, op),
             Become(w, [Call(op, "tx", b, NoKey) EXCEPT !.refundable = refundable]),
             UNCHANGED <<window, routeActive, booking, payment, order, cache, faults>>
      PROVE  \E p \in Proc : Become(w, p) /\ Started(p, op)
  <2> DEFINE p == [Call(op, "tx", b, NoKey) EXCEPT !.refundable = refundable]
  <2>1. Call(op, "tx", b, NoKey) \in Proc /\ Call(op, "tx", b, NoKey).op = op
        /\ Call(op, "tx", b, NoKey).at = "tx" /\ Call(op, "tx", b, NoKey).todo = {}
    BY <1>0, CallIs DEF Ops, Stages
  <2>2. p \in Proc /\ p.op = op /\ p.at = "tx" /\ p.todo = {}
    BY <2>1 DEF Proc
  <2>3. Become(w, p)
    BY <1>2
  <2> HIDE DEF p
  <2>4. Started(p, op)
    BY <2>2 DEF Started, Shape, Saves, Ops
  <2>. QED  BY <2>2, <2>3, <2>4
<1>3. ASSUME NEW b \in Bookings, CancelBooking(w, b)
      PROVE  \E p \in Proc : Become(w, p) /\ Started(p, "cancelBooking")
  BY <1>2, <1>3 DEF CancelBooking
<1>4. ASSUME NEW b \in Bookings, NEW op \in {"markNoShow", "completeBooking"}, Called(w, op),
             Become(w, Call(op, "tx", b, NoKey)),
             UNCHANGED <<window, routeActive, booking, payment, order, cache, faults>>
      PROVE  \E p \in Proc : Become(w, p) /\ Started(p, op)
  <2> DEFINE p == Call(op, "tx", b, NoKey)
  <2>1. p \in Proc /\ p.op = op /\ p.at = "tx" /\ p.todo = {}
    BY <1>0, CallIs DEF Ops, Stages
  <2>2. Become(w, p)
    BY <1>4
  <2> HIDE DEF p
  <2>3. Started(p, op)
    BY <2>1 DEF Started, Shape, Saves, Ops
  <2>. QED  BY <2>1, <2>2, <2>3
<1>5. ASSUME NEW b \in Bookings, NEW key \in Keys \cup {NoKey},
             CreatePayment(w, b, key) \/ ReversePayment(w, b, key)
      PROVE  \E op \in Ops : Called(w, op) /\ \E p \in Proc : Become(w, p) /\ Started(p, op)
  <2>1. CASE CreatePayment(w, b, key)
    <3> DEFINE p == Call("createPayment", "insert", b, key)
    <3>1. p \in Proc /\ p.op = "createPayment" /\ p.at = "insert" /\ p.todo = {} /\ p.b = b
      BY CallIs DEF Ops, Stages
    <3>2. Become(w, p) /\ Called(w, "createPayment") /\ booking[b] = "CONFIRMADA"
      BY <2>1 DEF CreatePayment
    <3> HIDE DEF p
    <3>3. Started(p, "createPayment")
      BY <3>1, <3>2 DEF Started, Shape, Saves, Ops
    <3>. QED  BY <3>1, <3>2, <3>3 DEF Ops
  <2>2. CASE ReversePayment(w, b, key)
    <3> DEFINE p == Call("reversePayment", "reverse", b, key)
    <3>1. p \in Proc /\ p.op = "reversePayment" /\ p.at = "reverse" /\ p.todo = {}
      BY CallIs DEF Ops, Stages
    <3>2. Become(w, p) /\ Called(w, "reversePayment")
      BY <2>2 DEF ReversePayment
    <3> HIDE DEF p
    <3>3. Started(p, "reversePayment")
      BY <3>1 DEF Started, Shape, Saves, Ops, Reversers
    <3>. QED  BY <3>1, <3>2, <3>3 DEF Ops
  <2>. QED  BY <1>5, <2>1, <2>2
<1>6. ASSUME NEW b \in Bookings, NEW key \in Keys \cup {NoKey},
             CreatePaypalOrder(w, b, key) \/ CapturePaypalOrder(w, b, key)
      PROVE  \E op \in Ops : Called(w, op) /\ \E p \in Proc : Become(w, p) /\ Started(p, op)
  <2>0. payment[b] \in Payment
    BY <1>0
  <2>1. CASE CreatePaypalOrder(w, b, key)
    <3> DEFINE c == Call("createPaypalOrder", "order", b, key)
               p == [c EXCEPT !.pago = payment[b]]
    <3>1. c \in Proc /\ c.op = "createPaypalOrder" /\ c.at = "order" /\ c.todo = {} /\ c.b = b /\ c.key = key
      BY CallIs DEF Ops, Stages
    <3>2. Become(w, p) /\ Called(w, "createPaypalOrder") /\ payment[b].status = "PENDING"
          /\ ~Cached("createPaypalOrder", b, key)
      BY <2>1 DEF CreatePaypalOrder
    <3> HIDE DEF c
    <3>3. /\ p \in Proc /\ p.op = "createPaypalOrder" /\ p.at = "order" /\ p.todo = {} /\ p.b = b
          /\ p.key = key /\ p.pago = payment[b]
      BY <2>0, <3>1 DEF Proc
    <3> HIDE DEF p
    <3>4. Started(p, "createPaypalOrder")
      BY <3>2, <3>3 DEF Started, Shape, Saves, Ops
    <3>. QED  BY <3>2, <3>3, <3>4 DEF Ops
  <2>2. CASE CapturePaypalOrder(w, b, key)
    <3> DEFINE c == Call("capturePaypalOrder", "capture", b, key)
               p == [c EXCEPT !.pago = payment[b]]
    <3>1. c \in Proc /\ c.op = "capturePaypalOrder" /\ c.at = "capture" /\ c.todo = {} /\ c.b = b /\ c.key = key
      BY CallIs DEF Ops, Stages
    <3>2. Become(w, p) /\ Called(w, "capturePaypalOrder") /\ payment[b].paypalOrderId # NoOrder
      BY <2>2 DEF CapturePaypalOrder
    <3> HIDE DEF c
    <3>3. /\ p \in Proc /\ p.op = "capturePaypalOrder" /\ p.at = "capture" /\ p.todo = {} /\ p.b = b
          /\ p.pago = payment[b]
      BY <2>0, <3>1 DEF Proc
    <3> HIDE DEF p
    <3>4. Started(p, "capturePaypalOrder")
      BY <3>2, <3>3 DEF Started, Shape, Saves, Ops
    <3>. QED  BY <3>2, <3>3, <3>4 DEF Ops
  <2>. QED  BY <1>6, <2>1, <2>2
<1>7. UNCHANGED <<window, routeActive, booking, payment, order, cache, faults>>
  BY DEF Calls, CancelRoute, CancelBooking, MarkNoShow, CompleteBooking, CreatePayment,
     CreatePaypalOrder, CapturePaypalOrder, ReversePayment
<1>8. \E op \in Ops : Called(w, op) /\ \E p \in Proc : Become(w, p) /\ Started(p, op)
  <2>1. ASSUME NEW b \in Bookings, MarkNoShow(w, b) \/ CompleteBooking(w, b)
        PROVE  \E op \in Ops : Called(w, op) /\ \E p \in Proc : Become(w, p) /\ Started(p, op)
    BY <1>4, <2>1 DEF MarkNoShow, CompleteBooking, Ops
  <2>2. ASSUME NEW b \in Bookings, CancelBooking(w, b)
        PROVE  \E op \in Ops : Called(w, op) /\ \E p \in Proc : Become(w, p) /\ Started(p, op)
    BY <1>3, <2>2 DEF CancelBooking, Ops
  <2>. QED  BY <1>1, <1>5, <1>6, <2>1, <2>2 DEF Calls
<1>. QED  BY <1>7, <1>8

LEMMA HandlerIs ==
    ASSUME ShapeInv, NEW w \in Workers
    PROVE  /\ proc[w] \in Proc /\ Shape(proc[w]) /\ proc[w].b \in Bookings /\ proc[w].at \in Stages
           /\ proc[w].pago \in Payment /\ payment[proc[w].b] \in Payment
           /\ proc[w].pagos \in [Bookings -> Payment] /\ proc[w].pagos[proc[w].b] \in Payment
           /\ proc[w].todo \subseteq Bookings /\ proc[w].key \in Keys \cup {NoKey}
           /\ proc[w].then \in {"done", "store", "catch", "next"}
           /\ proc[w].cols \subseteq Columns
<1>1. proc[w] \in Proc /\ Shape(proc[w]) /\ payment \in [Bookings -> Payment]
  BY DEF ShapeInv, TypeOK
<1>. QED  BY <1>1, NoPaymentType DEF Proc

LEMMA TurnsToSave ==
    ASSUME ShapeInv, NEW w \in Workers, proc[w].op \in Savers,
           NEW copy \in Payment, NEW then \in {"done", "store", "catch", "next"},
           then = "store" => proc[w].op \in Answering,
           then = "catch" => proc[w].op \in Reversers,
           proc[w].op = "createPaypalOrder" => then = "store",
           proc[w].op \in {"cancelBooking", "cancelRoute"} => then \in {"catch", "next"}
    PROVE  LET p == Saving(proc[w], copy, then)
           IN  /\ p \in Proc /\ Shape(p) /\ p.at = "save" /\ Same(p, proc[w])
               /\ p.pago = copy /\ p.then = then
<1> DEFINE p == Saving(proc[w], copy, then)
<1>0. proc[w] \in Proc
  BY HandlerIs
<1>1. /\ p \in Proc /\ p.at = "save" /\ p.pago = copy /\ p.then = then
      /\ p.op = proc[w].op /\ p.b = proc[w].b /\ p.key = proc[w].key /\ p.todo = proc[w].todo
      /\ p.pagos = proc[w].pagos
  BY <1>0 DEF Saving, Proc, Stages
<1>2. proc[w].op # "cancelRoute" => proc[w].todo = {}
  BY HandlerIs DEF Shape
<1> HIDE DEF p
<1>3. Shape(p)
  BY <1>1, <1>2 DEF Shape, Saves, Savers
<1>. QED  BY <1>1, <1>3 DEF Same, p

LEMMA ThrowIs ==
    ASSUME ShapeInv, NEW w \in Workers, proc[w].op \in Reversers, Throw(w)
    PROVE  \E p \in Proc :
              /\ Become(w, p) /\ Shape(p)
              /\ IF proc[w].op = "reversePayment" THEN p = Idle
                 ELSE /\ p.at = "save" /\ Same(p, proc[w]) /\ p.then = "next"
                      /\ p.pago = Failed(proc[w].pagos[proc[w].b])
<1>1. CASE proc[w].op = "reversePayment"
  BY <1>1, IdleType DEF Throw, Done
<1>2. CASE proc[w].op # "reversePayment"
  <2> DEFINE copy == Failed(proc[w].pagos[proc[w].b])
             p == Saving(proc[w], copy, "next")
  <2>1. copy \in Payment
    BY HandlerIs, FailedIs
  <2>2. Become(w, p)
    BY <1>2 DEF Throw
  <2> HIDE DEF copy
  <2>3. p \in Proc /\ Shape(p) /\ p.at = "save" /\ Same(p, proc[w]) /\ p.pago = copy /\ p.then = "next"
    BY <1>2, <2>1, TurnsToSave DEF Reversers, Savers, Ops
  <2> HIDE DEF p
  <2>. QED  BY <1>2, <2>2, <2>3 DEF copy
<1>. QED  BY <1>1, <1>2

LEMMA LoopOnIs ==
    ASSUME ShapeInv, NEW w \in Workers, NEW left \in SUBSET Bookings,
           left = {} \/ proc[w].op = "cancelRoute", LoopOn(w, left)
    PROVE  \E p \in Proc :
              /\ Become(w, p) /\ Shape(p)
              /\ IF left = {} THEN p = Idle
                 ELSE /\ p.at = "loop" /\ p.todo = left /\ p.op = "cancelRoute"
                      /\ p.pagos = proc[w].pagos
<1>1. CASE left = {}
  BY <1>1, IdleType DEF LoopOn, Done
<1>2. CASE left # {}
  <2> DEFINE p == [proc[w] EXCEPT !.at = "loop", !.todo = left]
  <2>1. Become(w, p)
    BY <1>2 DEF LoopOn
  <2>2. /\ p \in Proc /\ p.at = "loop" /\ p.todo = left /\ p.op = "cancelRoute"
        /\ p.pagos = proc[w].pagos
    BY <1>2, HandlerIs, ZenonT(60) DEF Proc, Stages
  <2> HIDE DEF p
  <2>3. Shape(p)
    BY <2>2 DEF Shape, Saves, Ops
  <2>. QED  BY <1>2, <2>1, <2>2, <2>3
<1>. QED  BY <1>1, <1>2

-----------------------------------------------------------------------------

LEMMA InsertIs ==
    ASSUME ShapeInv, NEW w \in Workers, InsertPayment(w)
    PROVE  LET b == proc[w].b
           IN  /\ proc[w].at = "insert" /\ proc[w].op = "createPayment"
               /\ UNCHANGED <<window, routeActive, booking, order, cache, faults>>
               /\ \/ /\ payment[b] = NoPayment /\ payment' = [payment EXCEPT ![b].status = "PENDING"]
                     /\ \E p \in Proc : Become(w, p) /\ Shape(p) /\ p.at = "store" /\ Same(p, proc[w])
                  \/ UNCHANGED payment /\ Become(w, Idle)
<1> DEFINE p == [proc[w] EXCEPT !.at = "store"]
<1>1. proc[w].at = "insert" /\ proc[w].op = "createPayment" /\ proc[w].todo = {}
  BY HandlerIs DEF InsertPayment, Shape
<1>2. p \in Proc /\ p.at = "store" /\ Same(p, proc[w])
  <2>1. proc[w] \in Proc /\ "store" \in Stages
    BY HandlerIs DEF Stages
  <2>. QED  BY <2>1, AtIs DEF Same
<1>3. payment[proc[w].b] = NoPayment => Become(w, p)
  BY DEF InsertPayment
<1> HIDE DEF p
<1>4. Shape(p)
  BY <1>1, <1>2 DEF Shape, Saves, Same, Answering, Ops
<1>. QED  BY <1>1, <1>2, <1>3, <1>4 DEF InsertPayment, Done

LEMMA PaypalOrdersIs ==
    ASSUME ShapeInv, NEW w \in Workers, NEW o \in Orders, PaypalOrders(w, o)
    PROVE  /\ proc[w].at = "order" /\ proc[w].op = "createPaypalOrder"
           /\ Orderable(o) /\ PlaceOrder(o, proc[w].b, proc[w].key)
           /\ UNCHANGED <<window, routeActive, booking, payment, cache, faults>>
           /\ \E p \in Proc :
                /\ Become(w, p) /\ Shape(p) /\ p.at = "save" /\ Same(p, proc[w]) /\ p.then = "store"
                /\ p.pago.status = proc[w].pago.status /\ p.pago.paypalOrderId = o
                /\ p.pago.paypalCaptureId = proc[w].pago.paypalCaptureId
<1> DEFINE copy == [proc[w].pago EXCEPT !.paypalOrderId = o]
           p == Saving(proc[w], copy, "store")
<1>1. proc[w].at = "order" /\ proc[w].op = "createPaypalOrder"
  BY HandlerIs DEF PaypalOrders, Shape
<1>2. /\ copy \in Payment /\ copy.status = proc[w].pago.status /\ copy.paypalOrderId = o
      /\ copy.paypalCaptureId = proc[w].pago.paypalCaptureId
  BY HandlerIs DEF Payment
<1>3. Become(w, p)
  BY DEF PaypalOrders
<1> HIDE DEF copy
<1>4. p \in Proc /\ Shape(p) /\ p.at = "save" /\ Same(p, proc[w]) /\ p.pago = copy /\ p.then = "store"
  BY <1>1, <1>2, TurnsToSave DEF Savers, Ops, Answering
<1> HIDE DEF p
<1>. QED  BY <1>1, <1>2, <1>3, <1>4 DEF PaypalOrders

LEMMA CapturesIs ==
    ASSUME ShapeInv, NEW w \in Workers, PaypalCaptures(w)
    PROVE  LET o == proc[w].pago.paypalOrderId
           IN  /\ proc[w].at = "capture" /\ proc[w].op = "capturePaypalOrder" /\ CaptureMoney(o)
               /\ UNCHANGED <<window, routeActive, booking, payment, cache, faults>>
               /\ \E p \in Proc :
                    /\ Become(w, p) /\ Shape(p) /\ p.at = "save" /\ Same(p, proc[w]) /\ p.then = "store"
                    /\ p.pago.status = "PAID" /\ p.pago.paypalOrderId = o /\ p.pago.paypalCaptureId = o
<1> DEFINE o == proc[w].pago.paypalOrderId
           copy == [proc[w].pago EXCEPT !.status = "PAID", !.paypalCaptureId = o]
           p == Saving(proc[w], copy, "store")
<1>1. proc[w].at = "capture" /\ proc[w].op = "capturePaypalOrder"
  BY HandlerIs DEF PaypalCaptures, Shape
<1>2. copy \in Payment /\ copy.status = "PAID" /\ copy.paypalOrderId = o /\ copy.paypalCaptureId = o
  BY HandlerIs DEF Payment, EstadoPago
<1>3. Become(w, p)
  BY DEF PaypalCaptures
<1> HIDE DEF copy
<1>4. p \in Proc /\ Shape(p) /\ p.at = "save" /\ Same(p, proc[w]) /\ p.pago = copy /\ p.then = "store"
  BY <1>1, <1>2, TurnsToSave DEF Savers, Ops, Answering
<1> HIDE DEF p
<1>. QED  BY <1>1, <1>2, <1>3, <1>4 DEF PaypalCaptures

LEMMA WithoutDetailsIs ==
    ASSUME ShapeInv, NEW w \in Workers, PaypalCapturesWithoutDetails(w)
    PROVE  /\ proc[w].at = "capture" /\ proc[w].op = "capturePaypalOrder"
           /\ CaptureMoney(proc[w].pago.paypalOrderId)
           /\ faults < MaxFaults /\ faults' = faults + 1
           /\ UNCHANGED <<window, routeActive, booking, payment, cache>>
           /\ \E p \in Proc :
                /\ Become(w, p) /\ Shape(p) /\ p.at = "save" /\ Same(p, proc[w]) /\ p.then = "done"
                /\ p.pago = Failed(proc[w].pago)
<1> DEFINE copy == Failed(proc[w].pago)
           p == Saving(proc[w], copy, "done")
<1>1. proc[w].at = "capture" /\ proc[w].op = "capturePaypalOrder"
  BY HandlerIs DEF PaypalCapturesWithoutDetails, Shape
<1>2. copy \in Payment
  BY HandlerIs, FailedIs
<1>3. Become(w, p)
  BY DEF PaypalCapturesWithoutDetails
<1> HIDE DEF copy
<1>4. p \in Proc /\ Shape(p) /\ p.at = "save" /\ Same(p, proc[w]) /\ p.pago = copy /\ p.then = "done"
  BY <1>1, <1>2, TurnsToSave DEF Savers, Ops, Answering
<1> HIDE DEF p
<1>. QED  BY <1>1, <1>3, <1>4 DEF PaypalCapturesWithoutDetails, copy

LEMMA ReadToReverseIs ==
    ASSUME ShapeInv, NEW w \in Workers, ReadToReverse(w)
    PROVE  /\ proc[w].at = "reverse" /\ proc[w].op \in Reversers
           /\ UNCHANGED <<window, routeActive, booking, payment, order, cache, faults>>
           /\ \/ /\ payment[proc[w].b].status = "PAID"
                 /\ \E p \in Proc : /\ Become(w, p) /\ Shape(p) /\ p.at = "refund" /\ Same(p, proc[w])
                                    /\ p.pago = payment[proc[w].b]
              \/ payment[proc[w].b].status # "PAID" /\ Throw(w)
<1> DEFINE row == payment[proc[w].b]
           p == [proc[w] EXCEPT !.at = "refund", !.pago = row]
<1>1. proc[w].at = "reverse" /\ proc[w].op \in Reversers /\ Shape(proc[w])
  BY HandlerIs DEF ReadToReverse, Shape
<1>2. row \in Payment /\ proc[w] \in Proc
  BY HandlerIs
<1>3. row.status = "PAID" => Become(w, p)
  BY DEF ReadToReverse
<1>4. row.status # "PAID" => Throw(w)
  BY DEF ReadToReverse
<1> HIDE DEF row
<1>5. p \in Proc /\ p.at = "refund" /\ Same(p, proc[w]) /\ p.pago = row
  BY <1>2 DEF Proc, Stages, Same
<1> HIDE DEF p
<1>6. Shape(p)
  BY <1>1, <1>5 DEF Shape, Saves, Same
<1>. QED  BY <1>1, <1>3, <1>4, <1>5, <1>6 DEF ReadToReverse, row

LEMMA RefundsIs ==
    ASSUME ShapeInv, NEW w \in Workers, PaypalRefunds(w)
    PROVE  LET o == proc[w].pago.paypalCaptureId
           IN  /\ proc[w].at = "refund" /\ proc[w].op \in Reversers
               /\ IF o # NoOrder THEN RefundMoney(o) ELSE UNCHANGED order
               /\ UNCHANGED <<window, routeActive, booking, payment, cache, faults>>
               /\ \E p \in Proc :
                    /\ Become(w, p) /\ Shape(p) /\ p.at = "save" /\ Same(p, proc[w])
                    /\ p.then \in {"store", "next"}
                    /\ p.pago.status = "REVERSED" /\ p.pago.paypalCaptureId = o
                    /\ p.pago.paypalOrderId = proc[w].pago.paypalOrderId
<1> DEFINE copy == [proc[w].pago EXCEPT !.status = "REVERSED"]
           then == IF proc[w].op = "reversePayment" THEN "store" ELSE "next"
           p == Saving(proc[w], copy, then)
<1>1. proc[w].at = "refund" /\ proc[w].op \in Reversers
  BY HandlerIs DEF PaypalRefunds, Shape
<1>2. /\ copy \in Payment /\ copy.status = "REVERSED"
      /\ copy.paypalOrderId = proc[w].pago.paypalOrderId
      /\ copy.paypalCaptureId = proc[w].pago.paypalCaptureId
  BY HandlerIs DEF Payment, EstadoPago
<1>3. Become(w, p)
  BY DEF PaypalRefunds
<1>4. /\ then \in {"store", "next"} /\ (then = "store" => proc[w].op = "reversePayment")
      /\ (proc[w].op # "reversePayment" => then = "next")
  OBVIOUS
<1> HIDE DEF copy, then
<1>5. p \in Proc /\ Shape(p) /\ p.at = "save" /\ Same(p, proc[w]) /\ p.pago = copy /\ p.then = then
  BY <1>1, <1>2, <1>4, TurnsToSave DEF Savers, Ops, Answering, Reversers
<1> HIDE DEF p
<1>. QED  BY <1>1, <1>2, <1>3, <1>4, <1>5 DEF PaypalRefunds

LEMMA RefusesRefundIs ==
    ASSUME ShapeInv, NEW w \in Workers, proc[w].at = "refund",
           Become(w, Saving(proc[w], Failed(proc[w].pago), "catch"))
    PROVE  /\ proc[w].op \in Reversers
           /\ \E p \in Proc :
                /\ Become(w, p) /\ Shape(p) /\ p.at = "save" /\ Same(p, proc[w]) /\ p.then = "catch"
                /\ p.pago = Failed(proc[w].pago)
<1> DEFINE copy == Failed(proc[w].pago)
           p == Saving(proc[w], copy, "catch")
<1>1. proc[w].op \in Reversers
  BY HandlerIs DEF Shape
<1>2. copy \in Payment
  BY HandlerIs, FailedIs
<1>3. Become(w, p)
  OBVIOUS
<1> HIDE DEF copy
<1>4. p \in Proc /\ Shape(p) /\ p.at = "save" /\ Same(p, proc[w]) /\ p.pago = copy /\ p.then = "catch"
  BY <1>1, <1>2, TurnsToSave DEF Savers, Ops, Answering, Reversers
<1> HIDE DEF p
<1>. QED  BY <1>1, <1>3, <1>4 DEF copy

LEMMA WriteBookingIs ==
    ASSUME ShapeInv, NEW w \in Workers, WriteBooking(w)
    PROVE  /\ proc[w].at = "tx" /\ proc[w].op \in {"cancelBooking", "markNoShow", "completeBooking"}
           /\ UNCHANGED <<window, routeActive, payment, order, cache, faults>>
           /\ \E estado \in {"CANCELADA", "NO_SHOW", "COMPLETADA"} :
                /\ booking' = [booking EXCEPT ![proc[w].b] = estado]
                /\ estado = "CANCELADA" => proc[w].op = "cancelBooking"
           /\ IF proc[w].op = "completeBooking" THEN Become(w, Idle)
              ELSE \E p \in Proc : Become(w, p) /\ Shape(p) /\ p.at = "read" /\ Same(p, proc[w])
<1> DEFINE p == [proc[w] EXCEPT !.at = "read"]
           estado == CASE proc[w].op = "cancelBooking" -> "CANCELADA"
                       [] proc[w].op = "markNoShow" -> "NO_SHOW"
                       [] proc[w].op = "completeBooking" -> "COMPLETADA"
<1>1. /\ proc[w].at = "tx" /\ proc[w].op \in {"cancelBooking", "markNoShow", "completeBooking"}
      /\ proc[w].todo = {}
  BY HandlerIs DEF WriteBooking, Shape
<1>2. booking' = [booking EXCEPT ![proc[w].b] = estado]
  BY DEF WriteBooking
<1>3. estado \in {"CANCELADA", "NO_SHOW", "COMPLETADA"}
      /\ (estado = "CANCELADA" => proc[w].op = "cancelBooking")
  BY <1>1
<1>4. p \in Proc /\ p.at = "read" /\ Same(p, proc[w])
  <2>1. proc[w] \in Proc /\ "read" \in Stages
    BY HandlerIs DEF Stages
  <2>. QED  BY <2>1, AtIs DEF Same
<1>5. proc[w].op # "completeBooking" => Become(w, p)
  BY DEF WriteBooking
<1>6. proc[w].op = "completeBooking" => Become(w, Idle)
  BY DEF WriteBooking, Done
<1>7. UNCHANGED <<window, routeActive, payment, order, cache, faults>>
  BY DEF WriteBooking
<1> HIDE DEF p, estado
<1>8. proc[w].op # "completeBooking" => Shape(p)
  BY <1>1, <1>4 DEF Shape, Saves, Same, Ops
<1>. QED  BY <1>1, <1>2, <1>3, <1>4, <1>5, <1>6, <1>7, <1>8

LEMMA ReadPaymentIs ==
    ASSUME ShapeInv, NEW w \in Workers, ReadPayment(w)
    PROVE  LET row == payment[proc[w].b]
           IN  /\ proc[w].at = "read" /\ proc[w].op \in {"cancelBooking", "markNoShow"}
               /\ UNCHANGED <<window, routeActive, booking, payment, order, cache, faults>>
               /\ \E p \in Proc :
                    /\ Become(w, p) /\ Shape(p)
                    /\ \/ /\ p.at = "reverse" /\ row.status = "PAID" /\ p.op = "cancelBooking"
                          /\ p.b = proc[w].b /\ p.todo = {} /\ p.pagos[p.b] = row
                       \/ /\ p.at = "save" /\ row.status = "PAID" /\ Same(p, proc[w])
                          /\ p.pago = row /\ p.then = "next"
                       \/ /\ p.at = "save" /\ row.status = "PENDING" /\ Same(p, proc[w])
                          /\ p.pago = Failed(row) /\ p.then = "next"
                       \/ p = Idle /\ row.status # "PENDING"
<1> DEFINE row == payment[proc[w].b]
           r == [proc[w] EXCEPT !.at = "reverse", !.pagos[proc[w].b] = row]
           s == Saving(proc[w], row, "next")
           f == Saving(proc[w], Failed(row), "next")
<1>1. proc[w].at = "read" /\ proc[w].op \in {"cancelBooking", "markNoShow"} /\ proc[w].todo = {}
  BY HandlerIs DEF ReadPayment, Shape
<1>2. row \in Payment /\ Failed(row) \in Payment
  BY HandlerIs, FailedIs
<1>3. \/ proc[w].op = "cancelBooking" /\ row.status = "PAID" /\ Become(w, r)
      \/ row.status = "PAID" /\ Become(w, s)
      \/ row.status = "PENDING" /\ Become(w, f)
      \/ row.status # "PENDING" /\ Become(w, Idle)
  BY <1>1 DEF ReadPayment, SettleCancelled, SettleNoShow, Done
<1> HIDE DEF row
<1>4. r \in Proc /\ r.at = "reverse" /\ r.op = proc[w].op /\ r.b = proc[w].b /\ r.todo = {} /\ r.pagos[r.b] = row
  BY <1>1, <1>2, HandlerIs, ZenonT(60) DEF Proc, Stages
<1>5. s \in Proc /\ Shape(s) /\ s.at = "save" /\ Same(s, proc[w]) /\ s.pago = row /\ s.then = "next"
  BY <1>1, <1>2, TurnsToSave DEF Savers, Ops, Answering, Reversers
<1>6. f \in Proc /\ Shape(f) /\ f.at = "save" /\ Same(f, proc[w]) /\ f.pago = Failed(row) /\ f.then = "next"
  BY <1>1, <1>2, TurnsToSave DEF Savers, Ops, Answering, Reversers
<1> HIDE DEF r, s, f
<1>7. proc[w].op = "cancelBooking" => Shape(r)
  BY <1>1, <1>4 DEF Shape, Saves, Reversers, Ops
<1>8. UNCHANGED <<window, routeActive, booking, payment, order, cache, faults>>
  BY DEF ReadPayment
<1>. QED  BY <1>1, <1>3, <1>4, <1>5, <1>6, <1>7, <1>8, IdleType DEF row

LEMMA ClosingIs ==
    ASSUME ShapeInv, NEW w \in Workers, CloseRoute(w) \/ CancelRouteBookings(w)
    PROVE  /\ proc[w].op = "cancelRoute" /\ proc[w].at \in {"close", "bulk"}
           /\ UNCHANGED <<window, payment, order, cache, faults>> /\ routeActive' \in BOOLEAN
           /\ \E p \in Proc :
                /\ Become(w, p) /\ Shape(p) /\ Same(p, proc[w])
                /\ \/ p.at = "bulk" /\ booking' = booking
                   \/ /\ p.at = "select"
                      /\ booking' = [b \in Bookings |->
                            IF booking[b] = "CONFIRMADA" THEN "CANCELADA" ELSE booking[b]]
<1>1. proc[w].op = "cancelRoute" /\ proc[w].at \in {"close", "bulk"} /\ proc[w] \in Proc
      /\ routeActive \in BOOLEAN
  BY HandlerIs DEF CloseRoute, CancelRouteBookings, Shape, ShapeInv, TypeOK
<1>2. ASSUME NEW at \in {"bulk", "select"}
      PROVE  LET p == [proc[w] EXCEPT !.at = at]
             IN  p \in Proc /\ Shape(p) /\ p.at = at /\ Same(p, proc[w])
  <2> DEFINE p == [proc[w] EXCEPT !.at = at]
  <2>0. at \in Stages
    BY DEF Stages
  <2>1. p \in Proc /\ p.at = at /\ Same(p, proc[w])
    BY <1>1, <2>0, AtIs DEF Same
  <2> HIDE DEF p
  <2>2. Shape(p)
    BY <1>1, <2>1 DEF Shape, Saves, Same, Ops
  <2>. QED  BY <2>1, <2>2 DEF p
<1>3. CASE CloseRoute(w)
  BY <1>1, <1>2, <1>3 DEF CloseRoute
<1>4. CASE CancelRouteBookings(w)
  BY <1>1, <1>2, <1>4 DEF CancelRouteBookings
<1>. QED  BY <1>3, <1>4

LEMMA SelectIs ==
    ASSUME ShapeInv, NEW w \in Workers, SelectPayments(w)
    PROVE  LET chosen == {b \in Bookings : payment[b].status \in {"PAID", "PENDING"}}
           IN  /\ proc[w].op = "cancelRoute" /\ proc[w].at = "select"
               /\ UNCHANGED <<window, routeActive, booking, payment, order, cache, faults>>
               /\ \E p \in Proc :
                    /\ Become(w, p) /\ Shape(p)
                    /\ IF chosen = {} THEN p = Idle
                       ELSE p.at = "loop" /\ p.todo = chosen /\ p.pagos = payment /\ p.op = "cancelRoute"
<1> DEFINE chosen == {b \in Bookings : payment[b].status \in {"PAID", "PENDING"}}
           p == [proc[w] EXCEPT !.at = "loop", !.todo = chosen, !.pagos = payment]
<1>1. proc[w].op = "cancelRoute" /\ proc[w].at = "select" /\ payment \in [Bookings -> Payment]
  BY HandlerIs DEF SelectPayments, Shape, ShapeInv, TypeOK
<1>2. IF chosen = {} THEN Become(w, Idle) ELSE Become(w, p)
  BY DEF SelectPayments, Done
<1>3. chosen \subseteq Bookings
  OBVIOUS
<1> HIDE DEF chosen
<1>4. p \in Proc /\ p.at = "loop" /\ p.todo = chosen /\ p.pagos = payment /\ p.op = "cancelRoute"
  BY <1>1, <1>3, HandlerIs, ZenonT(60) DEF Proc, Stages
<1> HIDE DEF p
<1>5. Shape(p)
  BY <1>4 DEF Shape, Saves, Ops
<1>. QED  BY <1>1, <1>2, <1>4, <1>5, IdleType DEF SelectPayments, chosen

LEMMA PayBackIs ==
    ASSUME ShapeInv, NEW w \in Workers, NEW b \in Bookings, PayBack(w, b)
    PROVE  /\ proc[w].op = "cancelRoute" /\ proc[w].at = "loop" /\ b \in proc[w].todo
           /\ UNCHANGED <<window, routeActive, booking, payment, order, cache, faults>>
           /\ \E p \in Proc :
                /\ Become(w, p) /\ Shape(p) /\ p.op = "cancelRoute" /\ p.b = b
                /\ p.todo = proc[w].todo /\ p.pagos = proc[w].pagos
                /\ \/ p.at = "reverse" /\ p.pagos[b].status = "PAID"
                   \/ /\ p.at = "save" /\ p.pagos[b].status # "PAID"
                      /\ p.pago = Failed(p.pagos[b]) /\ p.then = "next"
<1> DEFINE there == [proc[w] EXCEPT !.b = b]
           pago == proc[w].pagos[b]
           r == [there EXCEPT !.at = "reverse"]
           f == Saving(there, Failed(pago), "next")
<1>1. proc[w].op = "cancelRoute" /\ proc[w].at = "loop" /\ b \in proc[w].todo
  BY HandlerIs DEF PayBack, Shape
<1>2. pago \in Payment /\ Failed(pago) \in Payment
  BY HandlerIs, FailedIs
<1>3. \/ pago.status = "PAID" /\ Become(w, r)
      \/ pago.status # "PAID" /\ Become(w, f)
  BY DEF PayBack
<1>4. /\ there \in Proc /\ there.op = "cancelRoute" /\ there.b = b /\ there.todo = proc[w].todo
      /\ there.pagos = proc[w].pagos
  BY <1>1, HandlerIs DEF Proc
<1> HIDE DEF there
<1>5. r \in Proc /\ r.at = "reverse" /\ r.op = "cancelRoute" /\ r.b = b /\ r.todo = proc[w].todo
      /\ r.pagos = proc[w].pagos
  BY <1>4 DEF Proc, Stages
<1>6. f \in Proc /\ f.at = "save" /\ f.op = "cancelRoute" /\ f.b = b /\ f.todo = proc[w].todo
      /\ f.pagos = proc[w].pagos /\ f.pago = Failed(pago) /\ f.then = "next"
  BY <1>2, <1>4 DEF Saving, Proc, Stages
<1> HIDE DEF r, f
<1>7. Shape(r) /\ Shape(f)
  BY <1>5, <1>6 DEF Shape, Saves, Reversers, Savers, Ops
<1>8. UNCHANGED <<window, routeActive, booking, payment, order, cache, faults>>
  BY DEF PayBack
<1>. QED  BY <1>1, <1>3, <1>5, <1>6, <1>7, <1>8

LEMMA SaveIs ==
    ASSUME ShapeInv, NEW w \in Workers, SavePayment(w)
    PROVE  /\ proc[w].at = "save"
           /\ UNCHANGED <<window, routeActive, booking, payment, order, cache, faults>>
           /\ \E p \in Proc :
                /\ Become(w, p) /\ Shape(p) /\ p.at = "flush" /\ Same(p, proc[w])
                /\ p.pago = proc[w].pago /\ p.then = proc[w].then
                /\ p.cols = PaymentDiff(proc[w].pago, payment[proc[w].b])
<1> DEFINE cols == PaymentDiff(proc[w].pago, payment[proc[w].b])
           p == [proc[w] EXCEPT !.at = "flush", !.cols = cols]
<1>1. proc[w].at = "save" /\ Shape(proc[w]) /\ proc[w] \in Proc
  BY HandlerIs DEF SavePayment
<1>2. Become(w, p)
  BY DEF SavePayment
<1>3. cols \in SUBSET DOMAIN NoPayment
  BY HandlerIs, RowOperators, NoPaymentType
<1> HIDE DEF cols
<1>4. /\ p \in Proc /\ p.at = "flush" /\ Same(p, proc[w])
      /\ p.pago = proc[w].pago /\ p.then = proc[w].then /\ p.cols = cols
  BY <1>1, <1>3 DEF Proc, Stages, Same
<1> HIDE DEF p
<1>5. Shape(p)
  BY <1>1, <1>4 DEF Shape, Saves, Same
<1>. QED  BY <1>1, <1>2, <1>4, <1>5 DEF SavePayment, cols

LEMMA FlushIs ==
    ASSUME ShapeInv, NEW w \in Workers, FlushPayment(w)
    PROVE  LET b == proc[w].b
               row == PaymentUpdate(proc[w].pago, payment[b], proc[w].cols)
           IN  /\ proc[w].at = "flush"
               /\ UNCHANGED <<window, routeActive, booking, order, cache, faults>>
               /\ payment' = [payment EXCEPT ![b] = row] /\ row \in Payment
               /\ \E p \in Proc :
                    /\ Become(w, p) /\ Shape(p)
                    /\ \/ p = Idle /\ proc[w].todo \subseteq {b} /\ proc[w].op # "createPaypalOrder"
                       \/ p.at = "store" /\ Same(p, proc[w])
                       \/ /\ p.at = "save" /\ Same(p, proc[w]) /\ p.then = "next"
                          /\ proc[w].then = "catch" /\ p.op \in {"cancelBooking", "cancelRoute"}
                          /\ p.pago = Failed(p.pagos[b])
                       \/ /\ p.at = "loop" /\ p.todo = proc[w].todo \ {b} /\ p.op = "cancelRoute"
                          /\ proc[w].op = "cancelRoute" /\ p.pagos = proc[w].pagos
<1> DEFINE b == proc[w].b
           row == PaymentUpdate(proc[w].pago, payment[b], proc[w].cols)
           p == [proc[w] EXCEPT !.at = "store"]
<1>1. /\ proc[w].at = "flush" /\ Shape(proc[w]) /\ proc[w] \in Proc /\ Saves(proc[w])
      /\ proc[w].todo \subseteq Bookings
  BY HandlerIs DEF FlushPayment, Saves
<1>2. UNCHANGED <<window, routeActive, booking, order, cache, faults>>
      /\ payment' = [payment EXCEPT ![b] = row]
  BY DEF FlushPayment
<1>3. row \in Payment
  BY HandlerIs, RowOperators
<1> DEFINE Ways(q) ==
        \/ q = Idle /\ proc[w].todo \subseteq {b} /\ proc[w].op # "createPaypalOrder"
        \/ q.at = "store" /\ Same(q, proc[w])
        \/ /\ q.at = "save" /\ Same(q, proc[w]) /\ q.then = "next"
           /\ proc[w].then = "catch" /\ q.op \in {"cancelBooking", "cancelRoute"}
           /\ q.pago = Failed(q.pagos[b])
        \/ /\ q.at = "loop" /\ q.todo = proc[w].todo \ {b} /\ q.op = "cancelRoute"
           /\ proc[w].op = "cancelRoute" /\ q.pagos = proc[w].pagos
<1>4. proc[w].then \in {"done", "store", "catch", "next"}
  BY HandlerIs
<1>5. CASE proc[w].then = "done"
  <2>1. Become(w, Idle)
    BY <1>5 DEF FlushPayment, Done
  <2>2. proc[w].todo = {} /\ proc[w].op # "createPaypalOrder"
    BY <1>1, <1>5 DEF Shape
  <2>. QED  BY <1>1, <1>2, <1>3, <2>1, <2>2, IdleType
<1>6. CASE proc[w].then = "store"
  <2>1. Become(w, p)
    BY <1>6 DEF FlushPayment
  <2>2. p \in Proc /\ p.at = "store" /\ Same(p, proc[w])
    BY <1>1, AtIs DEF Stages, Same
  <2> HIDE DEF p
  <2>3. Shape(p)
    BY <1>1, <1>6, <2>2 DEF Shape, Saves, Same
  <2>. QED  BY <1>1, <1>2, <1>3, <2>1, <2>2, <2>3
<1>7. CASE proc[w].then = "catch"
  <2>1. Throw(w)
    BY <1>7 DEF FlushPayment
  <2>2. proc[w].op \in Reversers
    BY <1>1, <1>7 DEF Shape
  <2>3. PICK q \in Proc :
              /\ Become(w, q) /\ Shape(q)
              /\ IF proc[w].op = "reversePayment" THEN q = Idle
                 ELSE /\ q.at = "save" /\ Same(q, proc[w]) /\ q.then = "next"
                      /\ q.pago = Failed(proc[w].pagos[b])
    BY <2>1, <2>2, ThrowIs
  <2>4. proc[w].op = "reversePayment" => proc[w].todo = {}
    BY <1>1 DEF Shape
  <2>5. Ways(q)
    BY <1>7, <2>2, <2>3, <2>4 DEF Same, Reversers
  <2>. QED  BY <1>1, <1>2, <1>3, <2>3, <2>5
<1>8. CASE proc[w].then = "next"
  <2>1. LoopOn(w, proc[w].todo \ {b})
    BY <1>8 DEF FlushPayment
  <2>2. proc[w].op # "cancelRoute" => proc[w].todo \ {b} = {}
    BY <1>1 DEF Shape
  <2>3. PICK q \in Proc :
              /\ Become(w, q) /\ Shape(q)
              /\ IF proc[w].todo \ {b} = {} THEN q = Idle
                 ELSE /\ q.at = "loop" /\ q.todo = proc[w].todo \ {b} /\ q.op = "cancelRoute"
                      /\ q.pagos = proc[w].pagos
    BY <1>1, <2>1, <2>2, LoopOnIs
  <2>4. proc[w].op # "createPaypalOrder"
    BY <1>1, <1>8 DEF Shape
  <2>5. Ways(q)
    BY <2>2, <2>3, <2>4
  <2>. QED  BY <1>1, <1>2, <1>3, <2>3, <2>5
<1>. QED  BY <1>4, <1>5, <1>6, <1>7, <1>8

(* PayPal's answer is a refusal, or is lost with what it has done. *)
LEMMA RefusesIs ==
    ASSUME ShapeInv, NEW w \in Workers, PaypalRefuses(w)
    PROVE  /\ proc[w].at \in {"order", "capture"} /\ Become(w, Idle)
           /\ UNCHANGED <<window, routeActive, booking, payment, order, cache, faults>>
BY DEF PaypalRefuses, Done

LEMMA StoreAnswerIs ==
    ASSUME ShapeInv, NEW w \in Workers, StoreAnswer(w)
    PROVE  /\ proc[w].at = "store" /\ proc[w].op \in Answering /\ Become(w, Idle)
           /\ UNCHANGED <<window, routeActive, booking, payment, order, faults>>
           /\ cache' = IF proc[w].key = NoKey THEN cache
                       ELSE cache \cup {<<proc[w].op, proc[w].b, proc[w].key>>}
BY HandlerIs DEF StoreAnswer, Done, Shape

LEMMA AnswerLostIs ==
    ASSUME ShapeInv, NEW w \in Workers, AnswerLost(w)
    PROVE  /\ faults < MaxFaults /\ faults' = faults + 1
           /\ UNCHANGED <<window, routeActive, booking, payment, cache>>
           /\ \/ /\ proc[w].at = "order" /\ Become(w, Idle)
                 /\ \E o \in Orders : Orderable(o) /\ PlaceOrder(o, proc[w].b, proc[w].key)
              \/ /\ proc[w].at = "capture" /\ Become(w, Idle)
                 /\ CaptureMoney(proc[w].pago.paypalOrderId)
              \/ /\ proc[w].at = "refund" /\ proc[w].op \in Reversers
                 /\ proc[w].pago.paypalCaptureId # NoOrder /\ RefundMoney(proc[w].pago.paypalCaptureId)
                 /\ \E p \in Proc :
                        /\ Become(w, p) /\ Shape(p) /\ p.at = "save" /\ Same(p, proc[w])
                        /\ p.then = "catch" /\ p.pago = Failed(proc[w].pago)
<1>1. /\ faults < MaxFaults /\ faults' = faults + 1
      /\ UNCHANGED <<window, routeActive, booking, payment, cache>>
  BY DEF AnswerLost
<1>2. CASE /\ proc[w].at = "order" /\ Done(w)
           /\ \E o \in Orders : Orderable(o) /\ PlaceOrder(o, proc[w].b, proc[w].key)
  BY <1>1, <1>2 DEF Done
<1>3. CASE proc[w].at = "capture" /\ CaptureMoney(proc[w].pago.paypalOrderId) /\ Done(w)
  BY <1>1, <1>3 DEF Done
<1>4. CASE /\ proc[w].at = "refund" /\ proc[w].pago.paypalCaptureId # NoOrder
           /\ RefundMoney(proc[w].pago.paypalCaptureId)
           /\ Become(w, Saving(proc[w], Failed(proc[w].pago), "catch"))
  <2>1. /\ proc[w].op \in Reversers
        /\ \E p \in Proc :
                /\ Become(w, p) /\ Shape(p) /\ p.at = "save" /\ Same(p, proc[w]) /\ p.then = "catch"
                /\ p.pago = Failed(proc[w].pago)
    BY <1>4, RefusesRefundIs
  <2>. QED  BY <1>1, <1>4, <2>1
<1>. QED  BY <1>2, <1>3, <1>4 DEF AnswerLost

-----------------------------------------------------------------------------
(* The types. *)

LEMMA OrdersKeepType ==
    ASSUME ShapeInv
    PROVE  /\ \A o \in Orders, b \in Bookings, key \in Keys \cup {NoKey} :
                PlaceOrder(o, b, key) => order' \in [Orders -> PaypalOrder]
           /\ \A o : CaptureMoney(o) => order' \in [Orders -> PaypalOrder]
           /\ \A o : RefundMoney(o) => order' \in [Orders -> PaypalOrder]
<1>1. order \in [Orders -> PaypalOrder]
  BY DEF ShapeInv, TypeOK
<1>2. ASSUME NEW o \in Orders, NEW b \in Bookings, NEW key \in Keys \cup {NoKey}, PlaceOrder(o, b, key)
      PROVE  order' \in [Orders -> PaypalOrder]
  <2>1. [b |-> b, key |-> key, state |-> "created"] \in PaypalOrder
    BY DEF PaypalOrder
  <2>. QED  BY <1>1, <1>2, <2>1 DEF PlaceOrder
<1>3. ASSUME NEW o, NEW state \in {"captured", "refunded"}, order' = [order EXCEPT ![o].state = state]
      PROVE  order' \in [Orders -> PaypalOrder]
  <2>1. CASE o \in Orders
    <3>1. [order[o] EXCEPT !.state = state] \in PaypalOrder
      BY <1>1, <2>1 DEF PaypalOrder
    <3>2. order' = [order EXCEPT ![o] = [order[o] EXCEPT !.state = state]]
      BY <1>3
    <3>. QED  BY <1>1, <3>1, <3>2
  <2>2. CASE o \notin Orders
    BY <1>1, <1>3, <2>2
  <2>. QED  BY <2>1, <2>2
<1>. QED  BY <1>2, <1>3 DEF CaptureMoney, RefundMoney

LEMMA KeepsShape ==
    ASSUME ShapeInv, NEW w \in Workers, NEW p \in Proc, Become(w, p), Shape(p),
           window' \in {"early", "late", "departed"}, routeActive' \in BOOLEAN,
           booking' \in [Bookings -> {"CONFIRMADA", "CANCELADA", "COMPLETADA", "NO_SHOW"}],
           payment' \in [Bookings -> Payment], order' \in [Orders -> PaypalOrder],
           cache' \subseteq Ops \X Bookings \X Keys, faults' \in 0..MaxFaults
    PROVE  ShapeInv'
<1>1. proc' = [proc EXCEPT ![w] = p] /\ proc \in [Workers -> Proc]
  BY DEF Become, ShapeInv, TypeOK
<1>2. proc' \in [Workers -> Proc]
  BY <1>1
<1>3. \A v \in Workers : Shape(proc'[v])
  BY <1>1 DEF ShapeInv
<1>4. TypeOK'
  BY <1>2 DEF TypeOK
<1>5. \A v \in Workers : Shape(proc[v])'
  BY <1>3 DEF Shape, Saves
<1>. QED  BY <1>4, <1>5 DEF ShapeInv

LEMMA QuietKeepsShape ==
    ASSUME ShapeInv, NEW w \in Workers, NEW p \in Proc, Become(w, p), Shape(p),
           UNCHANGED <<window, routeActive, booking, payment, order, cache, faults>>
    PROVE  ShapeInv'
BY KeepsShape DEF ShapeInv, TypeOK

LEMMA ContinueKeepsShape ==
    ASSUME ShapeInv, NEW w \in Workers, Continue(w)
    PROVE  ShapeInv'
<1>0. /\ booking \in [Bookings -> {"CONFIRMADA", "CANCELADA", "COMPLETADA", "NO_SHOW"}]
      /\ payment \in [Bookings -> Payment] /\ order \in [Orders -> PaypalOrder]
      /\ cache \subseteq Ops \X Bookings \X Keys /\ faults \in 0..MaxFaults
      /\ window \in {"early", "late", "departed"} /\ routeActive \in BOOLEAN
      /\ proc[w].b \in Bookings /\ proc[w].key \in Keys \cup {NoKey}
  BY HandlerIs DEF ShapeInv, TypeOK
<1>1. CASE InsertPayment(w)
  <2> DEFINE b == proc[w].b
  <2>1. CASE /\ payment[b] = NoPayment /\ payment' = [payment EXCEPT ![b].status = "PENDING"]
             /\ \E p \in Proc : Become(w, p) /\ Shape(p)
    <3>1. [NoPayment EXCEPT !.status = "PENDING"] \in Payment
      BY NoPaymentType DEF Payment, EstadoPago
    <3>2. payment' = [payment EXCEPT ![b] = [NoPayment EXCEPT !.status = "PENDING"]]
      BY <1>0, <2>1
    <3>3. payment' \in [Bookings -> Payment]
      BY <1>0, <3>1, <3>2
    <3>. QED  BY <1>0, <1>1, <2>1, <3>3, InsertIs, KeepsShape
  <2>2. CASE UNCHANGED payment /\ Become(w, Idle)
    BY <1>1, <2>2, InsertIs, IdleType, QuietKeepsShape
  <2>. QED  BY <1>1, <2>1, <2>2, InsertIs
<1>2. CASE StoreAnswer(w)
  <2>1. cache' \subseteq Ops \X Bookings \X Keys
    <3>1. proc[w].op \in Ops /\ (proc[w].key # NoKey => proc[w].key \in Keys)
      BY <1>0, <1>2, StoreAnswerIs DEF Answering, Ops
    <3>. QED  BY <1>0, <1>2, <3>1, StoreAnswerIs
  <2>. QED  BY <1>0, <1>2, <2>1, StoreAnswerIs, IdleType, KeepsShape
<1>3. CASE ReadToReverse(w)
  <2>1. \E p \in Proc : Become(w, p) /\ Shape(p)
    BY <1>3, ReadToReverseIs, ThrowIs
  <2>. QED  BY <1>3, <2>1, ReadToReverseIs, QuietKeepsShape
<1>4. CASE WriteBooking(w)
  <2>1. \E p \in Proc : Become(w, p) /\ Shape(p)
    BY <1>4, WriteBookingIs, IdleType
  <2>2. booking' \in [Bookings -> {"CONFIRMADA", "CANCELADA", "COMPLETADA", "NO_SHOW"}]
    BY <1>0, <1>4, WriteBookingIs
  <2>. QED  BY <1>0, <1>4, <2>1, <2>2, WriteBookingIs, KeepsShape
<1>5. CASE PaypalCaptures(w)
  BY <1>0, <1>5, CapturesIs, OrdersKeepType, KeepsShape
<1>6. CASE PaypalRefuses(w)
  BY <1>6, RefusesIs, IdleType, QuietKeepsShape
<1>7. CASE PaypalRefunds(w)
  <2>1. order' \in [Orders -> PaypalOrder]
    BY <1>0, <1>7, RefundsIs, OrdersKeepType
  <2>. QED  BY <1>0, <1>7, <2>1, RefundsIs, KeepsShape
<1>8. CASE PaypalRefusesRefund(w)
  BY <1>8, RefusesRefundIs, QuietKeepsShape DEF PaypalRefusesRefund
<1>9. CASE ReadPayment(w)
  BY <1>9, ReadPaymentIs, QuietKeepsShape
<1>10. CASE CloseRoute(w) \/ CancelRouteBookings(w)
  <2>1. booking' \in [Bookings -> {"CONFIRMADA", "CANCELADA", "COMPLETADA", "NO_SHOW"}]
    BY <1>0, <1>10, ClosingIs
  <2>. QED  BY <1>0, <1>10, <2>1, ClosingIs, KeepsShape
<1>11. CASE SelectPayments(w)
  BY <1>11, SelectIs, QuietKeepsShape
<1>12. CASE SavePayment(w)
  BY <1>12, SaveIs, QuietKeepsShape
<1>13. CASE FlushPayment(w)
  <2>1. payment' \in [Bookings -> Payment]
    BY <1>0, <1>13, FlushIs
  <2>2. \E p \in Proc : Become(w, p) /\ Shape(p)
    BY <1>13, FlushIs
  <2>. QED  BY <1>0, <1>13, <2>1, <2>2, FlushIs, KeepsShape
<1>14. ASSUME NEW o \in Orders, PaypalOrders(w, o)
       PROVE  ShapeInv'
  BY <1>0, <1>14, PaypalOrdersIs, OrdersKeepType, KeepsShape
<1>15. ASSUME NEW b \in Bookings, PayBack(w, b)
       PROVE  ShapeInv'
  BY <1>15, PayBackIs, QuietKeepsShape
<1>. QED
  BY <1>1, <1>2, <1>3, <1>4, <1>5, <1>6, <1>7, <1>8, <1>9, <1>10, <1>11, <1>12, <1>13, <1>14, <1>15
  DEF Continue

LEMMA NextKeepsShape == ShapeInv /\ [Next]_vars => ShapeInv'
<1> SUFFICES ASSUME ShapeInv, [Next]_vars
             PROVE  ShapeInv'
  OBVIOUS
<1>0. /\ booking \in [Bookings -> {"CONFIRMADA", "CANCELADA", "COMPLETADA", "NO_SHOW"}]
      /\ payment \in [Bookings -> Payment] /\ order \in [Orders -> PaypalOrder]
      /\ cache \subseteq Ops \X Bookings \X Keys /\ faults \in 0..MaxFaults
      /\ window \in {"early", "late", "departed"} /\ routeActive \in BOOLEAN
      /\ MaxFaults \in Nat
  BY PaymentAssumption DEF ShapeInv, TypeOK
<1>1. faults < MaxFaults /\ faults' = faults + 1 => faults' \in 0..MaxFaults
  <2>1. PICK n \in Nat : n = faults
    BY <1>0
  <2>2. n < MaxFaults => n + 1 \in 0..MaxFaults
    BY <1>0, <2>1
  <2>. QED  BY <2>1, <2>2
<1>2. ASSUME NEW w \in Workers, Calls(w)
      PROVE  ShapeInv'
  BY <1>2, CallsStart, QuietKeepsShape DEF Started
<1>3. ASSUME NEW w \in Workers, Continue(w)
      PROVE  ShapeInv'
  BY <1>3, ContinueKeepsShape
<1>4. ASSUME NEW w \in Workers, PaypalCapturesWithoutDetails(w)
      PROVE  ShapeInv'
  BY <1>0, <1>1, <1>4, WithoutDetailsIs, OrdersKeepType, KeepsShape
<1>5. ASSUME NEW w \in Workers, AnswerLost(w)
      PROVE  ShapeInv'
  <2>1. order' \in [Orders -> PaypalOrder]
    BY <1>5, AnswerLostIs, OrdersKeepType, HandlerIs
  <2>2. \E p \in Proc : Become(w, p) /\ Shape(p)
    BY <1>5, AnswerLostIs, IdleType
  <2>. QED  BY <1>0, <1>1, <1>5, <2>1, <2>2, AnswerLostIs, KeepsShape
<1>6. ASSUME NEW w \in Workers, Fail(w)
      PROVE  ShapeInv'
  BY <1>0, <1>1, <1>6, IdleType, KeepsShape DEF Fail, Done
<1>7. CASE Tick \/ UNCHANGED vars
  <2>1. UNCHANGED <<routeActive, booking, payment, order, cache, proc, faults>>
        /\ window' \in {"early", "late", "departed"}
    BY <1>0, <1>7 DEF Tick, vars
  <2>2. TypeOK'
    BY <2>1 DEF ShapeInv, TypeOK
  <2>3. \A w \in Workers : Shape(proc[w])'
    BY <2>1 DEF ShapeInv, Shape, Saves
  <2>. QED  BY <2>2, <2>3 DEF ShapeInv
<1>. QED  BY <1>2, <1>3, <1>4, <1>5, <1>6, <1>7 DEF Next

LEMMA InitShape == Init => ShapeInv
<1> SUFFICES ASSUME Init
             PROVE  ShapeInv
  OBVIOUS
<1>1. NoPaypalOrder \in PaypalOrder
  BY DEF NoPaypalOrder, PaypalOrder
<1>2. TypeOK
  BY <1>1, NoPaymentType, IdleType, PaymentAssumption DEF Init, TypeOK
<1>3. \A w \in Workers : Shape(proc[w])
  BY IdleType DEF Init
<1>. QED  BY <1>2, <1>3 DEF ShapeInv

(* TypeOK: payments, orders, answers and what handlers hold keep their         *)
(* domains, whatever runs beside what.                                         *)
THEOREM TypeCorrect == Spec => []TypeOK
<1>1. ShapeInv => TypeOK
  BY DEF ShapeInv
<1>. QED  BY <1>1, InitShape, NextKeepsShape, PTL DEF Spec

-----------------------------------------------------------------------------
(* Who may run beside whom: the hypothesis of what follows.  A payment may be  *)
(* submitted beside another or beside one of the PayPal calls, and an          *)
(* administrator may reverse beside the passenger who pays; whatever cancels   *)
(* runs alone, and so do two PayPal calls of the passengers, and two           *)
(* reversals: those do not compose.                                            *)

Beside(a, b) ==
    /\ a \in Answering /\ b \in Answering
    /\ \/ "createPayment" \in {a, b}
       \/ a = "reversePayment" /\ b \in {"createPaypalOrder", "capturePaypalOrder"}
       \/ b = "reversePayment" /\ a \in {"createPaypalOrder", "capturePaypalOrder"}

Composes ==
    \A v, w \in Workers : v # w =>
        \A a \in Offers[v], b \in Offers[w] : <<a, b>> \in Overlap => Beside(a, b)

RunInv ==
    /\ \A w \in Workers : proc[w].at # "idle" => proc[w].op \in Offers[w]
    /\ \A v, w \in Workers : v # w /\ proc[v].at # "idle" /\ proc[w].at # "idle" =>
            Beside(proc[v].op, proc[w].op)

-----------------------------------------------------------------------------
(* What a row says of PayPal, and what a handler knows of the row it writes.   *)

RowTrue(b, row, ord) ==
    LET o == row.paypalOrderId
        c == row.paypalCaptureId
    IN  /\ o # NoOrder => ord[o].b = b /\ ord[o].state # "none"
        /\ c # NoOrder => /\ c = o /\ ord[c].state \in {"captured", "refunded"}
                          /\ row.status \in {"PAID", "REVERSED", "FAILED"}
        /\ row.status \in {"PAID", "REVERSED"} => c # NoOrder
        /\ row.status = "REVERSED" => ord[c].state = "refunded"
        /\ row.status = "none" => row = NoPayment

\* What a handler that is about to save knows of the row.
SaveHolds(p, row, ord) ==
    /\ RowTrue(p.b, p.pago, ord) /\ p.pago.status # "none"
    /\ row.status \notin {"none", "REVERSED"}
    /\ row.paypalCaptureId # NoOrder => p.pago.paypalCaptureId = row.paypalCaptureId
    /\ p.pago.status = "PENDING" => row.status = "PENDING"
    /\ p.pago.status = "PAID" /\ row.status # "PAID" => ord[p.pago.paypalCaptureId].state = "captured"
    /\ p.op = "createPaypalOrder" => row.status = "PENDING"
    /\ p.op = "capturePaypalOrder" => row.status \in {"PENDING", "FAILED"} /\ p.pago.status # "PENDING"
    /\ p.op = "reversePayment" => row.status = "PAID" /\ p.pago.status # "PAID"
    /\ p.op \in {"cancelBooking", "cancelRoute", "markNoShow"} => p.pago.status # "PENDING"
    /\ p.op \in {"cancelBooking", "cancelRoute"} /\ p.then = "catch" => p.pago = Failed(p.pagos[p.b])

LoopHolds(p, pay) ==
    \A x \in p.todo : p.at = "loop" \/ x # p.b =>
        pay[x] = p.pagos[x] /\ pay[x].status \in {"PAID", "PENDING"}

Holds(p, pay, ord) ==
    LET row == pay[p.b]
    IN  /\ p.at = "order" => row = p.pago /\ row.status = "PENDING"
        /\ p.at = "capture" =>
              /\ p.pago.paypalOrderId # NoOrder /\ ord[p.pago.paypalOrderId].state # "none"
              /\ ord[p.pago.paypalOrderId].state = "created" => row = p.pago
        /\ p.at \in {"reverse", "refund"} /\ p.op # "reversePayment" =>
              row = p.pagos[p.b] /\ row.status = "PAID"
        /\ p.at = "refund" => row = p.pago /\ row.status = "PAID"
        /\ Saves(p) => SaveHolds(p, row, ord)
        /\ p.at = "flush" => p.cols = PaymentDiff(p.pago, row)
        /\ p.op = "cancelRoute" => LoopHolds(p, pay)

RowsTrue == \A b \in Bookings : RowTrue(b, payment[b], order)
HoldInv == RunInv /\ RowsTrue /\ \A w \in Workers : Holds(proc[w], payment, order)

Inv == ShapeInv /\ HoldInv

\* Orders only go on: created, captured, refunded.
Grew(ord1, ord2) ==
    \A o \in Orders :
        /\ ord1[o].state # "none" => ord2[o].b = ord1[o].b /\ ord2[o].state # "none"
        /\ ord1[o].state \in {"captured", "refunded"} => ord2[o].state \in {"captured", "refunded"}
        /\ ord1[o].state = "refunded" => ord2[o].state = "refunded"

LEMMA RowTrueGrows ==
    ASSUME NEW b, NEW row \in Payment, NEW ord1, NEW ord2, Grew(ord1, ord2), RowTrue(b, row, ord1)
    PROVE  RowTrue(b, row, ord2)
<1>1. row.paypalOrderId \in Orders \cup {NoOrder} /\ row.paypalCaptureId \in Orders \cup {NoOrder}
  BY DEF Payment
<1>. QED  BY <1>1 DEF RowTrue, Grew

LEMMA IdleHolds == \A pay, ord : Holds(Idle, pay, ord)
  BY IdleType DEF Holds, Saves

LEMMA FailedIsTrue ==
    ASSUME NEW b, NEW row \in Payment, NEW ord, RowTrue(b, row, ord), row.status # "none"
    PROVE  RowTrue(b, Failed(row), ord)
  BY FailedIs DEF RowTrue

(* A handler beside the one that steps. *)
LEMMA HoldsBeside ==
    ASSUME NEW p \in Proc, NEW pay1, NEW pay2, NEW ord1, NEW ord2,
           Shape(p), p.op \in Answering, Holds(p, pay1, ord1), Grew(ord1, ord2),
           p.at \in {"order", "refund", "save", "flush"} => pay2[p.b] = pay1[p.b],
           p.at = "capture" /\ ord2[p.pago.paypalOrderId].state = "created" =>
                ord1[p.pago.paypalOrderId].state = "created" /\ pay2[p.b] = pay1[p.b],
           Saves(p) /\ p.pago.status = "PAID" /\ pay1[p.b].status # "PAID" =>
                ord2[p.pago.paypalCaptureId].state = "captured"
    PROVE  Holds(p, pay2, ord2)
<1>0. p.pago \in Payment /\ p.pago.paypalOrderId \in Orders \cup {NoOrder}
  BY DEF Proc, Payment
<1>1. p.op \notin {"cancelRoute", "cancelBooking", "markNoShow"}
  BY DEF Answering
<1>2. ASSUME Saves(p)
      PROVE  SaveHolds(p, pay2[p.b], ord2)
  <2>1. pay2[p.b] = pay1[p.b] /\ SaveHolds(p, pay1[p.b], ord1)
    BY <1>2 DEF Holds, Saves
  <2>2. RowTrue(p.b, p.pago, ord2)
    BY <1>0, <2>1, RowTrueGrows DEF SaveHolds
  <2>. QED  BY <1>1, <1>2, <2>1, <2>2 DEF SaveHolds
<1>3. ASSUME p.at = "capture"
      PROVE  /\ p.pago.paypalOrderId # NoOrder /\ ord2[p.pago.paypalOrderId].state # "none"
             /\ ord2[p.pago.paypalOrderId].state = "created" => pay2[p.b] = p.pago
  <2>1. /\ p.pago.paypalOrderId # NoOrder /\ ord1[p.pago.paypalOrderId].state # "none"
        /\ ord1[p.pago.paypalOrderId].state = "created" => pay1[p.b] = p.pago
    BY <1>3 DEF Holds
  <2>2. ord2[p.pago.paypalOrderId].state # "none"
    BY <1>0, <2>1 DEF Grew
  <2>. QED  BY <1>3, <2>1, <2>2
<1>4. p.at = "order" => pay2[p.b] = p.pago /\ pay2[p.b].status = "PENDING"
  BY DEF Holds
<1>5. p.at = "refund" => pay2[p.b] = p.pago /\ pay2[p.b].status = "PAID"
  BY DEF Holds
<1>6. p.at = "flush" => p.cols = PaymentDiff(p.pago, pay2[p.b])
  BY DEF Holds
<1>7. p.at \in {"reverse", "refund"} => p.op = "reversePayment"
  BY <1>1 DEF Shape, Reversers
<1>. QED  BY <1>1, <1>2, <1>3, <1>4, <1>5, <1>6, <1>7 DEF Holds

(* A step of one slot, and what the others need of it. *)
LEMMA SlotKeepsInv ==
    ASSUME Inv, ShapeInv', NEW w \in Workers, NEW p \in Proc, Become(w, p),
           proc[w].at # "idle", p.at # "idle" => p.op = proc[w].op,
           \A b \in Bookings : RowTrue(b, payment'[b], order'),
           Holds(p, payment', order'),
           \A v \in Workers \ {w} : Beside(proc[v].op, proc[w].op) => Holds(proc[v], payment', order')
    PROVE  Inv'
<1>1. proc' = [proc EXCEPT ![w] = p] /\ proc \in [Workers -> Proc]
  BY DEF Become, Inv, ShapeInv, TypeOK
<1>2. proc'[w] = p /\ \A v \in Workers \ {w} : proc'[v] = proc[v]
  BY <1>1
<1>3. RunInv'
  <2>1. /\ \A v \in Workers : proc[v].at # "idle" => proc[v].op \in Offers[v]
        /\ \A u, v \in Workers : u # v /\ proc[u].at # "idle" /\ proc[v].at # "idle" =>
                Beside(proc[u].op, proc[v].op)
    BY DEF Inv, HoldInv, RunInv
  <2>2. \A v \in Workers : proc'[v].at # "idle" => proc[v].at # "idle" /\ proc'[v].op = proc[v].op
    BY <1>2
  <2>. QED  BY <2>1, <2>2 DEF RunInv
<1>4. ASSUME NEW v \in Workers
      PROVE  Holds(proc'[v], payment', order')
  <2>1. CASE v = w
    BY <1>2, <2>1
  <2>2. CASE v # w
    <3>1. proc'[v] = proc[v]
      BY <1>2, <2>2
    <3>2. CASE proc[v].at = "idle"
      <4>1. proc[v] = Idle
        BY <3>2, HandlerIs DEF Inv, Shape
      <4>. QED  BY <3>1, <4>1, IdleHolds
    <3>3. CASE proc[v].at # "idle"
      <4>1. Beside(proc[v].op, proc[w].op)
        BY <2>2, <3>3 DEF Inv, HoldInv, RunInv
      <4>. QED  BY <2>2, <3>1, <4>1
    <3>. QED  BY <3>2, <3>3
  <2>. QED  BY <2>1, <2>2
<1>5. RowsTrue'
  BY DEF RowsTrue
<1>6. \A v \in Workers : Holds(proc[v], payment, order)'
  BY <1>4 DEF Holds, SaveHolds, LoopHolds, RowTrue, Saves
<1>. QED  BY <1>3, <1>5, <1>6 DEF Inv, HoldInv

(* A step that changes neither the payments nor PayPal's orders. *)
LEMMA QuietKeepsInv ==
    ASSUME Inv, ShapeInv', NEW w \in Workers, NEW p \in Proc, Become(w, p),
           proc[w].at # "idle", p.at # "idle" => p.op = proc[w].op,
           UNCHANGED <<payment, order>>, Holds(p, payment, order)
    PROVE  Inv'
<1>1. \A b \in Bookings : RowTrue(b, payment'[b], order')
  BY DEF Inv, HoldInv, RowsTrue
<1>2. Holds(p, payment', order')
  OBVIOUS
<1>3. \A v \in Workers : Holds(proc[v], payment', order')
  BY DEF Inv, HoldInv
<1>. QED  BY <1>1, <1>2, <1>3, SlotKeepsInv

LEMMA CallsKeepInv ==
    ASSUME Composes, Inv, ShapeInv', NEW w \in Workers, Calls(w)
    PROVE  Inv'
<1>1. PICK op \in Ops : Called(w, op) /\ \E p \in Proc : Become(w, p) /\ Started(p, op)
  BY CallsStart DEF Inv
<1>2. PICK p \in Proc : Become(w, p) /\ Started(p, op)
  BY <1>1
<1>3. UNCHANGED <<payment, order>>
  BY CallsStart DEF Inv
<1>4. proc' = [proc EXCEPT ![w] = p] /\ proc \in [Workers -> Proc]
  BY <1>2 DEF Become, Inv, ShapeInv, TypeOK
<1>5. proc'[w] = p /\ \A v \in Workers \ {w} : proc'[v] = proc[v]
  BY <1>4
<1>6. p.op = op /\ p.todo = {} /\ Shape(p) /\ p.b \in Bookings
  BY <1>2 DEF Started, Proc
<1>7. RunInv'
  <2>1. op \in Offers[w] /\ \A v \in Workers : proc[v].at # "idle" => <<proc[v].op, op>> \in Overlap
    BY <1>1 DEF Called
  <2>2. /\ \A v \in Workers : proc[v].at # "idle" => proc[v].op \in Offers[v]
        /\ \A u, v \in Workers : u # v /\ proc[u].at # "idle" /\ proc[v].at # "idle" =>
                Beside(proc[u].op, proc[v].op)
    BY DEF Inv, HoldInv, RunInv
  <2>3. \A v \in Workers \ {w} : proc[v].at # "idle" => Beside(proc[v].op, op)
    BY <2>1, <2>2 DEF Composes
  <2>4. \A a, b : Beside(a, b) => Beside(b, a)
    BY DEF Beside
  <2>5. \A v \in Workers : proc'[v].at # "idle" => proc'[v].op \in Offers[v]
    BY <1>5, <1>6, <2>1, <2>2
  <2>6. ASSUME NEW u \in Workers, NEW v \in Workers, u # v, proc'[u].at # "idle", proc'[v].at # "idle"
        PROVE  Beside(proc'[u].op, proc'[v].op)
    <3>1. CASE u = w
      BY <1>5, <1>6, <2>3, <2>4, <2>6, <3>1
    <3>2. CASE v = w
      BY <1>5, <1>6, <2>3, <2>6, <3>2
    <3>3. CASE u # w /\ v # w
      BY <1>5, <2>2, <2>6, <3>3
    <3>. QED  BY <3>1, <3>2, <3>3
  <2>. QED  BY <2>5, <2>6 DEF RunInv
<1>8. Holds(p, payment, order)
  <2>1. CASE p.at = "capture"
    <3>1. p.pago = payment[p.b] /\ p.pago.paypalOrderId # NoOrder /\ RowTrue(p.b, payment[p.b], order)
          /\ p.op = "capturePaypalOrder"
      BY <1>2, <1>6, <2>1 DEF Started, Inv, HoldInv, RowsTrue, Shape
    <3>. QED  BY <2>1, <3>1 DEF Holds, Saves, RowTrue
  <2>2. CASE p.at = "order"
    <3>1. p.pago = payment[p.b] /\ p.pago.status = "PENDING" /\ p.op = "createPaypalOrder"
      BY <1>2, <1>6, <2>2 DEF Started, Shape
    <3>. QED  BY <2>2, <3>1 DEF Holds, Saves
  <2>3. CASE p.at \notin {"capture", "order"}
    <3>1. p.at \in {"insert", "reverse", "tx", "close"} /\ (p.at = "reverse" => p.op = "reversePayment")
      BY <1>2, <1>6, <2>3 DEF Started
    <3>. QED  BY <1>6, <3>1 DEF Holds, Saves, LoopHolds
  <2>. QED  BY <2>1, <2>2, <2>3
<1>9. ASSUME NEW v \in Workers
      PROVE  Holds(proc'[v], payment', order')
  <2>1. \A u \in Workers : Holds(proc[u], payment, order)
    BY DEF Inv, HoldInv
  <2>. QED  BY <1>3, <1>5, <1>8, <2>1
<1>10. RowsTrue'
  BY <1>3 DEF Inv, HoldInv, RowsTrue, RowTrue
<1>11. \A v \in Workers : Holds(proc[v], payment, order)'
  BY <1>9 DEF Holds, SaveHolds, LoopHolds, RowTrue, Saves
<1>. QED  BY <1>7, <1>10, <1>11 DEF Inv, HoldInv

LEMMA InvFacts ==
    ASSUME Inv, NEW w \in Workers
    PROVE  /\ ShapeInv /\ Holds(proc[w], payment, order) /\ Shape(proc[w]) /\ proc[w] \in Proc
           /\ RowTrue(proc[w].b, payment[proc[w].b], order)
           /\ proc[w].b \in Bookings /\ proc[w].pago \in Payment /\ payment[proc[w].b] \in Payment
           /\ payment \in [Bookings -> Payment] /\ order \in [Orders -> PaypalOrder]
  BY HandlerIs DEF Inv, HoldInv, RowsTrue, ShapeInv, TypeOK

LEMMA OrderSteps ==
    ASSUME Inv
    PROVE  /\ \A o \in Orders, b \in Bookings, key \in Keys \cup {NoKey} :
                Orderable(o) /\ PlaceOrder(o, b, key) =>
                    /\ Grew(order, order')
                    /\ order'[o].b = b /\ order'[o].state = "created" /\ order'[o].key = key
                    /\ \A x \in Orders \ {o} : order'[x] = order[x]
           /\ \A o \in Orders : CaptureMoney(o) =>
                    /\ Grew(order, order') /\ order[o].state = "created"
                    /\ order'[o].b = order[o].b /\ order'[o].key = order[o].key
                    /\ order'[o].state = "captured"
                    /\ \A x \in Orders \ {o} : order'[x] = order[x]
           /\ \A o \in Orders : RefundMoney(o) =>
                    /\ Grew(order, order') /\ order[o].state = "captured"
                    /\ order'[o].b = order[o].b /\ order'[o].key = order[o].key
                    /\ order'[o].state = "refunded"
                    /\ \A x \in Orders \ {o} : order'[x] = order[x]
<1>1. order \in [Orders -> PaypalOrder]
  BY DEF Inv, ShapeInv, TypeOK
<1>2. ASSUME NEW o \in Orders, NEW b \in Bookings, NEW key \in Keys \cup {NoKey},
             Orderable(o), PlaceOrder(o, b, key)
      PROVE  /\ Grew(order, order')
             /\ order'[o].b = b /\ order'[o].state = "created" /\ order'[o].key = key
             /\ \A x \in Orders \ {o} : order'[x] = order[x]
  <2>1. order'[o] = [b |-> b, key |-> key, state |-> "created"] /\ \A x \in Orders \ {o} : order'[x] = order[x]
    BY <1>1, <1>2 DEF PlaceOrder
  <2>. QED  BY <1>2, <2>1 DEF Orderable, Grew
<1>3. ASSUME NEW o \in Orders, NEW state \in {"captured", "refunded"},
             order' = [order EXCEPT ![o].state = state]
      PROVE  /\ order'[o].b = order[o].b /\ order'[o].key = order[o].key
             /\ order'[o].state = state
             /\ \A x \in Orders \ {o} : order'[x] = order[x]
  <2>1. order'[o] = [order[o] EXCEPT !.state = state] /\ \A x \in Orders \ {o} : order'[x] = order[x]
    BY <1>1, <1>3
  <2>. QED  BY <1>1, <2>1 DEF PaypalOrder
<1>4. ASSUME NEW o \in Orders, CaptureMoney(o)
      PROVE  /\ Grew(order, order') /\ order[o].state = "created"
             /\ order'[o].b = order[o].b /\ order'[o].key = order[o].key
             /\ order'[o].state = "captured"
             /\ \A x \in Orders \ {o} : order'[x] = order[x]
  BY <1>3, <1>4, ZenonT(60) DEF CaptureMoney, Grew
<1>5. ASSUME NEW o \in Orders, RefundMoney(o)
      PROVE  /\ Grew(order, order') /\ order[o].state = "captured"
             /\ order'[o].b = order[o].b /\ order'[o].key = order[o].key
             /\ order'[o].state = "refunded"
             /\ \A x \in Orders \ {o} : order'[x] = order[x]
  BY <1>3, <1>5 DEF RefundMoney, Grew
<1>. QED  BY <1>2, <1>4, <1>5

-----------------------------------------------------------------------------
(* Steps that change no table. *)

LEMMA EndsKeepInv ==
    ASSUME Inv, ShapeInv', NEW w \in Workers, proc[w].at # "idle", Become(w, Idle),
           UNCHANGED <<payment, order>>
    PROVE  Inv'
BY IdleType, IdleHolds, QuietKeepsInv

LEMMA ReadToReverseKeeps ==
    ASSUME Inv, ShapeInv', NEW w \in Workers, ReadToReverse(w)
    PROVE  Inv'
<1> DEFINE row == payment[proc[w].b]
<1>1. proc[w].at = "reverse" /\ proc[w].op \in Reversers /\ UNCHANGED <<payment, order>>
  BY InvFacts, ReadToReverseIs
<1>2. proc[w].op # "reversePayment" => row = proc[w].pagos[proc[w].b] /\ row.status = "PAID"
  BY <1>1, InvFacts DEF Holds
<1>3. CASE row.status = "PAID"
  <2>1. PICK p \in Proc : /\ Become(w, p) /\ p.at = "refund" /\ Same(p, proc[w]) /\ p.pago = row
    BY <1>3, InvFacts, ReadToReverseIs
  <2>2. proc[w].op = "cancelRoute" => LoopHolds(proc[w], payment)
    BY InvFacts DEF Holds
  <2>3. Holds(p, payment, order)
    BY <1>1, <1>2, <1>3, <2>1, <2>2 DEF Holds, Saves, Same, LoopHolds
  <2>. QED  BY <1>1, <2>1, <2>3, QuietKeepsInv DEF Same
<1>4. CASE row.status # "PAID"
  <2>1. Throw(w)
    BY <1>4, InvFacts, ReadToReverseIs
  <2>2. proc[w].op = "reversePayment"
    BY <1>2, <1>4
  <2>3. Become(w, Idle)
    BY <2>1, <2>2 DEF Throw, Done
  <2>. QED  BY <1>1, <2>3, EndsKeepInv
<1>. QED  BY <1>3, <1>4

LEMMA RefusesRefundKeeps ==
    ASSUME Inv, ShapeInv', NEW w \in Workers, PaypalRefusesRefund(w)
    PROVE  Inv'
<1>1. proc[w].at = "refund" /\ UNCHANGED <<payment, order>>
      /\ Become(w, Saving(proc[w], Failed(proc[w].pago), "catch"))
  BY DEF PaypalRefusesRefund
<1>2. PICK p \in Proc :
         /\ Become(w, p) /\ Shape(p) /\ p.at = "save" /\ Same(p, proc[w]) /\ p.then = "catch"
         /\ p.pago = Failed(proc[w].pago)
  BY <1>1, InvFacts, RefusesRefundIs
<1>3. /\ proc[w].op \in Reversers /\ payment[proc[w].b] = proc[w].pago /\ proc[w].pago.status = "PAID"
      /\ (proc[w].op # "reversePayment" => proc[w].pago = proc[w].pagos[proc[w].b])
      /\ (proc[w].op = "cancelRoute" => LoopHolds(proc[w], payment))
  BY <1>1, InvFacts DEF Holds, Shape
<1>4. RowTrue(p.b, p.pago, order) /\ p.pago.status = "FAILED"
      /\ p.pago.paypalCaptureId = proc[w].pago.paypalCaptureId
  BY <1>2, <1>3, InvFacts, FailedIsTrue, FailedIs DEF Same
<1>5. SaveHolds(p, payment[p.b], order)
  BY <1>2, <1>3, <1>4 DEF SaveHolds, Same, Reversers
<1>6. Holds(p, payment, order)
  BY <1>1, <1>2, <1>3, <1>5 DEF Holds, LoopHolds, Same
<1>. QED  BY <1>1, <1>2, <1>6, QuietKeepsInv DEF Same

LEMMA WriteBookingKeeps ==
    ASSUME Inv, ShapeInv', NEW w \in Workers, WriteBooking(w)
    PROVE  Inv'
<1>1. proc[w].at = "tx" /\ UNCHANGED <<payment, order>>
  BY InvFacts, WriteBookingIs
<1>2. CASE proc[w].op = "completeBooking"
  BY <1>1, <1>2, InvFacts, WriteBookingIs, EndsKeepInv
<1>3. CASE proc[w].op # "completeBooking"
  <2>1. PICK p \in Proc : Become(w, p) /\ Shape(p) /\ p.at = "read" /\ Same(p, proc[w])
    BY <1>3, InvFacts, WriteBookingIs
  <2>2. Holds(p, payment, order)
    BY <2>1 DEF Holds, Saves, Shape
  <2>. QED  BY <1>1, <2>1, <2>2, QuietKeepsInv DEF Same
<1>. QED  BY <1>2, <1>3

LEMMA ReadPaymentKeeps ==
    ASSUME Inv, ShapeInv', NEW w \in Workers, ReadPayment(w)
    PROVE  Inv'
<1> DEFINE row == payment[proc[w].b]
<1>1. /\ proc[w].at = "read" /\ proc[w].op \in {"cancelBooking", "markNoShow"}
      /\ UNCHANGED <<payment, order>> /\ RowTrue(proc[w].b, row, order) /\ row \in Payment
  BY InvFacts, ReadPaymentIs
<1>2. PICK p \in Proc :
        /\ Become(w, p) /\ Shape(p)
        /\ \/ /\ p.at = "reverse" /\ row.status = "PAID" /\ p.op = "cancelBooking"
              /\ p.b = proc[w].b /\ p.todo = {} /\ p.pagos[p.b] = row
           \/ /\ p.at = "save" /\ row.status = "PAID" /\ Same(p, proc[w])
              /\ p.pago = row /\ p.then = "next"
           \/ /\ p.at = "save" /\ row.status = "PENDING" /\ Same(p, proc[w])
              /\ p.pago = Failed(row) /\ p.then = "next"
           \/ p = Idle /\ row.status # "PENDING"
  BY InvFacts, ReadPaymentIs
<1>3. CASE /\ p.at = "reverse" /\ row.status = "PAID" /\ p.op = "cancelBooking"
           /\ p.b = proc[w].b /\ p.todo = {} /\ p.pagos[p.b] = row
  <2>1. Holds(p, payment, order)
    BY <1>3 DEF Holds, Saves
  <2>2. proc[w].op = "cancelBooking"
    <3>1. proc[w].op = "markNoShow" => p.at # "reverse"
      BY <1>1, <1>2, <1>3 DEF ReadPayment, SettleNoShow, Become, Done, Saving, Inv, ShapeInv, TypeOK, Idle
    <3>. QED  BY <1>1, <1>3, <3>1
  <2>. QED  BY <1>1, <1>2, <1>3, <2>1, <2>2, QuietKeepsInv
<1>4. CASE /\ p.at = "save" /\ row.status = "PAID" /\ Same(p, proc[w])
           /\ p.pago = row /\ p.then = "next"
  <2>1. SaveHolds(p, payment[p.b], order)
    BY <1>1, <1>4 DEF SaveHolds, Same
  <2>2. Holds(p, payment, order)
    BY <1>1, <1>4, <2>1 DEF Holds, Same
  <2>. QED  BY <1>1, <1>2, <1>4, <2>2, QuietKeepsInv DEF Same
<1>5. CASE /\ p.at = "save" /\ row.status = "PENDING" /\ Same(p, proc[w])
           /\ p.pago = Failed(row) /\ p.then = "next"
  <2>1. RowTrue(p.b, p.pago, order) /\ p.pago.status = "FAILED"
        /\ p.pago.paypalCaptureId = row.paypalCaptureId
    BY <1>1, <1>5, FailedIsTrue, FailedIs DEF Same
  <2>2. SaveHolds(p, payment[p.b], order)
    BY <1>1, <1>5, <2>1 DEF SaveHolds, Same
  <2>3. Holds(p, payment, order)
    BY <1>1, <1>5, <2>2 DEF Holds, Same
  <2>. QED  BY <1>1, <1>2, <1>5, <2>3, QuietKeepsInv DEF Same
<1>6. CASE p = Idle
  BY <1>1, <1>2, <1>6, EndsKeepInv
<1>. QED  BY <1>2, <1>3, <1>4, <1>5, <1>6

LEMMA RouteStepsKeep ==
    ASSUME Inv, ShapeInv', NEW w \in Workers,
           CloseRoute(w) \/ CancelRouteBookings(w) \/ SelectPayments(w)
    PROVE  Inv'
<1>1. CASE CloseRoute(w) \/ CancelRouteBookings(w)
  <2>1. /\ proc[w].op = "cancelRoute" /\ proc[w].at \in {"close", "bulk"}
        /\ UNCHANGED <<payment, order>>
    BY <1>1, InvFacts, ClosingIs
  <2>2. PICK p \in Proc : Become(w, p) /\ Shape(p) /\ Same(p, proc[w]) /\ p.at \in {"bulk", "select"}
    BY <1>1, InvFacts, ClosingIs
  <2>3. LoopHolds(p, payment)
    BY <2>1, <2>2, InvFacts DEF Holds, LoopHolds, Same
  <2>4. Holds(p, payment, order)
    BY <2>2, <2>3 DEF Holds, Saves
  <2>. QED  BY <2>1, <2>2, <2>4, QuietKeepsInv DEF Same
<1>2. CASE SelectPayments(w)
  <2> DEFINE chosen == {b \in Bookings : payment[b].status \in {"PAID", "PENDING"}}
  <2>1. proc[w].op = "cancelRoute" /\ proc[w].at = "select" /\ UNCHANGED <<payment, order>>
    BY <1>2, InvFacts, SelectIs
  <2>2. PICK p \in Proc :
            /\ Become(w, p) /\ Shape(p)
            /\ IF chosen = {} THEN p = Idle
               ELSE p.at = "loop" /\ p.todo = chosen /\ p.pagos = payment /\ p.op = "cancelRoute"
    BY <1>2, InvFacts, SelectIs
  <2>3. CASE p = Idle
    BY <2>1, <2>2, <2>3, EndsKeepInv
  <2>4. CASE p # Idle
    <3>1. p.at = "loop" /\ p.todo = chosen /\ p.pagos = payment /\ p.op = "cancelRoute"
      BY <2>2, <2>4
    <3>2. Holds(p, payment, order)
      BY <3>1 DEF Holds, Saves, LoopHolds
    <3>. QED  BY <2>1, <2>2, <3>1, <3>2, QuietKeepsInv
  <2>. QED  BY <2>3, <2>4
<1>. QED  BY <1>1, <1>2

LEMMA PayBackKeeps ==
    ASSUME Inv, ShapeInv', NEW w \in Workers, NEW b \in Bookings, PayBack(w, b)
    PROVE  Inv'
<1>1. /\ proc[w].op = "cancelRoute" /\ proc[w].at = "loop" /\ b \in proc[w].todo
      /\ UNCHANGED <<payment, order>>
  BY InvFacts, PayBackIs
<1>2. PICK p \in Proc :
        /\ Become(w, p) /\ Shape(p) /\ p.op = "cancelRoute" /\ p.b = b
        /\ p.todo = proc[w].todo /\ p.pagos = proc[w].pagos
        /\ \/ p.at = "reverse" /\ p.pagos[b].status = "PAID"
           \/ /\ p.at = "save" /\ p.pagos[b].status # "PAID"
              /\ p.pago = Failed(p.pagos[b]) /\ p.then = "next"
  BY InvFacts, PayBackIs
<1>3. \A x \in p.todo : payment[x] = p.pagos[x] /\ payment[x].status \in {"PAID", "PENDING"}
  BY <1>1, <1>2, InvFacts DEF Holds, LoopHolds
<1>4. payment[b] = p.pagos[b] /\ payment[b].status \in {"PAID", "PENDING"}
  BY <1>1, <1>2, <1>3
<1>5. RowTrue(b, payment[b], order) /\ payment[b] \in Payment
  BY DEF Inv, HoldInv, RowsTrue, ShapeInv, TypeOK
<1>6. LoopHolds(p, payment)
  BY <1>3 DEF LoopHolds
<1>7. CASE p.at = "reverse" /\ p.pagos[b].status = "PAID"
  <2>1. Holds(p, payment, order)
    BY <1>2, <1>4, <1>6, <1>7 DEF Holds, Saves
  <2>. QED  BY <1>1, <1>2, <1>7, <2>1, QuietKeepsInv
<1>8. CASE p.at = "save" /\ p.pagos[b].status # "PAID" /\ p.pago = Failed(p.pagos[b]) /\ p.then = "next"
  <2>1. RowTrue(b, p.pago, order) /\ p.pago.status = "FAILED"
        /\ p.pago.paypalCaptureId = payment[b].paypalCaptureId
    BY <1>4, <1>5, <1>8, FailedIsTrue, FailedIs
  <2>2. SaveHolds(p, payment[p.b], order)
    BY <1>2, <1>4, <1>8, <2>1 DEF SaveHolds
  <2>3. Holds(p, payment, order)
    BY <1>2, <1>6, <1>8, <2>2 DEF Holds
  <2>. QED  BY <1>1, <1>2, <1>8, <2>3, QuietKeepsInv
<1>. QED  BY <1>2, <1>7, <1>8

LEMMA SaveKeeps ==
    ASSUME Inv, ShapeInv', NEW w \in Workers, SavePayment(w)
    PROVE  Inv'
<1>1. proc[w].at = "save" /\ UNCHANGED <<payment, order>>
  BY InvFacts, SaveIs
<1>2. PICK p \in Proc :
        /\ Become(w, p) /\ Shape(p) /\ p.at = "flush" /\ Same(p, proc[w])
        /\ p.pago = proc[w].pago /\ p.then = proc[w].then
        /\ p.cols = PaymentDiff(proc[w].pago, payment[proc[w].b])
  BY InvFacts, SaveIs
<1>3. /\ SaveHolds(proc[w], payment[proc[w].b], order)
      /\ (proc[w].op = "cancelRoute" => LoopHolds(proc[w], payment))
  BY <1>1, InvFacts DEF Holds, Saves
<1>4. SaveHolds(p, payment[p.b], order)
  BY <1>2, <1>3 DEF SaveHolds, Same
<1>5. p.op = "cancelRoute" => LoopHolds(p, payment)
  BY <1>1, <1>2, <1>3 DEF LoopHolds, Same
<1>6. Holds(p, payment, order)
  BY <1>2, <1>4, <1>5 DEF Holds, Same
<1>. QED  BY <1>1, <1>2, <1>6, QuietKeepsInv DEF Same

-----------------------------------------------------------------------------
(* Steps that change the payments or PayPal's orders. *)

(* One row is written: what that means for the others and for the handlers    *)
(* beside the writer.                                                          *)
LEMMA RowWritten ==
    ASSUME Inv, NEW b \in Bookings, NEW row \in Payment, payment' = [payment EXCEPT ![b] = row],
           UNCHANGED order, RowTrue(b, row, order)
    PROVE  /\ payment'[b] = row /\ \A x \in Bookings \ {b} : payment'[x] = payment[x]
           /\ \A x \in Bookings : RowTrue(x, payment'[x], order')
           /\ \A v \in Workers :
                (/\ proc[v].op \in Answering
                 /\ proc[v].b = b => /\ proc[v].at \notin {"order", "refund", "save", "flush"}
                                     /\ proc[v].at = "capture" =>
                                            order[proc[v].pago.paypalOrderId].state # "created")
                => Holds(proc[v], payment', order')
<1>1. payment'[b] = row /\ \A x \in Bookings \ {b} : payment'[x] = payment[x]
  BY InvFacts DEF Inv, ShapeInv, TypeOK
<1>2. \A x \in Bookings : RowTrue(x, payment[x], order)
  BY DEF Inv, HoldInv, RowsTrue
<1>3. Grew(order, order)
  BY DEF Grew
<1>4. ASSUME NEW v \in Workers, proc[v].op \in Answering,
             proc[v].b = b => /\ proc[v].at \notin {"order", "refund", "save", "flush"}
                              /\ proc[v].at = "capture" =>
                                     order[proc[v].pago.paypalOrderId].state # "created"
      PROVE  Holds(proc[v], payment', order')
  <2> DEFINE p == proc[v]
  <2>1. p \in Proc /\ Shape(p) /\ Holds(p, payment, order) /\ p.b \in Bookings
    BY InvFacts
  <2>2. p.at \in {"order", "refund", "save", "flush"} => payment'[p.b] = payment[p.b]
    BY <1>1, <1>4, <2>1
  <2>3. p.at = "capture" /\ order[p.pago.paypalOrderId].state = "created" => payment'[p.b] = payment[p.b]
    BY <1>1, <1>4, <2>1
  <2>4. Saves(p) => SaveHolds(p, payment[p.b], order)
    BY <2>1 DEF Holds
  <2>5. Saves(p) /\ p.pago.status = "PAID" /\ payment[p.b].status # "PAID" =>
                order[p.pago.paypalCaptureId].state = "captured"
    BY <2>4 DEF SaveHolds
  <2> HIDE DEF p
  <2>6. p.op \in Answering
    BY <1>4 DEF p
  <2>7. Holds(p, payment', order)
    BY <1>3, <2>1, <2>2, <2>3, <2>5, <2>6, HoldsBeside
  <2>. QED  BY <2>7 DEF p
<1>5. \A x \in Bookings : RowTrue(x, payment'[x], order')
  BY <1>1, <1>2
<1>. QED  BY <1>1, <1>4, <1>5

(* One order goes on. *)
LEMMA OrderGone ==
    ASSUME Inv, NEW o \in Orders, UNCHANGED payment, Grew(order, order'),
           \A x \in Orders \ {o} : order'[x] = order[x],
           \/ order[o].state = "none" /\ order'[o].state = "created"
           \/ order[o].state = "created" /\ order'[o].state = "captured"
           \/ /\ order[o].state = "captured" /\ order'[o].state = "refunded"
              /\ payment[order[o].b].status = "PAID"
    PROVE  /\ \A x \in Bookings : RowTrue(x, payment'[x], order')
           /\ \A v \in Workers : proc[v].op \in Answering => Holds(proc[v], payment', order')
<1>1. ASSUME NEW x \in Bookings
      PROVE  RowTrue(x, payment'[x], order')
  <2>1. RowTrue(x, payment[x], order) /\ payment[x] \in Payment
    BY DEF Inv, HoldInv, RowsTrue, ShapeInv, TypeOK
  <2>2. RowTrue(x, payment[x], order')
    BY <2>1, RowTrueGrows
  <2>. QED  BY <2>2
<1>2. ASSUME NEW v \in Workers, proc[v].op \in Answering
      PROVE  Holds(proc[v], payment', order')
  <2> DEFINE p == proc[v]
  <2>1. p \in Proc /\ Shape(p) /\ Holds(p, payment, order) /\ p.b \in Bookings /\ p.pago \in Payment
    BY InvFacts
  <2>2. p.pago.paypalOrderId \in Orders \cup {NoOrder} /\ p.pago.paypalCaptureId \in Orders \cup {NoOrder}
    BY <2>1 DEF Payment
  <2>3. p.at = "capture" /\ order'[p.pago.paypalOrderId].state = "created" =>
                order[p.pago.paypalOrderId].state = "created"
    BY <2>1, <2>2 DEF Holds
  <2>4. Saves(p) => SaveHolds(p, payment[p.b], order)
    BY <2>1 DEF Holds
  <2>5. ASSUME Saves(p), p.pago.status = "PAID", payment[p.b].status # "PAID"
        PROVE  order'[p.pago.paypalCaptureId].state = "captured"
    <3>1. /\ order[p.pago.paypalCaptureId].state = "captured" /\ p.pago.paypalCaptureId \in Orders
          /\ order[p.pago.paypalCaptureId].b = p.b
      BY <2>2, <2>4, <2>5 DEF SaveHolds, RowTrue
    <3>2. p.pago.paypalCaptureId # o
      BY <2>5, <3>1
    <3>. QED  BY <3>1, <3>2
  <2> HIDE DEF p
  <2>6. p.op \in Answering
    BY <1>2 DEF p
  <2>7. Holds(p, payment, order')
    BY <2>1, <2>3, <2>5, <2>6, HoldsBeside
  <2>. QED  BY <2>7 DEF p
<1>. QED  BY <1>1, <1>2

LEMMA InsertKeeps ==
    ASSUME Inv, ShapeInv', NEW w \in Workers, InsertPayment(w)
    PROVE  Inv'
<1> DEFINE b == proc[w].b
           row == [NoPayment EXCEPT !.status = "PENDING"]
<1>1. /\ proc[w].at = "insert" /\ proc[w].op = "createPayment" /\ UNCHANGED order
      /\ \/ /\ payment[b] = NoPayment /\ payment' = [payment EXCEPT ![b].status = "PENDING"]
            /\ \E p \in Proc : Become(w, p) /\ Shape(p) /\ p.at = "store" /\ Same(p, proc[w])
         \/ UNCHANGED payment /\ Become(w, Idle)
  BY InvFacts, InsertIs
<1>2. CASE UNCHANGED payment /\ Become(w, Idle)
  BY <1>1, <1>2, EndsKeepInv
<1>3. CASE /\ payment[b] = NoPayment /\ payment' = [payment EXCEPT ![b].status = "PENDING"]
           /\ \E p \in Proc : Become(w, p) /\ Shape(p) /\ p.at = "store" /\ Same(p, proc[w])
  <2>1. PICK p \in Proc : Become(w, p) /\ Shape(p) /\ p.at = "store" /\ Same(p, proc[w])
    BY <1>3
  <2>2. payment' = [payment EXCEPT ![b] = row] /\ b \in Bookings
    BY <1>3, InvFacts
  <2>3. /\ row \in Payment /\ row.status = "PENDING" /\ row.paypalOrderId = NoOrder
        /\ row.paypalCaptureId = NoOrder
    BY NoPaymentType DEF Payment, EstadoPago
  <2>4. RowTrue(b, row, order)
    BY <2>3 DEF RowTrue
  <2> HIDE DEF row
  <2>5. ASSUME NEW v \in Workers \ {w}, Beside(proc[v].op, proc[w].op)
        PROVE  Holds(proc[v], payment', order')
    <3>1. proc[v].op \in Answering
      BY <2>5 DEF Beside
    <3>2. Holds(proc[v], payment, order)
      BY InvFacts
    <3>3. proc[v].b = b => proc[v].at \notin {"order", "refund", "save", "flush"}
      BY <1>3, <3>2, NoPaymentType DEF Holds, SaveHolds, Saves
    <3>4. proc[v].b = b /\ proc[v].at = "capture" =>
                order[proc[v].pago.paypalOrderId].state # "created"
      BY <1>3, <3>2, NoPaymentType DEF Holds
    <3>. QED  BY <1>1, <2>2, <2>3, <2>4, <3>1, <3>3, <3>4, RowWritten
  <2>6. \A x \in Bookings : RowTrue(x, payment'[x], order')
    BY <1>1, <2>2, <2>3, <2>4, RowWritten
  <2>7. Holds(p, payment', order')
    BY <1>1, <2>1 DEF Holds, Saves, Same
  <2>. QED  BY <1>1, <2>1, <2>5, <2>6, <2>7, SlotKeepsInv DEF Same
<1>. QED  BY <1>1, <1>2, <1>3

(* What the steps that ask PayPal rely on. *)
LEMMA AskHolds ==
    ASSUME Inv, NEW w \in Workers
    PROVE  /\ proc[w].at = "order" =>
                /\ payment[proc[w].b] = proc[w].pago /\ proc[w].pago.status = "PENDING"
                /\ proc[w].pago.paypalCaptureId = NoOrder
           /\ proc[w].at = "capture" =>
                /\ proc[w].pago.paypalOrderId \in Orders
                /\ order[proc[w].pago.paypalOrderId].state = "created" =>
                        /\ payment[proc[w].b] = proc[w].pago
                        /\ order[proc[w].pago.paypalOrderId].b = proc[w].b
                        /\ proc[w].pago.paypalCaptureId = NoOrder
                        /\ proc[w].pago.status \in {"PENDING", "FAILED"}
           /\ proc[w].at = "refund" =>
                /\ payment[proc[w].b] = proc[w].pago /\ proc[w].pago.status = "PAID"
                /\ proc[w].pago.paypalCaptureId \in Orders
                /\ proc[w].pago.paypalCaptureId = proc[w].pago.paypalOrderId
                /\ order[proc[w].pago.paypalCaptureId].b = proc[w].b
                /\ proc[w].op # "reversePayment" => proc[w].pago = proc[w].pagos[proc[w].b]
                /\ proc[w].op = "cancelRoute" => LoopHolds(proc[w], payment)
<1> DEFINE p == proc[w]
           row == payment[p.b]
<1>1. Holds(p, payment, order) /\ RowTrue(p.b, row, order) /\ row \in Payment /\ p.pago \in Payment
      /\ Shape(p)
  BY InvFacts
<1>2. /\ p.pago.paypalOrderId \in Orders \cup {NoOrder} /\ p.pago.paypalCaptureId \in Orders \cup {NoOrder}
      /\ row.status \in EstadoPago \cup {"none"}
  BY <1>1 DEF Payment
<1> HIDE DEF p, row
<1>3. p.at = "order" => row = p.pago /\ row.status = "PENDING" /\ p.pago.paypalCaptureId = NoOrder
  BY <1>1 DEF Holds, RowTrue, row
<1>4. ASSUME p.at = "capture"
      PROVE  /\ p.pago.paypalOrderId \in Orders
             /\ order[p.pago.paypalOrderId].state = "created" =>
                    /\ row = p.pago /\ order[p.pago.paypalOrderId].b = p.b
                    /\ p.pago.paypalCaptureId = NoOrder /\ p.pago.status \in {"PENDING", "FAILED"}
  <2>1. /\ p.pago.paypalOrderId \in Orders
        /\ order[p.pago.paypalOrderId].state = "created" => row = p.pago
    BY <1>1, <1>2, <1>4 DEF Holds, row
  <2>2. ASSUME order[p.pago.paypalOrderId].state = "created"
        PROVE  /\ order[p.pago.paypalOrderId].b = p.b /\ p.pago.paypalCaptureId = NoOrder
               /\ p.pago.status \in {"PENDING", "FAILED"}
    <3>1. RowTrue(p.b, p.pago, order) /\ p.pago.paypalOrderId # NoOrder
      BY <1>1, <1>4, <2>1, <2>2 DEF Holds
    <3>2. p.pago.status # "none"
      BY <3>1, NoPaymentType DEF RowTrue
    <3>. QED  BY <1>2, <2>1, <2>2, <3>1, <3>2 DEF RowTrue, EstadoPago
  <2>. QED  BY <2>1, <2>2
<1>5. ASSUME p.at = "refund"
      PROVE  /\ row = p.pago /\ p.pago.status = "PAID" /\ p.pago.paypalCaptureId \in Orders
             /\ p.pago.paypalCaptureId = p.pago.paypalOrderId
             /\ order[p.pago.paypalCaptureId].b = p.b
             /\ p.op # "reversePayment" => p.pago = p.pagos[p.b]
             /\ p.op = "cancelRoute" => LoopHolds(p, payment)
  <2>1. /\ row = p.pago /\ row.status = "PAID" /\ (p.op # "reversePayment" => row = p.pagos[p.b])
        /\ (p.op = "cancelRoute" => LoopHolds(p, payment))
    BY <1>1, <1>5 DEF Holds, row
  <2>. QED  BY <1>1, <1>2, <2>1 DEF RowTrue
<1>. QED  BY <1>3, <1>4, <1>5 DEF p, row

LEMMA PaypalOrdersKeeps ==
    ASSUME Inv, ShapeInv', NEW w \in Workers, NEW o \in Orders, PaypalOrders(w, o)
    PROVE  Inv'
<1>1. /\ proc[w].at = "order" /\ proc[w].op = "createPaypalOrder" /\ Orderable(o)
      /\ PlaceOrder(o, proc[w].b, proc[w].key) /\ UNCHANGED payment
  BY InvFacts, PaypalOrdersIs
<1>2. PICK p \in Proc :
         /\ Become(w, p) /\ Shape(p) /\ p.at = "save" /\ Same(p, proc[w]) /\ p.then = "store"
         /\ p.pago.status = proc[w].pago.status /\ p.pago.paypalOrderId = o
         /\ p.pago.paypalCaptureId = proc[w].pago.paypalCaptureId
  BY InvFacts, PaypalOrdersIs
<1>3. proc[w].b \in Bookings /\ proc[w].key \in Keys \cup {NoKey}
  BY InvFacts, HandlerIs
<1>4. /\ Grew(order, order') /\ order'[o].b = proc[w].b /\ order'[o].state = "created"
      /\ \A x \in Orders \ {o} : order'[x] = order[x]
  BY <1>1, <1>3, OrderSteps
<1>5. /\ payment[proc[w].b] = proc[w].pago /\ proc[w].pago.status = "PENDING"
      /\ proc[w].pago.paypalCaptureId = NoOrder
  BY <1>1, AskHolds
<1>6. /\ \A x \in Bookings : RowTrue(x, payment'[x], order')
      /\ \A v \in Workers : proc[v].op \in Answering => Holds(proc[v], payment', order')
  BY <1>1, <1>4, OrderGone DEF Orderable
<1>7. RowTrue(p.b, p.pago, order')
  BY <1>2, <1>4, <1>5 DEF RowTrue, Same
<1>8. SaveHolds(p, payment'[p.b], order')
  BY <1>1, <1>2, <1>5, <1>7 DEF SaveHolds, Same
<1>9. Holds(p, payment', order')
  BY <1>1, <1>2, <1>8 DEF Holds, Same
<1>. QED  BY <1>1, <1>2, <1>6, <1>9, SlotKeepsInv DEF Same, Beside

(* The money of an order is captured; what the handler saves then. *)
LEMMA CaptureKeeps ==
    ASSUME Inv, ShapeInv', NEW w \in Workers, proc[w].at = "capture", proc[w].op = "capturePaypalOrder",
           CaptureMoney(proc[w].pago.paypalOrderId), UNCHANGED payment,
           NEW p \in Proc, Become(w, p),
           \/ p = Idle
           \/ /\ p.at = "save" /\ Same(p, proc[w]) /\ Shape(p)
              /\ p.pago.paypalOrderId = proc[w].pago.paypalOrderId
              /\ \/ p.pago.status = "PAID" /\ p.pago.paypalCaptureId = proc[w].pago.paypalOrderId
                 \/ p.pago.status = "FAILED" /\ p.pago.paypalCaptureId = NoOrder
    PROVE  Inv'
<1> DEFINE o == proc[w].pago.paypalOrderId
<1>1. o \in Orders
  BY AskHolds
<1>2. /\ Grew(order, order') /\ order[o].state = "created" /\ order'[o].b = order[o].b
      /\ order'[o].state = "captured" /\ \A x \in Orders \ {o} : order'[x] = order[x]
  BY <1>1, OrderSteps
<1>3. /\ payment[proc[w].b] = proc[w].pago /\ order[o].b = proc[w].b
      /\ proc[w].pago.paypalCaptureId = NoOrder /\ proc[w].pago.status \in {"PENDING", "FAILED"}
  BY <1>2, AskHolds
<1>4. /\ \A x \in Bookings : RowTrue(x, payment'[x], order')
      /\ \A v \in Workers : proc[v].op \in Answering => Holds(proc[v], payment', order')
  <2> HIDE DEF o
  <2>. QED  BY <1>1, <1>2, OrderGone
<1>5. CASE p = Idle
  BY <1>4, <1>5, IdleHolds, IdleType, SlotKeepsInv DEF Beside
<1>6. CASE /\ p.at = "save" /\ Same(p, proc[w]) /\ Shape(p) /\ p.pago.paypalOrderId = o
           /\ \/ p.pago.status = "PAID" /\ p.pago.paypalCaptureId = o
              \/ p.pago.status = "FAILED" /\ p.pago.paypalCaptureId = NoOrder
  <2>1. RowTrue(p.b, p.pago, order')
    <3>1. order'[p.pago.paypalOrderId].b = p.b /\ order'[p.pago.paypalOrderId].state = "captured"
      BY <1>2, <1>3, <1>6 DEF Same
    <3>2. \/ p.pago.status = "PAID" /\ p.pago.paypalCaptureId = p.pago.paypalOrderId
          \/ p.pago.status = "FAILED" /\ p.pago.paypalCaptureId = NoOrder
      BY <1>6
    <3>3. p.pago.paypalOrderId # NoOrder
      BY <1>1, <1>6, PaymentAssumption
    <3>. QED  BY <3>1, <3>2, <3>3 DEF RowTrue
  <2>2. p.op = "capturePaypalOrder" /\ payment'[p.b] = proc[w].pago
    BY <1>3, <1>6 DEF Same
  <2>3. SaveHolds(p, payment'[p.b], order')
    BY <1>1, <1>2, <1>3, <1>6, <2>1, <2>2 DEF SaveHolds
  <2>4. Holds(p, payment', order')
    BY <1>6, <2>2, <2>3 DEF Holds
  <2>. QED  BY <1>4, <1>6, <2>4, SlotKeepsInv DEF Same, Beside
<1>. QED  BY <1>5, <1>6

(* The money of a capture goes back; what the handler saves then. *)
LEMMA RefundKeeps ==
    ASSUME Inv, ShapeInv', NEW w \in Workers, proc[w].at = "refund", proc[w].op \in Reversers,
           RefundMoney(proc[w].pago.paypalCaptureId), UNCHANGED payment,
           NEW p \in Proc, Become(w, p), p.at = "save", Same(p, proc[w]), Shape(p),
           p.pago.status \in {"REVERSED", "FAILED"},
           p.pago.paypalOrderId = proc[w].pago.paypalOrderId,
           p.pago.paypalCaptureId = proc[w].pago.paypalCaptureId,
           p.then = "catch" => p.pago = Failed(proc[w].pago)
    PROVE  Inv'
<1> DEFINE o == proc[w].pago.paypalCaptureId
<1>1. /\ payment[proc[w].b] = proc[w].pago /\ proc[w].pago.status = "PAID" /\ o \in Orders
      /\ o = proc[w].pago.paypalOrderId /\ order[o].b = proc[w].b
      /\ (proc[w].op # "reversePayment" => proc[w].pago = proc[w].pagos[proc[w].b])
      /\ (proc[w].op = "cancelRoute" => LoopHolds(proc[w], payment))
  BY AskHolds
<1>2. /\ Grew(order, order') /\ order[o].state = "captured" /\ order'[o].b = order[o].b
      /\ order'[o].state = "refunded" /\ \A x \in Orders \ {o} : order'[x] = order[x]
  BY <1>1, OrderSteps
<1>3. /\ \A x \in Bookings : RowTrue(x, payment'[x], order')
      /\ \A v \in Workers : proc[v].op \in Answering => Holds(proc[v], payment', order')
  <2>1. payment[order[o].b].status = "PAID"
    BY <1>1
  <2> HIDE DEF o
  <2>. QED  BY <1>1, <1>2, <2>1, OrderGone
<1>4. RowTrue(p.b, p.pago, order')
  <2>1. order'[p.pago.paypalOrderId].b = p.b /\ order'[p.pago.paypalOrderId].state = "refunded"
    BY <1>1, <1>2 DEF Same
  <2>2. p.pago.paypalCaptureId = p.pago.paypalOrderId /\ p.pago.paypalOrderId # NoOrder
    BY <1>1, PaymentAssumption
  <2>. QED  BY <2>1, <2>2 DEF RowTrue
<1>5. payment'[p.b] = proc[w].pago /\ p.op = proc[w].op
  BY <1>1 DEF Same
<1>6. p.then = "catch" /\ p.op \in {"cancelBooking", "cancelRoute"} => p.pago = Failed(p.pagos[p.b])
  BY <1>1 DEF Same
<1>7. SaveHolds(p, payment'[p.b], order')
  BY <1>1, <1>4, <1>5, <1>6 DEF SaveHolds, Reversers
<1>8. p.op = "cancelRoute" => LoopHolds(p, payment')
  BY <1>1 DEF LoopHolds, Same
<1>9. Holds(p, payment', order')
  BY <1>5, <1>7, <1>8 DEF Holds
<1>. QED  BY <1>3, <1>9, SlotKeepsInv DEF Same, Beside

LEMMA PaypalStepsKeep ==
    ASSUME Inv, ShapeInv', NEW w \in Workers,
           PaypalCaptures(w) \/ PaypalCapturesWithoutDetails(w) \/ PaypalRefunds(w) \/ AnswerLost(w)
    PROVE  Inv'
<1>1. CASE PaypalCaptures(w)
  <2>1. /\ proc[w].at = "capture" /\ proc[w].op = "capturePaypalOrder"
        /\ CaptureMoney(proc[w].pago.paypalOrderId) /\ UNCHANGED payment
    BY <1>1, InvFacts, CapturesIs
  <2>2. PICK p \in Proc :
            /\ Become(w, p) /\ Shape(p) /\ p.at = "save" /\ Same(p, proc[w])
            /\ p.pago.status = "PAID" /\ p.pago.paypalOrderId = proc[w].pago.paypalOrderId
            /\ p.pago.paypalCaptureId = proc[w].pago.paypalOrderId
    BY <1>1, InvFacts, CapturesIs
  <2>. QED  BY <2>1, <2>2, CaptureKeeps
<1>2. CASE PaypalCapturesWithoutDetails(w)
  <2>1. /\ proc[w].at = "capture" /\ proc[w].op = "capturePaypalOrder"
        /\ CaptureMoney(proc[w].pago.paypalOrderId) /\ UNCHANGED payment
    BY <1>2, InvFacts, WithoutDetailsIs
  <2>2. PICK p \in Proc :
            /\ Become(w, p) /\ Shape(p) /\ p.at = "save" /\ Same(p, proc[w])
            /\ p.pago = Failed(proc[w].pago)
    BY <1>2, InvFacts, WithoutDetailsIs
  <2>3. proc[w].pago.paypalCaptureId = NoOrder
    BY <2>1, AskHolds DEF CaptureMoney
  <2>4. /\ p.pago.status = "FAILED" /\ p.pago.paypalCaptureId = NoOrder
        /\ p.pago.paypalOrderId = proc[w].pago.paypalOrderId
    BY <2>2, <2>3, InvFacts, FailedIs
  <2>. QED  BY <2>1, <2>2, <2>4, CaptureKeeps
<1>3. CASE PaypalRefunds(w)
  <2>1. /\ proc[w].at = "refund" /\ proc[w].op \in Reversers /\ UNCHANGED payment
        /\ IF proc[w].pago.paypalCaptureId # NoOrder THEN RefundMoney(proc[w].pago.paypalCaptureId)
           ELSE UNCHANGED order
    BY <1>3, InvFacts, RefundsIs
  <2>2. PICK p \in Proc :
            /\ Become(w, p) /\ Shape(p) /\ p.at = "save" /\ Same(p, proc[w])
            /\ p.then \in {"store", "next"}
            /\ p.pago.status = "REVERSED" /\ p.pago.paypalCaptureId = proc[w].pago.paypalCaptureId
            /\ p.pago.paypalOrderId = proc[w].pago.paypalOrderId
    BY <1>3, InvFacts, RefundsIs
  <2>3. RefundMoney(proc[w].pago.paypalCaptureId)
    <3>1. proc[w].pago.paypalCaptureId # NoOrder
      BY <2>1, AskHolds, PaymentAssumption
    <3>. QED  BY <2>1, <3>1
  <2>. QED  BY <2>1, <2>2, <2>3, RefundKeeps
<1>4. CASE AnswerLost(w)
  <2>1. UNCHANGED payment /\ Shape(proc[w])
    BY <1>4, InvFacts, AnswerLostIs
  <2>2. CASE /\ proc[w].at = "order" /\ Become(w, Idle)
             /\ \E o \in Orders : Orderable(o) /\ PlaceOrder(o, proc[w].b, proc[w].key)
    <3>1. PICK o \in Orders : Orderable(o) /\ PlaceOrder(o, proc[w].b, proc[w].key)
      BY <2>2
    <3>2. proc[w].b \in Bookings /\ proc[w].key \in Keys \cup {NoKey}
      BY InvFacts, HandlerIs
    <3>3. /\ Grew(order, order') /\ order'[o].state = "created"
          /\ \A x \in Orders \ {o} : order'[x] = order[x]
      BY <3>1, <3>2, OrderSteps
    <3>4. /\ \A x \in Bookings : RowTrue(x, payment'[x], order')
          /\ \A v \in Workers : proc[v].op \in Answering => Holds(proc[v], payment', order')
      BY <2>1, <3>1, <3>3, OrderGone DEF Orderable
    <3>. QED  BY <2>2, <3>4, IdleHolds, IdleType, SlotKeepsInv DEF Beside
  <2>3. CASE /\ proc[w].at = "capture" /\ Become(w, Idle)
             /\ CaptureMoney(proc[w].pago.paypalOrderId)
    <3>1. proc[w].op = "capturePaypalOrder"
      BY <2>1, <2>3 DEF Shape
    <3>. QED  BY <2>1, <2>3, <3>1, IdleType, CaptureKeeps
  <2>4. CASE /\ proc[w].at = "refund" /\ proc[w].op \in Reversers
             /\ RefundMoney(proc[w].pago.paypalCaptureId)
             /\ \E p \in Proc :
                    /\ Become(w, p) /\ Shape(p) /\ p.at = "save" /\ Same(p, proc[w])
                    /\ p.then = "catch" /\ p.pago = Failed(proc[w].pago)
    <3>1. PICK p \in Proc : /\ Become(w, p) /\ Shape(p) /\ p.at = "save" /\ Same(p, proc[w])
                            /\ p.then = "catch" /\ p.pago = Failed(proc[w].pago)
      BY <2>4
    <3>2. /\ p.pago.status = "FAILED" /\ p.pago.paypalCaptureId = proc[w].pago.paypalCaptureId
          /\ p.pago.paypalOrderId = proc[w].pago.paypalOrderId
      BY <3>1, InvFacts, FailedIs
    <3>. QED  BY <2>1, <2>4, <3>1, <3>2, RefundKeeps
  <2>. QED  BY <1>4, <2>2, <2>3, <2>4, InvFacts, AnswerLostIs
<1>. QED  BY <1>1, <1>2, <1>3, <1>4

(* What a save knows when it writes, and what it leaves in the row. *)
LEMMA FlushWrites ==
    ASSUME Inv, NEW w \in Workers, FlushPayment(w)
    PROVE  /\ SaveHolds(proc[w], payment[proc[w].b], order)
           /\ payment' = [payment EXCEPT ![proc[w].b] = proc[w].pago]
           /\ payment'[proc[w].b] = proc[w].pago
           /\ \A x \in Bookings \ {proc[w].b} : payment'[x] = payment[x]
<1>1. proc[w].at = "flush"
      /\ payment' = [payment EXCEPT ![proc[w].b] =
                        PaymentUpdate(proc[w].pago, payment[proc[w].b], proc[w].cols)]
  BY InvFacts, FlushIs
<1>2. SaveHolds(proc[w], payment[proc[w].b], order)
      /\ proc[w].cols = PaymentDiff(proc[w].pago, payment[proc[w].b])
  BY <1>1, InvFacts DEF Holds, Saves
<1>3. PaymentUpdate(proc[w].pago, payment[proc[w].b], proc[w].cols) = proc[w].pago
  BY <1>2, InvFacts, RowOperators
<1>4. payment' = [payment EXCEPT ![proc[w].b] = proc[w].pago]
  BY <1>1, <1>3
<1>. QED  BY <1>2, <1>4, InvFacts

LEMMA FlushKeeps ==
    ASSUME Inv, ShapeInv', NEW w \in Workers, FlushPayment(w)
    PROVE  Inv'
<1> DEFINE b == proc[w].b
<1>1. /\ proc[w].at = "flush" /\ UNCHANGED order /\ Shape(proc[w]) /\ b \in Bookings
      /\ proc[w].pago \in Payment
  BY InvFacts, FlushIs
<1>2. SaveHolds(proc[w], payment[b], order) /\ payment' = [payment EXCEPT ![b] = proc[w].pago]
  BY FlushWrites
<1>3. /\ payment'[b] = proc[w].pago /\ \A x \in Bookings \ {b} : payment'[x] = payment[x]
      /\ \A x \in Bookings : RowTrue(x, payment'[x], order')
  BY <1>1, <1>2, RowWritten DEF SaveHolds
<1>4. PICK p \in Proc :
        /\ Become(w, p) /\ Shape(p)
        /\ \/ p = Idle
           \/ p.at = "store" /\ Same(p, proc[w])
           \/ /\ p.at = "save" /\ Same(p, proc[w]) /\ p.then = "next"
              /\ proc[w].then = "catch" /\ p.op \in {"cancelBooking", "cancelRoute"}
              /\ p.pago = Failed(p.pagos[b])
           \/ /\ p.at = "loop" /\ p.todo = proc[w].todo \ {b} /\ p.op = "cancelRoute"
              /\ proc[w].op = "cancelRoute" /\ p.pagos = proc[w].pagos
  BY InvFacts, FlushIs
<1>5. ASSUME NEW v \in Workers \ {w}, Beside(proc[v].op, proc[w].op)
      PROVE  Holds(proc[v], payment', order')
  <2>1. proc[v].op \in Answering /\ proc[w].op \in Answering /\ proc[w].op # "createPayment"
    BY <1>1, <1>5 DEF Beside, Shape, Saves, Savers
  <2>2. Holds(proc[v], payment, order) /\ Shape(proc[v])
    BY InvFacts
  <2>3. proc[v].b = b => proc[v].at \notin {"order", "refund", "save", "flush"}
    <3>1. ASSUME proc[v].b = b, proc[v].at \in {"save", "flush"}
          PROVE  FALSE
      <4>1. SaveHolds(proc[v], payment[b], order) /\ proc[v].op \in Savers
        BY <2>2, <3>1 DEF Holds, Saves, Shape
      <4>2. /\ proc[w].op = "createPaypalOrder" => payment[b].status = "PENDING"
            /\ proc[w].op = "capturePaypalOrder" => payment[b].status \in {"PENDING", "FAILED"}
            /\ proc[w].op = "reversePayment" => payment[b].status = "PAID"
        BY <1>2 DEF SaveHolds
      <4>3. /\ proc[v].op = "createPaypalOrder" => payment[b].status = "PENDING"
            /\ proc[v].op = "capturePaypalOrder" => payment[b].status \in {"PENDING", "FAILED"}
            /\ proc[v].op = "reversePayment" => payment[b].status = "PAID"
        BY <4>1 DEF SaveHolds
      <4>. QED  BY <1>5, <2>1, <4>1, <4>2, <4>3 DEF Beside, Answering, Savers
    <3>2. ASSUME proc[v].b = b, proc[v].at \in {"order", "refund"}
          PROVE  FALSE
      <4>1. /\ proc[v].at = "order" => proc[v].op = "createPaypalOrder" /\ payment[b].status = "PENDING"
            /\ proc[v].at = "refund" => proc[v].op = "reversePayment" /\ payment[b].status = "PAID"
        BY <2>1, <2>2, <3>2 DEF Holds, Shape, Reversers, Answering
      <4>2. /\ proc[w].op = "capturePaypalOrder" => payment[b].status \in {"PENDING", "FAILED"}
            /\ proc[w].op = "reversePayment" => payment[b].status = "PAID"
            /\ proc[w].op = "createPaypalOrder" => payment[b].status = "PENDING"
        BY <1>2 DEF SaveHolds
      <4>. QED  BY <1>5, <2>1, <3>2, <4>1, <4>2 DEF Beside, Answering
    <3>. QED  BY <3>1, <3>2
  <2>4. ASSUME proc[v].b = b, proc[v].at = "capture"
        PROVE  order[proc[v].pago.paypalOrderId].state # "created"
    <3>1. /\ proc[v].op = "capturePaypalOrder"
          /\ order[proc[v].pago.paypalOrderId].state = "created" =>
                payment[b] = proc[v].pago /\ proc[v].pago.status \in {"PENDING", "FAILED"}
      BY <2>2, <2>4, AskHolds DEF Shape
    <3>2. proc[w].op = "reversePayment"
      BY <1>5, <2>1, <3>1 DEF Beside
    <3>3. payment[b].status = "PAID"
      BY <1>2, <3>2 DEF SaveHolds
    <3>. QED  BY <3>1, <3>3
  <2>. QED  BY <1>1, <1>2, <2>1, <2>3, <2>4, RowWritten DEF SaveHolds
<1>6. proc[w].op = "cancelRoute" => LoopHolds(proc[w], payment)
  BY InvFacts DEF Holds
<1>7. CASE p = Idle
  BY <1>1, <1>3, <1>4, <1>5, <1>7, IdleHolds, IdleType, SlotKeepsInv
<1>8. CASE p.at = "store" /\ Same(p, proc[w])
  <2>1. p.op # "cancelRoute"
    BY <1>4, <1>8 DEF Shape, Answering
  <2>2. Holds(p, payment', order')
    BY <1>8, <2>1 DEF Holds, Saves
  <2>. QED  BY <1>1, <1>3, <1>4, <1>5, <1>8, <2>2, SlotKeepsInv DEF Same
<1>9. CASE /\ p.at = "save" /\ Same(p, proc[w]) /\ p.then = "next"
           /\ proc[w].then = "catch" /\ p.op \in {"cancelBooking", "cancelRoute"}
           /\ p.pago = Failed(p.pagos[b])
  <2>1. proc[w].pago = p.pago /\ p.b = b
    BY <1>2, <1>9 DEF SaveHolds, Same
  <2>2. p.pagos[b] \in Payment /\ p.pago.status = "FAILED"
    BY <1>1, <1>9, FailedIs DEF Proc
  <2>3. RowTrue(p.b, p.pago, order')
    BY <1>1, <1>3, <2>1
  <2>4. SaveHolds(p, payment'[p.b], order')
    BY <1>3, <1>9, <2>1, <2>2, <2>3 DEF SaveHolds
  <2>5. p.op = "cancelRoute" => LoopHolds(p, payment')
    BY <1>1, <1>3, <1>6, <1>9, HandlerIs, InvFacts DEF LoopHolds, Same
  <2>6. Holds(p, payment', order')
    BY <1>9, <2>4, <2>5 DEF Holds
  <2>. QED  BY <1>1, <1>3, <1>4, <1>5, <1>9, <2>6, SlotKeepsInv DEF Same
<1>10. CASE /\ p.at = "loop" /\ p.todo = proc[w].todo \ {b} /\ p.op = "cancelRoute"
            /\ proc[w].op = "cancelRoute" /\ p.pagos = proc[w].pagos
  <2>1. LoopHolds(p, payment')
    BY <1>1, <1>3, <1>6, <1>10, HandlerIs, InvFacts DEF LoopHolds
  <2>2. Holds(p, payment', order')
    BY <1>10, <2>1 DEF Holds, Saves
  <2>. QED  BY <1>1, <1>3, <1>4, <1>5, <1>10, <2>2, SlotKeepsInv
<1>. QED  BY <1>4, <1>7, <1>8, <1>9, <1>10

LEMMA ContinueKeepsInv ==
    ASSUME Inv, ShapeInv', NEW w \in Workers, Continue(w)
    PROVE  Inv'
<1>1. CASE StoreAnswer(w) \/ PaypalRefuses(w)
  <2>1. proc[w].at # "idle" /\ Become(w, Idle) /\ UNCHANGED <<payment, order>>
    BY <1>1, InvFacts, StoreAnswerIs, RefusesIs
  <2>. QED  BY <2>1, EndsKeepInv
<1>2. CASE \E o \in Orders : PaypalOrders(w, o)
  BY <1>2, PaypalOrdersKeeps
<1>3. CASE \E b \in Bookings : PayBack(w, b)
  BY <1>3, PayBackKeeps
<1>4. CASE InsertPayment(w) \/ FlushPayment(w) \/ SavePayment(w)
  BY <1>4, InsertKeeps, FlushKeeps, SaveKeeps
<1>5. CASE PaypalCaptures(w) \/ PaypalRefunds(w)
  BY <1>5, PaypalStepsKeep
<1>6. CASE ReadToReverse(w) \/ PaypalRefusesRefund(w) \/ WriteBooking(w) \/ ReadPayment(w)
  BY <1>6, ReadToReverseKeeps, RefusesRefundKeeps, WriteBookingKeeps, ReadPaymentKeeps
<1>7. CASE CloseRoute(w) \/ CancelRouteBookings(w) \/ SelectPayments(w)
  BY <1>7, RouteStepsKeep
<1>. QED  BY <1>1, <1>2, <1>3, <1>4, <1>5, <1>6, <1>7 DEF Continue

(* A handler ends where it stands, or the clock goes on, or nothing happens.  *)
LEMMA EasyInvSteps ==
    ASSUME Inv, ShapeInv', (\E w \in Workers : Fail(w)) \/ Tick \/ UNCHANGED vars
    PROVE  Inv'
<1>1. CASE \E w \in Workers : Fail(w)
  BY <1>1, EndsKeepInv DEF Fail, Done
<1>2. CASE Tick \/ UNCHANGED vars
  <2>1. UNCHANGED <<payment, order, proc>>
    BY <1>2 DEF Tick, vars
  <2>. QED  BY <2>1 DEF Inv, HoldInv, RunInv, RowsTrue, Holds, SaveHolds, LoopHolds, RowTrue, Saves
<1>. QED  BY <1>1, <1>2

LEMMA NextKeepsInv == Composes /\ Inv /\ [Next]_vars => Inv'
<1>. SUFFICES ASSUME Composes, Inv, [Next]_vars
              PROVE  Inv'
  OBVIOUS
<1>1. ShapeInv'
  BY NextKeepsShape DEF Inv
<1>2. ASSUME NEW w \in Workers, Calls(w)
      PROVE  Inv'
  BY <1>1, <1>2, CallsKeepInv
<1>3. ASSUME NEW w \in Workers, Continue(w)
      PROVE  Inv'
  BY <1>1, <1>3, ContinueKeepsInv
<1>4. ASSUME NEW w \in Workers, PaypalCapturesWithoutDetails(w) \/ AnswerLost(w)
      PROVE  Inv'
  BY <1>1, <1>4, PaypalStepsKeep
<1>. QED  BY <1>1, <1>2, <1>3, <1>4, EasyInvSteps DEF Next

LEMMA InitInv == Init => Inv
<1>. SUFFICES ASSUME Init
              PROVE  Inv
  OBVIOUS
<1>1. /\ proc = [w \in Workers |-> Idle] /\ payment = [b \in Bookings |-> NoPayment]
      /\ order = [o \in Orders |-> NoPaypalOrder]
  BY DEF Init
<1>2. \A w \in Workers : proc[w] = Idle /\ proc[w].at = "idle"
  BY <1>1, IdleType
<1>3. RowsTrue
  BY <1>1, NoPaymentType DEF RowsTrue, RowTrue
<1>4. HoldInv
  BY <1>2, <1>3, IdleHolds DEF HoldInv, RunInv
<1>. QED  BY <1>4, InitShape DEF Inv

\* What the handlers know of the rows they work on, for good.
THEOREM PaymentsInvariant ==
    ASSUME Composes
    PROVE  Spec => []Inv
  BY InitInv, NextKeepsInv, PTL DEF Spec

-----------------------------------------------------------------------------
(* What a step does with the money. *)

Placed(w) ==
    /\ proc[w].at = "order" /\ UNCHANGED payment
    /\ \E o \in Orders : Orderable(o) /\ PlaceOrder(o, proc[w].b, proc[w].key)
Captured(w) ==
    proc[w].at = "capture" /\ UNCHANGED payment /\ CaptureMoney(proc[w].pago.paypalOrderId)
Refunded(w) ==
    proc[w].at = "refund" /\ UNCHANGED payment /\ RefundMoney(proc[w].pago.paypalCaptureId)

\* The step of w, which makes p of its handler, without a fault ...
Regular(w, p) ==
    /\ faults' = faults
    /\ \/ /\ UNCHANGED <<payment, order>>
          /\ Saves(proc[w]) => Saves(p) /\ p.pago = proc[w].pago
       \/ /\ proc[w].at = "insert" /\ UNCHANGED order /\ payment[proc[w].b] = NoPayment
          /\ payment' = [payment EXCEPT ![proc[w].b].status = "PENDING"]
       \/ UNCHANGED order /\ FlushPayment(w)
       \/ Placed(w)
       \/ Captured(w) /\ Saves(p) /\ p.pago.paypalCaptureId = proc[w].pago.paypalOrderId
       \/ /\ Refunded(w) /\ Saves(p) /\ p.pago.status = "REVERSED"
          /\ p.pago.paypalCaptureId = proc[w].pago.paypalCaptureId

\* ... and with one.
Faulty(w) ==
    /\ faults' = faults + 1 /\ UNCHANGED payment
    /\ UNCHANGED order \/ Placed(w) \/ Captured(w) \/ Refunded(w)

LEMMA RegularSteps ==
    ASSUME Inv, NEW w \in Workers, Calls(w) \/ Continue(w)
    PROVE  \E p \in Proc : Become(w, p) /\ Regular(w, p)
<1>0. ShapeInv
  BY InvFacts
<1>1. CASE Calls(w)
  <2>1. PICK op \in Ops : Called(w, op) /\ \E p \in Proc : Become(w, p)
    BY <1>0, <1>1, CallsStart
  <2>2. ~Saves(proc[w]) /\ UNCHANGED <<payment, order, faults>>
    BY <1>0, <1>1, <2>1, CallsStart DEF Called, Saves
  <2>. QED  BY <2>1, <2>2 DEF Regular
<1>2. CASE StoreAnswer(w) \/ PaypalRefuses(w)
  BY <1>0, <1>2, StoreAnswerIs, RefusesIs, IdleType DEF Regular, Saves
<1>3. CASE \E b \in Bookings : PayBack(w, b)
  BY <1>0, <1>3, PayBackIs DEF Regular, Saves
<1>4. CASE InsertPayment(w)
  BY <1>0, <1>4, InsertIs, IdleType DEF Regular, Saves
<1>5. CASE FlushPayment(w)
  BY <1>0, <1>5, FlushIs DEF Regular
<1>6. CASE SavePayment(w)
  BY <1>0, <1>6, SaveIs DEF Regular, Saves
<1>7. CASE \E o \in Orders : PaypalOrders(w, o)
  BY <1>0, <1>7, PaypalOrdersIs DEF Regular, Placed
<1>8. CASE PaypalCaptures(w)
  BY <1>0, <1>8, CapturesIs DEF Regular, Captured, Saves
<1>9. CASE PaypalRefunds(w)
  <2>1. proc[w].at = "refund" /\ proc[w].pago.paypalCaptureId # NoOrder
    BY <1>0, <1>9, RefundsIs, AskHolds, PaymentAssumption
  <2>. QED  BY <1>0, <1>9, <2>1, RefundsIs DEF Regular, Refunded, Saves
<1>10. CASE ReadToReverse(w)
  <2>1. proc[w].at = "reverse" /\ proc[w].op \in Reversers /\ UNCHANGED <<payment, order, faults>>
    BY <1>0, <1>10, ReadToReverseIs
  <2>2. \E p \in Proc : Become(w, p)
    BY <1>0, <1>10, <2>1, ReadToReverseIs, ThrowIs
  <2>. QED  BY <2>1, <2>2 DEF Regular, Saves
<1>11. CASE PaypalRefusesRefund(w)
  <2>1. proc[w].at = "refund" /\ UNCHANGED <<payment, order, faults>>
        /\ Become(w, Saving(proc[w], Failed(proc[w].pago), "catch"))
    BY <1>11 DEF PaypalRefusesRefund
  <2>. QED  BY <1>0, <2>1, RefusesRefundIs DEF Regular, Saves
<1>12. CASE WriteBooking(w)
  <2>1. proc[w].at = "tx" /\ UNCHANGED <<payment, order, faults>> /\ \E p \in Proc : Become(w, p)
    BY <1>0, <1>12, WriteBookingIs, IdleType
  <2>. QED  BY <2>1 DEF Regular, Saves
<1>13. CASE ReadPayment(w)
  <2>1. proc[w].at = "read" /\ UNCHANGED <<payment, order, faults>> /\ \E p \in Proc : Become(w, p)
    BY <1>0, <1>13, ReadPaymentIs
  <2>. QED  BY <2>1 DEF Regular, Saves
<1>14. CASE CloseRoute(w) \/ CancelRouteBookings(w)
  BY <1>0, <1>14, ClosingIs DEF Regular, Saves
<1>15. CASE SelectPayments(w)
  BY <1>0, <1>15, SelectIs DEF Regular, Saves
<1>. QED  BY <1>1, <1>2, <1>3, <1>4, <1>5, <1>6, <1>7, <1>8, <1>9, <1>10, <1>11, <1>12, <1>13,
             <1>14, <1>15 DEF Continue

LEMMA FaultySteps ==
    ASSUME Inv, NEW w \in Workers, PaypalCapturesWithoutDetails(w) \/ AnswerLost(w) \/ Fail(w)
    PROVE  /\ \E p \in Proc : Become(w, p)
           /\ Faulty(w) /\ faults \in Nat
<1>0. ShapeInv
  BY InvFacts
<1>1. faults \in Nat
  BY <1>0, PaymentAssumption DEF ShapeInv, TypeOK
<1>2. CASE PaypalCapturesWithoutDetails(w)
  BY <1>0, <1>1, <1>2, WithoutDetailsIs DEF Faulty, Captured
<1>3. CASE AnswerLost(w)
  BY <1>0, <1>1, <1>3, AnswerLostIs, IdleType DEF Faulty, Placed, Captured, Refunded
<1>4. CASE Fail(w)
  BY <1>1, <1>4, IdleType DEF Faulty, Fail, Done
<1>. QED  BY <1>2, <1>3, <1>4

LEMMA OthersStay ==
    ASSUME Inv, NEW w \in Workers, NEW p \in Proc, Become(w, p)
    PROVE  proc'[w] = p /\ \A v \in Workers \ {w} : proc'[v] = proc[v]
BY DEF Become, Inv, ShapeInv, TypeOK

-----------------------------------------------------------------------------
(* The money's traces. *)

\* An order is made for a booking; what is not made yet has no key.
OrdersPlaced ==
    \A o \in Orders : /\ order[o].state = "none" => order[o].key = NoKey
                      /\ order[o].state # "none" => order[o].b \in Bookings

CaptureTraced(o) == Recorded(o, {"PAID", "FAILED"}) \/ \E w \in Workers : Recording(w, o)
RefundTraced(o) ==
    \/ Recorded(o, {"REVERSED"})
    \/ \E w \in Workers : Recording(w, o) /\ proc[w].pago.status = "REVERSED"

LostCaptures == {o \in Orders : order[o].state = "captured" /\ ~CaptureTraced(o)}
LostRefunds == {o \in Orders : order[o].state = "refunded" /\ ~RefundTraced(o)}
AtMostFaults(S) == IsFiniteSet(S) /\ Cardinality(S) <= faults

\* A PAID payment whose money went back is about to be recorded as REVERSED.
RefundSeen ==
    \A b \in Bookings :
        payment[b].status = "PAID" /\ order[payment[b].paypalCaptureId].state = "refunded" =>
            \/ faults > 0
            \/ \E w \in Workers : /\ Recording(w, payment[b].paypalCaptureId)
                                  /\ proc[w].pago.status = "REVERSED"

MoneyInv ==
    Inv /\ OrdersPlaced /\ RefundSeen /\ AtMostFaults(LostCaptures) /\ AtMostFaults(LostRefunds)

(* What happens to one order, and to no other. *)
LEMMA MoneyStepIs ==
    ASSUME Inv, NEW w \in Workers
    PROVE  /\ Placed(w) =>
                \E o \in Orders : /\ order[o].state = "none" /\ order'[o].state = "created"
                                  /\ order'[o].b = proc[w].b /\ order'[o].key = proc[w].key
                                  /\ \A x \in Orders \ {o} : order'[x] = order[x]
           /\ Captured(w) =>
                LET o == proc[w].pago.paypalOrderId
                IN  /\ o \in Orders /\ order[o].state = "created" /\ order'[o].state = "captured"
                    /\ order'[o].b = order[o].b /\ order'[o].key = order[o].key
                    /\ \A x \in Orders \ {o} : order'[x] = order[x]
           /\ Refunded(w) =>
                LET o == proc[w].pago.paypalCaptureId
                IN  /\ o \in Orders /\ order[o].state = "captured" /\ order'[o].state = "refunded"
                    /\ order'[o].b = order[o].b /\ order'[o].key = order[o].key
                    /\ \A x \in Orders \ {o} : order'[x] = order[x]
<1>1. proc[w].b \in Bookings /\ proc[w].key \in Keys \cup {NoKey}
  BY InvFacts, HandlerIs
<1>2. Placed(w) =>
        \E o \in Orders : /\ order[o].state = "none" /\ order'[o].state = "created"
                          /\ order'[o].b = proc[w].b /\ order'[o].key = proc[w].key
                          /\ \A x \in Orders \ {o} : order'[x] = order[x]
  BY <1>1, OrderSteps DEF Placed, Orderable
<1>3. ASSUME Captured(w)
      PROVE  LET o == proc[w].pago.paypalOrderId
             IN  /\ o \in Orders /\ order[o].state = "created" /\ order'[o].state = "captured"
                 /\ order'[o].b = order[o].b /\ order'[o].key = order[o].key
                 /\ \A x \in Orders \ {o} : order'[x] = order[x]
  BY <1>3, AskHolds, OrderSteps DEF Captured
<1>4. ASSUME Refunded(w)
      PROVE  LET o == proc[w].pago.paypalCaptureId
             IN  /\ o \in Orders /\ order[o].state = "captured" /\ order'[o].state = "refunded"
                 /\ order'[o].b = order[o].b /\ order'[o].key = order[o].key
                 /\ \A x \in Orders \ {o} : order'[x] = order[x]
  BY <1>4, AskHolds, OrderSteps DEF Refunded
<1>. QED  BY <1>2, <1>3, <1>4

\* The order whose trace a fault of w may lose.
AtRisk(w) == IF proc[w].at = "capture" THEN proc[w].pago.paypalOrderId
             ELSE proc[w].pago.paypalCaptureId

LEMMA OrdersStayPlaced ==
    ASSUME Inv, OrdersPlaced, NEW w \in Workers,
           UNCHANGED order \/ Placed(w) \/ Captured(w) \/ Refunded(w)
    PROVE  OrdersPlaced'
<1>1. proc[w].b \in Bookings
  BY InvFacts
<1>. QED  BY <1>1, MoneyStepIs DEF OrdersPlaced

(* A step without a fault leaves every trace, and leaves one of what it does. *)
LEMMA TracesStay ==
    ASSUME Inv, OrdersPlaced, NEW w \in Workers, NEW p \in Proc, Become(w, p), Regular(w, p),
           NEW o \in Orders
    PROVE  /\ order'[o].state = "captured" /\ (order[o].state = "captured" => CaptureTraced(o))
                => CaptureTraced(o)'
           /\ order'[o].state = "refunded" /\ (order[o].state = "refunded" => RefundTraced(o))
                => RefundTraced(o)'
<1> DEFINE b == order[o].b
<1>0. proc'[w] = p /\ \A v \in Workers \ {w} : proc'[v] = proc[v]
  BY OthersStay
<1>1. order[o].state # "none" => b \in Bookings
  BY DEF OrdersPlaced
<1>2. payment \in [Bookings -> Payment] /\ proc[w].b \in Bookings
  BY InvFacts
<1>3. CASE /\ UNCHANGED <<payment, order>>
           /\ Saves(proc[w]) => Saves(p) /\ p.pago = proc[w].pago
  BY <1>0, <1>3 DEF CaptureTraced, RefundTraced, Recorded, Recording, Saves
<1>4. CASE /\ proc[w].at = "insert" /\ UNCHANGED order /\ payment[proc[w].b] = NoPayment
           /\ payment' = [payment EXCEPT ![proc[w].b].status = "PENDING"]
  <2>1. \A x \in Bookings : payment[x] # NoPayment => payment'[x] = payment[x]
    BY <1>2, <1>4
  <2>2. ASSUME NEW statuses, Recorded(o, statuses), order[o].state # "none", "none" \notin statuses
        PROVE  Recorded(o, statuses)'
    <3>1. payment[b] # NoPayment
      BY <2>2, NoPaymentType DEF Recorded
    <3>. QED  BY <1>1, <1>4, <2>1, <2>2, <3>1 DEF Recorded
  <2>3. \A v \in Workers : Recording(v, o) => v # w
    BY <1>4 DEF Recording
  <2>4. UNCHANGED order
    BY <1>4
  <2>. QED  BY <1>0, <2>2, <2>3, <2>4 DEF CaptureTraced, RefundTraced, Recording
<1>5. CASE UNCHANGED order /\ FlushPayment(w)
  <2> DEFINE c == proc[w].b
             row == payment[c]
             pago == proc[w].pago
  <2>1. /\ SaveHolds(proc[w], row, order) /\ payment'[c] = pago
        /\ \A x \in Bookings \ {c} : payment'[x] = payment[x]
    BY <1>5, FlushWrites
  <2>2. pago \in Payment /\ pago.status \in EstadoPago \cup {"none"}
    BY InvFacts DEF Payment
  <2>3. /\ RowTrue(c, pago, order) /\ row.status # "REVERSED" /\ pago.status # "none"
        /\ row.paypalCaptureId # NoOrder => pago.paypalCaptureId = row.paypalCaptureId
    BY <2>1 DEF SaveHolds
  <2>4. o # NoOrder
    BY PaymentAssumption
  <2>5. pago.paypalCaptureId = o => c = b
    BY <2>3, <2>4 DEF RowTrue
  <2>6. ASSUME order[o].state = "captured", CaptureTraced(o)
        PROVE  CaptureTraced(o)'
    <3>1. CASE \E v \in Workers \ {w} : Recording(v, o)
      BY <1>0, <3>1 DEF CaptureTraced, Recording
    <3>2. CASE pago.paypalCaptureId = o
      <4>1. pago.status \in {"PAID", "FAILED"}
        BY <2>3, <2>4, <2>6, <3>2 DEF RowTrue
      <4>. QED  BY <1>5, <2>1, <2>5, <3>2, <4>1 DEF CaptureTraced, Recorded
    <3>3. CASE Recorded(o, {"PAID", "FAILED"}) /\ pago.paypalCaptureId # o
      <4>1. b # c
        BY <2>3, <2>4, <3>3 DEF Recorded
      <4>. QED  BY <1>1, <1>5, <2>1, <2>6, <3>3, <4>1 DEF CaptureTraced, Recorded
    <3>. QED  BY <2>6, <3>1, <3>2, <3>3 DEF CaptureTraced, Recording
  <2>7. ASSUME order[o].state = "refunded", RefundTraced(o)
        PROVE  RefundTraced(o)'
    <3>1. CASE \E v \in Workers \ {w} : Recording(v, o) /\ proc[v].pago.status = "REVERSED"
      BY <1>0, <3>1 DEF RefundTraced, Recording
    <3>2. CASE pago.paypalCaptureId = o /\ pago.status = "REVERSED"
      BY <1>5, <2>1, <2>5, <3>2 DEF RefundTraced, Recorded
    <3>3. CASE Recorded(o, {"REVERSED"})
      <4>1. b # c
        BY <2>3, <3>3 DEF Recorded
      <4>. QED  BY <1>1, <1>5, <2>1, <2>7, <3>3, <4>1 DEF RefundTraced, Recorded
    <3>. QED  BY <2>7, <3>1, <3>2, <3>3 DEF RefundTraced, Recording
  <2>. QED  BY <1>5, <2>6, <2>7
<1>6. CASE Placed(w)
  <2>1. /\ proc[w].at = "order" /\ UNCHANGED payment
        /\ order'[o].state \in {"captured", "refunded"} => order'[o] = order[o]
    BY <1>6, MoneyStepIs DEF Placed
  <2>. QED  BY <1>0, <2>1 DEF CaptureTraced, RefundTraced, Recorded, Recording
<1>7. CASE Captured(w) /\ Saves(p) /\ p.pago.paypalCaptureId = proc[w].pago.paypalOrderId
  <2>1. /\ proc[w].at = "capture" /\ UNCHANGED payment
        /\ o # proc[w].pago.paypalOrderId => order'[o] = order[o]
        /\ o = proc[w].pago.paypalOrderId => order'[o].state = "captured"
    BY <1>7, MoneyStepIs DEF Captured
  <2>2. o = proc[w].pago.paypalOrderId => Recording(w, o)'
    BY <1>0, <1>7 DEF Recording, Saves
  <2>. QED  BY <1>0, <2>1, <2>2 DEF CaptureTraced, RefundTraced, Recorded, Recording
<1>8. CASE /\ Refunded(w) /\ Saves(p) /\ p.pago.status = "REVERSED"
           /\ p.pago.paypalCaptureId = proc[w].pago.paypalCaptureId
  <2>1. /\ proc[w].at = "refund" /\ UNCHANGED payment
        /\ o # proc[w].pago.paypalCaptureId => order'[o] = order[o]
        /\ o = proc[w].pago.paypalCaptureId => order'[o].state = "refunded"
    BY <1>8, MoneyStepIs DEF Refunded
  <2>2. o = proc[w].pago.paypalCaptureId => (Recording(w, o) /\ proc[w].pago.status = "REVERSED")'
    BY <1>0, <1>8 DEF Recording, Saves
  <2>. QED  BY <1>0, <2>1, <2>2 DEF CaptureTraced, RefundTraced, Recorded, Recording
<1>. QED  BY <1>3, <1>4, <1>5, <1>6, <1>7, <1>8 DEF Regular

(* A fault of w loses the trace of one order at most. *)
LEMMA FaultLosesOne ==
    ASSUME Inv, OrdersPlaced, NEW w \in Workers, NEW p \in Proc, Become(w, p), Faulty(w),
           NEW o \in Orders, o # AtRisk(w)
    PROVE  /\ order'[o].state = "captured" /\ (order[o].state = "captured" => CaptureTraced(o))
                => CaptureTraced(o)'
           /\ order'[o].state = "refunded" /\ (order[o].state = "refunded" => RefundTraced(o))
                => RefundTraced(o)'
<1>0. \A v \in Workers \ {w} : proc'[v] = proc[v]
  BY OthersStay
<1>1. UNCHANGED payment
  BY DEF Faulty
<1>2. order'[o].state \in {"captured", "refunded"} => order'[o] = order[o]
  BY MoneyStepIs DEF Faulty, AtRisk, Captured, Refunded
<1>3. \A v \in Workers : Recording(v, o) => v # w
  BY DEF Recording, AtRisk
<1>. QED  BY <1>0, <1>1, <1>2, <1>3 DEF CaptureTraced, RefundTraced, Recorded, Recording

LEMMA RefundSeenStays ==
    ASSUME Inv, Inv', OrdersPlaced, RefundSeen,
           NEW w \in Workers, NEW p \in Proc, Become(w, p), Regular(w, p)
    PROVE  RefundSeen'
<1>. SUFFICES ASSUME NEW b \in Bookings, payment'[b].status = "PAID",
                     order'[payment'[b].paypalCaptureId].state = "refunded", ~(faults' > 0)
              PROVE  \E v \in Workers : /\ proc'[v].at \in {"save", "flush"}
                                        /\ proc'[v].pago.paypalCaptureId = payment'[b].paypalCaptureId
                                        /\ proc'[v].pago.status = "REVERSED"
  BY SMTT(60) DEF RefundSeen, Recording
<1>1. /\ payment[b] \in Payment /\ RowTrue(b, payment[b], order)
      /\ payment'[b] \in Payment /\ RowTrue(b, payment'[b], order')
  BY DEF Inv, ShapeInv, TypeOK, HoldInv, RowsTrue, RowTrue
<1>2. PICK o \in Orders : o = payment'[b].paypalCaptureId /\ order'[o].b = b /\ order'[o].state = "refunded"
  <2>1. payment'[b].paypalCaptureId \in Orders
    BY <1>1 DEF RowTrue, Payment
  <2>. QED  BY <1>1, <2>1 DEF RowTrue
<1>3. ASSUME order[o].state = "refunded"
      PROVE  payment[b].status = "PAID" /\ payment[b].paypalCaptureId = o
  <2>1. CASE payment'[b] = payment[b]
    BY <1>2, <2>1
  <2>2. CASE FlushPayment(w) /\ b = proc[w].b
    <3>1. SaveHolds(proc[w], payment[b], order) /\ payment'[b] = proc[w].pago
      BY <2>2, FlushWrites
    <3>2. payment[b].status = "PAID"
      BY <1>2, <1>3, <3>1 DEF SaveHolds
    <3>. QED  BY <1>1, <1>2, <3>1, <3>2 DEF SaveHolds, RowTrue
  <2>3. CASE /\ proc[w].at = "insert" /\ payment[proc[w].b] = NoPayment /\ b = proc[w].b
             /\ payment' = [payment EXCEPT ![proc[w].b].status = "PENDING"]
    <3>1. payment'[b].status = "PENDING"
      BY <2>3, InvFacts DEF Payment
    <3>. QED  BY <3>1
  <2>4. payment'[b] = payment[b] \/ b = proc[w].b
    <3>1. FlushPayment(w) => \A x \in Bookings \ {proc[w].b} : payment'[x] = payment[x]
      BY FlushWrites
    <3>2. payment' = [payment EXCEPT ![proc[w].b].status = "PENDING"] =>
                \A x \in Bookings \ {proc[w].b} : payment'[x] = payment[x]
      BY InvFacts
    <3>. QED  BY <3>1, <3>2 DEF Regular, Placed, Captured, Refunded
  <2>5. payment'[b] = payment[b] \/ FlushPayment(w)
        \/ /\ proc[w].at = "insert" /\ payment[proc[w].b] = NoPayment
           /\ payment' = [payment EXCEPT ![proc[w].b].status = "PENDING"]
    BY DEF Regular, Placed, Captured, Refunded
  <2>. QED  BY <2>1, <2>2, <2>3, <2>4, <2>5
<1>4. order[o].state = "refunded" => RefundTraced(o)
  <2>1. ~(faults > 0)
    BY DEF Regular
  <2>. QED  BY <1>3, <2>1 DEF RefundSeen, RefundTraced
<1>5. RefundTraced(o)'
  BY <1>2, <1>4, TracesStay
<1>6. ~Recorded(o, {"REVERSED"})'
  BY <1>2 DEF Recorded
<1>7. \E v \in Workers : (Recording(v, o) /\ proc[v].pago.status = "REVERSED")'
  BY <1>5, <1>6 DEF RefundTraced
<1>. QED  BY <1>2, <1>7 DEF Recording

LEMMA FewerLost ==
    ASSUME NEW S, NEW T, NEW x, NEW n \in Nat, IsFiniteSet(S), Cardinality(S) <= n
    PROVE  /\ T \subseteq S => IsFiniteSet(T) /\ Cardinality(T) <= n
           /\ T \subseteq S \cup {x} => IsFiniteSet(T) /\ Cardinality(T) <= n + 1
<1>1. Cardinality(S) \in Nat
  BY FS_CardinalityType
<1>2. /\ IsFiniteSet(S \cup {x})
      /\ Cardinality(S \cup {x}) \in Nat /\ Cardinality(S \cup {x}) <= n + 1
  BY <1>1, FS_AddElement
<1>3. ASSUME T \subseteq S
      PROVE  IsFiniteSet(T) /\ Cardinality(T) <= n
  BY <1>1, <1>3, FS_Subset, FS_CardinalityType
<1>4. ASSUME T \subseteq S \cup {x}
      PROVE  IsFiniteSet(T) /\ Cardinality(T) <= n + 1
  <2>1. IsFiniteSet(T) /\ Cardinality(T) <= Cardinality(S \cup {x}) /\ Cardinality(T) \in Nat
    BY <1>2, <1>4, FS_Subset, FS_CardinalityType
  <2>. QED  BY <1>2, <2>1
<1>. QED  BY <1>3, <1>4

LEMMA NextKeepsMoney == Composes /\ MoneyInv /\ [Next]_vars => MoneyInv'
<1>. SUFFICES ASSUME Composes, MoneyInv, [Next]_vars
              PROVE  MoneyInv'
  OBVIOUS
<1>0. Inv /\ Inv' /\ OrdersPlaced /\ RefundSeen /\ faults \in Nat
  BY NextKeepsInv, PaymentAssumption DEF MoneyInv, Inv, ShapeInv, TypeOK
<1>1. ASSUME NEW w \in Workers, Calls(w) \/ Continue(w)
      PROVE  MoneyInv'
  <2>1. PICK p \in Proc : Become(w, p) /\ Regular(w, p)
    BY <1>0, <1>1, RegularSteps
  <2>2. OrdersPlaced' /\ faults' = faults
    BY <1>0, <2>1, OrdersStayPlaced DEF Regular
  <2>3. RefundSeen'
    BY <1>0, <2>1, RefundSeenStays
  <2>4. LostCaptures' \subseteq LostCaptures /\ LostRefunds' \subseteq LostRefunds
    BY <1>0, <2>1, TracesStay DEF LostCaptures, LostRefunds
  <2>5. AtMostFaults(LostCaptures)'
    BY <1>0, <2>2, <2>4, FewerLost DEF MoneyInv, AtMostFaults
  <2>6. AtMostFaults(LostRefunds)'
    BY <1>0, <2>2, <2>4, FewerLost DEF MoneyInv, AtMostFaults
  <2>. QED  BY <1>0, <2>2, <2>3, <2>5, <2>6 DEF MoneyInv
<1>2. ASSUME NEW w \in Workers, PaypalCapturesWithoutDetails(w) \/ AnswerLost(w) \/ Fail(w)
      PROVE  MoneyInv'
  <2>1. PICK p \in Proc : Become(w, p)
    BY <1>0, <1>2, FaultySteps
  <2>2. Faulty(w) /\ faults' = faults + 1
    BY <1>0, <1>2, FaultySteps DEF Faulty
  <2>3. OrdersPlaced'
    BY <1>0, <2>2, OrdersStayPlaced DEF Faulty
  <2>4. faults' > 0
    BY <1>0, <2>2
  <2>5. RefundSeen'
    BY <2>4 DEF RefundSeen
  <2>6. /\ LostCaptures' \subseteq LostCaptures \cup {AtRisk(w)}
        /\ LostRefunds' \subseteq LostRefunds \cup {AtRisk(w)}
    BY <1>0, <2>1, <2>2, FaultLosesOne DEF LostCaptures, LostRefunds
  <2>7. AtMostFaults(LostCaptures)'
    BY <1>0, <2>2, <2>6, FewerLost DEF MoneyInv, AtMostFaults
  <2>8. AtMostFaults(LostRefunds)'
    BY <1>0, <2>2, <2>6, FewerLost DEF MoneyInv, AtMostFaults
  <2>. QED  BY <1>0, <2>3, <2>5, <2>7, <2>8 DEF MoneyInv
<1>3. CASE Tick \/ UNCHANGED vars
  <2>1. UNCHANGED <<payment, order, proc, faults>>
    BY <1>3 DEF Tick, vars
  <2>. QED  BY <1>0, <2>1 DEF MoneyInv, OrdersPlaced, RefundSeen, AtMostFaults, LostCaptures, LostRefunds,
               CaptureTraced, RefundTraced, Recorded, Recording
<1>. QED  BY <1>1, <1>2, <1>3 DEF Next

LEMMA InitMoney == Init => MoneyInv
<1>. SUFFICES ASSUME Init
              PROVE  MoneyInv
  OBVIOUS
<1>1. /\ payment = [b \in Bookings |-> NoPayment] /\ order = [o \in Orders |-> NoPaypalOrder]
      /\ faults = 0
  BY DEF Init
<1>2. \A o \in Orders : order[o].state = "none" /\ order[o].key = NoKey
  BY <1>1 DEF NoPaypalOrder
<1>3. OrdersPlaced /\ LostCaptures = {} /\ LostRefunds = {}
  BY <1>2 DEF OrdersPlaced, LostCaptures, LostRefunds
<1>4. RefundSeen
  BY <1>1, NoPaymentType DEF RefundSeen
<1>5. AtMostFaults(LostCaptures) /\ AtMostFaults(LostRefunds)
  BY <1>1, <1>3, FS_EmptySet DEF AtMostFaults
<1>. QED  BY <1>3, <1>4, <1>5, InitInv DEF MoneyInv

LEMMA MoneyForever ==
    ASSUME Composes
    PROVE  Spec => []MoneyInv
  BY InitMoney, NextKeepsMoney, PTL DEF Spec

(* A captured order is found in the payment of its booking, which is PAID or   *)
(* FAILED, or is about to be recorded there by capturePaypalOrder: a fault     *)
(* loses one of them at most.                                                  *)
THEOREM CapturesAreRecorded ==
    ASSUME Composes
    PROVE  Spec => []CapturesRecorded
<1>1. MoneyInv => CapturesRecorded
  <2>. SUFFICES ASSUME MoneyInv
                PROVE  CapturesRecorded
    OBVIOUS
  <2> DEFINE Lost == {o \in Orders : /\ order[o].state = "captured"
                                     /\ ~Recorded(o, {"PAID", "FAILED"})
                                     /\ \A w \in Workers : ~Recording(w, o)}
  <2>1. Lost = LostCaptures
    BY DEF LostCaptures, CaptureTraced
  <2>2. Cardinality(LostCaptures) <= faults
    BY DEF MoneyInv, AtMostFaults
  <2>. QED  BY <2>1, <2>2 DEF CapturesRecorded
<1>. QED  BY <1>1, MoneyForever, PTL

(* Money that went back is REVERSED in the table or about to be: a fault hides *)
(* one refund at most.                                                         *)
THEOREM RefundsAreRecorded ==
    ASSUME Composes
    PROVE  Spec => []RefundsRecorded
<1>1. MoneyInv => RefundsRecorded
  <2>. SUFFICES ASSUME MoneyInv
                PROVE  RefundsRecorded
    OBVIOUS
  <2> DEFINE Lost == {o \in Orders :
        /\ order[o].state = "refunded"
        /\ ~Recorded(o, {"REVERSED"})
        /\ \A w \in Workers : ~(Recording(w, o) /\ proc[w].pago.status = "REVERSED")}
  <2>1. Lost = LostRefunds
    BY DEF LostRefunds, RefundTraced
  <2>2. Cardinality(LostRefunds) <= faults
    BY DEF MoneyInv, AtMostFaults
  <2>. QED  BY <2>1, <2>2 DEF RefundsRecorded
<1>. QED  BY <1>1, MoneyForever, PTL

(* No step changes a payment that is REVERSED: what saves knows better.        *)
THEOREM ReversedForGood ==
    ASSUME Composes
    PROVE  Spec => ReversedIsFinal
<1>1. Inv /\ [Next]_vars =>
        [\A b \in Bookings : payment[b].status = "REVERSED" =>
            payment'[b].status = "REVERSED"]_payment
  <2>. SUFFICES ASSUME Inv, Next, NEW b \in Bookings, payment[b].status = "REVERSED"
                PROVE  payment'[b] = payment[b] \/ UNCHANGED payment
    BY DEF vars
  <2>1. ASSUME NEW w \in Workers, NEW p \in Proc, Regular(w, p)
        PROVE  payment'[b] = payment[b] \/ UNCHANGED payment
    <3>1. CASE FlushPayment(w)
      <4>1. payment[proc[w].b].status # "REVERSED"
        BY <3>1, FlushWrites DEF SaveHolds
      <4>. QED  BY <3>1, <4>1, FlushWrites
    <3>2. CASE payment[proc[w].b] = NoPayment /\ payment' = [payment EXCEPT ![proc[w].b].status = "PENDING"]
      BY <3>2, InvFacts, NoPaymentType
    <3>. QED  BY <2>1, <3>1, <3>2 DEF Regular, Placed, Captured, Refunded
  <2>2. CASE \E w \in Workers : Calls(w) \/ Continue(w)
    BY <2>1, <2>2, RegularSteps
  <2>3. CASE \E w \in Workers : PaypalCapturesWithoutDetails(w) \/ AnswerLost(w) \/ Fail(w)
    BY <2>3, FaultySteps DEF Faulty
  <2>. QED  BY <2>2, <2>3 DEF Next, Tick
<1>. QED  BY <1>1, PaymentsInvariant, PTL DEF Spec, ReversedIsFinal

-----------------------------------------------------------------------------
(* Cancelled bookings: whoever cancelled one will mark its payment.            *)

Unsettled(b) == booking[b] = "CANCELADA" /\ payment[b].status = "PENDING"

\* Handler p has yet to settle the payment of b.
WillSettle(p, b) ==
    \/ p.op = "cancelBooking" /\ p.b = b /\ (p.at = "read" \/ Saves(p))
    \/ /\ p.op = "cancelRoute"
       /\ \/ p.at = "select"
          \/ b \in p.todo /\ (p.at = "loop" \/ b # p.b)
          \/ Saves(p) /\ p.b = b

SettleInv ==
    /\ \A w \in Workers : proc[w].at = "insert" => booking[proc[w].b] = "CONFIRMADA"
    /\ faults = 0 => \A b \in Bookings : Unsettled(b) => \E w \in Workers : WillSettle(proc[w], b)

\* What handler w leaves unsettled in a step that makes p of it.
LeavesToOthers(w, p) ==
    \A b \in Bookings :
        (booking'[b] = "CANCELADA" /\ payment'[b].status = "PENDING") =>
            WillSettle(p, b) \/ (Unsettled(b) /\ ~WillSettle(proc[w], b))

LEMMA SettleStep ==
    ASSUME Inv, SettleInv, NEW w \in Workers, NEW p \in Proc, Become(w, p),
           faults' = faults, LeavesToOthers(w, p),
           p.at = "insert" => booking'[p.b] = "CONFIRMADA",
           UNCHANGED booking \/ proc[w].op \in {"cancelBooking", "markNoShow", "completeBooking", "cancelRoute"},
           UNCHANGED booking \/ proc[w].at # "idle"
    PROVE  SettleInv'
<1>1. proc'[w] = p /\ \A v \in Workers \ {w} : proc'[v] = proc[v]
  BY OthersStay
<1>2. ASSUME NEW v \in Workers, proc'[v].at = "insert"
      PROVE  booking'[proc'[v].b] = "CONFIRMADA"
  <2>1. CASE v = w
    BY <1>1, <1>2, <2>1
  <2>2. CASE v # w
    <3>1. booking[proc[v].b] = "CONFIRMADA" /\ proc[v].at = "insert" /\ proc'[v] = proc[v]
      BY <1>1, <1>2, <2>2 DEF SettleInv
    <3>2. UNCHANGED booking
      BY <2>2, <3>1 DEF Inv, HoldInv, RunInv, Beside, Answering
    <3>. QED  BY <3>1, <3>2
  <2>. QED  BY <2>1, <2>2
<1>3. ASSUME faults' = 0, NEW b \in Bookings, Unsettled(b)'
      PROVE  \E v \in Workers : WillSettle(proc'[v], b)
  <2>1. CASE WillSettle(p, b)
    BY <1>1, <2>1
  <2>2. CASE Unsettled(b) /\ ~WillSettle(proc[w], b)
    <3>1. PICK v \in Workers : WillSettle(proc[v], b)
      BY <1>3, <2>2 DEF SettleInv
    <3>2. v # w
      BY <2>2, <3>1
    <3>3. proc'[v] = proc[v]
      BY <1>1, <3>2
    <3>. QED  BY <3>1, <3>3
  <2>. QED  BY <1>3, <2>1, <2>2 DEF LeavesToOthers, Unsettled
<1>4. faults' = 0 => \A b \in Bookings : Unsettled(b)' => \E v \in Workers : WillSettle(proc'[v], b)
  BY <1>3
<1>. QED  BY <1>2, <1>4 DEF SettleInv, WillSettle, Saves

\* A handler that goes on with what it had to do, or that cancels nothing.
LEMMA StillSettles ==
    ASSUME Inv, NEW w \in Workers, NEW p \in Proc, UNCHANGED <<booking, payment>>,
           \/ proc[w].op \notin {"cancelBooking", "cancelRoute"}
           \/ /\ Same(p, proc[w]) /\ proc[w].at \notin {"read", "select", "loop"}
              /\ Saves(proc[w]) => Saves(p)
    PROVE  LeavesToOthers(w, p)
BY DEF LeavesToOthers, Unsettled, WillSettle, Same

LEMMA CallsSettle ==
    ASSUME Inv, SettleInv, NEW w \in Workers, Calls(w)
    PROVE  SettleInv'
<1>1. PICK op \in Ops : Called(w, op) /\ \E p \in Proc : Become(w, p) /\ Started(p, op)
  BY InvFacts, CallsStart
<1>2. PICK p \in Proc : Become(w, p) /\ Started(p, op)
  BY <1>1
<1>3. UNCHANGED <<booking, payment, faults>>
  BY InvFacts, CallsStart
<1>4. proc[w].op = "none"
  BY <1>1, InvFacts, IdleType DEF Called, Shape
<1>5. LeavesToOthers(w, p)
  BY <1>3, <1>4, StillSettles
<1>6. p.at = "insert" => booking'[p.b] = "CONFIRMADA"
  BY <1>2, <1>3 DEF Started
<1>. QED  BY <1>2, <1>3, <1>5, <1>6, SettleStep

LEMMA PaypalSettles ==
    ASSUME Inv, SettleInv, NEW w \in Workers,
           \/ StoreAnswer(w) \/ PaypalRefuses(w) \/ PaypalCaptures(w) \/ PaypalRefunds(w)
           \/ PaypalRefusesRefund(w) \/ SavePayment(w) \/ ReadToReverse(w)
           \/ \E o \in Orders : PaypalOrders(w, o)
    PROVE  SettleInv'
<1>0. ShapeInv /\ Shape(proc[w])
  BY InvFacts
<1>1. UNCHANGED <<booking, payment, faults>>
  BY DEF StoreAnswer, PaypalRefuses, PaypalCaptures, PaypalRefunds, PaypalRefusesRefund, SavePayment,
         ReadToReverse, PaypalOrders
<1>2. \E p \in Proc : Become(w, p) /\ LeavesToOthers(w, p) /\ p.at # "insert"
  <2>1. CASE StoreAnswer(w) \/ PaypalRefuses(w)
    <3>1. proc[w].op \notin {"cancelBooking", "cancelRoute"} /\ Become(w, Idle)
      BY <1>0, <2>1, StoreAnswerIs, RefusesIs DEF Shape, Answering
    <3>. QED  BY <1>1, <3>1, StillSettles, IdleType
  <2>2. CASE PaypalCaptures(w) \/ \E o \in Orders : PaypalOrders(w, o)
    <3>1. PICK p \in Proc : Become(w, p) /\ p.at = "save" /\ proc[w].op \notin {"cancelBooking", "cancelRoute"}
      BY <1>0, <2>2, CapturesIs, PaypalOrdersIs
    <3>. QED  BY <1>1, <3>1, StillSettles
  <2>3. CASE PaypalRefunds(w) \/ SavePayment(w)
    <3>1. PICK p \in Proc : /\ Become(w, p) /\ p.at \in {"save", "flush"} /\ Same(p, proc[w])
                            /\ proc[w].at \in {"refund", "save"}
      BY <1>0, <2>3, RefundsIs, SaveIs
    <3>. QED  BY <1>1, <3>1, StillSettles DEF Saves
  <2>4. CASE PaypalRefusesRefund(w)
    <3>1. proc[w].at = "refund" /\ Become(w, Saving(proc[w], Failed(proc[w].pago), "catch"))
      BY <2>4 DEF PaypalRefusesRefund
    <3>2. PICK p \in Proc : Become(w, p) /\ p.at = "save" /\ Same(p, proc[w])
      BY <1>0, <3>1, RefusesRefundIs
    <3>. QED  BY <1>1, <3>1, <3>2, StillSettles DEF Saves
  <2>5. CASE ReadToReverse(w)
    <3>1. proc[w].at = "reverse" /\ proc[w].op \in Reversers
      BY <1>0, <2>5, ReadToReverseIs
    <3>2. PICK p \in Proc : /\ Become(w, p) /\ p.at # "insert"
                            /\ Same(p, proc[w]) \/ proc[w].op = "reversePayment"
      BY <1>0, <2>5, <3>1, ReadToReverseIs, ThrowIs, IdleType
    <3>. QED  BY <1>1, <3>1, <3>2, StillSettles DEF Saves
  <2>. QED  BY <2>1, <2>2, <2>3, <2>4, <2>5
<1>. QED  BY <1>1, <1>2, SettleStep

LEMMA BookingSettles ==
    ASSUME Inv, SettleInv, NEW w \in Workers,
           InsertPayment(w) \/ WriteBooking(w) \/ ReadPayment(w)
    PROVE  SettleInv'
<1>0. /\ ShapeInv /\ Shape(proc[w]) /\ proc[w].b \in Bookings /\ payment \in [Bookings -> Payment]
      /\ booking \in [Bookings -> {"CONFIRMADA", "CANCELADA", "COMPLETADA", "NO_SHOW"}]
  BY InvFacts DEF ShapeInv, TypeOK
<1>1. CASE InsertPayment(w)
  <2>1. /\ proc[w].at = "insert" /\ proc[w].op = "createPayment" /\ UNCHANGED <<booking, faults>>
        /\ payment' = payment \/ payment' = [payment EXCEPT ![proc[w].b].status = "PENDING"]
    BY <1>0, <1>1, InsertIs
  <2>2. PICK p \in Proc : Become(w, p) /\ p.at # "insert"
    BY <1>0, <1>1, InsertIs, IdleType
  <2>3. booking[proc[w].b] = "CONFIRMADA"
    BY <2>1 DEF SettleInv
  <2>4. LeavesToOthers(w, p)
    BY <1>0, <2>1, <2>3 DEF LeavesToOthers, Unsettled, WillSettle
  <2>. QED  BY <2>1, <2>2, <2>4, SettleStep
<1>2. CASE WriteBooking(w)
  <2>1. /\ proc[w].at = "tx" /\ proc[w].op \in {"cancelBooking", "markNoShow", "completeBooking"}
        /\ UNCHANGED <<payment, faults>>
    BY <1>0, <1>2, WriteBookingIs
  <2>2. PICK estado \in {"CANCELADA", "NO_SHOW", "COMPLETADA"} :
            /\ booking' = [booking EXCEPT ![proc[w].b] = estado]
            /\ estado = "CANCELADA" => proc[w].op = "cancelBooking"
    BY <1>0, <1>2, WriteBookingIs
  <2>3. PICK p \in Proc : /\ Become(w, p) /\ p.at # "insert"
                          /\ proc[w].op = "cancelBooking" => p.at = "read" /\ Same(p, proc[w])
    BY <1>0, <1>2, <2>1, WriteBookingIs, IdleType
  <2>4. LeavesToOthers(w, p)
    <3>. SUFFICES ASSUME NEW b \in Bookings, booking'[b] = "CANCELADA", payment'[b].status = "PENDING"
                  PROVE  WillSettle(p, b) \/ (Unsettled(b) /\ ~WillSettle(proc[w], b))
      BY DEF LeavesToOthers
    <3>1. CASE b = proc[w].b
      <4>1. proc[w].op = "cancelBooking"
        BY <1>0, <2>2, <3>1
      <4>. QED  BY <2>3, <3>1, <4>1 DEF WillSettle, Same
    <3>2. CASE b # proc[w].b
      <4>1. Unsettled(b)
        BY <1>0, <2>1, <2>2, <3>2 DEF Unsettled
      <4>. QED  BY <2>1, <3>2, <4>1 DEF WillSettle
    <3>. QED  BY <3>1, <3>2
  <2>. QED  BY <2>1, <2>3, <2>4, SettleStep
<1>3. CASE ReadPayment(w)
  <2>1. /\ proc[w].at = "read" /\ proc[w].op \in {"cancelBooking", "markNoShow"}
        /\ UNCHANGED <<booking, payment, faults>>
    BY <1>0, <1>3, ReadPaymentIs
  <2>2. PICK p \in Proc : /\ Become(w, p) /\ p.at # "insert"
                          /\ payment[proc[w].b].status = "PENDING" => p.at = "save" /\ Same(p, proc[w])
    BY <1>0, <1>3, ReadPaymentIs, IdleType
  <2>3. LeavesToOthers(w, p)
    BY <2>1, <2>2 DEF LeavesToOthers, Unsettled, WillSettle, Saves, Same
  <2>. QED  BY <2>1, <2>2, <2>3, SettleStep
<1>. QED  BY <1>1, <1>2, <1>3

LEMMA RouteSettles ==
    ASSUME Inv, SettleInv, NEW w \in Workers,
           \/ CloseRoute(w) \/ CancelRouteBookings(w) \/ SelectPayments(w)
           \/ \E b \in Bookings : PayBack(w, b)
    PROVE  SettleInv'
<1>0. ShapeInv /\ Shape(proc[w]) /\ Holds(proc[w], payment, order)
  BY InvFacts
<1>1. CASE CloseRoute(w) \/ CancelRouteBookings(w)
  <2>1. /\ proc[w].op = "cancelRoute" /\ proc[w].at \in {"close", "bulk"} /\ UNCHANGED <<payment, faults>>
    BY <1>0, <1>1, ClosingIs
  <2>2. PICK p \in Proc :
            /\ Become(w, p) /\ Same(p, proc[w])
            /\ (p.at = "bulk" /\ booking' = booking) \/ p.at = "select"
    BY <1>0, <1>1, ClosingIs
  <2>3. LeavesToOthers(w, p)
    <3>1. CASE p.at = "bulk" /\ booking' = booking
      BY <2>1, <2>2, <3>1, StillSettles DEF Saves
    <3>2. CASE p.at = "select"
      BY <2>1, <2>2, <3>2 DEF LeavesToOthers, WillSettle, Same
    <3>. QED  BY <2>2, <3>1, <3>2
  <2>. QED  BY <2>1, <2>2, <2>3, SettleStep
<1>2. CASE SelectPayments(w)
  <2> DEFINE chosen == {b \in Bookings : payment[b].status \in {"PAID", "PENDING"}}
  <2>1. UNCHANGED <<booking, payment, faults>>
    BY <1>0, <1>2, SelectIs
  <2>2. PICK p \in Proc :
            /\ Become(w, p) /\ p.at # "insert"
            /\ chosen # {} => p.at = "loop" /\ p.todo = chosen /\ p.op = "cancelRoute"
    BY <1>0, <1>2, SelectIs, IdleType
  <2>3. LeavesToOthers(w, p)
    <3>. SUFFICES ASSUME NEW b \in Bookings, payment'[b].status = "PENDING"
                  PROVE  WillSettle(p, b)
      BY DEF LeavesToOthers
    <3>1. b \in chosen
      BY <2>1
    <3>. QED  BY <2>2, <3>1 DEF WillSettle
  <2>. QED  BY <2>1, <2>2, <2>3, SettleStep
<1>3. ASSUME NEW x \in Bookings, PayBack(w, x)
      PROVE  SettleInv'
  <2>1. /\ proc[w].op = "cancelRoute" /\ proc[w].at = "loop" /\ x \in proc[w].todo
        /\ UNCHANGED <<booking, payment, faults>>
    BY <1>0, <1>3, PayBackIs
  <2>2. PICK p \in Proc :
            /\ Become(w, p) /\ p.op = "cancelRoute" /\ p.b = x
            /\ p.todo = proc[w].todo /\ p.pagos = proc[w].pagos
            /\ (p.at = "reverse" /\ p.pagos[x].status = "PAID") \/ p.at = "save"
    BY <1>0, <1>3, PayBackIs
  <2>3. payment[x] = p.pagos[x]
    BY <1>0, <2>1, <2>2 DEF Holds, LoopHolds
  <2>4. LeavesToOthers(w, p)
    BY <2>1, <2>2, <2>3 DEF LeavesToOthers, Unsettled, WillSettle, Saves
  <2>. QED  BY <2>1, <2>2, <2>4, SettleStep
<1>. QED  BY <1>1, <1>2, <1>3

LEMMA FlushSettles ==
    ASSUME Inv, SettleInv, NEW w \in Workers, FlushPayment(w)
    PROVE  SettleInv'
<1> DEFINE b == proc[w].b
<1>0. ShapeInv /\ proc[w].at = "flush" /\ UNCHANGED <<booking, faults>>
  BY InvFacts, FlushIs
<1>1. /\ SaveHolds(proc[w], payment[b], order) /\ payment'[b] = proc[w].pago
      /\ \A x \in Bookings \ {b} : payment'[x] = payment[x]
  BY FlushWrites
<1>2. PICK p \in Proc :
        /\ Become(w, p)
        /\ \/ p = Idle /\ proc[w].todo \subseteq {b}
           \/ p.at = "store" /\ Same(p, proc[w])
           \/ p.at = "save" /\ Same(p, proc[w])
           \/ p.at = "loop" /\ p.todo = proc[w].todo \ {b} /\ p.op = "cancelRoute"
  BY <1>0, FlushIs
<1>3. LeavesToOthers(w, p)
  <2>. SUFFICES ASSUME NEW x \in Bookings, booking'[x] = "CANCELADA", payment'[x].status = "PENDING"
                PROVE  WillSettle(p, x) \/ (Unsettled(x) /\ ~WillSettle(proc[w], x))
    BY DEF LeavesToOthers
  <2>1. CASE x = b
    <3>1. payment[b].status = "PENDING" /\ proc[w].op \notin {"cancelBooking", "cancelRoute"}
      BY <1>1, <2>1 DEF SaveHolds
    <3>. QED  BY <1>0, <2>1, <3>1 DEF Unsettled, WillSettle
  <2>2. CASE x # b
    <3>1. Unsettled(x)
      BY <1>0, <1>1, <2>2 DEF Unsettled
    <3>2. ASSUME WillSettle(proc[w], x)
          PROVE  WillSettle(p, x)
      <4>1. proc[w].op = "cancelRoute" /\ x \in proc[w].todo
        BY <1>0, <2>2, <3>2 DEF WillSettle
      <4>. QED  BY <1>2, <2>2, <4>1 DEF WillSettle, Same
    <3>. QED  BY <3>1, <3>2
  <2>. QED  BY <2>1, <2>2
<1>4. p.at # "insert"
  BY <1>2, IdleType
<1>. QED  BY <1>0, <1>2, <1>3, <1>4, SettleStep

\* Inv and SettleInv, for good.
LEMMA SettledForever ==
    ASSUME Composes
    PROVE  Spec => [](Inv /\ SettleInv)
<1>1. Init => SettleInv
  <2>. SUFFICES ASSUME Init
                PROVE  SettleInv
    OBVIOUS
  <2>1. \A b \in Bookings : booking[b] = "CONFIRMADA"
    BY DEF Init
  <2>2. \A w \in Workers : proc[w].at = "idle"
    BY IdleType DEF Init
  <2>. QED  BY <2>1, <2>2 DEF SettleInv, Unsettled
<1>2. Inv /\ SettleInv /\ [Next]_vars => SettleInv'
  <2>. SUFFICES ASSUME Inv, SettleInv, [Next]_vars
                PROVE  SettleInv'
    OBVIOUS
  <2>1. ASSUME NEW w \in Workers, Calls(w)
        PROVE  SettleInv'
    BY <2>1, CallsSettle
  <2>2. ASSUME NEW w \in Workers, Continue(w)
        PROVE  SettleInv'
    BY <2>2, PaypalSettles, BookingSettles, RouteSettles, FlushSettles DEF Continue
  <2>3. ASSUME NEW w \in Workers, PaypalCapturesWithoutDetails(w) \/ AnswerLost(w) \/ Fail(w)
        PROVE  SettleInv'
    <3>1. faults' # 0 /\ UNCHANGED booking
      BY <2>3, FaultySteps DEF Faulty, PaypalCapturesWithoutDetails, AnswerLost, Fail
    <3>2. PICK p \in Proc : Become(w, p) /\ p.at # "insert"
      BY <2>3, InvFacts, WithoutDetailsIs, AnswerLostIs, IdleType DEF Fail, Done
    <3>3. \A v \in Workers : proc'[v].at = "insert" => proc'[v] = proc[v]
      BY <3>2, OthersStay
    <3>. QED  BY <3>1, <3>3 DEF SettleInv
  <2>4. CASE Tick \/ UNCHANGED vars
    <3>1. UNCHANGED <<booking, payment, proc, faults>>
      BY <2>4 DEF Tick, vars
    <3>. QED  BY <3>1 DEF SettleInv, Unsettled, WillSettle, Saves
  <2>. QED  BY <2>1, <2>2, <2>3, <2>4 DEF Next
<1>. QED  BY <1>1, <1>2, PaymentsInvariant, PTL DEF Spec

(* A PAID payment has a capture whose money PayPal has, or has just returned   *)
(* to a handler that is recording it; a cancelled booking has no payment       *)
(* waiting to be paid once the handler that cancelled it is through.           *)
THEOREM StatusTrue ==
    ASSUME Composes
    PROVE  Spec => []StatusIsTrue
<1>1. MoneyInv => PaidWasCaptured
  <2>. SUFFICES ASSUME MoneyInv, NEW b \in Bookings, payment[b].status = "PAID"
                PROVE  LET o == payment[b].paypalCaptureId
                       IN  /\ o # NoOrder
                           /\ order[o].b = b
                           /\ order[o].state \in {"captured", "refunded"}
                           /\ order[o].state = "refunded" =>
                                   faults > 0 \/ \E w \in Workers : Recording(w, o)
    BY DEF PaidWasCaptured
  <2>1. RowTrue(b, payment[b], order) /\ RefundSeen
    BY DEF MoneyInv, Inv, HoldInv, RowsTrue
  <2>. QED  BY <2>1 DEF RowTrue, RefundSeen
<1>2. Inv /\ SettleInv => CancelledIsSettled
  <2>. SUFFICES ASSUME Inv, SettleInv, NEW b \in Bookings, Unsettled(b), ~(faults > 0)
                PROVE  \E w \in Workers : /\ proc[w].op \in {"cancelBooking", "cancelRoute"}
                                          /\ proc[w].at # "idle"
    BY DEF CancelledIsSettled, Unsettled
  <2>1. faults \in Nat
    BY PaymentAssumption DEF Inv, ShapeInv, TypeOK
  <2>2. faults = 0
    BY <2>1
  <2>3. PICK w \in Workers : WillSettle(proc[w], b)
    BY <2>2 DEF SettleInv
  <2>4. proc[w].op # "none"
    BY <2>3 DEF WillSettle
  <2>. QED  BY <2>3, <2>4, InvFacts, IdleType DEF WillSettle, Shape
<1>. QED  BY <1>1, <1>2, MoneyForever, SettledForever, PTL DEF StatusIsTrue

-----------------------------------------------------------------------------
(* Idempotency keys.                                                           *)

\* p is on its way to store, under its key, that order o was made.
Placing(p, o) ==
    /\ p.op = "createPaypalOrder" /\ p.at \in {"save", "flush", "store"}
    /\ p.b = order[o].b /\ p.key = order[o].key

\* p asks PayPal for an order of the booking and key that o was made for.
AsksAgain(p, o) ==
    p.at = "order" /\ p.key # NoKey /\ order[o].b = p.b /\ order[o].key = p.key

KeyInv ==
    faults = 0 =>
        /\ \A o \in Orders : order[o].key # NoKey =>
                \/ Cached("createPaypalOrder", order[o].b, order[o].key)
                \/ \E w \in Workers : Placing(proc[w], o)
        /\ \A w \in Workers, o \in Orders : ~AsksAgain(proc[w], o)
        /\ \A o1, o2 \in Orders :
                order[o1].key # NoKey /\ order[o1].b = order[o2].b /\ order[o1].key = order[o2].key
                => o1 = o2

(* A step that makes no order. *)
LEMMA KeyStep ==
    ASSUME Inv, KeyInv, NEW w \in Workers, NEW p \in Proc, Become(w, p), faults' = faults,
           \A x \in Orders : order'[x].b = order[x].b /\ order'[x].key = order[x].key,
           cache \subseteq cache',
           \A x \in Orders : Placing(proc[w], x) =>
                \/ Placing(p, x)
                \/ order[x].key # NoKey => <<"createPaypalOrder", order[x].b, order[x].key>> \in cache',
           \A x \in Orders : ~AsksAgain(p, x)
    PROVE  KeyInv'
<1>1. proc'[w] = p /\ \A v \in Workers \ {w} : proc'[v] = proc[v]
  BY OthersStay
<1>. SUFFICES ASSUME faults = 0
              PROVE  KeyInv'
  BY DEF KeyInv
<1>2. ASSUME NEW x \in Orders, order'[x].key # NoKey
      PROVE  \/ <<"createPaypalOrder", order'[x].b, order'[x].key>> \in cache'
             \/ \E v \in Workers : Placing(proc[v], x)'
  <2>1. order[x].key # NoKey
    BY <1>2
  <2>2. CASE <<"createPaypalOrder", order[x].b, order[x].key>> \in cache
    BY <2>2
  <2>3. ASSUME NEW v \in Workers, Placing(proc[v], x)
        PROVE  \/ <<"createPaypalOrder", order'[x].b, order'[x].key>> \in cache'
               \/ Placing(proc[v], x)'
    <3>1. CASE v = w
      BY <1>1, <2>1, <2>3, <3>1 DEF Placing
    <3>2. CASE v # w
      BY <1>1, <2>3, <3>2 DEF Placing
    <3>. QED  BY <3>1, <3>2
  <2>. QED  BY <2>1, <2>2, <2>3 DEF KeyInv, Cached
<1>3. ASSUME NEW v \in Workers, NEW x \in Orders
      PROVE  ~AsksAgain(proc[v], x)'
  <2>1. CASE v = w
    BY <1>1, <2>1 DEF AsksAgain
  <2>2. CASE v # w
    <3>1. ~AsksAgain(proc[v], x)
      BY DEF KeyInv
    <3>. QED  BY <1>1, <2>2, <3>1 DEF AsksAgain
  <2>. QED  BY <2>1, <2>2
<1>4. \A o1, o2 \in Orders :
        order'[o1].key # NoKey /\ order'[o1].b = order'[o2].b /\ order'[o1].key = order'[o2].key
        => o1 = o2
  BY DEF KeyInv
<1>. QED  BY <1>2, <1>3, <1>4 DEF KeyInv, Cached

LEMMA CallsKeepKeys ==
    ASSUME Inv, Inv', KeyInv, NEW w \in Workers, Calls(w)
    PROVE  KeyInv'
<1>1. PICK op \in Ops : Called(w, op) /\ \E p \in Proc : Become(w, p) /\ Started(p, op)
  BY InvFacts, CallsStart
<1>2. PICK p \in Proc : Become(w, p) /\ Started(p, op)
  BY <1>1
<1>3. UNCHANGED <<order, cache, faults>>
  BY InvFacts, CallsStart
<1>4. proc[w].op = "none"
  BY <1>1, InvFacts, IdleType DEF Called, Shape
<1>5. proc'[w] = p /\ \A v \in Workers \ {w} : proc'[v] = proc[v]
  BY <1>2, OthersStay
<1>6. CASE faults = 0
  <2>1. ASSUME NEW x \in Orders, AsksAgain(p, x)
        PROVE  FALSE
    <3>1. p.op = "createPaypalOrder" /\ p.at = "order" /\ ~Cached(p.op, p.b, p.key)
      BY <1>2, <2>1 DEF Started, AsksAgain, Shape
    <3>2. PICK v \in Workers : Placing(proc[v], x)
      BY <1>6, <2>1, <3>1 DEF AsksAgain, KeyInv
    <3>3. v # w /\ proc'[v] = proc[v] /\ proc[v].op = "createPaypalOrder" /\ proc[v].at # "idle"
      BY <1>4, <1>5, <3>2 DEF Placing
    <3>4. Beside(proc'[v].op, proc'[w].op)
      BY <1>5, <3>1, <3>3 DEF Inv, HoldInv, RunInv
    <3>. QED  BY <1>5, <3>1, <3>3, <3>4 DEF Beside
  <2>. QED  BY <1>2, <1>3, <1>4, <2>1, KeyStep DEF Placing
<1>7. CASE faults # 0
  BY <1>3, <1>7 DEF KeyInv
<1>. QED  BY <1>6, <1>7

(* The steps that neither make an order nor store an answer. *)
LEMMA OthersKeepKeys ==
    ASSUME Inv, KeyInv, NEW w \in Workers, NEW p \in Proc, Become(w, p), UNCHANGED <<cache, faults>>,
           UNCHANGED order \/ Captured(w) \/ Refunded(w), p.at # "order",
           \/ proc[w].op # "createPaypalOrder" \/ proc[w].at \notin {"save", "flush", "store"}
           \/ Same(p, proc[w]) /\ p.at \in {"save", "flush", "store"}
    PROVE  KeyInv'
<1>1. \A x \in Orders : order'[x].b = order[x].b /\ order'[x].key = order[x].key
  BY MoneyStepIs
<1>2. \A x \in Orders : Placing(proc[w], x) => Placing(p, x)
  BY DEF Placing, Same
<1>3. \A x \in Orders : ~AsksAgain(p, x)
  BY DEF AsksAgain
<1>. QED  BY <1>1, <1>2, <1>3, KeyStep

LEMMA StoreKeepsKeys ==
    ASSUME Inv, KeyInv, NEW w \in Workers, StoreAnswer(w)
    PROVE  KeyInv'
<1>1. /\ Become(w, Idle) /\ UNCHANGED <<order, faults>>
      /\ cache' = IF proc[w].key = NoKey THEN cache
                  ELSE cache \cup {<<proc[w].op, proc[w].b, proc[w].key>>}
  BY InvFacts, StoreAnswerIs
<1>2. \A x \in Orders : Placing(proc[w], x) /\ order[x].key # NoKey =>
            <<"createPaypalOrder", order[x].b, order[x].key>> \in cache'
  BY <1>1 DEF Placing
<1>3. \A x \in Orders : ~AsksAgain(Idle, x)
  BY IdleType DEF AsksAgain
<1>4. cache \subseteq cache'
  BY <1>1
<1>. QED  BY <1>1, <1>2, <1>3, <1>4, IdleType, KeyStep

LEMMA OrderKeepsKeys ==
    ASSUME Inv, Inv', OrdersPlaced, KeyInv, NEW w \in Workers, NEW o \in Orders, PaypalOrders(w, o)
    PROVE  KeyInv'
<1>1. /\ proc[w].at = "order" /\ proc[w].op = "createPaypalOrder" /\ Orderable(o)
      /\ PlaceOrder(o, proc[w].b, proc[w].key) /\ UNCHANGED <<cache, faults>>
  BY InvFacts, PaypalOrdersIs
<1>2. PICK p \in Proc : Become(w, p) /\ p.at = "save" /\ Same(p, proc[w])
  BY InvFacts, PaypalOrdersIs
<1>3. proc'[w] = p /\ \A v \in Workers \ {w} : proc'[v] = proc[v]
  BY <1>2, OthersStay
<1>4. proc[w].b \in Bookings /\ proc[w].key \in Keys \cup {NoKey}
  BY InvFacts, HandlerIs
<1>5. /\ order'[o].b = proc[w].b /\ order'[o].key = proc[w].key
      /\ \A x \in Orders \ {o} : order'[x] = order[x]
  BY <1>1, <1>4, OrderSteps
<1>. SUFFICES ASSUME faults = 0
              PROVE  KeyInv'
  BY <1>1 DEF KeyInv
<1>6. \A x \in Orders : ~AsksAgain(proc[w], x)
  BY DEF KeyInv
<1>7. ASSUME NEW x \in Orders, order'[x].key # NoKey
      PROVE  \/ <<"createPaypalOrder", order'[x].b, order'[x].key>> \in cache'
             \/ \E v \in Workers : Placing(proc[v], x)'
  <2>1. CASE x = o
    BY <1>1, <1>2, <1>3, <1>5, <2>1 DEF Placing, Same
  <2>2. CASE x # o
    <3>1. \/ <<"createPaypalOrder", order[x].b, order[x].key>> \in cache
          \/ \E v \in Workers : Placing(proc[v], x)
      BY <1>5, <1>7, <2>2 DEF KeyInv, Cached
    <3>2. \A v \in Workers : Placing(proc[v], x) => v # w
      BY <1>1 DEF Placing
    <3>. QED  BY <1>1, <1>3, <1>5, <2>2, <3>1, <3>2 DEF Placing
  <2>. QED  BY <2>1, <2>2
<1>8. ASSUME NEW v \in Workers, NEW x \in Orders
      PROVE  ~AsksAgain(proc[v], x)'
  <2>1. CASE v = w
    BY <1>2, <1>3, <2>1 DEF AsksAgain
  <2>2. CASE v # w
    <3>1. proc'[v].at # "order"
      <4>1. proc[v].at # "idle" => Beside(proc[v].op, proc[w].op)
        BY <1>1, <2>2 DEF Inv, HoldInv, RunInv
      <4>. QED  BY <1>1, <1>3, <2>2, <4>1, InvFacts DEF Beside, Shape
    <3>. QED  BY <3>1 DEF AsksAgain
  <2>. QED  BY <2>1, <2>2
<1>9. ASSUME NEW o1 \in Orders, NEW o2 \in Orders, order'[o1].key # NoKey,
             order'[o1].b = order'[o2].b, order'[o1].key = order'[o2].key
      PROVE  o1 = o2
  <2>1. ASSUME NEW x \in Orders \ {o}, proc[w].key # NoKey
        PROVE  order'[x].b # proc[w].b \/ order'[x].key # proc[w].key
    BY <1>1, <1>5, <1>6, <2>1 DEF AsksAgain
  <2>2. CASE o1 # o /\ o2 # o
    BY <1>5, <1>9, <2>2 DEF KeyInv
  <2>3. CASE o1 = o \/ o2 = o
    BY <1>5, <1>9, <2>1, <2>3
  <2>. QED  BY <2>2, <2>3
<1>. QED  BY <1>7, <1>8, <1>9 DEF KeyInv, Cached

LEMMA ContinueKeepsKeys ==
    ASSUME Inv, Inv', OrdersPlaced, KeyInv, NEW w \in Workers, Continue(w)
    PROVE  KeyInv'
<1>0. ShapeInv /\ Shape(proc[w])
  BY InvFacts
<1>1. CASE StoreAnswer(w) \/ \E o \in Orders : PaypalOrders(w, o)
  BY <1>1, StoreKeepsKeys, OrderKeepsKeys
<1>2. CASE PaypalCaptures(w) \/ PaypalRefunds(w)
  <2>1. UNCHANGED <<cache, faults>> /\ proc[w].at \in {"capture", "refund"}
        /\ \E p \in Proc : Become(w, p) /\ p.at = "save"
    BY <1>0, <1>2, CapturesIs, RefundsIs
  <2>2. UNCHANGED order \/ Captured(w) \/ Refunded(w)
    BY <1>0, <1>2, CapturesIs, RefundsIs DEF Captured, Refunded
  <2>. QED  BY <2>1, <2>2, OthersKeepKeys
<1>3. CASE SavePayment(w)
  <2>1. UNCHANGED <<order, cache, faults>>
        /\ \E p \in Proc : Become(w, p) /\ p.at = "flush" /\ Same(p, proc[w])
    BY <1>0, <1>3, SaveIs
  <2>. QED  BY <2>1, OthersKeepKeys
<1>4. CASE FlushPayment(w)
  <2>1. UNCHANGED <<order, cache, faults>>
    BY <1>0, <1>4, FlushIs
  <2>2. \E p \in Proc :
            /\ Become(w, p) /\ p.at # "order"
            /\ \/ proc[w].op # "createPaypalOrder"
               \/ Same(p, proc[w]) /\ p.at \in {"save", "flush", "store"}
    BY <1>0, <1>4, FlushIs, IdleType
  <2>. QED  BY <2>1, <2>2, OthersKeepKeys
<1>5. CASE PaypalRefuses(w) \/ InsertPayment(w)
  <2>1. UNCHANGED <<order, cache, faults>> /\ proc[w].at \in {"order", "capture", "insert"}
        /\ \E p \in Proc : Become(w, p) /\ p.at # "order"
    BY <1>0, <1>5, RefusesIs, InsertIs, IdleType
  <2>. QED  BY <2>1, OthersKeepKeys
<1>6. CASE WriteBooking(w) \/ ReadPayment(w)
  <2>1. UNCHANGED <<order, cache, faults>> /\ proc[w].at \in {"tx", "read"}
        /\ \E p \in Proc : Become(w, p) /\ p.at # "order"
    BY <1>0, <1>6, WriteBookingIs, ReadPaymentIs, IdleType
  <2>. QED  BY <2>1, OthersKeepKeys
<1>7. CASE ReadToReverse(w)
  <2>1. UNCHANGED <<order, cache, faults>> /\ proc[w].at = "reverse" /\ proc[w].op \in Reversers
    BY <1>0, <1>7, ReadToReverseIs
  <2>2. \E p \in Proc : Become(w, p) /\ p.at # "order"
    BY <1>0, <1>7, <2>1, ReadToReverseIs, ThrowIs, IdleType
  <2>. QED  BY <2>1, <2>2, OthersKeepKeys
<1>8. CASE PaypalRefusesRefund(w)
  <2>1. UNCHANGED <<order, cache, faults>> /\ proc[w].at = "refund"
        /\ Become(w, Saving(proc[w], Failed(proc[w].pago), "catch"))
    BY <1>8 DEF PaypalRefusesRefund
  <2>2. \E p \in Proc : Become(w, p) /\ p.at = "save"
    BY <1>0, <2>1, RefusesRefundIs
  <2>. QED  BY <2>1, <2>2, OthersKeepKeys
<1>9. CASE \/ CloseRoute(w) \/ CancelRouteBookings(w) \/ SelectPayments(w)
           \/ \E b \in Bookings : PayBack(w, b)
  <2>1. UNCHANGED <<order, cache, faults>> /\ proc[w].op = "cancelRoute"
        /\ \E p \in Proc : Become(w, p) /\ p.at # "order"
    BY <1>0, <1>9, ClosingIs, SelectIs, PayBackIs, IdleType
  <2>. QED  BY <2>1, OthersKeepKeys
<1>. QED  BY <1>1, <1>2, <1>3, <1>4, <1>5, <1>6, <1>7, <1>8, <1>9 DEF Continue

(* A call repeated with its key gives one PayPal order, as long as no answer   *)
(* was lost: the cache, and one createPaypalOrder at a time, see to it.        *)
THEOREM OrdersUnique ==
    ASSUME Composes
    PROVE  Spec => []OneOrderPerKey
<1>1. Init => KeyInv
  <2>. SUFFICES ASSUME Init
                PROVE  KeyInv
    OBVIOUS
  <2>1. \A o \in Orders : order[o].key = NoKey
    BY DEF Init, NoPaypalOrder
  <2>2. \A w \in Workers : proc[w].at = "idle"
    BY IdleType DEF Init
  <2>. QED  BY <2>1, <2>2 DEF KeyInv, AsksAgain
<1>2. MoneyInv /\ MoneyInv' /\ KeyInv /\ [Next]_vars => KeyInv'
  <2>. SUFFICES ASSUME MoneyInv, MoneyInv', KeyInv, [Next]_vars
                PROVE  KeyInv'
    OBVIOUS
  <2>0. Inv /\ Inv' /\ OrdersPlaced /\ faults \in Nat
    BY PaymentAssumption DEF MoneyInv, Inv, ShapeInv, TypeOK
  <2>1. ASSUME NEW w \in Workers, Calls(w) \/ Continue(w)
        PROVE  KeyInv'
    BY <2>0, <2>1, CallsKeepKeys, ContinueKeepsKeys
  <2>2. ASSUME NEW w \in Workers, PaypalCapturesWithoutDetails(w) \/ AnswerLost(w) \/ Fail(w)
        PROVE  KeyInv'
    <3>1. faults' # 0
      BY <2>0, <2>2, FaultySteps DEF Faulty
    <3>. QED  BY <3>1 DEF KeyInv
  <2>3. CASE Tick \/ UNCHANGED vars
    <3>1. UNCHANGED <<order, cache, proc, faults>>
      BY <2>3 DEF Tick, vars
    <3>. QED  BY <3>1 DEF KeyInv, Placing, AsksAgain, Cached
  <2>. QED  BY <2>1, <2>2, <2>3 DEF Next
<1>3. KeyInv => OneOrderPerKey
  BY DEF KeyInv, OneOrderPerKey
<1>. QED  BY <1>1, <1>2, <1>3, MoneyForever, PTL DEF Spec
=============================================================================
