------------------------------- MODULE Payments -------------------------------
(***************************************************************************)
(* The money of one route's bookings: payments.service.ts, the payment     *)
(* half of cancelBooking, markNoShow and cancelRoute, the idempotency      *)
(* cache in Redis, and PayPal as payments.service.ts uses it.              *)
(*                                                                         *)
(* As in Reservations a handler is a coroutine: each statement it awaits   *)
(* is a step, what it has read stays in its local copy, and a save first   *)
(* compares the copy with the row (SavePayment) and then writes the        *)
(* columns that differ (FlushPayment).                                     *)
(***************************************************************************)
EXTENDS Integers, FiniteSets

CONSTANTS
    Bookings,       \* bookings of one route, each of another passenger
    Metodo,         \* the payment method each was made with
    Orders, NoOrder,        \* PayPal order ids; a capture has the id of its order
    Keys, NoKey,            \* Idempotency-Key headers; a call may carry none
    Workers, Offers,        \* request slots, and the operations each may serve
    Overlap,        \* bound: <<running, called>>, which may run beside which
    MaxFaults       \* bound: calls lost, answers lost, stops of the process

Ops == {"createPayment", "createPaypalOrder", "capturePaypalOrder", "reversePayment",
        "cancelBooking", "markNoShow", "completeBooking", "cancelRoute"}

ASSUME PaymentAssumption ==
    /\ NoOrder \notin Orders /\ NoKey \notin Keys
    /\ Metodo \in [Bookings -> {"EFECTIVO", "PAYPAL", "TARJETA"}]
    /\ Offers \in [Workers -> SUBSET Ops]
    /\ Overlap \subseteq Ops \X Ops
    /\ MaxFaults \in Nat
    /\ Bookings # {}

VARIABLES
    window,         \* the clock, as the refund and NO_SHOW rules see it
    routeActive,    \* the route is ACTIVA
    booking,        \* estado of each booking
    payment,        \* table payments, UNIQUE(bookingId)
    order,          \* PayPal's side of each order
    cache,          \* idempotency answers in Redis: operation, row and key
    proc,           \* the handler in each slot
    faults

vars == <<window, routeActive, booking, payment, order, cache, proc, faults>>

-----------------------------------------------------------------------------

EstadoPago == {"PENDING", "PAID", "REVERSED", "FAILED"}

Payment ==
    [status : EstadoPago \cup {"none"},
     paypalOrderId : Orders \cup {NoOrder},
     paypalCaptureId : Orders \cup {NoOrder}]

NoPayment == [status |-> "none", paypalOrderId |-> NoOrder, paypalCaptureId |-> NoOrder]

PaymentDiff(copy, row) == {c \in DOMAIN row : copy[c] # row[c]}
PaymentUpdate(copy, row, cols) ==
    [c \in DOMAIN row |-> IF c \in cols THEN copy[c] ELSE row[c]]

\* An order at PayPal: for which booking and key it was made, and what has
\* become of its money.
PaypalOrder ==
    [b : Bookings \cup {"none"}, key : Keys \cup {NoKey},
     state : {"none", "created", "captured", "refunded"}]

NoPaypalOrder == [b |-> "none", key |-> NoKey, state |-> "none"]

Stages == {"idle", "insert", "order", "capture", "reverse", "refund", "tx", "close", "bulk",
           "read", "select", "loop", "save", "flush", "store"}

AnyBooking == CHOOSE b \in Bookings : TRUE

Proc ==
    [op : Ops \cup {"none"}, at : Stages, b : Bookings, key : Keys \cup {NoKey},
     refundable : BOOLEAN,              \* isEligibleForRefund, found before the tx
     pago : Payment,                    \* the copy reversePayment or the handler saves
     pagos : [Bookings -> Payment],     \* the copies of the handler that called it
     todo : SUBSET Bookings,            \* what is left of cancelRoute's loop
     cols : SUBSET DOMAIN NoPayment,    \* columns of the pending UPDATE
     then : {"done", "store", "catch", "next"}]   \* where the handler goes after it

Idle ==
    [op |-> "none", at |-> "idle", b |-> AnyBooking, key |-> NoKey, refundable |-> FALSE,
     pago |-> NoPayment, pagos |-> [b \in Bookings |-> NoPayment],
     todo |-> {}, cols |-> {}, then |-> "done"]

Init ==
    /\ window = "early"
    /\ routeActive = TRUE
    /\ booking = [b \in Bookings |-> "CONFIRMADA"]
    /\ payment = [b \in Bookings |-> NoPayment]
    /\ order = [o \in Orders |-> NoPaypalOrder]
    /\ cache = {}
    /\ proc = [w \in Workers |-> Idle]
    /\ faults = 0

Digital(b) == Metodo[b] \in {"PAYPAL", "TARJETA"}

Called(w, op) ==
    /\ op \in Offers[w] /\ proc[w].at = "idle"
    /\ \A v \in Workers : proc[v].at # "idle" => <<proc[v].op, op>> \in Overlap
Cached(op, b, key) == <<op, b, key>> \in cache      \* the stored answer is returned

Become(w, record) == proc' = [proc EXCEPT ![w] = record]
Done(w) == Become(w, Idle)
Call(op, at, b, key) == [Idle EXCEPT !.op = op, !.at = at, !.b = b, !.key = key]

\* repository.save(copy), and what the handler does after it.
Saving(record, copy, then) ==
    [record EXCEPT !.at = "save", !.pago = copy, !.then = then]
Failed(copy) == [copy EXCEPT !.status = "FAILED"]

-----------------------------------------------------------------------------
(* Paying: createPayment, createPaypalOrder, capturePaypalOrder. *)

CreatePayment(w, b, key) ==
    /\ Called(w, "createPayment") /\ ~Cached("createPayment", b, key)
    /\ booking[b] = "CONFIRMADA"
    /\ payment[b] = NoPayment
    /\ Become(w, Call("createPayment", "insert", b, key))
    /\ UNCHANGED <<window, routeActive, booking, payment, order, cache, faults>>

\* The UNIQUE constraint refuses a second payment of the booking.
InsertPayment(w) ==
    LET b == proc[w].b
    IN  /\ proc[w].at = "insert"
        /\ IF payment[b] = NoPayment
           THEN /\ payment' = [payment EXCEPT ![b].status = "PENDING"]
                /\ Become(w, [proc[w] EXCEPT !.at = "store"])
           ELSE UNCHANGED payment /\ Done(w)
        /\ UNCHANGED <<window, routeActive, booking, order, cache, faults>>

\* Mutant: an order for a payment that is no longer PENDING.
CreatePaypalOrderAgain(w, b, key) ==
    /\ Called(w, "createPaypalOrder") /\ ~Cached("createPaypalOrder", b, key)
    /\ Digital(b)
    /\ payment[b] # NoPayment
    /\ Become(w, [Call("createPaypalOrder", "order", b, key) EXCEPT !.pago = payment[b]])
    /\ UNCHANGED <<window, routeActive, booking, payment, order, cache, faults>>

CreatePaypalOrder(w, b, key) ==
    /\ Called(w, "createPaypalOrder") /\ ~Cached("createPaypalOrder", b, key)
    /\ Digital(b)
    /\ payment[b].status = "PENDING"
    /\ Become(w, [Call("createPaypalOrder", "order", b, key) EXCEPT !.pago = payment[b]])
    /\ UNCHANGED <<window, routeActive, booking, payment, order, cache, faults>>

Orderable(o) == order[o].state = "none"
PlaceOrder(o, b, key) ==
    order' = [order EXCEPT ![o] = [b |-> b, key |-> key, state |-> "created"]]

PaypalOrders(w, o) ==
    /\ proc[w].at = "order"
    /\ Orderable(o)
    /\ PlaceOrder(o, proc[w].b, proc[w].key)
    /\ Become(w, Saving(proc[w], [proc[w].pago EXCEPT !.paypalOrderId = o], "store"))
    /\ UNCHANGED <<window, routeActive, booking, payment, cache, faults>>

\* The order id given must be the payment's; its status is not looked at.
CapturePaypalOrder(w, b, key) ==
    /\ Called(w, "capturePaypalOrder") /\ ~Cached("capturePaypalOrder", b, key)
    /\ Digital(b)
    /\ payment[b].paypalOrderId # NoOrder
    /\ Become(w, [Call("capturePaypalOrder", "capture", b, key) EXCEPT !.pago = payment[b]])
    /\ UNCHANGED <<window, routeActive, booking, payment, order, cache, faults>>

\* PayPal captures an order once.
CaptureMoney(o) ==
    /\ order[o].state = "created"
    /\ order' = [order EXCEPT ![o].state = "captured"]

\* Mutant: the id of the capture is not kept.
PaypalCapturesWithoutId(w) ==
    /\ proc[w].at = "capture"
    /\ CaptureMoney(proc[w].pago.paypalOrderId)
    /\ Become(w, Saving(proc[w], [proc[w].pago EXCEPT !.status = "PAID"], "store"))
    /\ UNCHANGED <<window, routeActive, booking, payment, cache, faults>>

\* Mutant: PayPal's word for it is stored as the status.
PaypalCapturesAsAnswered(w) ==
    LET o == proc[w].pago.paypalOrderId
    IN  /\ proc[w].at = "capture"
        /\ CaptureMoney(o)
        /\ Become(w, Saving(proc[w],
                [proc[w].pago EXCEPT !.status = "COMPLETED", !.paypalCaptureId = o], "store"))
        /\ UNCHANGED <<window, routeActive, booking, payment, cache, faults>>

PaypalCaptures(w) ==
    LET o == proc[w].pago.paypalOrderId
    IN  /\ proc[w].at = "capture"
        /\ CaptureMoney(o)
        /\ Become(w, Saving(proc[w],
                [proc[w].pago EXCEPT !.status = "PAID", !.paypalCaptureId = o], "store"))
        /\ UNCHANGED <<window, routeActive, booking, payment, cache, faults>>

\* COMPLETED, but without amount or currency: the payment is marked FAILED.
PaypalCapturesWithoutDetails(w) ==
    /\ proc[w].at = "capture"
    /\ faults < MaxFaults
    /\ faults' = faults + 1
    /\ CaptureMoney(proc[w].pago.paypalOrderId)
    /\ Become(w, Saving(proc[w], Failed(proc[w].pago), "done"))
    /\ UNCHANGED <<window, routeActive, booking, payment, cache>>

\* Mutant: the answer to a capture is not checked for COMPLETED.
PaypalRefusesUnnoticed(w) ==
    /\ proc[w].at = "capture"
    /\ Become(w, Saving(proc[w], [proc[w].pago EXCEPT !.status = "PAID"], "store"))
    /\ UNCHANGED <<window, routeActive, booking, payment, order, cache, faults>>

\* Not approved, captured before, or unreachable: the request throws.
PaypalRefuses(w) ==
    /\ proc[w].at \in {"order", "capture"}
    /\ Done(w)
    /\ UNCHANGED <<window, routeActive, booking, payment, order, cache, faults>>

\* Mutant: the answer is not stored under the key.
AnswerNotStored(w) ==
    /\ proc[w].at = "store"
    /\ Done(w)
    /\ UNCHANGED <<window, routeActive, booking, payment, order, cache, faults>>

StoreAnswer(w) ==
    /\ proc[w].at = "store"
    /\ cache' = IF proc[w].key = NoKey THEN cache
                ELSE cache \cup {<<proc[w].op, proc[w].b, proc[w].key>>}
    /\ Done(w)
    /\ UNCHANGED <<window, routeActive, booking, payment, order, faults>>

-----------------------------------------------------------------------------
(* reversePayment: an administrator's call, or one of the handlers below. *)

ReversePayment(w, b, key) ==
    /\ Called(w, "reversePayment") /\ ~Cached("reversePayment", b, key)
    /\ Become(w, Call("reversePayment", "reverse", b, key))
    /\ UNCHANGED <<window, routeActive, booking, payment, order, cache, faults>>

\* reversePayment throws: the callers that catch mark their own copy FAILED.
Throw(w) ==
    IF proc[w].op = "reversePayment"
    THEN Done(w)
    ELSE Become(w, Saving(proc[w], Failed(proc[w].pagos[proc[w].b]), "next"))

ReadToReverse(w) ==
    LET b == proc[w].b
    IN  /\ proc[w].at = "reverse"
        /\ IF payment[b].status = "PAID"
           THEN Become(w, [proc[w] EXCEPT !.at = "refund", !.pago = payment[b]])
           ELSE Throw(w)
        /\ UNCHANGED <<window, routeActive, booking, payment, order, cache, faults>>

\* PayPal refunds a capture once.
RefundMoney(o) ==
    /\ order[o].state = "captured"
    /\ order' = [order EXCEPT ![o].state = "refunded"]

PaypalRefunds(w) ==
    LET o == proc[w].pago.paypalCaptureId
    IN  /\ proc[w].at = "refund"
        /\ IF o # NoOrder THEN RefundMoney(o) ELSE UNCHANGED order
        /\ Become(w, Saving(proc[w], [proc[w].pago EXCEPT !.status = "REVERSED"],
                IF proc[w].op = "reversePayment" THEN "store" ELSE "next"))
        /\ UNCHANGED <<window, routeActive, booking, payment, cache, faults>>

\* Mutant: the refusal is only logged.
PaypalRefusesRefundUnsaved(w) ==
    /\ proc[w].at = "refund"
    /\ proc[w].pago.paypalCaptureId # NoOrder
    /\ Done(w)
    /\ UNCHANGED <<window, routeActive, booking, payment, order, cache, faults>>

PaypalRefusesRefund(w) ==
    /\ proc[w].at = "refund"
    /\ proc[w].pago.paypalCaptureId # NoOrder
    /\ Become(w, Saving(proc[w], Failed(proc[w].pago), "catch"))
    /\ UNCHANGED <<window, routeActive, booking, payment, order, cache, faults>>

-----------------------------------------------------------------------------
(* What becomes of the booking, and of its payment after it. *)

CancelBooking(w, b) ==
    /\ Called(w, "cancelBooking")
    /\ booking[b] = "CONFIRMADA"
    /\ Become(w, [Call("cancelBooking", "tx", b, NoKey)
                    EXCEPT !.refundable = (window = "early")])
    /\ UNCHANGED <<window, routeActive, booking, payment, order, cache, faults>>

MarkNoShow(w, b) ==
    /\ Called(w, "markNoShow")
    /\ booking[b] = "CONFIRMADA"
    /\ window = "departed"
    /\ Become(w, Call("markNoShow", "tx", b, NoKey))
    /\ UNCHANGED <<window, routeActive, booking, payment, order, cache, faults>>

CompleteBooking(w, b) ==
    /\ Called(w, "completeBooking")
    /\ booking[b] = "CONFIRMADA"
    /\ Become(w, Call("completeBooking", "tx", b, NoKey))
    /\ UNCHANGED <<window, routeActive, booking, payment, order, cache, faults>>

WriteBooking(w) ==
    LET b == proc[w].b
    IN  /\ proc[w].at = "tx"
        /\ booking' = [booking EXCEPT ![b] =
                CASE proc[w].op = "cancelBooking" -> "CANCELADA"
                  [] proc[w].op = "markNoShow" -> "NO_SHOW"
                  [] proc[w].op = "completeBooking" -> "COMPLETADA"]
        /\ IF proc[w].op = "completeBooking"
           THEN Done(w)
           ELSE Become(w, [proc[w] EXCEPT !.at = "read"])
        /\ UNCHANGED <<window, routeActive, payment, order, cache, faults>>

\* processRefundIfEligible.  A late cancellation saves the payment too, with
\* nothing new in it but the reason.
SettleCancelled(w, pago) ==
    CASE pago.status = "PAID" /\ proc[w].refundable ->
            Become(w, [proc[w] EXCEPT !.at = "reverse", !.pagos[proc[w].b] = pago])
      [] pago.status = "PAID" /\ ~proc[w].refundable -> Become(w, Saving(proc[w], pago, "next"))
      [] pago.status = "PENDING" -> Become(w, Saving(proc[w], Failed(pago), "next"))
      [] OTHER -> Done(w)

SettleNoShow(w, pago) ==
    IF pago.status = "PENDING"
    THEN Become(w, Saving(proc[w], Failed(pago), "next"))
    ELSE Done(w)

ReadPayment(w) ==
    LET pago == payment[proc[w].b]
    IN  /\ proc[w].at = "read"
        /\ IF proc[w].op = "cancelBooking"
           THEN SettleCancelled(w, pago)
           ELSE SettleNoShow(w, pago)
        /\ UNCHANGED <<window, routeActive, booking, payment, order, cache, faults>>

\* cancelRoute: the route, its bookings, then its payments one by one.
CancelRoute(w) ==
    /\ Called(w, "cancelRoute")
    /\ routeActive
    /\ Become(w, Call("cancelRoute", "close", AnyBooking, NoKey))
    /\ UNCHANGED <<window, routeActive, booking, payment, order, cache, faults>>

CloseRoute(w) ==
    /\ proc[w].at = "close"
    /\ routeActive' = FALSE
    /\ Become(w, [proc[w] EXCEPT !.at = "bulk"])
    /\ UNCHANGED <<window, booking, payment, order, cache, faults>>

CancelRouteBookings(w) ==
    /\ proc[w].at = "bulk"
    /\ booking' = [b \in Bookings |->
            IF booking[b] = "CONFIRMADA" THEN "CANCELADA" ELSE booking[b]]
    /\ Become(w, [proc[w] EXCEPT !.at = "select"])
    /\ UNCHANGED <<window, routeActive, payment, order, cache, faults>>

LoopOn(w, left) ==
    IF left = {}
    THEN Done(w)
    ELSE Become(w, [proc[w] EXCEPT !.at = "loop", !.todo = left])

\* Mutant: the payments are selected by route alone.
SelectEveryPayment(w) ==
    LET chosen == {b \in Bookings : payment[b] # NoPayment}
    IN  /\ proc[w].at = "select"
        /\ IF chosen = {}
           THEN Done(w)
           ELSE Become(w, [proc[w] EXCEPT !.at = "loop", !.todo = chosen, !.pagos = payment])
        /\ UNCHANGED <<window, routeActive, booking, payment, order, cache, faults>>

SelectPayments(w) ==
    LET chosen == {b \in Bookings : payment[b].status \in {"PAID", "PENDING"}}
    IN  /\ proc[w].at = "select"
        /\ IF chosen = {}
           THEN Done(w)
           ELSE Become(w, [proc[w] EXCEPT !.at = "loop", !.todo = chosen, !.pagos = payment])
        /\ UNCHANGED <<window, routeActive, booking, payment, order, cache, faults>>

PayBack(w, b) ==
    LET pago == proc[w].pagos[b]
        there == [proc[w] EXCEPT !.b = b]
    IN  /\ proc[w].at = "loop"
        /\ b \in proc[w].todo
        /\ IF pago.status = "PAID"
           THEN Become(w, [there EXCEPT !.at = "reverse"])
           ELSE Become(w, Saving(there, Failed(pago), "next"))
        /\ UNCHANGED <<window, routeActive, booking, payment, order, cache, faults>>

-----------------------------------------------------------------------------

SavePayment(w) ==
    /\ proc[w].at = "save"
    /\ Become(w, [proc[w] EXCEPT
            !.at = "flush", !.cols = PaymentDiff(proc[w].pago, payment[proc[w].b])])
    /\ UNCHANGED <<window, routeActive, booking, payment, order, cache, faults>>

FlushPayment(w) ==
    LET b == proc[w].b
    IN  /\ proc[w].at = "flush"
        /\ payment' = [payment EXCEPT ![b] =
                PaymentUpdate(proc[w].pago, @, proc[w].cols)]
        /\ CASE proc[w].then = "done" -> Done(w)
             [] proc[w].then = "store" -> Become(w, [proc[w] EXCEPT !.at = "store"])
             [] proc[w].then = "catch" -> Throw(w)
             [] proc[w].then = "next" -> LoopOn(w, proc[w].todo \ {b})
        /\ UNCHANGED <<window, routeActive, booking, order, cache, faults>>

\* The process stops, or a statement of the handler throws.
Fail(w) ==
    /\ faults < MaxFaults
    /\ proc[w].at # "idle"
    /\ Done(w)
    /\ faults' = faults + 1
    /\ UNCHANGED <<window, routeActive, booking, payment, order, cache>>

\* PayPal did what it was asked to, but its answer does not arrive.
AnswerLost(w) ==
    LET b == proc[w].b
    IN  /\ faults < MaxFaults
        /\ faults' = faults + 1
        /\ \/ /\ proc[w].at = "order"
              /\ \E o \in Orders : Orderable(o) /\ PlaceOrder(o, b, proc[w].key)
              /\ Done(w)
           \/ /\ proc[w].at = "capture"
              /\ CaptureMoney(proc[w].pago.paypalOrderId)
              /\ Done(w)
           \/ /\ proc[w].at = "refund"
              /\ proc[w].pago.paypalCaptureId # NoOrder
              /\ RefundMoney(proc[w].pago.paypalCaptureId)
              /\ Become(w, Saving(proc[w], Failed(proc[w].pago), "catch"))
        /\ UNCHANGED <<window, routeActive, booking, payment, cache>>

\* One hour before the departure, then half an hour after it.
Tick ==
    /\ window # "departed"
    /\ window' = IF window = "early" THEN "late" ELSE "departed"
    /\ UNCHANGED <<routeActive, booking, payment, order, cache, proc, faults>>

Calls(w) ==
    \/ CancelRoute(w)
    \/ \E b \in Bookings :
        \/ CancelBooking(w, b) \/ MarkNoShow(w, b) \/ CompleteBooking(w, b)
        \/ \E key \in Keys \cup {NoKey} :
            \/ CreatePayment(w, b, key) \/ CreatePaypalOrder(w, b, key)
            \/ CapturePaypalOrder(w, b, key) \/ ReversePayment(w, b, key)

Continue(w) ==
    \/ InsertPayment(w) \/ StoreAnswer(w) \/ ReadToReverse(w) \/ WriteBooking(w)
    \/ PaypalCaptures(w) \/ PaypalRefuses(w) \/ PaypalRefunds(w) \/ PaypalRefusesRefund(w)
    \/ ReadPayment(w) \/ CloseRoute(w) \/ CancelRouteBookings(w) \/ SelectPayments(w)
    \/ SavePayment(w) \/ FlushPayment(w)
    \/ \E o \in Orders : PaypalOrders(w, o)
    \/ \E b \in Bookings : PayBack(w, b)

Next ==
    \/ \E w \in Workers :
        \/ Calls(w) \/ Continue(w)
        \/ PaypalCapturesWithoutDetails(w) \/ AnswerLost(w) \/ Fail(w)
    \/ Tick

Spec == Init /\ [][Next]_vars

\* Every statement and every PayPal request returns or throws.
FairSpec == Spec /\ \A w \in Workers : WF_vars(Continue(w))

-----------------------------------------------------------------------------
(* Properties. *)

\* Types: the values the columns, the copies and the cache can take.
TypeOK ==
    /\ window \in {"early", "late", "departed"}
    /\ routeActive \in BOOLEAN
    /\ booking \in [Bookings -> {"CONFIRMADA", "CANCELADA", "COMPLETADA", "NO_SHOW"}]
    /\ payment \in [Bookings -> Payment]
    /\ order \in [Orders -> PaypalOrder]
    /\ cache \subseteq Ops \X Bookings \X Keys
    /\ proc \in [Workers -> Proc]
    /\ faults \in 0..MaxFaults

\* The handler that is about to record what PayPal has just done to order o.
Recording(w, o) ==
    /\ proc[w].at \in {"save", "flush"}
    /\ proc[w].pago.paypalCaptureId = o

Recorded(o, statuses) ==
    /\ payment[order[o].b].paypalCaptureId = o
    /\ payment[order[o].b].status \in statuses

\* No money is taken from a passenger without a trace: a captured order is
\* found in the payment of its booking, which is PAID, or FAILED when its
\* refund was refused.  PayPal and the table share no transaction, so a fault
\* may lose one capture, but never more than one.
CapturesRecorded ==
    Cardinality({o \in Orders :
        /\ order[o].state = "captured"
        /\ ~Recorded(o, {"PAID", "FAILED"})
        /\ \A w \in Workers : ~Recording(w, o)}) <= faults

\* Money that went back is known to have gone back: the payment is REVERSED,
\* but for one refund at most per fault.
RefundsRecorded ==
    Cardinality({o \in Orders :
        /\ order[o].state = "refunded"
        /\ ~Recorded(o, {"REVERSED"})
        /\ \A w \in Workers : ~(Recording(w, o) /\ proc[w].pago.status = "REVERSED")}) <= faults

\* What is PAID can be refunded: it has a capture whose money PayPal has, or
\* has just returned to a handler that is recording it.  This is what payouts
\* and reversePayment take for granted.
PaidWasCaptured ==
    \A b \in Bookings : payment[b].status = "PAID" =>
        LET o == payment[b].paypalCaptureId
        IN  /\ o # NoOrder
            /\ order[o].b = b
            /\ order[o].state \in {"captured", "refunded"}
            /\ order[o].state = "refunded" =>
                    faults > 0 \/ \E w \in Workers : Recording(w, o)

\* A cancelled booking has no payment waiting to be paid, once the handler
\* that cancelled it is through (or was lost).
CancelledIsSettled ==
    \A b \in Bookings : booking[b] = "CANCELADA" /\ payment[b].status = "PENDING" =>
        \/ faults > 0
        \/ \E w \in Workers : /\ proc[w].op \in {"cancelBooking", "cancelRoute"}
                              /\ proc[w].at # "idle"

\* The status of a payment goes with its money and with its booking.
StatusIsTrue == PaidWasCaptured /\ CancelledIsSettled

\* A payment that was reversed stays reversed.
ReversedIsFinal ==
    [][\A b \in Bookings : payment[b].status = "REVERSED" =>
            payment'[b].status = "REVERSED"]_payment

\* Idempotency-Key: however often a call is repeated with its key, one PayPal
\* order comes of it, as long as no answer was lost.
OneOrderPerKey ==
    faults = 0 => \A o1, o2 \in Orders :
        /\ order[o1].b # "none" /\ order[o1].key # NoKey
        /\ order[o1].b = order[o2].b /\ order[o1].key = order[o2].key
        => o1 = o2

\* Who cancels in time, or whose route is cancelled, learns what became of the
\* money: the PAID payment ends REVERSED, or FAILED when PayPal refuses.
RefundIsDecided ==
    \A b \in Bookings :
        (payment[b].status = "PAID" /\ \E w \in Workers :
            \/ proc[w].op = "cancelBooking" /\ proc[w].b = b /\ proc[w].refundable
            \/ proc[w].op = "cancelRoute")
        ~> payment[b].status \in {"REVERSED", "FAILED"} \/ faults > 0
=============================================================================
