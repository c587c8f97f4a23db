-------------------------------- MODULE Payouts --------------------------------
(***************************************************************************)
(* What drivers are paid: payouts.service.ts, PayPal's payout batches, and *)
(* reversePayment as far as it touches payments that a payout has claimed. *)
(* The calls carry no Idempotency-Key: Payments models what a key does.    *)
(*                                                                         *)
(* Handlers are coroutines and saves write the columns that differ, as in  *)
(* Reservations and Payments.                                              *)
(***************************************************************************)
EXTENDS Integers, Sequences, FiniteSetsExt, Functions

CONSTANTS
    Drivers, Periods,
    Fares,          \* the payments, in the order in which they are paid
    Requested,      \* amounts that drivers ask for
    Minimum,        \* 5 USD
    Payouts, NoPayout,      \* bound: rows of payouts
    Batches, NoBatch,       \* bound: batches PayPal accepts
    Answers,        \* batch_status PayPal may answer a new batch with
    Workers, Offers,
    MaxFaults       \* bound: stops, lost answers, statements that throw

BatchStatus == {"PENDING", "SUCCESS", "FAILED"}

Ops == {"requestPayout", "generatePayouts", "executePaypalPayout", "syncPaypalPayouts",
        "failPayout", "reversePayment"}

ASSUME PayoutAssumption ==
    /\ Fares \in Seq([driver : Drivers, amount : Nat \ {0}, period : Periods])
    /\ Requested \subseteq Nat /\ Minimum \in Nat
    /\ NoPayout \notin Payouts /\ NoBatch \notin Batches
    /\ Answers \subseteq BatchStatus
    /\ Offers \in [Workers -> SUBSET Ops]
    /\ MaxFaults \in Nat
    /\ IsFiniteSet(Drivers) /\ Drivers # {} /\ IsFiniteSet(Payouts)

VARIABLES
    payment,    \* table payments: status and payoutId
    payout,     \* table payouts
    batch,      \* PayPal's side
    proc,       \* the handler, or the job, in each slot
    faults

vars == <<payment, payout, batch, proc, faults>>

-----------------------------------------------------------------------------

PaymentIds == DOMAIN Fares
Total(ps) == MapThenSumSet(LAMBDA p : Fares[p].amount, ps)

Payment ==
    [status : {"PENDING", "PAID", "REVERSED", "FAILED"}, payoutId : Payouts \cup {NoPayout}]

\* The columns of a payout that handlers save, and what it is made for.
Row == [status : {"none", "PENDING", "PAID", "FAILED"}, paypalBatchId : Batches \cup {NoBatch}]
Columns == {"status", "paypalBatchId", "payoutId"}
Payout == [row : Row, driver : Drivers, amount : Nat]

AnyDriver == CHOOSE d \in Drivers : TRUE
NoRow == [status |-> "none", paypalBatchId |-> NoBatch]
NewPayment == [status |-> "PENDING", payoutId |-> NoPayout]

Batch == [of : Payouts \cup {NoPayout}, status : BatchStatus \cup {"none"}]

Stages == {"idle", "claim", "send", "ask", "save", "flush", "audit",
           "refund", "saveReversal", "flushReversal"}

Proc ==
    [op : Ops \cup {"none"}, at : Stages,
     groups : [Drivers -> SUBSET PaymentIds],   \* payments selected, by driver
     id : Payouts \cup {NoPayout}, row : Row,   \* the payout being worked on, its copy
     rows : [Payouts -> Row], todo : SUBSET Payouts,    \* what the job has read
     p : PaymentIds \cup {0}, pago : Payment,
     cols : SUBSET Columns,
     then : {"done", "audit", "ask"}]

Idle ==
    [op |-> "none", at |-> "idle", groups |-> [d \in Drivers |-> {}],
     id |-> NoPayout, row |-> NoRow, rows |-> [id \in Payouts |-> NoRow], todo |-> {},
     p |-> 0, pago |-> NewPayment, cols |-> {}, then |-> "done"]

Init ==
    /\ payment = [p \in PaymentIds |-> NewPayment]
    /\ payout = [id \in Payouts |-> [row |-> NoRow, driver |-> AnyDriver, amount |-> 0]]
    /\ batch = [t \in Batches |-> [of |-> NoPayout, status |-> "none"]]
    /\ proc = [w \in Workers |-> Idle]
    /\ faults = 0

Called(w, op) == op \in Offers[w] /\ proc[w].at = "idle"
Become(w, record) == proc' = [proc EXCEPT ![w] = record]
Done(w) == Become(w, Idle)

Diff(copy, row) == {c \in DOMAIN copy : copy[c] # row[c]}
Update(copy, row, cols) == [c \in DOMAIN row |-> IF c \in cols THEN copy[c] ELSE row[c]]

Saving(record, row, then) == [record EXCEPT !.at = "save", !.row = row, !.then = then]
FailedRow(row) == [row EXCEPT !.status = "FAILED"]

-----------------------------------------------------------------------------
(* Claiming payments: requestPayout and generatePayouts. *)

\* Mutant: payments of earlier payouts are selected again.
AvailableAgain(p) == payment[p].status = "PAID"

Available(p) == payment[p].status = "PAID" /\ payment[p].payoutId = NoPayout

\* The payments a withdrawal takes: in the order of paidAt, each that still
\* fits into the amount.
Selection(d, amount) ==
    LET Taken[n \in 0..Len(Fares)] ==
            IF n = 0 THEN {}
            ELSE IF Available(n) /\ Fares[n].driver = d
                    /\ Total(Taken[n - 1]) + Fares[n].amount <= amount
                 THEN Taken[n - 1] \cup {n}
                 ELSE Taken[n - 1]
    IN  Taken[Len(Fares)]

RequestPayout(w, d, amount) ==
    LET selected == Selection(d, amount)
    IN  /\ Called(w, "requestPayout")
        /\ amount > 0 /\ amount >= Minimum
        /\ Total(selected) = amount
        /\ Become(w, [Idle EXCEPT !.op = "requestPayout", !.at = "claim",
                                  !.groups[d] = selected])
        /\ UNCHANGED <<payment, payout, batch, faults>>

GeneratePayouts(w, period) ==
    LET group == [d \in Drivers |->
            {p \in PaymentIds : Available(p) /\ Fares[p].driver = d /\ Fares[p].period = period}]
    IN  /\ Called(w, "generatePayouts")
        /\ \E d \in Drivers : group[d] # {}
        /\ Become(w, [Idle EXCEPT !.op = "generatePayouts", !.at = "claim", !.groups = group])
        /\ UNCHANGED <<payment, payout, batch, faults>>

\* One transaction: a payout per driver, and the payments selected before it.
ClaimPayments(w) ==
    LET groups == proc[w].groups
        paid == {d \in Drivers : groups[d] # {}}
        free == {id \in Payouts : payout[id].row = NoRow}
        new == CHOOSE f \in [paid -> free] : IsInjective(f)   \* ids are interchangeable
    IN  /\ proc[w].at = "claim"
        /\ Cardinality(free) >= Cardinality(paid)
        /\ payout' = [id \in Payouts |->
                IF \E d \in paid : new[d] = id
                THEN LET d == CHOOSE d \in paid : new[d] = id
                     IN  [row |-> [NoRow EXCEPT !.status = "PENDING"],
                          driver |-> d, amount |-> Total(groups[d])]
                ELSE payout[id]]
        /\ payment' = [p \in PaymentIds |->
                IF p \in groups[Fares[p].driver]
                THEN [payment[p] EXCEPT !.payoutId = new[Fares[p].driver]]
                ELSE payment[p]]
        /\ Done(w)
        /\ UNCHANGED <<batch, faults>>

-----------------------------------------------------------------------------
(* Sending: executePaypalPayout. *)

ExecutePaypalPayout(w, id) ==
    /\ Called(w, "executePaypalPayout")
    /\ payout[id].row.status = "PENDING"
    /\ payout[id].amount >= Minimum
    /\ Become(w, [Idle EXCEPT !.op = "executePaypalPayout", !.at = "send",
                              !.id = id, !.row = payout[id].row])
    /\ UNCHANGED <<payment, payout, batch, faults>>

\* sender_batch_id holds the time: to PayPal every request is a new batch.
NewBatch(t, id, status) ==
    /\ batch[t].status = "none"
    /\ t = CHOOSE u \in Batches : batch[u].status = "none"
    /\ batch' = [batch EXCEPT ![t] = [of |-> id, status |-> status]]

\* Mutant: a batch that was accepted counts as paid.
OutcomeOfAccepted(status) == "PAID"

\* Mutant: PayPal's word for it is stored as the status.
OutcomeAsAnswered(status) == status

\* What becomes of a payout when its batch has this status.
Outcome(status) ==
    CASE status = "SUCCESS" -> "PAID" [] status = "FAILED" -> "FAILED" [] OTHER -> "PENDING"

PaypalPays(w, t, status) ==
    LET sent == [proc[w].row EXCEPT !.paypalBatchId = t]
    IN  /\ proc[w].at = "send"
        /\ NewBatch(t, proc[w].id, status)
        /\ Become(w, Saving(proc[w],
                IF Outcome(status) = "PENDING"
                THEN sent
                ELSE [sent EXCEPT !.status = Outcome(status)], "audit"))
        /\ UNCHANGED <<payment, payout, faults>>

PaypalRefuses(w) ==
    /\ proc[w].at = "send"
    /\ Become(w, Saving(proc[w], FailedRow(proc[w].row), "done"))
    /\ UNCHANGED <<payment, payout, batch, faults>>

AuditPayout(w) ==
    /\ proc[w].at = "audit"
    /\ Done(w)
    /\ UNCHANGED <<payment, payout, batch, faults>>

\* The answer is lost, or a save or the audit throws: the same catch.
ExecutionThrows(w) ==
    /\ faults < MaxFaults
    /\ faults' = faults + 1
    /\ proc[w].op = "executePaypalPayout"
    /\ \/ /\ proc[w].at = "send"
          /\ \E t \in Batches, status \in Answers : NewBatch(t, proc[w].id, status)
       \/ /\ proc[w].at \in {"save", "flush", "audit"} /\ proc[w].then = "audit"
          /\ UNCHANGED batch
    /\ Become(w, Saving(proc[w], FailedRow(proc[w].row), "done"))
    /\ UNCHANGED <<payment, payout>>

-----------------------------------------------------------------------------
(* The job syncPaypalPayouts, and failPayout. *)

SyncPaypalPayouts(w) ==
    LET waiting == {id \in Payouts : /\ payout[id].row.status = "PENDING"
                                     /\ payout[id].row.paypalBatchId # NoBatch}
    IN  /\ Called(w, "syncPaypalPayouts")
        /\ waiting # {}
        /\ Become(w, [Idle EXCEPT !.op = "syncPaypalPayouts", !.at = "ask", !.todo = waiting,
                                  !.rows = [id \in Payouts |-> payout[id].row]])
        /\ UNCHANGED <<payment, payout, batch, faults>>

AskOn(w, left) ==
    IF left = {} THEN Done(w) ELSE Become(w, [proc[w] EXCEPT !.at = "ask", !.todo = left])

\* Mutant: the job looks for successes only.
AskForSuccess(w, id) ==
    LET row == proc[w].rows[id]
    IN  /\ proc[w].at = "ask"
        /\ id \in proc[w].todo
        /\ IF batch[row.paypalBatchId].status = "SUCCESS"
           THEN Become(w, [Saving(proc[w], [row EXCEPT !.status = "PAID"], "ask") EXCEPT !.id = id])
           ELSE AskOn(w, proc[w].todo \ {id})
        /\ UNCHANGED <<payment, payout, batch, faults>>

AskPaypal(w, id) ==
    LET row == proc[w].rows[id]
        outcome == Outcome(batch[row.paypalBatchId].status)
    IN  /\ proc[w].at = "ask"
        /\ id \in proc[w].todo
        /\ IF outcome # "PENDING"
           THEN Become(w, [Saving(proc[w], [row EXCEPT !.status = outcome], "ask") EXCEPT !.id = id])
           ELSE AskOn(w, proc[w].todo \ {id})
        /\ UNCHANGED <<payment, payout, batch, faults>>

\* The request throws: only lastError is new, but the whole copy is saved.
PaypalIsSilent(w, id) ==
    /\ faults < MaxFaults
    /\ faults' = faults + 1
    /\ proc[w].at = "ask"
    /\ id \in proc[w].todo
    /\ Become(w, [Saving(proc[w], proc[w].rows[id], "ask") EXCEPT !.id = id])
    /\ UNCHANGED <<payment, payout, batch>>

\* No look at the status.
FailPayout(w, id) ==
    /\ Called(w, "failPayout")
    /\ payout[id].row # NoRow
    /\ Become(w, Saving([Idle EXCEPT !.op = "failPayout", !.id = id],
                        FailedRow(payout[id].row), "done"))
    /\ UNCHANGED <<payment, payout, batch, faults>>

SavePayout(w) ==
    /\ proc[w].at = "save"
    /\ Become(w, [proc[w] EXCEPT
            !.at = "flush", !.cols = Diff(proc[w].row, payout[proc[w].id].row)])
    /\ UNCHANGED <<payment, payout, batch, faults>>

FlushPayout(w) ==
    LET id == proc[w].id
    IN  /\ proc[w].at = "flush"
        /\ payout' = [payout EXCEPT ![id].row = Update(proc[w].row, @, proc[w].cols)]
        /\ CASE proc[w].then = "done" -> Done(w)
             [] proc[w].then = "audit" -> Become(w, [proc[w] EXCEPT !.at = "audit"])
             [] proc[w].then = "ask" -> AskOn(w, proc[w].todo \ {id})
        /\ UNCHANGED <<payment, batch, faults>>

-----------------------------------------------------------------------------
(* Payments come and go: a capture, in the order of Fares; a reversal,     *)
(* which does not look at payoutId but saves the copy it has of it.        *)

PaymentPaid(p) ==
    /\ payment[p].status = "PENDING"
    /\ \A q \in 1..(p - 1) : payment[q].status # "PENDING"
    /\ payment' = [payment EXCEPT ![p].status = "PAID"]
    /\ UNCHANGED <<payout, batch, proc, faults>>

ReversePayment(w, p) ==
    /\ Called(w, "reversePayment")
    /\ payment[p].status = "PAID"
    /\ Become(w, [Idle EXCEPT !.op = "reversePayment", !.at = "refund",
                              !.p = p, !.pago = payment[p]])
    /\ UNCHANGED <<payment, payout, batch, faults>>

RefundPayment(w, status) ==
    /\ proc[w].at = "refund"
    /\ Become(w, [proc[w] EXCEPT !.at = "saveReversal", !.pago.status = status])
    /\ UNCHANGED <<payment, payout, batch, faults>>

SaveReversal(w) ==
    /\ proc[w].at = "saveReversal"
    /\ Become(w, [proc[w] EXCEPT
            !.at = "flushReversal", !.cols = Diff(proc[w].pago, payment[proc[w].p])])
    /\ UNCHANGED <<payment, payout, batch, faults>>

FlushReversal(w) ==
    /\ proc[w].at = "flushReversal"
    /\ payment' = [payment EXCEPT ![proc[w].p] = Update(proc[w].pago, @, proc[w].cols)]
    /\ Done(w)
    /\ UNCHANGED <<payout, batch, faults>>

-----------------------------------------------------------------------------

\* PayPal works a batch off.
Settle(t, status) ==
    /\ batch[t].status = "PENDING"
    /\ batch' = [batch EXCEPT ![t].status = status]
    /\ UNCHANGED <<payment, payout, proc, faults>>

\* The process stops, or a statement outside of every catch throws.
Fail(w) ==
    /\ faults < MaxFaults
    /\ proc[w].at # "idle"
    /\ faults' = faults + 1
    /\ Done(w)
    /\ UNCHANGED <<payment, payout, batch>>

Calls(w) ==
    \/ \E d \in Drivers, amount \in Requested : RequestPayout(w, d, amount)
    \/ \E period \in Periods : GeneratePayouts(w, period)
    \/ \E id \in Payouts : ExecutePaypalPayout(w, id) \/ FailPayout(w, id)
    \/ \E p \in PaymentIds : ReversePayment(w, p)

Continue(w) ==
    \/ ClaimPayments(w) \/ PaypalRefuses(w) \/ AuditPayout(w)
    \/ SavePayout(w) \/ FlushPayout(w) \/ SaveReversal(w) \/ FlushReversal(w)
    \/ \E t \in Batches, status \in Answers : PaypalPays(w, t, status)
    \/ \E id \in Payouts : AskPaypal(w, id)
    \/ \E status \in {"REVERSED", "FAILED"} : RefundPayment(w, status)

Settles == \E t \in Batches, status \in {"SUCCESS", "FAILED"} : Settle(t, status)

Next ==
    \/ \E w \in Workers :
        \/ Calls(w) \/ SyncPaypalPayouts(w) \/ Continue(w)
        \/ ExecutionThrows(w) \/ Fail(w)
        \/ \E id \in Payouts : PaypalIsSilent(w, id)
    \/ \E p \in PaymentIds : PaymentPaid(p)
    \/ Settles

Spec == Init /\ [][Next]_vars

\* Requests return or throw, PayPal works off its batches, and the timer of
\* the job fires every five minutes, whatever else a slot serves in between.
Fairness ==
    /\ WF_vars(Settles)
    /\ \A w \in Workers : WF_vars(Continue(w)) /\ SF_vars(SyncPaypalPayouts(w))

FairSpec == Spec /\ Fairness

-----------------------------------------------------------------------------
(* Properties. *)

\* Types: the values the columns, the copies and PayPal's batches can take.
TypeOK ==
    /\ payment \in [PaymentIds -> Payment]
    /\ payout \in [Payouts -> Payout]
    /\ batch \in [Batches -> Batch]
    /\ proc \in [Workers -> Proc]
    /\ faults \in 0..MaxFaults

\* A payout is worth the payments that name it: nothing is claimed twice,
\* nothing is dropped.
PayoutsAreBacked ==
    \A id \in Payouts : payout[id].row # NoRow =>
        payout[id].amount = Total({p \in PaymentIds : payment[p].payoutId = id})

\* A payment that a payout has claimed stays with it.
ClaimedForGood ==
    [][\A p \in PaymentIds : payment[p].payoutId # NoPayout =>
            payment'[p].payoutId = payment[p].payoutId]_payment

\* A payout that is PAID was paid: PayPal has worked off a batch of it, if not
\* always the one that paypalBatchId names by now.
PaidWasSent ==
    \A id \in Payouts : payout[id].row.status = "PAID" =>
        \E t \in Batches : batch[t] = [of |-> id, status |-> "SUCCESS"]

SentTo(d) ==
    MapThenSumSet(LAMBDA t : payout[batch[t].of].amount,
        {t \in Batches : batch[t].status = "SUCCESS" /\ payout[batch[t].of].driver = d})

\* No driver receives more than passengers paid for the rides.
PaidOutAtMostEarned ==
    \A d \in Drivers :
        SentTo(d) <= Total({p \in PaymentIds : /\ Fares[p].driver = d
                                               /\ payment[p].status # "PENDING"})

\* A payout whose batch PayPal has worked off does not stay PENDING.
BatchesAreNoticed ==
    \A id \in Payouts :
        payout[id].row.status = "PENDING" /\ payout[id].row.paypalBatchId # NoBatch
            ~> payout[id].row.status # "PENDING"
=============================================================================
