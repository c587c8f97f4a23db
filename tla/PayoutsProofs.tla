----------------------------- MODULE PayoutsProofs -----------------------------
(* What is proved of Payouts, for any numbers of drivers, payments, slots and *)
(* batches, wherever a handler is lost or PayPal does not answer.             *)
EXTENDS Payouts, FiniteSetTheorems, FunctionTheorems, TLAPS

Backing(id) == {p \in PaymentIds : payment[p].payoutId = id}

-----------------------------------------------------------------------------
(* What a payout, and a handler that works on one, knows of PayPal's batches: *)
(* y is the table of payouts, b the batches.                                  *)

Sent(id, b) == \E t \in Batches : b[t] = [of |-> id, status |-> "SUCCESS"]

Traced(id, row, b) ==
    /\ row.paypalBatchId # NoBatch =>
          b[row.paypalBatchId].of = id /\ b[row.paypalBatchId].status # "none"
    /\ row.status = "PAID" => Sent(id, b)

Working == {"send", "save", "flush", "audit"}
Reversing == {"refund", "saveReversal", "flushReversal"}

Holds(p, y, b) ==
    /\ p.at \in Working => /\ p.id \in Payouts /\ y[p.id].row # NoRow
                           /\ p.row.status # "none" /\ Traced(p.id, p.row, b)
    /\ p.at \in Reversing => p.p \in PaymentIds
    /\ \A id \in p.todo : /\ y[id].row # NoRow /\ p.rows[id].status # "none"
                          /\ p.rows[id].paypalBatchId # NoBatch /\ Traced(id, p.rows[id], b)

RowsInv ==
    \A id \in Payouts : /\ payout[id].row.status = "none" => payout[id].row = NoRow
                        /\ Traced(id, payout[id].row, batch)

HandlersInv == RowsInv /\ \A w \in Workers : Holds(proc[w], payout, batch)

-----------------------------------------------------------------------------
(* Who claims payments, or carries back what it has read of one, and what of  *)
(* it still holds when that happens in one slot.                              *)

Claimers == {"requestPayout", "generatePayouts", "reversePayment"}
Claimer(w) == Offers[w] \cap Claimers # {}
OneClaimer == \A v, w \in Workers : Claimer(v) /\ Claimer(w) => v = w

Claiming(p) == p.at \in {"claim"} \cup Reversing

\* pay is the table of payments.
Claims(p, pay) ==
    /\ p.at = "claim" =>
          \A d \in Drivers : \A q \in p.groups[d] : pay[q].payoutId = NoPayout /\ Fares[q].driver = d
    /\ p.at \in Reversing => p.pago.payoutId = pay[p.p].payoutId
    /\ p.at = "flushReversal" => "payoutId" \notin p.cols

ClaimsInv ==
    /\ \A w \in Workers : Claims(proc[w], payment) /\ (Claiming(proc[w]) => Claimer(w))
    /\ \A id \in Payouts : payout[id].row = NoRow => Backing(id) = {}
    /\ PayoutsAreBacked

-----------------------------------------------------------------------------
(* Sums, and the selection of a withdrawal.                                   *)

LEMMA NatOrder ==
    \E R : IsWellFoundedOn(R, Nat) /\ \A x, y \in Nat : <<y, x>> \in R <=> y < x
<1> DEFINE R == OpToRel(<, Nat)
<1>1. IsWellFoundedOn(R, Nat)
  BY NatLessThanWellFounded
<1>2. \A x, y \in Nat : <<y, x>> \in R <=> y < x
  BY DEF OpToRel
<1> HIDE DEF R
<1>. QED  BY <1>1, <1>2

LEMMA Least ==
    ASSUME NEW T, T \subseteq Nat, T # {}
    PROVE  \E m \in T : \A k \in T : m <= k
<1>1. PICK R : IsWellFoundedOn(R, Nat) /\ \A x, y \in Nat : <<y, x>> \in R <=> y < x
  BY NatOrder
<1>2. PICK m \in T : \A k \in T : ~ (<<k, m>> \in R)
  BY <1>1, WFMin
<1>3. \A k \in T : m <= k
  <2> SUFFICES ASSUME NEW k \in T
               PROVE  m <= k
    OBVIOUS
  <2>1. k \in Nat /\ m \in Nat /\ ~ (<<k, m>> \in R)
    BY <1>2
  <2>2. ~(k < m)
    BY <1>1, <2>1
  <2>. QED  BY <2>1, <2>2
<1>. QED  BY <1>3

Sums(g, S) ==
    g = [s \in SUBSET S |->
            IF s = {} THEN 0
            ELSE LET x == CHOOSE x \in s : TRUE IN Fares[x].amount + g[s \ {x}]]

LEMMA SumsExist ==
    ASSUME NEW S, IsFiniteSet(S)
    PROVE  \E g : Sums(g, S)
<1> DEFINE Upto(n) == {s \in SUBSET S : Cardinality(s) <= n}
           First(s) == CHOOSE x \in s : TRUE
           Sum(g, n) == g = [s \in Upto(n) |->
                              IF s = {} THEN 0 ELSE Fares[First(s)].amount + g[s \ {First(s)}]]
           Bad == {n \in Nat : ~ \E g : Sum(g, n)}
<1>0. \A s \in SUBSET S : /\ IsFiniteSet(s) /\ Cardinality(s) \in Nat /\ Cardinality(s) <= Cardinality(S)
                          /\ (Cardinality(s) = 0 <=> s = {})
  BY FS_Subset, FS_CardinalityType, FS_EmptySet
<1>1. \A s \in SUBSET S : s # {} =>
        First(s) \in s /\ s \ {First(s)} \in SUBSET S /\ Cardinality(s \ {First(s)}) = Cardinality(s) - 1
  BY <1>0, FS_RemoveElement
<1>2. Bad = {}
  <2> SUFFICES ASSUME Bad # {}
               PROVE  FALSE
    OBVIOUS
  <2>1. PICK m \in Bad : \A k \in Bad : m <= k
    BY Least
  <2>2. m # 0
    <3>1. Upto(0) = {{}}
      BY <1>0, FS_EmptySet
    <3> DEFINE g == [s \in Upto(0) |-> 0]
    <3>2. Sum(g, 0)
      BY <3>1
    <3>. QED  BY <3>2, ZenonT(60)
  <2>3. m - 1 \in Nat /\ m \in Nat
    BY <2>1, <2>2
  <2>4. PICK g : Sum(g, m - 1)
    <3>1. m - 1 \notin Bad
      <4> HIDE DEF Bad
      <4>. QED  BY <2>1, <2>3
    <3>. QED  BY <2>3, <3>1
  <2> DEFINE next == [s \in Upto(m) |->
                IF s = {} THEN 0 ELSE Fares[First(s)].amount + g[s \ {First(s)}]]
  <2>5. \A s \in Upto(m) : s # {} => next[s \ {First(s)}] = g[s \ {First(s)}]
    <3> SUFFICES ASSUME NEW s \in Upto(m), s # {}
                 PROVE  next[s \ {First(s)}] = g[s \ {First(s)}]
      OBVIOUS
    <3> DEFINE r == s \ {First(s)}
    <3>1. r \in Upto(m - 1) /\ r \in Upto(m)
      BY <1>0, <1>1, <2>3
    <3> HIDE DEF r
    <3>2. g[r] = IF r = {} THEN 0 ELSE Fares[First(r)].amount + g[r \ {First(r)}]
      BY <2>4, <3>1
    <3>3. next[r] = IF r = {} THEN 0 ELSE Fares[First(r)].amount + g[r \ {First(r)}]
      BY <3>1
    <3>. QED  BY <3>2, <3>3 DEF r
  <2>6. Sum(next, m)
    <3> DEFINE Def(f) == [s \in Upto(m) |->
                IF s = {} THEN 0 ELSE Fares[First(s)].amount + f[s \ {First(s)}]]
    <3> HIDE DEF Upto, First, next
    <3>1. \A s \in Upto(m) : (IF s = {} THEN 0 ELSE Fares[First(s)].amount + g[s \ {First(s)}])
                = (IF s = {} THEN 0 ELSE Fares[First(s)].amount + next[s \ {First(s)}])
      BY <2>5
    <3>2. Def(g) = Def(next)
      BY <3>1
    <3>3. next = Def(g)
      BY DEF next
    <3>. QED  BY <3>2, <3>3
  <2>. QED  BY <2>1, <2>6
<1>3. PICK g : Sum(g, Cardinality(S))
  BY <1>0, <1>2
<1>4. Upto(Cardinality(S)) = SUBSET S
  BY <1>0
<1>5. Sums(g, S)
  BY <1>3, <1>4 DEF Sums
<1>. QED  BY <1>5

LEMMA TotalIs ==
    ASSUME NEW S
    PROVE  Total(S) = (CHOOSE g : Sums(g, S))[S]
  BY DEF Total, MapThenSumSet, MapThenFoldSet, Sums

LEMMA TotalIsNat ==
    ASSUME NEW S \in SUBSET PaymentIds
    PROVE  Total(S) \in Nat
<1> DEFINE g == CHOOSE g : Sums(g, S)
           Bad == {n \in Nat : \E s \in SUBSET S : Cardinality(s) = n /\ g[s] \notin Nat}
<1>0. \A p \in PaymentIds : Fares[p].amount \in Nat
  <2> DEFINE Fare == [driver : Drivers, amount : Nat \ {0}, period : Periods]
  <2>1. Fares \in Seq(Fare)
    BY PayoutAssumption
  <2>2. \A f \in Fare : f.amount \in Nat
    OBVIOUS
  <2> HIDE DEF Fare
  <2>3. \A p \in PaymentIds : Fares[p] \in Fare
    BY <2>1 DEF PaymentIds
  <2>. QED  BY <2>2, <2>3
<1>1. IsFiniteSet(S)
  <2>1. Len(Fares) \in Nat /\ PaymentIds = 1..Len(Fares)
    BY PayoutAssumption DEF PaymentIds
  <2>2. IsFiniteSet(PaymentIds)
    BY <2>1, FS_Interval
  <2>. QED  BY <2>2, FS_Subset
<1>2. Sums(g, S)
  BY <1>1, SumsExist
<1> HIDE DEF g
<1>3. \A s \in SUBSET S : IsFiniteSet(s) /\ Cardinality(s) \in Nat
  BY <1>1, FS_Subset, FS_CardinalityType
<1>4. Bad = {}
  <2> SUFFICES ASSUME Bad # {}
               PROVE  FALSE
    OBVIOUS
  <2>1. PICK m \in Bad : \A k \in Bad : m <= k
    BY Least
  <2>2. PICK s \in SUBSET S : Cardinality(s) = m /\ g[s] \notin Nat
    BY <2>1
  <2> DEFINE x == CHOOSE x \in s : TRUE
             r == s \ {x}
  <2>3. s # {} /\ g[s] = Fares[x].amount + g[r]
    BY <1>2, <2>2 DEF Sums
  <2>4. x \in s
    BY <2>3
  <2> HIDE DEF x
  <2>5. r \in SUBSET S /\ Cardinality(r) = m - 1 /\ m - 1 \in Nat
    <3>1. IsFiniteSet(s) /\ r \in SUBSET S
      BY <1>3
    <3>2. Cardinality(r) = Cardinality(s) - 1
      BY <2>4, <3>1, FS_RemoveElement
    <3>. QED  BY <1>3, <2>2, <3>1, <3>2
  <2>6. g[r] \in Nat
    BY <2>1, <2>5
  <2>7. Fares[x].amount \in Nat
    BY <1>0, <2>4
  <2>. QED  BY <2>2, <2>3, <2>6, <2>7
<1>5. g[S] \in Nat
  BY <1>3, <1>4
<1>. QED  BY <1>5, TotalIs DEF g

PaymentOf(d) == {p \in PaymentIds : Available(p) /\ Fares[p].driver = d}

Taken(g, d, amount) ==
    g = [n \in 0..Len(Fares) |->
            IF n = 0 THEN {}
            ELSE IF Available(n) /\ Fares[n].driver = d
                    /\ Total(g[n - 1]) + Fares[n].amount <= amount
                 THEN g[n - 1] \cup {n}
                 ELSE g[n - 1]]

LEMMA SelectionIs ==
    ASSUME NEW d, NEW amount
    PROVE  Selection(d, amount) = (CHOOSE g : Taken(g, d, amount))[Len(Fares)]
  BY DEF Selection, Taken

LEMMA TakenExists ==
    ASSUME NEW d, NEW amount
    PROVE  \E g : Taken(g, d, amount)
<1> DEFINE N == Len(Fares)
           Choice(g, n) == IF n = 0 THEN {}
                           ELSE IF Available(n) /\ Fares[n].driver = d
                                   /\ Total(g[n - 1]) + Fares[n].amount <= amount
                                THEN g[n - 1] \cup {n}
                                ELSE g[n - 1]
           Upto(g, m) == g = [n \in 0..m |-> Choice(g, n)]
           Bad == {m \in Nat : ~ \E g : Upto(g, m)}
<1>0. N \in Nat
  BY PayoutAssumption
<1>1. Bad = {}
  <2> SUFFICES ASSUME Bad # {}
               PROVE  FALSE
    OBVIOUS
  <2>1. PICK m \in Bad : \A k \in Bad : m <= k
    BY Least
  <2>2. m # 0
    <3> DEFINE g == [n \in 0..0 |-> {}]
    <3>1. Upto(g, 0)
      OBVIOUS
    <3>. QED  BY <3>1
  <2>3. m - 1 \in Nat /\ m \in Nat
    BY <2>1, <2>2
  <2>4. PICK g : Upto(g, m - 1)
    <3>1. m - 1 \notin Bad
      <4> HIDE DEF Bad
      <4>. QED  BY <2>1, <2>3
    <3>. QED  BY <2>3, <3>1
  <2> DEFINE next == [n \in 0..m |-> Choice(g, n)]
  <2>5. \A n \in 0..m : n # 0 => next[n - 1] = g[n - 1]
    <3> SUFFICES ASSUME NEW n \in 0..m, n # 0
                 PROVE  next[n - 1] = g[n - 1]
      OBVIOUS
    <3>1. n - 1 \in 0..m /\ n - 1 \in 0..(m - 1)
      BY <2>3
    <3> HIDE DEF Choice
    <3>2. next[n - 1] = Choice(g, n - 1) /\ g[n - 1] = Choice(g, n - 1)
      BY <2>4, <3>1
    <3>. QED  BY <3>2
  <2>6. Upto(next, m)
    <3>1. \A n \in 0..m : Choice(next, n) = Choice(g, n)
      <4> HIDE DEF next
      <4>. QED  BY <2>5
    <3> HIDE DEF Choice
    <3>2. [n \in 0..m |-> Choice(next, n)] = [n \in 0..m |-> Choice(g, n)]
      <4> HIDE DEF next
      <4>. QED  BY <3>1
    <3>. QED  BY <3>2
  <2>. QED  BY <2>1, <2>6
<1>2. \E g : Upto(g, N)
  BY <1>0, <1>1
<1>. QED  BY <1>2 DEF Taken

(* A withdrawal takes payments of its driver that no payout has claimed. *)
LEMMA SelectionType ==
    ASSUME NEW d, NEW amount
    PROVE  Selection(d, amount) \subseteq PaymentOf(d)
<1> DEFINE g == CHOOSE g : Taken(g, d, amount)
           Bad == {n \in 0..Len(Fares) : ~ (g[n] \subseteq PaymentOf(d))}
<1>0. Len(Fares) \in Nat /\ PaymentIds = 1..Len(Fares)
  BY PayoutAssumption DEF PaymentIds
<1>1. Taken(g, d, amount)
  BY TakenExists
<1> HIDE DEF g
<1>2. Bad = {}
  <2> SUFFICES ASSUME Bad # {}
               PROVE  FALSE
    OBVIOUS
  <2>0. Bad \subseteq Nat
    BY <1>0
  <2>1. PICK m \in Bad : \A k \in Bad : m <= k
    BY <2>0, Least
  <2>2. m # 0
    BY <1>0, <1>1, <2>1 DEF Taken
  <2>3. m \in 1..Len(Fares) /\ m - 1 \in 0..Len(Fares)
    BY <1>0, <2>1, <2>2
  <2>4. g[m - 1] \subseteq PaymentOf(d)
    <3>1. m - 1 \notin Bad
      <4> HIDE DEF Bad
      <4>. QED  BY <1>0, <2>1, <2>3
    <3>. QED  BY <2>3, <3>1
  <2>5. g[m] = g[m - 1] \/ (g[m] = g[m - 1] \cup {m} /\ Available(m) /\ Fares[m].driver = d)
    <3>1. m \in 0..Len(Fares)
      BY <2>1
    <3>. QED  BY <1>1, <2>2, <3>1 DEF Taken
  <2>. QED  BY <1>0, <2>1, <2>3, <2>4, <2>5 DEF PaymentOf
<1>3. g[Len(Fares)] \subseteq PaymentOf(d)
  BY <1>0, <1>2
<1>. QED  BY <1>3, SelectionIs DEF g

-----------------------------------------------------------------------------
(* Rows and records. *)

LEMMA RowOperators ==
    ASSUME NEW copy \in Row, NEW row \in Row, NEW cols
    PROVE  /\ Update(copy, row, cols) \in Row
           /\ Update(copy, row, cols).status =
                  IF "status" \in cols THEN copy.status ELSE row.status
           /\ Update(copy, row, cols).paypalBatchId =
                  IF "paypalBatchId" \in cols THEN copy.paypalBatchId ELSE row.paypalBatchId
           /\ Diff(copy, row) \in SUBSET Columns
<1>1. DOMAIN row = {"status", "paypalBatchId"} /\ DOMAIN copy = {"status", "paypalBatchId"}
  BY DEF Row
<1>2. Update(copy, row, cols) = [c \in {"status", "paypalBatchId"} |->
            IF c \in cols THEN copy[c] ELSE row[c]]
  BY <1>1 DEF Update
<1>3. /\ copy["status"] = copy.status /\ row["status"] = row.status
      /\ copy["paypalBatchId"] = copy.paypalBatchId /\ row["paypalBatchId"] = row.paypalBatchId
  OBVIOUS
<1>4. Diff(copy, row) \in SUBSET Columns
  BY <1>1 DEF Diff, Columns
<1>. QED  BY <1>2, <1>3, <1>4 DEF Row

LEMMA PaymentOperators ==
    ASSUME NEW copy \in Payment, NEW row \in Payment, NEW cols
    PROVE  /\ Update(copy, row, cols) \in Payment
           /\ Update(copy, row, cols).status =
                  IF "status" \in cols THEN copy.status ELSE row.status
           /\ Update(copy, row, cols).payoutId =
                  IF "payoutId" \in cols THEN copy.payoutId ELSE row.payoutId
           /\ Diff(copy, row) \in SUBSET Columns
           /\ copy.payoutId = row.payoutId => "payoutId" \notin Diff(copy, row)
<1>1. DOMAIN row = {"status", "payoutId"} /\ DOMAIN copy = {"status", "payoutId"}
  BY DEF Payment
<1>2. Update(copy, row, cols) = [c \in {"status", "payoutId"} |->
            IF c \in cols THEN copy[c] ELSE row[c]]
  BY <1>1 DEF Update
<1>3. /\ copy["status"] = copy.status /\ row["status"] = row.status
      /\ copy["payoutId"] = copy.payoutId /\ row["payoutId"] = row.payoutId
  OBVIOUS
<1>4. Diff(copy, row) \in SUBSET Columns /\ (copy.payoutId = row.payoutId => "payoutId" \notin Diff(copy, row))
  BY <1>1, <1>3 DEF Diff, Columns
<1>. QED  BY <1>2, <1>3, <1>4 DEF Payment

LEMMA NoRowIs ==
    /\ NoRow \in Row /\ NoRow.status = "none" /\ NoRow.paypalBatchId = NoBatch
    /\ \A row \in Row : row = NoRow <=> row.status = "none" /\ row.paypalBatchId = NoBatch
  BY DEF NoRow, Row

LEMMA IdleType ==
    /\ Idle \in Proc /\ Idle.at = "idle" /\ Idle.op = "none" /\ Idle.todo = {} /\ Idle.p = 0
    /\ Idle.id = NoPayout /\ Idle.row = NoRow
<1>1. /\ [d \in Drivers |-> {}] \in [Drivers -> SUBSET PaymentIds]
      /\ [id \in Payouts |-> NoRow] \in [Payouts -> Row]
      /\ NewPayment \in Payment
  BY NoRowIs DEF NewPayment, Payment
<1>. QED  BY <1>1, NoRowIs DEF Idle, Proc, Stages

LEMMA SavingIs ==
    ASSUME NEW record \in Proc, NEW row \in Row, NEW then \in {"done", "audit", "ask"}
    PROVE  /\ Saving(record, row, then) \in Proc
           /\ Saving(record, row, then).at = "save" /\ Saving(record, row, then).row = row
           /\ Saving(record, row, then).id = record.id
           /\ Saving(record, row, then).todo = record.todo
           /\ Saving(record, row, then).rows = record.rows
           /\ Saving(record, row, then).op = record.op
<1>1. "save" \in Stages
  BY DEF Stages
<1>. QED  BY <1>1 DEF Saving, Proc

LEMMA FailedRowIs ==
    ASSUME NEW row \in Row
    PROVE  /\ FailedRow(row) \in Row /\ FailedRow(row).status = "FAILED"
           /\ FailedRow(row).paypalBatchId = row.paypalBatchId
  BY DEF FailedRow, Row

LEMMA OutcomeIs ==
    ASSUME NEW status
    PROVE  /\ Outcome(status) \in {"PAID", "FAILED", "PENDING"}
           /\ Outcome(status) = "PAID" <=> status = "SUCCESS"
  BY DEF Outcome

-----------------------------------------------------------------------------
(* What no step takes back: a payout that exists, and what PayPal has done. *)

Grew(y, b, y2, b2) ==
    /\ \A id \in Payouts : y[id].row # NoRow => y2[id].row # NoRow
    /\ \A t \in Batches : b[t].status # "none" =>
          /\ b2[t].of = b[t].of /\ b2[t].status # "none"
          /\ b[t].status = "SUCCESS" => b2[t] = b[t]

LEMMA TracedStays ==
    ASSUME NEW y, NEW b, NEW y2, NEW b2, Grew(y, b, y2, b2),
           NEW id, NEW row \in Row, Traced(id, row, b)
    PROVE  Traced(id, row, b2)
<1>1. row.paypalBatchId \in Batches \cup {NoBatch}
  BY DEF Row
<1>2. ASSUME Sent(id, b)
      PROVE  Sent(id, b2)
  <2>1. PICK t \in Batches : b[t] = [of |-> id, status |-> "SUCCESS"]
    BY <1>2 DEF Sent
  <2>2. b2[t] = b[t]
    BY <2>1 DEF Grew
  <2>. QED  BY <2>1, <2>2 DEF Sent
<1>3. row.status = "PAID" => Sent(id, b2)
  BY <1>2 DEF Traced
<1>4. row.paypalBatchId # NoBatch =>
          b2[row.paypalBatchId].of = id /\ b2[row.paypalBatchId].status # "none"
  BY <1>1 DEF Traced, Grew
<1>. QED  BY <1>3, <1>4 DEF Traced

LEMMA HoldsStays ==
    ASSUME NEW y, NEW b, NEW y2, NEW b2, Grew(y, b, y2, b2),
           NEW p \in Proc, Holds(p, y, b)
    PROVE  Holds(p, y2, b2)
<1>0. p.row \in Row /\ p.todo \subseteq Payouts /\ \A id \in Payouts : p.rows[id] \in Row
  BY DEF Proc
<1>1. ASSUME p.at \in Working
      PROVE  p.id \in Payouts /\ y2[p.id].row # NoRow /\ p.row.status # "none" /\ Traced(p.id, p.row, b2)
  <2>1. p.id \in Payouts /\ y[p.id].row # NoRow /\ p.row.status # "none" /\ Traced(p.id, p.row, b)
    BY <1>1 DEF Holds
  <2>. QED  BY <1>0, <2>1, TracedStays DEF Grew
<1>2. ASSUME NEW id \in p.todo
      PROVE  /\ y2[id].row # NoRow /\ p.rows[id].status # "none"
             /\ p.rows[id].paypalBatchId # NoBatch /\ Traced(id, p.rows[id], b2)
  <2>1. /\ y[id].row # NoRow /\ p.rows[id].status # "none"
        /\ p.rows[id].paypalBatchId # NoBatch /\ Traced(id, p.rows[id], b)
    BY DEF Holds
  <2>2. id \in Payouts /\ p.rows[id] \in Row
    BY <1>0
  <2>. QED  BY <2>1, <2>2, TracedStays DEF Grew
<1>3. p.at \in Reversing => p.p \in PaymentIds
  BY DEF Holds
<1>. QED  BY <1>1, <1>2, <1>3 DEF Holds

-----------------------------------------------------------------------------
(* A step of one slot keeps the others as they are. *)

Kept ==
    /\ payment' \in [PaymentIds -> Payment] /\ payout' \in [Payouts -> Payout]
    /\ batch' \in [Batches -> Batch] /\ faults' \in 0..MaxFaults
    /\ Grew(payout, batch, payout', batch') /\ RowsInv'

Inv == TypeOK /\ HandlersInv

LEMMA SlotKeepsInv ==
    ASSUME Inv, Kept, NEW w \in Workers, NEW r \in Proc, Become(w, r), Holds(r, payout', batch')
    PROVE  Inv'
<1>1. proc' \in [Workers -> Proc] /\ proc'[w] = r /\ \A v \in Workers : v # w => proc'[v] = proc[v]
  BY DEF Become, Inv, TypeOK
<1>2. TypeOK'
  BY <1>1 DEF Kept, TypeOK
<1>3. ASSUME NEW v \in Workers
      PROVE  Holds(proc'[v], payout', batch')
  <2>1. CASE v = w
    BY <1>1, <2>1
  <2>2. CASE v # w
    <3>1. proc'[v] = proc[v] /\ proc[v] \in Proc /\ Holds(proc[v], payout, batch)
      BY <1>1, <2>2 DEF Inv, TypeOK, HandlersInv
    <3>2. Holds(proc[v], payout', batch')
      BY <3>1, HoldsStays DEF Kept
    <3>. QED  BY <3>1, <3>2
  <2>. QED  BY <2>1, <2>2
<1>4. HandlersInv'
  BY <1>3 DEF Kept, HandlersInv
<1>. QED  BY <1>2, <1>4 DEF Inv

(* A step that changes no table and no batch, and what the slot still knows. *)
LEMMA QuietStep ==
    ASSUME Inv, NEW w \in Workers, NEW r \in Proc, Become(w, r), Holds(r, payout, batch),
           UNCHANGED <<payment, payout, batch>>, faults' \in 0..MaxFaults
    PROVE  Inv'
<1>1. Grew(payout, batch, payout', batch')
  BY DEF Grew
<1>2. RowsInv'
  BY DEF Inv, HandlersInv, RowsInv
<1>3. Kept
  BY <1>1, <1>2 DEF Kept, Inv, TypeOK
<1>. QED  BY <1>3, SlotKeepsInv

LEMMA IdleHolds == \A y, b : Holds(Idle, y, b)
  BY IdleType DEF Holds, Working, Reversing

-----------------------------------------------------------------------------
(* Calls. *)


LEMMA RequestKeeps ==
    ASSUME Inv, NEW w \in Workers, NEW d \in Drivers, NEW amount, RequestPayout(w, d, amount)
    PROVE  Inv'
<1> DEFINE r == [Idle EXCEPT !.op = "requestPayout", !.at = "claim",
                             !.groups[d] = Selection(d, amount)]
<1>1. Become(w, r) /\ UNCHANGED <<payment, payout, batch, faults>>
  BY DEF RequestPayout
<1>2. Selection(d, amount) \in SUBSET PaymentIds
  BY SelectionType DEF PaymentOf
<1>3. r \in Proc /\ r.at = "claim" /\ r.todo = {}
  BY <1>2, IdleType DEF Proc, Ops, Stages
<1> HIDE DEF r
<1>4. Holds(r, payout, batch)
  BY <1>3 DEF Holds, Working, Reversing
<1>. QED  BY <1>1, <1>3, <1>4, QuietStep DEF Inv, TypeOK

LEMMA GenerateKeeps ==
    ASSUME Inv, NEW w \in Workers, NEW period, GeneratePayouts(w, period)
    PROVE  Inv'
<1> DEFINE group == [d \in Drivers |->
                {p \in PaymentIds : Available(p) /\ Fares[p].driver = d /\ Fares[p].period = period}]
           r == [Idle EXCEPT !.op = "generatePayouts", !.at = "claim", !.groups = group]
<1>1. Become(w, r) /\ UNCHANGED <<payment, payout, batch, faults>>
  BY DEF GeneratePayouts
<1>2. group \in [Drivers -> SUBSET PaymentIds]
  OBVIOUS
<1> HIDE DEF group
<1>3. r \in Proc /\ r.at = "claim" /\ r.todo = {}
  BY <1>2, IdleType DEF Proc, Ops, Stages
<1> HIDE DEF r
<1>4. Holds(r, payout, batch)
  BY <1>3 DEF Holds, Working, Reversing
<1>. QED  BY <1>1, <1>3, <1>4, QuietStep DEF Inv, TypeOK

LEMMA ExecuteKeeps ==
    ASSUME Inv, NEW w \in Workers, NEW id \in Payouts, ExecutePaypalPayout(w, id)
    PROVE  Inv'
<1> DEFINE r == [Idle EXCEPT !.op = "executePaypalPayout", !.at = "send",
                             !.id = id, !.row = payout[id].row]
<1>1. /\ Become(w, r) /\ UNCHANGED <<payment, payout, batch, faults>>
      /\ payout[id].row.status = "PENDING"
  BY DEF ExecutePaypalPayout
<1>2. payout[id].row \in Row
  BY DEF Inv, TypeOK, Payout
<1>3. /\ r \in Proc /\ r.at = "send" /\ r.todo = {} /\ r.id = id /\ r.row = payout[id].row
  BY <1>2, IdleType DEF Proc, Ops, Stages
<1> HIDE DEF r
<1>4. payout[id].row # NoRow /\ Traced(id, payout[id].row, batch)
  BY <1>1, NoRowIs DEF Inv, HandlersInv, RowsInv
<1>5. Holds(r, payout, batch)
  BY <1>1, <1>3, <1>4 DEF Holds, Working, Reversing
<1>. QED  BY <1>1, <1>3, <1>5, QuietStep DEF Inv, TypeOK

LEMMA FailPayoutKeeps ==
    ASSUME Inv, NEW w \in Workers, NEW id \in Payouts, FailPayout(w, id)
    PROVE  Inv'
<1> DEFINE called == [Idle EXCEPT !.op = "failPayout", !.id = id]
           r == Saving(called, FailedRow(payout[id].row), "done")
<1>1. /\ Become(w, r) /\ UNCHANGED <<payment, payout, batch, faults>>
      /\ payout[id].row # NoRow
  BY DEF FailPayout
<1>2. payout[id].row \in Row /\ Traced(id, payout[id].row, batch)
  BY DEF Inv, TypeOK, Payout, HandlersInv, RowsInv
<1>3. called \in Proc /\ called.id = id /\ called.todo = {}
  BY IdleType DEF Proc, Ops, Stages
<1> HIDE DEF called
<1>4. /\ r \in Proc /\ r.at = "save" /\ r.todo = {} /\ r.id = id
      /\ r.row = FailedRow(payout[id].row)
  BY <1>2, <1>3, SavingIs, FailedRowIs, ZenonT(60)
<1> HIDE DEF r
<1>5. r.row.status = "FAILED" /\ Traced(id, r.row, batch)
  BY <1>2, <1>4, FailedRowIs DEF Traced
<1>6. Holds(r, payout, batch)
  BY <1>1, <1>4, <1>5 DEF Holds, Working, Reversing
<1>. QED  BY <1>1, <1>4, <1>6, QuietStep DEF Inv, TypeOK

LEMMA ReverseKeeps ==
    ASSUME Inv, NEW w \in Workers, NEW p \in PaymentIds, ReversePayment(w, p)
    PROVE  Inv'
<1> DEFINE r == [Idle EXCEPT !.op = "reversePayment", !.at = "refund",
                             !.p = p, !.pago = payment[p]]
<1>1. Become(w, r) /\ UNCHANGED <<payment, payout, batch, faults>>
  BY DEF ReversePayment
<1>2. payment[p] \in Payment
  BY DEF Inv, TypeOK
<1>3. r \in Proc /\ r.at = "refund" /\ r.todo = {} /\ r.p = p
  BY <1>2, IdleType DEF Proc, Ops, Stages
<1> HIDE DEF r
<1>4. Holds(r, payout, batch)
  BY <1>3 DEF Holds, Working, Reversing
<1>. QED  BY <1>1, <1>3, <1>4, QuietStep DEF Inv, TypeOK

LEMMA SyncKeeps ==
    ASSUME Inv, NEW w \in Workers, SyncPaypalPayouts(w)
    PROVE  Inv'
<1> DEFINE waiting == {id \in Payouts : /\ payout[id].row.status = "PENDING"
                                        /\ payout[id].row.paypalBatchId # NoBatch}
           read == [id \in Payouts |-> payout[id].row]
           r == [Idle EXCEPT !.op = "syncPaypalPayouts", !.at = "ask", !.todo = waiting, !.rows = read]
<1>1. Become(w, r) /\ UNCHANGED <<payment, payout, batch, faults>>
  BY DEF SyncPaypalPayouts
<1>2. waiting \in SUBSET Payouts /\ read \in [Payouts -> Row]
  BY DEF Inv, TypeOK, Payout
<1>3. \A id \in waiting : /\ payout[id].row # NoRow /\ read[id].status # "none"
                          /\ read[id].paypalBatchId # NoBatch /\ Traced(id, read[id], batch)
  BY NoRowIs DEF Inv, HandlersInv, RowsInv
<1> HIDE DEF waiting, read
<1>4. r \in Proc /\ r.at = "ask" /\ r.todo = waiting /\ r.rows = read
  BY <1>2, IdleType DEF Proc, Ops, Stages
<1> HIDE DEF r
<1>5. Holds(r, payout, batch)
  BY <1>3, <1>4 DEF Holds, Working, Reversing
<1>. QED  BY <1>1, <1>4, <1>5, QuietStep DEF Inv, TypeOK

-----------------------------------------------------------------------------
(* Sending a payout, and asking for what became of it. *)

LEMMA Handler ==
    ASSUME Inv, NEW w \in Workers
    PROVE  /\ proc[w] \in Proc /\ Holds(proc[w], payout, batch)
           /\ proc[w].row \in Row /\ proc[w].todo \in SUBSET Payouts
           /\ \A id \in Payouts : proc[w].rows[id] \in Row
           /\ proc[w].at \in Working => proc[w].id \in Payouts
           /\ \A id \in Payouts : payout[id].row \in Row
           /\ \A t \in Batches : batch[t] \in Batch
<1>1. proc[w] \in Proc /\ Holds(proc[w], payout, batch)
  BY DEF Inv, TypeOK, HandlersInv
<1>. QED  BY <1>1 DEF Inv, TypeOK, Payout, Proc, Holds

(* A batch that PayPal accepts is new to it. *)
LEMMA NewBatchGrows ==
    ASSUME Inv, NEW t \in Batches, NEW id \in Payouts, NEW status \in Answers,
           NewBatch(t, id, status), UNCHANGED <<payment, payout>>, faults' \in 0..MaxFaults
    PROVE  /\ Kept /\ batch'[t] = [of |-> id, status |-> status]
           /\ status \in BatchStatus
<1>1. status \in BatchStatus
  BY PayoutAssumption
<1>2. /\ batch' \in [Batches -> Batch] /\ batch'[t] = [of |-> id, status |-> status]
      /\ batch[t].status = "none" /\ \A u \in Batches : u # t => batch'[u] = batch[u]
  <2>1. [of |-> id, status |-> status] \in Batch
    BY <1>1 DEF Batch
  <2>. QED  BY <2>1 DEF NewBatch, Inv, TypeOK
<1>3. Grew(payout, batch, payout', batch')
  BY <1>2 DEF Grew
<1>4. ASSUME NEW y \in Payouts
      PROVE  /\ payout'[y].row.status = "none" => payout'[y].row = NoRow
             /\ Traced(y, payout'[y].row, batch')
  <2>1. payout'[y] = payout[y] /\ payout[y].row \in Row /\ Traced(y, payout[y].row, batch)
    BY DEF Inv, TypeOK, Payout, HandlersInv, RowsInv
  <2>2. Traced(y, payout[y].row, batch')
    BY <1>3, <2>1, TracedStays
  <2>. QED  BY <2>1, <2>2 DEF Inv, HandlersInv, RowsInv
<1>5. RowsInv'
  BY <1>4 DEF RowsInv
<1>. QED  BY <1>1, <1>2, <1>3, <1>5 DEF Kept, Inv, TypeOK

(* A handler that is about to save a row it may save. *)
LEMMA SavingHolds ==
    ASSUME NEW p \in Proc, NEW y, NEW b, Holds(p, y, b),
           NEW id \in Payouts, NEW row \in Row, y[id].row # NoRow,
           row.status # "none", Traced(id, row, b),
           NEW r, r.at = "save", r.id = id, r.row = row, r.todo = p.todo, r.rows = p.rows
    PROVE  Holds(r, y, b)
  BY DEF Holds, Reversing

LEMMA PaypalPaysKeeps ==
    ASSUME Inv, NEW w \in Workers, NEW t \in Batches, NEW status \in Answers, PaypalPays(w, t, status)
    PROVE  Inv'
<1> DEFINE id == proc[w].id
           sent == [proc[w].row EXCEPT !.paypalBatchId = t]
           row == IF Outcome(status) = "PENDING" THEN sent ELSE [sent EXCEPT !.status = Outcome(status)]
           r == Saving(proc[w], row, "audit")
<1>1. /\ proc[w].at = "send" /\ NewBatch(t, id, status) /\ Become(w, r)
      /\ UNCHANGED <<payment, payout, faults>>
  BY DEF PaypalPays
<1>2. proc[w] \in Proc /\ Holds(proc[w], payout, batch) /\ proc[w].row \in Row
  BY Handler
<1>3. /\ id \in Payouts /\ payout[id].row # NoRow
      /\ proc[w].row.status # "none" /\ Traced(id, proc[w].row, batch)
  BY <1>1, <1>2 DEF Holds, Working
<1>4. /\ Kept /\ batch'[t] = [of |-> id, status |-> status] /\ status \in BatchStatus
      /\ Grew(payout, batch, payout', batch')
  BY <1>1, <1>3, NewBatchGrows DEF Kept, Inv, TypeOK
<1>5. /\ sent \in Row /\ sent.status = proc[w].row.status /\ sent.paypalBatchId = t
  BY <1>2 DEF Row
<1>6. /\ row \in Row /\ row.paypalBatchId = t
      /\ row.status = IF Outcome(status) = "PENDING" THEN proc[w].row.status ELSE Outcome(status)
  BY <1>5, OutcomeIs DEF Row
<1> HIDE DEF sent, row
<1>7. row.status # "none"
  BY <1>3, <1>6, OutcomeIs
<1>8. Traced(id, row, batch')
  <2>1. t # NoBatch
    BY PayoutAssumption
  <2>2. batch'[t].of = id /\ batch'[t].status # "none"
    BY <1>4 DEF BatchStatus
  <2>3. ASSUME row.status = "PAID"
        PROVE  Sent(id, batch')
    <3>1. CASE Outcome(status) = "PENDING"
      <4>1. Traced(id, proc[w].row, batch') /\ proc[w].row.status = "PAID"
        BY <1>2, <1>3, <1>4, <1>6, <2>3, <3>1, TracedStays
      <4>. QED  BY <4>1 DEF Traced
    <3>2. CASE Outcome(status) # "PENDING"
      <4>1. status = "SUCCESS"
        BY <1>6, <2>3, <3>2, OutcomeIs
      <4>. QED  BY <1>4, <4>1 DEF Sent
    <3>. QED  BY <3>1, <3>2
  <2>. QED  BY <1>6, <2>2, <2>3 DEF Traced
<1>9. /\ r \in Proc /\ r.at = "save" /\ r.id = id /\ r.row = row
      /\ r.todo = proc[w].todo /\ r.rows = proc[w].rows
  BY <1>2, <1>6, SavingIs
<1>10. Holds(proc[w], payout', batch')
  BY <1>2, <1>4, HoldsStays
<1>11. payout'[id].row # NoRow
  BY <1>1, <1>3
<1> HIDE DEF r, id
<1>12. Holds(r, payout', batch')
  BY <1>2, <1>3, <1>6, <1>7, <1>8, <1>9, <1>10, <1>11, SavingHolds
<1>. QED  BY <1>1, <1>4, <1>9, <1>12, SlotKeepsInv

LEMMA FailedIsTraced ==
    ASSUME NEW id, NEW row \in Row, NEW b, Traced(id, row, b)
    PROVE  Traced(id, FailedRow(row), b)
  BY FailedRowIs DEF Traced

LEMMA PaypalRefusesKeeps ==
    ASSUME Inv, NEW w \in Workers, PaypalRefuses(w)
    PROVE  Inv'
<1> DEFINE row == FailedRow(proc[w].row)
           r == Saving(proc[w], row, "done")
<1>1. /\ proc[w].at = "send" /\ Become(w, r) /\ UNCHANGED <<payment, payout, batch, faults>>
  BY DEF PaypalRefuses
<1>2. proc[w] \in Proc /\ Holds(proc[w], payout, batch) /\ proc[w].row \in Row
  BY Handler
<1>3. /\ proc[w].id \in Payouts /\ payout[proc[w].id].row # NoRow
      /\ Traced(proc[w].id, proc[w].row, batch)
  BY <1>1, <1>2 DEF Holds, Working
<1>4. row \in Row /\ row.status # "none" /\ Traced(proc[w].id, row, batch)
  BY <1>2, <1>3, FailedRowIs, FailedIsTraced
<1> HIDE DEF row
<1>5. /\ r \in Proc /\ r.at = "save" /\ r.id = proc[w].id /\ r.row = row
      /\ r.todo = proc[w].todo /\ r.rows = proc[w].rows
  BY <1>2, <1>4, SavingIs
<1> HIDE DEF r
<1>6. Holds(r, payout, batch)
  BY <1>2, <1>3, <1>4, <1>5, SavingHolds
<1>. QED  BY <1>1, <1>5, <1>6, QuietStep DEF Inv, TypeOK

LEMMA ThrowsKeeps ==
    ASSUME Inv, NEW w \in Workers, ExecutionThrows(w)
    PROVE  Inv'
<1> DEFINE id == proc[w].id
           row == FailedRow(proc[w].row)
           r == Saving(proc[w], row, "done")
<1>1. /\ proc[w].at \in Working /\ Become(w, r) /\ UNCHANGED <<payment, payout>>
      /\ faults' \in 0..MaxFaults
  BY PayoutAssumption DEF ExecutionThrows, Working, Inv, TypeOK
<1>2. proc[w] \in Proc /\ Holds(proc[w], payout, batch) /\ proc[w].row \in Row
  BY Handler
<1>3. /\ id \in Payouts /\ payout[id].row # NoRow /\ Traced(id, proc[w].row, batch)
  BY <1>1, <1>2 DEF Holds
<1>4. row \in Row /\ row.status # "none" /\ Traced(id, row, batch)
  BY <1>2, <1>3, FailedRowIs, FailedIsTraced
<1> HIDE DEF row
<1>5. /\ r \in Proc /\ r.at = "save" /\ r.id = id /\ r.row = row
      /\ r.todo = proc[w].todo /\ r.rows = proc[w].rows
  BY <1>2, <1>4, SavingIs
<1> HIDE DEF r
<1>6. Holds(r, payout, batch)
  BY <1>2, <1>3, <1>4, <1>5, SavingHolds
<1>7. CASE UNCHANGED batch
  BY <1>1, <1>5, <1>6, <1>7, QuietStep
<1>8. CASE \E t \in Batches, status \in Answers : NewBatch(t, id, status)
  <2>1. PICK t \in Batches, status \in Answers : NewBatch(t, id, status)
    BY <1>8
  <2>2. Kept
    BY <1>1, <1>3, <2>1, NewBatchGrows
  <2>3. Holds(r, payout', batch')
    BY <1>5, <1>6, <2>2, HoldsStays DEF Kept
  <2>. QED  BY <1>1, <1>5, <2>2, <2>3, SlotKeepsInv
<1>. QED  BY <1>7, <1>8 DEF ExecutionThrows

LEMMA BackToIdleKeeps ==
    ASSUME Inv, NEW w \in Workers, AuditPayout(w) \/ Fail(w)
    PROVE  Inv'
<1>1. Become(w, Idle) /\ UNCHANGED <<payment, payout, batch>> /\ faults' \in 0..MaxFaults
  BY PayoutAssumption DEF AuditPayout, Fail, Done, Inv, TypeOK
<1>2. Idle \in Proc /\ Holds(Idle, payout, batch)
  BY IdleType, IdleHolds
<1>. QED  BY <1>1, <1>2, QuietStep

(* What is left to ask for is known as before. *)
LEMMA AskOnBecomes ==
    ASSUME Inv, NEW w \in Workers, NEW left \in SUBSET proc[w].todo, AskOn(w, left)
    PROVE  \E r \in Proc : Become(w, r) /\ \A y, b : Holds(proc[w], y, b) => Holds(r, y, b)
<1>1. CASE left = {}
  <2>1. Become(w, Idle)
    BY <1>1 DEF AskOn, Done
  <2>. QED  BY <2>1, IdleType, IdleHolds
<1>2. CASE left # {}
  <2> DEFINE r == [proc[w] EXCEPT !.at = "ask", !.todo = left]
  <2>1. Become(w, r)
    BY <1>2 DEF AskOn
  <2>2. proc[w] \in Proc /\ left \in SUBSET Payouts
    BY Handler
  <2>3. /\ r \in Proc /\ r.at = "ask" /\ r.todo = left /\ r.rows = proc[w].rows
    BY <2>2 DEF Proc, Stages
  <2> HIDE DEF r
  <2>4. ASSUME NEW y, NEW b, Holds(proc[w], y, b)
        PROVE  Holds(r, y, b)
    BY <2>3, <2>4 DEF Holds, Working, Reversing
  <2>. QED  BY <2>1, <2>3, <2>4
<1>. QED  BY <1>1, <1>2

(* The job has a row at hand and goes on to save it, with a status it may have. *)
LEMMA AskedKeeps ==
    ASSUME Inv, NEW w \in Workers, NEW id \in proc[w].todo, NEW row \in Row,
           row.status # "none", Traced(id, row, batch),
           Become(w, [Saving(proc[w], row, "ask") EXCEPT !.id = id]),
           UNCHANGED <<payment, payout, batch>>, faults' \in 0..MaxFaults
    PROVE  Inv'
<1> DEFINE s == Saving(proc[w], row, "ask")
           r == [s EXCEPT !.id = id]
<1>1. /\ proc[w] \in Proc /\ Holds(proc[w], payout, batch) /\ id \in Payouts
  BY Handler
<1>2. payout[id].row # NoRow
  BY <1>1 DEF Holds
<1>3. s \in Proc /\ s.at = "save" /\ s.row = row /\ s.todo = proc[w].todo /\ s.rows = proc[w].rows
  BY <1>1, SavingIs
<1>4. Become(w, r)
  OBVIOUS
<1> HIDE DEF s
<1>5. /\ r \in Proc /\ r.at = "save" /\ r.id = id /\ r.row = row
      /\ r.todo = proc[w].todo /\ r.rows = proc[w].rows
  BY <1>1, <1>3 DEF Proc
<1> HIDE DEF r
<1>6. Holds(r, payout, batch)
  BY <1>1, <1>2, <1>5, SavingHolds
<1>. QED  BY <1>4, <1>5, <1>6, QuietStep

LEMMA AskKeeps ==
    ASSUME Inv, NEW w \in Workers, NEW id \in Payouts, AskPaypal(w, id)
    PROVE  Inv'
<1> DEFINE row == proc[w].rows[id]
           t == row.paypalBatchId
           outcome == Outcome(batch[t].status)
           new == [row EXCEPT !.status = outcome]
<1>1. /\ id \in proc[w].todo /\ UNCHANGED <<payment, payout, batch, faults>>
      /\ IF outcome # "PENDING"
         THEN Become(w, [Saving(proc[w], new, "ask") EXCEPT !.id = id])
         ELSE AskOn(w, proc[w].todo \ {id})
  BY DEF AskPaypal
<1>2. proc[w] \in Proc /\ Holds(proc[w], payout, batch) /\ row \in Row
  BY Handler
<1>3. row.status # "none" /\ t # NoBatch /\ Traced(id, row, batch)
  BY <1>1, <1>2 DEF Holds
<1>4. CASE outcome # "PENDING"
  <2>1. new \in Row /\ new.status = outcome /\ new.paypalBatchId = t /\ outcome # "none"
    BY <1>2, OutcomeIs DEF Row
  <2>2. t \in Batches /\ batch[t] \in Batch /\ batch[t].of = id /\ batch[t].status # "none"
    BY <1>2, <1>3, Handler DEF Row, Traced
  <2>3. outcome = "PAID" => Sent(id, batch)
    <3>1. outcome = "PAID" => batch[t].status = "SUCCESS"
      BY OutcomeIs
    <3>2. batch[t] = [of |-> batch[t].of, status |-> batch[t].status]
      BY <2>2 DEF Batch
    <3>. QED  BY <2>2, <3>1, <3>2 DEF Sent
  <2> HIDE DEF outcome, new, row, t
  <2>4. Traced(id, new, batch)
    BY <2>1, <2>2, <2>3 DEF Traced
  <2>. QED  BY <1>1, <1>4, <2>1, <2>4, AskedKeeps DEF Inv, TypeOK
<1>5. CASE outcome = "PENDING"
  <2>1. AskOn(w, proc[w].todo \ {id}) /\ proc[w].todo \ {id} \in SUBSET proc[w].todo
    BY <1>1, <1>5
  <2>2. PICK r \in Proc : Become(w, r) /\ (Holds(proc[w], payout, batch) => Holds(r, payout, batch))
    BY <2>1, AskOnBecomes
  <2>. QED  BY <1>1, <1>2, <2>2, QuietStep DEF Inv, TypeOK
<1>. QED  BY <1>4, <1>5

LEMMA SilentKeeps ==
    ASSUME Inv, NEW w \in Workers, NEW id \in Payouts, PaypalIsSilent(w, id)
    PROVE  Inv'
<1>1. /\ id \in proc[w].todo /\ UNCHANGED <<payment, payout, batch>>
      /\ Become(w, [Saving(proc[w], proc[w].rows[id], "ask") EXCEPT !.id = id])
      /\ faults' \in 0..MaxFaults
  BY PayoutAssumption DEF PaypalIsSilent, Inv, TypeOK
<1>2. /\ proc[w].rows[id] \in Row /\ proc[w].rows[id].status # "none"
      /\ Traced(id, proc[w].rows[id], batch)
  BY <1>1, Handler DEF Holds
<1>. QED  BY <1>1, <1>2, AskedKeeps

-----------------------------------------------------------------------------
(* Saves and reversals. *)

LEMMA SaveKeeps ==
    ASSUME Inv, NEW w \in Workers, SavePayout(w)
    PROVE  Inv'
<1> DEFINE cols == Diff(proc[w].row, payout[proc[w].id].row)
           r == [proc[w] EXCEPT !.at = "flush", !.cols = cols]
<1>1. /\ proc[w].at = "save" /\ Become(w, r) /\ UNCHANGED <<payment, payout, batch, faults>>
  BY DEF SavePayout
<1>2. /\ proc[w] \in Proc /\ Holds(proc[w], payout, batch) /\ proc[w].row \in Row
      /\ proc[w].id \in Payouts
  BY <1>1, Handler DEF Working
<1>3. cols \in SUBSET Columns
  BY <1>2, Handler, RowOperators
<1> HIDE DEF cols
<1>4. /\ r \in Proc /\ r.at = "flush" /\ r.id = proc[w].id /\ r.row = proc[w].row
      /\ r.todo = proc[w].todo /\ r.rows = proc[w].rows
  BY <1>2, <1>3 DEF Proc, Stages
<1> HIDE DEF r
<1>5. Holds(r, payout, batch)
  BY <1>1, <1>2, <1>4 DEF Holds, Working, Reversing
<1>. QED  BY <1>1, <1>4, <1>5, QuietStep DEF Inv, TypeOK

LEMMA FlushKeeps ==
    ASSUME Inv, NEW w \in Workers, FlushPayout(w)
    PROVE  Inv'
<1> DEFINE id == proc[w].id
           row == Update(proc[w].row, payout[id].row, proc[w].cols)
<1>1. /\ proc[w].at = "flush" /\ payout' = [payout EXCEPT ![id].row = row]
      /\ UNCHANGED <<payment, batch, faults>>
  BY DEF FlushPayout
<1>2. /\ proc[w] \in Proc /\ Holds(proc[w], payout, batch) /\ proc[w].row \in Row
      /\ id \in Payouts /\ payout[id].row \in Row
  BY <1>1, Handler DEF Working
<1>3. /\ payout[id].row # NoRow /\ proc[w].row.status # "none" /\ Traced(id, proc[w].row, batch)
  BY <1>1, <1>2 DEF Holds, Working
<1>4. payout[id].row.status # "none" /\ Traced(id, payout[id].row, batch)
  BY <1>2, <1>3 DEF Inv, HandlersInv, RowsInv
<1>5. /\ row \in Row
      /\ row.status \in {proc[w].row.status, payout[id].row.status}
      /\ row.paypalBatchId \in {proc[w].row.paypalBatchId, payout[id].row.paypalBatchId}
  BY <1>2, RowOperators
<1> HIDE DEF row
<1>6. row.status # "none" /\ row # NoRow /\ Traced(id, row, batch)
  BY <1>3, <1>4, <1>5, NoRowIs DEF Traced
<1>7. /\ payout' \in [Payouts -> Payout] /\ payout'[id].row = row
      /\ \A y \in Payouts : y # id => payout'[y] = payout[y]
  BY <1>1, <1>2, <1>5 DEF Inv, TypeOK, Payout
<1>8. Grew(payout, batch, payout', batch')
  BY <1>1, <1>6, <1>7 DEF Grew
<1>9. Kept
  <2>1. RowsInv'
    BY <1>1, <1>6, <1>7 DEF RowsInv, Inv, HandlersInv
  <2>. QED  BY <1>1, <1>7, <1>8, <2>1 DEF Kept, Inv, TypeOK
<1>10. \E r \in Proc : Become(w, r) /\ (Holds(proc[w], payout, batch) => Holds(r, payout, batch))
  <2>1. CASE proc[w].then = "done"
    BY <2>1, IdleType, IdleHolds DEF FlushPayout, Done
  <2>2. CASE proc[w].then = "audit"
    <3> DEFINE r == [proc[w] EXCEPT !.at = "audit"]
    <3>1. Become(w, r)
      BY <2>2 DEF FlushPayout
    <3>2. /\ r \in Proc /\ r.at = "audit" /\ r.id = id /\ r.row = proc[w].row
          /\ r.todo = proc[w].todo /\ r.rows = proc[w].rows
      BY <1>2 DEF Proc, Stages
    <3> HIDE DEF r
    <3>3. Holds(proc[w], payout, batch) => Holds(r, payout, batch)
      BY <1>1, <3>2 DEF Holds, Working, Reversing
    <3>. QED  BY <3>1, <3>2, <3>3
  <2>3. CASE proc[w].then = "ask"
    <3>1. AskOn(w, proc[w].todo \ {id})
      BY <2>3 DEF FlushPayout
    <3>. QED  BY <3>1, AskOnBecomes
  <2>4. proc[w].then \in {"done", "audit", "ask"}
    BY <1>2 DEF Proc
  <2>. QED  BY <2>1, <2>2, <2>3, <2>4
<1>11. PICK r \in Proc : Become(w, r) /\ Holds(r, payout, batch)
  BY <1>2, <1>10
<1>12. Holds(r, payout', batch')
  BY <1>8, <1>11, HoldsStays
<1>. QED  BY <1>9, <1>11, <1>12, SlotKeepsInv

LEMMA RefundKeeps ==
    ASSUME Inv, NEW w \in Workers, NEW status \in {"REVERSED", "FAILED"}, RefundPayment(w, status)
    PROVE  Inv'
<1> DEFINE r == [proc[w] EXCEPT !.at = "saveReversal", !.pago.status = status]
<1>1. /\ proc[w].at = "refund" /\ Become(w, r) /\ UNCHANGED <<payment, payout, batch, faults>>
  BY DEF RefundPayment
<1>2. proc[w] \in Proc /\ Holds(proc[w], payout, batch)
  BY Handler
<1>3. /\ r \in Proc /\ r.at = "saveReversal" /\ r.p = proc[w].p
      /\ r.todo = proc[w].todo /\ r.rows = proc[w].rows
  BY <1>2 DEF Proc, Stages, Payment
<1> HIDE DEF r
<1>4. Holds(r, payout, batch)
  BY <1>1, <1>2, <1>3 DEF Holds, Working, Reversing
<1>. QED  BY <1>1, <1>3, <1>4, QuietStep DEF Inv, TypeOK

LEMMA SaveReversalKeeps ==
    ASSUME Inv, NEW w \in Workers, SaveReversal(w)
    PROVE  Inv'
<1> DEFINE cols == Diff(proc[w].pago, payment[proc[w].p])
           r == [proc[w] EXCEPT !.at = "flushReversal", !.cols = cols]
<1>1. /\ proc[w].at = "saveReversal" /\ Become(w, r) /\ UNCHANGED <<payment, payout, batch, faults>>
  BY DEF SaveReversal
<1>2. /\ proc[w] \in Proc /\ Holds(proc[w], payout, batch)
  BY Handler
<1>3. proc[w].p \in PaymentIds /\ payment[proc[w].p] \in Payment /\ proc[w].pago \in Payment
  BY <1>1, <1>2 DEF Holds, Reversing, Proc, Inv, TypeOK
<1>4. cols \in SUBSET Columns
  BY <1>3, PaymentOperators
<1> HIDE DEF cols
<1>5. /\ r \in Proc /\ r.at = "flushReversal" /\ r.p = proc[w].p
      /\ r.todo = proc[w].todo /\ r.rows = proc[w].rows
  BY <1>2, <1>4 DEF Proc, Stages
<1> HIDE DEF r
<1>6. Holds(r, payout, batch)
  BY <1>1, <1>2, <1>3, <1>5 DEF Holds, Working, Reversing
<1>. QED  BY <1>1, <1>5, <1>6, QuietStep DEF Inv, TypeOK

(* Payments alone change, to something of their type. *)
LEMMA PaymentsKept ==
    ASSUME Inv, UNCHANGED <<payout, batch, faults>>, payment' \in [PaymentIds -> Payment]
    PROVE  Kept
<1>1. Grew(payout, batch, payout', batch') /\ RowsInv'
  BY DEF Grew, Inv, HandlersInv, RowsInv
<1>. QED  BY <1>1 DEF Kept, Inv, TypeOK

LEMMA FlushReversalKeeps ==
    ASSUME Inv, NEW w \in Workers, FlushReversal(w)
    PROVE  Inv'
<1> DEFINE p == proc[w].p
           new == Update(proc[w].pago, payment[p], proc[w].cols)
<1>1. /\ proc[w].at = "flushReversal" /\ payment' = [payment EXCEPT ![p] = new]
      /\ Become(w, Idle) /\ UNCHANGED <<payout, batch, faults>>
  BY DEF FlushReversal, Done
<1>2. proc[w] \in Proc /\ Holds(proc[w], payout, batch)
  BY Handler
<1>3. p \in PaymentIds /\ payment[p] \in Payment /\ proc[w].pago \in Payment
  BY <1>1, <1>2 DEF Holds, Reversing, Proc, Inv, TypeOK
<1>4. new \in Payment
  BY <1>3, PaymentOperators
<1>5. payment' \in [PaymentIds -> Payment]
  BY <1>1, <1>4 DEF Inv, TypeOK
<1>. QED  BY <1>1, <1>5, PaymentsKept, IdleType, IdleHolds, SlotKeepsInv

-----------------------------------------------------------------------------
(* Steps of no slot. *)

LEMMA OutsideKeeps ==
    ASSUME Inv, Kept, UNCHANGED proc
    PROVE  Inv'
<1>1. ASSUME NEW v \in Workers
      PROVE  Holds(proc'[v], payout', batch')
  BY <1>1, HoldsStays DEF Kept, Inv, TypeOK, HandlersInv
<1>2. HandlersInv'
  BY <1>1 DEF Kept, HandlersInv
<1>. QED  BY <1>2 DEF Kept, Inv, TypeOK

LEMMA PaidKeeps ==
    ASSUME Inv, NEW p \in PaymentIds, PaymentPaid(p)
    PROVE  Inv'
<1>1. payment' = [payment EXCEPT ![p].status = "PAID"] /\ UNCHANGED <<payout, batch, proc, faults>>
  BY DEF PaymentPaid
<1>2. payment' \in [PaymentIds -> Payment]
  BY <1>1 DEF Inv, TypeOK, Payment
<1>. QED  BY <1>1, <1>2, PaymentsKept, OutsideKeeps

LEMMA SettleKeeps ==
    ASSUME Inv, NEW t \in Batches, NEW status \in {"SUCCESS", "FAILED"}, Settle(t, status)
    PROVE  Inv'
<1>1. /\ batch[t].status = "PENDING" /\ batch' = [batch EXCEPT ![t].status = status]
      /\ UNCHANGED <<payment, payout, proc, faults>>
  BY DEF Settle
<1>2. /\ batch' \in [Batches -> Batch] /\ batch'[t].of = batch[t].of /\ batch'[t].status = status
      /\ \A u \in Batches : u # t => batch'[u] = batch[u]
  BY <1>1 DEF Inv, TypeOK, Batch, BatchStatus
<1>3. Grew(payout, batch, payout', batch')
  BY <1>1, <1>2 DEF Grew
<1>4. ASSUME NEW y \in Payouts
      PROVE  /\ payout'[y].row.status = "none" => payout'[y].row = NoRow
             /\ Traced(y, payout'[y].row, batch')
  <2>1. payout'[y] = payout[y] /\ payout[y].row \in Row /\ Traced(y, payout[y].row, batch)
    BY <1>1 DEF Inv, TypeOK, Payout, HandlersInv, RowsInv
  <2>2. Traced(y, payout[y].row, batch')
    BY <1>3, <2>1, TracedStays
  <2>. QED  BY <2>1, <2>2 DEF Inv, HandlersInv, RowsInv
<1>5. Kept
  <2>1. RowsInv'
    BY <1>4 DEF RowsInv
  <2>. QED  BY <1>1, <1>2, <1>3, <2>1 DEF Kept, Inv, TypeOK
<1>. QED  BY <1>1, <1>5, OutsideKeeps

-----------------------------------------------------------------------------
(* Claiming: there are enough rows, so that each driver gets one of its own. *)

LEMMA OneEach ==
    ASSUME NEW S, NEW T, IsFiniteSet(S), IsFiniteSet(T), Cardinality(T) >= Cardinality(S)
    PROVE  \E f \in [S -> T] : IsInjective(f)
<1> DEFINE m == Cardinality(S)
           n == Cardinality(T)
<1>1. m \in Nat /\ n \in Nat /\ ExistsBijection(1..m, S) /\ ExistsBijection(1..n, T)
  BY FS_CardinalityType
<1>2. ExistsBijection(S, 1..m)
  BY <1>1, Fun_ExistsBijSymmetric
<1>3. PICK f \in [S -> 1..m] : \A a, b \in S : f[a] = f[b] => a = b
  BY <1>2, Fun_ExistsBij DEF Bijection, Injection, IsInjective
<1>4. PICK g \in [1..n -> T] : \A a, b \in 1..n : g[a] = g[b] => a = b
  BY <1>1, Fun_ExistsBij, ZenonT(60) DEF Bijection, Injection, IsInjective
<1> DEFINE h == [s \in S |-> g[f[s]]]
<1>5. \A s \in S : f[s] \in 1..n
  BY <1>1, <1>3
<1>6. h \in [S -> T]
  BY <1>4, <1>5
<1>7. \A a, b \in S : h[a] = h[b] => a = b
  BY <1>3, <1>4, <1>5
<1>. QED  BY <1>6, <1>7 DEF IsInjective

(* What a claim does: to the rows it takes, and to the payments it was made for. *)
Paid(groups) == {d \in Drivers : groups[d] # {}}

Claimed(groups, new) ==
    /\ new \in [Paid(groups) -> Payouts]
    /\ \A d, e \in Paid(groups) : new[d] = new[e] => d = e
    /\ \A d \in Paid(groups) :
          /\ payout[new[d]].row = NoRow
          /\ payout'[new[d]] = [row |-> [NoRow EXCEPT !.status = "PENDING"],
                                driver |-> d, amount |-> Total(groups[d])]
    /\ \A id \in Payouts : (\A d \in Paid(groups) : new[d] # id) => payout'[id] = payout[id]
    /\ \A p \in PaymentIds :
          payment'[p] = IF p \in groups[Fares[p].driver]
                        THEN [payment[p] EXCEPT !.payoutId = new[Fares[p].driver]]
                        ELSE payment[p]

LEMMA FareDriver == \A p \in PaymentIds : Fares[p].driver \in Drivers
<1> DEFINE Fare == [driver : Drivers, amount : Nat \ {0}, period : Periods]
<1>1. Fares \in Seq(Fare)
  BY PayoutAssumption
<1>2. \A f \in Fare : f.driver \in Drivers
  OBVIOUS
<1> HIDE DEF Fare
<1>3. \A p \in PaymentIds : Fares[p] \in Fare
  BY <1>1 DEF PaymentIds
<1>. QED  BY <1>2, <1>3

LEMMA ClaimIs ==
    ASSUME TypeOK, NEW w \in Workers, ClaimPayments(w)
    PROVE  /\ \E new : Claimed(proc[w].groups, new)
           /\ payout' = [id \in Payouts |-> payout'[id]] /\ payment' = [p \in PaymentIds |-> payment'[p]]
           /\ Become(w, Idle) /\ UNCHANGED <<batch, faults>> /\ proc[w].at = "claim"
<1> DEFINE groups == proc[w].groups
           paid == Paid(groups)
           free == {id \in Payouts : payout[id].row = NoRow}
           new == CHOOSE f \in [paid -> free] : IsInjective(f)
<1>1. IsFiniteSet(paid) /\ IsFiniteSet(free)
  BY PayoutAssumption, FS_Subset DEF Paid
<1>2. Cardinality(free) >= Cardinality(paid)
  BY DEF ClaimPayments, Paid
<1>3. new \in [paid -> free] /\ IsInjective(new)
  <2>1. \E f \in [paid -> free] : IsInjective(f)
    BY <1>1, <1>2, OneEach
  <2>. QED  BY <2>1
<1>4. payout' = [id \in Payouts |->
                IF \E d \in paid : new[d] = id
                THEN LET d == CHOOSE d \in paid : new[d] = id
                     IN  [row |-> [NoRow EXCEPT !.status = "PENDING"],
                          driver |-> d, amount |-> Total(groups[d])]
                ELSE payout[id]]
  BY DEF ClaimPayments, Paid
<1>5. payment' = [p \in PaymentIds |->
                IF p \in groups[Fares[p].driver]
                THEN [payment[p] EXCEPT !.payoutId = new[Fares[p].driver]]
                ELSE payment[p]]
  BY DEF ClaimPayments, Paid
<1>6. Become(w, Idle) /\ UNCHANGED <<batch, faults>> /\ proc[w].at = "claim"
  BY DEF ClaimPayments, Done
<1> HIDE DEF new
<1>7. \A d, e \in paid : new[d] = new[e] => d = e
  BY <1>3 DEF IsInjective
<1>8. ASSUME NEW d \in paid
      PROVE  /\ new[d] \in Payouts /\ payout[new[d]].row = NoRow
             /\ payout'[new[d]] = [row |-> [NoRow EXCEPT !.status = "PENDING"],
                                   driver |-> d, amount |-> Total(groups[d])]
  <2>1. new[d] \in Payouts /\ payout[new[d]].row = NoRow
    BY <1>3
  <2>2. (CHOOSE e \in paid : new[e] = new[d]) = d
    BY <1>7
  <2>. QED  BY <1>4, <2>1, <2>2
<1>9. \A id \in Payouts : (\A d \in paid : new[d] # id) => payout'[id] = payout[id]
  BY <1>4
<1>10. Claimed(groups, new)
  <2> HIDE DEF paid, free
  <2>1. paid = Paid(groups)
    BY DEF paid
  <2>2. new \in [paid -> Payouts]
    BY <1>3 DEF free
  <2>. QED  BY <1>5, <1>7, <1>8, <1>9, <2>1, <2>2 DEF Claimed
<1>. QED  BY <1>4, <1>5, <1>6, <1>10

(* The row of a payout as it is made. *)
LEMMA NewRowIs ==
    LET row == [NoRow EXCEPT !.status = "PENDING"]
    IN  /\ row \in Row /\ row # NoRow /\ row.status = "PENDING" /\ row.paypalBatchId = NoBatch
  BY DEF NoRow, Row

LEMMA ClaimKeeps ==
    ASSUME Inv, NEW w \in Workers, ClaimPayments(w)
    PROVE  Inv'
<1> DEFINE groups == proc[w].groups
           row == [NoRow EXCEPT !.status = "PENDING"]
<1>1. PICK new : Claimed(groups, new)
  BY ClaimIs DEF Inv
<1>2. /\ payout' = [id \in Payouts |-> payout'[id]] /\ payment' = [p \in PaymentIds |-> payment'[p]]
      /\ Become(w, Idle) /\ UNCHANGED <<batch, faults>>
  BY ClaimIs DEF Inv
<1>3. groups \in [Drivers -> SUBSET PaymentIds]
  BY Handler DEF Proc
<1> HIDE DEF groups
<1>4. row \in Row /\ row # NoRow /\ row.status = "PENDING" /\ row.paypalBatchId = NoBatch
  BY NewRowIs
<1>5. \A d \in Paid(groups) : d \in Drivers /\ new[d] \in Payouts /\ Total(groups[d]) \in Nat
  BY <1>1, <1>3, TotalIsNat DEF Claimed, Paid
<1>6. ASSUME NEW id \in Payouts
      PROVE  \/ payout'[id] = payout[id]
             \/ /\ payout[id].row = NoRow /\ payout'[id].row = row /\ payout'[id] \in Payout
  <2>1. CASE \A d \in Paid(groups) : new[d] # id
    BY <1>1, <2>1 DEF Claimed
  <2>2. CASE \E d \in Paid(groups) : new[d] = id
    <3>1. PICK d \in Paid(groups) : new[d] = id
      BY <2>2
    <3>2. /\ payout[id].row = NoRow
          /\ payout'[id] = [row |-> row, driver |-> d, amount |-> Total(groups[d])]
      BY <1>1, <3>1 DEF Claimed
    <3>. QED  BY <1>4, <1>5, <3>2 DEF Payout
  <2>. QED  BY <2>1, <2>2
<1> HIDE DEF row
<1>7. payout' \in [Payouts -> Payout]
  <2>1. \A id \in Payouts : payout'[id] \in Payout
    BY <1>6 DEF Inv, TypeOK
  <2>. QED  BY <1>2, <2>1
<1>8. payment' \in [PaymentIds -> Payment]
  <2>1. ASSUME NEW p \in PaymentIds
        PROVE  payment'[p] \in Payment
    <3>1. payment[p] \in Payment /\ Fares[p].driver \in Drivers
      BY FareDriver DEF Inv, TypeOK
    <3>2. CASE p \in groups[Fares[p].driver]
      <4>1. Fares[p].driver \in Paid(groups)
        BY <3>1, <3>2 DEF Paid
      <4>2. new[Fares[p].driver] \in Payouts
        BY <1>5, <4>1
      <4>. QED  BY <1>1, <3>1, <3>2, <4>2 DEF Claimed, Payment
    <3>3. CASE p \notin groups[Fares[p].driver]
      BY <1>1, <3>1, <3>3 DEF Claimed
    <3>. QED  BY <3>2, <3>3
  <2>. QED  BY <1>2, <2>1
<1>9. Grew(payout, batch, payout', batch')
  BY <1>2, <1>4, <1>6 DEF Grew
<1>10. ASSUME NEW y \in Payouts
       PROVE  /\ payout'[y].row.status = "none" => payout'[y].row = NoRow
              /\ Traced(y, payout'[y].row, batch')
  <2>1. CASE payout'[y] = payout[y]
    BY <1>2, <2>1 DEF Inv, HandlersInv, RowsInv
  <2>2. CASE payout'[y].row = row
    BY <1>4, <2>2 DEF Traced
  <2>. QED  BY <1>6, <2>1, <2>2
<1>11. Kept
  <2>1. RowsInv'
    BY <1>10 DEF RowsInv
  <2>. QED  BY <1>2, <1>7, <1>8, <1>9, <2>1 DEF Kept, Inv, TypeOK
<1>. QED  BY <1>2, <1>11, IdleType, IdleHolds, SlotKeepsInv

-----------------------------------------------------------------------------
(* The invariant, and what follows from it. *)

LEMMA InitInv == Init => Inv
<1> SUFFICES ASSUME Init
             PROVE  Inv
  OBVIOUS
<1>1. TypeOK
  <2>1. NewPayment \in Payment
    BY DEF NewPayment, Payment
  <2>2. AnyDriver \in Drivers
    BY PayoutAssumption DEF AnyDriver
  <2>3. [row |-> NoRow, driver |-> AnyDriver, amount |-> 0] \in Payout
    BY <2>2, NoRowIs DEF Payout
  <2>4. [of |-> NoPayout, status |-> "none"] \in Batch
    BY DEF Batch
  <2>. QED  BY <2>1, <2>3, <2>4, IdleType, PayoutAssumption DEF Init, TypeOK
<1>2. HandlersInv
  <2>1. RowsInv
    BY NoRowIs DEF Init, RowsInv, Traced
  <2>. QED  BY <2>1, IdleHolds DEF Init, HandlersInv
<1>. QED  BY <1>1, <1>2 DEF Inv

LEMMA NextKeepsInv == Inv /\ [Next]_vars => Inv'
<1> SUFFICES ASSUME Inv, [Next]_vars
             PROVE  Inv'
  OBVIOUS
<1>1. ASSUME NEW w \in Workers, Calls(w)
      PROVE  Inv'
  BY <1>1, RequestKeeps, GenerateKeeps, ExecuteKeeps, FailPayoutKeeps, ReverseKeeps DEF Calls
<1>2. ASSUME NEW w \in Workers, Continue(w)
      PROVE  Inv'
  BY <1>2, ClaimKeeps, PaypalRefusesKeeps, BackToIdleKeeps, SaveKeeps, FlushKeeps,
     SaveReversalKeeps, FlushReversalKeeps, PaypalPaysKeeps, AskKeeps, RefundKeeps DEF Continue
<1>3. ASSUME NEW w \in Workers,
             \/ SyncPaypalPayouts(w) \/ ExecutionThrows(w) \/ Fail(w)
             \/ \E id \in Payouts : PaypalIsSilent(w, id)
      PROVE  Inv'
  BY <1>3, SyncKeeps, ThrowsKeeps, BackToIdleKeeps, SilentKeeps
<1>4. CASE \E p \in PaymentIds : PaymentPaid(p)
  BY <1>4, PaidKeeps
<1>5. CASE Settles
  BY <1>5, SettleKeeps DEF Settles
<1>6. CASE UNCHANGED vars
  <2>1. Kept /\ UNCHANGED proc
    BY <1>6, PaymentsKept DEF vars, Inv, TypeOK
  <2>. QED  BY <2>1, OutsideKeeps
<1>. QED  BY <1>1, <1>2, <1>3, <1>4, <1>5, <1>6 DEF Next

(* Every batch id that a payout, or a handler's copy of one, carries is of a  *)
(* batch that PayPal has for that payout, and every PAID has a batch behind   *)
(* it: saves by column, lost answers and repeated executions included.        *)
THEOREM PayoutsInvariant == Spec => []Inv
  BY InitInv, NextKeepsInv, PTL DEF Spec

(* The rows, the copies that handlers and the job hold, and PayPal's batches *)
(* stay in their types; the sums that payouts are made for are numbers.      *)
THEOREM TypeCorrect == Spec => []TypeOK
<1>1. Inv => TypeOK
  BY DEF Inv
<1>. QED  BY <1>1, PayoutsInvariant, PTL

(* A payout that executePaypalPayout or the job marks PAID is one that PayPal *)
(* has worked off a batch for, whatever saves came in between.                *)
THEOREM PaidOnlyWhenSent == Spec => []PaidWasSent
<1>1. Inv => PaidWasSent
  BY DEF Inv, HandlersInv, RowsInv, Traced, Sent, PaidWasSent
<1>. QED  BY <1>1, PayoutsInvariant, PTL

-----------------------------------------------------------------------------
(* Steps that claim nothing: every payment keeps its payout, every payout its *)
(* amount.                                                                    *)

Unclaiming ==
    /\ \A p \in PaymentIds : payment'[p].payoutId = payment[p].payoutId
    /\ \A id \in Payouts : /\ payout'[id].amount = payout[id].amount
                           /\ payout'[id].row = NoRow <=> payout[id].row = NoRow

LEMMA ClaimsStay ==
    ASSUME Inv, Unclaiming, NEW w \in Workers, Claims(proc[w], payment)
    PROVE  Claims(proc[w], payment')
<1>1. proc[w] \in Proc /\ (proc[w].at \in Reversing => proc[w].p \in PaymentIds)
  BY Handler DEF Holds
<1>2. \A d \in Drivers : proc[w].groups[d] \subseteq PaymentIds
  BY <1>1 DEF Proc
<1>. QED  BY <1>1, <1>2 DEF Claims, Unclaiming

LEMMA BackingStays ==
    ASSUME ClaimsInv, Unclaiming
    PROVE  /\ \A id \in Payouts : payout'[id].row = NoRow => Backing(id)' = {}
           /\ PayoutsAreBacked'
<1>1. \A id : Backing(id)' = Backing(id)
  BY DEF Backing, Unclaiming
<1>2. \A id \in Payouts : payout'[id].row = NoRow => Backing(id)' = {}
  BY <1>1 DEF ClaimsInv, Unclaiming
<1>3. ASSUME NEW id \in Payouts, payout'[id].row # NoRow
      PROVE  payout'[id].amount = Total(Backing(id)')
  <2>1. payout[id].row # NoRow /\ payout'[id].amount = payout[id].amount
    BY <1>3 DEF Unclaiming
  <2>2. payout[id].amount = Total(Backing(id))
    BY <2>1 DEF ClaimsInv, PayoutsAreBacked, Backing
  <2>. QED  BY <1>1, <2>1, <2>2
<1>4. PayoutsAreBacked'
  BY <1>3 DEF PayoutsAreBacked, Backing
<1>. QED  BY <1>2, <1>4

LEMMA UnclaimingSlot ==
    ASSUME Inv, ClaimsInv, Unclaiming, NEW w \in Workers, NEW r, Become(w, r),
           Claims(r, payment'), Claiming(r) => Claimer(w)
    PROVE  ClaimsInv'
<1>1. proc'[w] = r /\ \A v \in Workers : v # w => proc'[v] = proc[v]
  BY DEF Become, Inv, TypeOK
<1>2. ASSUME NEW v \in Workers
      PROVE  Claims(proc'[v], payment') /\ (Claiming(proc'[v]) => Claimer(v))
  <2>1. CASE v = w
    BY <1>1, <2>1
  <2>2. CASE v # w
    <3>1. proc'[v] = proc[v] /\ Claims(proc[v], payment) /\ (Claiming(proc[v]) => Claimer(v))
      BY <1>1, <2>2 DEF ClaimsInv
    <3>. QED  BY <3>1, ClaimsStay
  <2>. QED  BY <2>1, <2>2
<1>. QED  BY <1>2, BackingStays DEF ClaimsInv

LEMMA UnclaimingOutside ==
    ASSUME Inv, ClaimsInv, Unclaiming, UNCHANGED proc
    PROVE  ClaimsInv'
<1>1. ASSUME NEW v \in Workers
      PROVE  Claims(proc'[v], payment') /\ (Claiming(proc'[v]) => Claimer(v))
  <2>1. proc'[v] = proc[v] /\ Claims(proc[v], payment) /\ (Claiming(proc[v]) => Claimer(v))
    BY DEF ClaimsInv
  <2>. QED  BY <2>1, ClaimsStay
<1>. QED  BY <1>1, BackingStays DEF ClaimsInv

(* A slot that goes on with anything but a claim or a reversal. *)
LEMMA Aside ==
    ASSUME NEW r, r.at \in {"idle", "send", "ask", "save", "flush", "audit"}
    PROVE  ~Claiming(r) /\ \A pay : Claims(r, pay)
  BY DEF Claiming, Claims, Reversing

LEMMA QuietClaims ==
    ASSUME Inv, ClaimsInv, NEW w \in Workers, NEW r, Become(w, r), UNCHANGED <<payment, payout>>,
           Claims(r, payment), Claiming(r) => Claimer(w)
    PROVE  ClaimsInv'
<1>1. Unclaiming /\ payment' = payment
  BY DEF Unclaiming
<1>. QED  BY <1>1, UnclaimingSlot

LEMMA IdleAside == \A pay : ~Claiming(Idle) /\ Claims(Idle, pay)
  BY IdleType, Aside

LEMMA SavingAside ==
    ASSUME NEW record \in Proc, NEW row, NEW then, NEW id
    PROVE  /\ Saving(record, row, then).at = "save"
           /\ [Saving(record, row, then) EXCEPT !.id = id].at = "save"
  BY DEF Saving, Proc

LEMMA AskOnAside ==
    ASSUME Inv, NEW w \in Workers, NEW left, AskOn(w, left)
    PROVE  \E r : Become(w, r) /\ r.at \in {"idle", "ask"}
<1>1. CASE left = {}
  BY <1>1, IdleType DEF AskOn, Done
<1>2. CASE left # {}
  <2>1. Become(w, [proc[w] EXCEPT !.at = "ask", !.todo = left])
    BY <1>2 DEF AskOn
  <2>2. [proc[w] EXCEPT !.at = "ask", !.todo = left].at = "ask"
    BY Handler DEF Proc
  <2>. QED  BY <2>1, <2>2
<1>. QED  BY <1>1, <1>2

LEMMA AsideKeeps ==
    ASSUME Inv, ClaimsInv, NEW w \in Workers, UNCHANGED <<payment, payout>>,
           \E r : Become(w, r) /\ r.at \in {"idle", "send", "ask", "save", "flush", "audit"}
    PROVE  ClaimsInv'
<1>1. PICK r : Become(w, r) /\ r.at \in {"idle", "send", "ask", "save", "flush", "audit"}
  OBVIOUS
<1>2. ~Claiming(r) /\ Claims(r, payment)
  BY <1>1, Aside
<1>. QED  BY <1>1, <1>2, QuietClaims

LEMMA CallsAside ==
    ASSUME Inv, ClaimsInv, NEW w \in Workers,
           \/ \E id \in Payouts : ExecutePaypalPayout(w, id) \/ FailPayout(w, id)
           \/ SyncPaypalPayouts(w)
    PROVE  ClaimsInv'
<1>1. ASSUME NEW id \in Payouts, ExecutePaypalPayout(w, id)
      PROVE  ClaimsInv'
  <2> DEFINE r == [Idle EXCEPT !.op = "executePaypalPayout", !.at = "send",
                               !.id = id, !.row = payout[id].row]
  <2>1. Become(w, r) /\ UNCHANGED <<payment, payout>>
    BY <1>1 DEF ExecutePaypalPayout
  <2>2. r.at = "send"
    BY IdleType DEF Proc
  <2>. QED  BY <2>1, <2>2, AsideKeeps
<1>2. ASSUME NEW id \in Payouts, FailPayout(w, id)
      PROVE  ClaimsInv'
  <2> DEFINE called == [Idle EXCEPT !.op = "failPayout", !.id = id]
             r == Saving(called, FailedRow(payout[id].row), "done")
  <2>1. Become(w, r) /\ UNCHANGED <<payment, payout>>
    BY <1>2 DEF FailPayout
  <2>2. called \in Proc
    BY IdleType DEF Proc, Ops
  <2>3. r.at = "save"
    BY <2>2, SavingAside
  <2>. QED  BY <2>1, <2>3, AsideKeeps
<1>3. CASE SyncPaypalPayouts(w)
  <2>1. PICK waiting, read :
            /\ UNCHANGED <<payment, payout>>
            /\ Become(w, [Idle EXCEPT !.op = "syncPaypalPayouts", !.at = "ask", !.todo = waiting, !.rows = read])
    BY <1>3 DEF SyncPaypalPayouts
  <2>2. [Idle EXCEPT !.op = "syncPaypalPayouts", !.at = "ask", !.todo = waiting, !.rows = read].at = "ask"
    BY IdleType DEF Proc
  <2>. QED  BY <2>1, <2>2, AsideKeeps
<1>. QED  BY <1>1, <1>2, <1>3

LEMMA ContinuesAside ==
    ASSUME Inv, ClaimsInv, NEW w \in Workers,
           \/ PaypalRefuses(w) \/ AuditPayout(w) \/ SavePayout(w) \/ ExecutionThrows(w) \/ Fail(w)
           \/ \E t \in Batches, status \in Answers : PaypalPays(w, t, status)
           \/ \E id \in Payouts : AskPaypal(w, id) \/ PaypalIsSilent(w, id)
    PROVE  ClaimsInv'
<1> proc[w] \in Proc
  BY Handler
<1>1. CASE PaypalRefuses(w) \/ ExecutionThrows(w)
  <2>1. /\ Become(w, Saving(proc[w], FailedRow(proc[w].row), "done"))
        /\ UNCHANGED <<payment, payout>>
    BY <1>1 DEF PaypalRefuses, ExecutionThrows
  <2>. QED  BY <2>1, SavingAside, AsideKeeps
<1>2. CASE AuditPayout(w) \/ Fail(w)
  <2>1. Become(w, Idle) /\ UNCHANGED <<payment, payout>>
    BY <1>2 DEF AuditPayout, Fail, Done
  <2>. QED  BY <2>1, IdleType, AsideKeeps
<1>3. CASE SavePayout(w)
  <2>1. PICK cols : Become(w, [proc[w] EXCEPT !.at = "flush", !.cols = cols]) /\ UNCHANGED <<payment, payout>>
    BY <1>3 DEF SavePayout
  <2>2. [proc[w] EXCEPT !.at = "flush", !.cols = cols].at = "flush"
    BY DEF Proc
  <2>. QED  BY <2>1, <2>2, AsideKeeps
<1>4. ASSUME NEW t \in Batches, NEW status \in Answers, PaypalPays(w, t, status)
      PROVE  ClaimsInv'
  <2>1. PICK row : Become(w, Saving(proc[w], row, "audit")) /\ UNCHANGED <<payment, payout>>
    BY <1>4 DEF PaypalPays
  <2>. QED  BY <2>1, SavingAside, AsideKeeps
<1>5. ASSUME NEW id \in Payouts, AskPaypal(w, id)
      PROVE  ClaimsInv'
  <2>1. PICK row : /\ UNCHANGED <<payment, payout>>
                   /\ \/ Become(w, [Saving(proc[w], row, "ask") EXCEPT !.id = id])
                      \/ AskOn(w, proc[w].todo \ {id})
    BY <1>5 DEF AskPaypal
  <2>2. [Saving(proc[w], row, "ask") EXCEPT !.id = id].at = "save"
    BY SavingAside
  <2>3. \E r : Become(w, r) /\ r.at \in {"idle", "save", "ask"}
    BY <2>1, <2>2, AskOnAside
  <2>. QED  BY <2>1, <2>3, AsideKeeps
<1>6. ASSUME NEW id \in Payouts, PaypalIsSilent(w, id)
      PROVE  ClaimsInv'
  <2>1. PICK row : /\ UNCHANGED <<payment, payout>>
                   /\ Become(w, [Saving(proc[w], row, "ask") EXCEPT !.id = id])
    BY <1>6 DEF PaypalIsSilent
  <2>2. [Saving(proc[w], row, "ask") EXCEPT !.id = id].at = "save"
    BY SavingAside
  <2>. QED  BY <2>1, <2>2, AsideKeeps
<1>. QED  BY <1>1, <1>2, <1>3, <1>4, <1>5, <1>6

LEMMA FlushUnclaiming ==
    ASSUME Inv, NEW w \in Workers, FlushPayout(w)
    PROVE  Unclaiming
<1> DEFINE id == proc[w].id
           row == Update(proc[w].row, payout[id].row, proc[w].cols)
<1>1. proc[w].at = "flush" /\ payout' = [payout EXCEPT ![id].row = row] /\ UNCHANGED payment
  BY DEF FlushPayout
<1>2. /\ Holds(proc[w], payout, batch) /\ proc[w].row \in Row
      /\ id \in Payouts /\ payout[id].row \in Row
  BY <1>1, Handler DEF Working
<1>3. payout[id].row # NoRow /\ proc[w].row.status # "none"
  BY <1>1, <1>2 DEF Holds, Working
<1>4. payout[id].row.status # "none"
  BY <1>2, <1>3 DEF Inv, HandlersInv, RowsInv
<1>5. row.status \in {proc[w].row.status, payout[id].row.status}
  BY <1>2, RowOperators
<1> HIDE DEF row
<1>6. row # NoRow
  BY <1>3, <1>4, <1>5, NoRowIs
<1>7. /\ payout'[id].row = row /\ payout'[id].amount = payout[id].amount
      /\ \A y \in Payouts : y # id => payout'[y] = payout[y]
  BY <1>1, <1>2 DEF Inv, TypeOK, Payout
<1>. QED  BY <1>1, <1>3, <1>6, <1>7 DEF Unclaiming

LEMMA FlushKeepsClaims ==
    ASSUME Inv, ClaimsInv, NEW w \in Workers, FlushPayout(w)
    PROVE  ClaimsInv'
<1>1. \E r : Become(w, r) /\ r.at \in {"idle", "audit", "ask"}
  <2>1. CASE proc[w].then = "done"
    BY <2>1, IdleType DEF FlushPayout, Done
  <2>2. CASE proc[w].then = "audit"
    <3>1. Become(w, [proc[w] EXCEPT !.at = "audit"])
      BY <2>2 DEF FlushPayout
    <3>2. [proc[w] EXCEPT !.at = "audit"].at = "audit"
      BY Handler DEF Proc
    <3>. QED  BY <3>1, <3>2
  <2>3. CASE proc[w].then = "ask"
    <3>1. AskOn(w, proc[w].todo \ {proc[w].id})
      BY <2>3 DEF FlushPayout
    <3>. QED  BY <3>1, AskOnAside
  <2>4. proc[w].then \in {"done", "audit", "ask"}
    BY Handler DEF Proc
  <2>. QED  BY <2>1, <2>2, <2>3, <2>4
<1>2. PICK r : Become(w, r) /\ r.at \in {"idle", "audit", "ask"}
  BY <1>1
<1>3. ~Claiming(r) /\ Claims(r, payment')
  BY <1>2, Aside
<1>. QED  BY <1>2, <1>3, FlushUnclaiming, UnclaimingSlot

-----------------------------------------------------------------------------
(* Steps towards a claim, and reversals. *)

LEMMA RequestClaims ==
    ASSUME Inv, ClaimsInv, NEW w \in Workers, NEW d \in Drivers, NEW amount, RequestPayout(w, d, amount)
    PROVE  ClaimsInv'
<1> DEFINE selected == Selection(d, amount)
           r == [Idle EXCEPT !.op = "requestPayout", !.at = "claim", !.groups[d] = selected]
<1>1. Become(w, r) /\ UNCHANGED <<payment, payout>> /\ "requestPayout" \in Offers[w]
  BY DEF RequestPayout, Called
<1>2. \A q \in selected : payment[q].payoutId = NoPayout /\ Fares[q].driver = d
  BY SelectionType DEF PaymentOf, Available
<1> HIDE DEF selected
<1>3. r.at = "claim" /\ \A e \in Drivers : r.groups[e] = IF e = d THEN selected ELSE {}
  BY DEF Idle
<1> HIDE DEF r
<1>4. Claims(r, payment) /\ Claimer(w)
  BY <1>1, <1>2, <1>3 DEF Claims, Reversing, Claimer, Claimers
<1>. QED  BY <1>1, <1>4, QuietClaims

LEMMA GenerateClaims ==
    ASSUME Inv, ClaimsInv, NEW w \in Workers, NEW period, GeneratePayouts(w, period)
    PROVE  ClaimsInv'
<1> DEFINE group == [d \in Drivers |->
                {p \in PaymentIds : Available(p) /\ Fares[p].driver = d /\ Fares[p].period = period}]
           r == [Idle EXCEPT !.op = "generatePayouts", !.at = "claim", !.groups = group]
<1>1. Become(w, r) /\ UNCHANGED <<payment, payout>> /\ "generatePayouts" \in Offers[w]
  BY DEF GeneratePayouts, Called
<1>2. \A d \in Drivers : \A q \in group[d] : payment[q].payoutId = NoPayout /\ Fares[q].driver = d
  BY DEF Available
<1> HIDE DEF group
<1>3. r.at = "claim" /\ r.groups = group
  BY DEF Idle
<1> HIDE DEF r
<1>4. Claims(r, payment) /\ Claimer(w)
  BY <1>1, <1>2, <1>3 DEF Claims, Reversing, Claimer, Claimers
<1>. QED  BY <1>1, <1>4, QuietClaims

LEMMA ReverseClaims ==
    ASSUME Inv, ClaimsInv, NEW w \in Workers, NEW p \in PaymentIds, ReversePayment(w, p)
    PROVE  ClaimsInv'
<1> DEFINE r == [Idle EXCEPT !.op = "reversePayment", !.at = "refund", !.p = p, !.pago = payment[p]]
<1>1. Become(w, r) /\ UNCHANGED <<payment, payout>> /\ "reversePayment" \in Offers[w]
  BY DEF ReversePayment, Called
<1>2. r.at = "refund" /\ r.p = p /\ r.pago = payment[p]
  BY DEF Idle
<1> HIDE DEF r
<1>3. Claims(r, payment) /\ Claimer(w)
  BY <1>1, <1>2 DEF Claims, Reversing, Claimer, Claimers
<1>. QED  BY <1>1, <1>3, QuietClaims

LEMMA RefundClaims ==
    ASSUME Inv, ClaimsInv, NEW w \in Workers, NEW status, RefundPayment(w, status)
    PROVE  ClaimsInv'
<1> DEFINE r == [proc[w] EXCEPT !.at = "saveReversal", !.pago.status = status]
<1>1. proc[w].at = "refund" /\ Become(w, r) /\ UNCHANGED <<payment, payout>>
  BY DEF RefundPayment
<1>2. Claims(proc[w], payment) /\ Claimer(w)
  BY <1>1 DEF ClaimsInv, Claiming, Reversing
<1>3. r.at = "saveReversal" /\ r.p = proc[w].p /\ r.pago.payoutId = proc[w].pago.payoutId
  BY Handler DEF Proc, Payment
<1> HIDE DEF r
<1>4. Claims(r, payment)
  BY <1>1, <1>2, <1>3 DEF Claims, Reversing
<1>. QED  BY <1>1, <1>2, <1>4, QuietClaims

LEMMA SaveReversalClaims ==
    ASSUME Inv, ClaimsInv, NEW w \in Workers, SaveReversal(w)
    PROVE  ClaimsInv'
<1> DEFINE cols == Diff(proc[w].pago, payment[proc[w].p])
           r == [proc[w] EXCEPT !.at = "flushReversal", !.cols = cols]
<1>1. proc[w].at = "saveReversal" /\ Become(w, r) /\ UNCHANGED <<payment, payout>>
  BY DEF SaveReversal
<1>2. Claims(proc[w], payment) /\ Claimer(w)
  BY <1>1 DEF ClaimsInv, Claiming, Reversing
<1>3. proc[w].p \in PaymentIds /\ payment[proc[w].p] \in Payment /\ proc[w].pago \in Payment
  BY <1>1, Handler DEF Holds, Reversing, Proc, Inv, TypeOK
<1>4. proc[w].pago.payoutId = payment[proc[w].p].payoutId
  BY <1>1, <1>2 DEF Claims, Reversing
<1>5. "payoutId" \notin cols
  BY <1>3, <1>4, PaymentOperators
<1> HIDE DEF cols
<1>6. r.at = "flushReversal" /\ r.p = proc[w].p /\ r.pago = proc[w].pago /\ r.cols = cols
  BY Handler DEF Proc
<1> HIDE DEF r
<1>7. Claims(r, payment)
  BY <1>4, <1>5, <1>6 DEF Claims
<1>. QED  BY <1>1, <1>2, <1>7, QuietClaims

LEMMA FlushReversalUnclaiming ==
    ASSUME Inv, ClaimsInv, NEW w \in Workers, FlushReversal(w)
    PROVE  Unclaiming
<1> DEFINE p == proc[w].p
           new == Update(proc[w].pago, payment[p], proc[w].cols)
<1>1. /\ proc[w].at = "flushReversal" /\ payment' = [payment EXCEPT ![p] = new] /\ UNCHANGED payout
  BY DEF FlushReversal
<1>2. p \in PaymentIds /\ payment[p] \in Payment /\ proc[w].pago \in Payment
  BY <1>1, Handler DEF Holds, Reversing, Proc, Inv, TypeOK
<1>3. "payoutId" \notin proc[w].cols
  BY <1>1 DEF ClaimsInv, Claims
<1>4. new.payoutId = payment[p].payoutId
  BY <1>2, <1>3, PaymentOperators
<1> HIDE DEF new
<1>5. \A q \in PaymentIds : payment'[q] = IF q = p THEN new ELSE payment[q]
  BY <1>1 DEF Inv, TypeOK
<1>. QED  BY <1>1, <1>4, <1>5 DEF Unclaiming

LEMMA FlushReversalClaims ==
    ASSUME Inv, ClaimsInv, NEW w \in Workers, FlushReversal(w)
    PROVE  ClaimsInv'
<1>1. Become(w, Idle)
  BY DEF FlushReversal, Done
<1>. QED  BY <1>1, FlushReversalUnclaiming, IdleAside, UnclaimingSlot

LEMMA PaidUnclaiming ==
    ASSUME Inv, NEW p \in PaymentIds, PaymentPaid(p)
    PROVE  Unclaiming /\ UNCHANGED proc
<1>1. payment' = [payment EXCEPT ![p].status = "PAID"] /\ UNCHANGED <<payout, proc>>
  BY DEF PaymentPaid
<1>2. \A q \in PaymentIds : payment'[q].payoutId = payment[q].payoutId
  BY <1>1 DEF Inv, TypeOK, Payment
<1>. QED  BY <1>1, <1>2 DEF Unclaiming

-----------------------------------------------------------------------------
(* The claim itself: the payments of a driver's group are those, and no       *)
(* others, that carry the id of the payout it is given.                       *)

LEMMA ClaimedBacking ==
    ASSUME Inv, ClaimsInv, NEW w \in Workers, proc[w].at = "claim",
           NEW new, Claimed(proc[w].groups, new)
    PROVE  /\ \A d \in Paid(proc[w].groups) : Backing(new[d])' = proc[w].groups[d]
           /\ \A id \in Payouts : (\A d \in Paid(proc[w].groups) : new[d] # id) =>
                  Backing(id)' = Backing(id)
<1> DEFINE groups == proc[w].groups
<1>0. groups \in [Drivers -> SUBSET PaymentIds]
  BY Handler DEF Proc
<1>1. \A d \in Drivers : \A q \in groups[d] : payment[q].payoutId = NoPayout /\ Fares[q].driver = d
  BY DEF ClaimsInv, Claims
<1> HIDE DEF groups
<1>2. Claimed(groups, new)
  BY DEF groups
<1>3. \A q \in PaymentIds : q \in groups[Fares[q].driver] => Fares[q].driver \in Paid(groups)
  BY FareDriver DEF Paid
<1>4. ASSUME NEW q \in PaymentIds
      PROVE  payment'[q].payoutId =
                IF q \in groups[Fares[q].driver] THEN new[Fares[q].driver] ELSE payment[q].payoutId
  <2>1. payment[q] \in Payment
    BY DEF Inv, TypeOK
  <2>. QED  BY <1>2, <2>1 DEF Claimed, Payment
<1>5. ASSUME NEW d \in Paid(groups)
      PROVE  Backing(new[d])' = groups[d]
  <2>1. d \in Drivers /\ new[d] \in Payouts /\ payout[new[d]].row = NoRow
    BY <1>2 DEF Paid, Claimed
  <2>2. Backing(new[d]) = {}
    BY <2>1 DEF ClaimsInv
  <2>3. ASSUME NEW q \in PaymentIds
        PROVE  payment'[q].payoutId = new[d] <=> q \in groups[d]
    <3>1. payment[q].payoutId # new[d]
      BY <2>2 DEF Backing
    <3>2. CASE q \in groups[Fares[q].driver]
      <4>1. new[Fares[q].driver] = new[d] <=> Fares[q].driver = d
        BY <1>2, <1>3, <3>2 DEF Claimed
      <4>2. q \in groups[d] <=> Fares[q].driver = d
        BY <1>1, <2>1, <3>2
      <4>. QED  BY <1>4, <3>2, <4>1, <4>2
    <3>3. CASE q \notin groups[Fares[q].driver]
      <4>1. q \notin groups[d]
        BY <1>1, <2>1, <3>3
      <4>. QED  BY <1>4, <3>1, <3>3, <4>1
    <3>. QED  BY <3>2, <3>3
  <2>. QED  BY <1>0, <2>1, <2>3 DEF Backing
<1>6. ASSUME NEW id \in Payouts, \A d \in Paid(groups) : new[d] # id
      PROVE  Backing(id)' = Backing(id)
  <2>1. ASSUME NEW q \in PaymentIds
        PROVE  payment'[q].payoutId = id <=> payment[q].payoutId = id
    <3>1. CASE q \in groups[Fares[q].driver]
      <4>1. payment[q].payoutId = NoPayout /\ new[Fares[q].driver] # id
        BY <1>1, <1>3, <1>6, <3>1, FareDriver
      <4>2. id # NoPayout
        BY PayoutAssumption
      <4>. QED  BY <1>4, <3>1, <4>1, <4>2
    <3>2. CASE q \notin groups[Fares[q].driver]
      BY <1>4, <3>2
    <3>. QED  BY <3>1, <3>2
  <2>. QED  BY <2>1 DEF Backing
<1>. QED  BY <1>5, <1>6 DEF groups

LEMMA ClaimClaims ==
    ASSUME OneClaimer, Inv, ClaimsInv, NEW w \in Workers, ClaimPayments(w)
    PROVE  ClaimsInv'
<1> DEFINE groups == proc[w].groups
<1>1. PICK new : Claimed(groups, new)
  BY ClaimIs DEF Inv
<1>2. Become(w, Idle) /\ proc[w].at = "claim"
  BY ClaimIs DEF Inv
<1>3. /\ \A d \in Paid(groups) : Backing(new[d])' = groups[d]
      /\ \A id \in Payouts : (\A d \in Paid(groups) : new[d] # id) => Backing(id)' = Backing(id)
  BY <1>1, <1>2, ClaimedBacking
<1> HIDE DEF groups
<1>4. proc'[w] = Idle /\ \A v \in Workers : v # w => proc'[v] = proc[v]
  BY <1>2 DEF Become, Inv, TypeOK
<1>5. Claimer(w)
  BY <1>2 DEF ClaimsInv, Claiming
<1>6. ASSUME NEW v \in Workers
      PROVE  Claims(proc'[v], payment') /\ (Claiming(proc'[v]) => Claimer(v))
  <2>1. CASE v = w
    BY <1>4, <2>1, IdleAside
  <2>2. CASE v # w
    <3>1. ~Claimer(v)
      BY <1>5, <2>2 DEF OneClaimer
    <3>2. proc'[v] = proc[v] /\ ~Claiming(proc[v])
      BY <1>4, <2>2, <3>1 DEF ClaimsInv
    <3>3. Claims(proc[v], payment')
      BY <3>2 DEF Claiming, Claims, Reversing
    <3>. QED  BY <3>2, <3>3
  <2>. QED  BY <2>1, <2>2
<1>7. ASSUME NEW id \in Payouts
      PROVE  IF payout'[id].row = NoRow THEN Backing(id)' = {}
             ELSE payout'[id].amount = Total(Backing(id)')
  <2>1. CASE \A d \in Paid(groups) : new[d] # id
    <3>1. payout'[id] = payout[id] /\ Backing(id)' = Backing(id)
      BY <1>1, <1>3, <2>1 DEF Claimed
    <3>. QED  BY <3>1 DEF ClaimsInv, PayoutsAreBacked, Backing
  <2>2. CASE \E d \in Paid(groups) : new[d] = id
    <3>1. PICK d \in Paid(groups) : new[d] = id
      BY <2>2
    <3>2. Backing(id)' = groups[d]
      BY <1>3, <3>1
    <3>3. payout'[id].row # NoRow /\ payout'[id].amount = Total(groups[d])
      <4>1. payout'[id] = [row |-> [NoRow EXCEPT !.status = "PENDING"],
                           driver |-> d, amount |-> Total(groups[d])]
        BY <1>1, <3>1 DEF Claimed
      <4>2. [NoRow EXCEPT !.status = "PENDING"] # NoRow
        BY NewRowIs
      <4>. QED  BY <4>1, <4>2
    <3>. QED  BY <3>2, <3>3
  <2>. QED  BY <2>1, <2>2
<1>8. PayoutsAreBacked'
  BY <1>7 DEF PayoutsAreBacked, Backing
<1>. QED  BY <1>6, <1>7, <1>8 DEF ClaimsInv

LEMMA InitClaims == Init => ClaimsInv
<1> SUFFICES ASSUME Init
             PROVE  ClaimsInv
  OBVIOUS
<1>1. \A w \in Workers : Claims(proc[w], payment) /\ ~Claiming(proc[w])
  BY IdleAside DEF Init
<1>2. \A id \in Payouts : payout[id].row = NoRow /\ Backing(id) = {}
  BY PayoutAssumption DEF Init, Backing, NewPayment
<1>. QED  BY <1>1, <1>2 DEF ClaimsInv, PayoutsAreBacked

LEMMA NextKeepsClaims == OneClaimer /\ Inv /\ ClaimsInv /\ [Next]_vars => ClaimsInv'
<1> SUFFICES ASSUME OneClaimer, Inv, ClaimsInv, [Next]_vars
             PROVE  ClaimsInv'
  OBVIOUS
<1>1. ASSUME NEW w \in Workers, Calls(w)
      PROVE  ClaimsInv'
  BY <1>1, RequestClaims, GenerateClaims, ReverseClaims, CallsAside DEF Calls
<1>2. ASSUME NEW w \in Workers, Continue(w)
      PROVE  ClaimsInv'
  BY <1>2, ClaimClaims, FlushKeepsClaims, SaveReversalClaims, FlushReversalClaims, RefundClaims,
     ContinuesAside DEF Continue
<1>3. ASSUME NEW w \in Workers,
             \/ SyncPaypalPayouts(w) \/ ExecutionThrows(w) \/ Fail(w)
             \/ \E id \in Payouts : PaypalIsSilent(w, id)
      PROVE  ClaimsInv'
  BY <1>3, CallsAside, ContinuesAside
<1>4. CASE \E p \in PaymentIds : PaymentPaid(p)
  BY <1>4, PaidUnclaiming, UnclaimingOutside
<1>5. CASE Settles \/ UNCHANGED vars
  <2>1. Unclaiming /\ UNCHANGED proc
    BY <1>5 DEF Settles, Settle, vars, Unclaiming
  <2>. QED  BY <2>1, UnclaimingOutside
<1>. QED  BY <1>1, <1>2, <1>3, <1>4, <1>5 DEF Next

LEMMA ClaimsForever == OneClaimer => (Spec => [](Inv /\ ClaimsInv))
<1> SUFFICES ASSUME OneClaimer
             PROVE  Spec => [](Inv /\ ClaimsInv)
  OBVIOUS
<1>1. Init => Inv /\ ClaimsInv
  BY InitInv, InitClaims
<1>2. Inv /\ ClaimsInv /\ [Next]_vars => (Inv /\ ClaimsInv)'
  BY NextKeepsInv, NextKeepsClaims
<1>. QED  BY <1>1, <1>2, PTL DEF Spec

(* As long as withdrawals, the monthly run and reversals are served one after *)
(* the other, a payout is worth exactly the payments that name it, whatever   *)
(* the job and PayPal do meanwhile, and wherever a handler is lost.           *)
THEOREM PayoutsBacked == OneClaimer => (Spec => []PayoutsAreBacked)
<1>1. Inv /\ ClaimsInv => PayoutsAreBacked
  BY DEF ClaimsInv
<1>. QED  BY <1>1, ClaimsForever, PTL

LEMMA StepsKeepClaims ==
    ASSUME Inv, ClaimsInv, [Next]_vars, NEW p \in PaymentIds, payment[p].payoutId # NoPayout
    PROVE  payment'[p].payoutId = payment[p].payoutId
<1>1. ASSUME NEW w \in Workers, ClaimPayments(w)
      PROVE  payment'[p].payoutId = payment[p].payoutId
  <2>1. PICK new : Claimed(proc[w].groups, new)
    BY <1>1, ClaimIs DEF Inv
  <2>2. p \notin proc[w].groups[Fares[p].driver]
    BY <1>1, FareDriver DEF ClaimsInv, Claims, ClaimPayments
  <2>. QED  BY <2>1, <2>2 DEF Claimed
<1>2. ASSUME NEW w \in Workers, FlushReversal(w)
      PROVE  payment'[p].payoutId = payment[p].payoutId
  BY <1>2, FlushReversalUnclaiming DEF Unclaiming
<1>3. ASSUME NEW q \in PaymentIds, PaymentPaid(q)
      PROVE  payment'[p].payoutId = payment[p].payoutId
  BY <1>3, PaidUnclaiming DEF Unclaiming
<1>4. \/ \E w \in Workers : ClaimPayments(w) \/ FlushReversal(w)
      \/ \E q \in PaymentIds : PaymentPaid(q)
      \/ UNCHANGED payment
  BY ZenonT(60) DEF Next, Calls, Continue, Settles, Settle, vars, RequestPayout, GeneratePayouts,
     ExecutePaypalPayout, FailPayout, ReversePayment, SyncPaypalPayouts, PaypalRefuses,
     AuditPayout, SavePayout, FlushPayout, SaveReversal, PaypalPays, AskPaypal, RefundPayment,
     ExecutionThrows, Fail, PaypalIsSilent
<1>. QED  BY <1>1, <1>2, <1>3, <1>4

(* Under the same condition no step takes a payment away from the payout that *)
(* has claimed it: neither another claim nor the copy a reversal saves.       *)
THEOREM ClaimedOnce == OneClaimer => (Spec => ClaimedForGood)
<1> SUFFICES ASSUME OneClaimer
             PROVE  Spec => ClaimedForGood
  OBVIOUS
<1>1. Inv /\ ClaimsInv /\ [Next]_vars =>
        [\A p \in PaymentIds : payment[p].payoutId # NoPayout =>
            payment'[p].payoutId = payment[p].payoutId]_payment
  BY StepsKeepClaims
<1>. QED  BY <1>1, ClaimsForever, PTL DEF Spec, ClaimedForGood
=============================================================================
