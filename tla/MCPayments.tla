------------------------------ MODULE MCPayments ------------------------------
(* Instances of Payments for TLC: methods, slots, and who runs beside whom. *)
EXTENDS Payments, TLC

CONSTANTS b1, w1, w2

ByPaypal1 == b1 :> "PAYPAL"

\* A slot for the passenger, the driver and the clock; another for an
\* administrator who reverses and for a second submission of the payment.
Slots == w1 :> Ops \ {"reversePayment"} @@ w2 :> {"reversePayment", "createPayment"}

\* The passenger pays beside one reversal and the second submission.  Two
\* calls of capturePaypalOrder and createPaypalOrder, two reversals, or
\* cancelBooking and reversePayment, do not compose.
Paying == {"createPayment", "createPaypalOrder", "capturePaypalOrder",
           "reversePayment"}
PayOrReverse == {pair \in Paying \X Paying : pair # <<"reversePayment", "reversePayment">>}
=============================================================================
