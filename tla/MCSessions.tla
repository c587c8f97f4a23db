------------------------------ MODULE MCSessions ------------------------------
(* Instances of Sessions for TLC: slots, and who overlaps. *)
EXTENDS Sessions, TLC

CONSTANTS w1, w2

\* An administrator beside a refresh or a new password.
Slots == w1 :> Ops @@ w2 :> {"suspendDriver"}
Beside == {"refresh", "changePassword"} \X {"suspendDriver"}
=============================================================================
