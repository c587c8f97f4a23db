------------------------------- MODULE MCDrivers -------------------------------
(* Instances of Drivers for TLC: slots, and who overlaps. *)
EXTENDS Drivers, TLC

CONSTANTS w1, w2

\* Any two handlers side by side.
Slots == w1 :> Ops @@ w2 :> {"uploadDocument", "approveDocument", "suspendDriver"}
Beside == Ops \X Ops
===============================================================================
