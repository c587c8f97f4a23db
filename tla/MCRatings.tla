------------------------------- MODULE MCRatings -------------------------------
(* Instances of Ratings for TLC: slots, and who overlaps. *)
EXTENDS Ratings, TLC

CONSTANTS w1, w2, d1, p1, r1, r2

\* Profiles are edited beside whatever else writes them.
Slots == w1 :> {"createRating", "cancelRoute"} @@ w2 :> {"updateProfile"}
Beside == Ops \X Ops

AlikeRoutes == Permutations({r1, r2})
===============================================================================
