---------------------------- MODULE MCRateLimiter ----------------------------
(* Instances of RateLimiter for TLC.                                       *)
EXTENDS RateLimiter, TLC

CONSTANTS p1, p2, r1, r2, r3, r4

TwoHome == r1 :> p1 @@ r2 :> p2
ThreeHome == r1 :> p1 @@ r2 :> p2 @@ r3 :> p2
ThreePrio == r1 :> 0 @@ r2 :> 1 @@ r3 :> 1
TwoPrio == r1 :> 0 @@ r2 :> 3
Equal == r1 :> 1 @@ r2 :> 1

(* The default weights 4 : 2 : 1.5 : 1.5 of one request per tick, in 1/18. *)
Shares == 0 :> 8 @@ 1 :> 4 @@ 2 :> 3 @@ 3 :> 3

(* Two requests of one process and class differ in their names only.       *)
Twins == Permutations({r2, r3})

BothWays == {-2, 2}
ShortLadder == <<1, 2>>
=============================================================================
