---------------------------- MODULE MCOrderSubmit ----------------------------
(* Instances of OrderSubmit for TLC.                                       *)
EXTENDS OrderSubmit, TLC

CONSTANTS p1, p2, t1, t2, t3, f1, f2

(* p1 runs two threads, p2 one. *)
TwoProcsHome == t1 :> p1 @@ t2 :> p1 @@ t3 :> p2
OneEachHome == t1 :> p1 @@ t2 :> p2
OneSymbol == f1 :> "BTCUSDT" @@ f2 :> "BTCUSDT"
OneFP == f1 :> "BTCUSDT"

Perms == Permutations(Attempts) \union Permutations(Links)
=============================================================================
