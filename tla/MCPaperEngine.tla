---------------------------- MODULE MCPaperEngine ----------------------------
(* Instances of PaperEngine for TLC.                                       *)
EXTENDS PaperEngine, TLC

CONSTANTS s1, s2, s3, A, B

(* Two setups compete for symbol A. *)
ThreeSetups == s1 :> A @@ s2 :> A @@ s3 :> B
TwoSetups == s1 :> A @@ s2 :> B

(* Setups of one symbol are interchangeable while at most one row is open  *)
(* at a restart.                                                           *)
Twins == Permutations({s1, s2})

LossOrWin == {-1, 3}
=============================================================================
