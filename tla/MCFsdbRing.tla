----------------------------- MODULE MCFsdbRing -----------------------------
(* Values for TLC: two of the three atoms have the same id. *)
EXTENDS FsdbRing, TLC

CONSTANTS a1, a2, a3

ThreeAtoms == {a1, a2, a3}
ThreeIds == a1 :> 1 @@ a2 :> 1 @@ a3 :> 2
TwoAtoms == {a1, a2}
TwoIds == a1 :> 1 @@ a2 :> 2
=============================================================================
