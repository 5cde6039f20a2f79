----------------------------- MODULE MCLumaLink -----------------------------
(* Photos of one and of two chunks for TLC. *)
EXTENDS LumaLink, TLC

CONSTANTS p1, p2, p3

TwoPhotos == {p1, p2}
TwoSizes == p1 :> 2 @@ p2 :> 1
ThreePhotos == {p1, p2, p3}
ThreeSizes == p1 :> 2 @@ p2 :> 1 @@ p3 :> 2
=============================================================================
