----------------------------- MODULE MCLanProbe -----------------------------
(* One PC, two apps and two rooms of two: an app can displace the other.   *)
EXTENDS LanProbe, TLC

LanSymmetry == Permutations(Rooms) \cup Permutations(Apps)
=============================================================================
