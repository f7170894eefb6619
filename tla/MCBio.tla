------------------------------- MODULE MCBio -------------------------------
(* An instance of Bio for TLC. *)
EXTENDS Bio, TLC

CONSTANTS p1, p2, p3, s1, s2, s3, v0, v1

ThreeProcs == {p1, p2, p3}
ThreeSectors == {s1, s2, s3}
OneWriter == {p1}
Reads == p1 :> {s1, s3} @@ p2 :> {s1} @@ p3 :> {s2}
TwoValues == {v0, v1}

=============================================================================
