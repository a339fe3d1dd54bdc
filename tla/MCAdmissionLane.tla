-------------------------- MODULE MCAdmissionLane --------------------------
(* Finite instances of AdmissionLane. *)
EXTENDS AdmissionLane

CONSTANTS s1, s2, b1, b2, b3

FiveRequests == {s1, s2, b1, b2, b3}
TwoStreams == {s1, s2}
FiveSymmetry == Permutations({s1, s2}) \cup Permutations({b1, b2, b3})

FourRequests == {s1, b1, b2, b3}

ThreeRequests == {s1, b1, b2}
OneStream == {s1}
=============================================================================
