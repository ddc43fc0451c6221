--------------------------- MODULE MCSessionProbe ---------------------------
(* Small instances of SessionProbe for TLC. *)
EXTENDS SessionProbe, TLC

CONSTANTS l1, l2, s1, s2

MCLogin == {l1, l2}
MCSid == {s1, s2}
MCSymmetry == Permutations(MCLogin) \cup Permutations(MCSid)
=============================================================================
