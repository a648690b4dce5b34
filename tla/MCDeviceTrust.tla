--------------------------- MODULE MCDeviceTrust ---------------------------
(***************************************************************************)
(* DeviceTrust with two clients, two devices and three session ids.        *)
(***************************************************************************)
EXTENDS DeviceTrust, TLC

CONSTANTS c1, c2, f1, f2, s1, s2, s3

MCClient == {c1, c2}
MCFp == {f1, f2}
MCSid == {s1, s2, s3}
MCSymmetry == Permutations(MCClient) \cup Permutations(MCFp) \cup Permutations(MCSid)
=============================================================================
