---------------------------- MODULE MCTwoFactor ----------------------------
(***************************************************************************)
(* TwoFactor with three clients sharing one token.                         *)
(***************************************************************************)
EXTENDS TwoFactor

CONSTANTS c1, c2, c3, t1

MCClient == {c1, c2, c3}
MCToken == {t1}
=============================================================================
