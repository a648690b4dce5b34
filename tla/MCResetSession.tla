--------------------------- MODULE MCResetSession ---------------------------
(***************************************************************************)
(* ResetSession with two clients that know the token.                      *)
(***************************************************************************)
EXTENDS ResetSession

CONSTANTS c1, c2

MCClient == {c1, c2}
=============================================================================
