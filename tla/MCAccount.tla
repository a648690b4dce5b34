----------------------------- MODULE MCAccount -----------------------------
(***************************************************************************)
(* Account with two clients, two passwords, one of them too long for       *)
(* bcrypt, and a limit of three failures.                                  *)
(***************************************************************************)
EXTENDS Account

CONSTANTS c1, c2, p1, p2

MCClient == {c1, c2}
MCPassword == {p1, p2}
MCTooLong == {p2}
=============================================================================
