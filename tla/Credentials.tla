----------------------------- MODULE Credentials -----------------------------
(***************************************************************************)
(* What the auth-service makes of an account that many requests read and   *)
(* write at once: passwords are tried while it is not locked and counted,  *)
(* a lock stays, a new password replaces the old one, each in one step.    *)
(* The one thing that spoils it is the save of a copy that is stale.       *)
(***************************************************************************)
EXTENDS Naturals

CONSTANT Password       \* what may be stored as the password of an account

VARIABLES locked,     \* the account is locked
          password,   \* its password
          count,      \* the failures counted
          tried,      \* the wrong passwords tried, while no failure was lost
          stale       \* a stale copy was saved

vars == <<locked, password, count, tried, stale>>

Init ==
  /\ locked \in BOOLEAN /\ password \in Password
  /\ count = 0 /\ tried = 0 /\ stale = FALSE

Try ==
  /\ ~locked
  /\ tried' = tried + 1
  /\ UNCHANGED <<locked, password, count, stale>>

Count ==
  /\ count' = count + 1
  /\ UNCHANGED <<locked, password, tried, stale>>

Lock ==
  /\ locked' = TRUE /\ count' = 0
  /\ UNCHANGED <<password, tried, stale>>

\* A right password.
Reset ==
  /\ count' = 0 /\ tried' = 0
  /\ UNCHANGED <<locked, password, stale>>

Change(p) ==
  /\ password' = p
  /\ UNCHANGED <<locked, count, tried, stale>>

SaveStale ==
  /\ stale' = TRUE
  /\ locked' \in BOOLEAN /\ password' \in Password /\ count' \in Nat
  /\ UNCHANGED tried

Next ==
  \/ Try \/ Count \/ Lock \/ Reset
  \/ \E p \in Password : Change(p)
  \/ SaveStale

Spec == Init /\ [][Next]_vars
=============================================================================
