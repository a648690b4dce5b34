----------------------------- MODULE OneTimeCode -----------------------------
(***************************************************************************)
(* What a code that is sent to a user comes to: it is issued once, counts  *)
(* wrong guesses up to a limit, and ends once, after a use or with its     *)
(* time.  Its counter never goes down and it never comes back, unless a    *)
(* request writes it over what it has not read.                            *)
(***************************************************************************)
EXTENDS Naturals

CONSTANT MaxAttempts

VARIABLES state,        \* "none", "live" or "dead"
          count,        \* the wrong guesses counted
          overwritten   \* it was written over

vars == <<state, count, overwritten>>

Init == state = "none" /\ count = 0 /\ overwritten = FALSE

Issue ==
  /\ state = "none" /\ state' = "live"
  /\ UNCHANGED <<count, overwritten>>

Wrong ==
  /\ state = "live" /\ count < MaxAttempts
  /\ count' = count + 1
  /\ UNCHANGED <<state, overwritten>>

End ==
  /\ state = "live" /\ state' = "dead"
  /\ count' = 0
  /\ UNCHANGED overwritten

Overwrite ==
  /\ state # "none" /\ state' = "live"
  /\ count' \in 0 .. MaxAttempts
  /\ overwritten' = TRUE

Next == Issue \/ Wrong \/ End \/ Overwrite

Spec == Init /\ [][Next]_vars
=============================================================================
