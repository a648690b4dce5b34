------------------------------- MODULE Delivery -------------------------------
(***************************************************************************)
(* What a worker that copies a stream into a table promises: an entry is   *)
(* acknowledged only after it was saved, and saved at most once for each   *)
(* time the consumer group was created.                                    *)
(***************************************************************************)
EXTENDS Integers

CONSTANT Entry

VARIABLES rows,   \* rows[e]: the rows written for entry e
          lives,  \* how often the group was created
          saved,  \* the entries saved since then
          acked   \* the entries acknowledged since then

vars == <<rows, lives, saved, acked>>

TypeOK ==
  /\ rows \in [Entry -> Nat] /\ lives \in Nat
  /\ saved \subseteq Entry /\ acked \subseteq Entry

Init ==
  /\ rows = [e \in Entry |-> 0] /\ lives = 0
  /\ saved = {} /\ acked = {}

Save(e) ==
  /\ lives > 0 /\ e \notin saved
  /\ rows' = [rows EXCEPT ![e] = @ + 1]
  /\ saved' = saved \cup {e}
  /\ UNCHANGED <<lives, acked>>

Ack(E) ==
  /\ E \subseteq saved
  /\ acked' = acked \cup E
  /\ UNCHANGED <<rows, lives, saved>>

\* The group is lost, and what was acknowledged with it; the worker may still save
\* what it had read.
Lose ==
  /\ acked' = {}
  /\ UNCHANGED <<rows, lives, saved>>

\* The group is created, and every entry comes again.
Renew ==
  /\ lives' = lives + 1
  /\ saved' = {} /\ acked' = {}
  /\ UNCHANGED rows

Next ==
  \/ \E e \in Entry : Save(e)
  \/ \E E \in SUBSET Entry : Ack(E)
  \/ Lose
  \/ Renew

Spec == Init /\ [][Next]_vars

\* An acknowledged entry is saved.
AckedAreSaved == acked \subseteq saved

\* An entry has no more rows than groups were created.
RowsBounded == \A e \in Entry : rows[e] <= lives
=============================================================================
