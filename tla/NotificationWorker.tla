-------------------------- MODULE NotificationWorker --------------------------
(***************************************************************************)
(* The worker of the notification service: it reads notification_stream    *)
(* through a consumer group and writes one row for each entry.             *)
(*                                                                         *)
(* One action is one call of Redis or of the database with the code up to  *)
(* the next one.  A call that fails returns an error; it may have had its  *)
(* effect all the same (the answer was lost).                              *)
(***************************************************************************)
EXTENDS RedisStream

CONSTANTS MaxEntries,   \* bound: entries added by other services
          MaxLives,     \* bound: how often the group is created
          MaxCrashes,   \* bound: how often the service stops
          Count         \* the 10 of ReadStream

ASSUME BoundsAssumption == /\ MaxEntries \in Nat /\ MaxLives \in Nat
                           /\ MaxCrashes \in Nat /\ Count \in Nat \ {0}

Entry == 1..MaxEntries

VARIABLES stream,   \* notification_stream and its group
          added,    \* how many entries were added
          bad,      \* the entries whose payload is missing or is no event
          pc,       \* what the worker does next
          hand,     \* the entries read and not done with
          rows,     \* rows[e]: the notifications written for entry e
          crashes,  \* how often the service stopped
          lives,    \* history: how often the group was created
          saved,    \* history: the entries saved since then
          faults    \* history: the entries a call failed for since then, or
                    \* that were in hand when the service stopped

vars == <<stream, added, bad, pc, hand, rows, crashes, lives, saved, faults>>

Step == {"boot", "read", "entry", "ack", "stopped"}

TypeOK ==
  /\ stream \in StreamOf(Entry)
  /\ added \in 0..MaxEntries /\ bad \subseteq 1..added
  /\ pc \in Step
  /\ hand \subseteq Entry
  /\ (hand # {}) <=> (pc \in {"entry", "ack"})
  /\ rows \in [Entry -> Nat]
  /\ crashes \in Nat /\ lives \in Nat
  /\ saved \subseteq Entry /\ faults \subseteq Entry

Init ==
  /\ stream = NoStream
  /\ added = 0 /\ bad = {}
  /\ pc = "boot" /\ hand = {}
  /\ rows = [e \in Entry |-> 0]
  /\ crashes = 0 /\ lives = 0 /\ saved = {} /\ faults = {}

(***************************************************************************)
(* The world: other services add entries, the group or the stream is lost, *)
(* the service is stopped and started again.                               *)
(***************************************************************************)
Add ==
  /\ added < MaxEntries
  /\ added' = added + 1
  /\ stream' = XAdd(stream, added + 1)
  /\ bad' \in {bad, bad \cup {added + 1}}
  /\ UNCHANGED <<pc, hand, rows, crashes, lives, saved, faults>>

LoseGroup ==
  /\ stream.group /\ lives < MaxLives
  /\ stream' \in {WithoutGroup(stream), NoStream}
  /\ UNCHANGED <<added, bad, pc, hand, rows, crashes, lives, saved, faults>>

Crash ==
  /\ pc # "boot" /\ crashes < MaxCrashes
  /\ crashes' = crashes + 1
  /\ pc' = "boot" /\ hand' = {}
  /\ faults' = faults \cup hand
  /\ UNCHANGED <<stream, added, bad, rows, lives, saved>>

(***************************************************************************)
(* Start: the stream gets no entry of its own (SendNotification drops one  *)
(* that is marked _bootstrap), so the group is all there is to create.     *)
(***************************************************************************)
CreateGroup ==
  /\ stream' = EnsureGroup(stream)
  /\ IF stream.group
       THEN UNCHANGED <<lives, saved, faults>>
       ELSE lives' = lives + 1 /\ saved' = {} /\ faults' = {}

Boot ==
  /\ pc = "boot"
  /\ CreateGroup
  /\ pc' = "read"
  /\ UNCHANGED <<added, bad, hand, rows, crashes>>

\* The worker ends for good; the service goes on without it.  (Without a client
\* for Redis, which main lets pass, it ends here in a panic that SafeGo recovers.)
BootFails ==
  /\ pc = "boot"
  /\ CreateGroup \/ UNCHANGED <<stream, lives, saved, faults>>
  /\ pc' = "stopped"
  /\ UNCHANGED <<added, bad, hand, rows, crashes>>

(***************************************************************************)
(* The loop                                                                *)
(***************************************************************************)
Readable == stream.group /\ Undelivered(stream) # {}

Read ==
  /\ pc = "read" /\ Readable
  /\ stream' = ReadGroup(stream, Count)
  /\ hand' = Batch(stream, Count)
  /\ pc' = IF hand' = {} THEN "read" ELSE "entry"
  /\ UNCHANGED <<added, bad, rows, crashes, lives, saved, faults>>

\* Nothing is new, or the group is missing, or the call fails: read again.
ReadNothing ==
  /\ pc = "read"
  /\ UNCHANGED vars

\* The group hands entries out and the answer does not arrive.
ReadAnswerLost ==
  /\ pc = "read" /\ Readable
  /\ stream' = ReadGroup(stream, Count)
  /\ faults' = faults \cup Batch(stream, Count)
  /\ UNCHANGED <<added, bad, pc, hand, rows, crashes, lives, saved>>

\* The loop is left, or not left after the last entry.
GiveUp(e) == hand' = {} /\ pc' = "read"
GoOn(e) == hand' = hand \ {e} /\ pc' = "entry"

\* On to the next entry, or to the next read.
Continue(e) ==
  /\ hand' = hand \ {e}
  /\ pc' = IF hand' = {} THEN "read" ELSE "entry"

\* A payload that cannot be read: the entry is left pending.
Skip(e) ==
  /\ pc = "entry" /\ First(e, hand) /\ e \in bad
  /\ Continue(e)
  /\ UNCHANGED <<stream, added, bad, rows, crashes, lives, saved, faults>>

Stored(e) ==
  /\ rows' = [rows EXCEPT ![e] = @ + 1]
  /\ saved' = saved \cup {e}

Save(e) ==
  /\ pc = "entry" /\ First(e, hand) /\ e \notin bad
  /\ Stored(e)
  /\ pc' = "ack"
  /\ UNCHANGED <<stream, added, bad, hand, crashes, lives, faults>>

\* The entry is acknowledged all the same.
SaveFailsAndAcks(e) ==
  /\ pc = "entry" /\ First(e, hand) /\ e \notin bad
  /\ UNCHANGED <<rows, saved>>
  /\ faults' = faults \cup {e}
  /\ pc' = "ack"
  /\ UNCHANGED <<stream, added, bad, hand, crashes, lives>>
\* The row may have been written although the call failed; the entry is left pending.
SaveFails(e) ==
  /\ pc = "entry" /\ First(e, hand) /\ e \notin bad
  /\ Stored(e) \/ UNCHANGED <<rows, saved>>
  /\ faults' = faults \cup {e}
  /\ Continue(e)
  /\ UNCHANGED <<stream, added, bad, crashes, lives>>

Ack(e) ==
  /\ pc = "ack" /\ First(e, hand)
  /\ stream' = XAck(stream, {e})
  /\ Continue(e)
  /\ UNCHANGED <<added, bad, rows, crashes, lives, saved, faults>>

\* The error is dropped: the entry is saved and stays pending.
AckFails(e) ==
  /\ pc = "ack" /\ First(e, hand)
  /\ faults' = faults \cup {e}
  /\ Continue(e)
  /\ UNCHANGED <<stream, added, bad, rows, crashes, lives, saved>>

Handle(e) == Skip(e) \/ Save(e) \/ SaveFails(e) \/ Ack(e) \/ AckFails(e)

Work == Boot \/ BootFails \/ Read \/ ReadAnswerLost \/ \E e \in Entry : Handle(e)

Next == Work \/ ReadNothing \/ Add \/ LoseGroup \/ Crash

\* The worker's calls return, and a read that could return entries does not fail
\* for ever.
Spec == Init /\ [][Next]_vars /\ WF_vars(Work)

(***************************************************************************)
(* Properties                                                              *)
(***************************************************************************)

\* An entry that the group takes for being worked on is in hand, or was left
\* because its payload is bad, or a call for it failed: worker.go:52-80 has no way
\* past an entry that neither acknowledges it nor has a reason not to.
NoSilentLoss == stream.pending \subseteq hand \cup bad \cup faults

\* Notifications are written in the order of the stream, also when some fail.
InOrder ==
  [][\A e \in saved' \ saved : \A f \in saved \cap stream.delivered : f < e]_vars

\* A readable entry is saved some time or a call for it fails, unless it is deleted,
\* or the group is lost (the loop of worker.go:44-50 only retries then), or the
\* worker has ended at its start.
EveryEntryTaken ==
  \A e \in Entry :
    e \in stream.entries \ bad ~>
      \/ e \in saved \cup faults
      \/ e \notin stream.entries \/ ~stream.group \/ pc = "stopped"

\* worker.go saves, then acknowledges, and saves an entry once for each group.
Promise == INSTANCE Delivery WITH acked <- Acked(stream)
Delivers == Promise!Spec
=============================================================================
