------------------------------ MODULE AuditWorker ------------------------------
(***************************************************************************)
(* The worker of the audit service: it reads audit_stream in batches,      *)
(* saves a batch row by row and acknowledges it as a whole.  Unlike the    *)
(* notification worker it creates a group that got lost again, and puts an *)
(* entry of its own into the stream each time.                             *)
(*                                                                         *)
(* One action is one call of Redis or of the database with the code up to  *)
(* the next one; the two calls of ensureRedisInfrastructure are one action,*)
(* because nothing but their success is looked at in between.              *)
(***************************************************************************)
EXTENDS RedisStream

CONSTANTS MaxAdded,     \* bound: entries before other services stop to add more
          MaxLives,     \* bound: how often the group is created
          MaxCrashes,   \* bound: how often the service stops
          BatchSize     \* the batchSize of the worker, 100

ASSUME BoundsAssumption == /\ MaxAdded \in Nat /\ MaxLives \in Nat \ {0}
                           /\ MaxCrashes \in Nat /\ BatchSize \in Nat \ {0}

\* Room for the entries of the worker itself: one for each start that succeeds and
\* one for each group that is created again.
Entry == 1..(MaxAdded + MaxCrashes + MaxLives + 1)

VARIABLES stream,   \* audit_stream and its group
          added,    \* how many entries were added
          bad,      \* the entries whose payload is missing or is no message
          pc,       \* what the worker does next
          batch,    \* the entries of the batch in hand (ackIDs)
          left,     \* those of them SaveLogsBatch has not saved yet
          rows,     \* rows[e]: the rows written for entry e
          crashes,  \* how often the service stopped
          lives,    \* history: how often the group was created
          saved,    \* history: the entries saved since then
          faults    \* history: the entries of a batch a call failed for since
                    \* then, or that was in hand when the service stopped

vars == <<stream, added, bad, pc, batch, left, rows, crashes, lives, saved, faults>>

Step == {"boot", "read", "save", "ack", "stopped"}

TypeOK ==
  /\ stream \in StreamOf(Entry)
  /\ added \in Nat /\ added <= MaxAdded + MaxCrashes + MaxLives + 1
  /\ bad \subseteq 1..added
  /\ pc \in Step
  /\ batch \subseteq Entry /\ left \subseteq batch
  /\ (batch # {}) <=> (pc \in {"save", "ack"})
  /\ (left # {}) <=> (pc = "save")
  /\ rows \in [Entry -> Nat]
  /\ crashes \in Nat /\ lives \in Nat
  /\ saved \subseteq Entry /\ faults \subseteq Entry

Init ==
  /\ stream = NoStream
  /\ added = 0 /\ bad = {}
  /\ pc = "boot" /\ batch = {} /\ left = {}
  /\ rows = [e \in Entry |-> 0]
  /\ crashes = 0 /\ lives = 0 /\ saved = {} /\ faults = {}

DropBatch == batch' = {} /\ UNCHANGED left
Drop == batch' = {} /\ left' = {}

(***************************************************************************)
(* The world: other services add entries, the group or the stream is lost, *)
(* the service is stopped and started again.                               *)
(***************************************************************************)
Add ==
  /\ added < MaxAdded
  /\ added' = added + 1
  /\ stream' = XAdd(stream, added + 1)
  /\ bad' \in {bad, bad \cup {added + 1}}
  /\ UNCHANGED <<pc, batch, left, rows, crashes, lives, saved, faults>>

LoseGroup ==
  /\ stream.group /\ lives < MaxLives
  /\ stream' \in {WithoutGroup(stream), NoStream}
  /\ UNCHANGED <<added, bad, pc, batch, left, rows, crashes, lives, saved, faults>>

Crash ==
  /\ pc # "boot" /\ crashes < MaxCrashes
  /\ crashes' = crashes + 1
  /\ pc' = "boot" /\ Drop
  /\ faults' = faults \cup batch
  /\ UNCHANGED <<stream, added, bad, rows, lives, saved>>

(***************************************************************************)
(* ensureRedisInfrastructure: the _bootstrap entry has no payload.         *)
(***************************************************************************)
SendBootstrap(s) ==
  /\ added' = added + 1 /\ bad' = bad \cup {added + 1}
  /\ stream' = s

EnsureInfrastructure ==
  /\ SendBootstrap(EnsureGroup(XAdd(stream, added + 1)))
  /\ IF stream.group
       THEN UNCHANGED <<lives, saved, faults>>
       ELSE lives' = lives + 1 /\ saved' = {} /\ faults' = {}

\* The first call fails, or the second one does, with or without its effect; bound:
\* entries are left behind only while there is room for them.
EnsureInfrastructureFails ==
  \/ UNCHANGED <<added, bad, stream, lives, saved, faults>>
  \/ /\ added < MaxAdded
     /\ \/ EnsureInfrastructure
        \/ /\ SendBootstrap(XAdd(stream, added + 1))
           /\ UNCHANGED <<lives, saved, faults>>

Boot ==
  /\ pc = "boot"
  /\ EnsureInfrastructure
  /\ pc' = "read"
  /\ UNCHANGED <<batch, left, rows, crashes>>

\* The worker ends for good; the service goes on without it.  (The client for Redis
\* that main passes is nil: the first call panics and SafeGo recovers, which ends
\* here too.)
BootFails ==
  /\ pc = "boot"
  /\ EnsureInfrastructureFails
  /\ pc' = "stopped"
  /\ UNCHANGED <<batch, left, rows, crashes>>

(***************************************************************************)
(* The loop                                                                *)
(***************************************************************************)
\* The answer to a read that tells NOGROUP from other errors.
NeverMissed == FALSE
NoGroup == pc = "read" /\ ~stream.group

Recreate ==
  /\ NoGroup
  /\ EnsureInfrastructure
  /\ UNCHANGED <<pc, batch, left, rows, crashes>>

RecreateFails ==
  /\ NoGroup
  /\ EnsureInfrastructureFails
  /\ UNCHANGED <<pc, batch, left, rows, crashes>>

Readable == stream.group /\ Undelivered(stream) # {}

\* The batch ends at the first payload that cannot be read.
ReadUntilBad ==
  /\ pc = "read" /\ Readable
  /\ stream' = ReadGroup(stream, BatchSize)
  /\ batch' = {e \in Batch(stream, BatchSize) :
                 \A f \in bad \cap Batch(stream, BatchSize) : e < f}
  /\ left' = batch'
  /\ pc' = IF batch' = {} THEN "read" ELSE "save"
  /\ UNCHANGED <<added, bad, rows, crashes, lives, saved, faults>>

\* Entries whose payload cannot be read are left out of the batch, and stay pending.
Read ==
  /\ pc = "read" /\ Readable
  /\ stream' = ReadGroup(stream, BatchSize)
  /\ batch' = Batch(stream, BatchSize) \ bad
  /\ left' = batch'
  /\ pc' = IF batch' = {} THEN "read" ELSE "save"
  /\ UNCHANGED <<added, bad, rows, crashes, lives, saved, faults>>

\* Nothing is new or the call fails: read again.
ReadNothing ==
  /\ pc = "read"
  /\ UNCHANGED vars

\* The group hands entries out and the answer does not arrive.
ReadAnswerLost ==
  /\ pc = "read" /\ Readable
  /\ stream' = ReadGroup(stream, BatchSize)
  /\ faults' = faults \cup Batch(stream, BatchSize)
  /\ UNCHANGED <<added, bad, pc, batch, left, rows, crashes, lives, saved>>

Stored(e) ==
  /\ rows' = [rows EXCEPT ![e] = @ + 1]
  /\ saved' = saved \cup {e}

SaveLog(e) ==
  /\ pc = "save" /\ First(e, left)
  /\ Stored(e)
  /\ left' = left \ {e}
  /\ pc' = IF left' = {} THEN "ack" ELSE "save"
  /\ UNCHANGED <<stream, added, bad, batch, crashes, lives, faults>>

\* A row that fails is left out, and the batch acknowledged.
SaveLogsBatchSkips(e) ==
  /\ pc = "save" /\ First(e, left)
  /\ faults' = faults \cup {e}
  /\ left' = left \ {e}
  /\ pc' = IF left' = {} THEN "ack" ELSE "save"
  /\ UNCHANGED <<stream, added, bad, batch, rows, crashes, lives, saved>>
\* One row fails and the whole batch is left pending, those already saved with it.
SaveLogsBatchFails(e) ==
  /\ pc = "save" /\ First(e, left)
  /\ Stored(e) \/ UNCHANGED <<rows, saved>>
  /\ faults' = faults \cup batch
  /\ pc' = "read" /\ Drop
  /\ UNCHANGED <<stream, added, bad, crashes, lives>>

AckBatch ==
  /\ pc = "ack"
  /\ stream' = XAck(stream, batch)
  /\ pc' = "read" /\ Drop
  /\ UNCHANGED <<added, bad, rows, crashes, lives, saved, faults>>

\* The error is logged: the batch is saved and stays pending.
AckBatchFails ==
  /\ pc = "ack"
  /\ faults' = faults \cup batch
  /\ pc' = "read" /\ Drop
  /\ UNCHANGED <<stream, added, bad, rows, crashes, lives, saved>>

Work ==
  \/ Boot \/ BootFails
  \/ Read \/ ReadAnswerLost
  \/ \E e \in Entry : SaveLog(e) \/ SaveLogsBatchFails(e)
  \/ AckBatch \/ AckBatchFails

Next == Work \/ Recreate \/ RecreateFails \/ ReadNothing \/ Add \/ LoseGroup \/ Crash

\* The worker's calls return; a read that could return entries, and the creation of a
\* missing group, do not fail for ever.
Spec == Init /\ [][Next]_vars /\ WF_vars(Work) /\ WF_vars(Recreate)

(***************************************************************************)
(* Properties                                                              *)
(***************************************************************************)

\* An entry that the group takes for being worked on is in the batch in hand, or was
\* left because its payload is bad, or a call for its batch failed (worker.go:75-108).
NoSilentLoss == stream.pending \subseteq batch \cup bad \cup faults

\* Entries are saved in the order of the stream, also when some fail.
InOrder ==
  [][\A e \in saved' \ saved : \A f \in saved \cap stream.delivered : f < e]_vars

\* A readable entry is saved some time or a call for its batch fails, unless it is
\* deleted or the worker has ended at its start.  A lost group is no exception: the
\* worker creates it again, and all entries come again.
EveryEntryTaken ==
  \A e \in Entry :
    e \in stream.entries \ bad ~>
      \/ e \in saved \cup faults
      \/ e \notin stream.entries \/ pc = "stopped"

\* worker.go saves, then acknowledges, and saves an entry once for each group.
Promise == INSTANCE Delivery WITH acked <- Acked(stream)
Delivers == Promise!Spec
=============================================================================
