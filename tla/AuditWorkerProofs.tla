--------------------------- MODULE AuditWorkerProofs ---------------------------
(***************************************************************************)
(* Proofs about the audit worker, for all values of its bounds.            *)
(***************************************************************************)
EXTENDS AuditWorker, RedisStreamProofs

\* There is room for every entry the worker puts into the stream: each start accounts
\* for one and each group that was created for another.
Starts == IF pc = "boot" THEN crashes ELSE crashes + 1
Room ==
  /\ crashes <= MaxCrashes
  /\ lives <= MaxLives /\ (~stream.group => lives < MaxLives)
  /\ added <= MaxAdded + Starts + lives

\* TypeOK without the bound on added, which Room implies.
Types ==
  /\ stream \in StreamOf(Entry)
  /\ added \in Nat /\ bad \subseteq 1..added
  /\ pc \in Step
  /\ batch \subseteq Entry /\ left \subseteq batch
  /\ (batch # {}) <=> (pc \in {"save", "ack"})
  /\ (left # {}) <=> (pc = "save")
  /\ rows \in [Entry -> Nat]
  /\ crashes \in Nat /\ lives \in Nat
  /\ saved \subseteq Entry /\ faults \subseteq Entry

LEMMA TypesAndRoom == Types /\ Room => TypeOK
  BY BoundsAssumption DEF Types, Room, Starts, TypeOK

LEMMA TypesInit == Init => Types /\ Room
  <1>1. NoStream \in StreamOf(Entry) /\ ~NoStream.group
    BY NoStreamFields
  <1> QED
    BY <1>1, BoundsAssumption DEF Init, Types, Step, Room, Starts

\* A start or a new group has room for its entry, and creates a group or leaves it.
LEMMA Infrastructure ==
  ASSUME Types, Room, added + 1 \in Entry, EnsureInfrastructure
  PROVE  /\ stream' \in StreamOf(Entry) /\ stream'.group
         /\ added' = added + 1 /\ bad' \subseteq 1..added'
         /\ lives' \in Nat /\ lives' <= MaxLives
         /\ stream.group => /\ stream'.delivered = stream.delivered
                             /\ stream'.pending = stream.pending
                             /\ UNCHANGED <<lives, saved, faults>>
         /\ ~stream.group => /\ stream'.delivered = {} /\ stream'.pending = {}
                              /\ lives' = lives + 1 /\ saved' = {} /\ faults' = {}
         /\ saved' \subseteq Entry /\ faults' \subseteq Entry
  <1>1. PICK s : s = XAdd(stream, added + 1)
    OBVIOUS
  <1>2. /\ s \in StreamOf(Entry) /\ s.group = stream.group
        /\ s.delivered = stream.delivered /\ s.pending = stream.pending
    BY <1>1, XAddFields DEF Types
  <1>3. stream' = EnsureGroup(s) /\ added' = added + 1 /\ bad' = bad \cup {added + 1}
    BY <1>1 DEF EnsureInfrastructure, SendBootstrap
  <1>4. /\ stream' \in StreamOf(Entry) /\ stream'.group = TRUE
        /\ s.group => stream' = s
        /\ ~s.group => stream'.delivered = {} /\ stream'.pending = {}
    BY <1>2, <1>3, EnsureGroupFields
  <1>5. bad' \subseteq 1..added'
    BY <1>3 DEF Types
  <1>6. CASE stream.group
    BY <1>2, <1>3, <1>4, <1>5, <1>6 DEF EnsureInfrastructure, Types, Room
  <1>7. CASE ~stream.group
    <2>1. lives' = lives + 1 /\ saved' = {} /\ faults' = {}
      BY <1>7 DEF EnsureInfrastructure
    <2> QED
      BY <1>2, <1>3, <1>4, <1>5, <1>7, <2>1, BoundsAssumption DEF Types, Room
  <1> QED
    BY <1>6, <1>7

LEMMA HasRoom ==
  ASSUME Types, Room, pc = "boot" \/ ~stream.group \/ added < MaxAdded
  PROVE  added + 1 \in Entry
  BY BoundsAssumption DEF Types, Room, Starts, Entry

\* An attempt that fails leaves an entry, or a group, or nothing.
LEMMA InfrastructureFails ==
  ASSUME Types, EnsureInfrastructureFails
  PROVE  \/ UNCHANGED <<added, bad, stream, lives, saved, faults>>
         \/ added < MaxAdded /\ EnsureInfrastructure
         \/ /\ added < MaxAdded /\ added' = added + 1 /\ bad' = bad \cup {added + 1}
            /\ stream' = XAdd(stream, added + 1)
            /\ UNCHANGED <<lives, saved, faults>>
  BY DEF EnsureInfrastructureFails, SendBootstrap

LEMMA TypesNext == Types /\ Room /\ [Next]_vars => Types' /\ Room'
  <1> SUFFICES ASSUME Types, Room, [Next]_vars PROVE Types' /\ Room'
    OBVIOUS
  <1> USE BoundsAssumption DEF Types, Room, Starts, Step, Drop
  <1>1. ASSUME Add PROVE Types' /\ Room'
    <2>1. added + 1 \in Entry /\ added < MaxAdded
      BY <1>1, HasRoom DEF Add
    <2>2. /\ stream' \in StreamOf(Entry) /\ stream'.group = stream.group
      BY <1>1, <2>1, XAddFields DEF Add
    <2>3. bad' \subseteq 1..added' /\ added' = added + 1
      BY <1>1 DEF Add
    <2>4. /\ UNCHANGED <<pc, crashes, lives>>
      BY <1>1 DEF Add
    <2>5. Room'
      BY <2>1, <2>2, <2>3, <2>4
    <2> QED
      BY <1>1, <2>2, <2>3, <2>5 DEF Add
  <1>2. ASSUME LoseGroup PROVE Types' /\ Room'
    <2>1. WithoutGroup(stream) \in StreamOf(Entry) /\ NoStream \in StreamOf(Entry)
      BY WithoutGroupFields, NoStreamFields
    <2> QED
      BY <1>2, <2>1 DEF LoseGroup
  <1>3. ASSUME Crash PROVE Types' /\ Room'
    <2>1. Types'
      BY <1>3 DEF Crash
    <2>2. Room'
      BY <1>3 DEF Crash
    <2> QED
      BY <2>1, <2>2
  <1>4. ASSUME EnsureInfrastructure, UNCHANGED <<batch, left, rows, crashes>>,
               \/ pc = "boot" /\ pc' \in {"read", "stopped"}
               \/ (~stream.group \/ added < MaxAdded) /\ pc = "read" /\ pc' = pc
        PROVE  Types' /\ Room'
    <2>1. added + 1 \in Entry
      BY <1>4, HasRoom
    <2>2. /\ stream' \in StreamOf(Entry) /\ stream'.group
          /\ added' = added + 1 /\ bad' \subseteq 1..added'
          /\ lives' \in Nat /\ lives' <= MaxLives
          /\ saved' \subseteq Entry /\ faults' \subseteq Entry
          /\ lives' = IF stream.group THEN lives ELSE lives + 1
      BY <2>1, <1>4, Infrastructure
    <2>3. Types'
      BY <1>4, <2>2
    <2>4. Room'
      BY <1>4, <2>2
    <2> QED
      BY <2>3, <2>4
  <1>5. ASSUME EnsureInfrastructureFails, UNCHANGED <<batch, left, rows, crashes>>,
               \/ pc = "boot" /\ pc' = "stopped"
               \/ pc = "read" /\ pc' = pc
        PROVE  Types' /\ Room'
    <2>1. CASE UNCHANGED <<added, bad, stream, lives, saved, faults>>
      BY <1>5, <2>1
    <2>2. CASE added < MaxAdded /\ EnsureInfrastructure
      BY <1>4, <1>5, <2>2
    <2>3. ASSUME added < MaxAdded, added' = added + 1, bad' = bad \cup {added + 1},
                 stream' = XAdd(stream, added + 1), UNCHANGED <<lives, saved, faults>>
          PROVE  Types' /\ Room'
      <3>1. added + 1 \in Entry
        BY <2>3, HasRoom
      <3>2. stream' \in StreamOf(Entry) /\ stream'.group = stream.group
        BY <2>3, <3>1, XAddFields
      <3>3. Types'
        BY <1>5, <2>3, <3>2
      <3>4. Room'
        BY <1>5, <2>3, <3>2
      <3> QED
        BY <3>3, <3>4
    <2> QED
      BY <1>5, <2>1, <2>2, <2>3, InfrastructureFails
  <1>6. CASE Boot
    BY <1>4, <1>6 DEF Boot
  <1>7. CASE BootFails
    BY <1>5, <1>7 DEF BootFails
  <1>8. CASE Recreate
    BY <1>4, <1>8 DEF Recreate, NoGroup
  <1>9. CASE RecreateFails
    BY <1>5, <1>9 DEF RecreateFails, NoGroup
  <1>10. CASE Read \/ ReadAnswerLost
    <2>1. Batch(stream, BatchSize) \subseteq Entry
      BY BatchIsNew
    <2>2. stream' \in StreamOf(Entry) /\ stream'.group = stream.group
      BY <1>10, ReadGroupFields DEF Read, ReadAnswerLost
    <2> QED
      BY <1>10, <2>1, <2>2 DEF Read, ReadAnswerLost
  <1>11. ASSUME NEW e \in Entry, SaveLog(e) PROVE Types' /\ Room'
    BY <1>11 DEF SaveLog, Stored, First
  <1>12. ASSUME NEW e \in Entry, SaveLogsBatchFails(e) PROVE Types' /\ Room'
    BY <1>12 DEF SaveLogsBatchFails, Stored, First
  <1>13. CASE AckBatch
    <2>1. stream' \in StreamOf(Entry) /\ stream'.group = stream.group
      BY <1>13, XAckFields DEF AckBatch
    <2> QED
      BY <1>13, <2>1 DEF AckBatch
  <1>14. CASE AckBatchFails
    BY <1>14 DEF AckBatchFails
  <1>15. CASE UNCHANGED vars
    BY <1>15 DEF vars
  <1> QED
    BY <1>1, <1>2, <1>3, <1>6, <1>7, <1>8, <1>9, <1>10, <1>11, <1>12, <1>13, <1>14,
       <1>15 DEF Next, Work, ReadNothing

\* The types of the variables, and room for the entries of the worker itself, for all
\* values of the bounds.
THEOREM TypeCorrect == Spec => []TypeOK
  BY TypesInit, TypesNext, TypesAndRoom, PTL DEF Spec

-----------------------------------------------------------------------------

\* The part of the batch that is done is saved and the rest is not.
BatchInv ==
  /\ batch # {} => lives > 0
  /\ stream.group => batch \subseteq stream.delivered
  /\ left \cap saved = {} /\ batch \ left \subseteq saved

\* What the group has seen acknowledged is saved, and what it has still to hand out is
\* not.
GroupInv ==
  /\ ~stream.group => stream.delivered = {} /\ stream.pending = {}
  /\ stream.group => lives > 0 /\ saved \subseteq stream.delivered
  /\ stream.pending \subseteq stream.delivered
  /\ Acked(stream) \subseteq saved

IInv == Types /\ Room /\ BatchInv /\ GroupInv /\ NoSilentLoss

LEMMA InitIInv == Init => IInv
  BY TypesInit DEF Init, IInv, BatchInv, GroupInv, NoSilentLoss, Acked, NoStream

\* Infrastructure creates a group only when the worker has nothing in hand.
LEMMA InfrastructureKeeps ==
  ASSUME IInv, EnsureInfrastructure, added + 1 \in Entry, batch = {}, left = {},
         UNCHANGED <<batch, left>>
  PROVE  BatchInv' /\ GroupInv' /\ NoSilentLoss'
  <1> USE DEF IInv, BatchInv, GroupInv, NoSilentLoss, Acked
  <1>1. bad \subseteq bad'
    BY DEF EnsureInfrastructure, SendBootstrap
  <1>2. CASE stream.group
    <2>1. /\ stream'.delivered = stream.delivered /\ stream'.pending = stream.pending
          /\ stream'.group /\ UNCHANGED <<lives, saved, faults>>
      BY <1>2, Infrastructure
    <2> QED
      BY <1>1, <1>2, <2>1
  <1>3. CASE ~stream.group
    <2>1. /\ stream'.delivered = {} /\ stream'.pending = {} /\ stream'.group
          /\ lives' = lives + 1 /\ saved' = {}
      BY <1>3, Infrastructure
    <2> QED
      BY <2>1 DEF Types
  <1> QED
    BY <1>2, <1>3

\* Appending to the stream touches nothing else of it.
LEMMA AppendKeeps ==
  ASSUME IInv, added + 1 \in Entry, stream' = XAdd(stream, added + 1), bad \subseteq bad',
         UNCHANGED <<batch, left, lives, saved, faults>>
  PROVE  BatchInv' /\ GroupInv' /\ NoSilentLoss'
  <1>1. /\ stream'.delivered = stream.delivered /\ stream'.pending = stream.pending
        /\ stream'.group = stream.group
    BY XAddFields DEF IInv, Types
  <1> QED
    BY <1>1 DEF IInv, BatchInv, GroupInv, NoSilentLoss, Acked

LEMMA FailureKeeps ==
  ASSUME IInv, EnsureInfrastructureFails, batch = {}, left = {}, UNCHANGED <<batch, left>>
  PROVE  BatchInv' /\ GroupInv' /\ NoSilentLoss'
  <1>1. CASE UNCHANGED <<added, bad, stream, lives, saved, faults>>
    BY <1>1 DEF IInv, BatchInv, GroupInv, NoSilentLoss, Acked
  <1>2. CASE ~UNCHANGED <<added, bad, stream, lives, saved, faults>>
    <2>1. added + 1 \in Entry
      BY <1>2, InfrastructureFails, HasRoom DEF IInv
    <2> QED
      BY <1>2, <2>1, InfrastructureFails, InfrastructureKeeps, AppendKeeps DEF IInv
  <1> QED
    BY <1>1, <1>2

LEMMA ReadKeeps ==
  ASSUME IInv, Read \/ ReadAnswerLost
  PROVE  BatchInv' /\ GroupInv' /\ NoSilentLoss'
  <1> USE DEF IInv, BatchInv, GroupInv, NoSilentLoss, Acked, Types
  <1>1. /\ stream'.group = stream.group
        /\ stream'.delivered = stream.delivered \cup Batch(stream, BatchSize)
        /\ stream'.pending = stream.pending \cup Batch(stream, BatchSize)
    BY ReadGroupFields DEF Read, ReadAnswerLost
  <1>2. stream.group /\ batch = {} /\ left = {} /\ UNCHANGED <<saved, lives, bad>>
    BY DEF Read, ReadAnswerLost, Readable
  <1>3. Batch(stream, BatchSize) \cap stream.delivered = {}
    BY BatchIsNew
  <1>4. CASE Read
    <2>1. batch' = Batch(stream, BatchSize) \ bad /\ left' = batch' /\ UNCHANGED faults
      BY <1>4 DEF Read
    <2> QED
      BY <1>1, <1>2, <1>3, <2>1
  <1>5. CASE ReadAnswerLost
    <2>1. /\ UNCHANGED <<batch, left>>
          /\ faults' = faults \cup Batch(stream, BatchSize)
      BY <1>5 DEF ReadAnswerLost
    <2> QED
      BY <1>1, <1>2, <1>3, <2>1
  <1> QED
    BY <1>4, <1>5

LEMMA NextIInv == IInv /\ [Next]_vars => IInv'
  <1> SUFFICES ASSUME IInv, [Next]_vars
               PROVE  BatchInv' /\ GroupInv' /\ NoSilentLoss'
    BY TypesNext DEF IInv
  <1> USE DEF BatchInv, GroupInv, NoSilentLoss, Acked, Drop
  <1>0. Types /\ Room /\ BatchInv /\ GroupInv /\ NoSilentLoss
    BY DEF IInv
  <1>a. ASSUME pc \in {"boot", "read", "stopped"} PROVE batch = {} /\ left = {}
    BY <1>0, <1>a DEF Types
  <1>1. CASE Add
    <2>1. added + 1 \in Entry
      BY <1>0, <1>1, HasRoom DEF Add
    <2> QED
      BY <1>1, <2>1, AppendKeeps DEF Add
  <1>2. CASE LoseGroup
    <2>1. stream'.delivered = {} /\ stream'.pending = {} /\ ~stream'.group
      BY <1>0, <1>2, WithoutGroupFields, NoStreamFields DEF LoseGroup, Types
    <2> QED
      BY <1>0, <1>2, <2>1 DEF LoseGroup
  <1>3. CASE Crash
    BY <1>0, <1>3 DEF Crash
  <1>4. CASE Boot
    <2>1. added + 1 \in Entry
      BY <1>0, <1>4, HasRoom DEF Boot
    <2> QED
      BY <1>4, <1>a, <2>1, InfrastructureKeeps DEF Boot
  <1>5. CASE BootFails
    BY <1>5, <1>a, FailureKeeps DEF BootFails
  <1>6. CASE Recreate
    <2>1. added + 1 \in Entry
      BY <1>0, <1>6, HasRoom DEF Recreate, NoGroup
    <2> QED
      BY <1>6, <1>a, <2>1, InfrastructureKeeps DEF Recreate, NoGroup
  <1>7. CASE RecreateFails
    BY <1>7, <1>a, FailureKeeps DEF RecreateFails, NoGroup
  <1>8. CASE Read \/ ReadAnswerLost
    BY <1>8, ReadKeeps
  <1>9. ASSUME NEW e \in Entry, SaveLog(e)
        PROVE  BatchInv' /\ GroupInv' /\ NoSilentLoss'
    <2>1. e \in left /\ left \subseteq batch
      BY <1>0, <1>9 DEF SaveLog, First, Types
    <2> QED
      BY <1>0, <1>9, <2>1 DEF SaveLog, Stored
  <1>10. ASSUME NEW e \in Entry, SaveLogsBatchFails(e)
         PROVE  BatchInv' /\ GroupInv' /\ NoSilentLoss'
    <2>1. e \in left /\ left \subseteq batch
      BY <1>0, <1>10 DEF SaveLogsBatchFails, First, Types
    <2> QED
      BY <1>0, <1>10, <2>1 DEF SaveLogsBatchFails, Stored
  <1>11. CASE AckBatch
    <2>1. left = {} /\ batch \subseteq saved
      BY <1>0, <1>11 DEF AckBatch, Types
    <2>2. /\ stream'.group = stream.group /\ stream'.delivered = stream.delivered
          /\ stream'.pending = stream.pending \ batch
      BY <1>0, <1>11, XAckFields DEF AckBatch, Types
    <2> QED
      BY <1>0, <1>11, <2>1, <2>2 DEF AckBatch
  <1>12. CASE AckBatchFails
    BY <1>0, <1>12 DEF AckBatchFails
  <1>13. CASE UNCHANGED vars
    BY <1>0, <1>13 DEF vars
  <1> QED
    BY <1>1, <1>2, <1>3, <1>4, <1>5, <1>6, <1>7, <1>8, <1>9, <1>10, <1>11, <1>12, <1>13
       DEF Next, Work, ReadNothing

LEMMA IInvIsInvariant == Spec => []IInv
  BY InitIInv, NextIInv, PTL DEF Spec

\* No entry of a batch is left behind without a reason, for any size of a batch.
THEOREM NothingLostSilently == Spec => []NoSilentLoss
  BY IInvIsInvariant, PTL DEF IInv

-----------------------------------------------------------------------------

LEMMA InitPromise == Init => Promise!Init
  BY DEF Init, Promise!Init, Acked, NoStream

LEMMA InfrastructurePromise ==
  ASSUME IInv, EnsureInfrastructure, added + 1 \in Entry, UNCHANGED rows
  PROVE  [Promise!Next]_(Promise!vars)
  <1> USE DEF Promise!Next, Promise!vars, Promise!Renew, IInv, Acked
  <1>1. CASE stream.group
    <2>1. /\ stream'.delivered = stream.delivered /\ stream'.pending = stream.pending
          /\ UNCHANGED <<lives, saved>>
      BY <1>1, Infrastructure
    <2> QED
      BY <2>1
  <1>2. CASE ~stream.group
    <2>1. stream'.delivered = {} /\ lives' = lives + 1 /\ saved' = {}
      BY <1>2, Infrastructure
    <2> QED
      BY <2>1
  <1> QED
    BY <1>1, <1>2

LEMMA AppendPromise ==
  ASSUME IInv, stream' = XAdd(stream, added + 1), added + 1 \in Entry,
         UNCHANGED <<rows, lives, saved>>
  PROVE  UNCHANGED Promise!vars
  BY XAddFields DEF Promise!vars, IInv, Types, Acked

LEMMA FailurePromise ==
  ASSUME IInv, EnsureInfrastructureFails, UNCHANGED rows
  PROVE  [Promise!Next]_(Promise!vars)
  <1>1. CASE UNCHANGED <<added, bad, stream, lives, saved, faults>>
    BY <1>1 DEF Promise!vars, Acked
  <1>2. CASE ~UNCHANGED <<added, bad, stream, lives, saved, faults>>
    <2>1. added + 1 \in Entry
      BY <1>2, InfrastructureFails, HasRoom DEF IInv
    <2> QED
      BY <1>2, <2>1, InfrastructureFails, InfrastructurePromise, AppendPromise DEF IInv
  <1> QED
    BY <1>1, <1>2

\* Every step of the worker and of its world is a step of Delivery or a stutter.
LEMMA NextPromise == IInv /\ [Next]_vars => [Promise!Next]_(Promise!vars)
  <1> SUFFICES ASSUME IInv, [Next]_vars PROVE [Promise!Next]_(Promise!vars)
    OBVIOUS
  <1>0. Types /\ Room /\ BatchInv /\ GroupInv
    BY DEF IInv
  <1> USE DEF Promise!Next, Promise!vars, Promise!Save, Promise!Ack, Promise!Lose, Acked
  <1>1. CASE Add
    <2>1. added + 1 \in Entry
      BY <1>0, <1>1, HasRoom DEF Add
    <2> QED
      BY <1>1, <2>1, AppendPromise DEF Add
  <1>2. CASE LoseGroup
    <2>1. stream'.delivered = {}
      BY <1>0, <1>2, WithoutGroupFields, NoStreamFields DEF LoseGroup, Types
    <2> QED
      BY <1>2, <2>1 DEF LoseGroup
  <1>3. CASE Crash
    BY <1>3 DEF Crash
  <1>4. CASE Boot \/ Recreate
    <2>1. added + 1 \in Entry
      BY <1>0, <1>4, HasRoom DEF Boot, Recreate, NoGroup
    <2> QED
      BY <1>4, <2>1, InfrastructurePromise DEF Boot, Recreate
  <1>5. CASE BootFails \/ RecreateFails
    BY <1>5, FailurePromise DEF BootFails, RecreateFails
  <1>6. CASE Read \/ ReadAnswerLost
    <2>1. /\ stream'.delivered = stream.delivered \cup Batch(stream, BatchSize)
          /\ stream'.pending = stream.pending \cup Batch(stream, BatchSize)
      BY <1>0, <1>6, ReadGroupFields DEF Read, ReadAnswerLost, Types
    <2>2. Batch(stream, BatchSize) \cap stream.delivered = {}
      BY <1>0, BatchIsNew DEF Types
    <2>3. stream.pending \subseteq stream.delivered
      BY <1>0 DEF GroupInv
    <2>4. Acked(stream)' = Acked(stream)
      BY <2>1, <2>2, <2>3
    <2> QED
      BY <1>6, <2>4 DEF Read, ReadAnswerLost
  <1>7. ASSUME NEW e \in left, Stored(e), UNCHANGED <<stream, lives>>
        PROVE  [Promise!Next]_(Promise!vars)
    <2>1. e \in Entry /\ lives > 0 /\ e \notin saved
      BY <1>0 DEF Types, BatchInv
    <2>2. Promise!Save(e)
      BY <1>7, <2>1 DEF Stored
    <2> QED
      BY <2>1, <2>2
  <1>8. ASSUME NEW e \in Entry, SaveLog(e) PROVE [Promise!Next]_(Promise!vars)
    BY <1>7, <1>8 DEF SaveLog, First
  <1>9. ASSUME NEW e \in Entry, SaveLogsBatchFails(e)
        PROVE  [Promise!Next]_(Promise!vars)
    BY <1>7, <1>9 DEF SaveLogsBatchFails, First
  <1>10. CASE AckBatch
    <2> DEFINE E == stream.delivered \cap batch
    <2>1. /\ stream'.delivered = stream.delivered
          /\ stream'.pending = stream.pending \ batch
      BY <1>0, <1>10, XAckFields DEF AckBatch, Types
    <2>2. E \subseteq saved /\ E \in SUBSET Entry
      BY <1>0, <1>10 DEF AckBatch, Types, BatchInv
    <2>3. Acked(stream)' = Acked(stream) \cup E
      BY <2>1
    <2>4. Promise!Ack(E)
      BY <1>10, <2>2, <2>3 DEF AckBatch
    <2> QED
      BY <2>2, <2>4
  <1>11. CASE AckBatchFails
    BY <1>11 DEF AckBatchFails
  <1>12. CASE UNCHANGED vars
    BY <1>12 DEF vars
  <1> QED
    BY <1>1, <1>2, <1>3, <1>4, <1>5, <1>6, <1>8, <1>9, <1>10, <1>11, <1>12
       DEF Next, Work, ReadNothing

\* The worker keeps the promise of Delivery: saved before acknowledged, and saved at
\* most once for each time the group was created, with batches that fail half-way,
\* groups that are created again, and crashes.
THEOREM WorkerDelivers == Spec => Delivers
  BY InitPromise, NextPromise, IInvIsInvariant, PTL DEF Spec, Delivers, Promise!Spec

(***************************************************************************)
(* What the promise comes to.                                              *)
(***************************************************************************)

\* An entry that is not saved since the group was created has a row less to its name.
Owing == \A e \in Entry : e \notin saved /\ lives > 0 => rows[e] < lives

PromiseInv == Promise!TypeOK /\ Promise!AckedAreSaved /\ Promise!RowsBounded /\ Owing

LEMMA InitPromiseInv == Promise!Init => PromiseInv
  BY DEF Promise!Init, PromiseInv, Promise!TypeOK, Promise!AckedAreSaved, Promise!RowsBounded,
         Owing

LEMMA NextPromiseInv == PromiseInv /\ [Promise!Next]_(Promise!vars) => PromiseInv'
  <1> SUFFICES ASSUME PromiseInv, [Promise!Next]_(Promise!vars) PROVE PromiseInv'
    OBVIOUS
  <1> USE DEF PromiseInv, Promise!TypeOK, Promise!AckedAreSaved, Promise!RowsBounded, Owing
  <1>1. ASSUME NEW e \in Entry, Promise!Save(e) PROVE PromiseInv'
    <2>1. /\ saved' = saved \cup {e} /\ UNCHANGED <<lives, Acked(stream)>>
          /\ rows' = [rows EXCEPT ![e] = rows[e] + 1]
          /\ rows[e] < lives
      BY <1>1 DEF Promise!Save
    <2> QED
      BY <2>1
  <1>2. ASSUME NEW E \in SUBSET Entry, Promise!Ack(E) PROVE PromiseInv'
    BY <1>2 DEF Promise!Ack
  <1>3. CASE Promise!Lose
    BY <1>3 DEF Promise!Lose
  <1>4. CASE Promise!Renew
    BY <1>4 DEF Promise!Renew
  <1>5. CASE UNCHANGED Promise!vars
    BY <1>5 DEF Promise!vars
  <1> QED
    BY <1>1, <1>2, <1>3, <1>4, <1>5 DEF Promise!Next

LEMMA PromiseIsKept == Delivers => []PromiseInv
  BY InitPromiseInv, NextPromiseInv, PTL DEF Delivers, Promise!Spec

\* The audit-service acknowledges nothing that it has not saved.
THEOREM AcknowledgedIsSaved == Spec => []Promise!AckedAreSaved
  BY WorkerDelivers, PromiseIsKept, PTL DEF PromiseInv

\* It writes an entry no more often than the group was created: a row too many needs a
\* group that was lost.
THEOREM RowsAreBounded == Spec => []Promise!RowsBounded
  BY WorkerDelivers, PromiseIsKept, PTL DEF PromiseInv
-----------------------------------------------------------------------------

\* What was handed out is older than what was not; what is left of the batch is
\* younger than what is saved.
OrderInv ==
  /\ stream.entries \subseteq 1..added /\ stream.delivered \subseteq 1..added
  /\ \A f \in stream.delivered, e \in Undelivered(stream) : f < e
  /\ \A f \in saved \cap stream.delivered, e \in left : f < e

\* An entry that is added is the youngest.
LEMMA AppendOrder ==
  ASSUME OrderInv, stream \in StreamOf(Entry), added \in Nat, added + 1 \in Entry
  PROVE  LET s == XAdd(stream, added + 1)
         IN  /\ s.entries \subseteq 1..(added + 1) /\ s.delivered \subseteq 1..(added + 1)
             /\ \A f \in s.delivered, e \in Undelivered(s) : f < e
             /\ s.delivered = stream.delivered /\ s.group = stream.group
             /\ s \in StreamOf(Entry)
  <1> DEFINE s == XAdd(stream, added + 1)
  <1>1. /\ s.entries = stream.entries \cup {added + 1} /\ s.delivered = stream.delivered
        /\ s.group = stream.group /\ s \in StreamOf(Entry)
    BY XAddFields
  <1> HIDE DEF s
  <1>2. s.entries \subseteq 1..(added + 1) /\ s.delivered \subseteq 1..(added + 1)
    BY <1>1 DEF OrderInv
  <1>3. \A f \in s.delivered, e \in Undelivered(s) : f < e
    BY <1>1 DEF OrderInv, Undelivered
  <1> QED
    BY <1>1, <1>2, <1>3 DEF s

LEMMA InfrastructureOrder ==
  ASSUME IInv, OrderInv, EnsureInfrastructure, added + 1 \in Entry, left = {}, left' = {}
  PROVE  OrderInv'
  <1> DEFINE s == XAdd(stream, added + 1)
  <1>1. /\ s.entries \subseteq 1..(added + 1) /\ s.delivered \subseteq 1..(added + 1)
        /\ \A f \in s.delivered, e \in Undelivered(s) : f < e
        /\ s \in StreamOf(Entry)
    BY AppendOrder DEF IInv, Types
  <1>2. stream' = EnsureGroup(s) /\ added' = added + 1
    BY DEF EnsureInfrastructure, SendBootstrap
  <1> HIDE DEF s
  <1>3. stream' = s \/ (stream'.entries = s.entries /\ stream'.delivered = {})
    BY <1>1, <1>2, EnsureGroupFields
  <1> QED
    BY <1>1, <1>2, <1>3 DEF OrderInv

LEMMA FailureOrder ==
  ASSUME IInv, OrderInv, EnsureInfrastructureFails, left = {}, left' = {}
  PROVE  OrderInv'
  <1>1. CASE UNCHANGED <<added, bad, stream, lives, saved, faults>>
    BY <1>1 DEF OrderInv
  <1>2. CASE ~UNCHANGED <<added, bad, stream, lives, saved, faults>>
    <2>1. added + 1 \in Entry
      BY <1>2, InfrastructureFails, HasRoom DEF IInv
    <2>2. CASE EnsureInfrastructure
      BY <2>1, <2>2, InfrastructureOrder
    <2>3. CASE stream' = XAdd(stream, added + 1) /\ added' = added + 1
      BY <2>1, <2>3, AppendOrder DEF OrderInv, IInv, Types
    <2> QED
      BY <1>2, <2>2, <2>3, InfrastructureFails DEF IInv
  <1> QED
    BY <1>1, <1>2

LEMMA NextOrderInv == IInv /\ OrderInv /\ [Next]_vars => OrderInv'
  <1> SUFFICES ASSUME IInv, OrderInv, [Next]_vars PROVE OrderInv'
    OBVIOUS
  <1>0. /\ stream \in StreamOf(Entry) /\ added \in Nat /\ saved \subseteq Entry
        /\ left \subseteq Entry /\ Entry \in SUBSET Int /\ IsFiniteSet(Entry)
        /\ left # {} => pc = "save"
    <2>1. Entry \in SUBSET Int /\ IsFiniteSet(Entry)
      BY BoundsAssumption, FS_Interval DEF Entry
    <2> QED
      BY <2>1 DEF IInv, Types
  <1>1. CASE Add
    <2>1. added + 1 \in Entry
      BY <1>1, HasRoom DEF Add, IInv
    <2> QED
      BY <1>0, <1>1, <2>1, AppendOrder DEF Add, OrderInv
  <1> USE DEF OrderInv
  <1>2. CASE LoseGroup
    <2>1. /\ stream'.delivered = {} /\ stream'.entries \subseteq stream.entries
          /\ UNCHANGED added
      BY <1>0, <1>2, WithoutGroupFields, NoStreamFields DEF LoseGroup
    <2> QED
      BY <2>1
  <1>3. CASE Crash \/ AckBatchFails
    BY <1>3 DEF Crash, AckBatchFails, Drop
  <1>4. CASE Boot \/ Recreate
    <2>1. left = {} /\ left' = {} /\ EnsureInfrastructure
      BY <1>0, <1>4 DEF Boot, Recreate, NoGroup
    <2>2. added + 1 \in Entry
      BY <1>4, HasRoom DEF Boot, Recreate, NoGroup, IInv
    <2> QED
      BY <2>1, <2>2, InfrastructureOrder
  <1>5. CASE BootFails \/ RecreateFails
    BY <1>0, <1>5, FailureOrder DEF BootFails, RecreateFails, NoGroup
  <1>6. CASE Read \/ ReadAnswerLost
    <2>1. /\ stream'.entries = stream.entries
          /\ stream'.delivered = stream.delivered \cup Batch(stream, BatchSize)
          /\ stream.group /\ left' \subseteq Batch(stream, BatchSize)
          /\ UNCHANGED <<saved, added>>
      BY <1>0, <1>6, ReadGroupFields DEF Read, ReadAnswerLost, Readable
    <2>2. saved \subseteq stream.delivered
      BY <2>1 DEF IInv, GroupInv
    <2>3. \A f \in Batch(stream, BatchSize),
             e \in Undelivered(stream) \ Batch(stream, BatchSize) : f < e
      BY <1>0, BatchIsOldest, BoundsAssumption
    <2>4. Batch(stream, BatchSize) \subseteq Undelivered(stream)
      BY DEF Batch
    <2>5. stream'.delivered \subseteq 1..added'
      BY <2>1, <2>4 DEF Undelivered
    <2>6. Undelivered(stream') = Undelivered(stream) \ Batch(stream, BatchSize)
      BY <2>1 DEF Undelivered
    <2>7. \A f \in stream'.delivered, e \in Undelivered(stream') : f < e
      BY <2>1, <2>3, <2>6
    <2>8. \A f \in saved' \cap stream'.delivered, e \in left' : f < e
      BY <2>1, <2>2, <2>4
    <2> QED
      BY <2>1, <2>5, <2>7, <2>8
  <1>7. ASSUME NEW e \in Entry, SaveLog(e) PROVE OrderInv'
    <2>1. /\ e \in left /\ \A g \in left \ {e} : e < g
          /\ left' = left \ {e} /\ saved' = saved \cup {e} /\ UNCHANGED <<stream, added>>
      BY <1>0, <1>7 DEF SaveLog, Stored, First
    <2> QED
      BY <2>1
  <1>8. ASSUME NEW e \in Entry, SaveLogsBatchFails(e) PROVE OrderInv'
    BY <1>8 DEF SaveLogsBatchFails, Drop
  <1>9. CASE AckBatch
    BY <1>0, <1>9, XAckFields DEF AckBatch, Drop, Undelivered
  <1>10. CASE UNCHANGED vars
    BY <1>10 DEF vars
  <1> QED
    BY <1>1, <1>2, <1>3, <1>4, <1>5, <1>6, <1>7, <1>8, <1>9, <1>10
    DEF Next, Work, ReadNothing

LEMMA StepInOrder ==
  IInv /\ OrderInv /\ [Next]_vars
    => [\A e \in saved' \ saved : \A f \in saved \cap stream.delivered : f < e]_vars
  <1> SUFFICES ASSUME IInv, OrderInv, Next, NEW e \in saved' \ saved
               PROVE  \A f \in saved \cap stream.delivered : f < e
    OBVIOUS
  <1>1. e \in left
    <2>1. PICK d \in Entry : SaveLog(d) \/ SaveLogsBatchFails(d)
      BY DEF Next, Work, Add, LoseGroup, Crash, Boot, BootFails, Recreate, RecreateFails,
             EnsureInfrastructure, EnsureInfrastructureFails, Read, ReadNothing,
             ReadAnswerLost, AckBatch, AckBatchFails, vars
    <2> QED
      BY <2>1 DEF SaveLog, SaveLogsBatchFails, Stored, First
  <1> QED
    BY <1>1 DEF OrderInv

\* SaveLogsBatch writes the entries of a stream in the order they were added,
\* whatever fails in between, for batches of any size.
THEOREM WrittenInOrder == Spec => InOrder
  <1>1. Init => OrderInv
    BY DEF Init, OrderInv, NoStream, Undelivered
  <1> QED
    BY <1>1, NextOrderInv, StepInOrder, IInvIsInvariant, PTL DEF Spec, InOrder
=============================================================================
