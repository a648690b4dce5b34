----------------------- MODULE NotificationWorkerProofs -----------------------
(***************************************************************************)
(* Proofs about the notification worker, for all values of its bounds.     *)
(***************************************************************************)
EXTENDS NotificationWorker, RedisStreamProofs

LEMMA TypesInit == Init => TypeOK
  <1>1. NoStream \in StreamOf(Entry)
    BY NoStreamFields
  <1> QED
    BY <1>1, BoundsAssumption DEF Init, TypeOK, Step

LEMMA TypesNext == TypeOK /\ [Next]_vars => TypeOK'
  <1> SUFFICES ASSUME TypeOK, [Next]_vars PROVE TypeOK'
    OBVIOUS
  <1> USE BoundsAssumption DEF TypeOK, Step
  <1>1. ASSUME Add PROVE TypeOK'
    <2>1. /\ added \in Nat /\ added' = added + 1 /\ added' \in 0..MaxEntries
          /\ added' \in Entry
      BY <1>1 DEF Add, Entry
    <2>2. stream' \in StreamOf(Entry)
      BY <1>1, <2>1, XAddFields DEF Add
    <2>3. bad' \subseteq 1..added'
      BY <1>1, <2>1 DEF Add
    <2> QED
      BY <1>1, <2>1, <2>2, <2>3 DEF Add
  <1>2. ASSUME LoseGroup PROVE TypeOK'
    <2>1. stream' \in StreamOf(Entry)
      <3>1. WithoutGroup(stream) \in StreamOf(Entry) /\ NoStream \in StreamOf(Entry)
        BY WithoutGroupFields, NoStreamFields
      <3> QED
        BY <1>2, <3>1 DEF LoseGroup
    <2> QED
      BY <1>2, <2>1 DEF LoseGroup
  <1>3. ASSUME Crash PROVE TypeOK'
    <2>1. crashes' \in Nat /\ pc' \in Step /\ hand' = {} /\ faults' \subseteq Entry
      BY <1>3 DEF Crash
    <2> QED
      BY <1>3, <2>1 DEF Crash
  <1>a. ASSUME CreateGroup
        PROVE  /\ stream' \in StreamOf(Entry) /\ lives' \in Nat
               /\ saved' \subseteq Entry /\ faults' \subseteq Entry
    <2>1. EnsureGroup(stream) \in StreamOf(Entry)
      BY EnsureGroupFields
    <2> QED
      BY <1>a, <2>1 DEF CreateGroup
  <1>4. ASSUME Boot PROVE TypeOK'
    BY <1>4, <1>a DEF Boot
  <1>5. ASSUME BootFails PROVE TypeOK'
    BY <1>5, <1>a DEF BootFails
  <1>6. ASSUME Read PROVE TypeOK'
    BY <1>6, BatchIsNew, ReadGroupFields DEF Read
  <1>7. ASSUME ReadAnswerLost PROVE TypeOK'
    BY <1>7, BatchIsNew, ReadGroupFields DEF ReadAnswerLost
  <1>8. ASSUME NEW e \in Entry, Handle(e) PROVE TypeOK'
    <2>1. CASE Skip(e)
      BY <2>1 DEF Skip, Continue, First
    <2>2. CASE Save(e)
      BY <2>2 DEF Save, Stored, First
    <2>3. CASE SaveFails(e)
      BY <2>3 DEF SaveFails, Stored, Continue, First
    <2>4. CASE Ack(e)
      BY <2>4, XAckFields DEF Ack, Continue, First
    <2>5. CASE AckFails(e)
      BY <2>5 DEF AckFails, Continue, First
    <2> QED
      BY <1>8, <2>1, <2>2, <2>3, <2>4, <2>5 DEF Handle
  <1>9. ASSUME UNCHANGED vars PROVE TypeOK'
    BY <1>9 DEF vars
  <1> QED
    BY <1>1, <1>2, <1>3, <1>4, <1>5, <1>6, <1>7, <1>8, <1>9 DEF Next, Work, ReadNothing

\* The types of the variables, for every number of entries, groups and crashes.
THEOREM TypeCorrect == Spec => []TypeOK
  BY TypesInit, TypesNext, PTL DEF Spec

-----------------------------------------------------------------------------

\* What is in hand was handed out, and nothing of it is saved but the entry that is
\* about to be acknowledged; as long as the group exists it is pending.
HandInv ==
  /\ hand # {} => lives > 0
  /\ stream.group => hand \subseteq stream.delivered
  /\ \A e \in hand : e \in saved <=> pc = "ack" /\ First(e, hand)

\* What the group has seen acknowledged is saved, and what it has still to hand out is
\* not.
GroupInv ==
  /\ ~stream.group => stream.delivered = {} /\ stream.pending = {}
  /\ stream.group => lives > 0 /\ saved \subseteq stream.delivered
  /\ stream.pending \subseteq stream.delivered
  /\ Acked(stream) \subseteq saved

IInv == TypeOK /\ HandInv /\ GroupInv

LEMMA InitIInv == Init => IInv
  BY TypesInit DEF Init, IInv, HandInv, GroupInv, Acked, NoStream

\* The steps that are none of the worker's loop.
LEMMA OutsideKeeps ==
  ASSUME IInv, Add \/ LoseGroup \/ Crash \/ Boot \/ BootFails
  PROVE  HandInv' /\ GroupInv'
  <1> USE DEF IInv, HandInv, GroupInv, Acked, TypeOK, First
  <1>1. CASE Add
    <2>1. added + 1 \in Entry
      BY <1>1, BoundsAssumption DEF Add, Entry
    <2>2. /\ stream'.group = stream.group /\ stream'.delivered = stream.delivered
          /\ stream'.pending = stream.pending
      BY <1>1, <2>1, XAddFields DEF Add
    <2> QED
      BY <1>1, <2>2 DEF Add
  <1>2. CASE LoseGroup
    BY <1>2, WithoutGroupFields, NoStreamFields DEF LoseGroup
  <1>3. CASE Crash
    BY <1>3 DEF Crash
  <1>4. ASSUME CreateGroup PROVE GroupInv'
    <2>1. CASE stream.group
      BY <1>4, <2>1, EnsureGroupFields DEF CreateGroup
    <2>2. CASE ~stream.group
      <3>1. /\ stream'.group /\ stream'.delivered = {} /\ stream'.pending = {}
        BY <1>4, <2>2, EnsureGroupFields DEF CreateGroup
      <3>2. saved' = {} /\ lives' > 0
        BY <1>4, <2>2 DEF CreateGroup
      <3> QED
        BY <3>1, <3>2
    <2> QED
      BY <2>1, <2>2
  <1>5. CASE Boot
    BY <1>4, <1>5 DEF Boot
  <1>6. CASE BootFails
    BY <1>4, <1>6 DEF BootFails
  <1> QED
    BY <1>1, <1>2, <1>3, <1>5, <1>6

\* Reading: what is handed out was not saved since the group was created.
LEMMA ReadKeeps ==
  ASSUME IInv, Read \/ ReadAnswerLost
  PROVE  HandInv' /\ GroupInv'
  <1> USE DEF IInv, HandInv, GroupInv, Acked, TypeOK
  <1>1. /\ stream'.group = stream.group
        /\ stream'.delivered = stream.delivered \cup Batch(stream, Count)
        /\ stream'.pending = stream.pending \cup Batch(stream, Count)
    BY ReadGroupFields DEF Read, ReadAnswerLost
  <1>2. stream.group /\ pc = "read" /\ hand = {} /\ UNCHANGED <<saved, lives>>
    BY DEF Read, ReadAnswerLost, Readable
  <1>3. Batch(stream, Count) \cap stream.delivered = {}
    BY BatchIsNew
  <1>4. GroupInv'
    BY <1>1, <1>2
  <1>5. CASE Read
    <2>1. hand' = Batch(stream, Count) /\ pc' # "ack"
      BY <1>5 DEF Read
    <2> QED
      BY <1>1, <1>2, <1>3, <1>4, <2>1
  <1>6. CASE ReadAnswerLost
    <2>1. hand' = {}
      BY <1>2, <1>6 DEF ReadAnswerLost
    <2> QED
      BY <1>4, <2>1
  <1> QED
    BY <1>5, <1>6

\* Going on from the first entry in hand, which is no other.
LEMMA ContinueKeeps ==
  ASSUME IInv, NEW e \in hand, First(e, hand), Continue(e),
         saved' \subseteq saved \cup {e}, UNCHANGED lives, stream'.group = stream.group,
         stream'.delivered = stream.delivered, saved \subseteq saved'
  PROVE  HandInv'
  <1>1. hand' = hand \ {e} /\ pc' # "ack"
    BY DEF Continue
  <1>2. \A f \in hand' : f \notin saved'
    <2> SUFFICES ASSUME NEW f \in hand' PROVE f \notin saved
      BY <1>1
    <2>1. f \in hand /\ f # e
      BY <1>1
    <2>2. e \in Int /\ f \in Int
      BY <2>1 DEF IInv, TypeOK, Entry
    <2>3. ~First(f, hand)
      BY <2>1, <2>2 DEF First
    <2> QED
      BY <2>1, <2>3 DEF IInv, HandInv
  <1> QED
    BY <1>1, <1>2 DEF IInv, HandInv

LEMMA HandleKeeps ==
  ASSUME IInv, NEW e \in Entry, Handle(e)
  PROVE  HandInv' /\ GroupInv'
  <1> USE DEF IInv, GroupInv, Acked, TypeOK
  <1>1. e \in hand /\ First(e, hand)
    BY DEF Handle, Skip, Save, SaveFails, Ack, AckFails, First
  <1>2. stream.group => hand \subseteq stream.delivered
    BY DEF HandInv
  <1>3. CASE Skip(e)
    BY <1>1, <1>3, ContinueKeeps DEF Skip
  <1>4. CASE Save(e)
    <2>1. /\ pc' = "ack" /\ UNCHANGED <<stream, hand, lives>>
          /\ saved' = saved \cup {e} /\ pc = "entry"
      BY <1>4 DEF Save, Stored
    <2>2. GroupInv'
      BY <1>1, <1>2, <2>1
    <2>3. \A f \in hand : First(f, hand) => f = e
      BY <1>1 DEF First, Entry
    <2>4. HandInv'
      BY <1>1, <2>1, <2>3 DEF HandInv, First
    <2> QED
      BY <2>2, <2>4
  <1>5. CASE SaveFails(e)
    <2>1. /\ UNCHANGED <<stream, lives>> /\ Continue(e)
          /\ saved \subseteq saved' /\ saved' \subseteq saved \cup {e}
      BY <1>5 DEF SaveFails, Stored
    <2>2. GroupInv'
      BY <1>1, <1>2, <2>1
    <2> QED
      BY <1>1, <2>1, <2>2, ContinueKeeps
  <1>6. CASE Ack(e)
    <2>1. /\ stream'.group = stream.group /\ stream'.delivered = stream.delivered
          /\ stream'.pending = stream.pending \ {e}
      BY <1>6, XAckFields DEF Ack
    <2>2. /\ UNCHANGED <<saved, lives>> /\ Continue(e) /\ e \in saved
      BY <1>1, <1>6 DEF Ack, HandInv
    <2>3. GroupInv'
      BY <2>1, <2>2
    <2> QED
      BY <1>1, <2>1, <2>2, <2>3, ContinueKeeps
  <1>7. CASE AckFails(e)
    BY <1>1, <1>7, ContinueKeeps DEF AckFails
  <1> QED
    BY <1>3, <1>4, <1>5, <1>6, <1>7 DEF Handle

LEMMA NextIInv == IInv /\ [Next]_vars => IInv'
  <1> SUFFICES ASSUME IInv, [Next]_vars PROVE HandInv' /\ GroupInv'
    BY TypesNext DEF IInv
  <1>1. CASE UNCHANGED vars
    BY <1>1 DEF vars, IInv, HandInv, GroupInv
  <1> QED
    BY <1>1, OutsideKeeps, ReadKeeps, HandleKeeps DEF Next, Work, ReadNothing

LEMMA IInvIsInvariant == Spec => []IInv
  BY InitIInv, NextIInv, PTL DEF Spec

-----------------------------------------------------------------------------

LEMMA InitPromise == Init => Promise!Init
  BY DEF Init, Promise!Init, Acked, NoStream

\* Every step of the worker and of its world is a step of Delivery or a stutter.
LEMMA NextPromise == IInv /\ [Next]_vars => [Promise!Next]_(Promise!vars)
  <1> SUFFICES ASSUME IInv, [Next]_vars PROVE [Promise!Next]_(Promise!vars)
    OBVIOUS
  <1> USE DEF Promise!Next, Promise!vars, Promise!Save, Promise!Ack, Promise!Lose,
              Promise!Renew, IInv, TypeOK, HandInv, GroupInv, Acked
  <1>1. CASE Add
    <2>1. added + 1 \in Entry
      BY <1>1, BoundsAssumption DEF Add, Entry
    <2> QED
      BY <1>1, <2>1, XAddFields DEF Add
  <1>2. CASE LoseGroup
    <2>1. stream'.delivered = {}
      BY <1>2, WithoutGroupFields, NoStreamFields DEF LoseGroup
    <2> QED
      BY <1>2, <2>1 DEF LoseGroup
  <1>3. CASE Crash
    BY <1>3 DEF Crash
  <1>4. ASSUME CreateGroup, UNCHANGED rows PROVE [Promise!Next]_(Promise!vars)
    <2>1. CASE stream.group
      BY <1>4, <2>1, EnsureGroupFields DEF CreateGroup
    <2>2. CASE ~stream.group
      <3>1. stream'.delivered = {}
        BY <1>4, <2>2, EnsureGroupFields DEF CreateGroup
      <3> QED
        BY <1>4, <2>2, <3>1 DEF CreateGroup
    <2> QED
      BY <2>1, <2>2
  <1>5. CASE Boot
    BY <1>4, <1>5 DEF Boot
  <1>6. CASE BootFails
    BY <1>4, <1>6 DEF BootFails
  <1>7. CASE Read \/ ReadAnswerLost
    <2>1. /\ stream'.delivered = stream.delivered \cup Batch(stream, Count)
          /\ stream'.pending = stream.pending \cup Batch(stream, Count)
      BY <1>7, ReadGroupFields DEF Read, ReadAnswerLost
    <2>2. Batch(stream, Count) \cap stream.delivered = {}
      BY BatchIsNew
    <2>3. Acked(stream)' = Acked(stream)
      BY <2>1, <2>2
    <2> QED
      BY <1>7, <2>3 DEF Read, ReadAnswerLost
  <1>8. ASSUME NEW e \in Entry, Handle(e) PROVE [Promise!Next]_(Promise!vars)
    <2>0. e \in hand /\ First(e, hand)
      BY <1>8 DEF Handle, Skip, Save, SaveFails, Ack, AckFails, First
    <2>1. ASSUME Stored(e), UNCHANGED <<stream, lives>>, pc = "entry"
          PROVE  Promise!Save(e)
      BY <2>0, <2>1 DEF Stored
    <2>2. CASE Skip(e)
      BY <2>2 DEF Skip
    <2>3. CASE Save(e)
      BY <2>1, <2>3 DEF Save
    <2>4. CASE SaveFails(e)
      BY <2>1, <2>4 DEF SaveFails
    <2>5. CASE Ack(e)
      <3>1. /\ stream'.delivered = stream.delivered
            /\ stream'.pending = stream.pending \ {e}
        BY <2>5, XAckFields DEF Ack
      <3>2. e \in saved
        BY <2>0, <2>5 DEF Ack
      <3>3. Acked(stream)' = Acked(stream) \cup (stream.delivered \cap {e})
        BY <3>1
      <3>4. Promise!Ack(stream.delivered \cap {e})
        BY <2>5, <3>2, <3>3 DEF Ack
      <3>5. stream.delivered \cap {e} \in SUBSET Entry
        OBVIOUS
      <3> QED
        BY <3>4, <3>5
    <2>6. CASE AckFails(e)
      BY <2>6 DEF AckFails
    <2> QED
      BY <1>8, <2>2, <2>3, <2>4, <2>5, <2>6 DEF Handle
  <1>9. CASE UNCHANGED vars
    BY <1>9 DEF vars
  <1> QED
    BY <1>1, <1>2, <1>3, <1>5, <1>6, <1>7, <1>8, <1>9 DEF Next, Work, ReadNothing

\* The worker keeps the promise of Delivery: saved before acknowledged, and saved at
\* most once for each time the group was created, whatever fails and whenever the
\* service stops.
THEOREM WorkerDelivers == Spec => Delivers
  BY InitPromise, NextPromise, IInvIsInvariant, PTL DEF Spec, Delivers, Promise!Spec

(***************************************************************************)
(* What the promise comes to.                                              *)
(***************************************************************************)

\* An entry that is not saved since the group was created has a row less to its name.
Owing == \A e \in Entry : e \notin saved /\ lives > 0 => rows[e] < lives

PromiseInv == Promise!TypeOK /\ Promise!AckedAreSaved /\ Promise!RowsBounded /\ Owing

LEMMA InitPromiseInv == Promise!Init => PromiseInv
  BY DEF Promise!Init, PromiseInv, Promise!TypeOK, Promise!AckedAreSaved, Promise!RowsBounded,
         Owing

LEMMA NextPromiseInv == PromiseInv /\ [Promise!Next]_(Promise!vars) => PromiseInv'
  <1> SUFFICES ASSUME PromiseInv, [Promise!Next]_(Promise!vars) PROVE PromiseInv'
    OBVIOUS
  <1> USE DEF PromiseInv, Promise!TypeOK, Promise!AckedAreSaved, Promise!RowsBounded, Owing
  <1>1. ASSUME NEW e \in Entry, Promise!Save(e) PROVE PromiseInv'
    <2>1. /\ saved' = saved \cup {e} /\ UNCHANGED <<lives, Acked(stream)>>
          /\ rows' = [rows EXCEPT ![e] = rows[e] + 1]
          /\ rows[e] < lives
      BY <1>1 DEF Promise!Save
    <2> QED
      BY <2>1
  <1>2. ASSUME NEW E \in SUBSET Entry, Promise!Ack(E) PROVE PromiseInv'
    BY <1>2 DEF Promise!Ack
  <1>3. CASE Promise!Lose
    BY <1>3 DEF Promise!Lose
  <1>4. CASE Promise!Renew
    BY <1>4 DEF Promise!Renew
  <1>5. CASE UNCHANGED Promise!vars
    BY <1>5 DEF Promise!vars
  <1> QED
    BY <1>1, <1>2, <1>3, <1>4, <1>5 DEF Promise!Next

LEMMA PromiseIsKept == Delivers => []PromiseInv
  BY InitPromiseInv, NextPromiseInv, PTL DEF Delivers, Promise!Spec

\* The notification-service acknowledges nothing that it has not saved.
THEOREM AcknowledgedIsSaved == Spec => []Promise!AckedAreSaved
  BY WorkerDelivers, PromiseIsKept, PTL DEF PromiseInv

\* It writes an entry no more often than the group was created: a row too many needs a
\* group that was lost.
THEOREM RowsAreBounded == Spec => []Promise!RowsBounded
  BY WorkerDelivers, PromiseIsKept, PTL DEF PromiseInv
-----------------------------------------------------------------------------

LEMMA NextNoSilentLoss == IInv /\ NoSilentLoss /\ [Next]_vars => NoSilentLoss'
  <1> SUFFICES ASSUME IInv, NoSilentLoss, [Next]_vars PROVE NoSilentLoss'
    OBVIOUS
  <1> USE DEF NoSilentLoss, IInv, TypeOK
  <1>1. CASE Add
    <2>1. added + 1 \in Entry
      BY <1>1, BoundsAssumption DEF Add, Entry
    <2> QED
      BY <1>1, <2>1, XAddFields DEF Add
  <1>2. CASE LoseGroup
    <2>1. stream'.pending = {}
      BY <1>2, WithoutGroupFields, NoStreamFields DEF LoseGroup
    <2> QED
      BY <2>1
  <1>3. CASE Crash
    BY <1>3 DEF Crash
  <1>4. ASSUME CreateGroup, UNCHANGED <<hand, bad>> PROVE NoSilentLoss'
    BY <1>4, EnsureGroupFields DEF CreateGroup
  <1>5. CASE Boot
    BY <1>4, <1>5 DEF Boot
  <1>6. CASE BootFails
    BY <1>4, <1>6 DEF BootFails
  <1>7. CASE Read \/ ReadAnswerLost
    <2>1. stream'.pending = stream.pending \cup Batch(stream, Count)
      BY <1>7, ReadGroupFields DEF Read, ReadAnswerLost
    <2>2. hand = {}
      BY <1>7 DEF Read, ReadAnswerLost
    <2> QED
      BY <1>7, <2>1, <2>2 DEF Read, ReadAnswerLost
  <1>8. ASSUME NEW e \in Entry, Handle(e) PROVE NoSilentLoss'
    <2>1. CASE Ack(e)
      <3>1. stream'.pending = stream.pending \ {e}
        BY <2>1, XAckFields DEF Ack
      <3> QED
        BY <2>1, <3>1 DEF Ack, Continue
    <2>2. CASE ~Ack(e)
      BY <1>8, <2>2 DEF Handle, Skip, Save, SaveFails, AckFails, Continue
    <2> QED
      BY <2>1, <2>2
  <1>9. CASE UNCHANGED vars
    BY <1>9 DEF vars
  <1> QED
    BY <1>1, <1>2, <1>3, <1>5, <1>6, <1>7, <1>8, <1>9 DEF Next, Work, ReadNothing

\* No entry is left behind without a reason, for any number of entries and any
\* length of a read.
THEOREM NothingLostSilently == Spec => []NoSilentLoss
  <1>1. Init => NoSilentLoss
    BY DEF Init, NoSilentLoss, NoStream
  <1> QED
    BY <1>1, NextNoSilentLoss, IInvIsInvariant, PTL DEF Spec
-----------------------------------------------------------------------------

\* What was handed out is older than what was not; what is in hand and not saved is
\* younger than what is saved.
OrderInv ==
  /\ stream.entries \subseteq 1..added /\ stream.delivered \subseteq 1..added
  /\ \A f \in stream.delivered, e \in Undelivered(stream) : f < e
  /\ \A f \in saved \cap stream.delivered, e \in hand \ saved : f < e

LEMMA NextOrderInv == IInv /\ OrderInv /\ [Next]_vars => OrderInv'
  <1> SUFFICES ASSUME IInv, OrderInv, [Next]_vars PROVE OrderInv'
    OBVIOUS
  <1> USE DEF OrderInv
  <1>0. /\ stream \in StreamOf(Entry) /\ added \in Nat /\ saved \subseteq Entry
        /\ hand \subseteq Entry /\ Entry \in SUBSET Int /\ IsFiniteSet(Entry)
        /\ hand # {} => pc \in {"entry", "ack"}
    <2>1. Entry \in SUBSET Int /\ IsFiniteSet(Entry)
      BY BoundsAssumption, FS_Interval DEF Entry
    <2> QED
      BY <2>1 DEF IInv, TypeOK
  <1>1. CASE Add
    <2>1. added + 1 \in Entry
      BY <1>1, BoundsAssumption DEF Add, Entry, IInv, TypeOK
    <2>2. /\ stream'.entries = stream.entries \cup {added + 1}
          /\ stream'.delivered = stream.delivered
          /\ added' = added + 1 /\ UNCHANGED <<saved, hand>>
      BY <1>0, <1>1, <2>1, XAddFields DEF Add
    <2>3. \A f \in stream.delivered : f < added + 1
      BY <1>0
    <2> QED
      BY <1>0, <2>2, <2>3 DEF Undelivered
  <1>2. CASE LoseGroup
    <2>1. /\ stream'.delivered = {} /\ stream'.entries \subseteq stream.entries
          /\ UNCHANGED added
      BY <1>0, <1>2, WithoutGroupFields, NoStreamFields DEF LoseGroup
    <2> QED
      BY <2>1
  <1>3. CASE Crash
    BY <1>3 DEF Crash
  <1>4. ASSUME CreateGroup, UNCHANGED <<hand, added>>, hand = {} PROVE OrderInv'
    <2>1. CASE stream.group
      BY <1>0, <1>4, <2>1, EnsureGroupFields DEF CreateGroup
    <2>2. CASE ~stream.group
      <3>1. stream'.delivered = {} /\ stream'.entries = stream.entries
        BY <1>0, <1>4, <2>2, EnsureGroupFields DEF CreateGroup
      <3> QED
        BY <1>4, <3>1
    <2> QED
      BY <2>1, <2>2
  <1>5. CASE Boot
    BY <1>0, <1>4, <1>5 DEF Boot
  <1>6. CASE BootFails
    BY <1>0, <1>4, <1>6 DEF BootFails
  <1>7. CASE Read \/ ReadAnswerLost
    <2>1. /\ stream'.entries = stream.entries
          /\ stream'.delivered = stream.delivered \cup Batch(stream, Count)
          /\ stream.group /\ hand' \subseteq Batch(stream, Count)
          /\ UNCHANGED <<saved, added>>
      BY <1>0, <1>7, ReadGroupFields DEF Read, ReadAnswerLost, Readable
    <2>2. saved \subseteq stream.delivered
      BY <2>1 DEF IInv, GroupInv
    <2>3. \A f \in Batch(stream, Count), e \in Undelivered(stream) \ Batch(stream, Count) :
            f < e
      BY <1>0, BatchIsOldest, BoundsAssumption
    <2>4. Batch(stream, Count) \subseteq Undelivered(stream)
      BY DEF Batch
    <2>5. stream'.delivered \subseteq 1..added'
      BY <2>1, <2>4 DEF Undelivered
    <2>6. Undelivered(stream') = Undelivered(stream) \ Batch(stream, Count)
      BY <2>1 DEF Undelivered
    <2>7. \A f \in stream'.delivered, e \in Undelivered(stream') : f < e
      BY <2>1, <2>3, <2>6
    <2>8. \A f \in saved' \cap stream'.delivered, e \in hand' \ saved' : f < e
      BY <2>1, <2>2, <2>4
    <2> QED
      BY <2>1, <2>5, <2>7, <2>8
  <1>8. ASSUME NEW e \in Entry, Handle(e) PROVE OrderInv'
    <2>1. e \in hand /\ \A g \in hand \ {e} : e < g
      BY <1>0, <1>8 DEF Handle, Skip, Save, SaveFails, Ack, AckFails, First
    <2>2. /\ stream'.entries = stream.entries /\ stream'.delivered = stream.delivered
          /\ UNCHANGED added
      BY <1>0, <1>8, XAckFields DEF Handle, Skip, Save, SaveFails, Ack, AckFails
    <2>3. \/ saved' = saved /\ hand' \subseteq hand
          \/ saved' = saved \cup {e} /\ hand' \subseteq hand
      BY <1>8 DEF Handle, Skip, Save, SaveFails, Ack, AckFails, Continue, Stored
    <2>4. \A f \in saved' \cap stream'.delivered, g \in hand' \ saved' : f < g
      BY <2>1, <2>2, <2>3
    <2>5. Undelivered(stream') = Undelivered(stream)
      BY <2>2 DEF Undelivered
    <2> QED
      BY <2>2, <2>4, <2>5
  <1>9. CASE UNCHANGED vars
    BY <1>9 DEF vars
  <1> QED
    BY <1>1, <1>2, <1>3, <1>5, <1>6, <1>7, <1>8, <1>9 DEF Next, Work, ReadNothing

LEMMA StepInOrder ==
  IInv /\ OrderInv /\ [Next]_vars
    => [\A e \in saved' \ saved : \A f \in saved \cap stream.delivered : f < e]_vars
  <1> SUFFICES ASSUME IInv, OrderInv, Next, NEW e \in saved' \ saved
               PROVE  \A f \in saved \cap stream.delivered : f < e
    OBVIOUS
  <1>1. e \in hand
    <2>1. PICK d \in Entry : Save(d) \/ SaveFails(d)
      BY DEF Next, Work, Add, LoseGroup, Crash, Boot, BootFails, CreateGroup, Read,
             ReadNothing, ReadAnswerLost, Handle, Skip, Ack, AckFails, vars
    <2> QED
      BY <2>1 DEF Save, SaveFails, Stored, First
  <1> QED
    BY <1>1 DEF OrderInv

\* worker.go writes the notifications of a stream in the order they were added,
\* whatever fails in between, for reads of any size.
THEOREM WrittenInOrder == Spec => InOrder
  <1>1. Init => OrderInv
    BY DEF Init, OrderInv, NoStream, Undelivered
  <1> QED
    BY <1>1, NextOrderInv, StepInOrder, IInvIsInvariant, PTL DEF Spec, InOrder
=============================================================================
