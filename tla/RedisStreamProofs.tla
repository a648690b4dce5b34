--------------------------- MODULE RedisStreamProofs ---------------------------
(***************************************************************************)
(* What the operations on a stream return, field by field: the facts the   *)
(* proofs about the workers cite instead of the definitions.               *)
(***************************************************************************)
EXTENDS RedisStream, FiniteSetTheorems, TLAPS

LEMMA StreamFields ==
  ASSUME NEW E, NEW s \in StreamOf(E)
  PROVE  /\ s.entries \subseteq E /\ s.delivered \subseteq E /\ s.pending \subseteq E
         /\ s.group \in BOOLEAN
  BY DEF StreamOf

LEMMA NoStreamFields ==
  ASSUME NEW E
  PROVE  /\ NoStream \in StreamOf(E)
         /\ NoStream.entries = {} /\ NoStream.group = FALSE
         /\ NoStream.delivered = {} /\ NoStream.pending = {}
  BY DEF StreamOf, NoStream

LEMMA XAddFields ==
  ASSUME NEW E, NEW s \in StreamOf(E), NEW e \in E
  PROVE  LET t == XAdd(s, e)
         IN  /\ t \in StreamOf(E)
             /\ t.entries = s.entries \cup {e} /\ t.group = s.group
             /\ t.delivered = s.delivered /\ t.pending = s.pending
  BY DEF StreamOf, XAdd

\* What a read hands out is in the stream and new.
LEMMA BatchIsNew ==
  ASSUME NEW E, NEW s \in StreamOf(E), NEW n
  PROVE  /\ Batch(s, n) \subseteq E
         /\ Batch(s, n) \cap s.delivered = {}
  BY DEF Batch, Undelivered, StreamOf

\* A read hands out the oldest of what is new.
LEMMA BatchIsOldest ==
  ASSUME NEW E \in SUBSET Int, IsFiniteSet(E), NEW s \in StreamOf(E), NEW n \in Nat,
         NEW e \in Batch(s, n), NEW g \in Undelivered(s) \ Batch(s, n)
  PROVE  e < g
  <1> DEFINE Before(x) == {f \in Undelivered(s) : f < x}
  <1>1. /\ e \in Undelivered(s) /\ Undelivered(s) \subseteq E
        /\ e \in Int /\ g \in Int /\ \A f \in Undelivered(s) : f \in Int
    BY DEF Batch, Undelivered, StreamOf
  <1>2. SUFFICES ASSUME g < e PROVE FALSE
    BY <1>1
  <1>3. Before(g) \subseteq Before(e)
    <2> SUFFICES ASSUME NEW f \in Undelivered(s), f < g PROVE f < e
      OBVIOUS
    <2>1. f \in Int
      BY <1>1
    <2> QED
      BY <1>1, <1>2, <2>1
  <1>4. IsFiniteSet(Before(e))
    BY <1>1, FS_Subset
  <1>5. /\ Cardinality(Before(g)) <= Cardinality(Before(e))
        /\ Cardinality(Before(g)) \in Nat /\ Cardinality(Before(e)) \in Nat
    BY <1>3, <1>4, FS_Subset, FS_CardinalityType
  <1>6. Cardinality(Before(e)) < n
    BY DEF Batch
  <1>7. ~(Cardinality(Before(g)) < n)
    BY DEF Batch
  <1> QED
    BY <1>5, <1>6, <1>7

LEMMA ReadGroupFields ==
  ASSUME NEW E, NEW s \in StreamOf(E), NEW n
  PROVE  LET t == ReadGroup(s, n)
         IN  /\ t \in StreamOf(E)
             /\ t.entries = s.entries /\ t.group = s.group
             /\ t.delivered = s.delivered \cup Batch(s, n)
             /\ t.pending = s.pending \cup Batch(s, n)
  <1>1. Batch(s, n) \subseteq E
    BY BatchIsNew
  <1> QED
    BY <1>1 DEF StreamOf, ReadGroup

LEMMA XAckFields ==
  ASSUME NEW E, NEW s \in StreamOf(E), NEW A
  PROVE  LET t == XAck(s, A)
         IN  /\ t \in StreamOf(E)
             /\ t.entries = s.entries /\ t.group = s.group
             /\ t.delivered = s.delivered /\ t.pending = s.pending \ A
  BY DEF StreamOf, XAck

LEMMA EnsureGroupFields ==
  ASSUME NEW E, NEW s \in StreamOf(E)
  PROVE  LET t == EnsureGroup(s)
         IN  /\ t \in StreamOf(E)
             /\ t.entries = s.entries /\ t.group = TRUE
             /\ s.group => t = s
             /\ ~s.group => t.delivered = {} /\ t.pending = {}
  BY DEF StreamOf, EnsureGroup

LEMMA WithoutGroupFields ==
  ASSUME NEW E, NEW s \in StreamOf(E)
  PROVE  LET t == WithoutGroup(s)
         IN  /\ t \in StreamOf(E)
             /\ t.entries = s.entries /\ t.group = FALSE
             /\ t.delivered = {} /\ t.pending = {}
  BY DEF StreamOf, WithoutGroup
=============================================================================
