----------------------------- MODULE RedisStream -----------------------------
(***************************************************************************)
(* A Redis stream and its one consumer group, as the workers of the audit  *)
(* service and the notification service use them through the methods of    *)
(* pkg/redis.  An entry is the number of its XADD, so entries are in the   *)
(* order of the stream.                                                    *)
(*                                                                         *)
(* The group is asked for ">" only: it hands out every entry once, and an  *)
(* entry that is handed out and not acknowledged stays pending.            *)
(***************************************************************************)
EXTENDS Integers, FiniteSets

StreamOf(Entry) == [entries : SUBSET Entry,    \* what XADD has stored
                    group : BOOLEAN,           \* the consumer group exists
                    delivered : SUBSET Entry,  \* handed out by the group
                    pending : SUBSET Entry]    \* handed out, not acknowledged

NoStream == [entries |-> {}, group |-> FALSE, delivered |-> {}, pending |-> {}]

Undelivered(s) == s.entries \ s.delivered

\* The entries acknowledged since the group was created.
Acked(s) == s.delivered \ s.pending

\* The entry a loop over S takes next; any of them, if each had a goroutine of its own.
AnyOf(e, S) == e \in S
First(e, S) == e \in S /\ \A f \in S : e <= f

\* What one read returns: the count oldest of the entries not yet handed out.
Batch(s, count) ==
  {e \in Undelivered(s) : Cardinality({f \in Undelivered(s) : f < e}) < count}

XAdd(s, e) == [s EXCEPT !.entries = @ \cup {e}]

\* XREADGROUP with ">"
ReadGroup(s, count) ==
  [s EXCEPT !.delivered = @ \cup Batch(s, count), !.pending = @ \cup Batch(s, count)]

\* XACK, which reports no error for a group that does not exist
XAck(s, E) == [s EXCEPT !.pending = @ \ E]

\* XGROUP CREATE ... MKSTREAM from "0": a new group hands out all entries; that
\* the group exists already (BUSYGROUP) is no error.
EnsureGroupAtEnd(s) ==
  IF s.group THEN s ELSE [s EXCEPT !.group = TRUE, !.delivered = s.entries]
EnsureGroup(s) ==
  IF s.group THEN s ELSE [s EXCEPT !.group = TRUE, !.delivered = {}, !.pending = {}]

\* The group is destroyed; the stream is deleted and the group with it.
WithoutGroup(s) == [s EXCEPT !.group = FALSE, !.delivered = {}, !.pending = {}]
=============================================================================
