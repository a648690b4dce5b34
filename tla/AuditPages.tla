----------------------------- MODULE AuditPages -----------------------------
(***************************************************************************)
(* The table of audit logs as its readers see it: rows that the worker     *)
(* adds, each with the time of its insert, and pages of them:              *)
(*   ORDER BY created_at DESC LIMIT l OFFSET o                             *)
(* Rows of the same time come in any order, another one at each query.     *)
(***************************************************************************)
EXTENDS Integers, Sequences, FiniteSets, FiniteSetsExt

CONSTANTS Half,            \* 2^31: half as many as there are values of an int32
          DefaultLimit     \* 50

ASSUME PagesAssumption == Half \in Nat \ {0} /\ DefaultLimit \in 0 .. Half - 1

VARIABLE log               \* log[i]: when row i was inserted

LogTypeOK == log \in Seq(Nat)

Latest == IF log = <<>> THEN 0 ELSE log[Len(log)]

\* The conversion int32(n) of Go: it wraps around.
Int32(n) ==
  LET m == n % (2 * Half) IN IF m >= Half THEN m - 2 * Half ELSE m

\* The first k rows of S, in one of the orders.
FirstUnordered(S, k) == kSubset(IF k < Cardinality(S) THEN k ELSE Cardinality(S), S)
First(S, k) ==
  {T \in FirstUnordered(S, k) : \A i \in T, j \in S \ T : log[j] <= log[i]}

\* The database refuses a negative number.
Accepted(limit, offset) == Int32(limit) >= 0 /\ Int32(offset) >= 0

GetAllLogs(limit, offset) ==
  UNION {First((1 .. Len(log)) \ before, Int32(limit)) : before \in
         First(1 .. Len(log), Int32(offset))}

\* CreateLog: created_at is the database's clock.
CreateLog == \E t \in {Latest, Latest + 1} : log' = Append(log, t)
=============================================================================
