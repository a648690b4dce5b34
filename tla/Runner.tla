------------------------------- MODULE Runner -------------------------------
(***************************************************************************)
(* The life of a process: main, pkg/database and pkg/server.Run.           *)
(*                                                                         *)
(*   down -> count -> admin -> user -> up                                  *)
(*                        up -> stopping (-> closing) -> closed -> down    *)
(*                                                                         *)
(* A process connects to its database, and the auth-service seeds it: it   *)
(* counts the users and, when there are none, inserts an admin and then a  *)
(* user, without a transaction.  Then it serves until it gets a signal,    *)
(* stops listening, waits a limited time for the requests in flight,       *)
(* closes its connections, and exits.  A pgxpool waits for the connections *)
(* that are in use, the other pools do not.  Which requests are in flight, *)
(* and which hold a connection, is the business of the module that uses    *)
(* this one (busy, held).                                                  *)
(***************************************************************************)
EXTENDS Naturals

CONSTANTS Process,         \* the processes
          Seeding,         \* the one that seeds its database
          Pooled           \* those whose database is behind a pgxpool

ASSUME SeedingAssumption == \E p \in Process : Seeding = {p}

VARIABLES proc,            \* proc[p]: where p is
          users,           \* the users in the database of the seeding process
          cut,             \* history: a seeding ended after its first insert, unfinished
          late             \* history: the processes whose shutdown ran into its limit

runnerVars == <<proc, users, cut, late>>

ProcState == {"down", "count", "admin", "user", "up", "stopping", "closing", "closed"}

RunnerTypeOK ==
  /\ proc \in [Process -> ProcState]
  /\ users \subseteq {"admin", "user"}
  /\ cut \in BOOLEAN
  /\ late \subseteq Process

RunnerInit(p0) ==
  /\ proc = p0
  /\ users = IF \A p \in Seeding : p0[p] = "down" THEN {} ELSE {"admin", "user"}
  /\ cut = FALSE /\ late = {}

Goto(p, s) == proc' = [proc EXCEPT ![p] = s]

Running(p) == proc[p] \in {"up", "stopping", "closing", "closed"}
\* It can get a database or Redis connection: a pool that is closing gives none.
Open(p) == proc[p] \in {"up", "stopping"}

(***************************************************************************)
(* Start.                                                                  *)
(***************************************************************************)

\* NewPostgres has opened the database and migrated it.
Boot(p) ==
  /\ proc[p] = "down"
  /\ Goto(p, IF p \in Seeding THEN "count" ELSE "up")
  /\ late' = late \ {p}
  /\ UNCHANGED <<users, cut>>

\* RunSeed counts, SeedData counts again: nobody writes in between.
SeedCount(p) ==
  /\ proc[p] = "count"
  /\ Goto(p, IF users = {} THEN "admin" ELSE "up")
  /\ UNCHANGED <<users, cut, late>>

AfterInsertOfAdmin(u) == "up"
AfterInsert(u) == IF u = "admin" THEN "user" ELSE "up"

SeedInsert(p) ==
  /\ proc[p] \in {"admin", "user"}
  /\ users' = users \cup {proc[p]}
  /\ Goto(p, AfterInsert(proc[p]))
  /\ UNCHANGED <<cut, late>>

\* A call fails, and main panics, or the process is killed.  The row of an
\* insert that reported an error may be there.
BootFails(p) ==
  /\ proc[p] \in {"count", "admin", "user"}
  /\ users' \in {users, users \cup ({proc[p]} \cap {"admin", "user"})}
  /\ cut' = (cut \/ users' = {"admin"})
  /\ Goto(p, "down")
  /\ UNCHANGED late

(***************************************************************************)
(* Stop: Run's two goroutines.                                             *)
(***************************************************************************)
Signal(p) ==
  /\ proc[p] = "up"
  /\ Goto(p, "stopping")
  /\ UNCHANGED <<users, cut, late>>

\* ShutdownWithTimeout returns; cleanup is called either way.
AfterShutdown(p) == IF p \in Pooled THEN "closing" ELSE "closed"

ShutdownDoneAtOnce(p, busy) ==
  proc[p] = "stopping" /\ Goto(p, AfterShutdown(p)) /\ UNCHANGED <<users, cut, late>>
ShutdownDone(p, busy) ==
  /\ proc[p] = "stopping"
  /\ ~busy
  /\ Goto(p, AfterShutdown(p))
  /\ UNCHANGED <<users, cut, late>>

ShutdownWaits(p, busy) == FALSE
ShutdownTimesOut(p, busy) ==
  /\ proc[p] = "stopping"
  /\ busy
  /\ Goto(p, AfterShutdown(p))
  /\ late' = late \cup {p}
  /\ UNCHANGED <<users, cut>>

\* dbPool.Close waits, without a limit, until no connection is in use.
Cleanup(p, held) ==
  /\ proc[p] = "closing"
  /\ ~held
  /\ Goto(p, "closed")
  /\ UNCHANGED <<users, cut, late>>

\* Wait returns, with an error after a timeout: the process ends either way.
Exit(p) ==
  /\ proc[p] = "closed"
  /\ Goto(p, "down")
  /\ UNCHANGED <<users, cut, late>>

\* The process is killed.
Kill(p) ==
  /\ Running(p)
  /\ Goto(p, "down")
  /\ UNCHANGED <<users, cut, late>>
=============================================================================
