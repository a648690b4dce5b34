------------------------------ MODULE Account ------------------------------
(***************************************************************************)
(* One row of the auth-service's users table and the requests that read    *)
(* and write it concurrently:                                              *)
(*                                                                         *)
(*   AttemptLogin   reads the row, checks it, verifies the password, and   *)
(*                  then counts a failure, locks, or resets the counter;   *)
(*   Verify2FA      (its last part) reads the row and saves all of it back *)
(*                  with a new last_login;                                 *)
(*   FinalizeReset  (its last part) reads the row and saves all of it back *)
(*                  with a new password.                                   *)
(*                                                                         *)
(* A client has one request in flight at a time, and one action is one     *)
(* call on the users table together with the code up to the next one, so   *)
(* every interleaving of the calls of concurrent requests is a behaviour.  *)
(* A call may fail, and the service may crash between two calls.           *)
(*                                                                         *)
(* What the requests do to other tables and to Redis does not depend on    *)
(* the row and does not change it; other modules model it.                 *)
(***************************************************************************)
EXTENDS Integers, FiniteSets

CONSTANTS Client,        \* the clients
          Password,      \* the passwords clients try and choose
          TooLong,       \* those bcrypt refuses: more than 72 bytes
          NoRow,         \* "no copy of the row is held"
          MaxAttempts,   \* the 5 of AttemptLogin
          MaxCount       \* bound: failures are counted up to this number

ASSUME ClientAssumption == IsFiniteSet(Client)
ASSUME TooLongAssumption == TooLong \subseteq Password
ASSUME MaxAttemptsAssumption == MaxAttempts \in Nat \ {0}
ASSUME MaxCountAssumption == MaxCount \in Nat

VARIABLES user,          \* the row
          suspended,     \* its locked_until lies in the future
          pc,            \* pc[c]: the call the request of c makes next
          row,           \* row[c]: the copy of the row FinalizeReset or Verify2FA holds
          guesses,       \* history: wrong passwords tried since the last reset
          lockedEver,    \* history: PermanentLock has been carried out
          lastSet,       \* history: the password that was set last
          faults         \* history: what has gone wrong, see Fault

vars == <<user, suspended, pc, row, guesses, lockedEver, lastSet, faults>>

(***************************************************************************)
(* The row.  Register hashes with argon2, the reset service with bcrypt,   *)
(* whose error it drops: what it saves then is the empty string.           *)
(***************************************************************************)
Status == {"ACTIVE", "SUSPENDED", "PENDING", "BANNED", "LOCKED"}

EmptyHash == [alg |-> "none"]
PasswordHash == [alg : {"argon2", "bcrypt"}, of : Password] \cup {EmptyHash}

UserRow == [status : Status, attempts : Nat, password : PasswordHash]

\* "lostFailure": a database error or a crash kept a request from acting on a
\* wrong password it had found; "staleSave": a full-row save wrote back columns
\* that had changed since its request read them.
Fault == {"lostFailure", "staleSave"}

Step == {"idle", "increment", "readBack", "lock", "reset", "code",
         "saveLogin", "savePassword"}

\* A failure the request found and has not counted yet, and one it has
\* counted without having seen the lock through.
Counting == {"increment"}
Armed == {"readBack", "lock"}

TypeOK ==
  /\ user \in UserRow
  /\ suspended \in BOOLEAN
  /\ pc \in [Client -> Step]
  /\ row \in [Client -> UserRow \cup {NoRow}]
  /\ \A c \in Client : pc[c] \in {"saveLogin", "savePassword"} => row[c] \in UserRow
  /\ guesses \in Nat
  /\ lockedEver \in BOOLEAN
  /\ lastSet \in Password
  /\ faults \subseteq Fault

(***************************************************************************)
(* What the code computes from a row.                                      *)
(***************************************************************************)

HashPassword(p) == [alg |-> "argon2", of |-> p]
GenerateFromPassword(p) == IF p \in TooLong THEN EmptyHash ELSE [alg |-> "bcrypt", of |-> p]

\* VerifyPassword knows argon2 hashes only; any other is a format error,
\* which AttemptLogin treats as a wrong password.
VerifyPassword(p, hash) == hash.alg = "argon2" /\ hash.of = p

CanUserLogin(u, held) ==
  \/ u.status = "ACTIVE"
  \/ u.status = "SUSPENDED" /\ ~held

LimitReachedLate(n) == n > MaxAttempts
LimitReached(n) == n >= MaxAttempts

LockedRowKeepingStatus(u) == [u EXCEPT !.attempts = 0]
LockedRow(u) == [u EXCEPT !.status = "LOCKED", !.attempts = 0]

ResetRowActivating(u) == [u EXCEPT !.attempts = 0, !.status = "ACTIVE"]
ResetRow(u) == [u EXCEPT !.attempts = 0]

WithoutPassword(u, p) == u
WithClearPassword(u, p) == [u EXCEPT !.password = p]
WithPassword(u, p) == [u EXCEPT !.password = GenerateFromPassword(p)]

\* The columns a save by Verify2FA must not change, and by FinalizeReset.
LoginColumns(u) == u
ResetColumns(u) == <<u.status, u.attempts>>

(***************************************************************************)
(* Register and the seeder create ACTIVE accounts; the other statuses are  *)
(* given by an operator, before the behaviour begins.                      *)
(***************************************************************************)
Init ==
  /\ \E s \in Status, p \in Password :
       /\ user = [status |-> s, attempts |-> 0, password |-> HashPassword(p)]
       /\ lastSet = p
       /\ lockedEver = (s = "LOCKED")
  /\ suspended \in BOOLEAN
  /\ pc = [c \in Client |-> "idle"]
  /\ row = [c \in Client |-> NoRow]
  /\ guesses = 0
  /\ faults = {}

Goto(c, s) == pc' = [pc EXCEPT ![c] = s]
Fails(f) == faults' = faults \cup {f}
ReadRow(c) == row' = [row EXCEPT ![c] = user]
DropRow(c) == row' = [row EXCEPT ![c] = NoRow]

\* The device is looked up and the client gets its answer: a pre-trust
\* challenge, a session, or (with two-factor enabled) a code to enter.
LoginAnswer(c) == \E s \in {"idle", "code"} : Goto(c, s)

(***************************************************************************)
(* AttemptLogin: the row is read once, and what is decided from it is      *)
(* decided from that copy.                                                 *)
(***************************************************************************)
LoginRefused(c) ==
  /\ pc[c] = "idle"
  /\ ~CanUserLogin(user, suspended)
  /\ UNCHANGED vars

LoginWrong(c, p) ==
  /\ pc[c] = "idle"
  /\ CanUserLogin(user, suspended)
  /\ ~VerifyPassword(p, user.password)
  /\ guesses' = IF faults = {} THEN guesses + 1 ELSE guesses
  /\ Goto(c, "increment")
  /\ UNCHANGED <<user, suspended, row, lockedEver, lastSet, faults>>

LoginRight(c, p) ==
  /\ pc[c] = "idle"
  /\ CanUserLogin(user, suspended)
  /\ VerifyPassword(p, user.password)
  /\ IF user.attempts > 0 THEN Goto(c, "reset") ELSE LoginAnswer(c)
  /\ UNCHANGED <<user, suspended, row, guesses, lockedEver, lastSet, faults>>

\* IncrementUserFailedLogin is an UPDATE followed by a SELECT.
Increment(c) ==
  /\ pc[c] = "increment"
  /\ user.attempts < MaxCount
  /\ user' = [user EXCEPT !.attempts = @ + 1]
  /\ Goto(c, "readBack")
  /\ UNCHANGED <<suspended, row, guesses, lockedEver, lastSet, faults>>

ReadBack(c) ==
  /\ pc[c] = "readBack"
  /\ Goto(c, IF LimitReached(user.attempts) THEN "lock" ELSE "idle")
  /\ UNCHANGED <<user, suspended, row, guesses, lockedEver, lastSet, faults>>

\* Either of its statements fails: attempts is 0 and nothing is locked.
IncrementFails(c) ==
  /\ pc[c] \in {"increment", "readBack"}
  /\ Goto(c, "idle")
  /\ Fails("lostFailure")
  /\ UNCHANGED <<user, suspended, row, guesses, lockedEver, lastSet>>

PermanentLock(c) ==
  /\ pc[c] = "lock"
  /\ user' = LockedRow(user)
  /\ lockedEver' = TRUE
  /\ Goto(c, "idle")
  /\ UNCHANGED <<suspended, row, guesses, lastSet, faults>>

\* The error of PermanentLock is dropped: the client is told that the
\* account is locked.
PermanentLockFails(c) ==
  /\ pc[c] = "lock"
  /\ Goto(c, "idle")
  /\ Fails("lostFailure")
  /\ UNCHANGED <<user, suspended, row, guesses, lockedEver, lastSet>>

ResetFailedLoginAttempts(c) ==
  /\ pc[c] = "reset"
  /\ user' = ResetRow(user)
  /\ guesses' = 0
  /\ LoginAnswer(c)
  /\ UNCHANGED <<suspended, row, lockedEver, lastSet, faults>>

\* Its error is dropped too.
ResetFailedLoginAttemptsFails(c) ==
  /\ pc[c] = "reset"
  /\ LoginAnswer(c)
  /\ UNCHANGED <<user, suspended, row, guesses, lockedEver, lastSet, faults>>

(***************************************************************************)
(* Verify2FA, once the code is found right: GetByID, then Update, which    *)
(* saves every column of the copy.                                         *)
(***************************************************************************)
Verify2FARead(c) ==
  /\ pc[c] = "code"
  /\ ReadRow(c)
  /\ Goto(c, "saveLogin")
  /\ UNCHANGED <<user, suspended, guesses, lockedEver, lastSet, faults>>

\* The code is wrong or never entered, or GetByID fails.
Verify2FAGivesUp(c) ==
  /\ pc[c] = "code"
  /\ Goto(c, "idle")
  /\ UNCHANGED <<user, suspended, row, guesses, lockedEver, lastSet, faults>>

Verify2FASave(c) ==
  /\ pc[c] = "saveLogin"
  /\ user' = row[c]
  /\ faults' = IF LoginColumns(row[c]) = LoginColumns(user)
               THEN faults ELSE faults \cup {"staleSave"}
  /\ Goto(c, "idle")
  /\ DropRow(c)
  /\ UNCHANGED <<suspended, guesses, lockedEver, lastSet>>

Verify2FASaveFails(c) ==
  /\ pc[c] = "saveLogin"
  /\ Goto(c, "idle")
  /\ DropRow(c)
  /\ UNCHANGED <<user, suspended, guesses, lockedEver, lastSet, faults>>

(***************************************************************************)
(* FinalizeReset, once the session and the device's signature are checked: *)
(* GetByID, then Update with the new password.  It never looks at the      *)
(* status.                                                                 *)
(***************************************************************************)
FinalizeResetRead(c) ==
  /\ pc[c] = "idle"
  /\ ReadRow(c)
  /\ Goto(c, "savePassword")
  /\ UNCHANGED <<user, suspended, guesses, lockedEver, lastSet, faults>>

FinalizeResetSave(c, p) ==
  /\ pc[c] = "savePassword"
  /\ user' = WithPassword(row[c], p)
  /\ lastSet' = p
  /\ faults' = IF ResetColumns(row[c]) = ResetColumns(user)
               THEN faults ELSE faults \cup {"staleSave"}
  /\ Goto(c, "idle")
  /\ DropRow(c)
  /\ UNCHANGED <<suspended, guesses, lockedEver>>

FinalizeResetSaveFails(c) ==
  /\ pc[c] = "savePassword"
  /\ Goto(c, "idle")
  /\ DropRow(c)
  /\ UNCHANGED <<user, suspended, guesses, lockedEver, lastSet, faults>>

(***************************************************************************)
(* The environment.                                                        *)
(***************************************************************************)
SuspensionEnds ==
  /\ suspended
  /\ suspended' = FALSE
  /\ UNCHANGED <<user, pc, row, guesses, lockedEver, lastSet, faults>>

\* The process stops: requests are gone, codes already handed out are not.
Crash ==
  /\ \E c \in Client : pc[c] \notin {"idle", "code"}
  /\ pc' = [c \in Client |-> IF pc[c] = "code" THEN "code" ELSE "idle"]
  /\ row' = [c \in Client |-> NoRow]
  /\ faults' = IF \E c \in Client : pc[c] \in Counting \cup Armed
               THEN faults \cup {"lostFailure"} ELSE faults
  /\ UNCHANGED <<user, suspended, guesses, lockedEver, lastSet>>

\* The steps by which a request that has begun goes on.
Progress(c) ==
  \/ Increment(c) \/ IncrementFails(c) \/ ReadBack(c)
  \/ PermanentLock(c) \/ PermanentLockFails(c)
  \/ ResetFailedLoginAttempts(c) \/ ResetFailedLoginAttemptsFails(c)
  \/ Verify2FASave(c) \/ Verify2FASaveFails(c)
  \/ \E p \in Password : FinalizeResetSave(c, p)
  \/ FinalizeResetSaveFails(c)

\* What a client begins, or gives up.
Begin(c) ==
  \/ LoginRefused(c)
  \/ \E p \in Password : LoginWrong(c, p) \/ LoginRight(c, p)
  \/ Verify2FARead(c) \/ Verify2FAGivesUp(c)
  \/ FinalizeResetRead(c)

Next ==
  \/ \E c \in Client : Progress(c) \/ Begin(c)
  \/ SuspensionEnds
  \/ Crash

\* A handler runs to its end once it has begun; nobody has to begin one.
Spec == Init /\ [][Next]_vars /\ \A c \in Client : WF_vars(Progress(c))
-----------------------------------------------------------------------------
At(steps) == {c \in Client : pc[c] \in steps}

\* However the requests of all clients interleave, the password of an account
\* cannot be guessed at more than MaxAttempts - 1 times, plus once for every
\* request already in flight, before it is locked or a right password resets the
\* counter; this is as good as a counter kept apart from the check can be.
\* (AttemptLogin: the check on the first read, the counter after it.  The
\* history variable stops counting at the first fault.)
GuessBound == guesses <= MaxAttempts - 1 + Cardinality(Client)

\* A lock, once set, is not undone by any request that was under way when it was
\* set, as long as no full-row save wrote back columns that had changed.
LockSticks == lockedEver /\ "staleSave" \notin faults => user.status = "LOCKED"

\* The row holds what was made of the password that was set last, as long as no
\* full-row save wrote back columns that had changed: no other request brings
\* back an older one, and the row is without a password only when that one was
\* too long for bcrypt.
PasswordSticks ==
  "staleSave" \notin faults =>
    user.password \in {HashPassword(lastSet), GenerateFromPassword(lastSet)}

\* A counter that has reached the limit never stays there: one of the requests
\* that counted up to it locks the account, which clears the counter, unless a
\* right password clears it first or something fails.
OverLimitResolves ==
  (user.attempts >= MaxAttempts) ~> (user.attempts < MaxAttempts \/ faults # {})

\* Seen from outside the row is what Credentials says, a step at a time: a full-row
\* save that finds its columns unchanged does no more than it is meant to.
Outside == INSTANCE Credentials
           WITH locked <- user.status = "LOCKED", password <- user.password,
                Password <- PasswordHash, count <- user.attempts, tried <- guesses,
                stale <- "staleSave" \in faults
KeepsCredentials == Outside!Spec

\* What AttemptLogin says of PermanentLock: the account stays locked until
\* somebody unlocks it by hand, which nothing in the service does.
LockIsPermanent == lockedEver => user.status = "LOCKED"

\* What the reset handler reports, "Password has been reset successfully": after
\* it there is a password the account can be logged in to with.
PasswordUsable == \E p \in Password : VerifyPassword(p, user.password)
=============================================================================
