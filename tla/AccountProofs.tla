--------------------------- MODULE AccountProofs ---------------------------
(***************************************************************************)
(* Proofs about Account: its type invariant and its safety properties, for *)
(* any finite set of clients, any passwords and any limit.                 *)
(***************************************************************************)
EXTENDS Account, FiniteSetTheorems, TLAPS

(***************************************************************************)
(* How many clients are at some steps, when one client moves.              *)
(***************************************************************************)

\* The clients at given steps are finitely many, and no more than there are.
LEMMA AtFinite ==
  ASSUME NEW S
  PROVE  /\ IsFiniteSet(At(S)) /\ Cardinality(At(S)) \in Nat
         /\ Cardinality(Client) \in Nat
         /\ Cardinality(At(S)) <= Cardinality(Client)
  <1>1. At(S) \subseteq Client
    BY DEF At
  <1> QED
    BY <1>1, FS_Subset, FS_CardinalityType, ClientAssumption

\* A client that steps into S from outside adds one.
LEMMA Enter ==
  ASSUME NEW S, NEW c \in Client, NEW s \in S,
         pc \in [Client -> Step], pc[c] \notin S, pc' = [pc EXCEPT ![c] = s]
  PROVE  Cardinality(At(S)') = Cardinality(At(S)) + 1
  <1>1. At(S)' = At(S) \cup {c} /\ c \notin At(S)
    BY DEF At
  <1> QED
    BY <1>1, AtFinite, FS_AddElement

\* A client that steps out of S takes one away.
LEMMA Leave ==
  ASSUME NEW S, NEW c \in Client, NEW s,
         pc \in [Client -> Step], pc[c] \in S, s \notin S, pc' = [pc EXCEPT ![c] = s]
  PROVE  Cardinality(At(S)') = Cardinality(At(S)) - 1
  <1>1. At(S)' = At(S) \ {c} /\ c \in At(S)
    BY DEF At
  <1> QED
    BY <1>1, AtFinite, FS_RemoveElement

\* A client that stays inside S, or outside, changes nothing.
LEMMA Stay ==
  ASSUME NEW S, NEW c \in Client, NEW s,
         pc \in [Client -> Step], pc[c] \in S <=> s \in S, pc' = [pc EXCEPT ![c] = s]
  PROVE  At(S)' = At(S)
  BY DEF At

\* Nobody is at two steps at once.
LEMMA CountingAndArmed ==
  Cardinality(At(Counting)) + Cardinality(At(Armed)) <= Cardinality(Client)
  <1> DEFINE A == At(Counting)
             B == At(Armed)
  <1>1. A \cap B = {} /\ A \cup B \subseteq Client
    BY DEF At, Counting, Armed
  <1>2. Cardinality(A \cup B) = Cardinality(A) + Cardinality(B) - Cardinality(A \cap B)
    BY AtFinite, FS_Union
  <1>3. Cardinality(A \cap B) = 0
    BY <1>1, FS_EmptySet
  <1>4. Cardinality(A \cup B) <= Cardinality(Client)
    BY <1>1, FS_Subset, ClientAssumption
  <1> QED
    BY <1>2, <1>3, <1>4, AtFinite

(***************************************************************************)
(* The inductive invariant.  GuessBound alone is not inductive: that the   *)
(* next wrong password is still within the bound follows from the counter, *)
(* and the counter from the requests that have yet to act on it.           *)
(***************************************************************************)

\* Until something goes wrong every wrong password has been counted, or the
\* request that tried it is about to count it.
GuessesCounted ==
  faults = {} /\ user.status # "LOCKED"
    => guesses <= user.attempts + Cardinality(At(Counting))

\* Until something goes wrong, a counter at the limit or above it has requests
\* that counted it there and have not locked the account yet.
OverLimitArmed ==
  faults = {} => user.attempts <= MaxAttempts - 1 + Cardinality(At(Armed))

IInv ==
  /\ TypeOK
  /\ GuessBound /\ GuessesCounted /\ OverLimitArmed
  /\ LockSticks /\ PasswordSticks
-----------------------------------------------------------------------------
(***************************************************************************)
(* Type correctness.                                                       *)
(***************************************************************************)

\* What a save of a new password writes: a hash, or nothing, and no other column.
LEMMA NewPassword ==
  ASSUME NEW u \in UserRow, NEW p \in Password
  PROVE  /\ GenerateFromPassword(p) \in PasswordHash
         /\ WithPassword(u, p) \in UserRow
         /\ WithPassword(u, p).password = GenerateFromPassword(p)
         /\ WithPassword(u, p).status = u.status
         /\ WithPassword(u, p).attempts = u.attempts
  <1>1. GenerateFromPassword(p) \in PasswordHash
    BY DEF GenerateFromPassword, PasswordHash
  <1> QED
    BY <1>1 DEF WithPassword, UserRow

LEMMA InitTypeOK == Init => TypeOK
  BY DEF Init, TypeOK, UserRow, PasswordHash, HashPassword, Step

LEMMA NextTypeOK == TypeOK /\ [Next]_vars => TypeOK'
  <1> SUFFICES ASSUME TypeOK, [Next]_vars
               PROVE  TypeOK'
    OBVIOUS
  <1> USE DEF TypeOK, UserRow, Step, Fault, Goto, Fails, ReadRow, DropRow
  <1>1. ASSUME NEW c \in Client, NEW p \in Password, LoginWrong(c, p)
        PROVE  TypeOK'
    BY <1>1 DEF LoginWrong
  <1>2. ASSUME NEW c \in Client, NEW p \in Password, LoginRight(c, p)
        PROVE  TypeOK'
    BY <1>2 DEF LoginRight, LoginAnswer
  <1>3. ASSUME NEW c \in Client, Increment(c)
        PROVE  TypeOK'
    BY <1>3 DEF Increment
  <1>4. ASSUME NEW c \in Client, ReadBack(c)
        PROVE  TypeOK'
    BY <1>4 DEF ReadBack
  <1>5. ASSUME NEW c \in Client, IncrementFails(c) \/ PermanentLockFails(c)
        PROVE  TypeOK'
    BY <1>5 DEF IncrementFails, PermanentLockFails
  <1>6. ASSUME NEW c \in Client, PermanentLock(c)
        PROVE  TypeOK'
    BY <1>6 DEF PermanentLock, LockedRow, Status
  <1>7. ASSUME NEW c \in Client,
               ResetFailedLoginAttempts(c) \/ ResetFailedLoginAttemptsFails(c)
        PROVE  TypeOK'
    BY <1>7 DEF ResetFailedLoginAttempts, ResetFailedLoginAttemptsFails, ResetRow,
                LoginAnswer
  <1>8. ASSUME NEW c \in Client, Verify2FARead(c) \/ FinalizeResetRead(c)
        PROVE  TypeOK'
    <2>1. row' = [row EXCEPT ![c] = user] /\ \E s \in Step : pc' = [pc EXCEPT ![c] = s]
      BY <1>8 DEF Verify2FARead, FinalizeResetRead
    <2>2. row' \in [Client -> UserRow \cup {NoRow}] /\ row'[c] \in UserRow
      BY <2>1
    <2>3. \A d \in Client : d # c => row'[d] = row[d] /\ pc'[d] = pc[d]
      BY <2>1
    <2> QED
      BY <1>8, <2>1, <2>2, <2>3 DEF Verify2FARead, FinalizeResetRead
  <1>9. ASSUME NEW c \in Client, Verify2FAGivesUp(c)
        PROVE  TypeOK'
    BY <1>9 DEF Verify2FAGivesUp
  <1>10. ASSUME NEW c \in Client, Verify2FASave(c)
         PROVE  TypeOK'
    BY <1>10 DEF Verify2FASave
  <1>11. ASSUME NEW c \in Client, NEW p \in Password, FinalizeResetSave(c, p)
         PROVE  TypeOK'
    <2>1. row[c] \in UserRow
      BY <1>11 DEF FinalizeResetSave
    <2>2. user' \in UserRow
      BY <1>11, <2>1, NewPassword DEF FinalizeResetSave
    <2> QED
      BY <1>11, <2>2 DEF FinalizeResetSave
  <1>12. ASSUME NEW c \in Client, Verify2FASaveFails(c) \/ FinalizeResetSaveFails(c)
         PROVE  TypeOK'
    BY <1>12 DEF Verify2FASaveFails, FinalizeResetSaveFails
  <1>13. CASE SuspensionEnds
    BY <1>13 DEF SuspensionEnds
  <1>14. CASE Crash
    BY <1>14 DEF Crash
  <1>15. CASE UNCHANGED vars
    BY <1>15 DEF vars
  <1> QED
    BY <1>1, <1>2, <1>3, <1>4, <1>5, <1>6, <1>7, <1>8, <1>9, <1>10, <1>11, <1>12,
       <1>13, <1>14, <1>15
    DEF Next, Progress, Begin, LoginRefused

\* Whatever the requests do, the row, the copies of it and the requests' places
\* keep their types; in particular a request that saves the row holds a whole
\* copy of it, and the counter is never negative.
THEOREM TypeCorrect == Spec => []TypeOK
  BY InitTypeOK, NextTypeOK, PTL DEF Spec
-----------------------------------------------------------------------------
(***************************************************************************)
(* The lock and the password.                                              *)
(***************************************************************************)
LEMMA NextLockSticks == TypeOK /\ LockSticks /\ [Next]_vars => LockSticks'
  <1> SUFFICES ASSUME TypeOK, LockSticks, [Next]_vars
               PROVE  LockSticks'
    OBVIOUS
  <1> USE DEF LockSticks, TypeOK, UserRow
  <1>1. ASSUME NEW c \in Client, PermanentLock(c)
        PROVE  LockSticks'
    BY <1>1 DEF PermanentLock, LockedRow
  <1>2. ASSUME NEW c \in Client, Increment(c)
        PROVE  LockSticks'
    BY <1>2 DEF Increment
  <1>3. ASSUME NEW c \in Client, ResetFailedLoginAttempts(c)
        PROVE  LockSticks'
    BY <1>3 DEF ResetFailedLoginAttempts, ResetRow
  <1>4. ASSUME NEW c \in Client, Verify2FASave(c)
        PROVE  LockSticks'
    BY <1>4 DEF Verify2FASave, LoginColumns
  <1>5. ASSUME NEW c \in Client, NEW p \in Password, FinalizeResetSave(c, p)
        PROVE  LockSticks'
    BY <1>5 DEF FinalizeResetSave, WithPassword, ResetColumns
  <1>6. ASSUME UNCHANGED <<user, lockedEver>>, faults \subseteq faults'
        PROVE  LockSticks'
    BY <1>6
  <1> QED
    BY <1>1, <1>2, <1>3, <1>4, <1>5, <1>6
    DEF Next, Progress, Begin, vars, LoginRefused, LoginWrong, LoginRight, ReadBack,
        IncrementFails, PermanentLockFails, ResetFailedLoginAttemptsFails,
        Verify2FARead, Verify2FAGivesUp, Verify2FASaveFails, FinalizeResetRead,
        FinalizeResetSaveFails, SuspensionEnds, Crash, Fails

LEMMA NextPasswordSticks ==
  TypeOK /\ PasswordSticks /\ [Next]_vars => PasswordSticks'
  <1> SUFFICES ASSUME TypeOK, PasswordSticks, [Next]_vars
               PROVE  PasswordSticks'
    OBVIOUS
  <1> USE DEF PasswordSticks, TypeOK, UserRow
  <1>1. ASSUME NEW c \in Client, PermanentLock(c)
        PROVE  PasswordSticks'
    BY <1>1 DEF PermanentLock, LockedRow
  <1>2. ASSUME NEW c \in Client, Increment(c)
        PROVE  PasswordSticks'
    BY <1>2 DEF Increment
  <1>3. ASSUME NEW c \in Client, ResetFailedLoginAttempts(c)
        PROVE  PasswordSticks'
    BY <1>3 DEF ResetFailedLoginAttempts, ResetRow
  <1>4. ASSUME NEW c \in Client, Verify2FASave(c)
        PROVE  PasswordSticks'
    BY <1>4 DEF Verify2FASave, LoginColumns
  <1>5. ASSUME NEW c \in Client, NEW p \in Password, FinalizeResetSave(c, p)
        PROVE  PasswordSticks'
    <2>1. row[c] \in UserRow /\ user' = WithPassword(row[c], p) /\ lastSet' = p
      BY <1>5 DEF FinalizeResetSave
    <2>2. user'.password = GenerateFromPassword(lastSet')
      BY <2>1, NewPassword
    <2> QED
      BY <2>2
  <1>6. ASSUME UNCHANGED <<user, lastSet>>, faults \subseteq faults'
        PROVE  PasswordSticks'
    BY <1>6
  <1> QED
    BY <1>1, <1>2, <1>3, <1>4, <1>5, <1>6
    DEF Next, Progress, Begin, vars, LoginRefused, LoginWrong, LoginRight, ReadBack,
        IncrementFails, PermanentLockFails, ResetFailedLoginAttemptsFails,
        Verify2FARead, Verify2FAGivesUp, Verify2FASaveFails, FinalizeResetRead,
        FinalizeResetSaveFails, SuspensionEnds, Crash, Fails
-----------------------------------------------------------------------------
(***************************************************************************)
(* The number of guesses.                                                  *)
(***************************************************************************)
GuessInv == GuessBound /\ GuessesCounted /\ OverLimitArmed

\* A step that counts no guess and leaves the counter, the lock and the requests
\* between a failure and the lock as they are, or makes something go wrong.
LEMMA QuietStep ==
  ASSUME GuessInv, UNCHANGED guesses,
         \/ faults' # {}
         \/ /\ UNCHANGED <<user, faults>>
            /\ At(Counting)' = At(Counting) /\ At(Armed)' = At(Armed)
  PROVE  GuessInv'
  BY DEF GuessInv, GuessBound, GuessesCounted, OverLimitArmed

LEMMA NextGuessInv == TypeOK /\ GuessInv /\ [Next]_vars => GuessInv'
  <1> SUFFICES ASSUME TypeOK, GuessInv, [Next]_vars
               PROVE  GuessInv'
    OBVIOUS
  <1> USE DEF TypeOK, UserRow, Goto
  <1> DEFINE C == Cardinality(At(Counting))
             A == Cardinality(At(Armed))
  <1>a. C \in Nat /\ A \in Nat /\ C + A <= Cardinality(Client) /\ Cardinality(Client) \in Nat
    BY AtFinite, CountingAndArmed
  <1>b. C' \in Nat /\ A' \in Nat /\ C' + A' <= Cardinality(Client)
    <2>1. At(Counting)' \subseteq Client /\ At(Armed)' \subseteq Client
          /\ At(Counting)' \cap At(Armed)' = {}
      BY DEF At, Counting, Armed
    <2>2. IsFiniteSet(At(Counting)') /\ IsFiniteSet(At(Armed)')
      BY <2>1, FS_Subset, ClientAssumption
    <2>3. Cardinality(At(Counting)' \cup At(Armed)') = C' + A' - 0
      BY <2>1, <2>2, FS_Union, FS_EmptySet
    <2>4. Cardinality(At(Counting)' \cup At(Armed)') <= Cardinality(Client)
      BY <2>1, FS_Subset, ClientAssumption
    <2> QED
      BY <2>2, <2>3, <2>4, FS_CardinalityType
  <1>c. MaxAttempts \in Nat /\ MaxAttempts >= 1
    BY MaxAttemptsAssumption
  <1>1. ASSUME NEW c \in Client, NEW p \in Password, LoginWrong(c, p)
        PROVE  GuessInv'
    <2>1. CASE faults # {}
      BY <1>1, <2>1, QuietStep DEF LoginWrong
    <2>2. CASE faults = {}
      <3>0. /\ pc \in [Client -> Step] /\ pc' = [pc EXCEPT ![c] = "increment"]
            /\ pc[c] \notin Counting /\ "increment" \in Counting
        BY <1>1 DEF LoginWrong, Counting
      <3>1. C' = C + 1
        BY ONLY <3>0, Enter
      <3>2. At(Armed)' = At(Armed)
        BY <1>1, Stay DEF LoginWrong, Armed
      <3>3. user.status # "LOCKED" /\ guesses' = guesses + 1 /\ UNCHANGED <<user, faults>>
        BY <1>1, <2>2 DEF LoginWrong, CanUserLogin
      <3>4. GuessesCounted' /\ OverLimitArmed'
        BY <1>a, <2>2, <3>1, <3>2, <3>3 DEF GuessInv, GuessesCounted, OverLimitArmed
      <3>5. GuessBound'
        BY <1>a, <1>b, <1>c, <2>2, <3>3, <3>4 DEF GuessBound, GuessesCounted, OverLimitArmed
      <3> QED
        BY <3>4, <3>5 DEF GuessInv
    <2> QED
      BY <2>1, <2>2
  <1>2. ASSUME NEW c \in Client, Increment(c)
        PROVE  GuessInv'
    <2>0. /\ pc \in [Client -> Step] /\ pc' = [pc EXCEPT ![c] = "readBack"]
          /\ pc[c] \in Counting /\ "readBack" \notin Counting
          /\ pc[c] \notin Armed /\ "readBack" \in Armed
      BY <1>2 DEF Increment, Counting, Armed
    <2>1. C' = C - 1
      BY ONLY <2>0, Leave
    <2>2. A' = A + 1
      BY ONLY <2>0, Enter
    <2>3. /\ user' = [user EXCEPT !.attempts = @ + 1]
          /\ user'.attempts = user.attempts + 1 /\ user'.status = user.status
      BY <1>2 DEF Increment
    <2>4. UNCHANGED <<guesses, faults>>
      BY <1>2 DEF Increment
    <2> QED
      BY <1>a, <1>c, <2>1, <2>2, <2>3, <2>4
      DEF GuessInv, GuessBound, GuessesCounted, OverLimitArmed
  <1>3. ASSUME NEW c \in Client, ReadBack(c)
        PROVE  GuessInv'
    <2>1. At(Counting)' = At(Counting)
      BY <1>3, Stay DEF ReadBack, Counting
    <2>2. UNCHANGED <<user, guesses, faults>>
      BY <1>3 DEF ReadBack
    <2>3. CASE LimitReached(user.attempts)
      <3>1. At(Armed)' = At(Armed)
        BY <1>3, <2>3, Stay DEF ReadBack, Armed
      <3> QED
        BY <2>1, <2>2, <3>1, QuietStep
    <2>4. CASE ~LimitReached(user.attempts)
      <3>1. user.attempts <= MaxAttempts - 1
        BY <1>c, <2>4 DEF LimitReached
      <3> QED
        BY <1>b, <1>c, <2>1, <2>2, <3>1
        DEF GuessInv, GuessBound, GuessesCounted, OverLimitArmed
    <2> QED
      BY <2>3, <2>4
  <1>4. ASSUME NEW c \in Client, PermanentLock(c)
        PROVE  GuessInv'
    <2>1. user'.status = "LOCKED" /\ user'.attempts = 0 /\ UNCHANGED <<guesses, faults>>
      BY <1>4 DEF PermanentLock, LockedRow
    <2> QED
      BY <1>b, <1>c, <2>1 DEF GuessInv, GuessBound, GuessesCounted, OverLimitArmed
  <1>5. ASSUME NEW c \in Client, ResetFailedLoginAttempts(c)
        PROVE  GuessInv'
    <2>1. user'.attempts = 0 /\ guesses' = 0 /\ UNCHANGED faults
      BY <1>5 DEF ResetFailedLoginAttempts, ResetRow
    <2> QED
      BY <1>a, <1>b, <1>c, <2>1 DEF GuessInv, GuessBound, GuessesCounted, OverLimitArmed
  <1>6. ASSUME NEW c \in Client, IncrementFails(c) \/ PermanentLockFails(c)
        PROVE  GuessInv'
    <2>1. UNCHANGED guesses /\ faults' # {}
      BY <1>6 DEF IncrementFails, PermanentLockFails, Fails
    <2> QED
      BY <2>1, QuietStep
  <1>7. ASSUME NEW c \in Client, NEW s \in Step, Goto(c, s), UNCHANGED <<user, guesses, faults>>,
               pc[c] \notin Counting \cup Armed, s \notin Counting \cup Armed
        PROVE  GuessInv'
    BY <1>7, Stay, QuietStep
  <1>8. ASSUME NEW c \in Client, Verify2FASave(c)
        PROVE  GuessInv'
    <2>1. CASE faults' # {}
      BY <1>8, <2>1, QuietStep DEF Verify2FASave
    <2>2. CASE faults' = {}
      <3>1. UNCHANGED <<user, guesses, faults>> /\ pc[c] = "saveLogin" /\ Goto(c, "idle")
        BY <1>8, <2>2 DEF Verify2FASave, LoginColumns
      <3> QED
        BY <1>7, <3>1 DEF Counting, Armed, Step
    <2> QED
      BY <2>1, <2>2
  <1>9. ASSUME NEW c \in Client, NEW p \in Password, FinalizeResetSave(c, p)
        PROVE  GuessInv'
    <2>1. CASE faults' # {}
      BY <1>9, <2>1, QuietStep DEF FinalizeResetSave
    <2>2. CASE faults' = {}
      <3>1. user'.status = user.status /\ user'.attempts = user.attempts
            /\ UNCHANGED <<guesses, faults>>
        BY <1>9, <2>2 DEF FinalizeResetSave, ResetColumns, WithPassword
      <3>2. At(Counting)' = At(Counting) /\ At(Armed)' = At(Armed)
        BY <1>9, Stay DEF FinalizeResetSave, Counting, Armed
      <3> QED
        BY <3>1, <3>2 DEF GuessInv, GuessBound, GuessesCounted, OverLimitArmed
    <2> QED
      BY <2>1, <2>2
  <1>10. CASE Crash
    <2>1. CASE faults' # {}
      BY <1>10, <2>1, QuietStep DEF Crash
    <2>2. CASE faults' = {}
      <3>1. UNCHANGED <<user, guesses, faults>>
        BY <1>10, <2>2 DEF Crash
      <3>2. At(Counting) = {} /\ At(Armed) = {}
        BY <1>10, <2>2 DEF Crash, At
      <3>3. At(Counting)' = {} /\ At(Armed)' = {}
        BY <1>10 DEF Crash, At, Counting, Armed
      <3> QED
        BY <3>1, <3>2, <3>3, QuietStep
    <2> QED
      BY <2>1, <2>2
  <1>11. CASE SuspensionEnds \/ UNCHANGED vars
    <2>1. UNCHANGED <<user, pc, guesses, faults>>
      BY <1>11 DEF SuspensionEnds, vars
    <2>2. At(Counting)' = At(Counting) /\ At(Armed)' = At(Armed)
      BY <2>1 DEF At
    <2> QED
      BY <2>1, <2>2, QuietStep
  <1>12. ASSUME NEW c \in Client,
                \/ \E p \in Password : LoginRight(c, p)
                \/ ResetFailedLoginAttemptsFails(c)
                \/ Verify2FARead(c) \/ Verify2FAGivesUp(c) \/ Verify2FASaveFails(c)
                \/ FinalizeResetRead(c) \/ FinalizeResetSaveFails(c)
         PROVE  GuessInv'
    <2>1. /\ UNCHANGED <<user, guesses, faults>>
          /\ pc[c] \notin Counting \cup Armed
          /\ \E s \in Step : Goto(c, s) /\ s \notin Counting \cup Armed
      BY <1>12 DEF LoginRight, LoginAnswer, ResetFailedLoginAttemptsFails, Verify2FARead,
                   Verify2FAGivesUp, Verify2FASaveFails, FinalizeResetRead,
                   FinalizeResetSaveFails, Step, Counting, Armed
    <2> QED
      BY <1>7, <2>1
  <1> QED
    BY <1>1, <1>2, <1>3, <1>4, <1>5, <1>6, <1>8, <1>9, <1>10, <1>11, <1>12
    DEF Next, Progress, Begin, LoginRefused
-----------------------------------------------------------------------------
LEMMA InitIInv == Init => IInv
  <1> SUFFICES ASSUME Init PROVE IInv
    OBVIOUS
  <1>1. TypeOK
    BY InitTypeOK
  <1>2. Cardinality(At(Counting)) \in Nat /\ Cardinality(At(Armed)) \in Nat
        /\ Cardinality(Client) \in Nat /\ MaxAttempts \in Nat /\ MaxAttempts >= 1
    BY AtFinite, MaxAttemptsAssumption
  <1>3. guesses = 0 /\ user.attempts = 0 /\ LockSticks /\ PasswordSticks
    <2>1. PICK s \in Status, p \in Password :
            /\ user = [status |-> s, attempts |-> 0, password |-> HashPassword(p)]
            /\ lastSet = p /\ lockedEver = (s = "LOCKED") /\ guesses = 0
      BY DEF Init
    <2>2. user.status = s /\ user.attempts = 0 /\ user.password = HashPassword(lastSet)
      BY <2>1
    <2> QED
      BY <2>1, <2>2 DEF LockSticks, PasswordSticks
  <1> QED
    BY <1>1, <1>2, <1>3 DEF IInv, GuessBound, GuessesCounted, OverLimitArmed

LEMMA NextIInv == IInv /\ [Next]_vars => IInv'
  BY NextTypeOK, NextLockSticks, NextPasswordSticks, NextGuessInv DEF IInv, GuessInv

\* A wrong password can be tried on an account at most MaxAttempts - 1 times, plus
\* once for each client with a request in flight, before the account is locked,
\* whatever the clients are and however their requests interleave.
THEOREM GuessesBounded == Spec => []GuessBound
  BY InitIInv, NextIInv, PTL DEF Spec, IInv

\* No request undoes a lock, except by saving back a row that has changed.
THEOREM LockHolds == Spec => []LockSticks
  BY InitIInv, NextIInv, PTL DEF Spec, IInv

\* What the row holds was made of the password that was set last, by one of the two
\* ways of hashing, and is empty only if that one was too long for bcrypt; only
\* saving back a row that has changed brings an older one back.
THEOREM PasswordHolds == Spec => []PasswordSticks
  BY InitIInv, NextIInv, PTL DEF Spec, IInv

(***************************************************************************)
(* The row as Credentials sees it.                                         *)
(***************************************************************************)
LEMMA InitOutside == Init => Outside!Init
  <1> SUFFICES ASSUME Init PROVE Outside!Init
    OBVIOUS
  <1>1. PICK s \in Status, p \in Password :
          user = [status |-> s, attempts |-> 0, password |-> HashPassword(p)]
    BY DEF Init
  <1>2. user.password \in PasswordHash /\ user.attempts = 0
    BY <1>1 DEF HashPassword, PasswordHash
  <1> QED
    BY <1>2 DEF Init, Outside!Init

\* A save is a change of the password or nothing, unless the copy is stale.
LEMMA SavesOutside ==
  ASSUME TypeOK, NEW c \in Client
  PROVE  /\ Verify2FASave(c) => [Outside!Next]_(Outside!vars)
         /\ \A p \in Password : FinalizeResetSave(c, p) => [Outside!Next]_(Outside!vars)
  <1>1. ASSUME user' \in UserRow, guesses' = guesses, faults' = faults \cup {"staleSave"}
        PROVE  Outside!SaveStale
    BY <1>1 DEF Outside!SaveStale, UserRow
  <1>2. ASSUME Verify2FASave(c) PROVE [Outside!Next]_(Outside!vars)
    <2>1. row[c] \in UserRow /\ user' = row[c] /\ guesses' = guesses
      BY <1>2 DEF Verify2FASave, TypeOK
    <2>2. CASE row[c] = user
      BY <1>2, <2>1, <2>2 DEF Verify2FASave, LoginColumns, Outside!vars
    <2>3. CASE row[c] # user
      BY <1>1, <1>2, <2>1, <2>3 DEF Verify2FASave, LoginColumns, Outside!Next
    <2> QED
      BY <2>2, <2>3
  <1>3. ASSUME NEW p \in Password, FinalizeResetSave(c, p) PROVE [Outside!Next]_(Outside!vars)
    <2>1. row[c] \in UserRow /\ user' = WithPassword(row[c], p) /\ guesses' = guesses
      BY <1>3 DEF FinalizeResetSave, TypeOK
    <2>2. /\ user' \in UserRow /\ user'.password = GenerateFromPassword(p)
          /\ user'.status = row[c].status /\ user'.attempts = row[c].attempts
          /\ GenerateFromPassword(p) \in PasswordHash
      BY <2>1, NewPassword
    <2>3. CASE ResetColumns(row[c]) = ResetColumns(user)
      <3>1. faults' = faults /\ user'.status = user.status /\ user'.attempts = user.attempts
        BY <1>3, <2>2, <2>3 DEF FinalizeResetSave, ResetColumns
      <3>2. Outside!Change(GenerateFromPassword(p))
        BY <2>1, <2>2, <3>1 DEF Outside!Change
      <3> QED
        BY <2>2, <3>2 DEF Outside!Next
    <2>4. CASE ResetColumns(row[c]) # ResetColumns(user)
      BY <1>1, <1>3, <2>1, <2>2, <2>4 DEF FinalizeResetSave, Outside!Next
    <2> QED
      BY <2>3, <2>4
  <1> QED
    BY <1>2, <1>3

LEMMA NextOutside == TypeOK /\ [Next]_vars => [Outside!Next]_(Outside!vars)
  <1> SUFFICES ASSUME TypeOK, [Next]_vars PROVE [Outside!Next]_(Outside!vars)
    OBVIOUS
  <1>1. ASSUME NEW c \in Client, NEW p \in Password, LoginWrong(c, p)
        PROVE  [Outside!Next]_(Outside!vars)
    <2>1. user.status # "LOCKED" /\ UNCHANGED <<user, faults>>
      BY <1>1 DEF LoginWrong, CanUserLogin
    <2>2. CASE guesses' = guesses + 1
      BY <2>1, <2>2 DEF Outside!Next, Outside!Try
    <2>3. CASE guesses' = guesses
      BY <2>1, <2>3 DEF Outside!vars
    <2> QED
      BY <1>1, <2>2, <2>3 DEF LoginWrong
  <1>2. ASSUME NEW c \in Client, Increment(c) PROVE Outside!Count
    BY <1>2 DEF Increment, Outside!Count, TypeOK, UserRow
  <1>3. ASSUME NEW c \in Client, PermanentLock(c) PROVE Outside!Lock
    BY <1>3 DEF PermanentLock, LockedRow, Outside!Lock, TypeOK, UserRow
  <1>4. ASSUME NEW c \in Client, ResetFailedLoginAttempts(c) PROVE Outside!Reset
    BY <1>4 DEF ResetFailedLoginAttempts, ResetRow, Outside!Reset, TypeOK, UserRow
  <1>5. ASSUME UNCHANGED <<user, guesses>>, faults' \in {faults, faults \cup {"lostFailure"}}
        PROVE  UNCHANGED Outside!vars
    BY <1>5 DEF Outside!vars
  <1>6. CASE \/ UNCHANGED vars \/ SuspensionEnds \/ Crash
             \/ \E c \in Client :
                  \/ LoginRefused(c) \/ \E p \in Password : LoginRight(c, p)
                  \/ ReadBack(c) \/ IncrementFails(c) \/ PermanentLockFails(c)
                  \/ ResetFailedLoginAttemptsFails(c)
                  \/ Verify2FARead(c) \/ Verify2FAGivesUp(c) \/ Verify2FASaveFails(c)
                  \/ FinalizeResetRead(c) \/ FinalizeResetSaveFails(c)
    BY <1>5, <1>6
    DEF vars, LoginRefused, LoginRight, ReadBack, IncrementFails, PermanentLockFails,
        ResetFailedLoginAttemptsFails, Verify2FARead, Verify2FAGivesUp, Verify2FASaveFails,
        FinalizeResetRead, FinalizeResetSaveFails, SuspensionEnds, Crash, Fails
  <1> QED
    BY <1>1, <1>2, <1>3, <1>4, <1>6, SavesOutside DEF Next, Progress, Begin, Outside!Next

\* Whatever the requests of any number of clients do to the row and how they overlap,
\* each of their steps is one of Credentials: passwords are tried only while the account
\* is not locked, and only the save of a stale copy undoes a lock or a new password.
THEOREM RowKeepsCredentials == Spec => KeepsCredentials
  BY InitOutside, NextOutside, TypeCorrect, PTL DEF Spec, KeepsCredentials, Outside!Spec
=============================================================================
