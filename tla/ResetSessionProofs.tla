------------------------- MODULE ResetSessionProofs -------------------------
(***************************************************************************)
(* Proofs about ResetSession: its type invariant and its safety            *)
(* properties, for any finite set of clients and any limit.                *)
(***************************************************************************)
EXTENDS ResetSession, FiniteSetTheorems, TLAPS

(***************************************************************************)
(* The inductive invariant.                                                *)
(***************************************************************************)

\* A request holds the copy of a session that was there.
CopyInv == \A c \in Client : pc[c] # "idle" => copy[c] # NoSession

\* A session is marked as verified together with a challenge that is handed out,
\* and a request finalizes only what is so marked in its copy.
VerifiedInv ==
  /\ Live /\ session.verified => session.challenge \in handed
  /\ \A c \in Client : pc[c] # "idle" =>
       /\ copy[c].verified => copy[c].challenge \in handed
       /\ pc[c] \in Finalizing => copy[c].verified

\* Nothing happens before the start.
StartInv ==
  ~started => /\ ~Live /\ ~gone /\ guesses = 0 /\ resets = 0
              /\ \A c \in Client : pc[c] = "idle"

\* While no save overwrites another every guess is in the session's counter or
\* about to be, and the request that filled the counter is no longer counting.
GuessInv ==
  faults = {} =>
    /\ guesses <= GuessLimit
    /\ Live =>
         /\ guesses <= session.attempts + Cardinality(At({"saveWrong"}))
         /\ session.attempts <= MaxAttempts
         /\ session.attempts = MaxAttempts => At({"saveWrong"}) # Client
    /\ \A c \in Client : pc[c] \in Saving => copy[c].attempts < MaxAttempts

\* A client that has written the password has not deleted the session yet, or the
\* session is gone: there is none for it to write another one from.
ResetInv ==
  faults = {} =>
    /\ Live => resets <= Cardinality(At({"revoke", "delete"}))
    /\ resets + Cardinality(At({"device", "password"})) <= Cardinality(Client)

IInv ==
  /\ TypeOK /\ CopyInv /\ VerifiedInv /\ ResetNeedsCode
  /\ StartInv /\ GoneStaysGone /\ GuessInv /\ ResetInv /\ OldTokensDoomed
-----------------------------------------------------------------------------
(***************************************************************************)
(* Requests at some steps.                                                 *)
(***************************************************************************)
LEMMA Parts ==
  ASSUME NEW X \in SUBSET Client, NEW Y \in SUBSET Client, X \cap Y = {}
  PROVE  /\ IsFiniteSet(X) /\ Cardinality(X) \in Nat
         /\ Cardinality(X) + Cardinality(Y) <= Cardinality(Client)
         /\ Cardinality(Client) \in Nat
  <1>1. IsFiniteSet(X) /\ IsFiniteSet(Y)
    BY FS_Subset, ClientAssumption
  <1>2. Cardinality(X \cup Y) = Cardinality(X) + Cardinality(Y) - Cardinality(X \cap Y)
    BY <1>1, FS_Union
  <1>3. Cardinality(X \cap Y) = 0
    BY FS_EmptySet
  <1>4. X \cup Y \subseteq Client
    OBVIOUS
  <1>5. Cardinality(X \cup Y) <= Cardinality(Client)
    BY <1>4, ClientAssumption, FS_Subset
  <1>6. Cardinality(X) \in Nat /\ Cardinality(Y) \in Nat /\ Cardinality(Client) \in Nat
    BY <1>1, ClientAssumption, FS_CardinalityType
  <1> QED
    BY <1>1, <1>2, <1>3, <1>5, <1>6

LEMMA AtFinite ==
  ASSUME NEW S
  PROVE  /\ IsFiniteSet(At(S)) /\ Cardinality(At(S)) \in Nat
         /\ Cardinality(At(S)') \in Nat
         /\ Cardinality(Client) \in Nat
         /\ Cardinality(At(S)) <= Cardinality(Client)
         /\ Cardinality(At(S)') <= Cardinality(Client)
  <1>1. At(S) \in SUBSET Client /\ At(S)' \in SUBSET Client /\ {} \in SUBSET Client
    BY DEF At
  <1>2. Cardinality({}) = 0
    BY FS_EmptySet
  <1> QED
    BY <1>1, <1>2, Parts

\* Requests at different steps are different clients.
LEMMA Apart ==
  ASSUME NEW S, NEW T, S \cap T = {}
  PROVE  Cardinality(At(S)') + Cardinality(At(T)') <= Cardinality(Client)
  <1>1. At(S)' \in SUBSET Client /\ At(T)' \in SUBSET Client /\ At(S)' \cap At(T)' = {}
    BY DEF At
  <1> QED
    BY <1>1, Parts

\* A client that moves into S adds one.
LEMMA Join ==
  ASSUME NEW S, NEW c \in Client, NEW s \in S,
         pc \in [Client -> Step], pc[c] \notin S, pc' = [pc EXCEPT ![c] = s]
  PROVE  Cardinality(At(S)') = Cardinality(At(S)) + 1
  <1>1. At(S)' = At(S) \cup {c} /\ c \notin At(S)
    BY DEF At
  <1> QED
    BY <1>1, AtFinite, FS_AddElement

\* A client that leaves S takes one away.
LEMMA Quit ==
  ASSUME NEW S, NEW c \in Client, NEW s,
         pc \in [Client -> Step], pc[c] \in S, s \notin S, pc' = [pc EXCEPT ![c] = s]
  PROVE  Cardinality(At(S)') = Cardinality(At(S)) - 1
  <1>1. At(S)' = At(S) \ {c} /\ c \in At(S)
    BY DEF At
  <1>2. Cardinality(At(S) \ {c}) = Cardinality(At(S)) - 1
    BY <1>1, AtFinite, FS_RemoveElement
  <1> QED
    BY <1>1, <1>2

\* A client that moves within S, or outside of it, changes nothing.
LEMMA Stay ==
  ASSUME NEW S, NEW c \in Client, NEW s,
         pc \in [Client -> Step], pc[c] \in S <=> s \in S, pc' = [pc EXCEPT ![c] = s]
  PROVE  At(S)' = At(S)
  BY DEF At

-----------------------------------------------------------------------------
LEMMA InitIInv == Init => IInv
  <1> SUFFICES ASSUME Init PROVE IInv
    OBVIOUS
  <1>1. TypeOK
    BY DEF Init, TypeOK, Step
  <1>1a. CopyInv /\ VerifiedInv /\ ResetNeedsCode
    BY DEF Init, Live, CopyInv, VerifiedInv, ResetNeedsCode
  <1>2. StartInv /\ GoneStaysGone /\ OldTokensDoomed
    BY DEF Init, StartInv, GoneStaysGone, OldTokensDoomed, Live
  <1>3. GuessInv
    BY AtFinite, MaxAttemptsAssumption DEF Init, GuessInv, GuessLimit, Live, Saving
  <1>4. ResetInv
    <2>1. At({"device", "password"}) = {}
      BY DEF Init, At
    <2> QED
      BY <2>1, AtFinite, FS_EmptySet DEF Init, ResetInv, Live
  <1> QED
    BY <1>1, <1>1a, <1>2, <1>3, <1>4 DEF IInv

\* A client at a step that is not the idle one holds a session.
RequestsOK ==
  /\ pc \in [Client -> Step]
  /\ copy \in [Client -> Session \cup {NoSession}]
  /\ \A c \in Client : pc[c] # "idle" => copy[c] \in Session

\* A client begins, goes on, or ends.
LEMMA Moves ==
  ASSUME RequestsOK, NEW c \in Client, NEW s \in Step, Goto(c, s),
         \/ \E x \in Session : Hold(c, x)
         \/ pc[c] # "idle" /\ UNCHANGED copy
         \/ s = "idle" /\ Hold(c, NoSession)
  PROVE  RequestsOK'
  BY DEF RequestsOK, Goto, Hold

\* What is not of the requests.
OthersOK ==
  /\ session \in Session \cup {NoSession}
  /\ staleTokens \in BOOLEAN /\ nameless \in BOOLEAN
  /\ started \in BOOLEAN /\ gone \in BOOLEAN
  /\ guesses \in Nat /\ resets \in Nat
  /\ handed \subseteq Client
  /\ faults \subseteq Fault

LEMMA TypeParts == /\ TypeOK <=> RequestsOK /\ OthersOK
                   /\ TypeOK' <=> RequestsOK' /\ OthersOK'
  BY DEF TypeOK, RequestsOK, OthersOK

LEMMA NextTypeOK == TypeOK /\ [Next]_vars => TypeOK'
  <1> SUFFICES ASSUME RequestsOK, OthersOK, [Next]_vars
               PROVE  RequestsOK' /\ OthersOK'
    BY TypeParts
  <1> USE DEF OthersOK
  <1>1. CASE StartResetProcess
    BY <1>1 DEF StartResetProcess, Session, RequestsOK
  <1>2. ASSUME NEW c \in Client, VerifyWrong(c) \/ VerifyRight(c) \/ FinalizeRead(c)
        PROVE  RequestsOK' /\ OthersOK'
    <2>1. Hold(c, session) /\ session \in Session
      BY <1>2 DEF VerifyWrong, VerifyRight, FinalizeRead, Live
    <2>2. PICK s \in {"saveWrong", "saveRight", "device"} : Goto(c, s)
      BY <1>2 DEF VerifyWrong, VerifyRight, FinalizeRead
    <2>3. RequestsOK'
      BY <2>1, <2>2, Moves DEF Step
    <2>4. guesses' \in Nat
      BY <1>2 DEF VerifyWrong, VerifyRight, FinalizeRead
    <2> QED
      BY <1>2, <2>3, <2>4 DEF VerifyWrong, VerifyRight, FinalizeRead
  <1>3. ASSUME NEW c \in Client, SaveWrong(c) \/ SaveRight(c)
        PROVE  RequestsOK' /\ OthersOK'
    <2>1. RequestsOK'
      BY <1>3, Moves DEF SaveWrong, SaveRight, Answer, Step
    <2>2. copy[c] \in Session
      BY <1>3 DEF SaveWrong, SaveRight, RequestsOK
    <2>3. AfterWrong(copy[c]) \in Session
      BY <2>2, copy[c].attempts + 1 \in Nat DEF Session, AfterWrong
    <2>4. AfterRight(c, copy[c]) \in Session
      BY <2>2 DEF Session, AfterRight
    <2> QED
      BY <1>3, <2>1, <2>3, <2>4 DEF SaveWrong, SaveRight, Save, Fault
  <1>4. ASSUME NEW c \in Client,
               SaveFails(c) \/ FinalizeDeviceFails(c) \/ FinalizeDeleteFails(c)
        PROVE  RequestsOK' /\ OthersOK'
    <2>1. RequestsOK'
      BY <1>4, Moves DEF SaveFails, FinalizeDeviceFails, FinalizeDeleteFails, Answer, Step
    <2> QED
      BY <1>4, <2>1 DEF SaveFails, FinalizeDeviceFails, FinalizeDeleteFails, Lose, Fault
  <1>5. ASSUME NEW c \in Client, NEW x, FinalizeDevice(c, x)
        PROVE  RequestsOK' /\ OthersOK'
    <2>1. RequestsOK'
      BY <1>5, Moves DEF FinalizeDevice, Answer, Step
    <2> QED
      BY <1>5, <2>1 DEF FinalizeDevice
  <1>6. ASSUME NEW c \in Client,
               FinalizePassword(c) \/ RevokeAllUserTokens(c) \/ RevokeAllUserTokensFails(c)
        PROVE  RequestsOK' /\ OthersOK'
    <2>1. RequestsOK'
      BY <1>6, Moves
      DEF FinalizePassword, RevokeAllUserTokens, RevokeAllUserTokensFails, Step
    <2>2. resets' \in Nat /\ staleTokens' \in BOOLEAN /\ faults' \subseteq Fault
      <3>1. CASE FinalizePassword(c)
        BY <3>1 DEF FinalizePassword
      <3>2. CASE RevokeAllUserTokens(c)
        BY <3>2 DEF RevokeAllUserTokens, Revoke
      <3>3. CASE RevokeAllUserTokensFails(c)
        BY <3>3 DEF RevokeAllUserTokensFails, Lose, Fault
      <3> QED
        BY <1>6, <3>1, <3>2, <3>3
    <2> QED
      BY <1>6, <2>1, <2>2
      DEF FinalizePassword, RevokeAllUserTokens, RevokeAllUserTokensFails
  <1>7. ASSUME NEW c \in Client, FinalizeDelete(c)
        PROVE  RequestsOK' /\ OthersOK'
    <2>1. RequestsOK'
      BY <1>7, Moves DEF FinalizeDelete, Answer, Step
    <2> QED
      BY <1>7, <2>1 DEF FinalizeDelete, Del
  <1>8. CASE Expire
    BY <1>8 DEF Expire, RequestsOK
  <1>9. CASE Crash
    <2>1. RequestsOK'
      BY <1>9 DEF Crash, RequestsOK, Step
    <2> QED
      BY <1>9, <2>1 DEF Crash, Fault
  <1>10. CASE UNCHANGED vars
    BY <1>10 DEF vars, RequestsOK
  <1> QED
    BY <1>1, <1>2, <1>3, <1>4, <1>5, <1>6, <1>7, <1>8, <1>9, <1>10
    DEF Next, Progress, Begin, VerifyRefused, FinalizeRefused

-----------------------------------------------------------------------------
(***************************************************************************)
(* One step.                                                               *)
(***************************************************************************)
LEMMA NextVerified ==
  TypeOK /\ CopyInv /\ VerifiedInv /\ ResetNeedsCode /\ [Next]_vars
    => CopyInv' /\ VerifiedInv' /\ ResetNeedsCode'
  <1> SUFFICES ASSUME TypeOK, CopyInv, VerifiedInv, ResetNeedsCode, [Next]_vars
               PROVE  CopyInv' /\ VerifiedInv' /\ ResetNeedsCode'
    OBVIOUS
  <1> USE DEF CopyInv, VerifiedInv, ResetNeedsCode, Live, Finalizing
  <1>0. /\ pc \in [Client -> Step] /\ copy \in [Client -> Session \cup {NoSession}]
        /\ session \in Session \cup {NoSession}
        /\ \A c \in Client : pc[c] # "idle" => copy[c] \in Session
    BY DEF TypeOK
  <1>1. CASE StartResetProcess
    BY <1>1 DEF StartResetProcess
  <1>2. ASSUME NEW c \in Client, VerifyWrong(c) \/ VerifyRight(c)
        PROVE  CopyInv' /\ VerifiedInv' /\ ResetNeedsCode'
    BY <1>0, <1>2 DEF VerifyWrong, VerifyRight, Goto, Hold
  <1>3. ASSUME NEW c \in Client, FinalizeRead(c)
        PROVE  CopyInv' /\ VerifiedInv' /\ ResetNeedsCode'
    BY <1>0, <1>3 DEF FinalizeRead, MayFinalize, Goto, Hold
  <1>4. ASSUME NEW c \in Client, SaveWrong(c)
        PROVE  CopyInv' /\ VerifiedInv' /\ ResetNeedsCode'
    <2>1. /\ session'.verified = copy[c].verified
          /\ session'.challenge = copy[c].challenge
      BY <1>0, <1>4 DEF SaveWrong, Save, AfterWrong, Session
    <2> QED
      BY <1>0, <1>4, <2>1 DEF SaveWrong, Answer, Goto, Hold
  <1>5. ASSUME NEW c \in Client, SaveRight(c)
        PROVE  CopyInv' /\ VerifiedInv' /\ ResetNeedsCode'
    <2>1. session'.challenge = c /\ handed' = handed \cup {c}
      BY <1>0, <1>5 DEF SaveRight, Save, AfterRight, Session
    <2> QED
      BY <1>0, <1>5, <2>1 DEF SaveRight, Answer, Goto, Hold
  <1>6. ASSUME NEW c \in Client,
               SaveFails(c) \/ FinalizeDeviceFails(c) \/ FinalizeDeleteFails(c)
        PROVE  CopyInv' /\ VerifiedInv' /\ ResetNeedsCode'
    BY <1>0, <1>6
    DEF SaveFails, FinalizeDeviceFails, FinalizeDeleteFails, Answer, Goto, Hold
  <1>7. ASSUME NEW c \in Client, NEW x, FinalizeDevice(c, x)
        PROVE  CopyInv' /\ VerifiedInv' /\ ResetNeedsCode'
    BY <1>0, <1>7 DEF FinalizeDevice, Answer, Goto, Hold
  <1>8. ASSUME NEW c \in Client, FinalizePassword(c)
        PROVE  CopyInv' /\ VerifiedInv' /\ ResetNeedsCode'
    BY <1>0, <1>8 DEF FinalizePassword, Goto
  <1>9. ASSUME NEW c \in Client, RevokeAllUserTokens(c) \/ RevokeAllUserTokensFails(c)
        PROVE  CopyInv' /\ VerifiedInv' /\ ResetNeedsCode'
    BY <1>0, <1>9 DEF RevokeAllUserTokens, RevokeAllUserTokensFails, Goto
  <1>10. ASSUME NEW c \in Client, FinalizeDelete(c)
         PROVE  CopyInv' /\ VerifiedInv' /\ ResetNeedsCode'
    BY <1>0, <1>10 DEF FinalizeDelete, Del, Answer, Goto, Hold
  <1>11. CASE Expire
    BY <1>11 DEF Expire
  <1>12. CASE Crash
    BY <1>12 DEF Crash
  <1>13. CASE UNCHANGED vars
    BY <1>13 DEF vars
  <1> QED
    BY <1>1, <1>2, <1>3, <1>4, <1>5, <1>6, <1>7, <1>8, <1>9, <1>10, <1>11, <1>12, <1>13
    DEF Next, Progress, Begin, VerifyRefused, FinalizeRefused

LEMMA NextGone ==
  TypeOK /\ CopyInv /\ StartInv /\ GoneStaysGone /\ [Next]_vars
    => StartInv' /\ GoneStaysGone'
  <1> SUFFICES ASSUME TypeOK, CopyInv, StartInv, GoneStaysGone, [Next]_vars
               PROVE  StartInv' /\ GoneStaysGone'
    OBVIOUS
  <1> USE DEF CopyInv, StartInv, GoneStaysGone, Live
  <1>0. pc \in [Client -> Step]
    BY DEF TypeOK
  <1>1. CASE StartResetProcess
    BY <1>1 DEF StartResetProcess
  <1>2. ASSUME NEW c \in Client, VerifyWrong(c) \/ VerifyRight(c) \/ FinalizeRead(c)
        PROVE  StartInv' /\ GoneStaysGone'
    BY <1>2 DEF VerifyWrong, VerifyRight, FinalizeRead
  <1>3. ASSUME NEW c \in Client, SaveWrong(c) \/ SaveRight(c)
        PROVE  StartInv' /\ GoneStaysGone'
    BY <1>3 DEF SaveWrong, SaveRight, Save
  <1>4. ASSUME NEW c \in Client, SaveFails(c) \/ FinalizeDeleteFails(c) \/ FinalizeDelete(c)
        PROVE  StartInv' /\ GoneStaysGone'
    BY <1>4 DEF SaveFails, FinalizeDeleteFails, FinalizeDelete, Del, Lose, Saving
  <1>5. ASSUME NEW c \in Client, NEW x, FinalizeDeviceFails(c) \/ FinalizeDevice(c, x)
        PROVE  StartInv' /\ GoneStaysGone'
    <2>1. /\ started /\ started' = started
          /\ UNCHANGED <<session, gone, faults>>
      BY <1>5 DEF FinalizeDeviceFails, FinalizeDevice
    <2> QED
      BY <2>1
  <1>6. ASSUME NEW c \in Client,
               FinalizePassword(c) \/ RevokeAllUserTokens(c) \/ RevokeAllUserTokensFails(c)
        PROVE  StartInv' /\ GoneStaysGone'
    BY <1>6 DEF FinalizePassword, RevokeAllUserTokens, RevokeAllUserTokensFails, Lose
  <1>7. CASE Expire \/ Crash
    BY <1>7 DEF Expire, Crash
  <1>8. CASE UNCHANGED vars
    BY <1>8 DEF vars
  <1> QED
    BY <1>1, <1>2, <1>3, <1>4, <1>5, <1>6, <1>7, <1>8
    DEF Next, Progress, Begin, VerifyRefused, FinalizeRefused

LEMMA NextDoomed ==
  TypeOK /\ OldTokensDoomed /\ [Next]_vars => OldTokensDoomed'
  <1> SUFFICES ASSUME TypeOK, OldTokensDoomed, [Next]_vars
               PROVE  OldTokensDoomed'
    OBVIOUS
  <1> USE DEF OldTokensDoomed
  <1>0. pc \in [Client -> Step]
    BY DEF TypeOK
  <1>1. CASE StartResetProcess \/ Expire
    BY <1>1 DEF StartResetProcess, Expire
  <1>2. ASSUME NEW c \in Client,
               \/ VerifyWrong(c) \/ VerifyRight(c) \/ FinalizeRead(c)
               \/ SaveWrong(c) \/ SaveRight(c) \/ FinalizeDeviceFails(c)
               \/ \E x \in handed \cup {NoChallenge} : FinalizeDevice(c, x)
               \/ FinalizeDelete(c)
        PROVE  OldTokensDoomed'
    <2>1. /\ pc[c] # "revoke" /\ staleTokens' = staleTokens
          /\ faults' = {} => faults = {}
          /\ \A d \in Client : d # c => pc'[d] = pc[d]
      BY <1>0, <1>2
      DEF VerifyWrong, VerifyRight, FinalizeRead, SaveWrong, SaveRight, Save,
          FinalizeDeviceFails, FinalizeDevice, FinalizeDelete, Saving, Answer, Goto
    <2> QED
      BY <2>1
  <1>3. ASSUME NEW c \in Client,
               SaveFails(c) \/ RevokeAllUserTokensFails(c) \/ FinalizeDeleteFails(c)
        PROVE  OldTokensDoomed'
    BY <1>3 DEF SaveFails, RevokeAllUserTokensFails, FinalizeDeleteFails, Lose
  <1>4. ASSUME NEW c \in Client, FinalizePassword(c) \/ RevokeAllUserTokens(c)
        PROVE  OldTokensDoomed'
    BY <1>0, <1>4 DEF FinalizePassword, RevokeAllUserTokens, Revoke, Goto
  <1>5. CASE Crash
    BY <1>5 DEF Crash, Saving
  <1>6. CASE UNCHANGED vars
    BY <1>6 DEF vars
  <1> QED
    BY <1>1, <1>2, <1>3, <1>4, <1>5, <1>6
    DEF Next, Progress, Begin, VerifyRefused, FinalizeRefused

LEMMA NextGuess ==
  TypeOK /\ CopyInv /\ StartInv /\ GuessInv /\ [Next]_vars => GuessInv'
  <1> SUFFICES ASSUME TypeOK, CopyInv, StartInv, GuessInv, [Next]_vars, faults' = {}
               PROVE  GuessInv'
    BY DEF GuessInv
  <1> DEFINE W == At({"saveWrong"})
  <1>0. /\ pc \in [Client -> Step] /\ copy \in [Client -> Session \cup {NoSession}]
        /\ session \in Session \cup {NoSession} /\ guesses \in Nat
        /\ \A c \in Client : pc[c] # "idle" => copy[c] \in Session
        /\ MaxAttempts \in Nat \ {0} /\ Cardinality(Client) \in Nat
        /\ GuessLimit = MaxAttempts - 1 + Cardinality(Client)
        /\ Live => session.attempts \in Nat
    BY MaxAttemptsAssumption, AtFinite DEF TypeOK, GuessLimit, Live, Session
  <1>a. /\ Cardinality(W) \in Nat /\ Cardinality(W') \in Nat
        /\ Cardinality(W) <= Cardinality(Client)
        /\ Cardinality(W') <= Cardinality(Client)
    BY AtFinite
  <1> HIDE DEF W
  <1> USE DEF GuessInv, Live, Saving
  <1>1. CASE StartResetProcess
    <2>1. guesses = 0 /\ guesses' = 0 /\ session'.attempts = 0 /\ W' = W
          /\ UNCHANGED <<pc, copy, faults>> /\ \A c \in Client : pc[c] = "idle"
      BY <1>1 DEF StartResetProcess, StartInv, W, At
    <2> QED
      BY <1>0, <1>a, <2>1 DEF W, GuessLimit
  <1>2. ASSUME NEW c \in Client, VerifyWrong(c)
        PROVE  GuessInv'
    <2>1. Cardinality(W') = Cardinality(W) + 1
      BY <1>0, <1>2, Join DEF VerifyWrong, Goto, W
    <2>2. /\ session' = session /\ faults' = faults /\ session # NoSession
          /\ session.attempts < MaxAttempts /\ session.attempts \in Nat
          /\ guesses' \in {guesses, guesses + 1}
          /\ copy' = [copy EXCEPT ![c] = session] /\ pc' = [pc EXCEPT ![c] = "saveWrong"]
      BY <1>0, <1>2 DEF VerifyWrong, Locked, Goto, Hold
    <2>3. guesses' <= session.attempts + Cardinality(W')
      BY <1>0, <1>a, <2>1, <2>2 DEF W
    <2>4. \A d \in Client : pc'[d] \in Saving => copy'[d].attempts < MaxAttempts
      BY <1>0, <2>2
    <2>5. guesses' <= GuessLimit
      BY <1>0, <1>a, <2>2, <2>3
    <2> QED
      BY <1>0, <2>2, <2>3, <2>4, <2>5 DEF W, GuessLimit
  <1>3. ASSUME NEW c \in Client, SaveWrong(c)
        PROVE  GuessInv'
    <2>1. Cardinality(W') = Cardinality(W) - 1 /\ c \notin W'
      <3>1. Cardinality(W') = Cardinality(W) - 1
        <4>1. /\ pc[c] \in {"saveWrong"} /\ "idle" \notin {"saveWrong"}
              /\ pc' = [pc EXCEPT ![c] = "idle"]
          BY <1>3 DEF SaveWrong, Answer, Goto
        <4> QED
          BY <1>0, <4>1, Quit DEF W
      <3>2. c \notin W'
        BY <1>0, <1>3 DEF SaveWrong, Answer, Goto, W, At
      <3> QED
        BY <3>1, <3>2
    <2>2. /\ session = copy[c] /\ session # NoSession /\ faults = {}
          /\ pc[c] = "saveWrong" /\ guesses' = guesses
          /\ copy' = [copy EXCEPT ![c] = NoSession] /\ pc' = [pc EXCEPT ![c] = "idle"]
      BY <1>0, <1>3 DEF SaveWrong, Save, CopyInv, Answer, Goto, Hold
    <2>3. session'.attempts = session.attempts + 1 /\ session.attempts < MaxAttempts
      BY <1>0, <1>3, <2>2 DEF SaveWrong, Save, AfterWrong, Session
    <2>4. \A d \in Client : pc'[d] \in Saving => copy'[d].attempts < MaxAttempts
      BY <1>0, <2>2
    <2>5. guesses' <= session'.attempts + Cardinality(W')
      BY <1>0, <1>a, <2>1, <2>2, <2>3 DEF W
    <2> QED
      BY <1>0, <2>1, <2>2, <2>3, <2>4, <2>5 DEF W, GuessLimit
  <1>4. ASSUME NEW c \in Client, SaveRight(c)
        PROVE  GuessInv'
    <2>1. W' = W
      BY <1>0, <1>4, Stay DEF SaveRight, Answer, Goto, W
    <2>2. /\ session = copy[c] /\ session # NoSession /\ faults = {}
          /\ pc[c] = "saveRight" /\ guesses' = guesses
          /\ copy' = [copy EXCEPT ![c] = NoSession] /\ pc' = [pc EXCEPT ![c] = "idle"]
      BY <1>0, <1>4 DEF SaveRight, Save, CopyInv, Answer, Goto, Hold
    <2>3. session'.attempts = session.attempts
      BY <1>0, <1>4, <2>2 DEF SaveRight, Save, AfterRight, Session
    <2>4. \A d \in Client : pc'[d] \in Saving => copy'[d].attempts < MaxAttempts
      BY <1>0, <2>2
    <2> QED
      BY <1>0, <2>1, <2>2, <2>3, <2>4 DEF W, GuessLimit
  <1>5. ASSUME NEW c \in Client, VerifyRight(c) \/ FinalizeRead(c)
        PROVE  GuessInv'
    <2>1. W' = W
      BY <1>0, <1>5, Stay DEF VerifyRight, FinalizeRead, Goto, W
    <2>2. /\ UNCHANGED <<session, guesses, faults>>
          /\ copy' = [copy EXCEPT ![c] = session]
          /\ \/ pc' = [pc EXCEPT ![c] = "saveRight"] /\ session.attempts < MaxAttempts
             \/ pc' = [pc EXCEPT ![c] = "device"]
      BY <1>0, <1>5 DEF VerifyRight, FinalizeRead, Locked, Goto, Hold
    <2>3. \A d \in Client : pc'[d] \in Saving => copy'[d].attempts < MaxAttempts
      BY <1>0, <2>2
    <2> QED
      BY <1>0, <2>1, <2>2, <2>3 DEF W, GuessLimit
  <1>6. ASSUME NEW c \in Client, NEW x,
               \/ FinalizeDevice(c, x) \/ FinalizeDeviceFails(c) \/ FinalizePassword(c)
               \/ RevokeAllUserTokens(c) \/ FinalizeDelete(c)
        PROVE  GuessInv'
    <2>1. PICK s \in {"idle", "password", "revoke", "delete"} : Goto(c, s)
      BY <1>6
      DEF FinalizeDevice, FinalizeDeviceFails, FinalizePassword, RevokeAllUserTokens,
          FinalizeDelete, Answer
    <2>2. /\ pc[c] \in Finalizing /\ UNCHANGED <<guesses, faults>>
          /\ session' \in {session, NoSession}
          /\ copy' = copy \/ copy' = [copy EXCEPT ![c] = NoSession]
      BY <1>6
      DEF FinalizeDevice, FinalizeDeviceFails, FinalizePassword, RevokeAllUserTokens,
          FinalizeDelete, Del, Answer, Hold, Finalizing
    <2>3. W' = W
      BY <1>0, <2>1, <2>2, Stay DEF Goto, W, Finalizing
    <2>4. \A d \in Client : pc'[d] \in Saving => copy'[d].attempts < MaxAttempts
      BY <1>0, <2>1, <2>2 DEF Goto
    <2> QED
      BY <1>0, <2>2, <2>3, <2>4 DEF W, GuessLimit
  <1>7. ASSUME NEW c \in Client,
               SaveFails(c) \/ RevokeAllUserTokensFails(c) \/ FinalizeDeleteFails(c)
        PROVE  GuessInv'
    BY <1>7 DEF SaveFails, RevokeAllUserTokensFails, FinalizeDeleteFails, Lose
  <1>8. CASE Expire
    BY <1>8 DEF Expire, GuessLimit
  <1>9. CASE Crash
    <2>1. faults = {} /\ UNCHANGED <<session, guesses>>
          /\ \A c \in Client : pc'[c] = "idle" /\ pc[c] \notin Saving
      BY <1>9 DEF Crash
    <2>2. W = {} /\ W' = {} /\ Client # {}
      BY <1>9, <2>1 DEF W, At, Crash
    <2> QED
      BY <1>0, <2>1, <2>2 DEF W, GuessLimit
  <1>10. CASE UNCHANGED vars
    BY <1>10 DEF vars, GuessLimit, At
  <1> QED
    BY <1>1, <1>2, <1>3, <1>4, <1>5, <1>6, <1>7, <1>8, <1>9, <1>10
    DEF Next, Progress, Begin, VerifyRefused, FinalizeRefused

LEMMA NextReset ==
  TypeOK /\ CopyInv /\ StartInv /\ ResetInv /\ [Next]_vars => ResetInv'
  <1> SUFFICES ASSUME TypeOK, CopyInv, StartInv, ResetInv, [Next]_vars, faults' = {}
               PROVE  ResetInv'
    BY DEF ResetInv
  <1> DEFINE R == At({"revoke", "delete"})
             D == At({"device", "password"})
  <1>0. pc \in [Client -> Step] /\ resets \in Nat /\ Cardinality(Client) \in Nat
    BY AtFinite DEF TypeOK
  <1>a. /\ Cardinality(R) \in Nat /\ Cardinality(R') \in Nat
        /\ Cardinality(D) \in Nat /\ Cardinality(D') \in Nat
    BY AtFinite
  <1>b. Cardinality(R') + Cardinality(D') <= Cardinality(Client)
    BY Apart
  <1> HIDE DEF R, D
  <1> USE DEF ResetInv, Live
  <1>1. CASE StartResetProcess
    <2>1. resets = 0 /\ resets' = 0 /\ R' = R /\ D' = D /\ faults' = faults
      BY <1>1 DEF StartResetProcess, StartInv, R, D, At
    <2> QED
      BY <1>0, <1>a, <2>1 DEF R, D
  <1>2. ASSUME NEW c \in Client,
               VerifyWrong(c) \/ VerifyRight(c) \/ SaveWrong(c) \/ SaveRight(c)
        PROVE  ResetInv'
    <2>1. PICK s \in {"saveWrong", "saveRight", "idle"} : Goto(c, s)
      BY <1>2 DEF VerifyWrong, VerifyRight, SaveWrong, SaveRight, Answer
    <2>2. /\ pc[c] \in {"idle", "saveWrong", "saveRight"} /\ resets' = resets
          /\ faults = {} /\ (session # NoSession)
      BY <1>2 DEF VerifyWrong, VerifyRight, SaveWrong, SaveRight, Save, CopyInv
    <2>3. R' = R /\ D' = D
      BY <1>0, <2>1, <2>2 DEF Goto, R, D, At
    <2> QED
      BY <2>2, <2>3 DEF R, D
  <1>3. ASSUME NEW c \in Client, FinalizeRead(c)
        PROVE  ResetInv'
    <2>1. /\ pc[c] = "idle" /\ pc' = [pc EXCEPT ![c] = "device"] /\ session # NoSession
          /\ UNCHANGED <<session, resets, faults>>
      BY <1>3 DEF FinalizeRead, Goto
    <2>2. R' = R
      BY <1>0, <2>1 DEF R, At
    <2> QED
      BY <1>0, <1>a, <1>b, <2>1, <2>2 DEF R, D
  <1>4. ASSUME NEW c \in Client, NEW x, FinalizeDevice(c, x) \/ FinalizeDeviceFails(c)
        PROVE  ResetInv'
    <2>1. /\ pc[c] \in {"device", "password"} /\ UNCHANGED <<session, resets, faults>>
          /\ Goto(c, "password") \/ Goto(c, "idle")
      BY <1>4 DEF FinalizeDevice, FinalizeDeviceFails, Answer
    <2>2. R' = R
      BY <1>0, <2>1 DEF Goto, R, At
    <2>3. CASE Goto(c, "password")
      <3>1. D' = D
        BY <1>0, <2>1, <2>3 DEF Goto, D, At
      <3> QED
        BY <2>1, <2>2, <3>1 DEF R, D
    <2>4. CASE Goto(c, "idle")
      <3>1. pc' = [pc EXCEPT ![c] = "idle"] /\ "idle" \notin {"device", "password"}
        BY <2>4 DEF Goto
      <3>2. Cardinality(D') = Cardinality(D) - 1
        BY <1>0, <2>1, <3>1, Quit DEF D
      <3> QED
        BY <1>0, <1>a, <2>1, <2>2, <3>2 DEF R, D
    <2> QED
      BY <2>1, <2>3, <2>4
  <1>5. ASSUME NEW c \in Client, FinalizePassword(c)
        PROVE  ResetInv'
    <2>1. /\ pc[c] = "password" /\ pc' = [pc EXCEPT ![c] = "revoke"]
          /\ faults = {} /\ resets' = resets + 1 /\ session' = session
      BY <1>5 DEF FinalizePassword, Goto
    <2>2. Cardinality(D') = Cardinality(D) - 1
      <3>1. pc[c] \in {"device", "password"} /\ "revoke" \notin {"device", "password"}
        BY <2>1
      <3> QED
        BY <1>0, <2>1, <3>1, Quit DEF D
    <2>3. Cardinality(R') = Cardinality(R) + 1
      <3>1. pc[c] \notin {"revoke", "delete"} /\ "revoke" \in {"revoke", "delete"}
        BY <2>1
      <3> QED
        BY <1>0, <2>1, <3>1, Join DEF R
    <2> QED
      BY <1>0, <1>a, <2>1, <2>2, <2>3 DEF R, D
  <1>6. ASSUME NEW c \in Client, RevokeAllUserTokens(c) \/ FinalizeDelete(c)
        PROVE  ResetInv'
    <2>1. /\ pc[c] \in {"revoke", "delete"} /\ faults = {} /\ resets' = resets
          /\ \/ session' = NoSession /\ Goto(c, "idle")
             \/ session' = session /\ Goto(c, "delete")
      BY <1>6 DEF RevokeAllUserTokens, FinalizeDelete, Del, Answer
    <2>2. D' = D
      BY <1>0, <2>1 DEF Goto, D, At
    <2>3. Goto(c, "delete") => R' = R
      BY <1>0, <2>1 DEF Goto, R, At
    <2> QED
      BY <2>1, <2>2, <2>3 DEF R, D
  <1>7. ASSUME NEW c \in Client,
               SaveFails(c) \/ RevokeAllUserTokensFails(c) \/ FinalizeDeleteFails(c)
        PROVE  ResetInv'
    BY <1>7 DEF SaveFails, RevokeAllUserTokensFails, FinalizeDeleteFails, Lose
  <1>8. CASE Expire
    <2>1. session' = NoSession /\ R' = R /\ D' = D /\ UNCHANGED <<resets, faults>>
      BY <1>8 DEF Expire, R, D, At
    <2> QED
      BY <2>1 DEF R, D
  <1>9. CASE Crash
    <2>1. /\ faults = {} /\ UNCHANGED <<session, resets>>
          /\ \A c \in Client : pc'[c] = "idle" /\ pc[c] \notin {"revoke", "delete"}
      BY <1>9 DEF Crash
    <2>2. R = {} /\ R' = {} /\ D' = {} /\ Cardinality({}) = 0
      BY <2>1, FS_EmptySet DEF R, D, At
    <2> QED
      BY <1>0, <1>a, <2>1, <2>2 DEF R, D
  <1>10. CASE UNCHANGED vars
    BY <1>10 DEF vars, At
  <1> QED
    BY <1>1, <1>2, <1>3, <1>4, <1>5, <1>6, <1>7, <1>8, <1>9, <1>10
    DEF Next, Progress, Begin, VerifyRefused, FinalizeRefused

LEMMA NextIInv == IInv /\ [Next]_vars => IInv'
  BY NextTypeOK, NextVerified, NextGone, NextDoomed, NextGuess, NextReset DEF IInv

LEMMA Invariance == Spec => []IInv
  BY InitIInv, NextIInv, PTL DEF Spec
-----------------------------------------------------------------------------
\* Whatever saves overwrite each other, the key holds a session or nothing, and
\* every request under way holds a copy.
THEOREM TypeCorrect == Spec => []TypeOK
  <1>1. IInv => TypeOK
    BY DEF IInv
  <1> QED
    BY <1>1, Invariance, PTL

\* FinalizeReset writes a password only for a client whose copy holds a challenge
\* that VerifyCode handed out after the right code, with any number of clients
\* overwriting each other's session, and with calls that fail and crashes.
THEOREM PasswordsNeedTheCode == Spec => []ResetNeedsCode
  <1>1. IInv => ResetNeedsCode
    BY DEF IInv
  <1> QED
    BY <1>1, Invariance, PTL

\* VerifyCode compares at most MaxAttempts - 1 wrong codes and one for each request
\* in flight, whatever the limit, as long as no save overwrites another.
THEOREM GuessesBounded == Spec => []GuessesWithoutOverlap
  <1>1. IInv => GuessesWithoutOverlap
    BY DEF IInv, GuessInv, GuessesWithoutOverlap
  <1> QED
    BY <1>1, Invariance, PTL

\* One session writes the password at most once for each client, as long as no
\* save overwrites another and the delete at the end of FinalizeReset succeeds.
THEOREM OneResetPerClient == Spec => []ResetsBounded
  <1>1. IInv => ResetsBounded
    <2> SUFFICES ASSUME IInv, faults = {} PROVE resets <= Cardinality(Client)
      BY DEF ResetsBounded
    <2>1. resets + Cardinality(At({"device", "password"})) <= Cardinality(Client)
      BY DEF IInv, ResetInv
    <2> QED
      BY <2>1, AtFinite DEF IInv, TypeOK
  <1> QED
    BY <1>1, Invariance, PTL

\* A session that FinalizeReset deleted, or that expired, comes back only by a save
\* of VerifyCode that overwrites what it did not read.
THEOREM NoReturn == Spec => []GoneStaysGone
  <1>1. IInv => GoneStaysGone
    BY DEF IInv
  <1> QED
    BY <1>1, Invariance, PTL

\* After FinalizeReset wrote a password, the refresh tokens from before it are
\* revoked or a request is about to revoke them, unless a call failed.
THEOREM RevocationFollows == Spec => []OldTokensDoomed
  <1>1. IInv => OldTokensDoomed
    BY DEF IInv
  <1> QED
    BY <1>1, Invariance, PTL
-----------------------------------------------------------------------------
(***************************************************************************)
(* The abstract code: every step of the service is a step of it, or none.  *)
(***************************************************************************)

\* However saves overwrite each other, no counter passes the limit, and a copy that
\* is to be saved is below it.
LimitInv ==
  /\ Live => session.attempts <= MaxAttempts
  /\ \A c \in Client : pc[c] \in Saving => copy[c].attempts < MaxAttempts

LEMMA NextLimit == TypeOK /\ CopyInv /\ LimitInv /\ [Next]_vars => LimitInv'
  <1> SUFFICES ASSUME TypeOK, CopyInv, LimitInv, [Next]_vars
               PROVE  LimitInv'
    OBVIOUS
  <1> USE MaxAttemptsAssumption DEF LimitInv, CopyInv, Saving, Live
  <1>0. /\ pc \in [Client -> Step] /\ copy \in [Client -> Session \cup {NoSession}]
        /\ session \in Session \cup {NoSession}
        /\ \A c \in Client : pc[c] # "idle" => copy[c] \in Session
    BY DEF TypeOK
  <1>1. CASE StartResetProcess
    BY <1>1 DEF StartResetProcess
  <1>2. ASSUME NEW c \in Client, VerifyWrong(c) \/ VerifyRight(c) \/ FinalizeRead(c)
        PROVE  LimitInv'
    <2>1. session.attempts \in Nat
      BY <1>0, <1>2 DEF Session, VerifyWrong, VerifyRight, FinalizeRead
    <2> QED
      BY <1>0, <1>2, <2>1 DEF VerifyWrong, VerifyRight, FinalizeRead, Locked, Goto, Hold
  <1>3. ASSUME NEW c \in Client, SaveWrong(c) \/ SaveRight(c)
        PROVE  LimitInv'
    <2>1. copy[c] \in Session /\ copy[c].attempts < MaxAttempts
      BY <1>0, <1>3 DEF SaveWrong, SaveRight
    <2>2. session'.attempts \in {copy[c].attempts, copy[c].attempts + 1}
      BY <1>3, <2>1 DEF SaveWrong, SaveRight, Save, AfterWrong, AfterRight, Session
    <2>3. session'.attempts <= MaxAttempts
      BY <2>1, <2>2 DEF Session
    <2> QED
      BY <1>0, <1>3, <2>3 DEF SaveWrong, SaveRight, Answer, Goto, Hold
  <1>4. ASSUME NEW c \in Client,
               \/ SaveFails(c) \/ FinalizeDeviceFails(c) \/ FinalizeDeleteFails(c)
               \/ FinalizeDelete(c) \/ \E x : FinalizeDevice(c, x)
        PROVE  LimitInv'
    BY <1>0, <1>4
    DEF SaveFails, FinalizeDeviceFails, FinalizeDeleteFails, FinalizeDelete, Del,
        FinalizeDevice, Answer, Goto, Hold
  <1>5. ASSUME NEW c \in Client,
               FinalizePassword(c) \/ RevokeAllUserTokens(c) \/ RevokeAllUserTokensFails(c)
        PROVE  LimitInv'
    BY <1>0, <1>5 DEF FinalizePassword, RevokeAllUserTokens, RevokeAllUserTokensFails, Goto
  <1>6. CASE Expire \/ Crash \/ UNCHANGED vars
    BY <1>6 DEF Expire, Crash, vars
  <1> QED
    BY <1>1, <1>2, <1>3, <1>4, <1>5, <1>6
    DEF Next, Progress, Begin, VerifyRefused, FinalizeRefused

LEMMA StepIsOfCode ==
  ASSUME IInv, LimitInv, LimitInv', [Next]_vars
  PROVE  [Code!Next]_(Code!vars)
  <1> USE DEF Code!vars, Code!Next, Life, Count, Live
  <1>0. session \in Session \cup {NoSession}
    BY DEF IInv, TypeOK
  <1>1. CASE StartResetProcess
    <2>1. session' \in Session /\ session'.attempts = 0
      BY <1>1 DEF StartResetProcess, Session
    <2> QED
      BY <1>1, <2>1, NoSessionAssumption DEF StartResetProcess, Code!Issue, IInv, StartInv
  <1>2. ASSUME NEW c \in Client, SaveWrong(c) \/ SaveRight(c)
        PROVE  [Code!Next]_(Code!vars)
    <2>1. /\ copy[c] \in Session /\ copy[c].attempts < MaxAttempts
          /\ started /\ started' = started
      BY <1>2 DEF SaveWrong, SaveRight, IInv, TypeOK, StartInv, LimitInv, Saving
    <2>2. /\ session' \in Session /\ session' # NoSession
          /\ session'.attempts \in Nat /\ session'.attempts <= MaxAttempts
      <3>1. AfterWrong(copy[c]) \in Session /\ AfterRight(c, copy[c]) \in Session
        BY <2>1, copy[c].attempts + 1 \in Nat DEF Session, AfterWrong, AfterRight
      <3>2. session' \in Session
        BY <1>2, <3>1 DEF SaveWrong, SaveRight, Save
      <3>3. session' # NoSession /\ session'.attempts \in Nat
        BY <3>2, NoSessionAssumption DEF Session
      <3> QED
        BY <3>2, <3>3 DEF LimitInv
    <2>3. CASE session = copy[c] /\ SaveWrong(c)
      <3>1. session'.attempts = session.attempts + 1 /\ session # NoSession
        BY <2>1, <2>3, NoSessionAssumption DEF SaveWrong, Save, AfterWrong, Session
      <3>2. faults' = faults
        BY <2>3 DEF SaveWrong, Save
      <3> QED
        BY <2>1, <2>2, <2>3, <3>1, <3>2 DEF Code!Wrong
    <2>4. CASE session = copy[c] /\ SaveRight(c)
      <3>1. session'.attempts = session.attempts /\ session # NoSession
        BY <2>1, <2>4, NoSessionAssumption DEF SaveRight, Save, AfterRight, Session
      <3>2. faults' = faults
        BY <2>4 DEF SaveRight, Save
      <3> QED
        BY <2>1, <2>2, <3>1, <3>2
    <2>5. CASE session # copy[c]
      <3>1. "overlap" \in faults'
        BY <1>2, <2>5 DEF SaveWrong, SaveRight, Save
      <3>2. Count' \in 0 .. MaxAttempts
        BY <2>2, MaxAttemptsAssumption
      <3> QED
        BY <2>1, <2>2, <3>1, <3>2 DEF Code!Overwrite
    <2> QED
      BY <1>2, <2>3, <2>4, <2>5
  <1>3. ASSUME NEW c \in Client, FinalizeDelete(c)
        PROVE  [Code!Next]_(Code!vars)
    <2>1. started /\ started' = started /\ session' = NoSession /\ faults' = faults
      BY <1>3 DEF FinalizeDelete, Del, IInv, StartInv
    <2> QED
      BY <2>1 DEF Code!End
  <1>4. CASE Expire
    BY <1>4 DEF Expire, Code!End, IInv, StartInv
  <1>5. CASE UNCHANGED <<session, started>> /\ ("overlap" \in faults' <=> "overlap" \in faults)
    BY <1>5
  <1> QED
    BY <1>1, <1>2, <1>3, <1>4, <1>5
    DEF Next, Progress, Begin, VerifyRefused, FinalizeRefused, VerifyWrong, VerifyRight,
        SaveFails, FinalizeRead, FinalizeDevice, FinalizeDeviceFails, FinalizePassword,
        RevokeAllUserTokens, RevokeAllUserTokensFails, FinalizeDeleteFails, Crash, Lose, vars

\* Only a save over what its request had not read makes the session of a reset
\* anything other than a one-time code: otherwise it is never back after its end and
\* its counter never goes down, and even then no counter passes the limit.
THEOREM CodeIsKept == Spec => KeepsCode
  <1>1. Init => Code!Init /\ LimitInv
    BY DEF Init, Code!Init, Life, Count, Live, LimitInv, Saving
  <1>2. IInv /\ LimitInv /\ [Next]_vars => LimitInv'
    BY NextLimit DEF IInv
  <1>3. IInv /\ LimitInv /\ LimitInv' /\ [Next]_vars => [Code!Next]_(Code!vars)
    BY StepIsOfCode
  <1>4. Spec => []LimitInv
    BY <1>1, <1>2, Invariance, PTL DEF Spec
  <1> QED
    BY <1>1, <1>3, <1>4, Invariance, PTL DEF Spec, KeepsCode, Code!Spec
=============================================================================
