-------------------------- MODULE TwoFactorProofs --------------------------
(***************************************************************************)
(* Proofs about TwoFactor: its type invariant and its safety properties,   *)
(* for any finite set of clients, any tokens and any limit.                *)
(***************************************************************************)
EXTENDS TwoFactor, FiniteSetTheorems, TLAPS

\* The requests at some steps for one token are finitely many.
LEMMA AtFinite ==
  ASSUME NEW S, NEW t
  PROVE  /\ IsFiniteSet(At(S, t)) /\ Cardinality(At(S, t)) \in Nat
         /\ Cardinality(Client) \in Nat
         /\ Cardinality(At(S, t)) <= Cardinality(Client)
  <1>1. At(S, t) \subseteq Client
    BY DEF At
  <1> QED
    BY <1>1, FS_Subset, FS_CardinalityType, ClientAssumption

\* A client that begins a request for t at a step in S adds one.
LEMMA Join ==
  ASSUME NEW S, NEW t, NEW c \in Client, NEW s \in S,
         pc \in [Client -> Step], tok \in [Client -> Token], pc[c] \notin S,
         pc' = [pc EXCEPT ![c] = s], tok' = [tok EXCEPT ![c] = t]
  PROVE  Cardinality(At(S, t)') = Cardinality(At(S, t)) + 1
  <1>1. At(S, t)' = At(S, t) \cup {c} /\ c \notin At(S, t)
    BY DEF At
  <1> QED
    BY <1>1, AtFinite, FS_AddElement

\* A client whose request for t leaves S takes one away.
LEMMA Quit ==
  ASSUME NEW S, NEW t, NEW c \in Client, NEW s,
         pc \in [Client -> Step], tok \in [Client -> Token],
         pc[c] \in S, tok[c] = t, s \notin S,
         pc' = [pc EXCEPT ![c] = s], UNCHANGED tok
  PROVE  Cardinality(At(S, t)') = Cardinality(At(S, t)) - 1
  <1>1. At(S, t)' = At(S, t) \ {c} /\ c \in At(S, t)
    BY DEF At
  <1>2. Cardinality(At(S, t) \ {c}) = Cardinality(At(S, t)) - 1
    BY <1>1, AtFinite, FS_RemoveElement
  <1> QED
    BY <1>1, <1>2

(***************************************************************************)
(* The inductive invariant.                                                *)
(***************************************************************************)

\* Nothing happens to a token before it is handed out.
Untouched == \A t \in Token \ issued : tried[t] = 0 /\ granted[t] = 0

\* A session the limit has stopped stays at the limit.
AtMostMax == \A t \in Token : Live(t) => session[t] <= MaxAttempts

\* A code is of use only once its session is gone; from then on no request joins
\* those that have seen it right.
UsedOnlyWhenGone ==
  \A t \in Token \ faults :
    /\ t \notin gone => granted[t] = 0 /\ At({"setup", "challenge"}, t) = {}
    /\ t \in gone => granted[t] + Cardinality(At(Accepted, t)) <= Cardinality(Client)

IInv ==
  /\ TypeOK /\ Untouched /\ AtMostMax
  /\ NoRevival /\ UsedOnlyWhenGone /\ AttemptsCounted /\ LockedForReason
-----------------------------------------------------------------------------
LEMMA InitIInv == Init => IInv
  <1> SUFFICES ASSUME Init PROVE IInv
    OBVIOUS
  <1>1. TypeOK
    BY DEF Init, TypeOK, Step
  <1>2. Untouched /\ AtMostMax /\ NoRevival /\ LockedForReason /\ AttemptsCounted
    BY DEF Init, Untouched, AtMostMax, NoRevival, LockedForReason, AttemptsCounted, Live
  <1>3. UsedOnlyWhenGone
    BY DEF Init, UsedOnlyWhenGone, At
  <1> QED
    BY <1>1, <1>2, <1>3 DEF IInv

LEMMA NextTypeOK == TypeOK /\ [Next]_vars => TypeOK'
  <1> SUFFICES ASSUME TypeOK, [Next]_vars
               PROVE  TypeOK'
    OBVIOUS
  <1> USE NoSessionAssumption, MaxAttemptsAssumption DEF TypeOK, Step, Goto
  <1>1. ASSUME NEW t \in Token, Issue(t)
        PROVE  TypeOK'
    BY <1>1 DEF Issue
  <1>2. ASSUME NEW t \in Token, Expire(t)
        PROVE  TypeOK'
    BY <1>2 DEF Expire, Live
  <1>3. ASSUME NEW c \in Client, NEW t \in Token, WrongCode(c, t) \/ RightCode(c, t)
        PROVE  TypeOK'
    <2>1. /\ tok' = [tok EXCEPT ![c] = t] /\ t \in issued
          /\ pc' \in [Client -> Step] /\ \A d \in Client : d # c => pc'[d] = pc[d]
          /\ UNCHANGED <<session, issued, gone, granted, toldLocked, faults>>
      BY <1>3 DEF WrongCode, RightCode, Live
    <2>2. tried' \in [Token -> Nat]
      BY <1>3 DEF WrongCode, RightCode
    <2> QED
      BY <2>1, <2>2
  <1>4. ASSUME NEW c \in Client, Verify2FAAttempt(c)
        PROVE  TypeOK'
    BY <1>4 DEF Verify2FAAttempt, Script, SaysLocked
  <1>5. ASSUME NEW c \in Client, Verify2FAAttemptFails(c) \/ Delete2FASessionFails(c)
        PROVE  TypeOK'
    BY <1>5 DEF Verify2FAAttemptFails, Delete2FASessionFails
  <1>6. ASSUME NEW c \in Client, Delete2FASession(c)
        PROVE  TypeOK'
    BY <1>6 DEF Delete2FASession, Deleted
  <1>7. ASSUME NEW c \in Client, SetSetupSession(c) \/ SetChallenge(c) \/ GrantFails(c)
        PROVE  TypeOK'
    BY <1>7 DEF SetSetupSession, SetChallenge, GrantFails
  <1>8. CASE Crash
    BY <1>8 DEF Crash
  <1>9. CASE UNCHANGED vars
    BY <1>9 DEF vars
  <1> QED
    BY <1>1, <1>2, <1>3, <1>4, <1>5, <1>6, <1>7, <1>8, <1>9
    DEF Next, Progress, Begin, NotFound

\* Whatever the requests do, sessions hold a count, and only tokens that were
\* handed out have one or have a request under way.
THEOREM TypeCorrect == Spec => []TypeOK
  <1>1. Init => TypeOK
    BY DEF Init, TypeOK, Step
  <1> QED
    BY <1>1, NextTypeOK, PTL DEF Spec
-----------------------------------------------------------------------------
(***************************************************************************)
(* Sessions: what may be stored for a token.                               *)
(***************************************************************************)
SessionInv == AtMostMax /\ NoRevival /\ LockedForReason /\ Untouched

LEMMA NextSessionInv == TypeOK /\ SessionInv /\ [Next]_vars => SessionInv'
  <1> SUFFICES ASSUME TypeOK, SessionInv, [Next]_vars
               PROVE  SessionInv'
    OBVIOUS
  <1> USE NoSessionAssumption, MaxAttemptsAssumption
      DEF TypeOK, SessionInv, AtMostMax, NoRevival, LockedForReason, Untouched, Live
  <1>1. ASSUME NEW t \in Token, Issue(t)
        PROVE  SessionInv'
    BY <1>1 DEF Issue
  <1>2. ASSUME NEW t \in Token, Expire(t)
        PROVE  SessionInv'
    BY <1>2 DEF Expire
  <1>3. ASSUME NEW c \in Client, NEW t \in Token, WrongCode(c, t) \/ RightCode(c, t)
        PROVE  SessionInv'
    BY <1>3 DEF WrongCode, RightCode
  <1>4. ASSUME NEW c \in Client, Verify2FAAttempt(c)
        PROVE  SessionInv'
    BY <1>4 DEF Verify2FAAttempt, Script, SaysLocked
  <1>5. ASSUME NEW c \in Client, Delete2FASession(c)
        PROVE  SessionInv'
    BY <1>5 DEF Delete2FASession, Deleted
  <1>6. ASSUME NEW c \in Client, SetChallenge(c)
        PROVE  SessionInv'
    BY <1>6 DEF SetChallenge
  <1>7. CASE UNCHANGED <<session, issued, gone, tried, toldLocked, granted>>
    BY <1>7
  <1> QED
    BY <1>1, <1>2, <1>3, <1>4, <1>5, <1>6, <1>7
    DEF Next, Progress, Begin, NotFound, Verify2FAAttemptFails, Delete2FASessionFails,
        SetSetupSession, GrantFails, Crash, vars
-----------------------------------------------------------------------------
(***************************************************************************)
(* Counting: attempts and uses.                                            *)
(***************************************************************************)

\* What the two properties say of one token, and what they depend on.
Attempts(t) ==
  t \notin faults /\ Live(t) /\ session[t] < MaxAttempts
    => tried[t] = session[t] + Cardinality(At({"attempt"}, t))
Uses(t) ==
  t \notin faults =>
    /\ t \notin gone => granted[t] = 0 /\ At({"setup", "challenge"}, t) = {}
    /\ t \in gone => granted[t] + Cardinality(At(Accepted, t)) <= Cardinality(Client)

\* A step that leaves the history of a token and its requests alone.
LEMMA Untroubled ==
  ASSUME NEW t, Attempts(t), Uses(t), faults \subseteq faults',
         session'[t] = session[t], tried'[t] = tried[t], granted'[t] = granted[t],
         t \in gone' <=> t \in gone,
         At({"attempt"}, t)' = At({"attempt"}, t), At(Accepted, t)' = At(Accepted, t),
         At({"setup", "challenge"}, t)' = At({"setup", "challenge"}, t)
  PROVE  Attempts(t)' /\ Uses(t)'
  BY DEF Attempts, Uses, Live

\* A request for another token is no trouble to t.
LEMMA OtherToken ==
  ASSUME NEW t, NEW c \in Client, pc \in [Client -> Step], tok \in [Client -> Token],
         NEW s, NEW u, t # u,
         pc' = [pc EXCEPT ![c] = s], tok' = [tok EXCEPT ![c] = u],
         pc[c] = "idle" \/ tok[c] = u
  PROVE  /\ At({"attempt"}, t)' = At({"attempt"}, t) /\ At(Accepted, t)' = At(Accepted, t)
         /\ At({"setup", "challenge"}, t)' = At({"setup", "challenge"}, t)
  BY DEF At, Accepted

LEMMA NextCounting ==
  ASSUME TypeOK, TypeOK', SessionInv, [Next]_vars, NEW t \in Token, Attempts(t), Uses(t)
  PROVE  Attempts(t)' /\ Uses(t)'
  <1> USE NoSessionAssumption, MaxAttemptsAssumption DEF TypeOK, Goto
  <1>a. /\ Cardinality(At({"attempt"}, t)) \in Nat
        /\ Cardinality(At(Accepted, t)) \in Nat
        /\ Cardinality(At(Accepted, t)) <= Cardinality(Client)
        /\ Cardinality(Client) \in Nat
    BY AtFinite
  <1>b. t \in gone => ~Live(t)
    BY DEF SessionInv, NoRevival
  <1>1. ASSUME NEW u \in Token, Issue(u)
        PROVE  Attempts(t)' /\ Uses(t)'
    <2>1. UNCHANGED <<pc, tok, gone, granted, tried, faults>>
      BY <1>1 DEF Issue
    <2>2. \A S : At(S, t)' = At(S, t)
      BY <2>1 DEF At
    <2>3. CASE t = u
      <3>1. At({"attempt"}, t) = {} /\ tried[t] = 0 /\ session'[t] = 0
        BY <1>1, <2>3 DEF Issue, At, SessionInv, Untouched
      <3>2. t \notin gone /\ Cardinality(At({"attempt"}, t)') = 0
        BY <1>1, <2>2, <2>3, <3>1, FS_EmptySet DEF Issue
      <3> QED
        BY <2>1, <2>2, <3>1, <3>2 DEF Attempts, Uses
    <2>4. CASE t # u
      BY <1>1, <2>1, <2>2, <2>4, Untroubled DEF Issue
    <2> QED
      BY <2>3, <2>4
  <1>2. ASSUME NEW u \in Token, Expire(u)
        PROVE  Attempts(t)' /\ Uses(t)'
    <2>1. UNCHANGED <<pc, tok, granted, tried, faults>>
      BY <1>2 DEF Expire
    <2>2. \A S : At(S, t)' = At(S, t)
      BY <2>1 DEF At
    <2>3. CASE t = u
      <3>1. session'[t] = NoSession /\ t \in gone'
        BY <1>2, <2>3 DEF Expire
      <3> QED
        BY <1>a, <2>1, <2>2, <3>1 DEF Attempts, Uses, Live
    <2>4. CASE t # u
      BY <1>2, <2>1, <2>2, <2>4, Untroubled DEF Expire
    <2> QED
      BY <2>3, <2>4
  <1>3. ASSUME NEW c \in Client, NEW u \in Token, WrongCode(c, u)
        PROVE  Attempts(t)' /\ Uses(t)'
    <2>1. /\ pc[c] = "idle" /\ pc' = [pc EXCEPT ![c] = "attempt"]
          /\ tok' = [tok EXCEPT ![c] = u]
          /\ UNCHANGED <<session, gone, granted, faults>>
      BY <1>3 DEF WrongCode
    <2>2. CASE t = u
      <3>1. /\ At(Accepted, t)' = At(Accepted, t)
            /\ At({"setup", "challenge"}, t)' = At({"setup", "challenge"}, t)
        BY <2>1, <2>2 DEF At, Accepted
      <3>2. Cardinality(At({"attempt"}, t)') = Cardinality(At({"attempt"}, t)) + 1
        BY <2>1, <2>2, Join
      <3>3. session[t] < MaxAttempts /\ t \notin faults => tried'[t] = tried[t] + 1
        BY <1>3, <2>2 DEF WrongCode
      <3>4. Live(t) /\ session[t] < MaxAttempts => session[t] \in Nat
        BY DEF Live
      <3> QED
        BY <1>a, <2>1, <3>1, <3>2, <3>3, <3>4 DEF Attempts, Uses, Live
    <2>3. CASE t # u
      <3>1. tried'[t] = tried[t]
        BY <1>3, <2>3 DEF WrongCode
      <3> QED
        BY <2>1, <2>3, <3>1, OtherToken, Untroubled
    <2> QED
      BY <2>2, <2>3
  <1>4. ASSUME NEW c \in Client, NEW u \in Token, RightCode(c, u)
        PROVE  Attempts(t)' /\ Uses(t)'
    <2>1. /\ pc[c] = "idle" /\ pc' = [pc EXCEPT ![c] = "delete"]
          /\ tok' = [tok EXCEPT ![c] = u] /\ Live(u)
          /\ UNCHANGED <<session, gone, granted, tried, faults>>
      BY <1>4 DEF RightCode
    <2>2. CASE t = u
      <3>1. /\ At({"attempt"}, t)' = At({"attempt"}, t)
            /\ At({"setup", "challenge"}, t)' = At({"setup", "challenge"}, t)
        BY <2>1, <2>2 DEF At
      <3> QED
        BY <1>b, <2>1, <2>2, <3>1 DEF Attempts, Uses, Live
    <2>3. CASE t # u
      BY <2>1, <2>3, OtherToken, Untroubled
    <2> QED
      BY <2>2, <2>3
  <1>5. ASSUME NEW c \in Client, Verify2FAAttempt(c)
        PROVE  Attempts(t)' /\ Uses(t)'
    <2>1. /\ pc[c] = "attempt" /\ pc' = [pc EXCEPT ![c] = "idle"]
          /\ tok' = [tok EXCEPT ![c] = tok[c]] /\ tok[c] \in Token
          /\ session' = [session EXCEPT ![tok[c]] = Script(session[tok[c]])]
          /\ UNCHANGED <<tok, gone, granted, tried, faults>>
      BY <1>5 DEF Verify2FAAttempt
    <2>2. CASE t = tok[c]
      <3>1. /\ At(Accepted, t)' = At(Accepted, t)
            /\ At({"setup", "challenge"}, t)' = At({"setup", "challenge"}, t)
        BY <2>1 DEF At, Accepted
      <3>2. Cardinality(At({"attempt"}, t)') = Cardinality(At({"attempt"}, t)) - 1
        <4> DEFINE S == {"attempt"}
        <4>1. /\ pc \in [Client -> Step] /\ tok \in [Client -> Token]
              /\ pc[c] \in S /\ "idle" \notin S /\ UNCHANGED tok
              /\ pc' = [pc EXCEPT ![c] = "idle"]
          BY <2>1
        <4> HIDE DEF S
        <4>2. Cardinality(At(S, t)') = Cardinality(At(S, t)) - 1
          BY ONLY <4>1, <2>2, Quit
        <4> QED
          BY <4>2 DEF S
      <3>3. session'[t] = Script(session[t])
        BY <2>1, <2>2
      <3>4. Live(t)' /\ session'[t] < MaxAttempts
              => Live(t) /\ session[t] < MaxAttempts /\ session'[t] = session[t] + 1
        BY <3>3 DEF Script, Live
      <3> QED
        BY <1>a, <2>1, <3>1, <3>2, <3>4 DEF Attempts, Uses, Live
    <2>3. CASE t # tok[c]
      BY <2>1, <2>3, OtherToken, Untroubled
    <2> QED
      BY <2>2, <2>3
  <1>6. ASSUME NEW c \in Client, Verify2FAAttemptFails(c) \/ Delete2FASessionFails(c)
        PROVE  Attempts(t)' /\ Uses(t)'
    <2>1. /\ pc[c] # "idle" /\ \E s \in Step : pc' = [pc EXCEPT ![c] = s]
          /\ tok' = [tok EXCEPT ![c] = tok[c]]
          /\ faults' = faults \cup {tok[c]}
          /\ UNCHANGED <<session, gone, granted, tried>>
      BY <1>6 DEF Verify2FAAttemptFails, Delete2FASessionFails, Step
    <2>2. CASE t = tok[c]
      BY <2>1, <2>2 DEF Attempts, Uses
    <2>3. CASE t # tok[c]
      BY <2>1, <2>3, OtherToken, Untroubled
    <2> QED
      BY <2>2, <2>3
  <1>7. ASSUME NEW c \in Client, Delete2FASession(c)
        PROVE  Attempts(t)' /\ Uses(t)'
    <2>1. /\ pc[c] = "delete" /\ pc' = [pc EXCEPT ![c] = "setup"]
          /\ tok' = [tok EXCEPT ![c] = tok[c]]
          /\ session' = [session EXCEPT ![tok[c]] = NoSession]
          /\ gone' = gone \cup {tok[c]}
          /\ UNCHANGED <<granted, tried, faults>>
      BY <1>7 DEF Delete2FASession, Deleted
    <2>2. CASE t = tok[c]
      <3>1. At(Accepted, t)' = At(Accepted, t)
        BY <2>1 DEF At, Accepted
      <3>2. t \in gone' /\ ~Live(t)'
        BY <2>1, <2>2 DEF Live
      <3> QED
        BY <1>a, <2>1, <3>1, <3>2 DEF Attempts, Uses
    <2>3. CASE t # tok[c]
      BY <2>1, <2>3, OtherToken, Untroubled
    <2> QED
      BY <2>2, <2>3
  <1>8. ASSUME NEW c \in Client, SetSetupSession(c)
        PROVE  Attempts(t)' /\ Uses(t)'
    <2>1. /\ At({"attempt"}, t)' = At({"attempt"}, t) /\ At(Accepted, t)' = At(Accepted, t)
          /\ At({"setup", "challenge"}, t)' = At({"setup", "challenge"}, t)
      BY <1>8 DEF SetSetupSession, At, Accepted
    <2> QED
      BY <1>8, <2>1, Untroubled DEF SetSetupSession
  <1>9. ASSUME NEW c \in Client, SetChallenge(c) \/ GrantFails(c)
        PROVE  Attempts(t)' /\ Uses(t)'
    <2>1. /\ pc[c] \in {"setup", "challenge"} /\ pc' = [pc EXCEPT ![c] = "idle"]
          /\ tok' = [tok EXCEPT ![c] = tok[c]] /\ tok[c] \in Token
          /\ \A u \in Token : granted'[u] \in {granted[u], granted[u] + 1}
          /\ \A u \in Token \ {tok[c]} : granted'[u] = granted[u]
          /\ UNCHANGED <<tok, session, gone, tried, faults>>
      BY <1>9 DEF SetChallenge, GrantFails
    <2>2. CASE t = tok[c]
      <3>1. At({"attempt"}, t)' = At({"attempt"}, t)
        BY <2>1 DEF At
      <3>2. Cardinality(At(Accepted, t)') = Cardinality(At(Accepted, t)) - 1
        BY <2>1, <2>2, Quit DEF Accepted, TypeOK
      <3>3. c \in At({"setup", "challenge"}, t)
        BY <2>1, <2>2 DEF At
      <3>4. Attempts(t)'
        BY <2>1, <3>1 DEF Attempts, Live
      <3>5. t \notin faults => t \in gone
        BY <3>3 DEF Uses
      <3>6. Uses(t)'
        BY <1>a, <2>1, <3>2, <3>5 DEF Uses
      <3> QED
        BY <3>4, <3>6
    <2>3. CASE t # tok[c]
      BY <2>1, <2>3, OtherToken, Untroubled
    <2> QED
      BY <2>2, <2>3
  <1>10. CASE Crash
    <2>1. UNCHANGED <<session, gone, granted, tried>>
      BY <1>10 DEF Crash
    <2>2. At({"attempt"}, t)' = {} /\ At(Accepted, t)' = {} /\ At({"setup", "challenge"}, t)' = {}
      BY <1>10 DEF Crash, At, Accepted
    <2>3. t \notin faults' => t \notin faults /\ At({"attempt"}, t) = {}
      BY <1>10 DEF Crash, At
    <2>4. Attempts(t)'
      BY <2>1, <2>2, <2>3 DEF Attempts, Live
    <2>5. Cardinality(At(Accepted, t)') = 0
      BY <2>2, FS_EmptySet
    <2>6. Uses(t)'
      BY <1>a, <2>1, <2>2, <2>3, <2>5 DEF Uses
    <2> QED
      BY <2>4, <2>6
  <1>11. CASE UNCHANGED vars
    <2>1. \A S : At(S, t)' = At(S, t)
      BY <1>11 DEF vars, At
    <2> QED
      BY <1>11, <2>1, Untroubled DEF vars
  <1> QED
    BY <1>1, <1>2, <1>3, <1>4, <1>5, <1>6, <1>7, <1>8, <1>9, <1>10, <1>11
    DEF Next, Progress, Begin, NotFound
-----------------------------------------------------------------------------
LEMMA NextIInv == IInv /\ [Next]_vars => IInv'
  <1> SUFFICES ASSUME IInv, [Next]_vars
               PROVE  IInv'
    OBVIOUS
  <1>1. TypeOK' /\ SessionInv'
    BY NextTypeOK, NextSessionInv DEF IInv, SessionInv
  <1>2. \A t \in Token : Attempts(t) /\ Uses(t)
    BY DEF IInv, AttemptsCounted, UsedOnlyWhenGone, Attempts, Uses
  <1>3. \A t \in Token : Attempts(t)' /\ Uses(t)'
    BY <1>1, <1>2, NextCounting DEF IInv, SessionInv
  <1> QED
    BY <1>1, <1>3 DEF IInv, SessionInv, AttemptsCounted, UsedOnlyWhenGone, Attempts, Uses

LEMMA IInvIsInvariant == Spec => []IInv
  BY InitIInv, NextIInv, PTL DEF Spec

\* A session that was deleted or has expired is never stored again.
THEOREM NeverRevived == Spec => []NoRevival
  BY IInvIsInvariant, PTL DEF IInv

\* Every wrong code compared below the limit is counted, for any number of clients
\* at once, unless the script could not be run.
THEOREM EveryAttemptCounted == Spec => []AttemptsCounted
  BY IInvIsInvariant, PTL DEF IInv

\* A code that is reported as locked has had its attempts.
THEOREM LockedWithReason == Spec => []LockedForReason
  BY IInvIsInvariant, PTL DEF IInv

\* One code yields at most one setup session per client, unless a delete failed.
THEOREM UsesAreBounded == Spec => []UsesBounded
  <1>1. IInv => UsesBounded
    <2> SUFFICES ASSUME IInv, NEW t \in Token, t \notin faults
                 PROVE  granted[t] <= Cardinality(Client)
      BY DEF UsesBounded
    <2>1. /\ Cardinality(At(Accepted, t)) \in Nat /\ Cardinality(Client) \in Nat
          /\ granted[t] \in Nat
      BY AtFinite DEF IInv, TypeOK
    <2> QED
      BY <2>1 DEF IInv, UsedOnlyWhenGone
  <1> QED
    BY <1>1, IInvIsInvariant, PTL
-----------------------------------------------------------------------------
(***************************************************************************)
(* The abstract code: every step of the service is a step of it, or none.  *)
(***************************************************************************)

\* What a step does to the code of t follows from what it does to t's session.
LEMMA SeenOutside ==
  ASSUME NEW t \in Token, TypeOK, AtMostMax,
         \/ UNCHANGED <<session[t], t \in issued>>
         \/ t \notin issued /\ t \in issued' /\ session'[t] = 0
         \/ t \in issued /\ t \in issued' /\ session'[t] = Script(session[t])
         \/ Live(t) /\ t \in issued' /\ session'[t] = NoSession
  PROVE  [Code(t)!Next]_(Code(t)!vars)
  <1> USE NoSessionAssumption, MaxAttemptsAssumption
      DEF TypeOK, AtMostMax, Live, Life, Count, Code!vars, Code!Next
  <1>1. CASE UNCHANGED <<session[t], t \in issued>>
    BY <1>1
  <1>2. CASE t \notin issued /\ t \in issued' /\ session'[t] = 0
    BY <1>2 DEF Code!Issue
  <1>3. CASE t \in issued /\ t \in issued' /\ session'[t] = Script(session[t])
    BY <1>3 DEF Code!Wrong, Script
  <1>4. CASE Live(t) /\ t \in issued' /\ session'[t] = NoSession
    BY <1>4 DEF Code!End
  <1> QED
    BY <1>1, <1>2, <1>3, <1>4

LEMMA StepIsOfCode ==
  ASSUME NEW t \in Token, TypeOK, AtMostMax, [Next]_vars
  PROVE  [Code(t)!Next]_(Code(t)!vars)
  <1> USE DEF TypeOK, Live
  <1>1. ASSUME NEW u \in Token, Issue(u) \/ Expire(u)
        PROVE  [Code(t)!Next]_(Code(t)!vars)
    BY <1>1, SeenOutside DEF Issue, Expire
  <1>2. ASSUME NEW c \in Client, Verify2FAAttempt(c)
        PROVE  [Code(t)!Next]_(Code(t)!vars)
    BY <1>2, SeenOutside DEF Verify2FAAttempt, Step
  <1>3. ASSUME NEW c \in Client, Delete2FASession(c)
        PROVE  [Code(t)!Next]_(Code(t)!vars)
    BY <1>3, SeenOutside DEF Delete2FASession, Deleted, Step
  <1>4. CASE UNCHANGED <<session, issued>>
    BY <1>4, SeenOutside
  <1> QED
    BY <1>1, <1>2, <1>3, <1>4
    DEF Next, Progress, Begin, NotFound, WrongCode, RightCode, Verify2FAAttemptFails,
        Delete2FASessionFails, SetSetupSession, SetChallenge, GrantFails, Crash, vars

\* The session of each token keeps to OneTimeCode, whatever the requests, the script,
\* the expiry and crashes do: never a second life, never a counter that goes back or
\* past the limit, for any number of clients and tokens and any limit.
THEOREM CodesAreKept == \A t \in Token : Spec => KeepsCode(t)
  <1> TAKE t \in Token
  <1>1. Init => Code(t)!Init
    BY DEF Init, Code!Init, Life, Count, Live
  <1>2. IInv /\ [Next]_vars => [Code(t)!Next]_(Code(t)!vars)
    BY StepIsOfCode DEF IInv
  <1> QED
    BY <1>1, <1>2, IInvIsInvariant, PTL DEF Spec, KeepsCode, Code!Spec
=============================================================================
