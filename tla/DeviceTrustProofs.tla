------------------------- MODULE DeviceTrustProofs -------------------------
(***************************************************************************)
(* Proofs about DeviceTrust: its type invariant and its safety properties, *)
(* for any set of clients, of devices and of session ids.                  *)
(***************************************************************************)
EXTENDS DeviceTrust, TLAPS

(***************************************************************************)
(* The inductive invariant.                                                *)
(***************************************************************************)

\* The steps of RegisterDevice after the one that compares the fingerprint with
\* that of the setup session.
Compared == {"delChallenge", "delSetup", "registerToken", "registerSession"}

\* With two-factor, no request is in the login that makes a session at once; setup
\* sessions are of devices a right code was sent with, and so is a device whose
\* fingerprint was compared with one.
CodeInv ==
  twoFactor =>
    /\ \A s \in Sid : setup[s] # None => setup[s] \in passed
    /\ \A c \in Client :
         /\ req[c].at # "loginToken"
         /\ req[c].at \in Compared => req[c].fp \in passed

\* The setup session of a request that has deleted it is gone, and stays so since
\* no id is handed out twice.
SpentInv ==
  /\ \A s \in Sid \ used : upgrades[s] = 0
  /\ \A c \in Client :
       req[c].at \in {"registerToken", "registerSession"} /\ req[c].sid \notin faults
         => setup[req[c].sid] = None

IInv == TypeOK /\ CodeInv /\ AccessNeedsCode /\ SpentInv /\ SetupSpent

\* Requests and the session ids that were handed out.
RequestsOK ==
  /\ req \in [Client -> Request]
  /\ \A c \in Client : req[c].at # "idle" => req[c].sid \in used /\ req[c].fp \in Fp
  /\ used \subseteq Sid /\ preTrust \subseteq used

\* What is stored for them.
StoresOK ==
  /\ twoFactor \in BOOLEAN
  /\ session \in [Sid -> Fp \cup {None}]
  /\ setup \in [Sid -> Fp \cup {None}]
  /\ keys \subseteq {ChallengeKey(s) : s \in Sid}
  /\ trusted \subseteq Fp /\ tokens \subseteq Fp /\ passed \subseteq Fp
  /\ \A s \in Sid \ used : session[s] = None /\ setup[s] = None
  /\ upgrades \in [Sid -> Nat]
  /\ faults \subseteq Sid
-----------------------------------------------------------------------------
LEMMA TypeParts == /\ TypeOK <=> RequestsOK /\ StoresOK
                   /\ TypeOK' <=> RequestsOK' /\ StoresOK'
  BY DEF TypeOK, RequestsOK, StoresOK

\* A client that is not idle has a session id that was handed out and a device.
LEMMA Busy ==
  ASSUME TypeOK, NEW c \in Client, req[c].at # "idle"
  PROVE  /\ req[c] \in Request /\ req[c] # Idle
         /\ req[c].sid \in used /\ req[c].sid \in Sid /\ req[c].fp \in Fp
  BY DEF TypeOK, Idle

\* A request begins with a session id that is handed out.
LEMMA Begins ==
  ASSUME TypeOK, NEW c \in Client, NEW at \in Step, NEW s \in used', NEW f \in Fp,
         Begin(c, at, s, f), used \subseteq used', used' \subseteq Sid,
         preTrust' \subseteq used'
  PROVE  RequestsOK'
  <1>1. [at |-> at, sid |-> s, fp |-> f] \in Request
    BY DEF Request
  <1> QED
    BY <1>1 DEF TypeOK, RequestsOK, Begin

\* A request goes on.
LEMMA GoesOn ==
  ASSUME TypeOK, NEW c \in Client, req[c].at # "idle", NEW at \in Step,
         Goto(c, at), UNCHANGED <<used, preTrust>>
  PROVE  RequestsOK'
  <1>1. [req[c] EXCEPT !.at = at] \in Request
    BY DEF TypeOK, Request
  <1>2. req' = [req EXCEPT ![c] = [req[c] EXCEPT !.at = at]]
    BY DEF Goto
  <1>3. req'[c].sid = req[c].sid /\ req'[c].fp = req[c].fp
    BY <1>2 DEF TypeOK, Request
  <1> QED
    BY <1>1, <1>2, <1>3 DEF TypeOK, RequestsOK

\* A request ends.
LEMMA Ends ==
  ASSUME TypeOK, NEW c \in Client, Answer(c), used \subseteq used', used' \subseteq Sid,
         preTrust' \subseteq used'
  PROVE  RequestsOK'
  <1>1. Idle \in Request
    BY DEF Idle, Request, Step
  <1> QED
    BY <1>1 DEF TypeOK, RequestsOK, Answer, Idle
-----------------------------------------------------------------------------
LEMMA InitIInv == Init => IInv
  <1> SUFFICES ASSUME Init PROVE IInv
    OBVIOUS
  <1>1. Idle \in Request
    BY DEF Idle, Request, Step
  <1>2. TypeOK
    BY <1>1 DEF Init, TypeOK, Idle
  <1>3. \A c \in Client : req[c].at = "idle"
    BY DEF Init, Idle
  <1> QED
    BY <1>2, <1>3 DEF Init, IInv, CodeInv, AccessNeedsCode, SpentInv, SetupSpent, Compared

LEMMA NextTypeOK == TypeOK /\ [Next]_vars => TypeOK'
  <1> SUFFICES ASSUME TypeOK, [Next]_vars
               PROVE  RequestsOK' /\ StoresOK'
    BY TypeParts
  <1>0. RequestsOK /\ StoresOK
    BY TypeParts
  <1> USE DEF StoresOK
  <1>1. ASSUME NEW c \in Client, NEW f \in Fp, NEW s \in Sid, LoginTrusted(c, f, s)
        PROVE  RequestsOK' /\ StoresOK'
    BY <1>0, <1>1 DEF LoginTrusted, NewSid, RequestsOK
  <1>2. ASSUME NEW c \in Client, NEW f \in Fp, NEW s \in Sid, LoginSession(c, f, s)
        PROVE  RequestsOK' /\ StoresOK'
    <2>1. RequestsOK'
      BY <1>0, <1>2, Begins DEF LoginSession, NewSid, RequestsOK, Step
    <2> QED
      BY <1>0, <1>2, <2>1 DEF LoginSession, NewSid
  <1>3. ASSUME NEW c \in Client, NEW f \in Fp, NEW s \in Sid, CodeAccepted(c, f, s)
        PROVE  RequestsOK' /\ StoresOK'
    <2>1. RequestsOK'
      BY <1>0, <1>3, Begins DEF CodeAccepted, NewSid, RequestsOK, Step
    <2> QED
      BY <1>0, <1>3, <2>1 DEF CodeAccepted, NewSid
  <1>4. ASSUME NEW c \in Client, LoginToken(c) \/ SetChallenge(c) \/ RevokeByFingerprint(c)
        PROVE  RequestsOK' /\ StoresOK'
    <2>1. req[c].sid \in Sid /\ req[c].fp \in Fp
      BY <1>4, Busy DEF LoginToken, SetChallenge, RevokeByFingerprint
    <2>2. RequestsOK'
      BY <1>0, <1>4, Ends
      DEF LoginToken, SetChallenge, RevokeByFingerprint, RequestsOK
    <2> QED
      BY <1>0, <1>4, <2>1, <2>2
      DEF LoginToken, SetChallenge, RevokeByFingerprint, TokenFor
  <1>5. ASSUME NEW c \in Client, NEW s \in Sid, NEW f \in Fp,
               RegisterBegin(c, s, f) \/ LogoutBegin(c, s, f)
        PROVE  RequestsOK' /\ StoresOK'
    <2>1. s \in used
      BY <1>0, <1>5, NoneAssumption DEF RegisterBegin, LogoutBegin, GatewaySession
    <2>2. RequestsOK'
      BY <1>0, <1>5, <2>1, Begins DEF RegisterBegin, LogoutBegin, RequestsOK, Step
    <2> QED
      BY <1>0, <1>5, <2>2 DEF RegisterBegin, LogoutBegin
  <1>6. ASSUME NEW c \in Client,
               GetChallenge(c) \/ SaveDevice(c) \/ GetSetupSession(c) \/ GetSession(c)
        PROVE  RequestsOK' /\ StoresOK'
    <2>1. req[c].fp \in Fp
      BY <1>6, Busy DEF GetChallenge, SaveDevice, GetSetupSession, GetSession
    <2>2. RequestsOK'
      BY <1>6, GoesOn DEF GetChallenge, SaveDevice, GetSetupSession, GetSession, Step
    <2> QED
      BY <1>0, <1>6, <2>1, <2>2 DEF GetChallenge, SaveDevice, GetSetupSession, GetSession
  <1>7. ASSUME NEW c \in Client,
               \/ DeleteChallenge(c) \/ DeleteSetupSession(c) \/ DeleteSetupSessionFails(c)
               \/ RegisterToken(c) \/ DeleteSession(c)
        PROVE  RequestsOK' /\ StoresOK'
    <2>1. req[c].fp \in Fp /\ req[c].sid \in Sid
      BY <1>7, Busy
      DEF DeleteChallenge, DeleteSetupSession, DeleteSetupSessionFails, RegisterToken,
          DeleteSession
    <2>2. RequestsOK'
      BY <1>7, GoesOn
      DEF DeleteChallenge, DeleteSetupSession, DeleteSetupSessionFails, RegisterToken,
          DeleteSession, Step
    <2> QED
      BY <1>0, <1>7, <2>1, <2>2
      DEF DeleteChallenge, DeleteSetupSession, SetupDeleted, DeleteSetupSessionFails,
          RegisterToken, TokenFor, DeleteSession
  <1>8. ASSUME NEW c \in Client, NEW s \in Sid, RegisterSession(c, s)
        PROVE  RequestsOK' /\ StoresOK'
    <2>1. req[c].fp \in Fp /\ req[c].sid \in Sid
      BY <1>8, Busy DEF RegisterSession
    <2>2. RequestsOK'
      BY <1>0, <1>8, Ends DEF RegisterSession, NewSid, RequestsOK
    <2>3. upgrades' \in [Sid -> Nat]
      BY <1>0, <1>8, <2>1 DEF RegisterSession
    <2> QED
      BY <1>0, <1>8, <2>1, <2>2, <2>3 DEF RegisterSession, NewSid
  <1>9. ASSUME NEW c \in Client, RequestFails(c)
        PROVE  RequestsOK' /\ StoresOK'
    <2>1. RequestsOK'
      BY <1>0, <1>9, Ends DEF RequestFails, RequestsOK
    <2> QED
      BY <1>0, <1>9, <2>1 DEF RequestFails
  <1>10. ASSUME NEW s \in Sid, ExpireSession(s) \/ ExpireSetup(s) \/ ExpireChallenge(s)
         PROVE  RequestsOK' /\ StoresOK'
    BY <1>0, <1>10 DEF ExpireSession, ExpireSetup, ExpireChallenge, RequestsOK
  <1>11. CASE Crash
    <2>1. Idle \in Request
      BY DEF Idle, Request, Step
    <2> QED
      BY <1>0, <1>11, <2>1 DEF Crash, RequestsOK, Idle
  <1>12. CASE UNCHANGED vars
    BY <1>0, <1>12 DEF vars, RequestsOK
  <1> QED
    BY <1>1, <1>2, <1>3, <1>4, <1>5, <1>6, <1>7, <1>8, <1>9, <1>10, <1>11, <1>12
    DEF Next, Login, Register, Logout, VerifyDeviceRefused, RefreshRefused

\* What a request is after each kind of move; the others stay.
LEMMA Moved ==
  ASSUME TypeOK, NEW c \in Client, NEW at, NEW s, NEW f
  PROVE  /\ Begin(c, at, s, f) =>
              /\ req'[c].at = at /\ req'[c].sid = s /\ req'[c].fp = f
              /\ \A d \in Client : d # c => req'[d] = req[d]
         /\ Goto(c, at) =>
              /\ req'[c].at = at /\ req'[c].sid = req[c].sid /\ req'[c].fp = req[c].fp
              /\ \A d \in Client : d # c => req'[d] = req[d]
         /\ Answer(c) =>
              /\ req'[c].at = "idle"
              /\ \A d \in Client : d # c => req'[d] = req[d]
  <1>1. req \in [Client -> Request]
    BY DEF TypeOK
  <1>2. Begin(c, at, s, f) =>
          /\ req'[c].at = at /\ req'[c].sid = s /\ req'[c].fp = f
          /\ \A d \in Client : d # c => req'[d] = req[d]
    BY <1>1 DEF Begin
  <1>3. Goto(c, at) =>
          /\ req'[c].at = at /\ req'[c].sid = req[c].sid /\ req'[c].fp = req[c].fp
          /\ \A d \in Client : d # c => req'[d] = req[d]
    BY <1>1 DEF Goto, Request
  <1>4. Answer(c) =>
          /\ req'[c].at = "idle"
          /\ \A d \in Client : d # c => req'[d] = req[d]
    BY <1>1 DEF Answer, Idle
  <1> QED
    BY <1>2, <1>3, <1>4

LEMMA NextCode ==
  TypeOK /\ CodeInv /\ AccessNeedsCode /\ [Next]_vars => CodeInv' /\ AccessNeedsCode'
  <1> SUFFICES ASSUME TypeOK, CodeInv, AccessNeedsCode, [Next]_vars
               PROVE  CodeInv' /\ AccessNeedsCode'
    OBVIOUS
  <1>0. /\ session \in [Sid -> Fp \cup {None}] /\ setup \in [Sid -> Fp \cup {None}]
        /\ None \notin Fp
    BY NoneAssumption DEF TypeOK
  <1> USE DEF CodeInv, AccessNeedsCode, Compared
  <1>1. ASSUME NEW c \in Client, NEW f \in Fp, NEW s \in Sid, LoginTrusted(c, f, s)
        PROVE  CodeInv' /\ AccessNeedsCode'
    BY <1>1 DEF LoginTrusted
  <1>2. ASSUME NEW c \in Client, NEW f \in Fp, NEW s \in Sid, LoginSession(c, f, s)
        PROVE  CodeInv' /\ AccessNeedsCode'
    BY <1>2 DEF LoginSession
  <1>3. ASSUME NEW c \in Client, NEW f \in Fp, NEW s \in Sid, CodeAccepted(c, f, s)
        PROVE  CodeInv' /\ AccessNeedsCode'
    <2>1. /\ req'[c].at = "setChallenge"
          /\ \A d \in Client : d # c => req'[d] = req[d]
      BY <1>3, Moved DEF CodeAccepted
    <2>2. passed' = passed \cup {f} /\ setup' = [setup EXCEPT ![s] = f]
          /\ UNCHANGED <<twoFactor, session, tokens>>
      BY <1>3 DEF CodeAccepted
    <2> QED
      BY <1>0, <2>1, <2>2
  <1>4. ASSUME NEW c \in Client, LoginToken(c)
        PROVE  CodeInv' /\ AccessNeedsCode'
    BY <1>4 DEF LoginToken
  <1>5. ASSUME NEW c \in Client,
               SetChallenge(c) \/ RevokeByFingerprint(c) \/ RequestFails(c)
        PROVE  CodeInv' /\ AccessNeedsCode'
    <2>1. /\ req'[c].at = "idle"
          /\ \A d \in Client : d # c => req'[d] = req[d]
      BY <1>5, Moved DEF SetChallenge, RevokeByFingerprint, RequestFails
    <2>2. tokens' \subseteq tokens /\ UNCHANGED <<twoFactor, session, setup, passed>>
      BY <1>5 DEF SetChallenge, RevokeByFingerprint, RequestFails
    <2> QED
      BY <2>1, <2>2
  <1>6. ASSUME NEW c \in Client, NEW s \in Sid, NEW f \in Fp,
               RegisterBegin(c, s, f) \/ LogoutBegin(c, s, f)
        PROVE  CodeInv' /\ AccessNeedsCode'
    <2>1. /\ req'[c].at \in {"getChallenge", "getSession"}
          /\ \A d \in Client : d # c => req'[d] = req[d]
      BY <1>6, Moved DEF RegisterBegin, LogoutBegin
    <2>2. UNCHANGED <<twoFactor, session, setup, tokens, passed>>
      BY <1>6 DEF RegisterBegin, LogoutBegin
    <2> QED
      BY <2>1, <2>2
  <1>7. ASSUME NEW c \in Client,
               GetChallenge(c) \/ SaveDevice(c) \/ GetSession(c) \/ DeleteSession(c)
        PROVE  CodeInv' /\ AccessNeedsCode'
    <2>1. /\ req'[c].at \in {"saveDevice", "getSetup", "delSession", "revoke"}
          /\ \A d \in Client : d # c => req'[d] = req[d]
      BY <1>7, Moved DEF GetChallenge, SaveDevice, GetSession, DeleteSession
    <2>2. /\ UNCHANGED <<twoFactor, setup, tokens, passed>>
          /\ \A s \in Sid : session'[s] \in {session[s], None}
      BY <1>0, <1>7 DEF GetChallenge, SaveDevice, GetSession, DeleteSession
    <2> QED
      BY <2>1, <2>2
  <1>8. ASSUME NEW c \in Client, GetSetupSession(c)
        PROVE  CodeInv' /\ AccessNeedsCode'
    <2>1. /\ req[c].at = "getSetup" /\ setup[req[c].sid] = req[c].fp
          /\ req'[c].at = "delChallenge" /\ req'[c].fp = req[c].fp
          /\ \A d \in Client : d # c => req'[d] = req[d]
          /\ UNCHANGED <<twoFactor, session, setup, tokens, passed>>
      BY <1>8, Moved DEF GetSetupSession, SameFingerprint
    <2>2. req[c].sid \in Sid /\ req[c].fp \in Fp
      BY <2>1, Busy
    <2>3. twoFactor => req[c].fp \in passed
      BY <1>0, <2>1, <2>2
    <2> QED
      BY <2>1, <2>3
  <1>9. ASSUME NEW c \in Client,
               \/ DeleteChallenge(c) \/ DeleteSetupSession(c) \/ DeleteSetupSessionFails(c)
               \/ RegisterToken(c)
        PROVE  CodeInv' /\ AccessNeedsCode'
    <2>1. /\ req[c].at \in Compared /\ req'[c].at \in Compared /\ req'[c].fp = req[c].fp
          /\ \A d \in Client : d # c => req'[d] = req[d]
      BY <1>9, Moved
      DEF DeleteChallenge, DeleteSetupSession, DeleteSetupSessionFails, RegisterToken
    <2>2. /\ tokens' \subseteq tokens \cup {req[c].fp}
          /\ UNCHANGED <<twoFactor, session, passed>>
          /\ \A s \in Sid : setup'[s] \in {setup[s], None}
      BY <1>0, <1>9
      DEF DeleteChallenge, DeleteSetupSession, DeleteSetupSessionFails, RegisterToken,
          SetupDeleted, TokenFor
    <2> QED
      BY <2>1, <2>2
  <1>10. ASSUME NEW c \in Client, NEW s \in Sid, RegisterSession(c, s)
         PROVE  CodeInv' /\ AccessNeedsCode'
    <2>1. /\ req[c].at \in Compared /\ req'[c].at = "idle"
          /\ \A d \in Client : d # c => req'[d] = req[d]
      BY <1>10, Moved DEF RegisterSession
    <2>2. /\ session' = [session EXCEPT ![s] = req[c].fp]
          /\ UNCHANGED <<twoFactor, setup, tokens, passed>>
      BY <1>10 DEF RegisterSession
    <2> QED
      BY <1>0, <2>1, <2>2
  <1>11. ASSUME NEW s \in Sid, ExpireSession(s) \/ ExpireSetup(s) \/ ExpireChallenge(s)
         PROVE  CodeInv' /\ AccessNeedsCode'
    BY <1>0, <1>11 DEF ExpireSession, ExpireSetup, ExpireChallenge
  <1>12. CASE Crash
    BY <1>12 DEF Crash, Idle
  <1>13. CASE UNCHANGED vars
    BY <1>13 DEF vars
  <1> QED
    BY <1>1, <1>2, <1>3, <1>4, <1>5, <1>6, <1>7, <1>8, <1>9, <1>10, <1>11, <1>12, <1>13
    DEF Next, Login, Register, Logout, VerifyDeviceRefused, RefreshRefused

LEMMA NextSpent ==
  TypeOK /\ SpentInv /\ SetupSpent /\ [Next]_vars => SpentInv' /\ SetupSpent'
  <1> SUFFICES ASSUME TypeOK, SpentInv, SetupSpent, [Next]_vars
               PROVE  SpentInv' /\ SetupSpent'
    OBVIOUS
  <1>0. /\ setup \in [Sid -> Fp \cup {None}] /\ upgrades \in [Sid -> Nat]
        /\ \A d \in Client : req[d].at # "idle" => req[d].sid \in used
        /\ used \subseteq Sid
    BY DEF TypeOK
  <1> USE DEF SpentInv, SetupSpent
  <1>1. ASSUME NEW c \in Client, NEW f \in Fp, NEW s \in Sid, LoginTrusted(c, f, s)
        PROVE  SpentInv' /\ SetupSpent'
    BY <1>1 DEF LoginTrusted, NewSid
  <1>2. ASSUME NEW c \in Client, NEW f \in Fp, NEW s \in Sid, LoginSession(c, f, s)
        PROVE  SpentInv' /\ SetupSpent'
    <2>1. /\ req'[c].at = "loginToken"
          /\ \A d \in Client : d # c => req'[d] = req[d]
          /\ used \subseteq used' /\ UNCHANGED <<setup, upgrades, faults>>
      BY <1>2, Moved DEF LoginSession, NewSid
    <2> QED
      BY <2>1
  <1>3. ASSUME NEW c \in Client, NEW f \in Fp, NEW s \in Sid, CodeAccepted(c, f, s)
        PROVE  SpentInv' /\ SetupSpent'
    <2>1. /\ req'[c].at = "setChallenge"
          /\ \A d \in Client : d # c => req'[d] = req[d]
          /\ s \notin used /\ used' = used \cup {s} /\ UNCHANGED <<upgrades, faults>>
          /\ setup' = [setup EXCEPT ![s] = f]
      BY <1>3, Moved DEF CodeAccepted, NewSid
    <2> QED
      BY <1>0, <2>1
  <1>4. ASSUME NEW c \in Client,
               LoginToken(c) \/ SetChallenge(c) \/ RevokeByFingerprint(c) \/ RequestFails(c)
        PROVE  SpentInv' /\ SetupSpent'
    <2>1. /\ req'[c].at = "idle"
          /\ \A d \in Client : d # c => req'[d] = req[d]
          /\ UNCHANGED <<setup, used, upgrades, faults>>
      BY <1>4, Moved DEF LoginToken, SetChallenge, RevokeByFingerprint, RequestFails
    <2> QED
      BY <2>1
  <1>5. ASSUME NEW c \in Client, NEW s \in Sid, NEW f \in Fp,
               RegisterBegin(c, s, f) \/ LogoutBegin(c, s, f)
        PROVE  SpentInv' /\ SetupSpent'
    <2>1. /\ req'[c].at \in {"getChallenge", "getSession"}
          /\ \A d \in Client : d # c => req'[d] = req[d]
          /\ UNCHANGED <<setup, used, upgrades, faults>>
      BY <1>5, Moved DEF RegisterBegin, LogoutBegin
    <2> QED
      BY <2>1
  <1>6. ASSUME NEW c \in Client,
               \/ GetChallenge(c) \/ SaveDevice(c) \/ GetSetupSession(c) \/ DeleteChallenge(c)
               \/ GetSession(c) \/ DeleteSession(c)
        PROVE  SpentInv' /\ SetupSpent'
    <2>1. /\ req'[c].at \in {"saveDevice", "getSetup", "delChallenge", "delSetup",
                             "delSession", "revoke"}
          /\ \A d \in Client : d # c => req'[d] = req[d]
          /\ UNCHANGED <<setup, used, upgrades, faults>>
      BY <1>6, Moved
      DEF GetChallenge, SaveDevice, GetSetupSession, DeleteChallenge, GetSession, DeleteSession
    <2> QED
      BY <2>1
  <1>7. ASSUME NEW c \in Client, DeleteSetupSession(c)
        PROVE  SpentInv' /\ SetupSpent'
    <2>1. /\ req[c].at = "delSetup" /\ req'[c].sid = req[c].sid
          /\ \A d \in Client : d # c => req'[d] = req[d]
          /\ UNCHANGED <<used, upgrades, faults>>
          /\ setup' = [setup EXCEPT ![req[c].sid] = None]
      BY <1>7, Moved DEF DeleteSetupSession, SetupDeleted
    <2> QED
      BY <1>0, <2>1
  <1>8. ASSUME NEW c \in Client, DeleteSetupSessionFails(c)
        PROVE  SpentInv' /\ SetupSpent'
    <2>1. /\ req'[c].sid = req[c].sid /\ faults' = faults \cup {req[c].sid}
          /\ \A d \in Client : d # c => req'[d] = req[d]
          /\ UNCHANGED <<setup, used, upgrades>>
      BY <1>8, Moved DEF DeleteSetupSessionFails
    <2> QED
      BY <2>1
  <1>9. ASSUME NEW c \in Client, RegisterToken(c)
        PROVE  SpentInv' /\ SetupSpent'
    <2>1. /\ req[c].at = "registerToken" /\ req'[c].sid = req[c].sid
          /\ \A d \in Client : d # c => req'[d] = req[d]
          /\ UNCHANGED <<setup, used, upgrades, faults>>
      BY <1>9, Moved DEF RegisterToken
    <2> QED
      BY <2>1
  <1>10. ASSUME NEW c \in Client, NEW s \in Sid, RegisterSession(c, s)
         PROVE  SpentInv' /\ SetupSpent'
    <2>1. /\ req[c].at = "registerSession" /\ req'[c].at = "idle"
          /\ \A d \in Client : d # c => req'[d] = req[d]
          /\ used' = used \cup {s} /\ UNCHANGED <<setup, faults>>
          /\ upgrades' = IF req[c].sid \in faults THEN upgrades
                         ELSE [upgrades EXCEPT ![req[c].sid] = @ + 1]
      BY <1>10, Moved DEF RegisterSession, NewSid
    <2>2. req[c].sid \in used
      BY <1>0, <2>1
    <2>3. SpentInv'
      BY <1>0, <2>1, <2>2
    <2>4. \A r \in Sid : upgrades'[r] > 0 => setup'[r] = None
      BY <1>0, <2>1, <2>2
    <2> QED
      BY <2>3, <2>4
  <1>11. ASSUME NEW s \in Sid, ExpireSession(s) \/ ExpireSetup(s) \/ ExpireChallenge(s)
         PROVE  SpentInv' /\ SetupSpent'
    <2>1. /\ UNCHANGED <<req, used, upgrades, faults>>
          /\ \A r \in Sid : setup'[r] \in {setup[r], None}
      BY <1>0, <1>11 DEF ExpireSession, ExpireSetup, ExpireChallenge
    <2> QED
      BY <1>0, <2>1
  <1>12. CASE Crash
    BY <1>12 DEF Crash, Idle
  <1>13. CASE UNCHANGED vars
    BY <1>13 DEF vars
  <1> QED
    BY <1>1, <1>2, <1>3, <1>4, <1>5, <1>6, <1>7, <1>8, <1>9, <1>10, <1>11, <1>12, <1>13
    DEF Next, Login, Register, Logout, VerifyDeviceRefused, RefreshRefused

LEMMA NextIInv == IInv /\ [Next]_vars => IInv'
  BY NextTypeOK, NextCode, NextSpent, TypeParts DEF IInv

LEMMA Invariance == Spec => []IInv
  BY InitIInv, NextIInv, PTL DEF Spec
-----------------------------------------------------------------------------
\* Whatever requests interleave, fail or are cut off, the stores hold what the code
\* reads there, and a request's session id is one that was handed out.
THEOREM TypeCorrect == Spec => []TypeOK
  <1>1. IInv => TypeOK
    BY DEF IInv
  <1> QED
    BY <1>1, Invariance, PTL

\* A user with two-factor has sessions and refresh tokens only on devices that
\* Verify2FA accepted a code from, although RegisterDevice stores the fingerprint in
\* its body as verified before it looks at the setup session.
THEOREM CodeBeforeAccess == Spec => []AccessNeedsCode
  <1>1. IInv => AccessNeedsCode
    BY DEF IInv
  <1> QED
    BY <1>1, Invariance, PTL

\* A setup session that RegisterDevice turned into a full session does not come
\* back, unless the delete whose error is dropped failed.
THEOREM SetupIsSpent == Spec => []SetupSpent
  <1>1. IInv => SetupSpent
    BY DEF IInv
  <1> QED
    BY <1>1, Invariance, PTL
=============================================================================
