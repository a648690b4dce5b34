---------------------------- MODULE DeviceTrust ----------------------------
(***************************************************************************)
(* From a right password to a session: how the gateway and the auth-service*)
(* move one user's devices through setup sessions, challenges, trusted     *)
(* devices, refresh tokens and full sessions, and how a logout takes them  *)
(* back.                                                                   *)
(*                                                                         *)
(* Requests of any number of clients run at once.  The gateway reads Redis *)
(* before it forwards a request; the service reads and writes Redis and    *)
(* its tables again, one call at a time, and only some of the errors stop  *)
(* it.  One action is one such call with the code up to the next one.      *)
(*                                                                         *)
(* What comes before, passwords and codes, is the business of Account and  *)
(* TwoFactor.  Tokens (JWTs) carry a session id and are never withdrawn:   *)
(* a client may use any session id that was ever handed out.               *)
(***************************************************************************)
EXTENDS Integers, FiniteSets

CONSTANTS Client,        \* the clients
          Fp,            \* the device fingerprints
          Sid,           \* the session ids; bound: a new one is needed for each login
          None           \* "no such key", "no value"

ASSUME NoneAssumption == None \notin Fp

VARIABLES twoFactor,     \* the user has TwoFactorEnabled
          session,       \* session[s]: the fingerprint stored under session:s
          setup,         \* setup[s]: the fingerprint stored under setup:session:s
          keys,          \* the challenge keys in Redis
          trusted,       \* the fingerprints of the user's verified devices
          tokens,        \* the fingerprints with refresh tokens not revoked
          req,           \* req[c]: the request of c
          used,          \* history: the session ids handed out
          preTrust,      \* history: those of logins from a trusted device
          passed,        \* history: the fingerprints a right code was sent with
          upgrades,      \* history: full sessions made from each fault-free setup
          faults         \* history: the setup sessions whose delete failed

vars == <<twoFactor, session, setup, keys, trusted, tokens, req, used, preTrust, passed,
          upgrades, faults>>

Step == {"idle", "setChallenge", "loginToken",
         "getChallenge", "saveDevice", "getSetup", "delChallenge", "delSetup",
         "registerToken", "registerSession",
         "getSession", "delSession", "revoke"}

Request == [at : Step, sid : Sid \cup {None}, fp : Fp \cup {None}]
Idle == [at |-> "idle", sid |-> None, fp |-> None]

\* SetChallenge and GetChallenge use one prefix, VerifyDeviceSignature another.
ChallengeKey(s) == <<"challenge:", s>>
VerifyKey(s) == <<"auth:challenge:", s>>

\* CreateRefreshToken stores the hash of a token and gives out the token itself;
\* the lookup of RefreshToken compares what it is given with what is stored.
StoredToken(f) == <<"sha256", f>>
GivenToken(f) == <<"raw", f>>
GetByToken(f) == GivenToken(f) \in {StoredToken(g) : g \in tokens}

\* A refresh token is bound to the fingerprint of the request.
TokenForSid(c) == req[c].sid
TokenFor(c) == req[c].fp

TypeOK ==
  /\ twoFactor \in BOOLEAN
  /\ session \in [Sid -> Fp \cup {None}]
  /\ setup \in [Sid -> Fp \cup {None}]
  /\ keys \subseteq {ChallengeKey(s) : s \in Sid}
  /\ trusted \subseteq Fp /\ tokens \subseteq Fp /\ passed \subseteq Fp
  /\ req \in [Client -> Request]
  /\ \A c \in Client : req[c].at # "idle" => req[c].sid \in used /\ req[c].fp \in Fp
  /\ used \subseteq Sid /\ preTrust \subseteq used
  /\ \A s \in Sid \ used : session[s] = None /\ setup[s] = None
  /\ upgrades \in [Sid -> Nat]
  /\ faults \subseteq Sid

Init ==
  /\ twoFactor \in BOOLEAN
  /\ session = [s \in Sid |-> None]
  /\ setup = [s \in Sid |-> None]
  /\ keys = {} /\ trusted = {} /\ tokens = {}
  /\ req = [c \in Client |-> Idle]
  /\ used = {} /\ preTrust = {} /\ passed = {} /\ faults = {}
  /\ upgrades = [s \in Sid |-> 0]

Begin(c, at, s, f) == req' = [req EXCEPT ![c] = [at |-> at, sid |-> s, fp |-> f]]
Goto(c, at) == req' = [req EXCEPT ![c].at = at]
Answer(c) == req' = [req EXCEPT ![c] = Idle]

\* GenerateSessionID
NewSid(s) == s \notin used /\ used' = used \cup {s}

(***************************************************************************)
(* The gateway lets a request with session id s pass if the fingerprint in *)
(* its header is the one stored for s: as a setup session on the way to    *)
(* register-device, as a full session otherwise.                           *)
(***************************************************************************)
GatewaySetup(s) == setup[s] # None
GatewaySession(s, f) == session[s] = f

(***************************************************************************)
(* AttemptLogin, the password being right.                                 *)
(***************************************************************************)

\* Scenario A: a trusted device gets a token and a challenge, but no session.
LoginTrusted(c, f, s) ==
  /\ req[c] = Idle
  /\ f \in trusted
  /\ NewSid(s)
  /\ preTrust' = preTrust \cup {s}
  /\ keys' = keys \cup {ChallengeKey(s)}
  /\ UNCHANGED <<twoFactor, session, setup, trusted, tokens, req, passed, upgrades, faults>>

\* finalizeLogin stores the session, then a refresh token.
LoginSession(c, f, s) ==
  /\ req[c] = Idle
  /\ f \notin trusted /\ ~twoFactor
  /\ NewSid(s)
  /\ session' = [session EXCEPT ![s] = f]
  /\ Begin(c, "loginToken", s, f)
  /\ UNCHANGED <<twoFactor, setup, keys, trusted, tokens, preTrust, passed, upgrades, faults>>

LoginToken(c) ==
  /\ req[c].at = "loginToken"
  /\ tokens' = tokens \cup {TokenFor(c)}
  /\ Answer(c)
  /\ UNCHANGED <<twoFactor, session, setup, keys, trusted, used, preTrust, passed, upgrades,
                 faults>>

(***************************************************************************)
(* Verify2FA, the code being right: the setup session, then the challenge. *)
(* The fingerprint is the one sent with the code.                          *)
(***************************************************************************)
CodeAccepted(c, f, s) ==
  /\ req[c] = Idle
  /\ twoFactor
  /\ NewSid(s)
  /\ passed' = passed \cup {f}
  /\ setup' = [setup EXCEPT ![s] = f]
  /\ Begin(c, "setChallenge", s, f)
  /\ UNCHANGED <<twoFactor, session, keys, trusted, tokens, preTrust, upgrades, faults>>

SetChallenge(c) ==
  /\ req[c].at = "setChallenge"
  /\ keys' = keys \cup {ChallengeKey(req[c].sid)}
  /\ Answer(c)
  /\ UNCHANGED <<twoFactor, session, setup, trusted, tokens, used, preTrust, passed, upgrades,
                 faults>>

(***************************************************************************)
(* RegisterDevice: f is the fingerprint in the body, which need not be the *)
(* one in the header that the gateway has checked.                         *)
(***************************************************************************)
RegisterBegin(c, s, f) ==
  /\ req[c] = Idle
  /\ s \in used /\ GatewaySetup(s)
  /\ Begin(c, "getChallenge", s, f)
  /\ UNCHANGED <<twoFactor, session, setup, keys, trusted, tokens, used, preTrust,
                 passed, upgrades, faults>>

\* The challenge must be there and be signed with the key in the body.
GetChallenge(c) ==
  /\ req[c].at = "getChallenge"
  /\ ChallengeKey(req[c].sid) \in keys
  /\ Goto(c, "saveDevice")
  /\ UNCHANGED <<twoFactor, session, setup, keys, trusted, tokens, used, preTrust,
                 passed, upgrades, faults>>

\* The device is stored as verified, before the setup session is looked at.
SaveDevice(c) ==
  /\ req[c].at = "saveDevice"
  /\ trusted' = trusted \cup {req[c].fp}
  /\ Goto(c, "getSetup")
  /\ UNCHANGED <<twoFactor, session, setup, keys, tokens, used, preTrust, passed,
                 upgrades, faults>>

AnyFingerprint(c) == setup[req[c].sid] # None
SameFingerprint(c) == setup[req[c].sid] = req[c].fp

GetSetupSession(c) ==
  /\ req[c].at = "getSetup"
  /\ SameFingerprint(c)
  /\ Goto(c, "delChallenge")
  /\ UNCHANGED <<twoFactor, session, setup, keys, trusted, tokens, used, preTrust,
                 passed, upgrades, faults>>

\* Their errors are dropped.
DeleteChallenge(c) ==
  /\ req[c].at = "delChallenge"
  /\ keys' \in {keys, keys \ {ChallengeKey(req[c].sid)}}
  /\ Goto(c, "delSetup")
  /\ UNCHANGED <<twoFactor, session, setup, trusted, tokens, used, preTrust, passed,
                 upgrades, faults>>

SetupKept(c) == setup
SetupDeleted(c) == [setup EXCEPT ![req[c].sid] = None]

DeleteSetupSession(c) ==
  /\ req[c].at = "delSetup"
  /\ setup' = SetupDeleted(c)
  /\ Goto(c, "registerToken")
  /\ UNCHANGED <<twoFactor, session, keys, trusted, tokens, used, preTrust, passed,
                 upgrades, faults>>

DeleteSetupSessionFails(c) ==
  /\ req[c].at = "delSetup"
  /\ faults' = faults \cup {req[c].sid}
  /\ Goto(c, "registerToken")
  /\ UNCHANGED <<twoFactor, session, setup, keys, trusted, tokens, used, preTrust,
                 passed, upgrades>>

RegisterToken(c) ==
  /\ req[c].at = "registerToken"
  /\ tokens' = tokens \cup {TokenFor(c)}
  /\ Goto(c, "registerSession")
  /\ UNCHANGED <<twoFactor, session, setup, keys, trusted, used, preTrust, passed,
                 upgrades, faults>>

\* The full session gets an id of its own.
RegisterSession(c, s) ==
  /\ req[c].at = "registerSession"
  /\ NewSid(s)
  /\ session' = [session EXCEPT ![s] = req[c].fp]
  /\ upgrades' = IF req[c].sid \in faults THEN upgrades
                 ELSE [upgrades EXCEPT ![req[c].sid] = @ + 1]
  /\ Answer(c)
  /\ UNCHANGED <<twoFactor, setup, keys, trusted, tokens, preTrust, passed, faults>>

(***************************************************************************)
(* VerifyDeviceSignature looks for the challenge under a key that nothing  *)
(* writes, so none of what it does after that is ever reached.             *)
(***************************************************************************)
VerifyDeviceRefused(c, s, f) ==
  /\ req[c] = Idle
  /\ s \in used
  /\ GatewaySession(s, f) => VerifyKey(s) \notin keys
  /\ UNCHANGED vars

(***************************************************************************)
(* RefreshToken with the token given out for f.                            *)
(***************************************************************************)
RefreshRefused(c, f) ==
  /\ req[c] = Idle
  /\ ~GetByToken(f)
  /\ UNCHANGED vars

(***************************************************************************)
(* Logout of session s from the device f: the gateway's check, GetSession, *)
(* DeleteSession, RevokeByFingerprint.                                     *)
(***************************************************************************)
LogoutBegin(c, s, f) ==
  /\ req[c] = Idle
  /\ GatewaySession(s, f)
  /\ Begin(c, "getSession", s, f)
  /\ UNCHANGED <<twoFactor, session, setup, keys, trusted, tokens, used, preTrust,
                 passed, upgrades, faults>>

GetSession(c) ==
  /\ req[c].at = "getSession"
  /\ session[req[c].sid] = req[c].fp
  /\ Goto(c, "delSession")
  /\ UNCHANGED <<twoFactor, session, setup, keys, trusted, tokens, used, preTrust,
                 passed, upgrades, faults>>

DeleteSession(c) ==
  /\ req[c].at = "delSession"
  /\ session' = [session EXCEPT ![req[c].sid] = None]
  /\ Goto(c, "revoke")
  /\ UNCHANGED <<twoFactor, setup, keys, trusted, tokens, used, preTrust, passed,
                 upgrades, faults>>

\* Its error is dropped.
RevokeByFingerprint(c) ==
  /\ req[c].at = "revoke"
  /\ tokens' \in {tokens, tokens \ {req[c].fp}}
  /\ Answer(c)
  /\ UNCHANGED <<twoFactor, session, setup, keys, trusted, used, preTrust, passed,
                 upgrades, faults>>

(***************************************************************************)
(* The environment.                                                        *)
(***************************************************************************)

\* A call fails, or finds nothing where it needs something: the request is
\* answered with an error, and what it has done so far stays done.
RequestFails(c) ==
  /\ req[c] # Idle
  /\ Answer(c)
  /\ UNCHANGED <<twoFactor, session, setup, keys, trusted, tokens, used, preTrust,
                 passed, upgrades, faults>>

\* The process stops, and all requests with it.
Crash ==
  /\ req # [c \in Client |-> Idle]
  /\ req' = [c \in Client |-> Idle]
  /\ UNCHANGED <<twoFactor, session, setup, keys, trusted, tokens, used, preTrust,
                 passed, upgrades, faults>>

\* Every key has a time to live.
ExpireSession(s) ==
  /\ session[s] # None
  /\ session' = [session EXCEPT ![s] = None]
  /\ UNCHANGED <<twoFactor, setup, keys, trusted, tokens, req, used, preTrust,
                 passed, upgrades, faults>>

ExpireSetup(s) ==
  /\ setup[s] # None
  /\ setup' = [setup EXCEPT ![s] = None]
  /\ UNCHANGED <<twoFactor, session, keys, trusted, tokens, req, used, preTrust,
                 passed, upgrades, faults>>

ExpireChallenge(s) ==
  /\ ChallengeKey(s) \in keys
  /\ keys' = keys \ {ChallengeKey(s)}
  /\ UNCHANGED <<twoFactor, session, setup, trusted, tokens, req, used, preTrust,
                 passed, upgrades, faults>>

Login(c) ==
  \E f \in Fp, s \in Sid :
    LoginTrusted(c, f, s) \/ LoginSession(c, f, s) \/ CodeAccepted(c, f, s)

Register(c) ==
  \/ \E s \in Sid, f \in Fp : RegisterBegin(c, s, f)
  \/ GetChallenge(c) \/ SaveDevice(c) \/ GetSetupSession(c) \/ DeleteChallenge(c)
  \/ DeleteSetupSession(c) \/ DeleteSetupSessionFails(c) \/ RegisterToken(c)
  \/ \E s \in Sid : RegisterSession(c, s)

Logout(c) ==
  \/ \E s \in Sid, f \in Fp : LogoutBegin(c, s, f)
  \/ GetSession(c) \/ DeleteSession(c) \/ RevokeByFingerprint(c)

Next ==
  \/ \E c \in Client :
       \/ Login(c) \/ LoginToken(c) \/ SetChallenge(c) \/ Register(c) \/ Logout(c)
       \/ \E s \in Sid, f \in Fp : VerifyDeviceRefused(c, s, f)
       \/ \E f \in Fp : RefreshRefused(c, f)
       \/ RequestFails(c)
  \/ \E s \in Sid : ExpireSession(s) \/ ExpireSetup(s) \/ ExpireChallenge(s)
  \/ Crash

Spec == Init /\ [][Next]_vars
-----------------------------------------------------------------------------
\* A user with two-factor gets sessions and refresh tokens only on devices that a
\* right code was sent with, however registrations, expiries and logouts
\* interleave: RegisterDevice trusts the fingerprint in its body, but turns no
\* setup session of another device into access.
AccessNeedsCode ==
  twoFactor =>
    /\ tokens \subseteq passed
    /\ \A s \in Sid : session[s] # None => session[s] \in passed

\* A setup session that has been turned into a full session is gone for good: only
\* requests that had read it before can do so again (unless its delete failed).
SetupSpent == \A s \in Sid : upgrades[s] > 0 => setup[s] = None

\* A trusted device comes back in one of two ways, and one is enough: by the
\* challenge of its login, which AttemptLogin and VerifyDeviceSignature say is kept
\* under the session id, or by its refresh token, which the README says rotates.
\* While neither has expired or been revoked, at least one is found when it is
\* looked for.
DeviceComesBack ==
  \A s \in preTrust, f \in tokens :
    ChallengeKey(s) \in keys => VerifyKey(s) \in keys \/ GetByToken(f)
=============================================================================
