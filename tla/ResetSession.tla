---------------------------- MODULE ResetSession ----------------------------
(***************************************************************************)
(* Resetting a forgotten password: the session that StartResetProcess      *)
(* stores in Redis under reset:password:<token>, and the two requests that *)
(* read it and write it back, VerifyCode and FinalizeReset.                *)
(*                                                                         *)
(* VerifyCode reads the session, changes the copy and saves the copy; there*)
(* is no script and no transaction, so requests for one token overwrite    *)
(* each other.  The module has one token (no request touches the key of    *)
(* another) and any number of clients that know it.  One action is one     *)
(* call of Redis or of a repository with the code up to the next one.      *)
(* The row of the user, which FinalizeReset reads and saves, is the        *)
(* business of module Account.                                             *)
(***************************************************************************)
EXTENDS Integers, FiniteSets

CONSTANTS Client,        \* the clients
          NoChallenge,   \* the empty challenge of a session not verified yet
          NoSession,     \* "no such key in Redis", or no copy held
          MaxAttempts    \* the 5 of VerifyCode

ASSUME ClientAssumption == IsFiniteSet(Client)
ASSUME MaxAttemptsAssumption == MaxAttempts \in Nat \ {0}

VARIABLES session,       \* the session in Redis
          pc,            \* pc[c]: the call the request of c makes next
          copy,          \* copy[c]: the session that request holds
          staleTokens,   \* refresh tokens older than the password may still be valid
          nameless,      \* a device without a fingerprint is stored for the user
          started,       \* history: the session was created
          gone,          \* history: it was deleted or expired
          guesses,       \* history: wrong codes compared, until something is lost
          handed,        \* history: the challenges handed out
          resets,        \* history: passwords written, until a fault
          faults         \* history: what has gone wrong, see Fault

vars == <<session, pc, copy, staleTokens, nameless, started, gone, guesses, handed,
          resets, faults>>

\* A challenge is fresh in the code; here it is named after the request of the
\* client that created it.
Session == [attempts : Nat, verified : BOOLEAN, challenge : Client \cup {NoChallenge}]
ASSUME NoSessionAssumption == NoSession \notin Session

\* "overlap": a save overwrote what another request had saved, or a session that
\* was gone; "lost": a call failed or the service crashed before a request had
\* written back what it found or had removed the session.
Fault == {"overlap", "lost"}

Step == {"idle", "saveWrong", "saveRight", "device", "password", "revoke", "delete"}
Saving == {"saveWrong", "saveRight"}
Finalizing == {"device", "password", "revoke", "delete"}

TypeOK ==
  /\ session \in Session \cup {NoSession}
  /\ pc \in [Client -> Step]
  /\ copy \in [Client -> Session \cup {NoSession}]
  /\ \A c \in Client : pc[c] # "idle" => copy[c] \in Session
  /\ staleTokens \in BOOLEAN /\ nameless \in BOOLEAN
  /\ started \in BOOLEAN /\ gone \in BOOLEAN
  /\ guesses \in Nat /\ resets \in Nat
  /\ handed \subseteq Client
  /\ faults \subseteq Fault

Init ==
  /\ session = NoSession
  /\ pc = [c \in Client |-> "idle"]
  /\ copy = [c \in Client |-> NoSession]
  /\ staleTokens = FALSE /\ nameless = FALSE
  /\ started = FALSE /\ gone = FALSE
  /\ guesses = 0 /\ resets = 0 /\ handed = {} /\ faults = {}

Live == session # NoSession

Goto(c, s) == pc' = [pc EXCEPT ![c] = s]
Hold(c, s) == copy' = [copy EXCEPT ![c] = s]

\* A request ends, and its copy with it.
Answer(c) == Goto(c, "idle") /\ Hold(c, NoSession)

\* The last wrong code before the lock and one for every other request in flight;
\* bound: the history counts no further than one beyond it.
GuessLimit == MaxAttempts - 1 + Cardinality(Client)

Lose == faults' = faults \cup {"lost"}

(***************************************************************************)
(* What VerifyCode makes of the session it read.                           *)
(***************************************************************************)
AfterWrongCountingDown(s) == [s EXCEPT !.attempts = @ - 1]
AfterWrong(s) == [s EXCEPT !.attempts = @ + 1]
AfterRight(c, s) == [s EXCEPT !.verified = TRUE, !.challenge = c]

LockedLate(s) == s.attempts > MaxAttempts
Locked(s) == s.attempts >= MaxAttempts

(***************************************************************************)
(* StartResetProcess                                                       *)
(***************************************************************************)
StartResetProcess ==
  /\ ~started
  /\ started' = TRUE
  /\ session' = [attempts |-> 0, verified |-> FALSE, challenge |-> NoChallenge]
  /\ UNCHANGED <<pc, copy, staleTokens, nameless, gone, guesses, handed, resets, faults>>

(***************************************************************************)
(* VerifyCode: the session is read and the code compared; then the changed *)
(* copy is saved, over whatever is there by now.                           *)
(***************************************************************************)
VerifyRefused(c) ==
  /\ pc[c] = "idle"
  /\ Live => Locked(session)
  /\ UNCHANGED vars

VerifyWrong(c) ==
  /\ pc[c] = "idle"
  /\ Live /\ ~Locked(session)
  /\ guesses' = IF "lost" \in faults \/ guesses > GuessLimit THEN guesses ELSE guesses + 1
  /\ Goto(c, "saveWrong") /\ Hold(c, session)
  /\ UNCHANGED <<session, staleTokens, nameless, started, gone, handed, resets, faults>>

VerifyRight(c) ==
  /\ pc[c] = "idle"
  /\ Live /\ ~Locked(session)
  /\ Goto(c, "saveRight") /\ Hold(c, session)
  /\ UNCHANGED <<session, staleTokens, nameless, started, gone, guesses, handed, resets,
                 faults>>

\* saveSession writes the key whether it is there or not.
Save(c, s) ==
  /\ session' = s
  /\ faults' = IF session = copy[c] THEN faults ELSE faults \cup {"overlap"}

SaveWrong(c) ==
  /\ pc[c] = "saveWrong"
  /\ Save(c, AfterWrong(copy[c]))
  /\ Answer(c)
  /\ UNCHANGED <<staleTokens, nameless, started, gone, guesses, handed, resets>>

SaveRight(c) ==
  /\ pc[c] = "saveRight"
  /\ Save(c, AfterRight(c, copy[c]))
  /\ handed' = handed \cup {c}
  /\ Answer(c)
  /\ UNCHANGED <<staleTokens, nameless, started, gone, guesses, resets>>

\* After a wrong code the error is dropped, after a right one it is reported.
SaveFails(c) ==
  /\ pc[c] \in Saving
  /\ Lose
  /\ Answer(c)
  /\ UNCHANGED <<session, staleTokens, nameless, started, gone, guesses, handed, resets>>

(***************************************************************************)
(* FinalizeReset                                                           *)
(***************************************************************************)
MayFinalizeAny(s) == TRUE
MayFinalize(s) == s.verified

FinalizeRefused(c) ==
  /\ pc[c] = "idle"
  /\ Live => ~MayFinalize(session)
  /\ UNCHANGED vars

FinalizeRead(c) ==
  /\ pc[c] = "idle"
  /\ Live /\ MayFinalize(session)
  /\ Goto(c, "device") /\ Hold(c, session)
  /\ UNCHANGED <<session, staleTokens, nameless, started, gone, guesses, handed, resets,
                 faults>>

SignatureOK(c, x) == copy[c].challenge = x

\* The device is looked up.  One that is not known is stored, without its
\* fingerprint, before the signature over challenge and token is checked; x is
\* the challenge the client has signed, the empty one if it knows none.
FinalizeDevice(c, x) ==
  /\ pc[c] = "device"
  /\ nameless' \in {nameless, TRUE}
  /\ IF SignatureOK(c, x)
     THEN Goto(c, "password") /\ UNCHANGED copy
     ELSE Answer(c)
  /\ UNCHANGED <<session, staleTokens, started, gone, guesses, handed, resets, faults>>

\* No public key, an invalid signature, or an error of the database.
FinalizeDeviceFails(c) ==
  /\ pc[c] \in {"device", "password"}
  /\ nameless' \in IF pc[c] = "device" THEN {nameless, TRUE} ELSE {nameless}
  /\ Answer(c)
  /\ UNCHANGED <<session, staleTokens, started, gone, guesses, handed, resets, faults>>

\* The row is read and saved with the new password (see Account).
FinalizePassword(c) ==
  /\ pc[c] = "password"
  /\ staleTokens' = TRUE
  /\ resets' = IF faults = {} THEN resets + 1 ELSE resets
  /\ Goto(c, "revoke")
  /\ UNCHANGED <<session, copy, nameless, started, gone, guesses, handed, faults>>

RevokeNothing(c) == UNCHANGED staleTokens
Revoke(c) == staleTokens' = FALSE

RevokeAllUserTokens(c) ==
  /\ pc[c] = "revoke"
  /\ Revoke(c)
  /\ Goto(c, "delete")
  /\ UNCHANGED <<session, copy, nameless, started, gone, guesses, handed, resets, faults>>

\* Its error is dropped.
RevokeAllUserTokensFails(c) ==
  /\ pc[c] = "revoke"
  /\ Lose
  /\ Goto(c, "delete")
  /\ UNCHANGED <<session, copy, staleTokens, nameless, started, gone, guesses, handed,
                 resets>>

DelKept(c) == UNCHANGED <<session, gone>>
DelMarkingUsed(c) == session' = [copy[c] EXCEPT !.verified = FALSE] /\ gone' = TRUE
Del(c) == session' = NoSession /\ gone' = TRUE

FinalizeDelete(c) ==
  /\ pc[c] = "delete"
  /\ Del(c)
  /\ Answer(c)
  /\ UNCHANGED <<staleTokens, nameless, started, guesses, handed, resets, faults>>

\* Its error is dropped too.
FinalizeDeleteFails(c) ==
  /\ pc[c] = "delete"
  /\ Lose
  /\ Answer(c)
  /\ UNCHANGED <<session, staleTokens, nameless, started, gone, guesses, handed, resets>>

(***************************************************************************)
(* The environment.                                                        *)
(***************************************************************************)

\* The time to live of the key, ten minutes from the last save, is over.
Expire ==
  /\ Live
  /\ session' = NoSession /\ gone' = TRUE
  /\ UNCHANGED <<pc, copy, staleTokens, nameless, started, guesses, handed, resets, faults>>

\* The process stops, and all requests with it.
Crash ==
  /\ \E c \in Client : pc[c] # "idle"
  /\ faults' = IF \E c \in Client : pc[c] \in Saving \cup {"revoke", "delete"}
               THEN faults \cup {"lost"} ELSE faults
  /\ pc' = [c \in Client |-> "idle"]
  /\ copy' = [c \in Client |-> NoSession]
  /\ UNCHANGED <<session, staleTokens, nameless, started, gone, guesses, handed, resets>>

Progress(c) ==
  \/ SaveWrong(c) \/ SaveRight(c) \/ SaveFails(c)
  \/ \E x \in handed \cup {NoChallenge} : FinalizeDevice(c, x)
  \/ FinalizeDeviceFails(c) \/ FinalizePassword(c)
  \/ RevokeAllUserTokens(c) \/ RevokeAllUserTokensFails(c)
  \/ FinalizeDelete(c) \/ FinalizeDeleteFails(c)

Begin(c) ==
  \/ VerifyRefused(c) \/ VerifyWrong(c) \/ VerifyRight(c)
  \/ FinalizeRefused(c) \/ FinalizeRead(c)

Next ==
  \/ \E c \in Client : Progress(c) \/ Begin(c)
  \/ StartResetProcess \/ Expire \/ Crash

\* A handler runs to its end once it has begun.
Spec == Init /\ [][Next]_vars /\ \A c \in Client : WF_vars(Progress(c))
-----------------------------------------------------------------------------
At(steps) == {c \in Client : pc[c] \in steps}

\* No password is written unless the code of the session was entered right before,
\* and the challenge handed out for it came back signed, whatever saves overwrite
\* each other (FinalizeReset checks copies that may be long out of date).
ResetNeedsCode ==
  /\ resets > 0 => handed # {}
  /\ \A c \in Client :
       pc[c] \in {"password", "revoke", "delete"} => copy[c].challenge \in handed

\* Wrong codes are compared at most MaxAttempts - 1 times, plus once for each
\* request in flight, as long as no save overwrites another.
GuessesWithoutOverlap == faults = {} => guesses <= GuessLimit

\* A session writes the password at most once per client: those that had read it
\* before the first delete.
ResetsBounded == faults = {} => resets <= Cardinality(Client)

\* A session that was deleted or has expired stays away, unless a request saves
\* back the copy it read before.
GoneStaysGone == gone /\ "overlap" \notin faults => ~Live

\* Refresh tokens from before a reset stay valid only as long as some request is
\* about to revoke them, unless something failed.
OldTokensDoomed ==
  staleTokens /\ faults = {} => \E c \in Client : pc[c] = "revoke"

\* To the outside the session is a code that only an overlapping save overwrites:
\* it is issued once, its counter goes up to the limit and never down, it ends once.
Life == IF ~started THEN "none" ELSE IF Live THEN "live" ELSE "dead"
Count == IF Live THEN session.attempts ELSE 0
Code == INSTANCE OneTimeCode
        WITH state <- Life, count <- Count, overwritten <- "overlap" \in faults
KeepsCode == Code!Spec
=============================================================================
