----------------------------- MODULE TwoFactor -----------------------------
(***************************************************************************)
(* The second factor of a login: prepare2FASession stores a code under a   *)
(* fresh token in Redis, for five minutes, and Verify2FA exchanges token   *)
(* and code for a setup session and a challenge to sign.                   *)
(*                                                                         *)
(* Any number of clients may send Verify2FA for the same token at once.    *)
(* One action is one Redis call with the code up to the next one.  The     *)
(* comparison of the code comes before the script that counts attempts:    *)
(* the script is atomic, the two together are not.  Calls may fail, the    *)
(* key may expire at any time, and the service may crash.                  *)
(*                                                                         *)
(* Between deleting the session and storing the setup session, Verify2FA   *)
(* reads and saves the user's row: module Account models that part.        *)
(***************************************************************************)
EXTENDS Integers, FiniteSets

CONSTANTS Client,        \* the clients
          Token,         \* the tokens prepare2FASession hands out
          NoSession,     \* "no such key in Redis"
          MaxAttempts    \* the 5 of Verify2FA

ASSUME ClientAssumption == IsFiniteSet(Client)
ASSUME MaxAttemptsAssumption == MaxAttempts \in Nat \ {0}
ASSUME NoSessionAssumption == NoSession \notin Nat

VARIABLES session,       \* session[t]: the attempts field of login:2fa:t
          pc,            \* pc[c]: the call the request of c makes next
          tok,           \* tok[c]: the token of that request
          issued,        \* history: the tokens handed out
          gone,          \* history: the tokens whose session was deleted or expired
          granted,       \* history: the setup sessions obtained with each fault-free token
          tried,         \* history: wrong codes compared before t reached the limit or
                         \* a fault
          toldLocked,    \* history: the tokens of requests answered "locked"
          faults         \* history: the tokens with a lost count or a failed delete

vars == <<session, pc, tok, issued, gone, granted, tried, toldLocked, faults>>

Step == {"idle", "attempt", "delete", "setup", "challenge"}

\* The requests that have seen a right code and have not been answered.
Accepted == {"delete", "setup", "challenge"}

TypeOK ==
  /\ session \in [Token -> Nat \cup {NoSession}]
  /\ pc \in [Client -> Step]
  /\ tok \in [Client -> Token]
  /\ issued \subseteq Token /\ gone \subseteq issued
  /\ \A c \in Client : pc[c] # "idle" => tok[c] \in issued
  /\ \A t \in Token : session[t] # NoSession => t \in issued
  /\ granted \in [Token -> Nat]
  /\ tried \in [Token -> Nat]
  /\ toldLocked \subseteq issued
  /\ faults \subseteq Token

Init ==
  /\ session = [t \in Token |-> NoSession]
  /\ pc = [c \in Client |-> "idle"]
  /\ tok \in [Client -> Token]
  /\ issued = {} /\ gone = {} /\ toldLocked = {} /\ faults = {}
  /\ granted = [t \in Token |-> 0]
  /\ tried = [t \in Token |-> 0]

Live(t) == session[t] # NoSession

Goto(c, s) == pc' = [pc EXCEPT ![c] = s]

(***************************************************************************)
(* verify_2fa.lua: what one run of it stores for a key.                    *)
(***************************************************************************)
ScriptCreating(s) == IF s = NoSession THEN 1 ELSE IF s >= MaxAttempts THEN s ELSE s + 1
ScriptRestarting(s) == IF s = NoSession THEN s ELSE IF s >= MaxAttempts THEN 0 ELSE s + 1
ScriptCountingDown(s) == IF s = NoSession \/ s >= MaxAttempts THEN s ELSE s - 1
ScriptNotStoring(s) == s
Script(s) == IF s = NoSession \/ s >= MaxAttempts THEN s ELSE s + 1

\* It answers LOCKED.
SaysLocked(s) == s # NoSession /\ s >= MaxAttempts

(***************************************************************************)
(* The actions.                                                            *)
(***************************************************************************)

\* prepare2FASession, once its Set has succeeded.
Issue(t) ==
  /\ t \notin issued
  /\ issued' = issued \cup {t}
  /\ session' = [session EXCEPT ![t] = 0]
  /\ UNCHANGED <<pc, tok, gone, granted, tried, toldLocked, faults>>

\* Get2FASession finds nothing.
NotFound(c, t) ==
  /\ pc[c] = "idle"
  /\ ~Live(t)
  /\ UNCHANGED vars

WrongCode(c, t) ==
  /\ pc[c] = "idle"
  /\ Live(t)
  /\ tried' = IF session[t] < MaxAttempts /\ t \notin faults
              THEN [tried EXCEPT ![t] = @ + 1] ELSE tried
  /\ tok' = [tok EXCEPT ![c] = t]
  /\ Goto(c, "attempt")
  /\ UNCHANGED <<session, issued, gone, granted, toldLocked, faults>>

\* The attempts are not looked at.
RightCode(c, t) ==
  /\ pc[c] = "idle"
  /\ Live(t)
  /\ tok' = [tok EXCEPT ![c] = t]
  /\ Goto(c, "delete")
  /\ UNCHANGED <<session, issued, gone, granted, tried, toldLocked, faults>>

Verify2FAAttempt(c) ==
  /\ pc[c] = "attempt"
  /\ session' = [session EXCEPT ![tok[c]] = Script(@)]
  /\ toldLocked' = IF SaysLocked(session[tok[c]]) THEN toldLocked \cup {tok[c]} ELSE toldLocked
  /\ Goto(c, "idle")
  /\ UNCHANGED <<tok, issued, gone, granted, tried, faults>>

\* Its error is dropped: the client hears of a wrong code.
Verify2FAAttemptFails(c) ==
  /\ pc[c] = "attempt"
  /\ faults' = faults \cup {tok[c]}
  /\ Goto(c, "idle")
  /\ UNCHANGED <<session, tok, issued, gone, granted, tried, toldLocked>>

DeletedKept(c) == UNCHANGED <<session, gone>>
Deleted(c) ==
  /\ session' = [session EXCEPT ![tok[c]] = NoSession]
  /\ gone' = gone \cup {tok[c]}

Delete2FASession(c) ==
  /\ pc[c] = "delete"
  /\ Deleted(c)
  /\ Goto(c, "setup")
  /\ UNCHANGED <<tok, issued, granted, tried, toldLocked, faults>>

\* Its error is dropped, and the request goes on.
Delete2FASessionFails(c) ==
  /\ pc[c] = "delete"
  /\ faults' = faults \cup {tok[c]}
  /\ Goto(c, "setup")
  /\ UNCHANGED <<session, tok, issued, gone, granted, tried, toldLocked>>

SetSetupSession(c) ==
  /\ pc[c] = "setup"
  /\ Goto(c, "challenge")
  /\ UNCHANGED <<session, tok, issued, gone, granted, tried, toldLocked, faults>>

SetChallenge(c) ==
  /\ pc[c] = "challenge"
  /\ granted' = IF tok[c] \in faults THEN granted ELSE [granted EXCEPT ![tok[c]] = @ + 1]
  /\ Goto(c, "idle")
  /\ UNCHANGED <<session, tok, issued, gone, tried, toldLocked, faults>>

\* One of the calls after the delete fails: the client gets an error, and the
\* code is used up.
GrantFails(c) ==
  /\ pc[c] \in {"setup", "challenge"}
  /\ Goto(c, "idle")
  /\ UNCHANGED <<session, tok, issued, gone, granted, tried, toldLocked, faults>>

\* The key's time to live is over.
Expire(t) ==
  /\ Live(t)
  /\ session' = [session EXCEPT ![t] = NoSession]
  /\ gone' = gone \cup {t}
  /\ UNCHANGED <<pc, tok, issued, granted, tried, toldLocked, faults>>

\* The process stops, and with it all requests; Redis keeps its keys.
Crash ==
  /\ \E c \in Client : pc[c] # "idle"
  /\ faults' = faults \cup {tok[c] : c \in {d \in Client : pc[d] = "attempt"}}
  /\ pc' = [c \in Client |-> "idle"]
  /\ UNCHANGED <<session, tok, issued, gone, granted, tried, toldLocked>>

\* The steps by which a request that has begun goes on.
Progress(c) ==
  \/ Verify2FAAttempt(c) \/ Verify2FAAttemptFails(c)
  \/ Delete2FASession(c) \/ Delete2FASessionFails(c)
  \/ SetSetupSession(c) \/ SetChallenge(c) \/ GrantFails(c)

Begin(c) == \E t \in Token : NotFound(c, t) \/ WrongCode(c, t) \/ RightCode(c, t)

Next ==
  \/ \E c \in Client : Progress(c) \/ Begin(c)
  \/ \E t \in Token : Issue(t) \/ Expire(t)
  \/ Crash

\* A handler runs to its end once it has begun.
Spec == Init /\ [][Next]_vars /\ \A c \in Client : WF_vars(Progress(c))
-----------------------------------------------------------------------------
At(steps, t) == {c \in Client : pc[c] \in steps /\ tok[c] = t}

\* A code that has been used or has expired never comes back to life: the script
\* that stores a session again after a wrong code stores nothing when the session
\* has meanwhile been deleted.
NoRevival == \A t \in gone : ~Live(t)

\* A code is used once for each request that had read the session before the
\* first delete, and never more often than there are clients, unless a delete
\* failed.
UsesBounded ==
  \A t \in Token : t \notin faults => granted[t] <= Cardinality(Client)

\* However the requests of all clients interleave, every wrong code compared while
\* the session is below the limit is counted in it or about to be, unless the
\* script could not be run.
AttemptsCounted ==
  \A t \in Token \ faults :
    Live(t) /\ session[t] < MaxAttempts
      => tried[t] = session[t] + Cardinality(At({"attempt"}, t))

\* A client is told that a code is locked only when the limit has been reached,
\* and the limit stays reached.
LockedForReason ==
  \A t \in toldLocked : Live(t) => session[t] = MaxAttempts

\* To the outside the session of a token is a code that is never overwritten: it
\* is issued once, its counter goes up to the limit and never down, and it ends once.
Life(t) == IF t \notin issued THEN "none" ELSE IF Live(t) THEN "live" ELSE "dead"
Count(t) == IF Live(t) THEN session[t] ELSE 0
Code(t) == INSTANCE OneTimeCode
           WITH state <- Life(t), count <- Count(t), overwritten <- FALSE
KeepsCode(t) == Code(t)!Spec

\* What the answer 2FA_LOCKED and the comment on Delete2FASession say: a code that
\* is locked is of no more use.
LockedStaysShut == [][\A t \in toldLocked : granted'[t] = granted[t]]_vars
=============================================================================
