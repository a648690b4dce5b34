------------------------------ MODULE Handlers ------------------------------
(***************************************************************************)
(* The services behind the gateway: their routes and handlers.  A handler  *)
(* is described by a record:                                               *)
(*   refusal   what it answers before any work, or None: its checks, in    *)
(*             their order                                                 *)
(*   refusals  what the work may end with instead of being done            *)
(*   failure   the answer to a statement that fails                        *)
(*   done      the status of a success; none when the work never succeeds  *)
(* c is the call and f what was received of it.  The work of the           *)
(* auth-service is one step here; Account, TwoFactor, ResetSession and     *)
(* DeviceTrust take it apart.                                              *)
(***************************************************************************)
EXTENDS Gateway

\* The first of two checks that does not pass.
Then(a, b) == IF a # None THEN a ELSE b
Need(f, h, e) == IF h \in f.headers THEN None ELSE e

MustFromFiber(f) == IF f.ctx = "none" THEN "Panic" ELSE None
MustBeUser(f) == Then(MustFromFiber(f), IF f.ctx = "user" THEN None ELSE "ErrUnauthorized")
GetUserID(f) == Need(f, "user", "ErrInvalidToken")
ParseUUID(c) == IF c.id = None THEN "ErrInvalidRequest" ELSE None
Parses(c, e) == IF c.body = "json" THEN e ELSE None
Complete(c, e) == IF c.body = "ok" THEN None ELSE e

\* A failed statement is the client's business to no handler but a few.
OrNotFound(refusal, refusals, done) ==
  [refusal |-> refusal, refusals |-> refusals, failure |-> "ErrNotFound", done |-> done]
OrInternal(refusal, refusals, done) ==
  [refusal |-> refusal, refusals |-> refusals, failure |-> "ErrInternal", done |-> done]
OrServerError(refusal, done) ==
  [refusal |-> refusal, refusals |-> {}, failure |-> "Server", done |-> done]

(***************************************************************************)
(* auth-service.                                                           *)
(***************************************************************************)

\* A context that the gateway did not sign; none at all is let through.
InternalAuth(c) ==
  IF c.e \in Direct /\ c.token = "bad"
  THEN {"ErrInternalContextEncoding", "ErrInternalInvalidSignature"} ELSE {None}

LoginHandler(f) ==
  OrInternal(Then(MustFromFiber(f), Need(f, "fingerprint", "ErrInvalidDeviceFingerprint")),
    {"ErrInvalidCredentials", "ErrAccountLocked", "ErrAccountBanned", "ErrAccountPending",
     "ErrAccountTemporarilyLocked"}, {200})

\* The challenge is never found.  Without a user the handler panics as well.
VerifyDeviceHandler(f) ==
  OrInternal(IF f.ctx = "user" THEN None ELSE "Panic", {"ErrInvalidChallenge"}, {})

RegisterDeviceHandler(f) ==
  OrInternal(MustBeUser(f), {"ErrSessionExpired", "ErrInvalidPairingData",
    "ErrVerificationFailed", "ErrInvalidDeviceFingerprint"}, {200})

Verify2FAHandler ==
  OrInternal(None, {"ErrInvalidCredentials", "Err2FALocked", "ErrInvalid2FACode"}, {200})

\* No refresh token is ever found.
RefreshTokenHandler(f) ==
  OrInternal(Need(f, "fingerprint", "ErrInvalidToken"), {"ErrInvalidToken"}, {})

LogoutHandler(f) ==
  OrInternal(Then(MustBeUser(f), Need(f, "session", "BadRequest")), {"ErrUnauthorized"}, {200})

\* An email or a name that is taken is a failed statement like any other.
RegisterHandler == OrInternal(None, {}, {201})

SendResetCodeHandler == OrInternal(None, {"ErrEmailIsSendIfExists"}, {200})
VerifyResetCodeHandler ==
  OrInternal(None, {"ErrResetSessionNotFound", "Err2FALocked", "ErrInvalidResetCode"}, {200})

\* The handler parses the body a second time, into a schema with other names for
\* the token and the password than the one that was checked.
FinalizeResetHandler ==
  OrInternal(None, {"ErrResetSessionNotFound", "ErrUnauthorized", "ErrUntrustedDevice",
    "ErrVerificationFailed", "ErrUserNotFound"}, {200})

GetSessionsHandler(f) == OrInternal(GetUserID(f), {}, {200})

\* The id in the body is a number, the column has uuids: the statement fails.
TerminateSessionHandler(c, f) ==
  OrInternal(Then(GetUserID(f), Parses(c, "ErrInvalidRequest")), {}, {})

AuthRoutes(c, f) ==
  CASE c.e = "login" -> LoginHandler(f)
    [] c.e = "twoFaVerify" -> Verify2FAHandler
    [] c.e = "register" -> RegisterHandler
    [] c.e = "refresh" -> RefreshTokenHandler(f)
    [] c.e = "logout" -> LogoutHandler(f)
    [] c.e = "registerDevice" -> RegisterDeviceHandler(f)
    [] c.e = "verifyDevice" -> VerifyDeviceHandler(f)
    [] c.e = "resetSend" -> SendResetCodeHandler
    [] c.e = "resetVerify" -> VerifyResetCodeHandler
    [] c.e = "resetFinal" -> FinalizeResetHandler

UserRoutes(c, f) ==
  IF c.e = "sessions" THEN GetSessionsHandler(f) ELSE TerminateSessionHandler(c, f)

(***************************************************************************)
(* notification-service.                                                   *)
(***************************************************************************)
ListMyNotificationsHandler(f) == OrInternal(GetUserID(f), {}, {200})
MarkAsReadHandler(c, f) == OrInternal(Then(ParseUUID(c), GetUserID(f)), {}, {204})
MarkAllAsReadHandler(f) == OrInternal(GetUserID(f), {}, {204})
MoveToTrashHandler(c, f) == OrInternal(Then(ParseUUID(c), GetUserID(f)), {}, {204})
ClearTrashHandler(f) == OrInternal(GetUserID(f), {}, {204})
SendNotificationAccepted(c) == OrInternal(Parses(c, "ErrInvalidJSON"), {}, {202})
SendNotificationHandler(c) == OrInternal(Parses(c, "ErrInvalidJSON"), {}, {201})
RestoreFromTrashHandler(c, f) == OrInternal(Then(ParseUUID(c), GetUserID(f)), {}, {204})
DeletePermanentlyHandler(c, f) == OrInternal(Then(ParseUUID(c), GetUserID(f)), {}, {204})

NotificationRoutes(c, f) ==
  CASE c.e = "list" -> ListMyNotificationsHandler(f)
    [] c.e = "send" -> SendNotificationHandler(c)
    [] c.e = "read" -> MarkAsReadHandler(c, f)
    [] c.e = "readAll" -> MarkAllAsReadHandler(f)
    [] c.e = "trash" -> MoveToTrashHandler(c, f)
    [] c.e = "clearTrash" -> ClearTrashHandler(f)
    [] c.e = "restore" -> RestoreFromTrashHandler(c, f)
    [] c.e = "delete" -> DeletePermanentlyHandler(c, f)

(***************************************************************************)
(* citizen-docs.                                                           *)
(***************************************************************************)
CreateDocumentHandler(c) == OrServerError(Complete(c, "BadRequest"), {201})
GetDocumentsMeHandler(f) == OrServerError(Need(f, "profile", "Unauthorized"), {200})

DocsRoutes(c, f) ==
  IF c.e = "documentsCreate" THEN CreateDocumentHandler(c) ELSE GetDocumentsMeHandler(f)

(***************************************************************************)
(* audit-service.                                                          *)
(***************************************************************************)
ListLogsHandler == OrServerError(None, {200})
ListUserLogsHandler(c) == OrServerError(Complete(c, "BadRequest"), {200})

\* Every error is taken for a row that is not there.
GetLogDetailsHandler(c) ==
  [refusal |-> Complete(c, "BadRequest"), refusals |-> {"NotFound"}, failure |-> "NotFound",
   done |-> {200}]
ListLogsByActionHandler(c) == OrServerError(Complete(c, "BadRequest"), {200})

AuditRoutes(c) ==
  CASE c.e = "auditList" -> ListLogsHandler
    [] c.e = "auditOfUser" -> ListUserLogsHandler(c)
    [] c.e = "auditEntry" -> GetLogDetailsHandler(c)
    [] c.e = "auditOfAction" -> ListLogsByActionHandler(c)

Handler(c, f) ==
  CASE To(c.e) = "notify" -> NotificationRoutes(c, f)
    [] To(c.e) = "docs" -> DocsRoutes(c, f)
    [] To(c.e) = "audit" -> AuditRoutes(c)
    [] c.e \in {"sessions", "terminate"} -> UserRoutes(c, f)
    [] OTHER -> AuthRoutes(c, f)
=============================================================================
