----------------------------- MODULE AppErrors -----------------------------
(***************************************************************************)
(* pkg/errors and the error handler of pkg/server: the application errors, *)
(* by the type that decides the status of their answer, and the answers    *)
(* made of them.                                                           *)
(*                                                                         *)
(* An application error is a value shared by all requests of a process.    *)
(* Only ErrValidationFailed is ever written to: the middleware that checks *)
(* bodies stores the metadata of its request in it.  The owner of the      *)
(* metadata an answer carries is therefore a parameter of SendAppError.    *)
(***************************************************************************)
EXTENDS Naturals

CONSTANT None              \* "no answer yet", "no metadata", "no such row"

BadRequest == {"ErrInvalidJSON", "ErrInvalidParams", "ErrInvalidQuery", "ErrTooManyRequests",
  "ErrInvalidDeviceFingerprint", "ErrInvalidRequestBody", "ErrResetSessionNotFound"}
Validation == {"ErrValidationFailed", "ErrInvalid2FACode", "ErrInvalidRequest",
  "ErrEmailExists", "ErrUsernameExists", "ErrPasswordTooShort", "ErrEmailIsSendIfExists",
  "Err2FALocked", "ErrInvalidPairingData", "ErrInvalidResetCode"}
Unauthorized == {"ErrUnauthorized", "ErrInvalidToken", "ErrInternalContextEncoding",
  "ErrInternalInvalidSignature", "ErrInternalContextCorruption", "ErrInvalidSession",
  "ErrInvalidChallenge", "ErrAccountTemporarilyLocked", "ErrCSRFInvalid",
  "ErrInvalidCredentials", "ErrUserNotFound", "ErrAccountLocked", "ErrSessionExpired",
  "ErrVerificationFailed", "ErrAccountSuspended", "ErrAccountBanned", "ErrAccountPending",
  "ErrUntrustedDevice", "ErrInvalidSignature"}
Internal == {"ErrInternal", "ErrUpstreamUnavailable", "ErrUpstreamUnreachable"}
Timeout == {"ErrGatewayTimeout", "ErrUpstreamTimeout"}
NotFound == {"ErrNotFound"}

AppError == BadRequest \cup Validation \cup Unauthorized \cup Internal \cup Timeout
            \cup NotFound

\* What is answered without an AppError: fiber's own errors and handlers that
\* write a status themselves.
Plain == {"BadRequest", "Unauthorized", "NotFound", "Panic", "Server"}

Success == {200, 201, 204}

\* statusMap of SendAppError.
Status(e) ==
  CASE e \in BadRequest \cup Validation -> 400
    [] e \in Unauthorized -> 401
    [] e \in NotFound -> 404
    [] e \in Timeout -> 504
    [] e \in Internal -> 500

Answer == [status : Success \cup {400, 401, 404, 500, 504},
           code : AppError \cup Plain \cup {"OK"}]

OK(s) == [status |-> s, code |-> "OK"]
SendAppError(e) == [status |-> Status(e), code |-> e]

\* An error that is none of the application's becomes the status fiber gave it,
\* or 500: a panic is caught and ends the same way.
ErrorHandler(e) ==
  IF e \in AppError THEN SendAppError(e)
  ELSE [status |-> CASE e = "BadRequest" -> 400
                     [] e = "Unauthorized" -> 401
                     [] e = "NotFound" -> 404
                     [] e \in {"Panic", "Server"} -> 500,
        code |-> e]
=============================================================================
