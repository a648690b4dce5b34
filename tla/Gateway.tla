------------------------------ MODULE Gateway ------------------------------
(***************************************************************************)
(* The gateway: its routes, the chain of middleware before them, and what  *)
(* its two proxies send on.  Operators only: the steps are in Platform.    *)
(*                                                                         *)
(* A call is a record:                                                     *)
(*   e      the operation it asks for                                      *)
(*   user   who its token was issued to                                    *)
(*   token  "none", "bad", "good"                                          *)
(*   fp     its X-Device-Fingerprint: "none", "wrong", "right" one         *)
(*   body   "json": does not parse, "invalid": parses but breaks the       *)
(*          schema or misses a part, "ok"                                  *)
(*   id     the notification it names, None for an id that does not parse  *)
(*   limit, offset                                                         *)
(* A token is issued with the id of a user and of a session in it, one     *)
(* session for each user and kind of key here.                             *)
(***************************************************************************)
EXTENDS AppErrors

NamedNotification == {"read", "trash", "restore", "delete"}
Notifications == NamedNotification \cup {"list", "send", "readAll", "clearTrash"}
Documents == {"documentsCreate", "documentsMe"}
Audit == {"auditList", "auditOfUser", "auditEntry", "auditOfAction"}

SecureProxied == {"login", "verifyDevice", "registerDevice", "logout", "sessions",
  "terminate"} \cup Notifications \cup Documents
PlainProxied == {"twoFaVerify", "refresh", "resetSend", "resetVerify", "resetFinal"}
Unrouted == {"register", "twoFaResend"}

\* Routes with ValidateBody: the gateway's and the auth-service's agree, but for
\* the registration, which only the auth-service has.
Checked == PlainProxied \cup {"login", "verifyDevice", "registerDevice", "logout", "register"}

Public == PlainProxied \cup Unrouted \cup {"login"}

\* Operations that nothing reaches through the gateway are called directly.
Direct == Audit \cup {"register"}

To(e) == CASE e \in Notifications -> "notify"
           [] e \in Documents -> "docs"
           [] e \in Audit -> "audit"
           [] OTHER -> "auth"

(***************************************************************************)
(* The middleware, in its order.                                           *)
(***************************************************************************)
SessionPrefix == "session:"
SessionKey(e) == IF e = "registerDevice" THEN "setup:session:" ELSE SessionPrefix

\* The limiter counts by address: it may refuse any call.
Limited == {"ErrTooManyRequests"}

JWT(c) == IF c.token = "good" THEN None ELSE "Unauthorized"

\* What AuthRedisMiddleware's lookup answers.  live: the keys in Redis.
AuthRedisPassesNil(c, live) ==
  IF <<c.user, SessionKey(c.e)>> \in live /\ c.fp = "wrong" THEN "ErrUntrustedDevice" ELSE None
AuthRedis(c, live) ==
  IF <<c.user, SessionKey(c.e)>> \notin live THEN "ErrSessionExpired"
  ELSE IF c.fp = "wrong" THEN "ErrUntrustedDevice" ELSE None

\* The lookup may fail, and does when the connection to Redis is not open.
AuthRedisMiddleware(c, live, open) ==
  IF c.fp = "none" THEN {"ErrInvalidDeviceFingerprint"}
  ELSE {"ErrInternal"} \cup IF open THEN {AuthRedis(c, live)} ELSE {}

\* The errors a call may be answered with before the routes, None among them
\* when it may pass.
BeforeRoutes(c, live, open) ==
  Limited \cup
  IF c.e \in Public THEN {None}
  ELSE IF JWT(c) # None THEN {JWT(c)}
  ELSE AuthRedisMiddleware(c, live, open)

\* ValidateBody: a body it cannot parse, and one that breaks the schema.
Unparsable(c) == c.e \in Checked /\ c.body = "json"
BreaksSchema(c) == c.e \in Checked /\ c.body = "invalid"

(***************************************************************************)
(* The proxies.  A forwarded call has a signed context, of nobody or of a  *)
(* user, when ReverseProxySecure sent it, and the headers that are copied  *)
(* from the client or set from the context.                                *)
(***************************************************************************)
Context(c) == IF c.e \in Public THEN "nobody" ELSE "user"

ClientHeaders(c) == IF c.fp = "none" THEN {} ELSE {"fingerprint"}

ContextHeadersOfUser(c) == IF Context(c) = "user" THEN {"user"} ELSE {}
ContextHeaders(c) == IF Context(c) = "user" THEN {"user", "session"} ELSE {}

Forwarded(c) ==
  IF c.e \in SecureProxied
  THEN [ctx |-> Context(c), headers |-> ClientHeaders(c) \cup ContextHeaders(c)]
  ELSE [ctx |-> "none", headers |-> ClientHeaders(c)]

\* A call that did not come through the gateway.
Bare(c) == [ctx |-> "none", headers |-> ClientHeaders(c)]

Received(c) == IF c.e \in Direct THEN Bare(c) ELSE Forwarded(c)

\* net/http sends a request a second time when its connection breaks before an
\* answer and the method is one that may be repeated.
Repeated(e) == e \in {"list", "sessions", "documentsMe"}
=============================================================================
