---------------------------- MODULE PlatformProofs ----------------------------
(***************************************************************************)
(* Proofs about the requests of Platform and the parts it is composed of.  *)
(***************************************************************************)
EXTENDS Platform, FiniteSetTheorems, TLAPS

(***************************************************************************)
(* Pages of the audit log.  B are the rows before page S, of the first n   *)
(* rows of log L.                                                          *)
(***************************************************************************)
Least(k, n) == IF k < n THEN k ELSE n

OnTop(L, T, S) == \A i \in T, j \in S \ T : L[j] <= L[i]

PageOf(L, S, n, offset, limit) ==
  \E B \in SUBSET (1 .. n) :
    /\ Cardinality(B) = Least(offset, n) /\ OnTop(L, B, 1 .. n)
    /\ S \subseteq (1 .. n) \ B
    /\ Cardinality(S) = Least(limit, n - Cardinality(B)) /\ OnTop(L, S, (1 .. n) \ B)

LEMMA SmallerSubset ==
  ASSUME NEW S, NEW T, NEW x \in S, IsFiniteSet(S), T \subseteq S, x \notin T
  PROVE  Cardinality(T) < Cardinality(S)
  BY FS_Subset, FS_CardinalityType

\* What the query returns is such a page.
LEMMA QueryReturnsPage ==
  ASSUME NEW l \in Int, NEW o \in Int, LogTypeOK, NEW S \in GetAllLogs(l, o)
  PROVE  S \subseteq 1 .. Len(log) /\ PageOf(log, S, Len(log), Int32(o), Int32(l))
  <1> DEFINE n == Len(log)
  <1>1. n \in Nat
    BY DEF LogTypeOK
  <1>6. IsFiniteSet(1 .. n) /\ Cardinality(1 .. n) = n
    <2> HIDE DEF n
    <2> QED
      BY <1>1, FS_Interval
  <1>2. PICK B \in First(1 .. n, Int32(o)) : S \in First((1 .. n) \ B, Int32(l))
    BY DEF GetAllLogs
  <1>3. /\ B \in SUBSET (1 .. n) /\ Cardinality(B) = Least(Int32(o), n) /\ OnTop(log, B, 1 .. n)
    BY <1>1, <1>6, <1>2 DEF First, FirstUnordered, kSubset, Least, OnTop
  <1>4. Cardinality((1 .. n) \ B) = n - Cardinality(B)
    <2> HIDE DEF n
    <2>1. (1 .. n) \cap B = B
      BY <1>3
    <2>2. Cardinality((1 .. n) \ B) = Cardinality(1 .. n) - Cardinality((1 .. n) \cap B)
      BY <1>6, FS_Difference
    <2> QED
      BY <1>6, <2>1, <2>2
  <1>5. /\ S \subseteq (1 .. n) \ B /\ OnTop(log, S, (1 .. n) \ B)
        /\ Cardinality(S) = Least(Int32(l), Cardinality((1 .. n) \ B))
    BY <1>2 DEF First, FirstUnordered, kSubset, Least, OnTop
  <1> QED
    BY <1>3, <1>4, <1>5 DEF PageOf

\* Rows that are added later do not change what was a page.
LEMMA PageStays ==
  ASSUME NEW L, NEW M, NEW S, NEW n, NEW o, NEW l, PageOf(L, S, n, o, l),
         \A i \in 1 .. n : M[i] = L[i]
  PROVE  PageOf(M, S, n, o, l)
  <1>1. PICK B \in SUBSET (1 .. n) :
          /\ Cardinality(B) = Least(o, n) /\ OnTop(L, B, 1 .. n)
          /\ S \subseteq (1 .. n) \ B
          /\ Cardinality(S) = Least(l, n - Cardinality(B)) /\ OnTop(L, S, (1 .. n) \ B)
    BY DEF PageOf
  <1>2. OnTop(M, B, 1 .. n) /\ OnTop(M, S, (1 .. n) \ B)
    BY <1>1 DEF OnTop
  <1> QED
    BY <1>1, <1>2 DEF PageOf

\* Row i is older than all of S, or newer than some of it.
OlderThan(L, i, S) == \A j \in S : L[i] < L[j]
NewerThan(L, i, S) == \E j \in S : L[j] < L[i]

\* Page Q begins where page P ended, when the log had grown from m to n rows: a row
\* older than all of P and newer than some of Q is on Q.
LEMMA PagesMeet ==
  ASSUME NEW L \in Seq(Nat), NEW m \in Nat, NEW n \in Nat, m <= n, n <= Len(L),
         NEW a \in Nat, NEW b \in Nat, NEW c \in Nat, NEW d, d = a + b, NEW P, NEW Q, P # {},
         PageOf(L, P, m, a, b), PageOf(L, Q, n, d, c),
         NEW i \in 1 .. m, OlderThan(L, i, P), NewerThan(L, i, Q)
  PROVE  i \in Q
  <1>1. /\ 1 .. m \subseteq 1 .. n /\ IsFiniteSet(1 .. m) /\ IsFiniteSet(1 .. n)
        /\ Cardinality(1 .. m) = m /\ \A x \in 1 .. n : L[x] \in Nat
    <2>1. /\ IsFiniteSet(1 .. m) /\ IsFiniteSet(1 .. n) /\ Cardinality(1 .. m) = m
      BY FS_Interval
    <2>2. \A x \in 1 .. n : L[x] \in Nat
      OBVIOUS
    <2> QED
      BY <2>1, <2>2
  <1>2. PICK B \in SUBSET (1 .. m) :
          /\ Cardinality(B) = Least(a, m) /\ OnTop(L, B, 1 .. m)
          /\ P \subseteq (1 .. m) \ B
          /\ Cardinality(P) = Least(b, m - Cardinality(B)) /\ OnTop(L, P, (1 .. m) \ B)
    BY DEF PageOf
  <1>3. PICK C \in SUBSET (1 .. n) :
          /\ Cardinality(C) = Least(d, n) /\ OnTop(L, C, 1 .. n)
          /\ Q \subseteq (1 .. n) \ C
          /\ Cardinality(Q) = Least(c, n - Cardinality(C)) /\ OnTop(L, Q, (1 .. n) \ C)
    BY DEF PageOf
  <1>4. \A x \in B \cup P : L[i] < L[x]
    <2>1. PICK j \in P : L[i] < L[j]
      BY DEF OlderThan
    <2>2. j \in (1 .. m) \ B /\ L[j] \in Nat /\ L[i] \in Nat /\ \A x \in B : L[x] \in Nat
      BY <1>1, <1>2
    <2>3. \A x \in B : L[j] <= L[x]
      BY <1>2, <2>2 DEF OnTop
    <2>4. ASSUME NEW x \in B PROVE L[i] < L[x]
      <3> DEFINE u == L[i]
                 v == L[j]
                 w == L[x]
      <3>1. u \in Nat /\ v \in Nat /\ w \in Nat /\ u < v /\ v <= w
        BY <2>1, <2>2, <2>3
      <3> HIDE DEF u, v, w
      <3>2. u < w
        BY <3>1
      <3> QED
        BY <3>2 DEF u, w
    <2>5. \A x \in P : L[i] < L[x]
      BY DEF OlderThan
    <2> QED
      BY <2>4, <2>5
  <1>5. i \notin B \cup P
    <2>1. L[i] \in Nat
      BY <1>1
    <2> QED
      BY <1>4, <2>1
  <1>6. Cardinality(B \cup P) = a + b
    <2>1. /\ IsFiniteSet(B) /\ IsFiniteSet(P) /\ IsFiniteSet(B \cup P)
          /\ B \cup P \subseteq 1 .. m
      BY <1>1, <1>2, FS_Subset, FS_Union
    <2>2. Cardinality(B \cup P) < m
      BY <1>1, <1>5, <2>1, SmallerSubset
    <2>3. /\ Cardinality(B) \in Nat /\ Cardinality(P) \in Nat
          /\ Cardinality(B \cup P) = Cardinality(B) + Cardinality(P)
      <3>1. B \cap P = {} /\ Cardinality({}) = 0
        BY <1>2, FS_EmptySet
      <3>2. Cardinality(B) \in Nat /\ Cardinality(P) \in Nat
        BY <2>1, FS_CardinalityType
      <3>3. Cardinality(B \cup P) = Cardinality(B) + Cardinality(P) - Cardinality({})
        BY <2>1, <3>1, FS_Union
      <3> QED
        BY <3>1, <3>2, <3>3
    <2> QED
      BY <1>2, <2>2, <2>3 DEF Least
  <1>7. i \notin C
    <2> SUFFICES ASSUME i \in C PROVE FALSE
      OBVIOUS
    <2>1. B \cup P \subseteq C
      <3> SUFFICES ASSUME NEW x \in B \cup P, x \notin C PROVE FALSE
        OBVIOUS
      <3>1. x \in 1 .. n /\ i \in 1 .. n
        BY <1>1, <1>2
      <3>2. L[x] <= L[i]
        BY <1>3, <3>1 DEF OnTop
      <3> QED
        BY <1>1, <1>4, <3>1, <3>2
    <2>2. IsFiniteSet(C)
      BY <1>1, <1>3, FS_Subset
    <2>3. Cardinality(B \cup P) < Cardinality(C) /\ Cardinality(C) \in Nat
      BY <1>5, <2>1, <2>2, SmallerSubset, FS_CardinalityType
    <2> QED
      BY <1>3, <1>6, <2>3 DEF Least
  <1>8. PICK j \in Q : L[j] < L[i]
    BY DEF NewerThan
  <1> QED
    BY <1>1, <1>3, <1>7, <1>8 DEF OnTop

LEMMA Division ==
  ASSUME NEW W \in Nat \ {0}, NEW o \in Int
  PROVE  o \div W \in Int /\ o = ((o \div W) * W) + (o % W) /\ o % W \in 0 .. W - 1
  OBVIOUS

LEMMA Remainders ==
  ASSUME NEW W \in Nat \ {0}, NEW o \in Int, NEW l \in Int, (o % W) + (l % W) < W
  PROVE  (o + l) % W = (o % W) + (l % W)
  <1> DEFINE a == o % W
             b == l % W
             s == (o + l) % W
  <1>1. a \in 0 .. W - 1 /\ b \in 0 .. W - 1 /\ s \in 0 .. W - 1 /\ a + b < W
    OBVIOUS
  <1>2. PICK x \in Int, y \in Int, z \in Int :
          o = x * W + a /\ l = y * W + b /\ o + l = z * W + s
    <2>1. o = ((o \div W) * W) + a /\ l = ((l \div W) * W) + b
      BY Division
    <2>2. o + l = (((o + l) \div W) * W) + s
      BY Division
    <2>3. o \div W \in Int /\ l \div W \in Int /\ (o + l) \div W \in Int
      BY Division
    <2> HIDE DEF a, b, s
    <2> QED
      BY <2>1, <2>2, <2>3
  <1>3. PICK k \in Int : k = x + y - z
    OBVIOUS
  <1>4. k * W = s - (a + b)
    <2>1. k * W = x * W + y * W - z * W
      BY <1>3
    <2>2. x * W \in Int /\ y * W \in Int /\ z * W \in Int
      OBVIOUS
    <2> DEFINE p == x * W
               q == y * W
               t == z * W
    <2> HIDE DEF p, q, t, a, b, s
    <2>3. p \in Int /\ q \in Int /\ t \in Int /\ k * W = p + q - t
      BY <2>1, <2>2 DEF p, q, t
    <2>4. o = p + a /\ l = q + b /\ o + l = t + s
      BY <1>2 DEF p, q, t
    <2> QED
      BY <1>1, <2>3, <2>4
  <1> HIDE DEF a, b, s
  <1>5. s - (a + b) < W /\ s - (a + b) > -W
    BY <1>1
  <1>6. k = 0
    <2>1. k >= 1 => k * W >= W
      OBVIOUS
    <2>2. k <= -1 => k * W <= -W
      OBVIOUS
    <2> QED
      BY <1>1, <1>4, <1>5, <2>1, <2>2
  <1>7. 0 = s - (a + b)
    BY <1>4, <1>6
  <1> QED
    BY <1>1, <1>7 DEF a, b, s

\* Numbers that the database accepts add up without wrapping around.
LEMMA OffsetsAdd ==
  ASSUME NEW o \in Int, NEW l \in Int, Int32(o) >= 0, Int32(l) >= 0, Int32(o + l) >= 0
  PROVE  /\ Int32(o) \in Nat /\ Int32(l) \in Nat
         /\ Int32(o + l) = Int32(o) + Int32(l)
  <1> DEFINE W == 2 * Half
             a == o % W
             b == l % W
             s == (o + l) % W
  <1>1. W \in Nat \ {0} /\ Half \in Nat \ {0} /\ W = Half + Half
    BY PagesAssumption
  <1>2. a \in 0 .. W - 1 /\ b \in 0 .. W - 1 /\ s \in 0 .. W - 1
    BY <1>1
  <1>3. a < Half /\ b < Half /\ s < Half
    BY <1>1, <1>2, PagesAssumption DEF Int32
  <1>4. s = a + b
    <2>1. a + b < W
      <3> HIDE DEF W, a, b
      <3> QED
        BY <1>1, <1>2, <1>3
    <2> HIDE DEF W
    <2> QED
      BY <1>1, <2>1, Remainders
  <1> QED
    BY <1>1, <1>2, <1>3, <1>4 DEF Int32

(***************************************************************************)
(* Answers.  ErrValidationFailed is made by ValidateBody alone.            *)
(***************************************************************************)
Error == (AppError \cup Plain) \ {"ErrValidationFailed"}

LEMMA StatusOfError ==
  ASSUME NEW e \in AppError
  PROVE  Status(e) \in {400, 401, 404, 500, 504}
  BY DEF Status, AppError

LEMMA SentErrors ==
  ASSUME NEW e \in AppError
  PROVE  /\ SendAppError(e) \in Answer /\ SendAppError(e).code = e
         /\ SendAppError(e).status \in {400, 401, 404, 500, 504}
  BY StatusOfError DEF SendAppError, Answer

LEMMA HandledErrors ==
  ASSUME NEW e \in Error
  PROVE  /\ ErrorHandler(e) \in Answer /\ ErrorHandler(e).code # "ErrValidationFailed"
         /\ ErrorHandler(e).status \in {400, 401, 404, 500, 504}
  <1>1. CASE e \in AppError
    BY <1>1, SentErrors DEF ErrorHandler, Error
  <1>2. CASE e \notin AppError
    BY <1>2 DEF ErrorHandler, Error, Plain, Answer
  <1> QED
    BY <1>1, <1>2

\* The failures of the handlers that write, and the gateway's when a call is broken off.
LEMMA InternalErrors ==
  /\ ErrorHandler("ErrInternal").status = 500 /\ ErrorHandler("Server").status = 500
  /\ SendAppError("ErrUpstreamUnreachable").status = 500
  /\ SendAppError("ErrUpstreamTimeout").status = 504
  /\ {"ErrInternal", "Server", "ErrInvalidJSON", "ErrNotFound", "ErrUpstreamUnreachable",
      "ErrUpstreamTimeout", "ErrTooManyRequests", "ErrInternalContextEncoding",
      "ErrInternalInvalidSignature"} \subseteq Error
  /\ {"ErrValidationFailed", "ErrInvalidJSON", "ErrNotFound", "ErrUpstreamUnreachable",
      "ErrUpstreamTimeout"} \subseteq AppError
  BY DEF ErrorHandler, SendAppError, Status, Error, AppError, BadRequest, Validation,
         Unauthorized, Internal, Timeout, NotFound, Plain

LEMMA BeforeRoutesErrors ==
  ASSUME NEW c \in Call, NEW L, NEW o
  PROVE  BeforeRoutes(c, L, o) \subseteq Error \cup {None}
  BY DEF BeforeRoutes, Limited, JWT, AuthRedisMiddleware, AuthRedis, Error, AppError, Plain,
         BadRequest, Unauthorized, Internal

\* What a handler answers, and what those that write answer when they fail.
Refusal == Error \cup {None}
Shaped(h) ==
  h.refusal \in Refusal /\ h.refusals \subseteq Error /\ h.failure \in Error /\ h.done \subseteq Success
FailsAsInternal(h) == h.refusals = {} /\ h.failure \in {"ErrInternal", "Server"}

LEMMA NamedErrors ==
  /\ BadRequest \subseteq Error /\ Unauthorized \subseteq Error /\ Internal \subseteq Error
  /\ Plain \subseteq Error /\ Validation \ {"ErrValidationFailed"} \subseteq Error
  /\ None \in Refusal /\ Error \subseteq Refusal /\ {200, 201, 204} \subseteq Success
  BY DEF Error, AppError, BadRequest, Validation, Unauthorized, Internal, Plain, Refusal, Success

LEMMA ChecksShaped ==
  ASSUME NEW c, NEW f, NEW h
  PROVE  /\ \A a \in Refusal, b \in Refusal : Then(a, b) \in Refusal
         /\ \A e \in Error : Need(f, h, e) \in Refusal
         /\ \A e \in Error : Parses(c, e) \in Refusal /\ Complete(c, e) \in Refusal
         /\ MustFromFiber(f) \in Refusal /\ MustBeUser(f) \in Refusal
         /\ GetUserID(f) \in Refusal /\ ParseUUID(c) \in Refusal
  <1>1. {"Panic", "ErrUnauthorized", "ErrInvalidToken", "ErrInvalidRequest"} \subseteq Error
    BY NamedErrors DEF Plain, Unauthorized, Validation
  <1> QED
    BY <1>1 DEF Refusal, Then, Need, Parses, Complete, MustFromFiber, MustBeUser, GetUserID,
                ParseUUID

LEMMA OrInternalShaped ==
  ASSUME NEW a \in Refusal, NEW S \in SUBSET Error, NEW D \in SUBSET Success
  PROVE  Shaped(OrInternal(a, S, D)) /\ (S = {} => FailsAsInternal(OrInternal(a, S, D)))
  BY NamedErrors DEF OrInternal, Shaped, FailsAsInternal, Internal

LEMMA OrServerErrorShaped ==
  ASSUME NEW a \in Refusal, NEW D \in SUBSET Success
  PROVE  Shaped(OrServerError(a, D)) /\ FailsAsInternal(OrServerError(a, D))
  BY NamedErrors DEF OrServerError, Shaped, FailsAsInternal, Plain

LEMMA NotificationRoutesShaped ==
  ASSUME NEW c, c.e \in Notifications, NEW f
  PROVE  LET h == NotificationRoutes(c, f) IN Shaped(h) /\ FailsAsInternal(h)
  <1>1. /\ GetUserID(f) \in Refusal /\ Then(ParseUUID(c), GetUserID(f)) \in Refusal
        /\ Parses(c, "ErrInvalidJSON") \in Refusal
    BY ChecksShaped, NamedErrors DEF BadRequest
  <1>2. {} \in SUBSET Error /\ {200} \in SUBSET Success /\ {201} \in SUBSET Success
        /\ {204} \in SUBSET Success
    BY DEF Success
  <1>3. NotificationRoutes(c, f) \in
          {OrInternal(a, {}, D) : a \in Refusal, D \in SUBSET Success}
    <2> SUFFICES ASSUME NEW h, h = NotificationRoutes(c, f)
                 PROVE  \E a \in Refusal, D \in SUBSET Success : h = OrInternal(a, {}, D)
      OBVIOUS
    <2>1. \/ c.e = "list" /\ h = OrInternal(GetUserID(f), {}, {200})
          \/ c.e = "send" /\ h = OrInternal(Parses(c, "ErrInvalidJSON"), {}, {201})
          \/ c.e \in {"readAll", "clearTrash"} /\ h = OrInternal(GetUserID(f), {}, {204})
          \/ c.e \in NamedNotification
             /\ h = OrInternal(Then(ParseUUID(c), GetUserID(f)), {}, {204})
      BY DEF NotificationRoutes, Notifications, NamedNotification, ListMyNotificationsHandler,
             SendNotificationHandler, MarkAsReadHandler, MarkAllAsReadHandler,
             MoveToTrashHandler, ClearTrashHandler, RestoreFromTrashHandler,
             DeletePermanentlyHandler
    <2> QED
      BY <1>1, <1>2, <2>1
  <1> QED
    BY <1>2, <1>3, OrInternalShaped

LEMMA DocsRoutesShaped ==
  ASSUME NEW c, c.e \in Documents, NEW f
  PROVE  LET h == DocsRoutes(c, f) IN Shaped(h) /\ FailsAsInternal(h)
  <1>1. /\ Complete(c, "BadRequest") \in Refusal /\ Need(f, "profile", "Unauthorized") \in Refusal
        /\ {200} \in SUBSET Success /\ {201} \in SUBSET Success
    BY ChecksShaped, NamedErrors DEF Plain, Success
  <1> QED
    BY <1>1, OrServerErrorShaped DEF DocsRoutes, CreateDocumentHandler, GetDocumentsMeHandler

LEMMA AuditRoutesShaped ==
  ASSUME NEW c, c.e \in Audit
  PROVE  Shaped(AuditRoutes(c))
  <1>1. /\ Complete(c, "BadRequest") \in Refusal /\ None \in Refusal
        /\ {200} \in SUBSET Success
    BY ChecksShaped, NamedErrors DEF Plain, Success
  <1>2. CASE c.e = "auditEntry"
    <2>1. "NotFound" \in Error
      BY NamedErrors DEF Plain
    <2> QED
      BY <1>1, <1>2, <2>1 DEF AuditRoutes, GetLogDetailsHandler, Shaped
  <1>3. CASE c.e \in {"auditList", "auditOfUser", "auditOfAction"}
    BY <1>1, <1>3, OrServerErrorShaped DEF AuditRoutes, ListLogsHandler, ListUserLogsHandler,
       ListLogsByActionHandler
  <1> QED
    BY <1>2, <1>3 DEF Audit

LEMMA AuthRoutesShaped ==
  ASSUME NEW c, NEW f,
         c.e \in {"login", "twoFaVerify", "register", "refresh", "logout", "registerDevice",
                  "verifyDevice", "resetSend", "resetVerify", "resetFinal"}
  PROVE  /\ Shaped(AuthRoutes(c, f))
         /\ c.e = "register" => FailsAsInternal(AuthRoutes(c, f))
  <1> DEFINE Made == {OrInternal(a, S, D) : a \in Refusal, S \in SUBSET Error,
                                            D \in SUBSET Success}
  <1>1. \A h \in Made : Shaped(h)
    BY OrInternalShaped
  <1>2. ASSUME NEW a \in Refusal, NEW S \in SUBSET Error, NEW D \in {{}, {200}, {201}}
        PROVE  OrInternal(a, S, D) \in Made
    BY DEF Success
  <1> HIDE DEF Made
  <1>3. None \in Refusal /\ "Panic" \in Refusal
    BY NamedErrors DEF Plain
  <1>4. CASE c.e = "login"
    <2>1. {"ErrInvalidCredentials", "ErrAccountLocked", "ErrAccountBanned", "ErrAccountPending",
           "ErrAccountTemporarilyLocked", "ErrInvalidDeviceFingerprint"} \subseteq Error
      BY NamedErrors DEF Unauthorized, BadRequest
    <2>2. Then(MustFromFiber(f), Need(f, "fingerprint", "ErrInvalidDeviceFingerprint")) \in Refusal
      BY <2>1, ChecksShaped
    <2>3. LoginHandler(f) \in Made
      BY <1>2, <2>1, <2>2 DEF LoginHandler
    <2> QED
      BY <1>1, <1>4, <2>3 DEF AuthRoutes
  <1>5. CASE c.e = "twoFaVerify"
    <2>1. {"ErrInvalidCredentials", "Err2FALocked", "ErrInvalid2FACode"} \subseteq Error
      BY NamedErrors DEF Unauthorized, Validation
    <2> QED
      BY <1>1, <1>2, <1>3, <1>5, <2>1 DEF AuthRoutes, Verify2FAHandler
  <1>6. CASE c.e = "register"
    BY <1>1, <1>2, <1>3, <1>6, OrInternalShaped DEF AuthRoutes, RegisterHandler, Success
  <1>7. CASE c.e = "refresh"
    <2>1. Need(f, "fingerprint", "ErrInvalidToken") \in Refusal /\ "ErrInvalidToken" \in Error
      BY ChecksShaped, NamedErrors DEF Unauthorized
    <2> QED
      BY <1>1, <1>2, <1>7, <2>1 DEF AuthRoutes, RefreshTokenHandler
  <1>8. CASE c.e = "logout"
    <2>1. {"BadRequest", "ErrUnauthorized"} \subseteq Error
      BY NamedErrors DEF Unauthorized, Plain
    <2>2. Then(MustBeUser(f), Need(f, "session", "BadRequest")) \in Refusal
      BY <2>1, ChecksShaped
    <2> QED
      BY <1>1, <1>2, <1>8, <2>1, <2>2 DEF AuthRoutes, LogoutHandler
  <1>9. CASE c.e = "registerDevice"
    <2>1. {"ErrSessionExpired", "ErrInvalidPairingData", "ErrVerificationFailed",
           "ErrInvalidDeviceFingerprint"} \subseteq Error
      BY NamedErrors DEF Unauthorized, Validation, BadRequest
    <2>2. MustBeUser(f) \in Refusal
      BY ChecksShaped
    <2> QED
      BY <1>1, <1>2, <1>9, <2>1, <2>2 DEF AuthRoutes, RegisterDeviceHandler
  <1>10. CASE c.e = "verifyDevice"
    <2>1. "ErrInvalidChallenge" \in Error
      BY NamedErrors DEF Unauthorized
    <2> QED
      BY <1>1, <1>2, <1>3, <1>10, <2>1 DEF AuthRoutes, VerifyDeviceHandler
  <1>11. CASE c.e \in {"resetSend", "resetVerify", "resetFinal"}
    <2>1. {"ErrEmailIsSendIfExists", "ErrResetSessionNotFound", "Err2FALocked",
           "ErrInvalidResetCode", "ErrUnauthorized", "ErrUntrustedDevice",
           "ErrVerificationFailed", "ErrUserNotFound"} \subseteq Error
      BY NamedErrors DEF Unauthorized, Validation, BadRequest
    <2>2. SendResetCodeHandler \in Made
      BY <1>2, <1>3, <2>1 DEF SendResetCodeHandler
    <2>3. VerifyResetCodeHandler \in Made
      BY <1>2, <1>3, <2>1 DEF VerifyResetCodeHandler
    <2>4. FinalizeResetHandler \in Made
      BY <1>2, <1>3, <2>1 DEF FinalizeResetHandler
    <2> QED
      BY <1>1, <1>11, <2>2, <2>3, <2>4 DEF AuthRoutes
  <1> QED
    BY <1>4, <1>5, <1>6, <1>7, <1>8, <1>9, <1>10, <1>11

LEMMA UserRoutesShaped ==
  ASSUME NEW c, NEW f
  PROVE  Shaped(UserRoutes(c, f))
  <1>1. GetUserID(f) \in Refusal /\ Then(GetUserID(f), Parses(c, "ErrInvalidRequest")) \in Refusal
    BY ChecksShaped, NamedErrors DEF Validation
  <1> QED
    BY <1>1, OrInternalShaped
    DEF UserRoutes, GetSessionsHandler, TerminateSessionHandler, Success

LEMMA HandlerShaped ==
  ASSUME NEW c \in Call, c.e # "twoFaResend", NEW f
  PROVE  /\ Shaped(Handler(c, f))
         /\ c.e \in Writes => FailsAsInternal(Handler(c, f))
  <1> DEFINE AuthOnly == {"login", "twoFaVerify", "register", "refresh", "logout",
        "registerDevice", "verifyDevice", "resetSend", "resetVerify", "resetFinal"}
             Others == AuthOnly \cup {"sessions", "terminate"}
  <1>1. c.e \in Notifications \cup Documents \cup Audit \cup Others
    BY DEF Call, Operations, SecureProxied, PlainProxied, Unrouted
  <1>2. CASE c.e \in Notifications
    <2>1. Handler(c, f) = NotificationRoutes(c, f)
      BY <1>2 DEF Handler, To, Audit, Documents, Notifications, NamedNotification
    <2> QED
      BY <1>2, <2>1, NotificationRoutesShaped
  <1>3. CASE c.e \in Documents
    <2>1. Handler(c, f) = DocsRoutes(c, f)
      BY <1>3 DEF Handler, To, Audit, Documents, Notifications, NamedNotification
    <2> QED
      BY <1>3, <2>1, DocsRoutesShaped
  <1>4. CASE c.e \in Audit
    <2>1. Handler(c, f) = AuditRoutes(c) /\ c.e \notin Writes
      BY <1>4 DEF Handler, To, Audit, Documents, Notifications, NamedNotification, Writes
    <2> QED
      BY <1>4, <2>1, AuditRoutesShaped
  <1>5. CASE c.e \in {"sessions", "terminate"}
    <2>1. Handler(c, f) = UserRoutes(c, f) /\ c.e \notin Writes
      BY <1>5 DEF Handler, To, Audit, Documents, Notifications, NamedNotification, Writes
    <2> QED
      BY <2>1, UserRoutesShaped
  <1>6. CASE c.e \in AuthOnly
    <2>1. Handler(c, f) = AuthRoutes(c, f) /\ (c.e \in Writes => c.e = "register")
      BY <1>6 DEF Handler, To, Audit, Documents, Notifications, NamedNotification, Writes
    <2> QED
      BY <1>6, <2>1, AuthRoutesShaped
  <1> QED
    BY <1>1, <1>2, <1>3, <1>4, <1>5, <1>6

(***************************************************************************)
(* Types, and where a request can be at the gateway when it is somewhere   *)
(* at its service.                                                         *)
(***************************************************************************)
FlowOf(r) ==
  /\ at[r] = "idle" <=> call[r] = None
  /\ at[r] \in {"idle", "gate", "route", "invalid"} => sv[r] = "none"
  /\ at[r] \in {"gate", "route", "invalid"} => ~IsDirect(r)
  /\ at[r] = "wait" => sv[r] # "none"
  /\ sv[r] # "none" => Op(r) \notin Unrouted \ Direct
  /\ sv[r] # "none" /\ ~IsDirect(r) => ~Unparsable(call[r]) /\ ~BreaksSchema(call[r])
  /\ sv[r] \in {"arrived", "invalid", "work"} /\ IsDirect(r) => at[r] = "wait"
  /\ ans[r] # None => at[r] = "done"
  /\ sv[r] = "replied" => reply[r] # None
  /\ sv[r] = "none" => runs[r] = 0

Flow == \A r \in Request : FlowOf(r)

LEMMA AnswersTyped ==
  ASSUME NEW a \in Answer, NEW q \in Request \cup {None}
  PROVE  /\ With(a, q) \in AnswerOf /\ With(a, q) # None
         /\ With(a, q).status = a.status /\ With(a, q).code = a.code /\ With(a, q).meta = q
  <1>1. With(a, q) \in AnswerOf
    BY DEF AnswerOf
  <1>2. With(a, q) # None
    BY <1>1, NoneAssumption
  <1> QED
    BY <1>1, <1>2 DEF With

LEMMA AnsweredEffect ==
  ASSUME TypeOK, NEW r \in Request, NEW a \in Answer, NEW q \in Request \cup {None},
         Answered(r, a, q)
  PROVE  /\ at' \in [Request -> At] /\ ans' \in [Request -> AnswerOf \cup {None}]
         /\ at'[r] = "done" /\ ans'[r] = With(a, q) /\ ans'[r] # None
         /\ ans'[r].status = a.status /\ ans'[r].code = a.code /\ ans'[r].meta = q
         /\ \A x \in Request \ {r} : at'[x] = at[x] /\ ans'[x] = ans[x]
  BY AnswersTyped DEF TypeOK, Answered, Move, At

LEMMA RepliedEffect ==
  ASSUME TypeOK, NEW r \in Request, NEW a \in Answer, NEW q \in Request \cup {None},
         Replied(r, a, q)
  PROVE  /\ sv' \in [Request -> Sv] /\ reply' \in [Request -> AnswerOf \cup {None}]
         /\ sv'[r] = "replied" /\ reply'[r] = With(a, q) /\ reply'[r] # None
         /\ reply'[r].status = a.status /\ reply'[r].code = a.code /\ reply'[r].meta = q
         /\ \A x \in Request \ {r} : sv'[x] = sv[x] /\ reply'[x] = reply[x]
  BY AnswersTyped DEF TypeOK, Replied, Move, Sv

LEMMA ProcessesTyped ==
  /\ "gateway" \in Process /\ "auth" \in Process /\ "audit" \in Process
  /\ \A e : To(e) \in Process
  BY PlansAssumption DEF Processes, To

\* A call is typed once it is sent.
LEMMA CallTyped ==
  ASSUME TypeOK, Flow, NEW r \in Request, sv[r] # "none" \/ at[r] # "idle"
  PROVE  call[r] \in Call
  BY DEF TypeOK, Flow, FlowOf

(***************************************************************************)
(* The tables.                                                             *)
(***************************************************************************)

\* Every statement but the insert matches rows that are not in the trash.
Rewritten(S, F(_)) == row' = [i \in Id |-> IF i \in S THEN F(row[i]) ELSE row[i]]
Outside == {i \in Id : row[i] \in Row /\ ~row[i].trashed}

\* A statement of a request is a statement of the store, or it matches no row.
LEMMA StatementsOfStore ==
  ASSUME StoreTypeOK, NEW c \in Call, OnNotifications(c)
  PROVE  [StoreNext]_row
  <1>1. c.user \in User /\ (c.id \in Id \/ c.id = None)
    BY DEF Call
  <1>2. CASE c.e \in {"readAll", "clearTrash"}
    BY <1>1, <1>2 DEF OnNotifications, StoreNext, StoreStep
  <1>3. CASE c.e \in {"read", "trash", "restore", "delete"}
    <2>1. CASE c.id \in Id
      BY <1>1, <1>3, <2>1 DEF OnNotifications, StoreNext, StoreStep
    <2>2. CASE c.id \notin Id
      <3>1. Matching(c.user, LAMBDA j : j = c.id) = {}
        BY <2>2 DEF Matching
      <3>2. row' = [i \in Id |-> row[i]]
        BY <1>3, <3>1
        DEF OnNotifications, MarkAsRead, MoveToTrash, RestoreFromTrash, DeletePermanently, Set
      <3>3. row' = row
        BY <3>2 DEF StoreTypeOK
      <3> QED
        BY <3>3
    <2> QED
      BY <2>1, <2>2
  <1>4. CASE c.e = "send"
    <2>1. PICK u \in User : Create(c.id, u)
      BY <1>4 DEF OnNotifications
    <2>2. CASE c.id \in Id
      BY <2>1, <2>2 DEF StoreNext
    <2>3. CASE c.id \notin Id
      <3>1. row' = row
        BY <2>1, <2>3 DEF Create, StoreTypeOK
      <3> QED
        BY <3>1
    <2> QED
      BY <2>2, <2>3
  <1>5. CASE c.e \notin {"read", "trash", "restore", "delete", "readAll", "clearTrash", "send"}
    BY <1>5 DEF OnNotifications
  <1> QED
    BY <1>2, <1>3, <1>4, <1>5

LEMMA RowsOfStatement ==
  ASSUME StoreTypeOK, [StoreNext]_row
  PROVE  /\ StoreTypeOK'
         /\ \A i \in Id : Exists(i) => row'[i] # NoRow /\ row'[i].user = row[i].user
         /\ \A i \in Id : Exists(i) /\ row[i].trashed => row'[i] = row[i]
  <1>1. \A i \in Id : row[i] \in Row \/ row[i] = NoRow
    BY DEF StoreTypeOK
  <1>2. NoRow \notin Row
    BY NoRowAssumption DEF Row
  <1>3. \A x \in Row : /\ Read(x) \in Row /\ Trashed(x) \in Row /\ Restored(x) \in Row
                       /\ Read(x).user = x.user /\ Trashed(x).user = x.user
                       /\ Restored(x).user = x.user
    BY DEF Row, Read, Trashed, Restored
  <1>4. CASE row' = row
    BY <1>1, <1>2, <1>4 DEF StoreTypeOK, Exists
  <1>5. ASSUME NEW i \in Id, NEW u \in User, Create(i, u)
        PROVE  /\ StoreTypeOK'
               /\ \A j \in Id : Exists(j) => row'[j] = row[j]
    BY <1>5 DEF Create, StoreTypeOK, Row, Exists
  <1>6. ASSUME NEW u \in User, StoreStep(u)
        PROVE  \E S \in SUBSET Outside :
                 Rewritten(S, Read) \/ Rewritten(S, Trashed) \/ Rewritten(S, Restored)
    <2>1. \A i \in Id : Owned(i, u) /\ Visible(i) => i \in Outside
      BY <1>1 DEF Owned, Exists, Visible, Outside
    <2>2. CASE MarkAllAsRead(u)
      BY <2>1, <2>2 DEF MarkAllAsRead, Set, Rewritten, Matching
    <2>3. CASE HardDeleteTrash(u)
      BY <2>1, <2>3 DEF HardDeleteTrash, Set, Rewritten, Matching
    <2>4. ASSUME NEW i \in Id, \/ MarkAsRead(i, u) \/ MoveToTrash(i, u)
                               \/ RestoreFromTrash(i, u) \/ DeletePermanently(i, u)
          PROVE  \E S \in SUBSET Outside :
                   Rewritten(S, Read) \/ Rewritten(S, Trashed) \/ Rewritten(S, Restored)
      <3>1. PICK S : S = {j \in Id : Owned(j, u) /\ Visible(j) /\ j = i}
        OBVIOUS
      <3>2. Rewritten(S, Read) \/ Rewritten(S, Trashed) \/ Rewritten(S, Restored)
        BY <2>4, <3>1 DEF MarkAsRead, MoveToTrash, RestoreFromTrash, DeletePermanently, Set,
           Matching, Rewritten
      <3> QED
        BY <2>1, <3>1, <3>2
    <2> QED
      BY <1>6, <2>2, <2>3, <2>4 DEF StoreStep
  <1>7. ASSUME NEW S \in SUBSET Outside,
               Rewritten(S, Read) \/ Rewritten(S, Trashed) \/ Rewritten(S, Restored)
        PROVE  /\ StoreTypeOK'
               /\ \A i \in Id : Exists(i) => row'[i] # NoRow /\ row'[i].user = row[i].user
               /\ \A i \in Id : Exists(i) /\ row[i].trashed => row'[i] = row[i]
    <2>1. ASSUME NEW i \in Id
          PROVE  /\ row'[i] \in Row \cup {NoRow}
                 /\ Exists(i) => row'[i] \in Row /\ row'[i].user = row[i].user
                 /\ Exists(i) /\ row[i].trashed => row'[i] = row[i]
      BY <1>1, <1>3, <1>7 DEF Rewritten, Exists, Outside
    <2>2. row' = [i \in Id |-> row'[i]]
      BY <1>7 DEF Rewritten
    <2> QED
      BY <1>2, <2>1, <2>2 DEF StoreTypeOK
  <1> QED
    BY <1>1, <1>2, <1>4, <1>5, <1>6, <1>7 DEF StoreNext, Exists

LEMMA StoreKeepsType ==
  ASSUME StoreTypeOK, NEW c \in Call, OnNotifications(c)
  PROVE  StoreTypeOK'
  BY StatementsOfStore, RowsOfStatement

LEMMA BoundsTyped ==
  ASSUME NEW c \in Call
  PROVE  Limit(c) \in Int /\ Offset(c) \in Int
  BY PagesAssumption DEF Call, Limit, Offset, Asked

LEMMA PagesTyped ==
  ASSUME TypeOK, NEW r \in Request, call[r] \in Call, OnPages(r)
  PROVE  page' \in [Request -> [rows : SUBSET (Id \cup Nat), of : Nat]]
  <1>1. page \in [Request -> [rows : SUBSET (Id \cup Nat), of : Nat]]
    BY DEF TypeOK
  <1>2. CASE Op(r) = "auditList"
    <2>1. PICK s \in GetAllLogs(Limit(call[r]), Offset(call[r])) :
            page' = Move(page, r, [rows |-> s, of |-> Len(log)])
      BY <1>2 DEF OnPages
    <2>2. s \subseteq 1 .. Len(log) /\ Len(log) \in Nat
      BY BoundsTyped, QueryReturnsPage DEF TypeOK, LogTypeOK
    <2>3. [rows |-> s, of |-> Len(log)] \in [rows : SUBSET (Id \cup Nat), of : Nat]
      BY <2>2
    <2> QED
      BY <1>1, <2>1, <2>3 DEF Move
  <1>3. CASE Op(r) = "list"
    <2>1. GetByUserID(call[r].user) \subseteq Id
      BY DEF GetByUserID, Matching
    <2>2. page' = Move(page, r, [rows |-> GetByUserID(call[r].user), of |-> 0])
      BY <1>3 DEF OnPages
    <2> QED
      BY <1>1, <2>1, <2>2 DEF Move
  <1>4. CASE Op(r) \notin {"auditList", "list"}
    BY <1>1, <1>4 DEF OnPages
  <1> QED
    BY <1>2, <1>3, <1>4

LEMMA EffectTyped ==
  ASSUME TypeOK, NEW r \in Request, call[r] \in Call, Effect(r)
  PROVE  /\ StoreTypeOK' /\ LogTypeOK' /\ live' \subseteq live
         /\ runs' \in [Request -> 0 .. MaxRuns]
         /\ page' \in [Request -> [rows : SUBSET (Id \cup Nat), of : Nat]]
         /\ \A x \in Request \ {r} : runs'[x] = runs[x]
         /\ runs'[r] = IF runs[r] < MaxRuns THEN runs[r] + 1 ELSE runs[r]
  <1>1. StoreTypeOK'
    BY StoreKeepsType DEF Effect, TypeOK
  <1>2. page' \in [Request -> [rows : SUBSET (Id \cup Nat), of : Nat]]
    BY PagesTyped DEF Effect
  <1>3. /\ LogTypeOK' /\ live' \subseteq live /\ runs' \in [Request -> 0 .. MaxRuns]
        /\ \A x \in Request \ {r} : runs'[x] = runs[x]
        /\ runs'[r] = IF runs[r] < MaxRuns THEN runs[r] + 1 ELSE runs[r]
    BY DEF Effect, TypeOK, LogTypeOK, Move, MaxRuns
  <1> QED
    BY <1>1, <1>2, <1>3

LEMMA TypesInit == Init => TypeOK /\ Flow
  <1> SUFFICES ASSUME Init PROVE TypeOK /\ Flow
    OBVIOUS
  <1>1. /\ Plans[plan].calls \in [Request -> SUBSET Call]
        /\ Plans[plan].rows \in [Id -> Row \cup {NoRow}]
        /\ Plans[plan].live \subseteq Key
        /\ Plans[plan].log \in Seq(Nat)
        /\ Plans[plan].proc \in [Process -> {"down", "up"}]
    BY PlansAssumption DEF Init
  <1>2. RunnerTypeOK
    BY <1>1 DEF Init, RunnerInit, RunnerTypeOK, ProcState
  <1>3. StoreTypeOK /\ LogTypeOK
    BY <1>1 DEF Init, StoreTypeOK, LogTypeOK
  <1>4. TypeOK
    BY <1>1, <1>2, <1>3 DEF Init, TypeOK, At, Sv, MaxRuns
  <1>5. Flow
    BY DEF Init, Flow, FlowOf
  <1> QED
    BY <1>4, <1>5

\* Steps that leave the tables and the processes alone.
LEMMA OnlyRequests ==
  ASSUME TypeOK, UNCHANGED <<plan, data, runnerVars>>,
         call' \in [Request -> Call \cup {None}],
         at' \in [Request -> At], sv' \in [Request -> Sv],
         ans' \in [Request -> AnswerOf \cup {None}], reply' \in [Request -> AnswerOf \cup {None}],
         meta' \in [Process -> Request \cup {None}],
         seen' \in [Request -> SUBSET Request], gone' \in [Request -> BOOLEAN]
  PROVE  TypeOK'
  BY DEF TypeOK, data, runnerVars, RunnerTypeOK, StoreTypeOK, LogTypeOK

LEMMA SendTypes ==
  ASSUME TypeOK, Flow, NEW r \in Request, Send(r)
  PROVE  TypeOK' /\ Flow'
  <1>1. PICK c \in Plans[plan].calls[r] :
          /\ call' = Move(call, r, c)
          /\ gone' = Move(gone, r, c.e \notin Public \cup Direct
                                   /\ <<c.user, SessionKey(c.e)>> \notin live)
          /\ IF c.e \in Direct
             THEN at' = Move(at, r, "wait") /\ sv' = Move(sv, r, "arrived")
             ELSE at' = Move(at, r, "gate") /\ UNCHANGED sv
    BY DEF Send
  <1>2. c \in Call /\ c # None
    BY PlansAssumption, NoneAssumption DEF TypeOK
  <1>3. /\ call' \in [Request -> Call \cup {None}]
        /\ at' \in [Request -> At] /\ sv' \in [Request -> Sv]
        /\ seen' \in [Request -> SUBSET Request] /\ gone' \in [Request -> BOOLEAN]
    <2>1. call' \in [Request -> Call \cup {None}]
      BY <1>1, <1>2 DEF TypeOK, Move
    <2>2. at' \in [Request -> At] /\ sv' \in [Request -> Sv]
      BY <1>1 DEF TypeOK, Move, At, Sv
    <2>3. seen' \in [Request -> SUBSET Request]
      BY DEF Send, TypeOK, Move
    <2>4. gone' \in [Request -> BOOLEAN]
      BY <1>1 DEF TypeOK, Move
    <2> QED
      BY <2>1, <2>2, <2>3, <2>4
  <1>4. TypeOK'
    BY <1>3, OnlyRequests DEF Send, TypeOK
  <1>5. ASSUME NEW x \in Request, x # r PROVE FlowOf(x)'
    <2>1. /\ call'[x] = call[x] /\ at'[x] = at[x] /\ sv'[x] = sv[x]
          /\ UNCHANGED <<ans, reply, runs>> /\ FlowOf(x)
      BY <1>1, <1>5 DEF Send, TypeOK, Move, data, Flow
    <2> QED
      BY <2>1 DEF FlowOf, Op, IsDirect
  <1>6. FlowOf(r)'
    <2>1. /\ call'[r] = c /\ at[r] = "idle" /\ UNCHANGED <<ans, reply, runs>> /\ FlowOf(r)
          /\ c.e \in Direct => at'[r] = "wait" /\ sv'[r] = "arrived"
          /\ c.e \notin Direct => at'[r] = "gate" /\ sv'[r] = sv[r]
      BY <1>1 DEF Send, TypeOK, Move, data, Flow
    <2> QED
      BY <1>2, <2>1 DEF FlowOf, Op, IsDirect
  <1> QED
    BY <1>4, <1>5, <1>6 DEF Flow

(***************************************************************************)
(* The kinds of steps.  The gateway answers, never with a success of its   *)
(* own; a service replies, with its work done or not.                      *)
(***************************************************************************)
GatewayAnswers(r) ==
  \E a \in Answer, q \in Request \cup {None} :
    /\ Answered(r, a, q)
    /\ at[r] \in {"gate", "route", "invalid", "wait"} /\ ~IsDirect(r)
    /\ a.status \notin Success
    /\ at[r] = "wait" => a.status \in {500, 504}
    /\ a.code = "ErrValidationFailed" => at[r] = "invalid" /\ q = meta["gateway"]
    /\ UNCHANGED <<plan, clientVars, sv, reply, meta, data, runnerVars>>

GatewayPasses(r) ==
  /\ at[r] = "gate" /\ None \in BeforeRoutes(call[r], live, Open("gateway"))
  /\ at' = Move(at, r, "route")
  /\ UNCHANGED <<plan, clientVars, sv, ans, reply, meta, data, runnerVars>>

Forwards(r) ==
  /\ at[r] = "route" /\ Op(r) \notin Unrouted /\ ~Unparsable(call[r]) /\ ~BreaksSchema(call[r])
  /\ Reaches(Service(r))
  /\ at' = Move(at, r, "wait") /\ sv' = Move(sv, r, "arrived")
  /\ UNCHANGED <<plan, clientVars, ans, reply, meta, data, runnerVars>>

ServiceReplies(r) ==
  \E a \in Answer, q \in Request \cup {None} :
    /\ Replied(r, a, q)
    /\ sv[r] \in {"arrived", "invalid", "work"}
    /\ \/ UNCHANGED data /\ a.status \notin Success
       \/ sv[r] = "work" /\ Effect(r) /\ (Op(r) \in Writes => a.status \in Success \cup {500})
    /\ a.code = "ErrValidationFailed" => sv[r] = "invalid" /\ q = meta[Service(r)]
    /\ UNCHANGED <<plan, clientVars, at, ans, meta, runnerVars>>

ServiceBegins(r) ==
  /\ sv[r] = "arrived"
  /\ sv' = Move(sv, r, "work")
  /\ UNCHANGED <<plan, clientVars, at, ans, reply, meta, data, runnerVars>>

LEMMA GateKind ==
  ASSUME TypeOK, Flow, NEW r \in Request, Gate(r)
  PROVE  GatewayAnswers(r) \/ GatewayPasses(r)
  <1>1. call[r] \in Call /\ ~IsDirect(r) /\ at[r] = "gate"
    BY CallTyped DEF Gate, Flow, FlowOf
  <1>2. PICK e \in BeforeRoutes(call[r], live, Open("gateway")) :
          IF e = None THEN at' = Move(at, r, "route") /\ UNCHANGED ans
          ELSE Answered(r, ErrorHandler(e), None)
    BY DEF Gate
  <1>3. CASE e = None
    BY <1>1, <1>2, <1>3 DEF Gate, GatewayPasses
  <1>4. CASE e # None
    <2>1. e \in Error
      BY <1>1, <1>4, BeforeRoutesErrors
    <2> QED
      BY <1>1, <1>2, <1>4, <2>1, HandledErrors DEF Gate, GatewayAnswers, Success
  <1> QED
    BY <1>3, <1>4

LEMMA RouteKinds ==
  ASSUME TypeOK, Flow, NEW r \in Request
  PROVE  /\ RouteRefuses(r) => GatewayAnswers(r)
         /\ AnswerInvalid(r) => GatewayAnswers(r)
         /\ Forward(r) => GatewayAnswers(r) \/ Forwards(r)
         /\ TimeOut(r) => GatewayAnswers(r)
         /\ CutShort(r) => GatewayAnswers(r)
  <1>1. at[r] \in {"route", "invalid"} => ~IsDirect(r)
    BY DEF Flow, FlowOf
  <1>2. meta["gateway"] \in Request \cup {None}
    BY ProcessesTyped DEF TypeOK
  <1>3. \A e \in AppError : /\ SendAppError(e) \in Answer /\ SendAppError(e).code = e
                            /\ SendAppError(e).status \notin Success
    BY SentErrors DEF Success
  <1>4. RouteRefuses(r) => GatewayAnswers(r)
    BY <1>1, <1>3, InternalErrors DEF RouteRefuses, GatewayAnswers
  <1>5. AnswerInvalid(r) => GatewayAnswers(r)
    BY <1>1, <1>2, <1>3, InternalErrors DEF AnswerInvalid, GatewayAnswers
  <1>6. Forward(r) => GatewayAnswers(r) \/ Forwards(r)
    BY <1>1, <1>3, InternalErrors DEF Forward, Forwards, GatewayAnswers
  <1>7. TimeOut(r) => GatewayAnswers(r)
    BY <1>3, InternalErrors DEF TimeOut, GatewayAnswers
  <1>8. CutShort(r) => GatewayAnswers(r)
    <2> SUFFICES ASSUME CutShort(r) PROVE GatewayAnswers(r)
      OBVIOUS
    <2>1. "Server" \in Error /\ "ErrUpstreamUnreachable" \in AppError
      BY InternalErrors
    <2>2. PICK a \in {SendAppError("ErrUpstreamUnreachable"), ErrorHandler("Server")} :
            Answered(r, a, None)
      BY DEF CutShort
    <2>3. /\ a \in Answer /\ a.status = 500 /\ a.code # "ErrValidationFailed"
      BY <1>3, <2>1, HandledErrors, InternalErrors
    <2> QED
      BY <2>2, <2>3 DEF CutShort, GatewayAnswers, Success
  <1> QED
    BY <1>4, <1>5, <1>6, <1>7, <1>8

LEMMA RefusedErrors ==
  ASSUME NEW r \in Request, call[r] \in Call, Op(r) # "twoFaResend"
  PROVE  Refused(r) \subseteq Error \cup {None}
  <1>1. HandlerOf(r).refusal \in Error \cup {None}
    BY HandlerShaped DEF HandlerOf, Shaped, Refusal, Op
  <1>2. Limited \cup (InternalAuth(call[r]) \ {None}) \cup {"ErrInvalidJSON"} \subseteq Error
    BY InternalErrors DEF Limited, InternalAuth
  <1> QED
    BY <1>1, <1>2 DEF Refused

LEMMA ServiceKinds ==
  ASSUME TypeOK, Flow, NEW r \in Request
  PROVE  /\ Handle(r) => ServiceReplies(r) \/ ServiceBegins(r)
         /\ ReplyInvalid(r) => ServiceReplies(r)
         /\ Work(r) => ServiceReplies(r)
         /\ WorkFails(r) => ServiceReplies(r)
  <1> SUFFICES ASSUME sv[r] \in {"arrived", "invalid", "work"}
               PROVE  /\ Handle(r) => ServiceReplies(r) \/ ServiceBegins(r)
                      /\ ReplyInvalid(r) => ServiceReplies(r)
                      /\ Work(r) => ServiceReplies(r)
                      /\ WorkFails(r) => ServiceReplies(r)
    BY DEF Handle, ReplyInvalid, Work, WorkFails
  <1>1. call[r] \in Call /\ Op(r) # "twoFaResend"
    <2>1. call[r] \in Call /\ Op(r) \notin Unrouted \ Direct
      BY CallTyped DEF Flow, FlowOf
    <2> QED
      BY <2>1 DEF Unrouted, Direct, Audit
  <1>2. meta[Service(r)] \in Request \cup {None}
    BY ProcessesTyped DEF TypeOK, Service
  <1>3. /\ Shaped(HandlerOf(r))
        /\ Op(r) \in Writes => FailsAsInternal(HandlerOf(r))
    BY <1>1, HandlerShaped DEF HandlerOf, Op
  <1>4. \A e \in Error : /\ ErrorHandler(e) \in Answer
                         /\ ErrorHandler(e).code # "ErrValidationFailed"
                         /\ ErrorHandler(e).status \notin Success
    BY HandledErrors DEF Success
  <1>5. Handle(r) => ServiceReplies(r) \/ ServiceBegins(r)
    <2> SUFFICES ASSUME Handle(r) PROVE ServiceReplies(r) \/ ServiceBegins(r)
      OBVIOUS
    <2>1. PICK e \in Refused(r) :
            IF e = None THEN sv' = Move(sv, r, "work") /\ UNCHANGED reply
            ELSE Replied(r, ErrorHandler(e), None)
      BY DEF Handle
    <2>2. CASE e = None
      BY <2>1, <2>2 DEF Handle, ServiceBegins
    <2>3. CASE e # None
      <3>1. e \in Error
        BY <1>1, <2>3, RefusedErrors
      <3> QED
        BY <1>4, <2>1, <2>3, <3>1 DEF Handle, ServiceReplies
    <2> QED
      BY <2>2, <2>3
  <1>6. ReplyInvalid(r) => ServiceReplies(r)
    <2>1. LET a == SendAppError("ErrValidationFailed")
          IN  a \in Answer /\ a.status \notin Success
      BY SentErrors, InternalErrors DEF Success
    <2> QED
      BY <1>2, <2>1 DEF ReplyInvalid, ServiceReplies
  <1>7. WorkFails(r) => ServiceReplies(r)
    <2>1. HandlerOf(r).failure \in Error
      BY <1>3 DEF Shaped
    <2> QED
      BY <1>4, <2>1 DEF WorkFails, ServiceReplies
  <1>8. Work(r) => ServiceReplies(r)
    <2> SUFFICES ASSUME Work(r) PROVE ServiceReplies(r)
      OBVIOUS
    <2>1. CASE \E s \in HandlerOf(r).done : Replied(r, OK(s), None) /\ Effect(r)
      <3>1. PICK s \in HandlerOf(r).done : Replied(r, OK(s), None) /\ Effect(r)
        BY <2>1
      <3>2. s \in Success
        BY <1>3 DEF Shaped
      <3>3. OK(s) \in Answer /\ OK(s).status \in Success /\ OK(s).code # "ErrValidationFailed"
        BY <3>2 DEF OK, Answer, Success
      <3> QED
        BY <3>1, <3>3 DEF Work, ServiceReplies
    <2>2. CASE /\ Replied(r, ErrorHandler(HandlerOf(r).failure), None)
               /\ Effect(r)
      <3>1. HandlerOf(r).failure \in Error
        BY <1>3 DEF Shaped
      <3>2. Op(r) \in Writes => ErrorHandler(HandlerOf(r).failure).status = 500
        BY <1>3, InternalErrors DEF FailsAsInternal
      <3> QED
        BY <1>4, <2>2, <3>1, <3>2 DEF Work, ServiceReplies
    <2>3. CASE \E e \in HandlerOf(r).refusals :
                 Replied(r, ErrorHandler(e), None) /\ UNCHANGED data
      <3>1. PICK e \in HandlerOf(r).refusals :
                 Replied(r, ErrorHandler(e), None) /\ UNCHANGED data
        BY <2>3
      <3>2. e \in Error
        BY <1>3 DEF Shaped
      <3> QED
        BY <1>4, <3>1, <3>2 DEF Work, ServiceReplies
    <2> QED
      BY <2>1, <2>2, <2>3 DEF Work
  <1> QED
    BY <1>5, <1>6, <1>7, <1>8

RequestStep(r) ==
  \/ Send(r) \/ GatewayAnswers(r) \/ GatewayPasses(r) \/ RouteInvalid(r) \/ Forwards(r)
  \/ Relay(r) \/ Repeat(r) \/ ServiceBegins(r) \/ HandleInvalid(r) \/ ServiceReplies(r)

LEMMA StepKinds ==
  ASSUME TypeOK, Flow, [Next]_vars
  PROVE  \/ \E r \in Request : RequestStep(r)
         \/ EndSession \/ AddLog
         \/ \E p \in Process : StartOrStop(p) \/ Ends(p)
         \/ UNCHANGED vars
  <1>1. ASSUME NEW r \in Request, AtTheGateway(r) PROVE RequestStep(r)
    BY <1>1, GateKind, RouteKinds DEF AtTheGateway, RequestStep
  <1>2. ASSUME NEW r \in Request, AtTheService(r) PROVE RequestStep(r)
    BY <1>2, ServiceKinds DEF AtTheService, RequestStep
  <1> QED
    BY <1>1, <1>2 DEF Next, RequestStep

LEMMA RunnerTypes ==
  ASSUME RunnerTypeOK, NEW p \in Process, NEW busy \in BOOLEAN, NEW held \in BOOLEAN,
         \/ Start(p) \/ Signal(p) \/ Exit(p) \/ Kill(p) \/ Cleanup(p, held)
         \/ ShutdownDone(p, busy) \/ ShutdownTimesOut(p, busy)
  PROVE  RunnerTypeOK'
  <1> USE DEF RunnerTypeOK, ProcState, Goto
  <1>1. CASE Boot(p)
    BY <1>1 DEF Boot
  <1>2. CASE SeedCount(p)
    BY <1>2 DEF SeedCount
  <1>3. CASE SeedInsert(p)
    BY <1>3 DEF SeedInsert, AfterInsert
  <1>4. CASE BootFails(p)
    BY <1>4 DEF BootFails
  <1>5. CASE Signal(p) \/ Exit(p) \/ Kill(p) \/ Cleanup(p, held) \/ ShutdownDone(p, busy)
    BY <1>5 DEF Signal, Exit, Kill, Cleanup, ShutdownDone, AfterShutdown
  <1>6. CASE ShutdownTimesOut(p, busy)
    BY <1>6 DEF ShutdownTimesOut, AfterShutdown
  <1> QED
    BY <1>1, <1>2, <1>3, <1>4, <1>5, <1>6 DEF Start

LEMMA TypesOfRequest ==
  ASSUME TypeOK, Flow, NEW r \in Request, RequestStep(r)
  PROVE  TypeOK' /\ Flow'
  <1> SUFFICES ASSUME ~Send(r) PROVE TypeOK' /\ Flow'
    BY SendTypes
  <1>1. FlowOf(r) /\ \A x \in Request : FlowOf(x)
    BY DEF Flow
  <1>2. CASE GatewayAnswers(r)
    <2>1. PICK a \in Answer, q \in Request \cup {None} :
            /\ Answered(r, a, q)
            /\ at[r] \in {"gate", "route", "invalid", "wait"} /\ ~IsDirect(r)
            /\ UNCHANGED <<plan, clientVars, sv, reply, meta, data, runnerVars>>
      BY <1>2 DEF GatewayAnswers
    <2>2. /\ at' \in [Request -> At] /\ ans' \in [Request -> AnswerOf \cup {None}]
          /\ at'[r] = "done" /\ \A x \in Request \ {r} : at'[x] = at[x] /\ ans'[x] = ans[x]
      BY <2>1, AnsweredEffect
    <2>3. TypeOK'
      BY <2>1, <2>2, OnlyRequests DEF TypeOK, clientVars
    <2>4. Flow'
      BY <1>1, <2>1, <2>2 DEF Flow, FlowOf, clientVars, data, Op, IsDirect
    <2> QED
      BY <2>3, <2>4
  <1>3. CASE GatewayPasses(r) \/ RouteInvalid(r)
    <2>1. /\ at[r] \in {"gate", "route"}
          /\ at' = Move(at, r, "route") \/ at' = Move(at, r, "invalid")
          /\ meta' = meta \/ meta' = Move(meta, "gateway", r)
          /\ UNCHANGED <<plan, clientVars, sv, ans, reply, data, runnerVars>>
      BY <1>3 DEF GatewayPasses, RouteInvalid, SetMeta
    <2>2. TypeOK'
      <3>1. at' \in [Request -> At]
        BY <2>1 DEF TypeOK, Move, At
      <3>2. meta' \in [Process -> Request \cup {None}]
        BY <2>1 DEF TypeOK, Move
      <3> QED
        BY <2>1, <3>1, <3>2, OnlyRequests DEF TypeOK, clientVars
    <2>3. Flow'
      BY <1>1, <2>1 DEF Flow, FlowOf, TypeOK, Move, clientVars, data, Op, IsDirect
    <2> QED
      BY <2>2, <2>3
  <1>4. CASE Forwards(r)
    <2>1. TypeOK'
      BY <1>4, OnlyRequests DEF Forwards, TypeOK, clientVars, Move, At, Sv
    <2>2. Flow'
      BY <1>1, <1>4 DEF Forwards, Flow, FlowOf, TypeOK, Move, clientVars, data, Op, IsDirect
    <2> QED
      BY <2>1, <2>2
  <1>5. CASE Relay(r)
    <2>1. TypeOK'
      BY <1>5, OnlyRequests DEF Relay, TypeOK, clientVars, Move, At
    <2>2. Flow'
      BY <1>1, <1>5 DEF Relay, Flow, FlowOf, TypeOK, Move, clientVars, data, Op, IsDirect
    <2> QED
      BY <2>1, <2>2
  <1>6. CASE Repeat(r) \/ ServiceBegins(r)
    <2>1. /\ \/ sv[r] = "killed" /\ at[r] = "wait" /\ sv' = Move(sv, r, "arrived")
             \/ sv[r] = "arrived" /\ sv' = Move(sv, r, "work")
          /\ UNCHANGED <<plan, clientVars, at, ans, reply, meta, data, runnerVars>>
      BY <1>6 DEF Repeat, ServiceBegins
    <2>2. TypeOK'
      BY <2>1, OnlyRequests DEF TypeOK, clientVars, Move, Sv
    <2>3. Flow'
      BY <1>1, <2>1 DEF Flow, FlowOf, TypeOK, Move, clientVars, data, Op, IsDirect
    <2> QED
      BY <2>2, <2>3
  <1>7. CASE HandleInvalid(r)
    <2>1. Service(r) \in Process
      BY ProcessesTyped DEF Service
    <2>2. TypeOK'
      BY <1>7, <2>1, OnlyRequests DEF HandleInvalid, SetMeta, TypeOK, clientVars, Move, Sv
    <2>3. Flow'
      BY <1>1, <1>7 DEF HandleInvalid, Flow, FlowOf, TypeOK, Move, clientVars, data, Op, IsDirect
    <2> QED
      BY <2>2, <2>3
  <1>8. CASE ServiceReplies(r)
    <2>1. PICK a \in Answer, q \in Request \cup {None} :
            /\ Replied(r, a, q) /\ sv[r] \in {"arrived", "invalid", "work"}
            /\ UNCHANGED data \/ Effect(r)
            /\ UNCHANGED <<plan, clientVars, at, ans, meta, runnerVars>>
      BY <1>8 DEF ServiceReplies
    <2>2. /\ sv' \in [Request -> Sv] /\ reply' \in [Request -> AnswerOf \cup {None}]
          /\ sv'[r] = "replied" /\ reply'[r] # None
          /\ \A x \in Request \ {r} : sv'[x] = sv[x] /\ reply'[x] = reply[x]
      BY <2>1, RepliedEffect
    <2>3. call[r] \in Call
      BY <2>1, CallTyped
    <2>4. /\ StoreTypeOK' /\ LogTypeOK' /\ live' \subseteq Key
          /\ runs' \in [Request -> 0 .. MaxRuns]
          /\ page' \in [Request -> [rows : SUBSET (Id \cup Nat), of : Nat]]
          /\ \A x \in Request \ {r} : runs'[x] = runs[x]
      <3>1. CASE UNCHANGED data
        BY <3>1 DEF data, TypeOK, StoreTypeOK, LogTypeOK
      <3>2. CASE Effect(r)
        BY <2>3, <3>2, EffectTyped DEF TypeOK
      <3> QED
        BY <2>1, <3>1, <3>2
    <2>5. RunnerTypeOK'
      BY <2>1 DEF TypeOK, RunnerTypeOK, runnerVars
    <2>6. TypeOK'
      BY <2>1, <2>2, <2>4, <2>5 DEF TypeOK, clientVars
    <2>7. Flow'
      BY <1>1, <2>1, <2>2, <2>4 DEF Flow, FlowOf, clientVars, Op, IsDirect
    <2> QED
      BY <2>6, <2>7
  <1> QED
    BY <1>2, <1>3, <1>4, <1>5, <1>6, <1>7, <1>8 DEF RequestStep

LEMMA TypesNext == TypeOK /\ Flow /\ [Next]_vars => TypeOK' /\ Flow'
  <1> SUFFICES ASSUME TypeOK, Flow, [Next]_vars PROVE TypeOK' /\ Flow'
    OBVIOUS
  <1>1. ASSUME NEW r \in Request, RequestStep(r) PROVE TypeOK' /\ Flow'
    BY <1>1, TypesOfRequest
  <1>2. CASE EndSession \/ AddLog
    <2>1. /\ UNCHANGED <<plan, clientVars, progress, meta, row, runs, page, runnerVars>>
          /\ live' \subseteq live /\ LogTypeOK'
      <3>1. CASE EndSession
        BY <3>1 DEF EndSession, TypeOK, LogTypeOK
      <3>2. CASE AddLog
        <4>1. PICK t \in {Latest, Latest + 1} : log' = Append(log, t)
          BY <3>2 DEF AddLog, CreateLog
        <4>2. log \in Seq(Nat) /\ Latest \in Nat
          <5>1. CASE log = <<>>
            BY <5>1 DEF TypeOK, LogTypeOK, Latest
          <5>2. CASE log # <<>>
            <6>1. Len(log) \in 1 .. Len(log)
              BY <5>2 DEF TypeOK, LogTypeOK
            <6> QED
              BY <5>2, <6>1 DEF TypeOK, LogTypeOK, Latest
          <5> QED
            BY <5>1, <5>2
        <4>3. LogTypeOK'
          BY <4>1, <4>2 DEF LogTypeOK
        <4> QED
          BY <3>2, <4>3 DEF AddLog
      <3> QED
        BY <1>2, <3>1, <3>2
    <2>2. TypeOK'
      BY <2>1 DEF TypeOK, clientVars, progress, runnerVars, RunnerTypeOK, StoreTypeOK
    <2>3. Flow'
      BY <2>1 DEF Flow, FlowOf, clientVars, progress, Op, IsDirect
    <2> QED
      BY <2>2, <2>3
  <1>3. ASSUME NEW p \in Process, StartOrStop(p) PROVE TypeOK' /\ Flow'
    <2>1. RunnerTypeOK'
      BY <1>3, RunnerTypes, Busy(p) \in BOOLEAN, Held(p) \in BOOLEAN
      DEF StartOrStop, Stop, TypeOK, Busy, Held
    <2>2. UNCHANGED <<plan, clientVars, progress, meta, data>>
      BY <1>3 DEF StartOrStop
    <2>3. TypeOK'
      BY <2>1, <2>2 DEF TypeOK, clientVars, progress, data, StoreTypeOK, LogTypeOK
    <2>4. Flow'
      BY <2>2 DEF Flow, FlowOf, clientVars, progress, data, Op, IsDirect
    <2> QED
      BY <2>3, <2>4
  <1>4. ASSUME NEW p \in Process, Ends(p) PROVE TypeOK' /\ Flow'
    <2>1. RunnerTypeOK'
      BY <1>4, RunnerTypes DEF Ends, TypeOK
    <2>2. /\ UNCHANGED <<plan, clientVars, ans, reply, data>>
          /\ at' \in [Request -> At] /\ sv' \in [Request -> Sv]
          /\ meta' \in [Process -> Request \cup {None}]
      BY <1>4 DEF Ends, TypeOK, Move, At, Sv
    <2>3. TypeOK'
      BY <2>1, <2>2 DEF TypeOK, clientVars, data, StoreTypeOK, LogTypeOK
    <2>4. ASSUME NEW r \in Request PROVE FlowOf(r)'
      <3>1. /\ FlowOf(r)
            /\ sv'[r] = IF AtService(r) /\ Service(r) = p THEN "killed" ELSE sv[r]
            /\ at'[r] = IF (IF p = "gateway" THEN AtGateway(r)
                            ELSE AtService(r) /\ Service(r) = p /\ at[r] = "wait" /\ IsDirect(r))
                        THEN "lost" ELSE at[r]
            /\ call' = call /\ ans' = ans /\ reply' = reply /\ runs' = runs
        BY <1>4 DEF Flow, Ends, clientVars, data
      <3>2. AtService(r) => /\ sv[r] # "none"
                            /\ IsDirect(r) => at[r] = "wait" \/ sv[r] = "replied"
        BY <3>1 DEF AtService, FlowOf
      <3>3. AtGateway(r) => call[r] # None /\ ~IsDirect(r) /\ at[r] \notin {"done", "lost"}
        BY DEF AtGateway, Finished
      <3>4. Service(r) # "gateway"
        BY DEF Service, To
      <3> QED
        BY <3>1, <3>2, <3>3, <3>4 DEF FlowOf, AtService, AtGateway, Op, IsDirect
    <2> QED
      BY <2>3, <2>4 DEF Flow
  <1>5. CASE UNCHANGED vars
    <2>1. TypeOK'
      BY <1>5 DEF vars, TypeOK, clientVars, progress, data, runnerVars, RunnerTypeOK,
                  StoreTypeOK, LogTypeOK
    <2>2. Flow'
      BY <1>5 DEF vars, Flow, FlowOf, clientVars, progress, data, Op, IsDirect
    <2> QED
      BY <2>1, <2>2
  <1> QED
    BY <1>1, <1>2, <1>3, <1>4, <1>5, StepKinds

LEMMA TypesInvariant == Spec => [](TypeOK /\ Flow)
  BY TypesInit, TypesNext, PTL DEF Spec

\* TypeOK: every variable of Platform stays in its type, for any requests, users, tables
\* and plans.
THEOREM TypeCorrect == Spec => []TypeOK
  BY TypesInvariant, PTL

(***************************************************************************)
(* Start and stop of the processes.                                        *)
(***************************************************************************)
LEMMA OthersKeepProcesses ==
  ASSUME \/ \E r \in Request : RequestStep(r)
         \/ EndSession \/ AddLog \/ UNCHANGED vars
  PROVE  UNCHANGED runnerVars
  BY DEF RequestStep, Send, GatewayAnswers, GatewayPasses, RouteInvalid, Forwards, Relay, Repeat,
         ServiceBegins, HandleInvalid, ServiceReplies, EndSession, AddLog, vars

\* The steps of seeding belong to the process that seeds.  While it inserts, the table
\* has what it inserted so far; with half of the seed and no insert to come, a seeding
\* was cut short.
SeedInv ==
  /\ \A p \in Process \ Seeding : proc[p] \notin {"count", "admin", "user"}
  /\ users \in {{}, {"admin"}, {"admin", "user"}}
  /\ \A p \in Seeding :
       /\ proc[p] = "admin" => users = {}
       /\ proc[p] = "user" => users = {"admin"}
       /\ users = {"admin"} => proc[p] = "user" \/ cut
       /\ users = {} => proc[p] \in {"down", "count", "admin"}

LEMMA SeedInit == Init => SeedInv
  <1> SUFFICES ASSUME Init PROVE SeedInv
    OBVIOUS
  <1>1. Plans[plan].proc \in [Process -> {"down", "up"}] /\ proc = Plans[plan].proc
    BY PlansAssumption DEF Init, RunnerInit
  <1>2. PICK p \in Process : Seeding = {p}
    BY SeedingAssumption
  <1>3. users = IF proc[p] = "down" THEN {} ELSE {"admin", "user"}
    BY <1>1, <1>2 DEF Init, RunnerInit
  <1> QED
    BY <1>1, <1>2, <1>3 DEF SeedInv

LEMMA SeedNext == TypeOK /\ Flow /\ SeedInv /\ [Next]_vars => SeedInv'
  <1> SUFFICES ASSUME TypeOK, SeedInv, Flow, [Next]_vars PROVE SeedInv'
    OBVIOUS
  <1>1. CASE UNCHANGED runnerVars
    BY <1>1 DEF SeedInv, runnerVars
  <1>2. ASSUME NEW p \in Process,
               Start(p) \/ Stop(p) \/ Exit(p) \/ Kill(p)
        PROVE  SeedInv'
    <2>1. PICK s \in Process : Seeding = {s}
      BY SeedingAssumption
    <2>2. proc \in [Process -> ProcState] /\ users \subseteq {"admin", "user"}
      BY DEF TypeOK, RunnerTypeOK
    <2> USE DEF SeedInv, Goto, ProcState
    <2>3. CASE Boot(p)
      BY <2>1, <2>2, <2>3 DEF Boot
    <2>4. CASE SeedCount(p)
      BY <2>1, <2>2, <2>4 DEF SeedCount
    <2>5. CASE SeedInsert(p)
      BY <2>1, <2>2, <2>5 DEF SeedInsert, AfterInsert
    <2>6. CASE BootFails(p)
      BY <2>1, <2>2, <2>6 DEF BootFails
    <2>7. CASE Stop(p) \/ Exit(p) \/ Kill(p)
      <3>1. /\ Running(p)
            /\ \E t \in {"down", "stopping", "closing", "closed"} : proc' = [proc EXCEPT ![p] = t]
            /\ UNCHANGED <<users, cut>>
        BY <2>7 DEF Stop, Signal, ShutdownDone, ShutdownTimesOut, AfterShutdown, Cleanup, Exit,
           Kill, Running
      <3> QED
        BY <2>1, <2>2, <3>1 DEF Running
    <2> QED
      BY <1>2, <2>3, <2>4, <2>5, <2>6, <2>7 DEF Start
  <1> QED
    BY <1>1, <1>2, StepKinds, OthersKeepProcesses DEF StartOrStop, Ends

LEMMA SeedInvariant == Spec => []SeedInv
  <1>1. SeedInv /\ TypeOK /\ Flow /\ [Next]_vars => SeedInv'
    BY SeedNext
  <1> QED
    BY SeedInit, TypesInvariant, <1>1, PTL DEF Spec

\* SeedOrBlame: a service runs without its whole seed only if a seeding was cut short
\* between the two inserts of SeedData.
THEOREM SeedIsWhole == Spec => []SeedOrBlame
  <1>1. TypeOK /\ SeedInv => SeedOrBlame
    BY DEF SeedInv, SeedOrBlame, Running
  <1> QED
    BY <1>1, SeedInvariant, TypeCorrect, PTL

\* Only a process that listens, or has kept a connection, gets new work.
LEMMA BusyGrows ==
  ASSUME TypeOK, Flow, NEW p \in Process, Busy(p)', ~Busy(p),
         \/ \E r \in Request : RequestStep(r)
         \/ EndSession \/ AddLog \/ UNCHANGED vars
  PROVE  Reaches(p)
  <1>1. PICK r \in Request : IF p = "gateway" THEN AtGateway(r)'
                             ELSE AtService(r)' /\ Service(r)' = p
    BY DEF Busy
  <1>2. IF p = "gateway" THEN ~AtGateway(r) ELSE ~(AtService(r) /\ Service(r) = p)
    BY DEF Busy
  <1>3. FlowOf(r)
    BY DEF Flow
  <1> USE DEF AtGateway, AtService, Finished, Service, Op, IsDirect
  <1>4. ASSUME NEW x \in Request, RequestStep(x) PROVE Reaches(p)
    <2>1. CASE Send(x)
      BY <1>1, <1>2, <1>3, <2>1 DEF Send, Move, TypeOK, FlowOf, Reaches
    <2>2. CASE GatewayAnswers(x)
      <3>1. /\ UNCHANGED <<call, sv>> /\ at[x] \in {"gate", "route", "invalid", "wait"}
            /\ at' = Move(at, x, "done")
        BY <2>2 DEF GatewayAnswers, Answered, clientVars
      <3> QED
        BY <1>1, <1>2, <1>3, <3>1 DEF Move, TypeOK, FlowOf
    <2>3. CASE GatewayPasses(x) \/ RouteInvalid(x) \/ Relay(x)
      <3>1. /\ UNCHANGED <<call, sv>> /\ at[x] \in {"gate", "route", "wait"}
            /\ \E t \in {"route", "invalid", "done"} : at' = Move(at, x, t)
        BY <2>3 DEF GatewayPasses, RouteInvalid, Relay, clientVars
      <3> QED
        BY <1>1, <1>2, <1>3, <3>1 DEF Move, TypeOK, FlowOf
    <2>4. CASE Forwards(x)
      BY <1>1, <1>2, <1>3, <2>4 DEF Forwards, Move, TypeOK, FlowOf, clientVars
    <2>5. CASE Repeat(x)
      BY <1>1, <1>2, <1>3, <2>5 DEF Repeat, Move, TypeOK, FlowOf, clientVars
    <2>6. CASE ServiceBegins(x) \/ HandleInvalid(x) \/ ServiceReplies(x)
      <3>1. /\ UNCHANGED <<call, at>> /\ sv[x] \in {"arrived", "invalid", "work"}
            /\ \E t \in {"work", "invalid", "replied"} : sv' = Move(sv, x, t)
        BY <2>6 DEF ServiceBegins, HandleInvalid, ServiceReplies, Replied, clientVars
      <3> QED
        BY <1>1, <1>2, <1>3, <3>1 DEF Move, TypeOK, FlowOf
    <2> QED
      BY <1>4, <2>1, <2>2, <2>3, <2>4, <2>5, <2>6 DEF RequestStep
  <1>5. CASE EndSession \/ AddLog \/ UNCHANGED vars
    <2>1. UNCHANGED <<call, at, sv>>
      BY <1>5 DEF EndSession, AddLog, vars, clientVars, progress
    <2> QED
      BY <1>1, <1>2, <2>1
  <1> QED
    BY <1>4, <1>5

LEMMA ClosedInit == Init => ClosedInFlight
  BY PlansAssumption DEF Init, RunnerInit, ClosedInFlight

LEMMA ClosedNext == TypeOK /\ Flow /\ ClosedInFlight /\ [Next]_vars => ClosedInFlight'
  <1> SUFFICES ASSUME TypeOK, Flow, ClosedInFlight, [Next]_vars,
                      NEW p \in Process, proc'[p] \in {"closing", "closed"}, Busy(p)'
               PROVE  p \in late'
    BY DEF ClosedInFlight
  <1>1. CASE \/ \E r \in Request : RequestStep(r)
             \/ EndSession \/ AddLog \/ UNCHANGED vars
    <2>1. UNCHANGED <<proc, late>>
      BY <1>1, OthersKeepProcesses DEF runnerVars
    <2>2. Busy(p)
      BY <1>1, <2>1, BusyGrows DEF Reaches
    <2> QED
      BY <2>1, <2>2 DEF ClosedInFlight
  <1>2. ASSUME NEW q \in Process, StartOrStop(q) PROVE p \in late'
    <2>1. Busy(p) = Busy(p)'
      BY <1>2 DEF StartOrStop, Busy, AtGateway, AtService, Finished, Service, Op, IsDirect,
         clientVars, progress
    <2>2. CASE q # p
      <3>1. proc'[p] = proc[p] /\ late \ {q} \subseteq late'
        BY <1>2, <2>2 DEF StartOrStop, Start, Stop, Boot, SeedCount, SeedInsert, BootFails,
           Signal, ShutdownDone, ShutdownTimesOut, Cleanup, Goto, TypeOK, RunnerTypeOK
      <3> QED
        BY <2>1, <2>2, <3>1 DEF ClosedInFlight
    <2>3. CASE q = p
      <3>1. \/ ShutdownDone(p, Busy(p)) \/ ShutdownTimesOut(p, Busy(p))
            \/ proc[p] = "closing" /\ late' = late
        BY <1>2, <2>3 DEF StartOrStop, Start, Stop, Boot, SeedCount, SeedInsert, AfterInsert,
           BootFails, Signal, Cleanup, Goto, TypeOK, RunnerTypeOK
      <3> QED
        BY <2>1, <3>1 DEF ShutdownDone, ShutdownTimesOut, ClosedInFlight
    <2> QED
      BY <2>2, <2>3
  <1>3. ASSUME NEW q \in Process, Ends(q) PROVE p \in late'
    <2>1. /\ q # p /\ proc'[p] = proc[p] /\ late' = late
      BY <1>3 DEF Ends, Exit, Kill, Goto, TypeOK, RunnerTypeOK
    <2>2. Busy(p)
      <3>1. PICK r \in Request : IF p = "gateway" THEN AtGateway(r)'
                                 ELSE AtService(r)' /\ Service(r)' = p
        BY DEF Busy
      <3>2. /\ call' = call
            /\ sv'[r] \in {"killed", sv[r]} /\ at'[r] \in {"lost", at[r]}
        BY <1>3 DEF Ends, clientVars
      <3>3. IF p = "gateway" THEN AtGateway(r) ELSE AtService(r) /\ Service(r) = p
        BY <3>1, <3>2 DEF AtGateway, AtService, Finished, Service, Op, IsDirect
      <3> QED
        BY <3>3 DEF Busy
    <2> QED
      BY <2>1, <2>2 DEF ClosedInFlight
  <1> QED
    BY <1>1, <1>2, <1>3, StepKinds

\* ClosedInFlight: connections are closed under a request that is being worked on only
\* by a shutdown that ran into its time limit.
THEOREM ClosedAfterWaiting == Spec => []ClosedInFlight
  <1>1. ClosedInFlight /\ TypeOK /\ Flow /\ [Next]_vars => ClosedInFlight'
    BY ClosedNext
  <1> QED
    BY ClosedInit, TypesInvariant, <1>1, PTL DEF Spec

(***************************************************************************)
(* Sessions.                                                               *)
(***************************************************************************)
LEMMA SessionsOnlyEnd ==
  ASSUME TypeOK, Flow, [Next]_vars
  PROVE  live' \subseteq live
  <1>1. ASSUME NEW r \in Request, RequestStep(r) PROVE live' \subseteq live
    <2>1. CASE UNCHANGED data \/ Effect(r)
      BY <2>1 DEF data, Effect
    <2> QED
      BY <1>1, <2>1
      DEF RequestStep, Send, GatewayAnswers, GatewayPasses, RouteInvalid, Forwards, Relay, Repeat,
          ServiceBegins, HandleInvalid, ServiceReplies
  <1>2. ASSUME EndSession \/ AddLog \/ UNCHANGED vars PROVE live' \subseteq live
    BY <1>2 DEF EndSession, AddLog, vars, data
  <1>3. ASSUME NEW p \in Process, StartOrStop(p) \/ Ends(p) PROVE live' \subseteq live
    BY <1>3 DEF StartOrStop, Ends, data
  <1> QED
    BY <1>1, <1>2, <1>3, StepKinds

\* A request whose session had ended when it was sent does not pass the gate, since no
\* session comes back.
GoneOf(r) ==
  gone[r] => /\ call[r] # None /\ Op(r) \notin Public \cup Direct
             /\ <<call[r].user, SessionKey(Op(r))>> \notin live
             /\ at[r] \in {"gate", "done", "lost"} /\ sv[r] = "none"
GoneInv == \A r \in Request : GoneOf(r)

LEMMA GoneInit == Init => GoneInv
  BY DEF Init, GoneInv, GoneOf

LEMMA GoneCannotPass ==
  ASSUME NEW r \in Request, GoneOf(r), gone[r]
  PROVE  ~GatewayPasses(r)
  <1> SUFFICES ASSUME None \in BeforeRoutes(call[r], live, Open("gateway")) PROVE FALSE
    BY DEF GatewayPasses
  <1>1. {"ErrTooManyRequests", "Unauthorized", "ErrInvalidDeviceFingerprint", "ErrInternal",
         "ErrSessionExpired"} \subseteq AppError \cup Plain
    BY DEF AppError, Plain, BadRequest, Internal, Unauthorized
  <1>2. None \notin {"ErrTooManyRequests", "Unauthorized", "ErrInvalidDeviceFingerprint",
                     "ErrInternal", "ErrSessionExpired"}
    BY <1>1, NoneAssumption
  <1> QED
    BY <1>2 DEF BeforeRoutes, Limited, JWT, AuthRedisMiddleware, AuthRedis, GoneOf, Op

LEMMA GoneNext == TypeOK /\ Flow /\ GoneInv /\ [Next]_vars => GoneInv'
  <1> SUFFICES ASSUME TypeOK, Flow, GoneInv, [Next]_vars, NEW r \in Request
               PROVE  GoneOf(r)'
    BY DEF GoneInv
  <1>1. live' \subseteq live
    BY SessionsOnlyEnd
  <1>2. FlowOf(r) /\ GoneOf(r)
    BY DEF Flow, GoneInv
  <1>3. ASSUME NEW x \in Request, RequestStep(x) PROVE GoneOf(r)'
    <2>1. CASE Send(x)
      <3>1. CASE x = r
        <4> DEFINE Over(c) == /\ c.e \notin Public \cup Direct
                              /\ <<c.user, SessionKey(c.e)>> \notin live
        <4>1. PICK c \in Plans[plan].calls[r] :
                /\ call' = Move(call, r, c) /\ gone' = Move(gone, r, Over(c))
                /\ c.e \notin Direct => at' = Move(at, r, "gate") /\ UNCHANGED sv
          BY <2>1, <3>1 DEF Send
        <4>2. gone'[r] = Over(c)
          <5> HIDE DEF Over
          <5> QED
            BY <4>1 DEF TypeOK, Move
        <4>3. /\ call'[r] = c /\ gone'[r] = Over(c)
              /\ c.e \notin Direct => at'[r] = "gate" /\ sv'[r] = sv[r]
          BY <4>1, <4>2 DEF TypeOK, Move
        <4>4. c # None /\ sv[r] = "none"
          BY <1>2, <2>1, <3>1, PlansAssumption, NoneAssumption DEF Send, TypeOK, FlowOf
        <4> QED
          BY <1>1, <4>3, <4>4 DEF GoneOf, Op
      <3>2. CASE x # r
        <4>1. gone'[r] = gone[r] /\ call'[r] = call[r] /\ at'[r] = at[r] /\ sv'[r] = sv[r]
          BY <2>1, <3>2 DEF Send, TypeOK, Move
        <4> QED
          BY <1>1, <1>2, <4>1 DEF GoneOf, Op
      <3> QED
        BY <3>1, <3>2
    <2>2. ASSUME ~Send(x), gone[r] PROVE /\ at'[r] \in {"gate", "done", "lost"} /\ sv'[r] = "none"
                                         /\ UNCHANGED clientVars
      <3>1. at[r] \in {"gate", "done", "lost"} /\ sv[r] = "none"
        BY <1>2, <2>2 DEF GoneOf
      <3>2. CASE x = r
        <4>1. GatewayAnswers(r)
          BY <1>2, <1>3, <2>2, <3>1, <3>2, GoneCannotPass
          DEF RequestStep, RouteInvalid, Forwards, Relay, Repeat, ServiceBegins, HandleInvalid,
              ServiceReplies
        <4> QED
          BY <3>1, <4>1 DEF GatewayAnswers, Answered, Move, TypeOK
      <3>3. CASE x # r
        <4>1. at'[r] = at[r] /\ sv'[r] = sv[r] /\ UNCHANGED clientVars
          BY <1>3, <2>2, <3>3
          DEF RequestStep, GatewayAnswers, GatewayPasses, RouteInvalid, Forwards, Relay, Repeat,
              ServiceBegins, HandleInvalid, ServiceReplies, Answered, Replied, Move, TypeOK
        <4> QED
          BY <3>1, <4>1
      <3> QED
        BY <3>2, <3>3
    <2>3. ~Send(x) => UNCHANGED clientVars
      BY <1>3 DEF RequestStep, GatewayAnswers, GatewayPasses, RouteInvalid, Forwards, Relay,
         Repeat, ServiceBegins, HandleInvalid, ServiceReplies
    <2>4. CASE ~Send(x)
      BY <1>1, <1>2, <2>2, <2>3, <2>4 DEF GoneOf, Op, clientVars
    <2> QED
      BY <2>1, <2>4
  <1>4. CASE EndSession \/ AddLog \/ UNCHANGED vars \/ \E p \in Process : StartOrStop(p)
    <2>1. UNCHANGED <<clientVars, at, sv>>
      BY <1>4 DEF EndSession, AddLog, vars, StartOrStop, progress
    <2> QED
      BY <1>1, <1>2, <2>1 DEF GoneOf, Op, clientVars
  <1>5. ASSUME NEW p \in Process, Ends(p) PROVE GoneOf(r)'
    <2>1. /\ UNCHANGED clientVars /\ at'[r] \in {"lost", at[r]}
          /\ sv[r] = "none" => sv'[r] = "none"
      BY <1>5 DEF Ends, AtService
    <2> QED
      BY <1>1, <1>2, <2>1 DEF GoneOf, Op, clientVars
  <1> QED
    BY <1>3, <1>4, <1>5, StepKinds

\* NoEffectAfterEnd: what is sent after the end of its session stays in front of the
\* services, however often sessions end or processes are started anew.
THEOREM NothingAfterTheEnd == Spec => []NoEffectAfterEnd
  <1>1. GoneInv /\ TypeOK /\ Flow /\ [Next]_vars => GoneInv'
    BY GoneNext
  <1>2. Flow /\ GoneInv => NoEffectAfterEnd
    BY DEF Flow, FlowOf, GoneInv, GoneOf, NoEffectAfterEnd
  <1> QED
    BY GoneInit, TypesInvariant, <1>1, <1>2, PTL DEF Spec

(***************************************************************************)
(* What the gateway forwards.                                              *)
(***************************************************************************)
LEMMA ForwardedIsComplete ==
  ASSUME NEW c \in Call, c.e \notin Direct \cup Unrouted, c.e # "documentsMe",
         c.fp # "none", c.body = "ok", c.e \in NamedNotification => c.id # None
  PROVE  Handler(c, Received(c)).refusal = None
  <1> DEFINE f == Received(c)
  <1>1. /\ f = Forwarded(c) /\ "fingerprint" \in f.headers
        /\ c.e \in SecureProxied => f.ctx = Context(c)
        /\ c.e \in SecureProxied \ Public => f.ctx = "user" /\ {"user", "session"} \subseteq f.headers
    BY DEF Received, Forwarded, Context, ClientHeaders, ContextHeaders
  <1> HIDE DEF f
  <1> USE DEF Then, Need, MustFromFiber, MustBeUser, GetUserID, ParseUUID, Parses, Complete,
              OrInternal, OrServerError
  <1>2. CASE c.e \in Notifications
    <2>1. Handler(c, f) = NotificationRoutes(c, f) /\ c.e \in SecureProxied \ Public
      BY <1>2 DEF Handler, To, Audit, Documents, Notifications, NamedNotification, SecureProxied,
         Public, PlainProxied, Unrouted
    <2> QED
      BY <1>1, <1>2, <2>1 DEF NotificationRoutes, Notifications, NamedNotification,
         ListMyNotificationsHandler, SendNotificationHandler, MarkAsReadHandler,
         MarkAllAsReadHandler, MoveToTrashHandler, ClearTrashHandler, RestoreFromTrashHandler,
         DeletePermanentlyHandler, f
  <1>3. CASE c.e = "documentsCreate"
    <2>1. Handler(c, f) = DocsRoutes(c, f)
      BY <1>3 DEF Handler, To, Audit, Documents, Notifications, NamedNotification
    <2> QED
      BY <1>3, <2>1 DEF DocsRoutes, CreateDocumentHandler, f
  <1>4. CASE c.e \in {"sessions", "terminate"}
    <2>1. Handler(c, f) = UserRoutes(c, f) /\ c.e \in SecureProxied \ Public
      BY <1>4 DEF Handler, To, Audit, Documents, Notifications, NamedNotification, SecureProxied,
         Public, PlainProxied, Unrouted
    <2> QED
      BY <1>1, <2>1 DEF UserRoutes, GetSessionsHandler, TerminateSessionHandler, f
  <1>5. CASE c.e \in {"logout", "registerDevice", "verifyDevice", "login"}
    <2>1. /\ Handler(c, f) = AuthRoutes(c, f) /\ c.e \in SecureProxied
          /\ c.e # "login" => c.e \notin Public
      BY <1>5 DEF Handler, To, Audit, Documents, Notifications, NamedNotification, SecureProxied,
         Public, PlainProxied, Unrouted
    <2>2. f.ctx # "none"
      BY <1>1, <2>1 DEF Context
    <2> QED
      BY <1>1, <1>5, <2>1, <2>2 DEF AuthRoutes, LoginHandler, LogoutHandler,
         RegisterDeviceHandler, VerifyDeviceHandler, f
  <1>6. CASE c.e \in PlainProxied
    <2>1. Handler(c, f) = AuthRoutes(c, f)
      BY <1>6 DEF Handler, To, Audit, Documents, Notifications, NamedNotification, PlainProxied
    <2> QED
      BY <1>1, <1>6, <2>1 DEF AuthRoutes, PlainProxied, Verify2FAHandler, RefreshTokenHandler,
         SendResetCodeHandler, VerifyResetCodeHandler, FinalizeResetHandler, f
  <1> QED
    BY <1>2, <1>3, <1>4, <1>5, <1>6
    DEF Call, Operations, SecureProxied, PlainProxied, Unrouted, Documents, Direct

\* ContractHolds: what the gateway forwards has the context and the headers that the
\* handler it is for asks for.
THEOREM ForwardedIsAccepted == Spec => []ContractHolds
  <1>1. TypeOK /\ Flow => ContractHolds
    <2> SUFFICES ASSUME TypeOK, Flow, NEW r \in Request,
                        sv[r] = "arrived", ~IsDirect(r), Op(r) # "documentsMe",
                        call[r].fp # "none", call[r].body = "ok",
                        Op(r) \in NamedNotification => call[r].id # None
                 PROVE  HandlerOf(r).refusal = None
      BY DEF ContractHolds
    <2>1. call[r] \in Call /\ Op(r) \notin Unrouted \ Direct
      BY CallTyped DEF Flow, FlowOf
    <2> QED
      BY <2>1, ForwardedIsComplete DEF HandlerOf, Op, IsDirect
  <1> QED
    BY <1>1, TypesInvariant, PTL

(***************************************************************************)
(* Effects and answers.                                                    *)
(***************************************************************************)
Matches(s, n) == /\ s \in Success => n = 1
                 /\ s \in {400, 401, 404} => n = 0

\* A write is done once its reply is made, and not before; the reply matches it, and so
\* does an answer, which leaves the service nothing to do unless it is a 500 or a 504.
EffectOf(r) ==
  call[r] # None /\ Op(r) \in Writes =>
    /\ runs[r] <= 1
    /\ sv[r] \in {"arrived", "invalid", "work"} => runs[r] = 0
    /\ sv[r] = "replied" => Matches(reply[r].status, runs[r])
    /\ ans[r] # None =>
         /\ Matches(ans[r].status, runs[r])
         /\ sv[r] \in {"arrived", "invalid", "work"} => ans[r].status \in {500, 504}
EffectInv == \A r \in Request : EffectOf(r)

LEMMA EffectInit == Init => EffectInv
  BY DEF Init, EffectInv, EffectOf

\* Which variables a step of one request leaves alone for another.
LEMMA OtherRequests ==
  ASSUME TypeOK, Flow, NEW x \in Request, RequestStep(x), NEW r \in Request, r # x
  PROVE  /\ call'[r] = call[r] /\ at'[r] = at[r] /\ sv'[r] = sv[r] /\ ans'[r] = ans[r]
         /\ reply'[r] = reply[r] /\ runs'[r] = runs[r] /\ seen'[r] = seen[r]
         /\ page'[r] = page[r]
  <1>1. CASE Send(x)
    BY <1>1 DEF Send, TypeOK, Move, data
  <1>2. CASE GatewayAnswers(x)
    BY <1>2 DEF GatewayAnswers, Answered, TypeOK, Move, data, clientVars
  <1>3. CASE GatewayPasses(x) \/ RouteInvalid(x) \/ Forwards(x) \/ Relay(x)
    BY <1>3 DEF GatewayPasses, RouteInvalid, Forwards, Relay, TypeOK, Move, data, clientVars
  <1>4. CASE Repeat(x) \/ ServiceBegins(x) \/ HandleInvalid(x)
    BY <1>4 DEF Repeat, ServiceBegins, HandleInvalid, TypeOK, Move, data, clientVars
  <1>5. CASE ServiceReplies(x)
    <2>1. /\ UNCHANGED <<clientVars, at, ans>> /\ (UNCHANGED data \/ Effect(x))
          /\ \E a \in Answer, q \in Request \cup {None} : Replied(x, a, q)
      BY <1>5 DEF ServiceReplies
    <2>2. sv'[r] = sv[r] /\ reply'[r] = reply[r]
      BY <2>1 DEF Replied, TypeOK, Move
    <2>3. runs'[r] = runs[r] /\ page'[r] = page[r]
      <3>1. CASE UNCHANGED data
        BY <3>1 DEF data
      <3>2. CASE Effect(x)
        BY <3>2 DEF Effect, OnPages, TypeOK, Move
      <3> QED
        BY <2>1, <3>1, <3>2
    <2> QED
      BY <2>1, <2>2, <2>3 DEF clientVars
  <1> QED
    BY <1>1, <1>2, <1>3, <1>4, <1>5 DEF RequestStep

LEMMA EffectNext == TypeOK /\ Flow /\ EffectInv /\ [Next]_vars => EffectInv'
  <1> SUFFICES ASSUME TypeOK, Flow, EffectInv, [Next]_vars, NEW r \in Request
               PROVE  EffectOf(r)'
    BY DEF EffectInv
  <1>1. EffectOf(r) /\ FlowOf(r)
    BY DEF EffectInv, Flow
  <1>2. ASSUME NEW x \in Request, RequestStep(x), x # r PROVE EffectOf(r)'
    BY <1>1, <1>2, OtherRequests DEF EffectOf, Op
  <1>3. CASE Send(r)
    <2>1. UNCHANGED <<ans, reply, runs>> /\ sv'[r] \in {"none", "arrived"} /\ at[r] = "idle"
      BY <1>1, <1>3 DEF Send, TypeOK, Move, FlowOf, data
    <2> QED
      BY <1>1, <2>1 DEF EffectOf, FlowOf
  <1>4. CASE GatewayAnswers(r)
    <2>1. PICK a \in Answer, q \in Request \cup {None} :
            /\ Answered(r, a, q) /\ at[r] \in {"gate", "route", "invalid", "wait"}
            /\ a.status \notin Success /\ (at[r] = "wait" => a.status \in {500, 504})
            /\ UNCHANGED <<clientVars, sv, reply, data>>
      BY <1>4 DEF GatewayAnswers
    <2>2. ans'[r].status = a.status
      BY <2>1, AnsweredEffect
    <2>3. at[r] # "wait" => sv[r] = "none" /\ runs[r] = 0
      BY <1>1, <2>1 DEF FlowOf
    <2> QED
      BY <1>1, <2>1, <2>2, <2>3 DEF EffectOf, Matches, Op, clientVars, data
  <1>5. CASE GatewayPasses(r) \/ RouteInvalid(r)
    BY <1>1, <1>5 DEF GatewayPasses, RouteInvalid, EffectOf, Op, clientVars, data
  <1>6. CASE Forwards(r)
    <2>1. /\ UNCHANGED <<call, ans, reply, runs>> /\ runs[r] = 0 /\ ans[r] = None
          /\ sv'[r] = "arrived"
      BY <1>1, <1>6 DEF Forwards, FlowOf, clientVars, data, TypeOK, Move
    <2> QED
      BY <1>1, <2>1 DEF EffectOf, Op
  <1>7. CASE Relay(r)
    <2>1. /\ UNCHANGED <<call, sv, reply, runs>> /\ ans'[r] = reply[r] /\ sv[r] = "replied"
      BY <1>7 DEF Relay, clientVars, data, TypeOK, Move
    <2> QED
      BY <1>1, <2>1 DEF EffectOf, Op
  <1>8. CASE Repeat(r)
    <2>1. Op(r) \notin Writes /\ call' = call
      BY <1>8 DEF Repeat, Repeated, Writes, Notifications, NamedNotification, clientVars
    <2> QED
      BY <2>1 DEF EffectOf, Op
  <1>9. CASE ServiceBegins(r) \/ HandleInvalid(r)
    <2>1. /\ UNCHANGED <<call, ans, reply, runs>> /\ sv[r] = "arrived"
          /\ sv'[r] \in {"work", "invalid"}
      BY <1>9 DEF ServiceBegins, HandleInvalid, clientVars, data, TypeOK, Move
    <2> QED
      BY <1>1, <2>1 DEF EffectOf, Op
  <1>10. CASE ServiceReplies(r)
    <2> SUFFICES ASSUME Op(r) \in Writes, call[r] # None PROVE EffectOf(r)'
      BY <1>10 DEF ServiceReplies, EffectOf, Op, clientVars
    <2>1. PICK a \in Answer, q \in Request \cup {None} :
            /\ Replied(r, a, q) /\ sv[r] \in {"arrived", "invalid", "work"}
            /\ \/ UNCHANGED data /\ a.status \notin Success
               \/ Effect(r) /\ a.status \in Success \cup {500}
            /\ UNCHANGED <<clientVars, ans>>
      BY <1>10 DEF ServiceReplies
    <2>2. /\ reply'[r].status = a.status /\ sv'[r] = "replied"
      BY <2>1, RepliedEffect
    <2>3. runs[r] = 0 /\ (ans[r] # None => ans[r].status \in {500, 504})
      BY <1>1, <2>1 DEF EffectOf
    <2>4. \/ runs'[r] = 0 /\ a.status \notin Success
          \/ runs'[r] = 1 /\ a.status \in Success \cup {500}
      <3>1. call[r] \in Call
        BY <2>1, CallTyped
      <3>2. CASE UNCHANGED data
        BY <2>1, <2>3, <3>2, EffectTyped, <3>1 DEF data, MaxRuns
      <3>3. CASE Effect(r) /\ a.status \in Success \cup {500}
        BY <2>3, <3>1, <3>3, EffectTyped DEF MaxRuns
      <3> QED
        BY <2>1, <2>3, <3>2, <3>3 DEF data
    <2> QED
      BY <2>1, <2>2, <2>3, <2>4 DEF EffectOf, Matches, Success, clientVars
  <1>11. CASE EndSession \/ AddLog \/ UNCHANGED vars \/ \E p \in Process : StartOrStop(p)
    <2>1. UNCHANGED <<call, sv, ans, reply, runs>>
      BY <1>11 DEF EndSession, AddLog, vars, StartOrStop, progress, clientVars, data
    <2> QED
      BY <1>1, <2>1 DEF EffectOf, Op
  <1>12. ASSUME NEW p \in Process, Ends(p) PROVE EffectOf(r)'
    <2>1. UNCHANGED <<call, ans, reply, runs>> /\ sv'[r] \in {"killed", sv[r]}
      BY <1>12 DEF Ends, clientVars, data
    <2> QED
      BY <1>1, <2>1 DEF EffectOf, Op
  <1> QED
    BY <1>2, <1>3, <1>4, <1>5, <1>6, <1>7, <1>8, <1>9, <1>10, <1>11, <1>12, StepKinds
    DEF RequestStep

\* EffectsMatchAnswers: a write is done at most once, a success means that it was done and
\* a refusal that it was not, whatever is killed, times out or is repeated on the way.
THEOREM AnswersTellEffects == Spec => []EffectsMatchAnswers
  <1>1. EffectInv /\ TypeOK /\ Flow /\ [Next]_vars => EffectInv'
    BY EffectNext
  <1>2. EffectInv => EffectsMatchAnswers
    BY DEF EffectInv, EffectOf, EffectsMatchAnswers, Matches
  <1> QED
    BY EffectInit, TypesInvariant, <1>1, <1>2, PTL DEF Spec

(***************************************************************************)
(* The metadata of an answer.                                              *)
(***************************************************************************)

\* What was finished when a request was sent stays so.
SeenInv == \A r \in Request : \A q \in seen[r] : Finished(q)

\* q is r, or it was in flight at the same time.
Fresh(q, r) ==
  /\ q \in Request /\ at[q] # "idle"
  /\ q # r => q \notin seen[r] /\ r \notin seen[q]

MetaOf(r) ==
  /\ at[r] = "invalid" => Fresh(meta["gateway"], r)
  /\ sv[r] = "invalid" => IsDirect(r) /\ Fresh(meta[Service(r)], r)
  /\ sv[r] = "replied" /\ reply[r].code = "ErrValidationFailed" => Fresh(reply[r].meta, r)
  /\ ans[r] # None /\ ans[r].code = "ErrValidationFailed" => Fresh(ans[r].meta, r)
MetaInv == \A r \in Request : MetaOf(r)

LEMMA SeenInit == Init => SeenInv /\ MetaInv
  BY DEF Init, SeenInv, MetaInv, MetaOf

\* A request does not come back to idle, and only Send changes what it has seen.
LEMMA RequestsGoOn ==
  ASSUME TypeOK, Flow, [Next]_vars, NEW r \in Request
  PROVE  /\ at[r] # "idle" => at'[r] # "idle" /\ seen'[r] = seen[r]
         /\ Finished(r) => Finished(r)'
         /\ seen'[r] # seen[r] => at[r] = "idle" /\ seen'[r] = {q \in Request : Finished(q)}
  <1>1. ASSUME NEW x \in Request, RequestStep(x), x # r
        PROVE  at'[r] = at[r] /\ seen'[r] = seen[r]
    BY <1>1, OtherRequests
  <1>2. CASE Send(r)
    BY <1>2 DEF Send, TypeOK, Move, Finished
  <1>3. CASE RequestStep(r) /\ ~Send(r)
    <2>1. seen' = seen
      BY <1>3 DEF RequestStep, GatewayAnswers, GatewayPasses, RouteInvalid, Forwards, Relay,
         Repeat, ServiceBegins, HandleInvalid, ServiceReplies, clientVars
    <2>2. CASE GatewayAnswers(r)
      BY <2>1, <2>2, AnsweredEffect DEF GatewayAnswers, Finished
    <2>3. CASE ~GatewayAnswers(r)
      BY <1>3, <2>1, <2>3
      DEF RequestStep, GatewayPasses, RouteInvalid, Forwards, Relay, Repeat, ServiceBegins,
          HandleInvalid, ServiceReplies, TypeOK, Move, Finished
    <2> QED
      BY <2>2, <2>3
  <1>4. CASE EndSession \/ AddLog \/ UNCHANGED vars \/ \E p \in Process : StartOrStop(p)
    <2>1. UNCHANGED <<at, seen>>
      BY <1>4 DEF EndSession, AddLog, vars, StartOrStop, progress, clientVars
    <2> QED
      BY <2>1 DEF Finished
  <1>5. ASSUME NEW p \in Process, Ends(p)
        PROVE  at'[r] \in {"lost", at[r]} /\ seen'[r] = seen[r]
    BY <1>5 DEF Ends, clientVars
  <1> QED
    BY <1>1, <1>2, <1>3, <1>4, <1>5, StepKinds DEF Finished

LEMMA SeenNext == TypeOK /\ Flow /\ SeenInv /\ [Next]_vars => SeenInv'
  <1> SUFFICES ASSUME TypeOK, Flow, SeenInv, [Next]_vars,
                      NEW r \in Request, NEW q \in seen'[r]
               PROVE  Finished(q)'
    BY DEF SeenInv
  <1>1. q \in Request /\ Finished(q)
    <2>1. CASE seen'[r] = seen[r]
      BY <2>1 DEF SeenInv, TypeOK
    <2>2. CASE seen'[r] # seen[r]
      BY <2>2, RequestsGoOn
    <2> QED
      BY <2>1, <2>2
  <1> QED
    BY <1>1, RequestsGoOn

LEMMA StaysFresh ==
  ASSUME TypeOK, Flow, [Next]_vars, NEW r \in Request, at[r] # "idle",
         NEW q \in Request, Fresh(q, r)
  PROVE  Fresh(q, r)'
  BY RequestsGoOn DEF Fresh

\* Two requests that are both unfinished are in flight at the same time.
LEMMA UnfinishedAreFresh ==
  ASSUME SeenInv, NEW r \in Request, NEW q \in Request, at[q] # "idle",
         ~Finished(r), ~Finished(q)
  PROVE  Fresh(q, r)
  BY DEF SeenInv, Fresh

LEMMA MetaNext == TypeOK /\ Flow /\ SeenInv /\ MetaInv /\ [Next]_vars => MetaInv'
  <1> SUFFICES ASSUME TypeOK, Flow, SeenInv, MetaInv, [Next]_vars, NEW r \in Request
               PROVE  MetaOf(r)'
    BY DEF MetaInv
  <1>1. MetaOf(r) /\ FlowOf(r)
    BY DEF MetaInv, Flow
  <1>2. ASSUME at[r] # "idle", NEW q, Fresh(q, r) PROVE Fresh(q, r)'
    BY <1>2, StaysFresh DEF Fresh
  <1>3. CASE UNCHANGED <<call, at, sv, ans, reply, meta>>
    BY <1>1, <1>2, <1>3 DEF MetaOf, FlowOf, IsDirect, Service, Op
  <1>4. ASSUME NEW x \in Request, RequestStep(x), x # r, UNCHANGED meta PROVE MetaOf(r)'
    BY <1>1, <1>2, <1>4, OtherRequests DEF MetaOf, FlowOf, IsDirect, Service, Op
  <1>5. ASSUME NEW x \in Request, x # r, RouteInvalid(x) \/ HandleInvalid(x) PROVE MetaOf(r)'
    <2>1. /\ UNCHANGED <<call, ans, reply>> /\ at'[r] = at[r] /\ sv'[r] = sv[r]
      BY <1>5, OtherRequests DEF RequestStep, RouteInvalid, HandleInvalid, clientVars
    <2>2. at[x] # "idle" /\ ~Finished(x)
      <3>1. FlowOf(x)
        BY DEF Flow
      <3> QED
        BY <1>5, <3>1 DEF RouteInvalid, HandleInvalid, FlowOf, Finished
    <2>3. ~Finished(r) => Fresh(x, r)
      BY <2>2, UnfinishedAreFresh
    <2>4. \A p \in Process : meta'[p] \in {x, meta[p]}
      BY <1>5 DEF RouteInvalid, HandleInvalid, SetMeta, Move, TypeOK
    <2>5. \A p \in Process : Fresh(meta[p], r) /\ ~Finished(r) => Fresh(meta'[p], r)
      BY <2>3, <2>4
    <2>6. "gateway" \in Process /\ Service(r) \in Process
      BY ProcessesTyped DEF Service
    <2> QED
      BY <1>1, <1>2, <2>1, <2>5, <2>6 DEF MetaOf, FlowOf, IsDirect, Service, Op, Finished
  <1>6. CASE Send(r)
    <2>1. UNCHANGED <<ans, reply, meta>> /\ sv'[r] \in {"none", "arrived"}
          /\ at'[r] \in {"gate", "wait"} /\ ans[r] = None
      BY <1>1, <1>6 DEF Send, TypeOK, Move, FlowOf
    <2> QED
      BY <2>1 DEF MetaOf
  <1>7. CASE GatewayAnswers(r)
    <2>1. PICK a \in Answer, q \in Request \cup {None} :
            /\ Answered(r, a, q) /\ at[r] \in {"gate", "route", "invalid", "wait"}
            /\ a.code = "ErrValidationFailed" => at[r] = "invalid" /\ q = meta["gateway"]
            /\ UNCHANGED <<clientVars, sv, reply, meta>>
      BY <1>7 DEF GatewayAnswers
    <2>2. at'[r] = "done" /\ ans'[r].code = a.code /\ ans'[r].meta = q
      BY <2>1, AnsweredEffect
    <2> QED
      BY <1>1, <1>2, <2>1, <2>2 DEF MetaOf, IsDirect, Service, Op, clientVars
  <1>8. CASE RouteInvalid(r)
    <2>1. /\ UNCHANGED <<call, sv, ans, reply>> /\ meta'["gateway"] = r /\ at[r] = "route"
          /\ sv[r] = "none" /\ ans[r] = None
      BY <1>1, <1>8, ProcessesTyped DEF RouteInvalid, SetMeta, Move, TypeOK, FlowOf, clientVars
    <2>2. Fresh(r, r)'
      BY <1>2, <2>1 DEF Fresh
    <2> QED
      BY <2>1, <2>2 DEF MetaOf
  <1>9. CASE HandleInvalid(r)
    <2>1. /\ UNCHANGED <<call, at, ans, reply>> /\ meta'[Service(r)] = r /\ sv'[r] = "invalid"
          /\ at[r] = "wait" /\ IsDirect(r) /\ Service(r)' = Service(r) /\ IsDirect(r)' = IsDirect(r)
      BY <1>1, <1>9, ProcessesTyped
      DEF HandleInvalid, SetMeta, Move, TypeOK, FlowOf, clientVars, Service, IsDirect, Op
    <2>2. Fresh(r, r)' /\ ans[r] = None
      BY <1>1, <1>2, <2>1 DEF Fresh, FlowOf
    <2> QED
      BY <2>1, <2>2 DEF MetaOf
  <1>10. CASE ServiceReplies(r)
    <2>1. PICK a \in Answer, q \in Request \cup {None} :
            /\ Replied(r, a, q) /\ sv[r] \in {"arrived", "invalid", "work"}
            /\ a.code = "ErrValidationFailed" => sv[r] = "invalid" /\ q = meta[Service(r)]
            /\ UNCHANGED <<clientVars, at, ans, meta>>
      BY <1>10 DEF ServiceReplies
    <2>2. sv'[r] = "replied" /\ reply'[r].code = a.code /\ reply'[r].meta = q
      BY <2>1, RepliedEffect
    <2> QED
      BY <1>1, <1>2, <2>1, <2>2 DEF MetaOf, FlowOf
  <1>11. CASE GatewayPasses(r) \/ Forwards(r) \/ Repeat(r) \/ ServiceBegins(r)
    <2>1. /\ UNCHANGED <<call, ans, reply, meta>> /\ sv'[r] \in {"none", "arrived", "work"}
          /\ at'[r] \in {"route", at[r], "wait"} /\ at'[r] # "invalid"
      BY <1>1, <1>11
      DEF GatewayPasses, Forwards, Repeat, ServiceBegins, Move, TypeOK, FlowOf, clientVars
    <2> QED
      BY <1>1, <1>2, <2>1 DEF MetaOf, FlowOf
  <1>12. CASE Relay(r)
    <2>1. /\ UNCHANGED <<call, sv, reply, meta>> /\ sv[r] = "replied" /\ at[r] = "wait"
          /\ ans'[r] = reply[r] /\ at'[r] = "done"
      BY <1>12 DEF Relay, Move, TypeOK, clientVars
    <2> QED
      BY <1>1, <1>2, <2>1 DEF MetaOf
  <1>13. CASE EndSession \/ AddLog \/ UNCHANGED vars \/ \E p \in Process : StartOrStop(p)
    BY <1>3, <1>13 DEF EndSession, AddLog, vars, StartOrStop, progress, clientVars
  <1>14. ASSUME NEW p \in Process, Ends(p) PROVE MetaOf(r)'
    <2>1. /\ UNCHANGED <<call, ans, reply>> /\ at'[r] \in {"lost", at[r]}
          /\ sv'[r] \in {"killed", sv[r]}
          /\ \A x \in Process \ {p} : meta'[x] = meta[x]
      BY <1>14 DEF Ends, Move, clientVars, TypeOK
    <2>2. at'[r] = "invalid" => p # "gateway"
      BY <1>1, <1>14 DEF Ends, AtGateway, FlowOf, Finished
    <2>3. sv'[r] = "invalid" => p # Service(r)
      BY <1>14 DEF Ends, AtService
    <2>4. "gateway" \in Process /\ Service(r) \in Process
      BY ProcessesTyped DEF Service
    <2> QED
      BY <1>1, <1>2, <2>1, <2>2, <2>3, <2>4 DEF MetaOf, FlowOf, IsDirect, Service, Op
  <1>15. ASSUME NEW x \in Request, RequestStep(x) PROVE MetaOf(r)'
    <2>1. ~(RouteInvalid(x) \/ HandleInvalid(x)) => UNCHANGED meta
      BY <1>15 DEF RequestStep, Send, GatewayAnswers, GatewayPasses, Forwards, Relay, Repeat,
         ServiceBegins, ServiceReplies
    <2> QED
      BY <1>4, <1>5, <1>6, <1>7, <1>8, <1>9, <1>10, <1>11, <1>12, <1>15, <2>1 DEF RequestStep
  <1> QED
    BY <1>13, <1>14, <1>15, StepKinds

\* NoStaleMeta: an answer carries the metadata of its own request or of one in flight at
\* the same time, though one variable of the process serves all of them.
THEOREM MetaIsOfItsTime == Spec => []NoStaleMeta
  <1>1. SeenInv /\ MetaInv /\ TypeOK /\ Flow /\ [Next]_vars => SeenInv' /\ MetaInv'
    BY SeenNext, MetaNext
  <1>2. MetaInv => NoStaleMeta
    BY NoneAssumption DEF MetaInv, MetaOf, NoStaleMeta, Fresh
  <1> QED
    BY SeenInit, TypesInvariant, <1>1, <1>2, PTL DEF Spec

(***************************************************************************)
(* Pages of a reader.                                                      *)
(***************************************************************************)
Listed(r) == call[r] # None /\ Op(r) = "auditList" /\ page[r].rows # {}

\* A page was cut from the log as it was, which has only grown since, and more so for a
\* page that was asked for later.
PagesOf(r) ==
  /\ call[r] = None => page[r].rows = {}
  /\ Listed(r) =>
       /\ Accepted(Limit(call[r]), Offset(call[r]))
       /\ page[r].of <= Len(log)
       /\ PageOf(log, page[r].rows, page[r].of, Int32(Offset(call[r])), Int32(Limit(call[r])))
       /\ \A q \in seen[r] : Listed(q) => page[q].of <= page[r].of
PageInv == \A r \in Request : PagesOf(r)

LEMMA PageInit == Init => PageInv
  BY DEF Init, PageInv, PagesOf, Listed

\* Which steps change a page or the log.
LEMMA LogGrows ==
  ASSUME TypeOK, Flow, [Next]_vars
  PROVE  /\ Len(log) \in Nat /\ Len(log') \in Nat /\ Len(log) <= Len(log')
         /\ \A i \in 1 .. Len(log) : log'[i] = log[i]
  <1>1. log' = log \/ \E t \in Nat : log' = Append(log, t)
    <2>1. ASSUME NEW r \in Request, RequestStep(r) PROVE log' = log
      BY <2>1 DEF RequestStep, Send, GatewayAnswers, GatewayPasses, RouteInvalid, Forwards, Relay,
         Repeat, ServiceBegins, HandleInvalid, ServiceReplies, Effect, data
    <2>2. CASE EndSession \/ UNCHANGED vars \/ \E p \in Process : StartOrStop(p) \/ Ends(p)
      BY <2>2 DEF EndSession, vars, StartOrStop, Ends, data
    <2>3. CASE AddLog
      <3>1. Latest \in Nat
        BY DEF Latest, TypeOK, LogTypeOK
      <3> QED
        BY <2>3, <3>1 DEF AddLog, CreateLog
    <2> QED
      BY <2>1, <2>2, <2>3, StepKinds
  <1>2. log \in Seq(Nat)
    BY DEF TypeOK, LogTypeOK
  <1> QED
    BY <1>1, <1>2

LEMMA PagesStay ==
  ASSUME TypeOK, Flow, [Next]_vars, NEW r \in Request
  PROVE  \/ page'[r] = page[r]
         \/ ServiceReplies(r) /\ Effect(r)
  <1>1. ASSUME NEW x \in Request, RequestStep(x), x # r PROVE page'[r] = page[r]
    BY <1>1, OtherRequests
  <1>2. CASE RequestStep(r)
    BY <1>2 DEF RequestStep, Send, GatewayAnswers, GatewayPasses, RouteInvalid, Forwards, Relay,
         Repeat, ServiceBegins, HandleInvalid, ServiceReplies, data
  <1>3. CASE \/ EndSession \/ AddLog \/ UNCHANGED vars
             \/ \E p \in Process : StartOrStop(p) \/ Ends(p)
    BY <1>3 DEF EndSession, AddLog, vars, StartOrStop, Ends, data
  <1> QED
    BY <1>1, <1>2, <1>3, StepKinds

LEMMA CallStays ==
  ASSUME TypeOK, Flow, [Next]_vars, NEW r \in Request
  PROVE  call'[r] = call[r] \/ Send(r)
  <1>1. ASSUME NEW x \in Request, RequestStep(x), x # r PROVE call'[r] = call[r]
    BY <1>1, OtherRequests
  <1>2. CASE RequestStep(r)
    BY <1>2 DEF RequestStep, GatewayAnswers, GatewayPasses, RouteInvalid, Forwards, Relay,
         Repeat, ServiceBegins, HandleInvalid, ServiceReplies, clientVars
  <1>3. CASE \/ EndSession \/ AddLog \/ UNCHANGED vars
             \/ \E p \in Process : StartOrStop(p) \/ Ends(p)
    BY <1>3 DEF EndSession, AddLog, vars, StartOrStop, Ends, clientVars
  <1> QED
    BY <1>1, <1>2, <1>3, StepKinds

\* A finished request's page is final: the audit log is asked past the gateway, by a
\* client that waits.
LEMMA FinishedPagesStay ==
  ASSUME TypeOK, Flow, [Next]_vars, NEW r \in Request, Finished(r)
  PROVE  /\ call'[r] = call[r]
         /\ Op(r) = "auditList" => page'[r] = page[r]
  <1>1. FlowOf(r)
    BY DEF Flow
  <1>2. call'[r] = call[r]
    BY CallStays DEF Send, Finished
  <1>3. Op(r) = "auditList" => ~ServiceReplies(r)
    BY <1>1 DEF ServiceReplies, FlowOf, IsDirect, Direct, Audit, Finished
  <1> QED
    BY <1>2, <1>3, PagesStay

LEMMA PageNext == TypeOK /\ Flow /\ SeenInv /\ PageInv /\ [Next]_vars => PageInv'
  <1> SUFFICES ASSUME TypeOK, Flow, SeenInv, PageInv, [Next]_vars, NEW r \in Request
               PROVE  PagesOf(r)'
    BY DEF PageInv
  <1>1. FlowOf(r) /\ PagesOf(r) /\ page[r].of \in Nat
    BY DEF Flow, PageInv, TypeOK
  \* The pages that r's reader has seen.
  <1>2. ASSUME at[r] # "idle", NEW q \in seen'[r], Listed(q)'
        PROVE  q \in seen[r] /\ q \in Request /\ Listed(q) /\ page'[q] = page[q]
    <2>1. q \in seen[r] /\ q \in Request /\ Finished(q) /\ FlowOf(q)
      BY <1>2, RequestsGoOn DEF SeenInv, TypeOK, Flow
    <2>2. call[q] # None /\ call'[q] = call[q]
      BY <2>1, FinishedPagesStay DEF FlowOf, Finished
    <2> QED
      BY <1>2, <2>1, <2>2, FinishedPagesStay DEF Listed, Op
  <1>3. CASE call'[r] = call[r] /\ page'[r] = page[r]
    <2>1. call[r] # None <=> at[r] # "idle"
      BY <1>1 DEF FlowOf
    <2>2. ASSUME Listed(r)
          PROVE  /\ page[r].of <= Len(log')
                 /\ PageOf(log', page[r].rows, page[r].of, Int32(Offset(call[r])),
                           Int32(Limit(call[r])))
      <3>1. page[r].of <= Len(log) /\ 1 .. page[r].of \subseteq 1 .. Len(log)
        BY <1>1, <2>2, LogGrows DEF PagesOf
      <3>2. \A i \in 1 .. page[r].of : log'[i] = log[i]
        BY <3>1, LogGrows
      <3>3. page[r].of <= Len(log')
        BY <1>1, <3>1, LogGrows
      <3> QED
        BY <1>1, <2>2, <3>2, <3>3, PageStays DEF PagesOf
    <2>3. ASSUME Listed(r), NEW q \in seen'[r], Listed(q)' PROVE page'[q].of <= page[r].of
      BY <1>1, <1>2, <2>1, <2>3 DEF PagesOf, Listed
    <2>4. Listed(r)' <=> Listed(r)
      BY <1>3 DEF Listed, Op
    <2> QED
      BY <1>1, <1>3, <2>2, <2>3, <2>4 DEF PagesOf, Listed, Accepted
  <1>4. CASE Send(r)
    <2>1. page'[r] = page[r] /\ page[r].rows = {}
      BY <1>1, <1>4 DEF Send, data, PagesOf, FlowOf
    <2> QED
      BY <2>1 DEF PagesOf, Listed
  <1>5. CASE ServiceReplies(r) /\ Effect(r)
    <2>1. /\ call'[r] = call[r] /\ Op(r)' = Op(r) /\ call[r] # None /\ at[r] # "idle"
          /\ call[r] \in Call /\ log' = log
      BY <1>1, <1>5, CallTyped DEF ServiceReplies, Effect, clientVars, FlowOf, Op
    <2>2. CASE Op(r) # "auditList"
      BY <2>1, <2>2 DEF PagesOf, Listed
    <2>3. CASE Op(r) = "auditList"
      <3>1. Accepted(Limit(call[r]), Offset(call[r]))
        BY <1>5, <2>3 DEF Effect, OnPages
      <3>2. PICK s \in GetAllLogs(Limit(call[r]), Offset(call[r])) :
              page' = Move(page, r, [rows |-> s, of |-> Len(log)])
        BY <1>5, <2>3 DEF Effect, OnPages
      <3>3. page'[r].rows = s /\ page'[r].of = Len(log)
        BY <3>2 DEF Move, TypeOK
      <3>4. Limit(call[r]) \in Int /\ Offset(call[r]) \in Int /\ LogTypeOK /\ Len(log) \in Nat
        BY <2>1, BoundsTyped DEF TypeOK, LogTypeOK
      <3>5. PageOf(log, s, Len(log), Int32(Offset(call[r])), Int32(Limit(call[r])))
        BY <3>4, QueryReturnsPage
      <3>6. ASSUME NEW q \in seen'[r], Listed(q)' PROVE page'[q].of <= page'[r].of
        <4>1. q \in Request /\ Listed(q) /\ page'[q] = page[q] /\ PagesOf(q)
          BY <1>2, <2>1, <3>6 DEF PageInv
        <4> QED
          BY <3>3, <4>1 DEF PagesOf
      <3> QED
        BY <2>1, <3>1, <3>3, <3>4, <3>5, <3>6 DEF PagesOf, Accepted
    <2> QED
      BY <2>2, <2>3
  <1> QED
    BY <1>3, <1>4, <1>5, CallStays, PagesStay

\* PagesPassOverNothing: a page and the next one, asked for after it, show every row
\* between them, though rows are added and limits and offsets wrap around.
THEOREM NextPageMeetsFirst == Spec => []PagesPassOverNothing
  <1>1. TypeOK /\ Flow /\ SeenInv /\ PageInv => PagesPassOverNothing
    <2> SUFFICES ASSUME TypeOK, Flow, SeenInv, PageInv,
                        NEW r \in Request, NEW q \in seen[r],
                        Op(q) = "auditList", Op(r) = "auditList",
                        Offset(call[r]) = Offset(call[q]) + Limit(call[q]),
                        page[q].rows # {},
                        NEW i \in 1 .. page[q].of,
                        \A j \in page[q].rows : log[i] < log[j],
                        \E j \in page[r].rows : log[j] < log[i]
                 PROVE  i \in page[r].rows
      BY DEF PagesPassOverNothing
    <2>1. q \in Request /\ PagesOf(q) /\ PagesOf(r) /\ log \in Seq(Nat)
      BY DEF TypeOK, PageInv, LogTypeOK
    <2>2. Listed(q) /\ Listed(r) /\ call[q] \in Call /\ call[r] \in Call
      BY <2>1 DEF Listed, PagesOf, TypeOK
    <2> DEFINE a == Int32(Offset(call[q]))
               b == Int32(Limit(call[q]))
               c == Int32(Limit(call[r]))
               d == Int32(Offset(call[r]))
    <2>3. /\ Limit(call[q]) \in Int /\ Offset(call[q]) \in Int /\ Offset(call[r]) \in Int
          /\ Limit(call[r]) \in Int
      BY <2>2, BoundsTyped
    <2>4. a >= 0 /\ b >= 0 /\ c >= 0 /\ d >= 0
      BY <2>1, <2>2 DEF PagesOf, Accepted
    <2>5. a \in Nat /\ b \in Nat /\ d = a + b
      BY <2>3, <2>4, OffsetsAdd
    <2>6. c \in Nat
      BY <2>3, <2>4, PagesAssumption DEF Int32
    <2>7. /\ page[q].of \in Nat /\ page[r].of \in Nat
          /\ page[q].of <= page[r].of /\ page[r].of <= Len(log)
          /\ PageOf(log, page[q].rows, page[q].of, a, b)
          /\ PageOf(log, page[r].rows, page[r].of, d, c)
      BY <2>1, <2>2, <2>5 DEF PagesOf, TypeOK
    <2> DEFINE m == page[q].of
               n == page[r].of
               P == page[q].rows
               Q == page[r].rows
    <2>8. /\ m \in Nat /\ n \in Nat /\ m <= n /\ n <= Len(log) /\ P # {} /\ i \in 1 .. m
          /\ PageOf(log, P, m, a, b) /\ PageOf(log, Q, n, d, c)
          /\ OlderThan(log, i, P) /\ NewerThan(log, i, Q)
      BY <2>7 DEF OlderThan, NewerThan
    <2> HIDE DEF a, b, c, d, m, n, P, Q
    <2>9. i \in Q
      BY <2>1, <2>5, <2>6, <2>8, PagesMeet
    <2> QED
      BY <2>9 DEF Q
  <1>2. SeenInv /\ PageInv /\ TypeOK /\ Flow /\ [Next]_vars => SeenInv' /\ PageInv'
    BY SeenNext, PageNext
  <1> QED
    BY SeenInit, PageInit, TypesInvariant, <1>1, <1>2, PTL DEF Spec

(***************************************************************************)
(* The table of notifications.                                             *)
(***************************************************************************)

LEMMA RowsOfStep == TypeOK /\ Flow /\ [Next]_vars => [StoreNext]_row
  <1> SUFFICES ASSUME TypeOK, Flow, [Next]_vars PROVE [StoreNext]_row
    OBVIOUS
  <1>1. ASSUME NEW r \in Request, RequestStep(r) PROVE [StoreNext]_row
    <2>1. CASE UNCHANGED data
      BY <2>1 DEF data
    <2>2. CASE ServiceReplies(r) /\ Effect(r)
      <3>1. call[r] \in Call
        BY <2>2, CallTyped DEF ServiceReplies
      <3> QED
        BY <2>2, <3>1, StatementsOfStore DEF Effect, TypeOK
    <2> QED
      BY <1>1, <2>1, <2>2
      DEF RequestStep, Send, GatewayAnswers, GatewayPasses, RouteInvalid, Forwards, Relay,
          Repeat, ServiceBegins, HandleInvalid, ServiceReplies
  <1>2. CASE \/ EndSession \/ AddLog \/ UNCHANGED vars
             \/ \E p \in Process : StartOrStop(p) \/ Ends(p)
    BY <1>2 DEF EndSession, AddLog, vars, StartOrStop, Ends, data
  <1> QED
    BY <1>1, <1>2, StepKinds

\* Whatever is stopped, killed or sent twice, what happens to the table is what the
\* statements of the store do, one at a time.
THEOREM RequestsRunStatements == Spec => StoreSpec
  <1>1. Init => StoreInit
    BY PlansAssumption DEF Init, StoreInit
  <1> QED
    BY <1>1, TypesInvariant, RowsOfStep, PTL DEF Spec, StoreSpec

\* No statement removes a row or gives it away: deleting for good and clearing the trash
\* included.
THEOREM StatementsKeepRows == StoreSpec => RowsAreKept
  <1>1. StoreInit => StoreTypeOK
    BY DEF StoreInit, StoreTypeOK
  <1>2. StoreTypeOK /\ [StoreNext]_row =>
          /\ StoreTypeOK'
          /\ [\A i \in Id : Exists(i) => row'[i] # NoRow /\ row'[i].user = row[i].user]_row
    BY RowsOfStatement
  <1> QED
    BY <1>1, <1>2, PTL DEF StoreSpec, RowsAreKept

(***************************************************************************)
(* What was moved to the trash.                                            *)
(***************************************************************************)

\* The request q moves a notification out of sight, and nobody asks for it back.
Hides(q) ==
  /\ call[q] # None /\ Op(q) \in {"trash", "delete"}
  /\ \A s \in Request : call[s] # None /\ Op(s) \in {"restore", "send"} =>
                        call[s].id # call[q].id

Shown(i, u) == i \in Id /\ Owned(i, u) /\ Visible(i)

RowHidden(q) == Hides(q) /\ runs[q] # 0 => ~Shown(call[q].id, call[q].user)

ListHides(r) ==
  \A q \in seen[r] :
    /\ call[r] # None /\ Op(r) = "list" /\ Hides(q) /\ call[q].user = call[r].user
    /\ ans[q] # None /\ ans[q].status \in Success
    => call[q].id \notin page[r].rows

HiddenInv == \A r \in Request : RowHidden(r) /\ ListHides(r)

LEMMA HiddenInit == Init => HiddenInv
  BY DEF Init, HiddenInv, RowHidden, ListHides

\* A row that is not shown is not shown after a statement either, but for an insert.
LEMMA HiddenStays ==
  ASSUME StoreTypeOK, NEW c \in Call, OnNotifications(c), NEW i, NEW u,
         ~Shown(i, u), c.e = "send" => c.id # i
  PROVE  ~Shown(i, u)'
  <1>1. CASE i \notin Id
    BY <1>1 DEF Shown
  <1>2. CASE i \in Id /\ Exists(i)
    <2>1. /\ row'[i].user = row[i].user
          /\ row[i].trashed => row'[i] = row[i]
      BY <1>2, StatementsOfStore, RowsOfStatement
    <2> QED
      BY <1>2, <2>1 DEF Shown, Owned, Exists, Visible
  <1>3. CASE i \in Id /\ ~Exists(i)
    <2>1. CASE c.e = "send"
      BY <1>3, <2>1 DEF OnNotifications, Create, StoreTypeOK, Shown, Owned, Exists
    <2>2. CASE c.e # "send"
      <3>1. row'[i] = row[i]
        BY <1>3, <2>2
        DEF OnNotifications, MarkAsRead, MoveToTrash, RestoreFromTrash, DeletePermanently,
            MarkAllAsRead, HardDeleteTrash, Set, Matching, Owned, Exists
      <3> QED
        BY <1>3, <3>1 DEF Shown, Owned, Exists
    <2> QED
      BY <2>1, <2>2
  <1> QED
    BY <1>1, <1>2, <1>3

\* Which steps change a row, a count of runs, or an answer.
LEMMA WorkChanges ==
  ASSUME TypeOK, Flow, [Next]_vars
  PROVE  \/ UNCHANGED <<row, runs, page>>
         \/ \E x \in Request : /\ ServiceReplies(x) /\ Effect(x) /\ UNCHANGED <<call, seen, ans>>
                              /\ \A r \in Request \ {x} : runs'[r] = runs[r] /\ page'[r] = page[r]
  <1>1. ASSUME NEW x \in Request, RequestStep(x), ~(ServiceReplies(x) /\ Effect(x))
        PROVE  UNCHANGED <<row, runs, page>>
    BY <1>1 DEF RequestStep, Send, GatewayAnswers, GatewayPasses, RouteInvalid, Forwards, Relay,
         Repeat, ServiceBegins, HandleInvalid, ServiceReplies, data
  <1>2. ASSUME NEW x \in Request, RequestStep(x), ServiceReplies(x), Effect(x)
        PROVE  /\ UNCHANGED <<call, seen, ans>>
               /\ \A r \in Request \ {x} : runs'[r] = runs[r] /\ page'[r] = page[r]
    BY <1>2, OtherRequests DEF ServiceReplies, clientVars
  <1>3. CASE \/ EndSession \/ AddLog \/ UNCHANGED vars
             \/ \E p \in Process : StartOrStop(p) \/ Ends(p)
    BY <1>3 DEF EndSession, AddLog, vars, StartOrStop, Ends, data
  <1> QED
    BY <1>1, <1>2, <1>3, StepKinds

LEMMA AnswersStay ==
  ASSUME TypeOK, Flow, [Next]_vars, NEW r \in Request, Finished(r)
  PROVE  ans'[r] = ans[r] /\ call'[r] = call[r]
  <1>1. call'[r] = call[r]
    BY CallStays DEF Send, Finished
  <1>2. ASSUME NEW x \in Request, RequestStep(x) PROVE ans'[r] = ans[r]
    <2>1. CASE x # r
      BY <1>2, <2>1, OtherRequests
    <2>2. CASE x = r
      BY <1>2, <2>2 DEF RequestStep, Send, GatewayAnswers, GatewayPasses, RouteInvalid, Forwards,
         Relay, Repeat, ServiceBegins, HandleInvalid, ServiceReplies, Finished
    <2> QED
      BY <2>1, <2>2
  <1>3. CASE EndSession \/ AddLog \/ UNCHANGED vars
    BY <1>1, <1>3 DEF EndSession, AddLog, vars, progress
  <1>4. ASSUME NEW p \in Process, StartOrStop(p) PROVE ans' = ans
    BY <1>4 DEF StartOrStop, progress
  <1>5. ASSUME NEW p \in Process, Ends(p) PROVE ans' = ans
    BY <1>5 DEF Ends, progress
  <1> QED
    BY <1>1, <1>2, <1>3, <1>4, <1>5, StepKinds

\* Calls stay, so that who hides a notification after a step did before, or begins now.
LEMMA HidesBefore ==
  ASSUME TypeOK, Flow, [Next]_vars, NEW q \in Request, Hides(q)', call'[q] = call[q]
  PROVE  Hides(q)
  <1>1. ASSUME NEW s \in Request, call[s] # None PROVE call'[s] = call[s]
    BY <1>1, CallStays DEF Send, Flow, FlowOf
  <1> QED
    BY <1>1 DEF Hides, Op

LEMMA RowHiddenNext ==
  ASSUME TypeOK, Flow, HiddenInv, [Next]_vars, NEW q \in Request
  PROVE  RowHidden(q)'
  <1> SUFFICES ASSUME Hides(q)', runs'[q] # 0 PROVE ~Shown(call[q].id, call[q].user)'
                                                   /\ call'[q] = call[q]
    BY DEF RowHidden, Shown
  <1>1. FlowOf(q) /\ RowHidden(q)
    BY DEF Flow, HiddenInv
  <1>2. CASE UNCHANGED <<row, runs, page>>
    <2>1. call'[q] = call[q]
      BY <1>1, <1>2, CallStays DEF Send, FlowOf
    <2>2. Hides(q)
      BY <2>1, HidesBefore
    <2> QED
      BY <1>1, <1>2, <2>1, <2>2 DEF RowHidden, Shown, Owned, Exists, Visible
  <1>3. ASSUME NEW x \in Request, ServiceReplies(x), Effect(x), UNCHANGED <<call, seen, ans>>,
               \A r \in Request \ {x} : runs'[r] = runs[r] /\ page'[r] = page[r]
        PROVE  ~Shown(call[q].id, call[q].user)' /\ call'[q] = call[q]
    <2>1. call'[q] = call[q] /\ Hides(q)
      BY <1>3, HidesBefore
    <2>2. call[x] \in Call /\ OnNotifications(call[x]) /\ StoreTypeOK /\ call[x] # None
      BY <1>3, CallTyped, NoneAssumption DEF ServiceReplies, Effect, TypeOK
    <2>3. CASE x = q
      <3>1. row' = [i \in Id |-> IF i = call[q].id /\ Owned(i, call[q].user) /\ Visible(i)
                                 THEN Trashed(row[i]) ELSE row[i]]
        BY <2>1, <2>2, <2>3 DEF Hides, Op, OnNotifications, MoveToTrash, DeletePermanently, Set,
           Matching
      <3>2. \A i \in Id : Owned(i, call[q].user) => Trashed(row[i]).trashed = TRUE
        BY <2>2 DEF StoreTypeOK, Row, Owned, Exists, Trashed
      <3> QED
        BY <2>1, <3>1, <3>2 DEF Shown, Owned, Exists, Visible
    <2>4. CASE x # q
      <3>1. ~Shown(call[q].id, call[q].user)
        BY <1>1, <1>3, <2>1, <2>4 DEF RowHidden
      <3>2. call[x].e = "send" => call[x].id # call[q].id
        BY <2>1, <2>2 DEF Hides, Op
      <3>3. \A i, u : (~Shown(i, u) /\ (call[x].e = "send" => call[x].id # i)) => ~Shown(i, u)'
        BY <2>2, HiddenStays
      <3> QED
        BY <2>1, <3>1, <3>2, <3>3
    <2> QED
      BY <2>3, <2>4
  <1> QED
    BY <1>2, <1>3, WorkChanges

LEMMA ListHidesNext ==
  ASSUME TypeOK, Flow, SeenInv, PageInv, EffectInv, HiddenInv, [Next]_vars, NEW r \in Request
  PROVE  ListHides(r)'
  <1> SUFFICES ASSUME NEW q \in seen'[r], call'[r] # None, Op(r)' = "list", Hides(q)',
                      call'[q].user = call'[r].user, ans'[q] # None, ans'[q].status \in Success
               PROVE  call'[q].id \notin page'[r].rows
    BY DEF ListHides
  <1>1. q \in Request /\ Finished(q) /\ FlowOf(r)
    BY RequestsGoOn DEF SeenInv, TypeOK, Flow
  <1>2. ans'[q] = ans[q] /\ call'[q] = call[q] /\ Hides(q)
    BY <1>1, AnswersStay, HidesBefore
  <1>3. CASE Send(r)
    <2>1. page'[r] = page[r] /\ page[r].rows = {}
      BY <1>1, <1>3 DEF Send, data, PageInv, PagesOf, FlowOf
    <2> QED
      BY <2>1
  <1>4. CASE ~Send(r)
    <2>1. call'[r] = call[r] /\ Op(r) = "list" /\ at[r] # "idle"
      BY <1>1, <1>4, CallStays DEF Op, FlowOf
    <2>2. q \in seen[r]
      BY <2>1, RequestsGoOn
    <2>3. CASE page'[r] = page[r]
      BY <1>2, <2>1, <2>2, <2>3 DEF HiddenInv, ListHides
    <2>4. CASE ServiceReplies(r) /\ Effect(r)
      <3>1. page'[r].rows = GetByUserID(call[r].user)
        BY <2>1, <2>4 DEF Effect, OnPages, Move, TypeOK
      <3>2. runs[q] # 0
        BY <1>1, <1>2 DEF EffectInv, EffectOf, Matches, Hides, Writes, Notifications,
           NamedNotification
      <3>3. ~Shown(call[q].id, call[q].user)
        BY <1>1, <1>2, <3>2 DEF HiddenInv, RowHidden
      <3> QED
        BY <1>2, <2>1, <3>1, <3>3 DEF GetByUserID, Matching, Shown
    <2> QED
      BY <2>3, <2>4, PagesStay
  <1> QED
    BY <1>3, <1>4

\* TrashStaysHidden: a notification whose move to the trash, or deletion, was answered with
\* success is in no list its owner asks for afterwards, whatever is stopped, killed, late or
\* repeated, unless somebody asks to restore it or to create it anew.
THEOREM TrashedIsHidden == Spec => []TrashStaysHidden
  <1>1. /\ SeenInv /\ PageInv /\ EffectInv /\ HiddenInv /\ TypeOK /\ Flow /\ [Next]_vars
        => SeenInv' /\ PageInv' /\ EffectInv' /\ HiddenInv'
    BY SeenNext, PageNext, EffectNext, RowHiddenNext, ListHidesNext DEF HiddenInv
  <1>2. TypeOK /\ Flow /\ PageInv /\ HiddenInv => TrashStaysHidden
    <2> SUFFICES ASSUME TypeOK, Flow, PageInv, HiddenInv, NEW r \in Request, NEW q \in seen[r],
                        Op(r) = "list", Op(q) \in {"trash", "delete"},
                        call[q].user = call[r].user, ans[q] # None, ans[q].status \in Success,
                        \A s \in Request : call[s] # None /\ Op(s) \in {"restore", "send"} =>
                                            call[s].id # call[q].id
                 PROVE  call[q].id \notin page[r].rows
      BY DEF TrashStaysHidden
    <2>1. q \in Request /\ call[q] # None
      BY DEF TypeOK, Flow, FlowOf
    <2>2. CASE call[r] = None
      BY <2>2 DEF PageInv, PagesOf, Listed
    <2>3. CASE call[r] # None
      BY <2>1, <2>3 DEF HiddenInv, ListHides, Hides
    <2> QED
      BY <2>2, <2>3
  <1> QED
    BY SeenInit, PageInit, EffectInit, HiddenInit, TypesInvariant, <1>1, <1>2, PTL DEF Spec
=============================================================================
