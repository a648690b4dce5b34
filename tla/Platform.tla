------------------------------ MODULE Platform ------------------------------
(***************************************************************************)
(* Requests on their way: from a client through the gateway to a service,  *)
(* to the service's store, and back, while processes are started, stopped  *)
(* and killed, sessions end and the audit worker adds rows.                *)
(*                                                                         *)
(*   at[r], at the gateway:   idle -> gate -> route -> (invalid) -> wait   *)
(*                                                         -> done / lost  *)
(*   sv[r], at the service:   none -> arrived -> (invalid) -> work         *)
(*                                                  -> replied / killed    *)
(*                                                                         *)
(* A call of an operation that the gateway has no route for goes straight  *)
(* to its service.  "invalid" is the place between two statements of       *)
(* ValidateBody: the metadata is stored in a variable of the process, and  *)
(* read from there for the answer.                                         *)
(*                                                                         *)
(* What a run lets happen is its plan, chosen at the start.                *)
(***************************************************************************)
EXTENDS Handlers, Runner, NotificationStore, AuditPages

CONSTANTS Request,         \* the requests
          Plans            \* what may happen, for each plan a record of
                           \*   calls    for each request, the calls it may be
                           \*   rows     the notifications at the start
                           \*   live     the keys of sessions at the start
                           \*   log      the audit log at the start
                           \*   proc     where each process is at the start
                           \*   stop     processes that may get a signal
                           \*   kill     processes that may be killed
                           \*   end      keys of sessions that may end by themselves
                           \*   maxLog   a bound on the audit log

Processes == {"gateway", "auth", "notify", "docs", "audit"}

Operations == SecureProxied \cup PlainProxied \cup Unrouted \cup Audit
Key == User \X {"session:", "setup:session:"}
Call == [e : Operations, user : User,
         token : {"none", "bad", "good"}, fp : {"none", "wrong", "right"},
         body : {"json", "invalid", "ok"},
         id : Id \cup {None}, limit : Int \cup {None}, offset : Int \cup {None}]

With(a, q) == [status |-> a.status, code |-> a.code, meta |-> q]
AnswerOf == {With(a, q) : a \in Answer, q \in Request \cup {None}}

ASSUME NoneAssumption ==
  /\ None \notin Request /\ None \notin Call /\ None \notin AnswerOf
  /\ None \notin AppError \cup Plain

\* At the start a process serves or is down; the database of one that serves has its seed.
ASSUME PlansAssumption ==
  /\ Processes \subseteq Process
  /\ \A p \in DOMAIN Plans :
       /\ Plans[p].calls \in [Request -> SUBSET Call]
       /\ Plans[p].rows \in [Id -> Row \cup {NoRow}]
       /\ Plans[p].live \subseteq Key
       /\ Plans[p].log \in Seq(Nat)
       /\ Plans[p].proc \in [Process -> {"down", "up"}]

VARIABLES plan,
          call,            \* call[r]: what request r asks, None before it is sent
          at, sv,          \* see above
          ans, reply,      \* the answer the client gets, and the service's
          runs,            \* history: how often r's work was done, up to MaxRuns
          live,            \* the keys of sessions in Redis
          meta,            \* meta[p]: whose metadata p's shared error carries
          page,            \* page[r]: the rows a list answered with, of how many
          seen,            \* history: the requests finished when r was sent
          gone             \* history: r's session had ended when r was sent

clientVars == <<call, seen, gone>>
progress == <<at, sv, ans, reply>>
data == <<row, live, log, runs, page>>
vars == <<plan, clientVars, progress, meta, data, runnerVars>>

MaxRuns == 2
At == {"idle", "gate", "route", "invalid", "wait", "done", "lost"}
Sv == {"none", "arrived", "invalid", "work", "replied", "killed"}

TypeOK ==
  /\ RunnerTypeOK /\ StoreTypeOK /\ LogTypeOK
  /\ plan \in DOMAIN Plans
  /\ call \in [Request -> Call \cup {None}]
  /\ at \in [Request -> At]
  /\ sv \in [Request -> Sv]
  /\ ans \in [Request -> AnswerOf \cup {None}]
  /\ reply \in [Request -> AnswerOf \cup {None}]
  /\ runs \in [Request -> 0 .. MaxRuns]
  /\ live \subseteq Key
  /\ meta \in [Process -> Request \cup {None}]
  /\ page \in [Request -> [rows : SUBSET (Id \cup Nat), of : Nat]]
  /\ seen \in [Request -> SUBSET Request]
  /\ gone \in [Request -> BOOLEAN]

Init ==
  /\ plan \in DOMAIN Plans
  /\ RunnerInit(Plans[plan].proc)
  /\ row = Plans[plan].rows /\ live = Plans[plan].live /\ log = Plans[plan].log
  /\ call = [r \in Request |-> None]
  /\ at = [r \in Request |-> "idle"] /\ sv = [r \in Request |-> "none"]
  /\ ans = [r \in Request |-> None] /\ reply = [r \in Request |-> None]
  /\ runs = [r \in Request |-> 0]
  /\ meta = [p \in Process |-> None]
  /\ page = [r \in Request |-> [rows |-> {}, of |-> 0]]
  /\ seen = [r \in Request |-> {}] /\ gone = [r \in Request |-> FALSE]

-----------------------------------------------------------------------------
(***************************************************************************)
(* Helpers.                                                                *)
(***************************************************************************)
Op(r) == call[r].e
IsDirect(r) == Op(r) \in Direct
Service(r) == To(Op(r))
HandlerOf(r) == Handler(call[r], Received(call[r]))
Move(f, r, s) == [f EXCEPT ![r] = s]
Finished(r) == at[r] \in {"done", "lost"}

AtGateway(r) == call[r] # None /\ ~IsDirect(r) /\ ~Finished(r)
\* In the hands of the service: until its answer has been read or nobody waits for it.
AtService(r) ==
  \/ sv[r] \in {"arrived", "invalid", "work"}
  \/ sv[r] = "replied" /\ at[r] = "wait"
Busy(p) == \E r \in Request :
  IF p = "gateway" THEN AtGateway(r) ELSE AtService(r) /\ Service(r) = p

\* The gateway answers r, or a service does.
Answered(r, a, q) == at' = Move(at, r, "done") /\ ans' = Move(ans, r, With(a, q))
Replied(r, a, q) == sv' = Move(sv, r, "replied") /\ reply' = Move(reply, r, With(a, q))

\* A new connection is accepted until the signal, a kept one may still deliver.
Reaches(p) == proc[p] \in {"up", "stopping"}
Refuses(p) == proc[p] # "up"

(***************************************************************************)
(* The client.                                                             *)
(***************************************************************************)
Send(r) ==
  /\ at[r] = "idle"
  /\ \E c \in Plans[plan].calls[r] :
       /\ call' = Move(call, r, c)
       /\ gone' = Move(gone, r, c.e \notin Public \cup Direct /\ <<c.user, SessionKey(c.e)>> \notin live)
       /\ IF c.e \in Direct
          THEN Reaches(To(c.e)) /\ at' = Move(at, r, "wait") /\ sv' = Move(sv, r, "arrived")
          ELSE Reaches("gateway") /\ at' = Move(at, r, "gate") /\ UNCHANGED sv
  /\ seen' = Move(seen, r, {q \in Request : Finished(q)})
  /\ UNCHANGED <<plan, ans, reply, meta, data, runnerVars>>

(***************************************************************************)
(* The gateway.                                                            *)
(***************************************************************************)

\* The limiter, the JWT, AuthRedisMiddleware and ContextBuilder.
Gate(r) ==
  /\ at[r] = "gate" /\ Running("gateway")
  /\ \E e \in BeforeRoutes(call[r], live, Open("gateway")) :
       IF e = None THEN at' = Move(at, r, "route") /\ UNCHANGED ans
       ELSE Answered(r, ErrorHandler(e), None)
  /\ UNCHANGED <<plan, clientVars, sv, reply, meta, data, runnerVars>>

\* No route, or a body that does not parse.
RouteRefuses(r) ==
  /\ at[r] = "route" /\ Running("gateway")
  /\ \/ Op(r) \in Unrouted /\ Answered(r, SendAppError("ErrNotFound"), None)
     \/ /\ Unparsable(call[r])
        /\ Answered(r, SendAppError("ErrInvalidJSON"), None)
  /\ UNCHANGED <<plan, clientVars, sv, reply, meta, data, runnerVars>>

\* ValidateBody stores the metadata in ErrValidationFailed.
SetMetaOnce(p, r) == meta' = IF meta[p] = None THEN Move(meta, p, r) ELSE meta
SetMeta(p, r) == meta' = Move(meta, p, r)

RouteInvalid(r) ==
  /\ at[r] = "route" /\ Running("gateway")
  /\ BreaksSchema(call[r])
  /\ SetMeta("gateway", r)
  /\ at' = Move(at, r, "invalid")
  /\ UNCHANGED <<plan, clientVars, sv, ans, reply, data, runnerVars>>

\* SendAppError builds the answer from it.
AnswerInvalid(r) ==
  /\ at[r] = "invalid" /\ Running("gateway")
  /\ Answered(r, SendAppError("ErrValidationFailed"), meta["gateway"])
  /\ UNCHANGED <<plan, clientVars, sv, reply, meta, data, runnerVars>>

Forward(r) ==
  /\ at[r] = "route" /\ Running("gateway")
  /\ Op(r) \notin Unrouted /\ ~Unparsable(call[r]) /\ ~BreaksSchema(call[r])
  /\ \/ /\ Reaches(Service(r))
        /\ at' = Move(at, r, "wait") /\ sv' = Move(sv, r, "arrived")
        /\ UNCHANGED ans
     \/ /\ Refuses(Service(r))
        /\ Answered(r, SendAppError("ErrUpstreamUnreachable"), None)
        /\ UNCHANGED sv
  /\ UNCHANGED <<plan, clientVars, reply, meta, data, runnerVars>>

\* The answer of the service is passed on, or read by a client that called it.
Relay(r) ==
  /\ at[r] = "wait" /\ sv[r] = "replied"
  /\ IsDirect(r) \/ Running("gateway")
  /\ at' = Move(at, r, "done") /\ ans' = Move(ans, r, reply[r])
  /\ UNCHANGED <<plan, clientVars, sv, reply, meta, data, runnerVars>>

\* The HTTP client's limit runs out.  The service goes on.
TimeOutNever(r) == FALSE
TimeOut(r) ==
  /\ at[r] = "wait" /\ ~IsDirect(r) /\ Running("gateway")
  /\ Answered(r, SendAppError("ErrUpstreamTimeout"), None)
  /\ UNCHANGED <<plan, clientVars, sv, reply, meta, data, runnerVars>>

\* The connection breaks before the answer, or while its body is copied.
CutShort(r) ==
  /\ at[r] = "wait" /\ ~IsDirect(r) /\ Running("gateway")
  /\ \/ sv[r] \in {"killed", "replied"} /\ Answered(r, SendAppError("ErrUpstreamUnreachable"), None)
     \/ sv[r] \in {"killed", "replied"} /\ Answered(r, ErrorHandler("Server"), None)
  /\ UNCHANGED <<plan, clientVars, sv, reply, meta, data, runnerVars>>

\* net/http's own second try.
Repeat(r) ==
  /\ at[r] = "wait" /\ sv[r] = "killed" /\ Running("gateway")
  /\ Repeated(Op(r)) /\ Reaches(Service(r))
  /\ sv' = Move(sv, r, "arrived")
  /\ UNCHANGED <<plan, clientVars, at, ans, reply, meta, data, runnerVars>>

(***************************************************************************)
(* The service.                                                            *)
(***************************************************************************)

\* The limiters, a body that does not parse, and the handler's own refusals.
Refused(r) ==
  Limited \cup (InternalAuth(call[r]) \ {None}) \cup
  IF InternalAuth(call[r]) # {None} \/ BreaksSchema(call[r]) THEN {}
  ELSE IF Unparsable(call[r]) THEN {"ErrInvalidJSON"}
  ELSE {HandlerOf(r).refusal}

Handle(r) ==
  /\ sv[r] = "arrived" /\ Running(Service(r))
  /\ \E e \in Refused(r) :
       IF e = None THEN sv' = Move(sv, r, "work") /\ UNCHANGED reply
       ELSE Replied(r, ErrorHandler(e), None)
  /\ UNCHANGED <<plan, clientVars, at, ans, meta, data, runnerVars>>

HandleInvalid(r) ==
  /\ sv[r] = "arrived" /\ Running(Service(r))
  /\ BreaksSchema(call[r])
  /\ InternalAuth(call[r]) = {None}
  /\ SetMeta(Service(r), r)
  /\ sv' = Move(sv, r, "invalid")
  /\ UNCHANGED <<plan, clientVars, at, ans, reply, data, runnerVars>>

ReplyInvalid(r) ==
  /\ sv[r] = "invalid" /\ Running(Service(r))
  /\ Replied(r, SendAppError("ErrValidationFailed"), meta[Service(r)])
  /\ UNCHANGED <<plan, clientVars, at, ans, meta, data, runnerVars>>

OnNotifications(c) ==
  CASE c.e = "read" -> MarkAsRead(c.id, c.user)
    [] c.e = "trash" -> MoveToTrash(c.id, c.user)
    [] c.e = "restore" -> RestoreFromTrash(c.id, c.user)
    [] c.e = "delete" -> DeletePermanently(c.id, c.user)
    [] c.e = "readAll" -> MarkAllAsRead(c.user)
    [] c.e = "clearTrash" -> HardDeleteTrash(c.user)
    [] c.e = "send" -> \E u \in User : Create(c.id, u)
    [] OTHER -> UNCHANGED row

Asked(n, default) == IF n = None THEN default ELSE n
Limit(c) == Asked(c.limit, DefaultLimit)
Offset(c) == Asked(c.offset, 0)

OnPages(r) ==
  CASE Op(r) = "auditList" ->
         /\ Accepted(Limit(call[r]), Offset(call[r]))
         /\ \E s \in GetAllLogs(Limit(call[r]), Offset(call[r])) :
              page' = Move(page, r, [rows |-> s, of |-> Len(log)])
    [] Op(r) = "list" -> page' = Move(page, r, [rows |-> GetByUserID(call[r].user), of |-> 0])
    [] OTHER -> UNCHANGED page

\* The sessions that are gone when the work is done.
Ended(c) == IF c.e \in {"logout", "registerDevice"} THEN {<<c.user, SessionKey(c.e)>>} ELSE {}

Effect(r) ==
  /\ OnNotifications(call[r]) /\ OnPages(r)
  /\ live' = live \ Ended(call[r])
  /\ runs' = Move(runs, r, IF runs[r] < MaxRuns THEN runs[r] + 1 ELSE runs[r])
  /\ UNCHANGED log

\* A connection of p is in use.
Held(p) == \E r \in Request : sv[r] = "work" /\ Service(r) = p

\* The work is done, refused, or a statement of it fails: when there is no
\* connection always, and else with its effect or without.
Work(r) ==
  /\ sv[r] = "work" /\ Open(Service(r))
  /\ \/ \E s \in HandlerOf(r).done : Replied(r, OK(s), None) /\ Effect(r)
     \/ HandlerOf(r).done # {} /\ Replied(r, ErrorHandler(HandlerOf(r).failure), None) /\ Effect(r)
     \/ \E e \in HandlerOf(r).refusals : Replied(r, ErrorHandler(e), None) /\ UNCHANGED data
  /\ UNCHANGED <<plan, clientVars, at, ans, meta, runnerVars>>

WorkFails(r) ==
  /\ sv[r] = "work" /\ Running(Service(r))
  /\ Replied(r, ErrorHandler(HandlerOf(r).failure), None)
  /\ UNCHANGED <<plan, clientVars, at, ans, meta, data, runnerVars>>

\* The handlers of a service with a pgxpool run their statements in the request's
\* context, which is cancelled when the shutdown begins: they hang no longer.
Cancelled(r) == sv[r] = "work" /\ proc[Service(r)] = "closing" /\ WorkFails(r)

(***************************************************************************)
(* Around them.                                                            *)
(***************************************************************************)

\* A session expires, or ends by a request from elsewhere.
EndSession ==
  /\ \E k \in Plans[plan].end \cap live : live' = live \ {k}
  /\ UNCHANGED <<plan, clientVars, progress, meta, row, log, runs, page, runnerVars>>

\* The audit worker saves a row.
AddLog ==
  /\ Len(log) < Plans[plan].maxLog /\ Open("audit")
  /\ CreateLog
  /\ UNCHANGED <<plan, clientVars, progress, meta, row, live, runs, page, runnerVars>>

Start(p) == Boot(p) \/ SeedCount(p) \/ SeedInsert(p) \/ BootFails(p)

Stop(p) == \/ Signal(p) \/ Cleanup(p, Held(p))
           \/ ShutdownDone(p, Busy(p)) \/ ShutdownTimesOut(p, Busy(p))

StartOrStop(p) ==
  /\ \/ Start(p)
     \/ (p \in Plans[plan].stop \/ proc[p] # "up") /\ Stop(p)
  /\ UNCHANGED <<plan, clientVars, progress, meta, data>>

\* The process ends, and with it what it had to do.
Ends(p) ==
  /\ \/ Exit(p)
     \/ p \in Plans[plan].kill /\ Kill(p)
  /\ sv' = [r \in Request |-> IF AtService(r) /\ Service(r) = p THEN "killed" ELSE sv[r]]
  /\ at' = [r \in Request |->
              IF (IF p = "gateway" THEN AtGateway(r)
                  ELSE AtService(r) /\ Service(r) = p /\ at[r] = "wait" /\ IsDirect(r))
              THEN "lost" ELSE at[r]]
  /\ meta' = Move(meta, p, None)
  /\ UNCHANGED <<plan, clientVars, ans, reply, data>>

AtTheGateway(r) == \/ Gate(r) \/ RouteRefuses(r) \/ RouteInvalid(r) \/ AnswerInvalid(r)
                   \/ Forward(r) \/ Relay(r) \/ TimeOut(r) \/ CutShort(r)
AtTheService(r) == \/ Handle(r) \/ HandleInvalid(r) \/ ReplyInvalid(r)
                   \/ Work(r) \/ WorkFails(r)

Next ==
  \/ \E r \in Request : Send(r) \/ AtTheGateway(r) \/ Repeat(r) \/ AtTheService(r)
  \/ EndSession \/ AddLog
  \/ \E p \in Process : StartOrStop(p) \/ Ends(p)

\* The gateway's steps end: each waits for Redis or for the HTTP client, and
\* both have a time limit.  So does the shutdown, and a pool that nobody uses
\* closes.  A service's statements may hang, until they are cancelled; nothing
\* is assumed of clients and signals.
Fairness ==
  /\ \A r \in Request : WF_vars(AtTheGateway(r)) /\ WF_vars(Cancelled(r))
  /\ \A p \in Process : /\ WF_vars(proc[p] \in {"stopping", "closing"} /\ StartOrStop(p))
                        /\ WF_vars(proc[p] = "closed" /\ Ends(p))

Spec == Init /\ [][Next]_vars /\ Fairness

-----------------------------------------------------------------------------
\* Operations that change a table with one statement.
Writes == (Notifications \ {"list"}) \cup {"documentsCreate", "register"}

\* A write is done at most once, whatever breaks on its way; a success is
\* answered only for what was done, and a refusal (4xx) only for what was not.
\* An answer 5xx, a time limit among them, says nothing about it.
EffectsMatchAnswers ==
  \A r \in Request : call[r] # None /\ Op(r) \in Writes =>
    /\ runs[r] <= 1
    /\ ans[r] # None =>
         /\ ans[r].status \in Success => runs[r] = 1
         /\ ans[r].status \in {400, 401, 404} => runs[r] = 0

\* A request sent after the end of its session never reaches a service; only
\* one that overlaps the end may still take effect after it.
NoEffectAfterEnd == \A r \in Request : gone[r] => sv[r] = "none" /\ runs[r] = 0

\* The metadata of an answer is that of its own request, or of one that was
\* in flight at the same time: never that of an earlier request.
NoStaleMeta ==
  \A r \in Request : ans[r] # None /\ ans[r].code = "ErrValidationFailed" =>
    LET q == ans[r].meta IN
    /\ q # None
    /\ q # r => q \notin seen[r] /\ r \notin seen[q]

\* What the gateway forwards, a service does not refuse for want of something
\* that only the gateway could have added, the documents of a profile aside:
\* no request carries the profile's id.
ContractHolds ==
  \A r \in Request :
    /\ sv[r] = "arrived" /\ ~IsDirect(r) /\ Op(r) # "documentsMe"
    /\ call[r].fp # "none" /\ call[r].body = "ok"
    /\ Op(r) \in NamedNotification => call[r].id # None
    => HandlerOf(r).refusal = None

\* A reader who asks for a page and then for the next one is shown every row
\* between them: one that is older than all of the first page and newer than
\* some of the second is on the second.  Rows added meanwhile, and limits and
\* offsets that wrap around, do not hide one.  Rows of the same time may be.
PagesPassOverNothing ==
  \A r \in Request : \A q \in seen[r] :
    /\ Op(q) = "auditList" /\ Op(r) = "auditList"
    /\ Offset(call[r]) = Offset(call[q]) + Limit(call[q])
    /\ page[q].rows # {}
    => \A i \in 1 .. page[q].of :
         /\ \A j \in page[q].rows : log[i] < log[j]
         /\ \E j \in page[r].rows : log[j] < log[i]
         => i \in page[r].rows

\* The connections of a process are taken away from a request only when the
\* shutdown ran into its time limit.
ClosedInFlight ==
  \A p \in Process : proc[p] \in {"closing", "closed"} /\ Busy(p) => p \in late

\* A service that runs with half of its seed is one whose seeding was cut
\* short between the two inserts: it is never completed afterwards.
SeedOrBlame ==
  \A p \in Seeding : Running(p) /\ users # {"admin", "user"} => cut

\* A notification whose move to the trash, or deletion, was answered with success is
\* not in a list its owner asks for afterwards, whatever else is called, cut short or
\* repeated: unless somebody asks to restore it, or to create one with its id.
TrashStaysHidden ==
  \A r \in Request : \A q \in seen[r] :
    /\ Op(r) = "list" /\ Op(q) \in {"trash", "delete"} /\ call[q].user = call[r].user
    /\ ans[q] # None /\ ans[q].status \in Success
    /\ \A s \in Request : call[s] # None /\ Op(s) \in {"restore", "send"} =>
                             call[s].id # call[q].id
    => call[q].id \notin page[r].rows

\* What the routes of the trash are there for: a restore that is carried out takes the
\* notification out of the trash, a clearing leaves none of its owner's there.
TrashIsReached ==
  [][\A r \in Request : runs'[r] > runs[r] =>
       /\ Op(r) = "restore" =>
            \A i \in Id \cap {call[r].id} : Owned(i, call[r].user) => ~row'[i].trashed
       /\ Op(r) = "clearTrash" =>
            \A i \in Id : Owned(i, call[r].user) => row'[i] = NoRow \/ ~row'[i].trashed]_vars

\* Whatever a service does, the gateway ends every request.
EveryRequestAnswered == \A r \in Request : AtGateway(r) ~> Finished(r)

\* A signal ends the process, requests that hang or not.
SignalStops == \A p \in Process : proc[p] = "stopping" ~> proc[p] = "down"
=============================================================================
