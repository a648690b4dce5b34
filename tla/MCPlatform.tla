----------------------------- MODULE MCPlatform -----------------------------
(***************************************************************************)
(* Two requests, two users with a notification each, and one plan for each *)
(* way in which the parts can get into each other's way.                   *)
(***************************************************************************)
EXTENDS Platform

CONSTANTS r1, r2, u1, u2, n1, n2

MCRequest == {r1, r2}
MCUser == {u1, u2}
MCId == {n1, n2}

Base == [e |-> "list", user |-> u1, token |-> "good", fp |-> "right", body |-> "ok",
         id |-> n2, limit |-> None, offset |-> None]
Of(e) == [Base EXCEPT !.e = e]

AllUp == [p \in Process |-> "up"]
Mine(t) == [i \in Id |-> IF i = n1 THEN [user |-> u1, read |-> FALSE, trashed |-> t] ELSE NoRow]
NoCalls == [r \in Request |-> {}]

Quiet == [calls |-> NoCalls, rows |-> Mine(FALSE), live |-> Key, log |-> <<>>, proc |-> AllUp,
          stop |-> {}, kill |-> {}, end |-> {}, maxLog |-> 0]

\* Every operation with every token, fingerprint and body, while its session may end.
Alone ==
  [Quiet EXCEPT !.calls[r1] = {[Of(e) EXCEPT !.token = t, !.fp = f, !.body = b] :
       e \in Operations, t \in {"none", "bad", "good"}, f \in {"none", "wrong", "right"},
       b \in {"json", "invalid", "ok"}} \cup {[Of(e) EXCEPT !.id = None] : e \in NamedNotification},
     !.end = {<<u1, "session:">>, <<u1, "setup:session:">>}]

\* Two calls on the notifications, one of them there: trashed or not.
Named(e) == [Of(e) EXCEPT !.id = n1]
Store(t) ==
  [Quiet EXCEPT !.rows = Mine(t),
     !.calls[r1] = {Named("trash"), Named("delete"), Of("readAll"), Of("send")},
     !.calls[r2] = {Named("restore"), Named("read"), Of("clearTrash"), Named("send"),
                    Of("list")}]

\* A request beside the end of its session, by a logout or by itself.
Sessions ==
  [Quiet EXCEPT !.calls[r1] = {Of("logout"), Of("registerDevice")},
     !.calls[r2] = {Of(e) : e \in {"logout", "sessions", "documentsCreate"}},
     !.end = {<<u1, "session:">>}]

\* Bodies that break the schema, at the gateway and at the auth-service.
Invalid ==
  [Quiet EXCEPT !.calls = [r \in Request |->
       {[Of(e) EXCEPT !.body = "invalid"] : e \in {"login", "refresh", "register"}}]]

\* Signals and kills while two requests are on their way.
Down(p, c1, c2) ==
  [Quiet EXCEPT !.calls[r1] = {c1}, !.calls[r2] = {c2}, !.stop = {p}, !.kill = {p}]

\* The audit log is read page after page while it grows.
List(l, o) == [Of("auditList") EXCEPT !.limit = l, !.offset = o]
Pages ==
  [Quiet EXCEPT !.log = <<1, 1, 2>>, !.maxLog = 5,
     !.calls[r1] = {List(1, None), List(2, 1), List(9, None), List(None, 4)},
     !.calls[r2] = {List(1, 1), List(2, 3), List(2, 9)}]

\* The auth-service starts on an empty database.
Seed == [Quiet EXCEPT !.proc["auth"] = "down", !.stop = {"auth"}]

MCPlans ==
  [alone |-> Alone, store |-> Store(FALSE), trash |-> Store(TRUE), sessions |-> Sessions,
   invalid |-> Invalid, pages |-> Pages, seed |-> Seed,
   gateway |-> Down("gateway", Named("trash"), Of("list")),
   notify |-> Down("notify", Named("trash"), Of("list")),
   audit |-> Down("audit", List(1, None), Of("auditEntry"))]
=============================================================================
