------------------------------ MODULE Response ------------------------------
(***************************************************************************)
(* server/server.go and server/recovery.go: what a client receives and     *)
(* what the access log says of one request after another, through the      *)
(* chain start builds: accesslog, recovery, the middlewares, the handler.  *)
(*                                                                         *)
(* A middleware or a handler takes at most MaxSteps steps: it may write a  *)
(* status, write to the body, call WriteJSON or WriteError, panic, or      *)
(* return, and a middleware may call the next.  net/http is modelled as    *)
(* used: the first WriteHeader sends its status and the header as it is    *)
(* then, a later one is ignored, a Write without one sends 200, and so     *)
(* does the end of the request.  The statuses are final ones that allow a  *)
(* body: 1xx is not sent as the answer, 204 and 304 refuse one.            *)
(***************************************************************************)
EXTENDS Naturals, Sequences

CONSTANTS
  Middlewares,      \* sequence, in the order of AddMiddleware
  Statuses,         \* that middlewares and handlers write
  MaxSteps          \* bound on the steps of one request

ASSUME ResponseAssumption ==
  /\ Middlewares \in Seq(STRING \ {"accesslog", "recovery"})
  /\ Statuses \subseteq Nat \ (0 .. 199 \union {204, 304})
  /\ MaxSteps \in Nat

VARIABLES
  at,           \* layer of Chain that runs, 0: none
  way,          \* "in", "out" (the next layer has returned), "panic", "abort"
  entered,      \* the middlewares, and the handler, entered so far
  resp,         \* the response, see below
  gone,         \* the client has left, and a Write may fail
  before,       \* how the request panicked, and the response by then
  logged,       \* whether accesslog has logged, and which status
  steps         \* taken by the middlewares and the handler

vars == <<at, way, entered, resp, gone, before, logged, steps>>

(* sent: status on the wire, 0 when none is yet; ctype: Content-Type in the *)
(* header; sentType: Content-Type on the wire; inner, outer: status of the  *)
(* responseRecorder of recovery and of accesslog; body: what was written.   *)
Fresh == [sent |-> 0, ctype |-> "none", sentType |-> "none",
          inner |-> 0, outer |-> 0, body |-> <<>>]
NoPanic == [how |-> "none", resp |-> Fresh]
NotLogged == [done |-> FALSE, status |-> 0]

-----------------------------------------------------------------------------
(* start                                                                    *)

\* The middlewares in the order in which the loop puts them around the handler.
Decorators == [i \in 1 .. Len(Middlewares) |-> Middlewares[Len(Middlewares) + 1 - i]]

\* What is put around last is entered first.
Wrapped ==
  LET n == Len(Middlewares)
  IN  [i \in 1 .. n + 1 |-> IF i <= n THEN Decorators[n + 1 - i] ELSE "handler"]

\* Mutation: recovery next to the handler.
RecoveryInside ==
  <<"accesslog">> \o SubSeq(Wrapped, 1, Len(Wrapped) - 1)
                  \o <<"recovery", "handler">>

Chain == <<"accesslog", "recovery">> \o Wrapped

User(i) == i > 0 /\ Chain[i] \notin {"accesslog", "recovery"}
RecoveryAt == CHOOSE i \in 1 .. Len(Chain) : Chain[i] = "recovery"

-----------------------------------------------------------------------------
(* The writer handed down: net/http under the two recorders                 *)

SendHeader(r, s) ==
  IF r.sent # 0 THEN r ELSE [r EXCEPT !.sent = s, !.sentType = r.ctype]

\* responseRecorder.WriteHeader, of recovery and then of accesslog
WriteHeader(r, s) == [SendHeader(r, s) EXCEPT !.inner = s, !.outer = s]

\* responseRecorder.Write records no status.
Write(r, part, ok) ==
  IF ok THEN [SendHeader(r, 200) EXCEPT !.body = Append(@, part)]
  ELSE SendHeader(r, 200)

HTTPError(r, ok) ==
  Write(WriteHeader([r EXCEPT !.ctype = "text"], 500), "error", ok)

WriteError(r, s, ok) ==
  LET e == Write(WriteHeader(r, s), "error", ok)
  IN  IF ok THEN e ELSE HTTPError(e, ok)

\* Nothing is written of data that cannot be encoded.
WriteJSON(r, s, encodes, ok) ==
  LET h == [WriteHeader(r, s) EXCEPT !.ctype = "json"]
  IN  IF encodes /\ ok THEN Write(h, "json", ok)
      ELSE WriteError(IF encodes THEN Write(h, "json", ok) ELSE h, 500, ok)

-----------------------------------------------------------------------------
Init ==
  /\ at = 0 /\ way = "out" /\ entered = <<>>
  /\ resp = Fresh /\ gone = FALSE
  /\ before = NoPanic /\ logged = NotLogged /\ steps = 0

\* A request, after the one before has been answered.
Begin ==
  /\ at = 0
  /\ at' = 1 /\ way' = "in" /\ entered' = <<>>
  /\ resp' = Fresh /\ gone' = FALSE
  /\ before' = NoPanic /\ logged' = NotLogged /\ steps' = 0

ClientLeaves ==
  /\ at > 0 /\ ~gone
  /\ gone' = TRUE
  /\ UNCHANGED <<at, way, entered, resp, before, logged, steps>>

\* A layer calls the next one.
Call ==
  /\ at > 0 /\ way = "in" /\ at < Len(Chain)
  /\ at' = at + 1
  /\ entered' = IF User(at + 1) THEN Append(entered, Chain[at + 1]) ELSE entered
  /\ UNCHANGED <<way, resp, gone, before, logged, steps>>

\* A layer that has called the next one and that adds nothing, or the handler,
\* or a middleware that answers by itself.
Return ==
  /\ User(at) /\ way \in {"in", "out"}
  /\ at' = at - 1 /\ way' = "out"
  /\ UNCHANGED <<entered, resp, gone, before, logged, steps>>

\* A step of a middleware or a handler.
Respond(r) ==
  /\ User(at) /\ way \in {"in", "out"} /\ steps < MaxSteps
  /\ steps' = steps + 1 /\ resp' = r
  /\ UNCHANGED <<at, way, entered, gone, before, logged>>

Written(ok) == ok \in BOOLEAN /\ (~ok => gone)

DoWriteHeader(s) == Respond(WriteHeader(resp, s))
DoWrite(ok) == Written(ok) /\ Respond(Write(resp, "data", ok))

DoWriteJSON(s, encodes, ok) ==
  Written(ok) /\ Respond(WriteJSON(resp, s, encodes, ok))

DoWriteError(s, ok) ==
  Written(ok) /\ Respond(WriteError(resp, s, ok))

\* panic(http.ErrAbortHandler) is an "abort".
Panics(how) ==
  /\ User(at) /\ way \in {"in", "out"}
  /\ way' = how /\ before' = [how |-> how, resp |-> resp]
  /\ at' = IF at > RecoveryAt THEN RecoveryAt ELSE 0
  /\ UNCHANGED <<entered, resp, gone, logged, steps>>

-----------------------------------------------------------------------------
(* recovery and accesslog                                                   *)

\* Mutation: the panic is logged and no more.
RecoverSilently(ok) ==
  /\ at > 0 /\ Chain[at] = "recovery" /\ way = "panic" /\ Written(ok)
  /\ at' = at - 1 /\ way' = "out"
  /\ UNCHANGED <<entered, resp, gone, before, logged, steps>>

\* The error is written to the writer recovery was given: its own recorder
\* does not see it.
Recover(ok) ==
  /\ at > 0 /\ Chain[at] = "recovery" /\ way = "panic" /\ Written(ok)
  /\ resp' = IF resp.inner > 0 THEN resp
             ELSE [HTTPError(resp, ok) EXCEPT !.inner = resp.inner]
  /\ at' = at - 1 /\ way' = "out"
  /\ UNCHANGED <<entered, gone, before, logged, steps>>

\* There was no panic, or it is swallowed.
RecoverNothing ==
  /\ at > 0 /\ Chain[at] = "recovery" /\ way \in {"out", "abort"}
  /\ at' = at - 1 /\ way' = "out"
  /\ UNCHANGED <<entered, resp, gone, before, logged, steps>>

\* accesslog logs, and net/http ends the response.
Accesslog ==
  /\ at > 0 /\ Chain[at] = "accesslog" /\ way = "out"
  /\ logged' = [done |-> TRUE, status |-> resp.outer]
  /\ resp' = SendHeader(resp, 200)
  /\ at' = 0
  /\ UNCHANGED <<way, entered, gone, before, steps>>

Next ==
  \/ Begin \/ ClientLeaves \/ Call \/ Return
  \/ \E s \in Statuses : DoWriteHeader(s)
  \/ \E ok \in BOOLEAN :
       \/ DoWrite(ok) \/ Recover(ok)
       \/ \E s \in Statuses :
            DoWriteError(s, ok) \/ \E e \in BOOLEAN : DoWriteJSON(s, e, ok)
  \/ \E how \in {"panic", "abort"} : Panics(how)
  \/ RecoverNothing \/ Accesslog

Spec == Init /\ [][Next]_vars

-----------------------------------------------------------------------------
Types == {"none", "json", "text"}
Codes == Statuses \union {0, 200, 500}
Parts == {"data", "json", "error"}

\* Types: nothing is in the body, and nothing is logged, before a status is on
\* the wire.
TypeOK ==
  /\ at \in 0 .. Len(Chain)
  /\ way \in {"in", "out", "panic", "abort"}
  /\ Len(entered) <= Len(Wrapped)
  /\ resp.sent \in Codes /\ resp.inner \in Codes /\ resp.outer \in Codes
  /\ resp.ctype \in Types /\ resp.sentType \in Types
  /\ resp.body \in Seq(Parts)
  /\ resp.sent = 0 => resp.body = <<>>
  /\ logged.done => at = 0 /\ resp.sent # 0
  /\ gone \in BOOLEAN
  /\ steps \in 0 .. MaxSteps

\* recovery wraps every middleware, so that a panic in any of them ends there:
\* each request comes out at accesslog, which logs it.
EveryRequestIsLogged == at = 0 /\ entered # <<>> => logged.done

\* A panic before anything was sent is answered with status 500 and the error,
\* whatever the layers did to the header.  After that the status on the wire
\* stays, what was sent stays with the error behind it at most once, and where a
\* layer wrote the status nothing is added: a body without one gets the error.
PanicIsAnswered ==
  logged.done /\ before.how = "panic" =>
    /\ before.resp.sent = 0 =>
         resp.sent = 500 /\ (~gone => resp.body = <<"error">>)
    /\ before.resp.sent # 0 =>
         /\ resp.sent = before.resp.sent
         /\ resp.body \in {before.resp.body, Append(before.resp.body, "error")}
    /\ before.resp.inner > 0 => resp = before.resp
=============================================================================
