----------------------------- MODULE ServerLife -----------------------------
(***************************************************************************)
(* server/server.go: start, from the goroutine that runs ListenAndServe to *)
(* the return of StartServer, with the requests served meanwhile.          *)
(*                                                                         *)
(* start waits for the first of two things: an error of ListenAndServe,    *)
(* sent on a channel with room for one, or the end of its context, after   *)
(* which it calls Shutdown with five seconds to end in.  net/http is taken *)
(* from its use here: Shutdown closes the listener, which ends             *)
(* ListenAndServe with ErrServerClosed, then the idle connections, and     *)
(* waits for the others to become idle.  No request is tied to the         *)
(* context, and none has to end.                                           *)
(***************************************************************************)
EXTENDS Naturals

CONSTANTS Conns         \* client connections

VARIABLES
  main,         \* start: "select", "shutdown", "returned"
  outcome,      \* what it returned: "none" yet, "nil", "error"
  serving,      \* the goroutine: "starting", "listening", "failed" (about to
                \* send on errChan), "ended"
  errChan,      \* errors in the channel
  ctxDone,      \* ctx.Done() is closed
  closing,      \* Shutdown has closed the listener
  conn          \* of each connection, see ConnStates

serverVars == <<main, outcome, serving, errChan, ctxDone, closing, conn>>

ConnStates == {"closed", "idle", "active"}

ServerInit ==
  /\ main = "select" /\ outcome = "none"
  /\ serving = "starting"
  /\ errChan = 0
  /\ ctxDone = FALSE /\ closing = FALSE
  /\ conn = [c \in Conns |-> "closed"]

-----------------------------------------------------------------------------
(* The goroutine                                                            *)

Listen ==
  /\ serving = "starting" /\ ~closing
  /\ serving' = "listening"
  /\ UNCHANGED <<main, outcome, errChan, ctxDone, closing, conn>>

\* The address is taken, which may be found out after Shutdown was called, or
\* Accept fails for good: with the listener closed that is ErrServerClosed.
ListenFails ==
  /\ serving = "starting" \/ (serving = "listening" /\ ~closing)
  /\ serving' = "failed"
  /\ UNCHANGED <<main, outcome, errChan, ctxDone, closing, conn>>

\* Mutation: the channel has no room, so that a receiver must be waiting.
SendUnbuffered ==
  /\ serving = "failed" /\ main = "select"
  /\ serving' = "ended" /\ errChan' = 1
  /\ UNCHANGED <<main, outcome, ctxDone, closing, conn>>

Send ==
  /\ serving = "failed" /\ errChan = 0
  /\ serving' = "ended" /\ errChan' = 1
  /\ UNCHANGED <<main, outcome, ctxDone, closing, conn>>

\* ErrServerClosed, also when ListenAndServe is called after Shutdown.
ServeCloses ==
  /\ serving \in {"starting", "listening"} /\ closing
  /\ serving' = "ended"
  /\ UNCHANGED <<main, outcome, errChan, ctxDone, closing, conn>>

-----------------------------------------------------------------------------
(* start                                                                    *)

Cancel ==
  /\ ~ctxDone
  /\ ctxDone' = TRUE
  /\ UNCHANGED <<main, outcome, serving, errChan, closing, conn>>

SelectError ==
  /\ main = "select" /\ errChan > 0
  /\ errChan' = errChan - 1
  /\ main' = "returned" /\ outcome' = "error"
  /\ UNCHANGED <<serving, ctxDone, closing, conn>>

\* select takes either case when both are ready.
SelectDone ==
  /\ main = "select" /\ ctxDone
  /\ main' = "shutdown" /\ closing' = TRUE
  /\ UNCHANGED <<outcome, serving, errChan, ctxDone, conn>>

\* Mutation: Close, which waits for nothing.
ShutdownAtOnce ==
  /\ main = "shutdown"
  /\ main' = "returned" /\ outcome' = "nil"
  /\ UNCHANGED <<serving, errChan, ctxDone, closing, conn>>

\* Every connection is idle, and closed.
ShutdownDrained ==
  /\ main = "shutdown"
  /\ \A c \in Conns : conn[c] # "active"
  /\ conn' = [c \in Conns |-> "closed"]
  /\ main' = "returned" /\ outcome' = "nil"
  /\ UNCHANGED <<serving, errChan, ctxDone, closing>>

\* Mutation: context.Background() without a timeout.
ShutdownWaits == FALSE

\* Five seconds have passed.
ShutdownTimesOut ==
  /\ main = "shutdown"
  /\ main' = "returned" /\ outcome' = "error"
  /\ UNCHANGED <<serving, errChan, ctxDone, closing, conn>>

-----------------------------------------------------------------------------
(* Requests                                                                 *)

Connect(c) ==
  /\ serving = "listening" /\ ~closing
  /\ conn[c] = "closed"
  /\ conn' = [conn EXCEPT ![c] = "idle"]
  /\ UNCHANGED <<main, outcome, serving, errChan, ctxDone, closing>>

\* A request arrives on a connection that is open, during Shutdown as well.
Request(c) ==
  /\ conn[c] = "idle"
  /\ conn' = [conn EXCEPT ![c] = "active"]
  /\ UNCHANGED <<main, outcome, serving, errChan, ctxDone, closing>>

\* The handler returns; connections are not kept during Shutdown.
Respond(c) ==
  /\ conn[c] = "active"
  /\ conn' = [conn EXCEPT ![c] = IF closing THEN "closed" ELSE "idle"]
  /\ UNCHANGED <<main, outcome, serving, errChan, ctxDone, closing>>

\* Shutdown comes by, or the client leaves.
CloseIdle(c) ==
  /\ conn[c] = "idle"
  /\ conn' = [conn EXCEPT ![c] = "closed"]
  /\ UNCHANGED <<main, outcome, serving, errChan, ctxDone, closing>>

-----------------------------------------------------------------------------
ServerNext ==
  \/ Listen \/ ListenFails \/ Send \/ ServeCloses
  \/ Cancel \/ SelectError \/ SelectDone
  \/ ShutdownDrained \/ ShutdownTimesOut
  \/ \E c \in Conns : Connect(c) \/ Request(c) \/ Respond(c) \/ CloseIdle(c)

\* Goroutines are scheduled, and the five seconds pass.  Nothing is assumed of
\* clients, of handlers, or of the context.
ServerFairness ==
  /\ WF_serverVars(Send) /\ WF_serverVars(ServeCloses)
  /\ WF_serverVars(SelectError \/ SelectDone)
  /\ WF_serverVars(ShutdownTimesOut)

ServerSpec == ServerInit /\ [][ServerNext]_serverVars /\ ServerFairness

-----------------------------------------------------------------------------
\* Types: start has an outcome exactly when it has returned, and the listener
\* is closed exactly when Shutdown was called.
ServerTypeOK ==
  /\ main \in {"select", "shutdown", "returned"}
  /\ outcome \in {"none", "nil", "error"}
  /\ (outcome = "none") <=> (main # "returned")
  /\ serving \in {"starting", "listening", "failed", "ended"}
  /\ errChan \in 0 .. 1
  /\ ctxDone \in BOOLEAN /\ closing \in BOOLEAN
  /\ main = "shutdown" => closing
  /\ conn \in [Conns -> ConnStates]

\* start returns nil only after its context has ended and when no request is
\* being served, nor can be any more: what the caller releases then, such as
\* the database, is released under nobody's feet.
NilMeansDrained ==
  outcome = "nil" =>
    /\ ctxDone
    /\ \A c \in Conns : conn[c] = "closed"

\* global.go says that StartServer returns once the server is stopped or an
\* error occurs: the end of the context makes it return, even if a handler
\* never does, and so does a server that cannot listen any more.
StartReturns == ctxDone \/ serving = "failed" ~> main = "returned"

\* The goroutine does not outlive start: it never waits for a receiver on
\* errChan that has gone.
GoroutineEnds == main = "returned" ~> serving = "ended"
=============================================================================
