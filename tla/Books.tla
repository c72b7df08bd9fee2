-------------------------------- MODULE Books --------------------------------
(***************************************************************************)
(* examples/spring-boot-like: the one program of the repository that puts  *)
(* server, transactions and queue together.  ServerLife runs as it is; a   *)
(* connection that is active has a handler of booksapi.go in it.           *)
(*                                                                         *)
(* The database and the queue are taken at the level of what they promise  *)
(* (UnitOfWork, AtLeastOnce): a transaction shows its row when it commits, *)
(* and both Commit and Publish may fail after they took effect, since the  *)
(* answer can be lost.  That the client leaves, which ends the context of  *)
(* its request, is one of the reasons a statement fails.  Pool.Close lets  *)
(* the transactions under way end and starts no more.                      *)
(***************************************************************************)
EXTENDS ServerLife

CONSTANTS Ids           \* what uuid.New returns, each once

VARIABLES
  handler,      \* of each connection, see Handlers
  stored,       \* books whose row was committed
  deleted,      \* of them, those whose DELETE was committed
  stream,       \* books whose event is in the stream
  posted,       \* of each id, what its POST was answered
  toldDeleted,  \* books of which a client was told 202
  exit          \* main: "no", "disconnecting" (in pool.Close), "exited"

booksVars == <<handler, stored, deleted, stream, posted, toldDeleted, exit>>
allVars == <<serverVars, booksVars>>

NoId == "none"
ASSUME BooksAssumption == NoId \notin Ids

Ops == {"post", "get", "list", "delete"}

(* before: the books known as deleted when the request came; found: those   *)
(* a GET has read; status: what is about to be answered.                    *)
Stages == {"none", "begin", "statement", "commit", "publish", "answer"}
Statuses ==
  {"none", "OK", "Created", "Accepted", "BadRequest", "InternalServerError"}
Handlers == [
  stage : Stages,
  op : Ops \cup {"none"}, id : Ids \cup {NoId},
  before : SUBSET Ids, found : SUBSET Ids,
  status : Statuses]

NoHandler == [stage |-> "none", op |-> "none", id |-> NoId,
              before |-> {}, found |-> {}, status |-> "none"]

rows == stored \ deleted

BooksInit ==
  /\ ServerInit
  /\ handler = [c \in Conns |-> NoHandler]
  /\ stored = {} /\ deleted = {} /\ stream = {}
  /\ posted = [i \in Ids |-> "none"]
  /\ toldDeleted = {}
  /\ exit = "no"

-----------------------------------------------------------------------------
(* booksapi.go                                                              *)

\* The id a request is about: a new one for a POST, for the others one that a
\* client can have seen.
Chosen(op, i) ==
  CASE op = "post" -> /\ i \in Ids \ stored /\ posted[i] = "none"
                      /\ \A c \in Conns : handler[c].id # i
    [] op = "list" -> i = NoId
    [] op \in {"get", "delete"} -> i \in stored

\* The request is parsed, and the service called.
Handle(c, op, i) ==
  /\ Request(c) /\ Chosen(op, i)
  /\ handler' = [handler EXCEPT ![c] =
       [NoHandler EXCEPT !.stage = "begin", !.op = op, !.id = i,
          !.before = IF op \in {"get", "list"} THEN toldDeleted ELSE {}]]
  /\ UNCHANGED <<stored, deleted, stream, posted, toldDeleted, exit>>

\* ParseRequest has failed.
HandleBadRequest(c) ==
  /\ Request(c)
  /\ handler' = [handler EXCEPT ![c] =
       [NoHandler EXCEPT !.stage = "answer", !.status = "BadRequest"]]
  /\ UNCHANGED <<stored, deleted, stream, posted, toldDeleted, exit>>

\* WriteJSON or WriteError, and the handler returns.
Answer(c) ==
  /\ handler[c].stage = "answer" /\ Respond(c)
  /\ LET h == handler[c] IN
       /\ posted' = IF h.op # "post" THEN posted
                    ELSE [posted EXCEPT ![h.id] =
                            IF h.status = "Created" THEN "created" ELSE "failed"]
       /\ toldDeleted' = IF h.status = "Accepted" THEN toldDeleted \cup {h.id}
                         ELSE toldDeleted
  /\ handler' = [handler EXCEPT ![c] = NoHandler]
  /\ UNCHANGED <<stored, deleted, stream, exit>>

-----------------------------------------------------------------------------
(* booksservice.go and booksrepository.go                                   *)

Becomes(c, h) == handler' = [handler EXCEPT ![c] = h]
Go(c, stage) == Becomes(c, [handler[c] EXCEPT !.stage = stage])
GoAnswer(c, s) ==
  Becomes(c, [handler[c] EXCEPT !.stage = "answer", !.status = s])

\* WithTX or WithReadTX gets a connection of the pool.
Begin(c) ==
  /\ handler[c].stage = "begin" /\ exit = "no"
  /\ Go(c, "statement")
  /\ UNCHANGED <<serverVars, stored, deleted, stream, posted, toldDeleted, exit>>

\* The pool is closed, or the context over, or the server down.
BeginFails(c) ==
  /\ handler[c].stage = "begin"
  /\ GoAnswer(c, "InternalServerError")
  /\ UNCHANGED <<serverVars, stored, deleted, stream, posted, toldDeleted, exit>>

\* SaveBook and DeleteBookByID change a row that nobody sees yet, FindBooks
\* and FindOptionalBookByID read what is committed.
Statement(c) ==
  /\ handler[c].stage = "statement"
  /\ \E found \in CASE handler[c].op = "get" -> {{handler[c].id} \cap rows}
                    [] handler[c].op = "list" -> SUBSET rows
                    [] OTHER -> {{}} :
       Becomes(c, [handler[c] EXCEPT !.stage = "commit", !.found = found])
  /\ UNCHANGED <<serverVars, stored, deleted, stream, posted, toldDeleted, exit>>

\* The error rolls the transaction back.  So does the panic of a page of size
\* zero, which recovery answers.
StatementFails(c) ==
  /\ handler[c].stage = "statement"
  /\ GoAnswer(c, "InternalServerError")
  /\ UNCHANGED <<serverVars, stored, deleted, stream, posted, toldDeleted, exit>>

Take(c) ==
  /\ stored' = IF handler[c].op = "post" THEN stored \cup {handler[c].id}
               ELSE stored
  /\ deleted' = IF handler[c].op = "delete" THEN deleted \cup {handler[c].id}
                ELSE deleted

\* Mutation: the event is published inside the transaction.
CommitsAfterPublish(c) ==
  /\ handler[c].stage = "commit"
  /\ \/ handler[c].op = "post" /\ Go(c, "publish")
     \/ handler[c].op # "post" /\ GoAnswer(c, "OK")
  /\ UNCHANGED <<serverVars, stored, deleted, stream, posted, toldDeleted, exit>>

\* A book that was not found is an error, answered with 500.
Commits(c) ==
  /\ handler[c].stage = "commit"
  /\ Take(c)
  /\ CASE handler[c].op = "post" -> Go(c, "publish")
       [] handler[c].op = "delete" -> GoAnswer(c, "Accepted")
       [] handler[c].op = "list" -> GoAnswer(c, "OK")
       [] handler[c].op = "get" ->
            GoAnswer(c, IF handler[c].found = {}
                        THEN "InternalServerError" ELSE "OK")
  /\ UNCHANGED <<serverVars, stream, posted, toldDeleted, exit>>

\* Commit reports an error: it had no effect, or its answer was lost.
CommitFails(c) ==
  /\ handler[c].stage = "commit"
  /\ Take(c) \/ UNCHANGED <<stored, deleted>>
  /\ GoAnswer(c, "InternalServerError")
  /\ UNCHANGED <<serverVars, stream, posted, toldDeleted, exit>>

Publishes(c) ==
  /\ handler[c].stage = "publish"
  /\ stream' = stream \cup {handler[c].id}
  /\ GoAnswer(c, "Created")
  /\ UNCHANGED <<serverVars, stored, deleted, posted, toldDeleted, exit>>

\* Mutation: the error of Publish is logged and dropped.
PublishErrorDropped(c) ==
  /\ handler[c].stage = "publish"
  /\ GoAnswer(c, "Created")
  /\ UNCHANGED <<serverVars, stored, deleted, stream, posted, toldDeleted, exit>>

\* The retries are used up; one of the attempts may have stored the event.
PublishFails(c) ==
  /\ handler[c].stage = "publish"
  /\ stream' \in {stream, stream \cup {handler[c].id}}
  /\ GoAnswer(c, "InternalServerError")
  /\ UNCHANGED <<serverVars, stored, deleted, posted, toldDeleted, exit>>

-----------------------------------------------------------------------------
(* cmd/main.go, once StartServer has returned                               *)

Disconnect ==
  /\ main = "returned" /\ exit = "no"
  /\ exit' = "disconnecting"
  /\ UNCHANGED <<serverVars, handler, stored, deleted, stream, posted, toldDeleted>>

\* Mutation: main waits for every handler.
ExitAfterHandlers ==
  /\ exit = "disconnecting"
  /\ \A c \in Conns : handler[c].stage = "none"
  /\ exit' = "exited"
  /\ UNCHANGED <<serverVars, handler, stored, deleted, stream, posted, toldDeleted>>

\* Every connection of the pool has come back: Disconnect returns and main
\* too, with which the goroutines and the handlers still there are gone.
Exit ==
  /\ exit = "disconnecting"
  /\ \A c \in Conns : handler[c].stage \notin {"statement", "commit"}
  /\ exit' = "exited"
  /\ serving' = "ended"
  /\ conn' = [c \in Conns |-> "closed"]
  /\ handler' = [c \in Conns |-> NoHandler]
  /\ UNCHANGED <<main, outcome, errChan, ctxDone, closing,
                 stored, deleted, stream, posted, toldDeleted>>

-----------------------------------------------------------------------------
\* What ServerLife does by itself.
ServerStep ==
  /\ \/ Listen \/ ListenFails \/ Send \/ ServeCloses
     \/ Cancel \/ SelectError \/ SelectDone
     \/ ShutdownDrained \/ ShutdownTimesOut
     \/ \E c \in Conns : Connect(c) \/ CloseIdle(c)
  /\ UNCHANGED booksVars

TxStep(c) == Statement(c) \/ StatementFails(c) \/ Commits(c) \/ CommitFails(c)

HandlerStep(c) ==
  \/ \E op \in Ops, i \in Ids \cup {NoId} : Handle(c, op, i)
  \/ HandleBadRequest(c) \/ Answer(c)
  \/ Begin(c) \/ BeginFails(c) \/ TxStep(c)
  \/ Publishes(c) \/ PublishFails(c)

BooksNext ==
  /\ exit # "exited"
  /\ ServerStep \/ Disconnect \/ Exit \/ \E c \in Conns : HandlerStep(c)

BooksSpec == BooksInit /\ [][BooksNext]_allVars /\ ServerFairness

-----------------------------------------------------------------------------
\* Types: a handler runs exactly on the connections that are active.
TypeOK ==
  /\ ServerTypeOK
  /\ handler \in [Conns -> Handlers]
  /\ \A c \in Conns : handler[c].stage # "none" <=> conn[c] = "active"
  /\ stored \subseteq Ids /\ deleted \subseteq stored /\ stream \subseteq Ids
  /\ posted \in [Ids -> {"none", "created", "failed"}]
  /\ toldDeleted \subseteq Ids
  /\ exit \in {"no", "disconnecting", "exited"}

\* Whoever consumes events.books never hears of a book that is not in the
\* database: CreateBook publishes after WithTX has committed.
EventsHaveBooks == stream \subseteq stored

\* What clients are told is so: after 201 the book is stored and its event in
\* the stream, after 202 the book is gone, and a GET that came after a client
\* was told 202 does not show that book, whatever other requests are doing.
AnswersAreTrue ==
  /\ \A i \in Ids : posted[i] = "created" => i \in stored \cap stream
  /\ toldDeleted \subseteq deleted
  /\ \A c \in Conns :
       handler[c].stage = "answer" /\ handler[c].status = "OK" =>
         handler[c].found \cap handler[c].before = {}

\* A book is stored without its event only while its POST is under way, or if
\* that was answered with an error, or if the handler was cut off by an exit
\* after a shutdown that ran out of time: never by one that StartServer called
\* clean by returning nil.
LostEventsAreKnown ==
  \A i \in stored \ stream :
    \/ \E c \in Conns : handler[c].id = i /\ handler[c].op = "post"
    \/ posted[i] = "failed"
    \/ exit = "exited" /\ outcome = "error"

\* The whole of what happens to the books, as the specification Catalogue:
\* requests that interleave, answers that are lost and a shutdown in between do
\* one of its steps at a time, or none.
Promise == INSTANCE Catalogue WITH
  Books <- Ids, added <- stored, gone <- deleted, announced <- stream,
  told <- posted, toldGone <- toldDeleted,
  over <- IF exit # "exited" THEN "no"
          ELSE IF outcome = "nil" THEN "clean" ELSE "cut off"

CatalogueKept == Promise!AbsSpec

\* The end of the context, or a server that cannot listen, ends the process,
\* also with handlers that never return, provided that transactions end.
ExitFairness ==
  /\ WF_allVars(Disconnect) /\ WF_allVars(Exit)
  /\ \A c \in Conns : WF_allVars(TxStep(c))

ProcessExits ==
  ExitFairness => (ctxDone \/ serving = "failed" ~> exit = "exited")
=============================================================================
