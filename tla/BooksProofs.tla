----------------------------- MODULE BooksProofs -----------------------------
(***************************************************************************)
(* Theorems about ServerLife and about Books, which composes it with the   *)
(* database and the queue, for any number of connections and books.        *)
(***************************************************************************)
EXTENDS Books, TLAPS

(***************************************************************************)
(* ServerLife.  That start returns nil with nothing served rests on two    *)
(* facts more: Shutdown has closed the listener by then, so that no        *)
(* connection is opened after the last one was closed, and it is called    *)
(* for no other reason than the end of the context (ClosingInv).           *)
(***************************************************************************)
ClosingInv ==
  /\ outcome = "nil" => closing
  /\ closing => ctxDone

ServeInv == ServerTypeOK /\ NilMeansDrained /\ ClosingInv

LEMMA InitServe == ServerInit => ServeInv
<1> SUFFICES ASSUME ServerInit PROVE ServeInv
  OBVIOUS
<1>1. errChan \in 0 .. 1 BY DEF ServerInit
<1>2. conn \in [Conns -> ConnStates] BY DEF ServerInit, ConnStates
<1>3. ServerTypeOK BY <1>1, <1>2 DEF ServerInit, ServerTypeOK
<1> QED BY <1>3 DEF ServerInit, ServeInv, NilMeansDrained, ClosingInv

\* What the goroutine does, and what the context does, touch neither the
\* outcome nor a connection.
LEMMA GoroutineStep ==
  ASSUME ServeInv, Listen \/ ListenFails \/ Send \/ ServeCloses \/ Cancel
  PROVE  ServeInv'
<1>1. errChan' \in 0 .. 1
  BY DEF ServeInv, ServerTypeOK, Listen, ListenFails, Send, ServeCloses, Cancel
<1>2. ServerTypeOK'
  BY <1>1
  DEF ServeInv, ServerTypeOK, Listen, ListenFails, Send, ServeCloses, Cancel
<1>3. NilMeansDrained' /\ ClosingInv'
  BY DEF ServeInv, ServerTypeOK, NilMeansDrained, ClosingInv,
         Listen, ListenFails, Send, ServeCloses, Cancel
<1> QED BY <1>2, <1>3 DEF ServeInv

LEMMA StartStep ==
  ASSUME ServeInv,
         SelectError \/ SelectDone \/ ShutdownDrained \/ ShutdownTimesOut
  PROVE  ServeInv'
<1>1. CASE SelectError
  BY <1>1 DEF ServeInv, ServerTypeOK, NilMeansDrained, ClosingInv, SelectError
<1>2. CASE SelectDone
  BY <1>2 DEF ServeInv, ServerTypeOK, NilMeansDrained, ClosingInv, SelectDone
<1>3. CASE ShutdownDrained
  <2>1. ServerTypeOK'
    BY <1>3 DEF ServeInv, ServerTypeOK, ShutdownDrained, ConnStates
  <2>2. \A c \in Conns : conn'[c] = "closed"
    BY <1>3 DEF ShutdownDrained
  <2>3. closing
    BY <1>3 DEF ServeInv, ServerTypeOK, ShutdownDrained
  <2>4. ctxDone'
    BY <1>3, <2>3 DEF ServeInv, ClosingInv, ShutdownDrained
  <2> QED
    BY <1>3, <2>1, <2>2, <2>3, <2>4
    DEF ServeInv, NilMeansDrained, ClosingInv, ShutdownDrained
<1>4. CASE ShutdownTimesOut
  BY <1>4 DEF ServeInv, ServerTypeOK, NilMeansDrained, ClosingInv, ShutdownTimesOut
<1> QED BY <1>1, <1>2, <1>3, <1>4

\* Once start has returned nil no connection is open, and none is opened.
LEMMA ConnStep ==
  ASSUME ServeInv, NEW c \in Conns,
         Connect(c) \/ Request(c) \/ Respond(c) \/ CloseIdle(c)
  PROVE  ServeInv'
<1>1. ServerTypeOK'
  BY DEF ServeInv, ServerTypeOK, Connect, Request, Respond, CloseIdle, ConnStates
<1>2. outcome # "nil"
  BY DEF ServeInv, NilMeansDrained, ClosingInv,
         Connect, Request, Respond, CloseIdle
<1>3. outcome' = outcome /\ closing' = closing /\ ctxDone' = ctxDone
  BY DEF Connect, Request, Respond, CloseIdle
<1> QED BY <1>1, <1>2, <1>3 DEF ServeInv, NilMeansDrained, ClosingInv

LEMMA ServeStep == ServeInv /\ [ServerNext]_serverVars => ServeInv'
<1> SUFFICES ASSUME ServeInv, [ServerNext]_serverVars PROVE ServeInv'
  OBVIOUS
<1>1. CASE Listen \/ ListenFails \/ Send \/ ServeCloses \/ Cancel
  BY <1>1, GoroutineStep
<1>2. CASE SelectError \/ SelectDone \/ ShutdownDrained \/ ShutdownTimesOut
  BY <1>2, StartStep
<1>3. CASE \E c \in Conns : Connect(c) \/ Request(c) \/ Respond(c) \/ CloseIdle(c)
  BY <1>3, ConnStep
<1>4. CASE UNCHANGED serverVars
  BY <1>4 DEF serverVars, ServeInv, ServerTypeOK, NilMeansDrained, ClosingInv
<1> QED BY <1>1, <1>2, <1>3, <1>4 DEF ServerNext

\* Types hold in every state.
THEOREM ServerTypes == ServerSpec => []ServerTypeOK
<1>1. ServeInv => ServerTypeOK BY DEF ServeInv
<1> QED BY InitServe, ServeStep, <1>1, PTL DEF ServerSpec

\* start returns nil only after its context has ended and with every
\* connection closed, whatever the clients and the handlers do.
THEOREM NilIsDrained == ServerSpec => []NilMeansDrained
<1>1. ServeInv => NilMeansDrained BY DEF ServeInv
<1> QED BY InitServe, ServeStep, <1>1, PTL DEF ServerSpec

(***************************************************************************)
(* The safety half of GoroutineEnds: however the error, the context and    *)
(* the requests interleave, the goroutine is never stuck.  ErrorHasRoom    *)
(* says why: it sends at most once, on a channel with room for one.        *)
(***************************************************************************)
ErrorHasRoom ==
  /\ errChan # 0 => serving = "ended"
  /\ main = "returned" /\ ~closing => serving = "ended"

\* Once start has returned the goroutine has ended, or can go on to its end by
\* Send or by ServeCloses, whichever of the two its state asks for.
GoroutineMoves ==
  main = "returned" =>
    \/ serving = "ended"
    \/ serving = "failed" /\ errChan = 0
    \/ serving \in {"starting", "listening"} /\ closing

LEMMA RoomStep ==
  ASSUME ServeInv, ErrorHasRoom, [ServerNext]_serverVars
  PROVE  ErrorHasRoom'
<1> USE DEF ErrorHasRoom
<1>1. errChan \in 0 .. 1 /\ (main = "shutdown" => closing)
  BY DEF ServeInv, ServerTypeOK
<1>2. CASE Listen \/ ListenFails \/ Send \/ ServeCloses \/ Cancel
  BY <1>1, <1>2 DEF Listen, ListenFails, Send, ServeCloses, Cancel
<1>3. CASE SelectError \/ SelectDone \/ ShutdownDrained \/ ShutdownTimesOut
  BY <1>1, <1>3 DEF SelectError, SelectDone, ShutdownDrained, ShutdownTimesOut
<1>4. CASE \E c \in Conns : Connect(c) \/ Request(c) \/ Respond(c) \/ CloseIdle(c)
  BY <1>4 DEF Connect, Request, Respond, CloseIdle
<1>5. CASE UNCHANGED serverVars
  BY <1>5 DEF serverVars
<1> QED BY <1>2, <1>3, <1>4, <1>5 DEF ServerNext

\* The goroutine that start leaves behind never waits for a receiver on errChan
\* that has gone: in no state after the return is it without its next step.
THEOREM GoroutineNeverStuck == ServerSpec => []GoroutineMoves
<1>1. ServerInit => ErrorHasRoom
  BY DEF ServerInit, ErrorHasRoom
<1>2. ServeInv /\ ErrorHasRoom => GoroutineMoves
  BY DEF ServeInv, ServerTypeOK, ErrorHasRoom, GoroutineMoves
<1> QED BY InitServe, ServeStep, RoomStep, <1>1, <1>2, PTL DEF ServerSpec

-----------------------------------------------------------------------------
(***************************************************************************)
(* Books.  The theorems rest on what a handler knows at each stage         *)
(* (HandlerFacts): that one about to publish has committed, that one about *)
(* to answer 201 or 202 has done what it says, and that a GET read nothing *)
(* that was already deleted when its request came.  The steps of the       *)
(* server are those of ServerLife, whose lemma is used as it stands.       *)
(***************************************************************************)

Knows(c) ==
  LET h == handler[c] IN
    /\ h.stage = "none" => h = NoHandler
    /\ h.stage \in {"begin", "statement", "commit"} => h.op \in Ops
    /\ h.stage = "publish" => h.op = "post" /\ h.id \in stored
    /\ h.stage = "answer" /\ h.status = "Created" =>
         h.op = "post" /\ h.id \in stored \cap stream
    /\ h.status = "Accepted" => h.op = "delete" /\ h.id \in deleted
    /\ h.status = "Created" => h.op = "post"
    /\ h.op = "post" => h.id \in Ids
    /\ h.op = "delete" => h.id \in stored
    /\ h.before \subseteq toldDeleted
    /\ h.found \cap h.before = {}

HandlerFacts == \A c \in Conns : Knows(c)

BooksInv ==
  /\ ServeInv /\ TypeOK
  /\ EventsHaveBooks
  /\ toldDeleted \subseteq deleted
  /\ \A i \in Ids : posted[i] = "created" => i \in stored \cap stream
  /\ HandlerFacts
  /\ LostEventsAreKnown
  /\ exit # "no" => main = "returned"

LEMMA InitBooks == BooksInit => BooksInv
<1> SUFFICES ASSUME BooksInit PROVE BooksInv
  OBVIOUS
<1>1. ServeInv BY InitServe DEF BooksInit
<1>2. NoHandler \in Handlers BY DEF NoHandler, Handlers, Stages, Statuses
<1>3. handler \in [Conns -> Handlers] /\ \A c \in Conns : handler[c] = NoHandler
  BY <1>2 DEF BooksInit
<1>4. \A c \in Conns : handler[c].stage # "none" <=> conn[c] = "active"
  BY <1>3 DEF BooksInit, ServerInit, NoHandler
<1>5. TypeOK
  BY <1>1, <1>3, <1>4 DEF BooksInit, TypeOK, ServeInv
<1>6. HandlerFacts
  <2> SUFFICES ASSUME NEW c \in Conns PROVE Knows(c)
    BY DEF HandlerFacts
  <2>1. handler[c] = NoHandler BY <1>3
  <2>2. /\ NoHandler.op = "none" /\ NoHandler.stage = "none"
        /\ NoHandler.status = "none"
        /\ NoHandler.before = {} /\ NoHandler.found = {}
    BY DEF NoHandler
  <2> QED BY <2>1, <2>2 DEF Knows
<1> QED
  BY <1>1, <1>5, <1>6
  DEF BooksInit, ServerInit, BooksInv, EventsHaveBooks, LostEventsAreKnown

-----------------------------------------------------------------------------
(* Steps of the server                                                      *)

\* No step of the server alone begins or ends a request.
LEMMA ServerKeepsRequests ==
  ASSUME ServerTypeOK, ServerStep
  PROVE  \A c \in Conns : conn'[c] = "active" <=> conn[c] = "active"
<1>1. CASE ShutdownDrained
  BY <1>1 DEF ShutdownDrained
<1>2. CASE \E c \in Conns : Connect(c) \/ CloseIdle(c)
  BY <1>2 DEF Connect, CloseIdle, ServerTypeOK
<1>3. CASE Listen \/ ListenFails \/ Send \/ ServeCloses \/ Cancel
           \/ SelectError \/ SelectDone \/ ShutdownTimesOut
  BY <1>3 DEF Listen, ListenFails, Send, ServeCloses, Cancel,
              SelectError, SelectDone, ShutdownTimesOut
<1> QED BY <1>1, <1>2, <1>3 DEF ServerStep

LEMMA ServerKeepsBooks ==
  ASSUME BooksInv, ServerStep, exit # "exited"
  PROVE  BooksInv'
<1>1. ServeInv'
  <2>1. ServerNext BY DEF ServerStep, ServerNext
  <2> QED BY <2>1, ServeStep DEF BooksInv
<1>2. UNCHANGED booksVars BY DEF ServerStep
<1>3. \A c \in Conns : conn'[c] = "active" <=> conn[c] = "active"
  BY ServerKeepsRequests DEF BooksInv, TypeOK
<1>4. TypeOK'
  BY <1>1, <1>2, <1>3 DEF BooksInv, TypeOK, ServeInv, booksVars
<1>5. HandlerFacts'
  BY <1>2 DEF BooksInv, HandlerFacts, Knows, booksVars
<1>6. LostEventsAreKnown'
  BY <1>2 DEF BooksInv, LostEventsAreKnown, booksVars
<1>7. exit # "no" => main' = "returned"
  BY DEF BooksInv, ServerStep, Listen, ListenFails, Send, ServeCloses, Cancel,
         SelectError, SelectDone, ShutdownDrained, ShutdownTimesOut,
         Connect, CloseIdle
<1> QED
  BY <1>1, <1>2, <1>4, <1>5, <1>6, <1>7
  DEF BooksInv, EventsHaveBooks, booksVars

-----------------------------------------------------------------------------
(* Steps of a handler between its request and its answer                    *)

LEMMA InnerStep ==
  ASSUME BooksInv, exit # "exited", NEW c \in Conns, NEW h \in Handlers,
         Becomes(c, h),
         UNCHANGED <<serverVars, posted, toldDeleted, exit>>,
         handler[c].stage # "none", h.stage # "none",
         h.id = handler[c].id, h.op = handler[c].op,
         stored \subseteq stored', stored' \subseteq Ids,
         deleted \subseteq deleted', deleted' \subseteq stored',
         stream \subseteq stream', stream' \subseteq stored',
         Knows(c)',
         \A i \in stored' \ stream' :
           i \in stored \ stream \/ (h.op = "post" /\ h.id = i)
  PROVE  BooksInv'
<1>1. ServeInv'
  BY DEF BooksInv, ServeInv, ServerTypeOK, NilMeansDrained, ClosingInv, serverVars
<1>2. handler \in [Conns -> Handlers]
  BY DEF BooksInv, TypeOK
<1>3. handler' \in [Conns -> Handlers]
  BY <1>2 DEF Becomes
<1>4. handler'[c] = h /\ \A d \in Conns : d # c => handler'[d] = handler[d]
  BY <1>2 DEF Becomes
<1>5. TypeOK'
  <2>1. \A d \in Conns : handler'[d].stage # "none" <=> conn'[d] = "active"
    BY <1>4 DEF BooksInv, TypeOK, serverVars
  <2> QED
    BY <1>1, <1>3, <2>1 DEF BooksInv, TypeOK, ServeInv
<1>6. HandlerFacts'
  <2> SUFFICES ASSUME NEW d \in Conns, d # c PROVE Knows(d)'
    BY DEF HandlerFacts
  <2> QED
    BY <1>4 DEF BooksInv, HandlerFacts, Knows
<1>7. LostEventsAreKnown'
  <2> SUFFICES ASSUME NEW i \in stored' \ stream'
               PROVE  \/ \E d \in Conns : handler'[d].id = i /\ handler'[d].op = "post"
                      \/ posted'[i] = "failed"
    BY DEF LostEventsAreKnown
  <2>1. CASE h.op = "post" /\ h.id = i
    BY <2>1, <1>4
  <2>2. CASE i \in stored \ stream
    <3>1. \/ \E d \in Conns : handler[d].id = i /\ handler[d].op = "post"
          \/ posted[i] = "failed"
      BY <2>2 DEF BooksInv, LostEventsAreKnown
    <3> QED BY <3>1, <1>4
  <2> QED BY <2>1, <2>2
<1> QED
  BY <1>1, <1>5, <1>6, <1>7
  DEF BooksInv, EventsHaveBooks, serverVars

\* What a handler in the middle of its work knows, of its own type and facts.
LEMMA HandlerTypes ==
  ASSUME BooksInv, NEW c \in Conns
  PROVE  /\ handler[c] \in Handlers /\ Knows(c)
         /\ handler \in [Conns -> Handlers]
         /\ stored \subseteq Ids /\ deleted \subseteq stored
         /\ stream \subseteq stored /\ toldDeleted \subseteq deleted
  BY DEF BooksInv, TypeOK, HandlerFacts, EventsHaveBooks

LEMMA WithStage ==
  ASSUME NEW h \in Handlers, NEW stage \in Stages
  PROVE  LET g == [h EXCEPT !.stage = stage] IN
         /\ g \in Handlers /\ g.stage = stage /\ g.op = h.op /\ g.id = h.id
         /\ g.before = h.before /\ g.found = h.found /\ g.status = h.status
  BY DEF Handlers

LEMMA WithFound ==
  ASSUME NEW h \in Handlers, NEW found \in SUBSET Ids
  PROVE  LET g == [h EXCEPT !.stage = "commit", !.found = found] IN
         /\ g \in Handlers /\ g.stage = "commit" /\ g.op = h.op /\ g.id = h.id
         /\ g.before = h.before /\ g.found = found /\ g.status = h.status
  BY DEF Handlers, Stages

\* The first three kinds of step change no book.
LEMMA QuietStep ==
  ASSUME BooksInv, NEW c \in Conns, exit # "exited", NEW h \in Handlers,
         Becomes(c, h),
         UNCHANGED <<serverVars, stored, deleted, stream, posted, toldDeleted, exit>>,
         handler[c].stage \in {"begin", "statement"},
         h.stage \in {"statement", "commit", "answer"},
         h.id = handler[c].id, h.op = handler[c].op,
         h.before = handler[c].before, h.found \cap h.before = {},
         \/ h.status = handler[c].status /\ h.stage # "answer"
         \/ h.status = "InternalServerError"
  PROVE  BooksInv'
<1>1. /\ handler[c] \in Handlers /\ Knows(c)
      /\ handler \in [Conns -> Handlers]
      /\ stored \subseteq Ids /\ deleted \subseteq stored
      /\ stream \subseteq stored /\ toldDeleted \subseteq deleted
  BY HandlerTypes
<1>2. handler'[c] = h BY <1>1 DEF Becomes
<1>3. Knows(c)' BY <1>1, <1>2 DEF Knows
<1> QED BY <1>1, <1>3, InnerStep

LEMMA GoSteps ==
  ASSUME BooksInv, NEW c \in Conns, exit # "exited",
         Begin(c) \/ BeginFails(c) \/ StatementFails(c)
  PROVE  BooksInv'
<1>1. handler[c] \in Handlers /\ Knows(c)
  BY HandlerTypes
<1>2. CASE Begin(c)
  <2> DEFINE h == [handler[c] EXCEPT !.stage = "statement"]
  <2>1. Becomes(c, h) BY <1>2 DEF Begin, Go
  <2>2. /\ h \in Handlers /\ h.stage = "statement"
        /\ h.op = handler[c].op /\ h.id = handler[c].id
        /\ h.before = handler[c].before /\ h.found = handler[c].found
        /\ h.status = handler[c].status
    BY <1>1, WithStage DEF Stages
  <2> HIDE DEF h
  <2>3. h.found \cap h.before = {} BY <1>1, <2>2 DEF Knows
  <2> QED BY <1>2, <2>1, <2>2, <2>3, QuietStep DEF Begin
<1>3. CASE BeginFails(c) \/ StatementFails(c)
  <2> DEFINE h == [handler[c] EXCEPT !.stage = "answer", !.status = "InternalServerError"]
  <2>1. Becomes(c, h) BY <1>3 DEF BeginFails, StatementFails, GoAnswer
  <2>2. /\ h \in Handlers /\ h.stage = "answer"
        /\ h.op = handler[c].op /\ h.id = handler[c].id
        /\ h.before = handler[c].before /\ h.found = handler[c].found
        /\ h.status = "InternalServerError"
    BY <1>1 DEF Handlers, Stages, Statuses
  <2> HIDE DEF h
  <2>3. h.found \cap h.before = {} BY <1>1, <2>2 DEF Knows
  <2> QED BY <1>3, <2>1, <2>2, <2>3, QuietStep DEF BeginFails, StatementFails
<1> QED BY <1>2, <1>3

\* What a GET finds is not deleted, hence not known as deleted.
LEMMA StatementStep ==
  ASSUME BooksInv, NEW c \in Conns, exit # "exited", Statement(c)
  PROVE  BooksInv'
<1>1. /\ handler[c] \in Handlers /\ Knows(c)
      /\ stored \subseteq Ids /\ toldDeleted \subseteq deleted
  BY HandlerTypes
<1>2. PICK found \in SUBSET rows :
        Becomes(c, [handler[c] EXCEPT !.stage = "commit", !.found = found])
  BY DEF Statement
<1> DEFINE h == [handler[c] EXCEPT !.stage = "commit", !.found = found]
<1>3. found \in SUBSET Ids BY <1>1 DEF rows
<1>4. /\ h \in Handlers /\ h.stage = "commit"
      /\ h.op = handler[c].op /\ h.id = handler[c].id
      /\ h.before = handler[c].before /\ h.found = found
      /\ h.status = handler[c].status
  BY <1>1, <1>3, WithFound
<1>5. Becomes(c, h) BY <1>2
<1> HIDE DEF h
<1>6. h.found \cap h.before = {} BY <1>1, <1>4 DEF Knows, rows
<1> QED BY <1>4, <1>5, <1>6, QuietStep DEF Statement

LEMMA CommitStep ==
  ASSUME BooksInv, NEW c \in Conns, exit # "exited", Commits(c) \/ CommitFails(c)
  PROVE  BooksInv'
<1>1. /\ handler[c] \in Handlers /\ Knows(c)
      /\ handler \in [Conns -> Handlers]
      /\ stored \subseteq Ids /\ deleted \subseteq stored
      /\ stream \subseteq stored /\ toldDeleted \subseteq deleted
  BY HandlerTypes
<1>2. handler[c].stage = "commit"
  BY DEF Commits, CommitFails
<1>3. Take(c) \/ UNCHANGED <<stored, deleted>>
  BY DEF Commits, CommitFails
<1>4. /\ stored \subseteq stored' /\ stored' \subseteq Ids
      /\ deleted \subseteq deleted' /\ deleted' \subseteq stored'
      /\ \A i \in stored' \ stored : handler[c].op = "post" /\ handler[c].id = i
  BY <1>1, <1>3 DEF Take, Knows
<1>5. /\ stream' = stream
      /\ UNCHANGED <<serverVars, posted, toldDeleted, exit>>
  BY DEF Commits, CommitFails
<1>6. ASSUME NEW h \in Handlers, Becomes(c, h),
             h.op = handler[c].op, h.id = handler[c].id,
             h.stage # "none", Knows(c)'
      PROVE  BooksInv'
  <2>1. \A i \in stored' \ stream' :
           i \in stored \ stream \/ (h.op = "post" /\ h.id = i)
    BY <1>4, <1>5, <1>6
  <2>2. stream \subseteq stream' /\ stream' \subseteq stored'
    BY <1>1, <1>4, <1>5
  <2> QED BY <1>2, <1>4, <1>5, <1>6, <2>1, <2>2, InnerStep
<1>7. ASSUME NEW s \in {"OK", "Accepted", "InternalServerError"}, GoAnswer(c, s),
             s = "Accepted" => handler[c].op = "delete" /\ handler[c].id \in deleted'
      PROVE  BooksInv'
  <2> DEFINE h == [handler[c] EXCEPT !.stage = "answer", !.status = s]
  <2>1. Becomes(c, h) BY <1>7 DEF GoAnswer
  <2>2. /\ h \in Handlers /\ h.stage = "answer"
        /\ h.op = handler[c].op /\ h.id = handler[c].id
        /\ h.before = handler[c].before /\ h.found = handler[c].found
        /\ h.status = s
    BY <1>1 DEF Handlers, Stages, Statuses
  <2> HIDE DEF h
  <2>3. handler'[c] = h BY <1>1, <2>1 DEF Becomes
  <2>4. Knows(c)' BY <1>1, <1>4, <1>5, <1>7, <2>2, <2>3 DEF Knows
  <2> QED BY <1>6, <2>1, <2>2, <2>4
<1>8. CASE CommitFails(c)
  BY <1>7, <1>8 DEF CommitFails
<1>9. CASE Commits(c) /\ handler[c].op = "post"
  <2> DEFINE h == [handler[c] EXCEPT !.stage = "publish"]
  <2>1. Becomes(c, h) BY <1>9 DEF Commits, Go
  <2>2. /\ h \in Handlers /\ h.stage = "publish"
        /\ h.op = handler[c].op /\ h.id = handler[c].id
        /\ h.before = handler[c].before /\ h.found = handler[c].found
        /\ h.status = handler[c].status
    BY <1>1, WithStage DEF Stages
  <2> HIDE DEF h
  <2>3. handler'[c] = h BY <1>1, <2>1 DEF Becomes
  <2>4. handler[c].id \in stored' BY <1>9 DEF Commits, Take
  <2>5. Knows(c)' BY <1>1, <1>4, <1>5, <1>9, <2>2, <2>3, <2>4 DEF Knows
  <2> QED BY <1>6, <2>1, <2>2, <2>5
<1>10. CASE Commits(c) /\ handler[c].op = "delete"
  <2>1. handler[c].id \in deleted' BY <1>10 DEF Commits, Take
  <2>2. GoAnswer(c, "Accepted") BY <1>10 DEF Commits
  <2> QED BY <1>7, <1>10, <2>1, <2>2
<1>11. CASE Commits(c) /\ handler[c].op \in {"get", "list"}
  <2>1. GoAnswer(c, "OK") \/ GoAnswer(c, "InternalServerError") BY <1>11 DEF Commits
  <2> QED BY <1>7, <2>1
<1>12. handler[c].op \in Ops
  BY <1>1, <1>2 DEF Knows
<1> QED BY <1>8, <1>9, <1>10, <1>11, <1>12 DEF Ops

LEMMA PublishStep ==
  ASSUME BooksInv, NEW c \in Conns, exit # "exited", Publishes(c) \/ PublishFails(c)
  PROVE  BooksInv'
<1>1. /\ handler[c] \in Handlers /\ Knows(c)
      /\ handler \in [Conns -> Handlers]
      /\ stored \subseteq Ids /\ deleted \subseteq stored
      /\ stream \subseteq stored /\ toldDeleted \subseteq deleted
  BY HandlerTypes
<1>2. handler[c].stage = "publish"
  BY DEF Publishes, PublishFails
<1>3. handler[c].op = "post" /\ handler[c].id \in stored
  BY <1>1, <1>2 DEF Knows
<1>4. stream \subseteq stream' /\ stream' \subseteq stored
  BY <1>1, <1>3 DEF Publishes, PublishFails
<1>5. UNCHANGED <<serverVars, stored, deleted, posted, toldDeleted, exit>>
  BY DEF Publishes, PublishFails
<1>6. PICK s \in {"Created", "InternalServerError"} :
        GoAnswer(c, s) /\ (s = "Created" => handler[c].id \in stream')
  BY DEF Publishes, PublishFails
<1> DEFINE h == [handler[c] EXCEPT !.stage = "answer", !.status = s]
<1>7. Becomes(c, h) BY <1>6 DEF GoAnswer
<1>8. /\ h \in Handlers /\ h.stage = "answer"
      /\ h.op = handler[c].op /\ h.id = handler[c].id
      /\ h.before = handler[c].before /\ h.found = handler[c].found
      /\ h.status = s
  BY <1>1 DEF Handlers, Stages, Statuses
<1> HIDE DEF h
<1>9. handler'[c] = h BY <1>1, <1>7 DEF Becomes
<1>10. Knows(c)' BY <1>1, <1>3, <1>4, <1>5, <1>6, <1>8, <1>9 DEF Knows
<1>11. \A i \in stored' \ stream' :
         i \in stored \ stream \/ (h.op = "post" /\ h.id = i)
  BY <1>4, <1>5
<1> QED BY <1>1, <1>2, <1>4, <1>5, <1>7, <1>8, <1>10, <1>11, InnerStep

-----------------------------------------------------------------------------
(* The first step of a handler, and the last                                *)

LEMMA RequestStep ==
  ASSUME BooksInv, exit # "exited", NEW c \in Conns, NEW h \in Handlers,
         Request(c), handler' = [handler EXCEPT ![c] = h],
         UNCHANGED <<stored, deleted, stream, posted, toldDeleted, exit>>,
         h.stage # "none", Knows(c)'
  PROVE  BooksInv'
<1>1. ServeInv'
  BY ServeStep DEF ServerNext, BooksInv
<1>2. handler \in [Conns -> Handlers] /\ conn \in [Conns -> ConnStates]
  BY DEF BooksInv, TypeOK, ServerTypeOK
<1>3. /\ handler' \in [Conns -> Handlers]
      /\ handler'[c] = h /\ \A d \in Conns : d # c => handler'[d] = handler[d]
  BY <1>2
<1>4. conn'[c] = "active" /\ \A d \in Conns : d # c => conn'[d] = conn[d]
  BY <1>2 DEF Request
<1>5. TypeOK'
  <2>1. \A d \in Conns : handler'[d].stage # "none" <=> conn'[d] = "active"
    BY <1>3, <1>4 DEF BooksInv, TypeOK
  <2> QED BY <1>1, <1>3, <2>1 DEF BooksInv, TypeOK, ServeInv
<1>6. HandlerFacts'
  <2> SUFFICES ASSUME NEW d \in Conns, d # c PROVE Knows(d)'
    BY DEF HandlerFacts
  <2> QED BY <1>3 DEF BooksInv, HandlerFacts, Knows
<1>7. handler[c].op # "post"
  <2>1. conn[c] = "idle" BY DEF Request
  <2>2. handler[c] = NoHandler
    BY <2>1 DEF BooksInv, TypeOK, HandlerFacts, Knows
  <2> QED BY <2>2 DEF NoHandler
<1>8. LostEventsAreKnown'
  BY <1>3, <1>7 DEF BooksInv, LostEventsAreKnown
<1>9. exit' # "no" => main' = "returned"
  BY DEF BooksInv, Request
<1> QED
  BY <1>1, <1>5, <1>6, <1>8, <1>9 DEF BooksInv, EventsHaveBooks

LEMMA HandleStep ==
  ASSUME BooksInv, exit # "exited", NEW c \in Conns,
         NEW op \in Ops, NEW i \in Ids \cup {NoId}, Handle(c, op, i)
  PROVE  BooksInv'
<1> DEFINE h == [NoHandler EXCEPT !.stage = "begin", !.op = op, !.id = i,
                   !.before = IF op \in {"get", "list"} THEN toldDeleted ELSE {}]
<1>1. handler \in [Conns -> Handlers] /\ toldDeleted \subseteq Ids
  BY DEF BooksInv, TypeOK
<1>2. handler' = [handler EXCEPT ![c] = h] BY DEF Handle
<1>3. /\ h.stage = "begin" /\ h.op = op /\ h.id = i
      /\ h.before \subseteq toldDeleted /\ h.found = {} /\ h.status = "none"
  BY DEF NoHandler
<1>4. h \in Handlers
  BY <1>1 DEF NoHandler, Handlers, Stages, Statuses
<1>5. /\ op = "post" => i \in Ids
      /\ op = "delete" => i \in stored
  BY DEF Handle, Chosen
<1> HIDE DEF h
<1>6. handler'[c] = h BY <1>1, <1>2
<1>7. UNCHANGED <<stored, deleted, stream, posted, toldDeleted, exit>>
  BY DEF Handle
<1>8. Knows(c)' BY <1>3, <1>5, <1>6, <1>7 DEF Knows
<1> QED BY <1>2, <1>3, <1>4, <1>7, <1>8, RequestStep DEF Handle

LEMMA BadRequestStep ==
  ASSUME BooksInv, exit # "exited", NEW c \in Conns, HandleBadRequest(c)
  PROVE  BooksInv'
<1> DEFINE h == [NoHandler EXCEPT !.stage = "answer", !.status = "BadRequest"]
<1>1. handler \in [Conns -> Handlers]
  BY DEF BooksInv, TypeOK
<1>2. handler' = [handler EXCEPT ![c] = h] BY DEF HandleBadRequest
<1>3. /\ h.stage = "answer" /\ h.op = "none" /\ h.status = "BadRequest"
      /\ h.before = {} /\ h.found = {}
  BY DEF NoHandler
<1>4. h \in Handlers
  BY DEF NoHandler, Handlers, Stages, Statuses
<1> HIDE DEF h
<1>5. handler'[c] = h BY <1>1, <1>2
<1>6. Knows(c)' BY <1>3, <1>5 DEF Knows
<1> QED BY <1>2, <1>3, <1>4, <1>6, RequestStep DEF HandleBadRequest

LEMMA AnswerStep ==
  ASSUME BooksInv, exit # "exited", NEW c \in Conns, Answer(c)
  PROVE  BooksInv'
<1> DEFINE h == handler[c]
<1>1. ServeInv'
  BY ServeStep DEF ServerNext, BooksInv, Answer
<1>2. /\ h \in Handlers /\ Knows(c) /\ handler \in [Conns -> Handlers]
      /\ stored \subseteq Ids /\ deleted \subseteq stored
      /\ stream \subseteq stored /\ toldDeleted \subseteq deleted
  BY HandlerTypes
<1>3. /\ h.stage = "answer"
      /\ UNCHANGED <<stored, deleted, stream, exit>>
      /\ handler' = [handler EXCEPT ![c] = NoHandler]
  BY DEF Answer
<1>4. NoHandler \in Handlers BY DEF NoHandler, Handlers, Stages, Statuses
<1>5. /\ handler' \in [Conns -> Handlers] /\ handler'[c] = NoHandler
      /\ \A d \in Conns : d # c => handler'[d] = handler[d]
  BY <1>2, <1>3, <1>4
<1>6. conn'[c] # "active" /\ \A d \in Conns : d # c => conn'[d] = conn[d]
  BY DEF BooksInv, TypeOK, ServerTypeOK, Answer, Respond
<1>7. toldDeleted \subseteq toldDeleted' /\ toldDeleted' \subseteq deleted
  BY <1>2 DEF Answer, Knows
<1>8. posted \in [Ids -> {"none", "created", "failed"}]
  BY DEF BooksInv, TypeOK
<1>9. /\ posted' \in [Ids -> {"none", "created", "failed"}]
      /\ \A i \in Ids :
           posted'[i] = IF h.op = "post" /\ h.id = i
                        THEN IF h.status = "Created" THEN "created" ELSE "failed"
                        ELSE posted[i]
  BY <1>8 DEF Answer
<1>10. h.op = "post" /\ h.status = "Created" => h.id \in stored \cap stream
  BY <1>2, <1>3 DEF Knows
<1>11. TypeOK'
  <2>1. \A d \in Conns : handler'[d].stage # "none" <=> conn'[d] = "active"
    BY <1>5, <1>6 DEF BooksInv, TypeOK, NoHandler
  <2>2. toldDeleted' \subseteq Ids BY <1>2, <1>7
  <2> QED
    BY <1>1, <1>3, <1>5, <1>9, <2>1, <2>2 DEF BooksInv, TypeOK, ServeInv
<1>12. HandlerFacts'
  <2> SUFFICES ASSUME NEW d \in Conns PROVE Knows(d)'
    BY DEF HandlerFacts
  <2>1. CASE d = c
    BY <1>5, <2>1 DEF Knows, NoHandler
  <2>2. CASE d # c
    BY <1>3, <1>5, <1>7, <2>2 DEF BooksInv, HandlerFacts, Knows
  <2> QED BY <2>1, <2>2
<1>13. \A i \in Ids : posted'[i] = "created" => i \in stored' \cap stream'
  BY <1>3, <1>9, <1>10 DEF BooksInv
<1>14. LostEventsAreKnown'
  <2> SUFFICES ASSUME NEW i \in stored' \ stream', posted'[i] # "failed"
               PROVE  \E d \in Conns : handler'[d].id = i /\ handler'[d].op = "post"
    BY DEF LostEventsAreKnown
  <2>1. i \in Ids /\ i \in stored \ stream BY <1>2, <1>3
  <2>2. ~(h.op = "post" /\ h.id = i) BY <1>9, <1>10, <2>1
  <2>3. posted[i] # "failed" BY <1>9, <2>1, <2>2
  <2>4. PICK d \in Conns : handler[d].id = i /\ handler[d].op = "post"
    BY <2>1, <2>3 DEF BooksInv, LostEventsAreKnown
  <2> QED BY <1>5, <2>2, <2>4
<1>15. exit' # "no" => main' = "returned"
  BY DEF BooksInv, Answer, Respond
<1> QED
  BY <1>1, <1>2, <1>3, <1>7, <1>11, <1>12, <1>13, <1>14, <1>15
  DEF BooksInv, EventsHaveBooks

-----------------------------------------------------------------------------
(* The end of the process                                                   *)

\* A handler that the exit cuts off was left by a shutdown that timed out:
\* after nil, every connection is closed.
LEMMA ExitStep ==
  ASSUME BooksInv, Exit
  PROVE  BooksInv'
<1>1. main = "returned" /\ outcome \in {"nil", "error"}
  BY DEF Exit, BooksInv, TypeOK, ServerTypeOK
<1>2. \A d \in Conns : handler'[d] = NoHandler /\ conn'[d] = "closed"
  BY DEF Exit
<1>3. ServeInv'
  <2>1. ServerTypeOK'
    BY DEF Exit, BooksInv, ServeInv, ServerTypeOK, ConnStates
  <2> QED BY <2>1 DEF Exit, BooksInv, ServeInv, NilMeansDrained, ClosingInv
<1>4. TypeOK'
  <2>1. handler' \in [Conns -> Handlers]
    BY DEF Exit, NoHandler, Handlers, Stages, Statuses
  <2>2. \A d \in Conns : handler'[d].stage # "none" <=> conn'[d] = "active"
    BY <1>2 DEF NoHandler
  <2> QED
    BY <1>3, <2>1, <2>2 DEF Exit, BooksInv, ServeInv, TypeOK
<1>5. HandlerFacts'
  <2> SUFFICES ASSUME NEW d \in Conns PROVE Knows(d)'
    BY DEF HandlerFacts
  <2> QED BY <1>2 DEF Knows, NoHandler
<1>6. LostEventsAreKnown'
  <2> SUFFICES ASSUME NEW i \in stored \ stream, posted[i] # "failed",
                      outcome # "error"
               PROVE  FALSE
    BY DEF Exit, LostEventsAreKnown
  <2>1. PICK d \in Conns : handler[d].op = "post"
    BY DEF Exit, BooksInv, LostEventsAreKnown
  <2>2. conn[d] = "active"
    BY <2>1 DEF BooksInv, TypeOK, HandlerFacts, Knows, NoHandler
  <2> QED BY <1>1, <2>2 DEF BooksInv, ServeInv, NilMeansDrained
<1> QED
  BY <1>1, <1>3, <1>4, <1>5, <1>6 DEF Exit, BooksInv, EventsHaveBooks

LEMMA DisconnectStep ==
  ASSUME BooksInv, Disconnect
  PROVE  BooksInv'
<1>1. ServeInv'
  BY DEF Disconnect, BooksInv, ServeInv, ServerTypeOK, NilMeansDrained,
         ClosingInv, serverVars
<1>2. TypeOK'
  BY <1>1 DEF Disconnect, BooksInv, ServeInv, TypeOK, serverVars
<1>3. HandlerFacts'
  BY DEF Disconnect, BooksInv, HandlerFacts, Knows
<1>4. LostEventsAreKnown'
  BY DEF Disconnect, BooksInv, LostEventsAreKnown
<1> QED
  BY <1>1, <1>2, <1>3, <1>4
  DEF Disconnect, BooksInv, EventsHaveBooks, serverVars

LEMMA BooksStep == BooksInv /\ [BooksNext]_allVars => BooksInv'
<1> SUFFICES ASSUME BooksInv, [BooksNext]_allVars PROVE BooksInv'
  OBVIOUS
<1>1. CASE UNCHANGED allVars
  <2>1. UNCHANGED serverVars /\ UNCHANGED booksVars
    BY <1>1 DEF allVars
  <2>2. ServeInv'
    BY <2>1, ServeStep DEF BooksInv
  <2>3. TypeOK'
    BY <2>1, <2>2 DEF BooksInv, ServeInv, TypeOK, booksVars, serverVars
  <2>4. HandlerFacts' /\ LostEventsAreKnown'
    BY <2>1 DEF BooksInv, HandlerFacts, Knows, LostEventsAreKnown, booksVars,
                serverVars
  <2> QED
    BY <2>1, <2>2, <2>3, <2>4 DEF BooksInv, EventsHaveBooks, booksVars, serverVars
<1>2. CASE BooksNext
  <2>1. exit # "exited" BY <1>2 DEF BooksNext
  <2>2. CASE ServerStep BY <2>1, <2>2, ServerKeepsBooks
  <2>3. CASE Disconnect BY <2>3, DisconnectStep
  <2>4. CASE Exit BY <2>4, ExitStep
  <2>5. ASSUME NEW c \in Conns, HandlerStep(c) PROVE BooksInv'
    <3>1. CASE \E op \in Ops, i \in Ids \cup {NoId} : Handle(c, op, i)
      BY <2>1, <3>1, HandleStep
    <3>2. CASE HandleBadRequest(c) BY <2>1, <3>2, BadRequestStep
    <3>3. CASE Answer(c) BY <2>1, <3>3, AnswerStep
    <3>4. CASE Begin(c) \/ BeginFails(c) \/ StatementFails(c)
      BY <2>1, <3>4, GoSteps
    <3>5. CASE Statement(c) BY <2>1, <3>5, StatementStep
    <3>6. CASE Commits(c) \/ CommitFails(c) BY <2>1, <3>6, CommitStep
    <3>7. CASE Publishes(c) \/ PublishFails(c) BY <2>1, <3>7, PublishStep
    <3> QED
      BY <2>5, <3>1, <3>2, <3>3, <3>4, <3>5, <3>6, <3>7 DEF HandlerStep, TxStep
  <2> QED BY <1>2, <2>2, <2>3, <2>4, <2>5 DEF BooksNext
<1> QED BY <1>1, <1>2

\* The whole invariant, from which each theorem takes its part.
LEMMA AlwaysBooksInv == BooksSpec => []BooksInv
<1> QED BY InitBooks, BooksStep, PTL DEF BooksSpec

-----------------------------------------------------------------------------
(* Catalogue: each step of the program is one of its steps, or none.        *)

\* A book is asked for by one POST, which is not answered yet while it runs.
OneAnswer ==
  \A c \in Conns : handler[c].op = "post" =>
    /\ posted[handler[c].id] = "none"
    /\ \A d \in Conns : handler[d].op = "post" /\ handler[d].id = handler[c].id => d = c

\* Between its request and its answer a handler is about the same book.
LEMMA SameRequest ==
  ASSUME BooksInv, NEW c \in Conns,
         Begin(c) \/ BeginFails(c) \/ TxStep(c) \/ Publishes(c) \/ PublishFails(c)
  PROVE  \E h \in Handlers :
           Becomes(c, h) /\ h.op = handler[c].op /\ h.id = handler[c].id
<1>1. handler[c] \in Handlers
  BY DEF BooksInv, TypeOK
<1>2. ASSUME NEW st \in Stages, Go(c, st)
      PROVE  \E h \in Handlers :
               Becomes(c, h) /\ h.op = handler[c].op /\ h.id = handler[c].id
  <2> DEFINE h == [handler[c] EXCEPT !.stage = st]
  <2>1. h \in Handlers /\ h.op = handler[c].op /\ h.id = handler[c].id
    BY <1>1 DEF Handlers
  <2> QED
    BY <1>2, <2>1 DEF Go
<1>3. ASSUME NEW st \in Statuses, GoAnswer(c, st)
      PROVE  \E h \in Handlers :
               Becomes(c, h) /\ h.op = handler[c].op /\ h.id = handler[c].id
  <2> DEFINE h == [handler[c] EXCEPT !.stage = "answer", !.status = st]
  <2>1. h \in Handlers /\ h.op = handler[c].op /\ h.id = handler[c].id
    BY <1>1 DEF Handlers, Stages
  <2> QED
    BY <1>3, <2>1 DEF GoAnswer
<1>4. CASE Begin(c) \/ BeginFails(c) \/ StatementFails(c)
  BY <1>2, <1>3, <1>4 DEF Begin, BeginFails, StatementFails, Stages, Statuses
<1>5. CASE Statement(c)
  <2>1. PICK found \in CASE handler[c].op = "get" -> {{handler[c].id} \cap rows}
                         [] handler[c].op = "list" -> SUBSET rows
                         [] OTHER -> {{}} :
          Becomes(c, [handler[c] EXCEPT !.stage = "commit", !.found = found])
    BY <1>5 DEF Statement
  <2> DEFINE h == [handler[c] EXCEPT !.stage = "commit", !.found = found]
  <2>2. found \in SUBSET Ids
    BY <2>1 DEF rows, BooksInv, TypeOK
  <2>3. h \in Handlers /\ h.op = handler[c].op /\ h.id = handler[c].id
    BY <1>1, <2>2 DEF Handlers, Stages
  <2> QED
    BY <2>1, <2>3
<1>6. CASE Commits(c)
  <2>1. handler[c].op \in Ops
    BY <1>6 DEF BooksInv, HandlerFacts, Knows, Commits
  <2>2. Go(c, "publish") \/ \E st \in Statuses : GoAnswer(c, st)
    BY <1>6, <2>1 DEF Commits, Ops, Statuses
  <2> QED
    BY <1>2, <1>3, <2>2 DEF Stages
<1>7. CASE CommitFails(c) \/ Publishes(c) \/ PublishFails(c)
  BY <1>3, <1>7 DEF CommitFails, Publishes, PublishFails, Statuses
<1> QED
  BY <1>4, <1>5, <1>6, <1>7 DEF TxStep

LEMMA OneAnswerInvariant == BooksSpec => []OneAnswer
<1>1. BooksInit => OneAnswer
  BY DEF BooksInit, OneAnswer, NoHandler
<1>2. BooksInv /\ OneAnswer /\ [BooksNext]_allVars => OneAnswer'
  <2> SUFFICES ASSUME BooksInv, OneAnswer, [BooksNext]_allVars PROVE OneAnswer'
    OBVIOUS
  <2>1. handler \in [Conns -> Handlers] /\ NoHandler.op = "none"
    BY DEF BooksInv, TypeOK, NoHandler
  <2>2. CASE UNCHANGED <<handler, posted>>
    BY <2>2 DEF OneAnswer
  <2>3. ASSUME NEW c \in Conns, NEW h, handler' = [handler EXCEPT ![c] = h],
               UNCHANGED posted,
               h.op = "post" =>
                 \/ handler[c].op = "post" /\ h.id = handler[c].id
                 \/ posted[h.id] = "none" /\ \A d \in Conns : handler[d].id # h.id
        PROVE  OneAnswer'
    <3>1. handler'[c] = h /\ \A d \in Conns \ {c} : handler'[d] = handler[d]
      BY <2>1, <2>3
    <3> QED
      BY <2>3, <3>1 DEF OneAnswer
  <2>4. ASSUME NEW c \in Conns, NEW op \in Ops, NEW i \in Ids \cup {NoId}, Handle(c, op, i)
        PROVE  OneAnswer'
    <3> DEFINE h == [NoHandler EXCEPT !.stage = "begin", !.op = op, !.id = i,
                       !.before = IF op \in {"get", "list"} THEN toldDeleted ELSE {}]
    <3>1. h.op = op /\ h.id = i
      BY DEF NoHandler
    <3>2. handler' = [handler EXCEPT ![c] = h] /\ UNCHANGED posted /\ Chosen(op, i)
      BY <2>4 DEF Handle
    <3> HIDE DEF h
    <3>3. h.op = "post" => posted[h.id] = "none" /\ \A d \in Conns : handler[d].id # h.id
      BY <3>1, <3>2 DEF Chosen
    <3> QED
      BY <2>3, <3>2, <3>3
  <2>5. ASSUME NEW c \in Conns, HandleBadRequest(c) PROVE OneAnswer'
    <3> DEFINE h == [NoHandler EXCEPT !.stage = "answer", !.status = "BadRequest"]
    <3>1. h.op = "none"
      BY DEF NoHandler
    <3>2. handler' = [handler EXCEPT ![c] = h] /\ UNCHANGED posted
      BY <2>5 DEF HandleBadRequest
    <3> QED
      BY <2>3, <3>1, <3>2
  <2>6. ASSUME NEW c \in Conns, Answer(c) PROVE OneAnswer'
    <3>1. /\ handler'[c] = NoHandler /\ \A d \in Conns \ {c} : handler'[d] = handler[d]
          /\ posted' = IF handler[c].op # "post" THEN posted
                       ELSE [posted EXCEPT ![handler[c].id] =
                               IF handler[c].status = "Created" THEN "created" ELSE "failed"]
      BY <2>1, <2>6 DEF Answer
    <3>2. ASSUME NEW d \in Conns, handler'[d].op = "post"
          PROVE  posted'[handler'[d].id] = "none"
      <4>1. d # c /\ handler'[d] = handler[d] /\ posted[handler[d].id] = "none"
        BY <2>1, <3>1, <3>2 DEF OneAnswer
      <4>2. handler[c].op = "post" => handler[c].id # handler[d].id
        BY <3>1, <3>2, <4>1 DEF OneAnswer
      <4> QED
        BY <3>1, <4>1, <4>2
    <3>3. ASSUME NEW d \in Conns, NEW e \in Conns, handler'[d].op = "post",
                 handler'[e].op = "post", handler'[d].id = handler'[e].id
          PROVE  d = e
      BY <2>1, <3>1, <3>3 DEF OneAnswer
    <3> QED
      BY <3>2, <3>3 DEF OneAnswer
  <2>7. ASSUME NEW c \in Conns,
               Begin(c) \/ BeginFails(c) \/ TxStep(c) \/ Publishes(c) \/ PublishFails(c)
        PROVE  OneAnswer'
    <3>1. PICK h \in Handlers :
            Becomes(c, h) /\ h.op = handler[c].op /\ h.id = handler[c].id
      BY <2>7, SameRequest
    <3>2. UNCHANGED posted
      BY <2>7 DEF Begin, BeginFails, TxStep, Statement, StatementFails, Commits, CommitFails,
                  Publishes, PublishFails
    <3> QED
      BY <2>3, <3>1, <3>2 DEF Becomes
  <2>8. CASE Exit
    BY <2>1, <2>8 DEF Exit, OneAnswer
  <2>9. CASE ServerStep \/ Disconnect \/ UNCHANGED allVars
    BY <2>2, <2>9 DEF ServerStep, Disconnect, allVars, booksVars
  <2> QED
    BY <2>4, <2>5, <2>6, <2>7, <2>8, <2>9 DEF BooksNext, HandlerStep
<1> QED
  BY <1>1, <1>2, AlwaysBooksInv, PTL DEF BooksSpec

\* The service keeps its promise: books come, are announced and go one at a
\* time and in this order, what clients are told is so and is said once, and
\* the process ends cleanly only when it owes no event.
THEOREM BooksKeepCatalogue == BooksSpec => CatalogueKept
<1>1. BooksInit => Promise!AbsInit
  BY DEF BooksInit, Promise!AbsInit
<1>2. BooksInv /\ BooksInv' /\ OneAnswer /\ [BooksNext]_allVars
        => [Promise!AbsNext]_Promise!absVars
  <2> SUFFICES ASSUME BooksInv, BooksInv', OneAnswer, BooksNext
               PROVE  Promise!AbsNext \/ UNCHANGED Promise!absVars
    BY DEF allVars, booksVars, serverVars, Promise!absVars
  <2> DEFINE ends == IF exit # "exited" THEN "no"
                     ELSE IF outcome = "nil" THEN "clean" ELSE "cut off"
  <2>1. exit # "exited" /\ ends = "no"
    BY DEF BooksNext
  <2>2. /\ handler \in [Conns -> Handlers] /\ HandlerFacts
        /\ stored \subseteq Ids /\ deleted \subseteq stored /\ stream \subseteq stored
    BY DEF BooksInv, TypeOK, EventsHaveBooks
  <2>3. ASSUME exit' # "exited", UNCHANGED <<stored, deleted, stream, posted, toldDeleted>>
        PROVE  UNCHANGED Promise!absVars
    BY <2>1, <2>3 DEF Promise!absVars
  <2>4. CASE ServerStep \/ Disconnect
    BY <2>1, <2>3, <2>4 DEF ServerStep, Disconnect, booksVars
  <2>5. CASE Exit
    <3> DEFINE how == IF outcome = "nil" THEN "clean" ELSE "cut off"
    <3>1. /\ ends' = how /\ how \in {"clean", "cut off"}
          /\ UNCHANGED <<stored, deleted, stream, posted, toldDeleted>>
      BY <2>5 DEF Exit
    <3>2. ASSUME how = "clean", NEW b \in stored \ stream PROVE posted[b] = "failed"
      <4>1. outcome' = "nil" /\ b \in stored' \ stream' /\ b \in Ids
        BY <2>2, <2>5, <3>2 DEF Exit
      <4>2. \A c \in Conns : handler'[c].op # "post"
        BY <2>5 DEF Exit, NoHandler
      <4>3. posted'[b] = "failed"
        BY <4>1, <4>2 DEF BooksInv, LostEventsAreKnown
      <4> QED
        BY <3>1, <4>3
    <3> HIDE DEF how
    <3>3. Promise!End(how)
      BY <3>1, <3>2 DEF Promise!End
    <3> QED
      BY <2>1, <3>1, <3>3 DEF Promise!AbsNext
  <2>6. ASSUME NEW c \in Conns, HandlerStep(c)
        PROVE  Promise!AbsNext \/ UNCHANGED Promise!absVars
    <3>1. exit' = exit /\ ends' = "no"
      BY <2>1, <2>6 DEF HandlerStep, Handle, HandleBadRequest, Answer, Begin, BeginFails, TxStep,
                        Statement, StatementFails, Commits, CommitFails, Publishes, PublishFails
    <3>2. Knows(c) /\ handler[c] \in Handlers
      BY <2>2 DEF HandlerFacts
    <3>3. CASE \/ \E op \in Ops, i \in Ids \cup {NoId} : Handle(c, op, i)
               \/ HandleBadRequest(c) \/ Begin(c) \/ BeginFails(c)
               \/ Statement(c) \/ StatementFails(c)
      BY <2>1, <2>3, <3>1, <3>3
      DEF Handle, HandleBadRequest, Begin, BeginFails, Statement, StatementFails
    <3>4. CASE Commits(c) \/ CommitFails(c)
      <4> DEFINE b == handler[c].id
      <4>1. UNCHANGED <<stream, posted, toldDeleted>> /\ (Take(c) \/ UNCHANGED <<stored, deleted>>)
        BY <3>4 DEF Commits, CommitFails
      <4>2. CASE Take(c) /\ handler[c].op = "post" /\ b \notin stored
        <5>1. Promise!Add(b) /\ b \in Ids
          BY <2>1, <3>1, <3>2, <4>1, <4>2 DEF Promise!Add, Take, Knows
        <5> QED
          BY <2>1, <5>1 DEF Promise!AbsNext
      <4>3. CASE Take(c) /\ handler[c].op = "delete"
        <5>1. Promise!Remove(b) /\ b \in Ids
          BY <2>1, <2>2, <3>1, <3>2, <4>1, <4>3 DEF Promise!Remove, Take, Knows
        <5> QED
          BY <2>1, <5>1 DEF Promise!AbsNext
      <4>4. CASE \/ UNCHANGED <<stored, deleted>>
                 \/ Take(c) /\ handler[c].op # "delete" /\ (handler[c].op = "post" => b \in stored)
        <5>1. UNCHANGED <<stored, deleted>>
          BY <4>4 DEF Take
        <5> QED
          BY <2>1, <2>3, <3>1, <4>1, <5>1
      <4> QED
        BY <4>1, <4>2, <4>3, <4>4
    <3>5. CASE Publishes(c) \/ PublishFails(c)
      <4> DEFINE b == handler[c].id
      <4>1. /\ UNCHANGED <<stored, deleted, posted, toldDeleted>>
            /\ stream' = stream \cup {b} \/ stream' = stream
        BY <3>5 DEF Publishes, PublishFails
      <4>2. b \in stored
        BY <3>2, <3>5 DEF Publishes, PublishFails, Knows
      <4>3. CASE stream' = stream \cup {b}
        <5>1. Promise!Announce(b) /\ b \in Ids
          BY <2>1, <2>2, <3>1, <4>1, <4>2, <4>3 DEF Promise!Announce
        <5> QED
          BY <2>1, <5>1 DEF Promise!AbsNext
      <4> QED
        BY <2>1, <2>3, <3>1, <4>1, <4>3
    <3>6. CASE Answer(c)
      <4> DEFINE b == handler[c].id
                 what == IF handler[c].status = "Created" THEN "created" ELSE "failed"
      <4>1. /\ UNCHANGED <<stored, deleted, stream>> /\ handler[c].stage = "answer"
            /\ posted' = IF handler[c].op # "post" THEN posted
                         ELSE [posted EXCEPT ![b] = what]
            /\ toldDeleted' = IF handler[c].status = "Accepted" THEN toldDeleted \cup {b}
                              ELSE toldDeleted
        BY <3>6 DEF Answer
      <4>2. CASE handler[c].op = "post"
        <5>1. b \in Ids /\ posted[b] = "none" /\ handler[c].status # "Accepted"
          BY <3>2, <4>2 DEF OneAnswer, Knows
        <5>2. what = "created" => b \in stored \cap stream
          BY <3>2, <4>1 DEF Knows
        <5>3. Promise!Tell(b, what) /\ what \in {"created", "failed"}
          BY <2>1, <3>1, <4>1, <4>2, <5>1, <5>2 DEF Promise!Tell
        <5> QED
          BY <2>1, <5>1, <5>3 DEF Promise!AbsNext
      <4>3. CASE handler[c].status = "Accepted"
        <5>1. handler[c].op = "delete" /\ b \in deleted
          BY <3>2, <4>3 DEF Knows
        <5>2. Promise!TellGone(b) /\ b \in Ids
          BY <2>1, <2>2, <3>1, <4>1, <4>3, <5>1 DEF Promise!TellGone
        <5> QED
          BY <2>1, <5>2 DEF Promise!AbsNext
      <4>4. CASE handler[c].op # "post" /\ handler[c].status # "Accepted"
        BY <2>1, <2>3, <3>1, <4>1, <4>4
      <4> QED
        BY <4>2, <4>3, <4>4
    <3> QED
      BY <2>6, <3>3, <3>4, <3>5, <3>6 DEF HandlerStep, TxStep
  <2> QED
    BY <2>4, <2>5, <2>6 DEF BooksNext
<1> QED
  BY <1>1, <1>2, AlwaysBooksInv, OneAnswerInvariant, PTL DEF BooksSpec, CatalogueKept, Promise!AbsSpec

-----------------------------------------------------------------------------
(* Theorems                                                                 *)

\* Types, and that a handler runs exactly on the connections that are active.
THEOREM BooksTypes == BooksSpec => []TypeOK
<1>1. BooksInv => TypeOK BY DEF BooksInv
<1> QED BY <1>1, AlwaysBooksInv, PTL

\* Every event that CreateBook publishes is of a book that is committed,
\* whichever connections, calls and shutdowns come in between.
THEOREM EventsOnlyOfBooks == BooksSpec => []EventsHaveBooks
<1>1. BooksInv => EventsHaveBooks BY DEF BooksInv
<1> QED BY <1>1, AlwaysBooksInv, PTL

\* What POST, DELETE and GET answer is true of the table and the stream.
THEOREM AnswersTrue == BooksSpec => []AnswersAreTrue
<1>1. BooksInv => AnswersAreTrue
  BY DEF BooksInv, AnswersAreTrue, HandlerFacts, Knows
<1> QED BY <1>1, AlwaysBooksInv, PTL

\* A book without an event is one whose POST failed or is still running, or
\* was cut off after StartServer had returned an error.
THEOREM LostKnown == BooksSpec => []LostEventsAreKnown
<1>1. BooksInv => LostEventsAreKnown BY DEF BooksInv
<1> QED BY <1>1, AlwaysBooksInv, PTL

\* nil from StartServer means that no request is being served, also in this
\* program, where handlers hold transactions.
THEOREM BooksNilIsDrained == BooksSpec => []NilMeansDrained
<1>1. BooksInv => NilMeansDrained BY DEF BooksInv, ServeInv
<1> QED BY <1>1, AlwaysBooksInv, PTL
=============================================================================
