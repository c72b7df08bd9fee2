--------------------------- MODULE ResponseProofs ---------------------------
(***************************************************************************)
(* Theorems about Response, for any sequence of middlewares, any statuses  *)
(* and any number of steps.                                                *)
(***************************************************************************)
EXTENDS Response, SequenceTheorems, TLAPS

N == Len(Middlewares)
Order == Middlewares \o <<"handler">>
Layers == STRING \union {"handler"}

\* What start builds, and which of its layers are the users'.
LEMMA ChainFacts ==
  /\ N \in Nat
  /\ Wrapped = Order /\ Len(Order) = N + 1 /\ Order \in Seq(Layers)
  /\ Len(Chain) = N + 3
  /\ Chain[1] = "accesslog" /\ Chain[2] = "recovery"
  /\ \A i \in 1 .. N + 1 :
       Chain[i + 2] = Order[i] /\ Order[i] \notin {"accesslog", "recovery"}
<1>1. Middlewares \in Seq(STRING \ {"accesslog", "recovery"})
  BY ResponseAssumption DEF ResponseAssumption
<1>2. /\ N \in Nat
      /\ \A i \in 1 .. N : Middlewares[i] \in STRING \ {"accesslog", "recovery"}
  BY <1>1 DEF N
<1>3. /\ Len(Order) = N + 1 /\ Order \in Seq(Layers)
      /\ \A i \in 1 .. N : Order[i] = Middlewares[i]
      /\ Order[N + 1] = "handler"
  <2>1. Middlewares \in Seq(Layers) /\ <<"handler">> \in Seq(Layers)
    <3>1. Middlewares \in [1 .. N -> Layers]
      BY <1>1, <1>2 DEF N, Layers
    <3>2. Middlewares \in Seq(Layers)
      BY <1>2, <3>1
    <3>3. "handler" \in Layers
      BY DEF Layers
    <3>4. <<"handler">> \in Seq(Layers)
      BY <3>3
    <3> QED BY <3>2, <3>4
  <2>2. Len(<<"handler">>) = 1 /\ <<"handler">>[1] = "handler"
    OBVIOUS
  <2> QED BY <1>2, <2>1, <2>2, ConcatProperties DEF Order, N
<1>4. \A i \in 1 .. N : Decorators[N + 1 - i] = Middlewares[i]
  BY <1>2 DEF Decorators, N
<1>5. /\ DOMAIN Wrapped = 1 .. N + 1
      /\ \A i \in 1 .. N + 1 : Wrapped[i] = IF i <= N THEN Decorators[N + 1 - i] ELSE "handler"
  BY <1>2 DEF Wrapped, N
<1>6. \A i \in 1 .. N + 1 : Wrapped[i] = Order[i]
  BY <1>2, <1>3, <1>4, <1>5
<1>7. Wrapped \in Seq(Layers) /\ Len(Wrapped) = N + 1
  <2>1. \A i \in 1 .. N + 1 : Order[i] \in Layers
    BY <1>2, <1>3 DEF Layers
  <2>2. Wrapped \in [1 .. N + 1 -> Layers]
    BY <1>2, <1>5, <1>6, <2>1 DEF Wrapped, N
  <2> QED BY <1>2, <2>2
<1>8. Wrapped = Order
  BY <1>2, <1>3, <1>6, <1>7
<1>9. /\ Len(Chain) = N + 3
      /\ Chain[1] = "accesslog" /\ Chain[2] = "recovery"
      /\ \A i \in 1 .. N + 1 : Chain[i + 2] = Wrapped[i]
  BY <1>2, <1>7 DEF Chain
<1>10. \A i \in 1 .. N + 1 : Order[i] \notin {"accesslog", "recovery"}
  BY <1>2, <1>3
<1> QED BY <1>2, <1>3, <1>6, <1>8, <1>9, <1>10

LEMMA UserFacts ==
  /\ \A i \in 0 .. Len(Chain) : User(i) <=> i > 2
  /\ \A i \in 0 .. Len(Chain) : i > 0 /\ Chain[i] = "recovery" <=> i = 2
  /\ \A i \in 0 .. Len(Chain) : i > 0 /\ Chain[i] = "accesslog" <=> i = 1
  /\ RecoveryAt = 2
<1>1. ASSUME NEW i \in 0 .. Len(Chain), i > 2
      PROVE  Chain[i] \notin {"accesslog", "recovery"}
  <2>1. i - 2 \in 1 .. N + 1 /\ (i - 2) + 2 = i
    BY <1>1, ChainFacts
  <2> QED BY <2>1, ChainFacts
<1>2. ASSUME NEW i \in 0 .. Len(Chain)
      PROVE  /\ i > 0 /\ Chain[i] = "recovery" <=> i = 2
             /\ i > 0 /\ Chain[i] = "accesslog" <=> i = 1
             /\ User(i) <=> i > 2
  <2>1. i = 0 \/ i = 1 \/ i = 2 \/ i > 2
    BY ChainFacts
  <2> QED BY <1>1, <2>1, ChainFacts DEF User
<1>3. RecoveryAt = 2
  BY <1>2, ChainFacts DEF RecoveryAt
<1> QED BY <1>2, <1>3

-----------------------------------------------------------------------------
(* The response                                                             *)

Responses == [sent : Codes, ctype : Types, sentType : Types,
              inner : Codes, outer : Codes, body : Seq(Parts)]

\* A response as it can be: nothing of the body is out before a status is, and
\* no recorder has one that is not.
Good(r) ==
  /\ r \in Responses
  /\ r.sent = 0 => r.body = <<>>
  /\ r.inner > 0 => r.sent # 0

LEMMA CodeFacts ==
  /\ Codes \subseteq Nat /\ 0 \in Codes /\ 200 \in Codes /\ 500 \in Codes
  /\ \A s \in Statuses : s \in Codes /\ s # 0
BY ResponseAssumption DEF ResponseAssumption, Codes

LEMMA FreshGood == Good(Fresh)
BY CodeFacts DEF Good, Fresh, Responses, Types

LEMMA SendHeaderGood ==
  ASSUME NEW r, Good(r), NEW s \in Codes, s # 0
  PROVE  LET h == SendHeader(r, s)
         IN  /\ Good(h) /\ h.sent # 0
             /\ h.body = r.body /\ h.inner = r.inner /\ h.outer = r.outer
             /\ r.sent = 0 => h.sent = s
             /\ r.sent # 0 => h = r
BY CodeFacts DEF Good, Responses, SendHeader

LEMMA WriteHeaderGood ==
  ASSUME NEW r, Good(r), NEW s \in Codes, s # 0
  PROVE  LET h == WriteHeader(r, s)
         IN  /\ Good(h) /\ h.sent # 0 /\ h.body = r.body
             /\ h.sent = IF r.sent = 0 THEN s ELSE r.sent
<1> DEFINE h == SendHeader(r, s)
<1>1. /\ Good(h) /\ h.sent # 0 /\ h.body = r.body
      /\ h.sent = IF r.sent = 0 THEN s ELSE r.sent
  BY SendHeaderGood
<1>2. WriteHeader(r, s) = [h EXCEPT !.inner = s, !.outer = s]
  BY DEF WriteHeader
<1> HIDE DEF h
<1>3. h \in Responses /\ s > 0
  BY <1>1, CodeFacts DEF Good
<1>4. /\ [h EXCEPT !.inner = s, !.outer = s] \in Responses
      /\ [h EXCEPT !.inner = s, !.outer = s].sent = h.sent
      /\ [h EXCEPT !.inner = s, !.outer = s].body = h.body
  BY <1>3 DEF Responses
<1> QED BY <1>1, <1>2, <1>4 DEF Good

LEMMA WriteGood ==
  ASSUME NEW r, Good(r), NEW part \in Parts, NEW ok \in BOOLEAN
  PROVE  LET w == Write(r, part, ok)
         IN  /\ Good(w) /\ w.sent # 0
             /\ r.sent # 0 => w.sent = r.sent
             /\ w.body = IF ok THEN Append(r.body, part) ELSE r.body
<1> DEFINE h == SendHeader(r, 200)
<1>1. /\ Good(h) /\ h.sent # 0 /\ h.body = r.body /\ (r.sent # 0 => h = r)
      /\ h.inner = r.inner
  BY SendHeaderGood, CodeFacts
<1>2. CASE ~ok
  BY <1>1, <1>2 DEF Write
<1>3. CASE ok
  <2>1. Write(r, part, ok) = [h EXCEPT !.body = Append(h.body, part)]
    BY <1>3 DEF Write
  <2>2. Append(h.body, part) \in Seq(Parts)
    BY <1>1 DEF Good, Responses
  <2>3. PICK b \in Seq(Parts) : b = Append(h.body, part)
    BY <2>2
  <2> HIDE DEF h
  <2>4. [h EXCEPT !.body = b] \in Responses /\ [h EXCEPT !.body = b].body = b
        /\ [h EXCEPT !.body = b].sent = h.sent
    BY <1>1 DEF Good, Responses
  <2>5. /\ Good([h EXCEPT !.body = b]) /\ [h EXCEPT !.body = b].sent # 0
        /\ r.sent # 0 => [h EXCEPT !.body = b].sent = r.sent
    BY <1>1, <2>4 DEF Good
  <2>6. [h EXCEPT !.body = b].body = Append(r.body, part)
    BY <1>1, <2>3, <2>4
  <2>7. Write(r, part, ok) = [h EXCEPT !.body = b]
    BY <2>1, <2>3
  <2> QED BY <1>3, <2>5, <2>6, <2>7
<1> QED BY <1>2, <1>3

LEMMA HTTPErrorGood ==
  ASSUME NEW r, Good(r), NEW ok \in BOOLEAN
  PROVE  LET e == HTTPError(r, ok)
         IN  /\ Good(e) /\ e.sent # 0
             /\ r.sent = 0 => e.sent = 500 /\ (ok => e.body = <<"error">>)
             /\ r.sent # 0 => e.sent = r.sent
             /\ e.body \in {r.body, Append(r.body, "error")}
<1> DEFINE t == [r EXCEPT !.ctype = "text"]
           h == WriteHeader(t, 500)
<1>1. Good(t) /\ t.sent = r.sent /\ t.body = r.body
  BY DEF Good, Responses, Types
<1>2. HTTPError(r, ok) = Write(h, "error", ok)
  BY DEF HTTPError
<1> HIDE DEF t
<1>3. /\ Good(h) /\ h.sent # 0 /\ h.body = r.body
      /\ h.sent = IF r.sent = 0 THEN 500 ELSE r.sent
  BY <1>1, WriteHeaderGood, CodeFacts
<1> HIDE DEF h
<1>4. r.sent = 0 => Append(h.body, "error") = <<"error">>
  <2>1. r.sent = 0 => h.body = <<>>
    BY <1>3 DEF Good
  <2>2. Append(<<>>, "error") = <<"error">>
    OBVIOUS
  <2> QED BY <2>1, <2>2
<1>5. "error" \in Parts
  BY DEF Parts
<1>6. /\ Good(Write(h, "error", ok)) /\ Write(h, "error", ok).sent = h.sent
      /\ Write(h, "error", ok).body = IF ok THEN Append(h.body, "error") ELSE h.body
  BY <1>3, <1>5, WriteGood
<1> QED BY <1>2, <1>3, <1>4, <1>6

LEMMA WriteErrorGood ==
  ASSUME NEW r, Good(r), NEW s \in Codes, s # 0, NEW ok \in BOOLEAN
  PROVE  Good(WriteError(r, s, ok))
<1> DEFINE h == WriteHeader(r, s)
           e == Write(h, "error", ok)
<1>1. Good(h)
  BY WriteHeaderGood
<1>2. "error" \in Parts
  BY DEF Parts
<1>3. Good(e)
  BY <1>1, <1>2, WriteGood
<1>4. Good(HTTPError(e, ok))
  BY <1>3, HTTPErrorGood
<1> QED BY <1>3, <1>4 DEF WriteError

LEMMA WriteJSONGood ==
  ASSUME NEW r, Good(r), NEW s \in Codes, s # 0,
         NEW encodes \in BOOLEAN, NEW ok \in BOOLEAN
  PROVE  Good(WriteJSON(r, s, encodes, ok))
<1> DEFINE w == WriteHeader(r, s)
           h == [w EXCEPT !.ctype = "json"]
           j == Write(h, "json", ok)
<1>1. Good(w)
  BY WriteHeaderGood
<1>2. Good(h)
  <2> HIDE DEF w
  <2> QED BY <1>1 DEF Good, Responses, Types
<1>3. "json" \in Parts
  BY DEF Parts
<1>4. Good(j)
  BY <1>2, <1>3, WriteGood
<1>5. Good(WriteError(j, 500, ok)) /\ Good(WriteError(h, 500, ok))
  BY <1>2, <1>4, WriteErrorGood, CodeFacts
<1> QED BY <1>2, <1>4, <1>5 DEF WriteJSON

-----------------------------------------------------------------------------
(* The way of a request                                                     *)

States ==
  /\ at \in 0 .. Len(Chain) /\ way \in {"in", "out", "panic", "abort"}
  /\ gone \in BOOLEAN /\ steps \in 0 .. MaxSteps
  /\ Good(resp) /\ Good(before.resp)

\* While the layers call one another, those entered are those above at.
EnteredInv ==
  /\ entered \in Seq(Layers) /\ Len(entered) <= N + 1
  /\ \A i \in 1 .. Len(entered) : entered[i] = Order[i]
  /\ way = "in" => at > 0 /\ Len(entered) = IF at > 2 THEN at - 2 ELSE 0
  /\ at > 2 => Len(entered) > 0

\* Only accesslog ends a request.
LoggedInv ==
  /\ logged.done => at = 0 /\ resp.sent # 0
  /\ at = 0 /\ entered # <<>> => logged.done

\* What recovery owes to the client.
Answered ==
  /\ before.resp.sent = 0 =>
       resp.sent = 500 /\ (~gone => resp.body = <<"error">>)
  /\ before.resp.sent # 0 =>
       /\ resp.sent = before.resp.sent
       /\ resp.body \in {before.resp.body, Append(before.resp.body, "error")}
  /\ before.resp.inner > 0 => resp = before.resp

\* A panic is in recovery or has been there, and no layer below writes again.
PanicInv ==
  /\ way \in {"panic", "abort"} => at = 2
  /\ way = "panic" => before.how = "panic" /\ before.resp = resp
  /\ before.how = "panic" /\ way # "panic" => at <= 1 /\ way = "out" /\ Answered

IInv == States /\ EnteredInv /\ LoggedInv /\ PanicInv

LEMMA AtFacts ==
  ASSUME States
  PROVE  /\ at \in 0 .. N + 3
         /\ User(at) <=> at > 2
         /\ at > 0 /\ Chain[at] = "recovery" <=> at = 2
         /\ at > 0 /\ Chain[at] = "accesslog" <=> at = 1
BY UserFacts, ChainFacts DEF States

LEMMA FreshFacts ==
  /\ Good(Fresh) /\ NoPanic.resp = Fresh
  /\ \A i \in {0, 1} : i \in 0 .. Len(Chain)
  /\ 0 \in 0 .. MaxSteps
BY FreshGood, ChainFacts, ResponseAssumption DEF NoPanic, ResponseAssumption

LEMMA InitInv == Init => IInv
<1> SUFFICES ASSUME Init PROVE IInv
  OBVIOUS
<1>1. /\ at = 0 /\ way = "out" /\ gone = FALSE /\ steps = 0
      /\ resp = Fresh /\ before.resp = Fresh
  BY FreshFacts DEF Init
<1>2. States
  BY <1>1, FreshFacts DEF States
<1>3. EnteredInv
  BY ChainFacts DEF Init, EnteredInv
<1>4. LoggedInv /\ PanicInv
  BY DEF Init, LoggedInv, PanicInv, NotLogged, NoPanic
<1> QED BY <1>2, <1>3, <1>4 DEF IInv

LEMMA BeginStep == ASSUME IInv, Begin PROVE IInv'
<1>1. /\ at' = 1 /\ way' = "in" /\ gone' = FALSE /\ steps' = 0
      /\ resp' = Fresh /\ before'.resp = Fresh
  BY FreshFacts DEF Begin
<1>2. States'
  BY <1>1, FreshFacts DEF States
<1>3. EnteredInv'
  BY ChainFacts DEF Begin, EnteredInv
<1>4. LoggedInv' /\ PanicInv'
  BY DEF Begin, LoggedInv, PanicInv, NotLogged, NoPanic
<1> QED BY <1>2, <1>3, <1>4 DEF IInv

LEMMA ClientStep == ASSUME IInv, ClientLeaves PROVE IInv'
<1>1. States' /\ EnteredInv' /\ LoggedInv'
  BY DEF IInv, ClientLeaves, States, EnteredInv, LoggedInv
<1>2. PanicInv'
  BY DEF IInv, ClientLeaves, PanicInv, Answered
<1> QED BY <1>1, <1>2 DEF IInv

LEMMA CallStep == ASSUME IInv, Call PROVE IInv'
<1>1. /\ States /\ at \in 1 .. N + 2 /\ at' = at + 1 /\ way = "in" /\ way' = "in"
      /\ N \in Nat /\ Len(Chain) = N + 3
  BY AtFacts, ChainFacts DEF IInv, Call
<1>2. States'
  BY <1>1 DEF States, Call
<1>3. EnteredInv'
  <2>1. CASE at + 1 <= 2
    <3>1. ~User(at + 1)
      BY <1>1, <2>1, UserFacts
    <3> QED BY <1>1, <2>1, <3>1 DEF IInv, EnteredInv, Call
  <2>2. CASE at + 1 > 2
    <3>1. User(at + 1)
      BY <1>1, <2>2, UserFacts
    <3>2. entered' = Append(entered, Chain[at + 1])
      BY <3>1 DEF Call
    <3>3. entered \in Seq(Layers) /\ Len(entered) = at - 2
      BY <1>1, <2>2 DEF IInv, EnteredInv
    <3>4. at - 1 \in 1 .. N + 1 /\ (at - 1) + 2 = at + 1
      BY <1>1, <2>2
    <3>5. Chain[at + 1] = Order[at - 1] /\ Order[at - 1] \in Layers
      BY <3>4, ChainFacts
    <3>6. /\ entered' \in Seq(Layers) /\ Len(entered') = at - 1
          /\ \A i \in 1 .. at - 2 : entered'[i] = entered[i]
          /\ entered'[at - 1] = Order[at - 1]
      BY <1>1, <3>2, <3>3, <3>5, AppendProperties
    <3>7. \A i \in 1 .. at - 1 : entered'[i] = Order[i]
      BY <1>1, <3>3, <3>6 DEF IInv, EnteredInv
    <3> QED BY <1>1, <2>2, <3>6, <3>7 DEF EnteredInv
  <2> QED BY <1>1, <2>1, <2>2
<1>4. LoggedInv' /\ PanicInv'
  BY <1>1 DEF IInv, LoggedInv, PanicInv, Call
<1> QED BY <1>2, <1>3, <1>4 DEF IInv

LEMMA ReturnStep == ASSUME IInv, Return PROVE IInv'
<1>1. at \in 3 .. N + 3 /\ N \in Nat /\ Len(Chain) = N + 3
  BY AtFacts, ChainFacts DEF IInv, Return
<1>2. States' /\ EnteredInv' /\ LoggedInv'
  BY <1>1 DEF IInv, Return, States, EnteredInv, LoggedInv
<1>3. PanicInv'
  BY <1>1 DEF IInv, Return, PanicInv
<1> QED BY <1>2, <1>3 DEF IInv

\* The users' layers write when no panic is under way, and none was.
LEMMA RespondStep == ASSUME IInv, NEW r, Good(r), Respond(r) PROVE IInv'
<1>1. at \in 3 .. N + 3 /\ N \in Nat
  BY AtFacts, ChainFacts DEF IInv, Respond
<1>2. States' /\ EnteredInv' /\ LoggedInv'
  BY <1>1, ResponseAssumption
  DEF IInv, Respond, States, EnteredInv, LoggedInv, ResponseAssumption
<1>3. PanicInv'
  BY <1>1 DEF IInv, Respond, PanicInv
<1> QED BY <1>2, <1>3 DEF IInv

LEMMA WriteStep ==
  ASSUME IInv, NEW s \in Statuses, NEW ok \in BOOLEAN, NEW e \in BOOLEAN,
         \/ DoWriteHeader(s) \/ DoWrite(ok)
         \/ DoWriteError(s, ok) \/ DoWriteJSON(s, e, ok)
  PROVE  IInv'
<1>1. Good(resp) /\ s \in Codes /\ s # 0 /\ "data" \in Parts
  BY CodeFacts DEF IInv, States, Parts
<1>2. /\ Good(WriteHeader(resp, s)) /\ Good(Write(resp, "data", ok))
      /\ Good(WriteError(resp, s, ok)) /\ Good(WriteJSON(resp, s, e, ok))
  BY <1>1, WriteHeaderGood, WriteGood, WriteErrorGood, WriteJSONGood
<1> QED
  BY <1>2, RespondStep DEF DoWriteHeader, DoWrite, DoWriteError, DoWriteJSON

LEMMA PanicStep ==
  ASSUME IInv, NEW how \in {"panic", "abort"}, Panics(how) PROVE IInv'
<1>1. at \in 3 .. N + 3 /\ N \in Nat /\ Len(Chain) = N + 3
  BY AtFacts, ChainFacts DEF IInv, Panics
<1>2. at' = 2 /\ way' = how /\ before'.how = how /\ before'.resp = resp
  BY <1>1, UserFacts DEF Panics
<1>3. States'
  BY <1>1, <1>2 DEF IInv, Panics, States
<1>4. EnteredInv' /\ LoggedInv'
  BY <1>1, <1>2 DEF IInv, Panics, EnteredInv, LoggedInv
<1>5. PanicInv'
  BY <1>2 DEF Panics, PanicInv
<1> QED BY <1>3, <1>4, <1>5 DEF IInv

LEMMA RecoverStep == ASSUME IInv, NEW ok \in BOOLEAN, Recover(ok) PROVE IInv'
<1> DEFINE e == HTTPError(resp, ok)
<1>1. at = 2 /\ at' = 1 /\ way = "panic" /\ way' = "out" /\ Len(Chain) \in Nat \ {0, 1}
  BY AtFacts, ChainFacts DEF IInv, Recover
<1>2. Good(resp) /\ before.resp = resp /\ before.how = "panic" /\ resp.inner \in Nat
  BY <1>1, CodeFacts DEF IInv, States, PanicInv, Good, Responses
<1>3. /\ Good(e) /\ e.sent # 0
      /\ resp.sent = 0 => e.sent = 500 /\ (ok => e.body = <<"error">>)
      /\ resp.sent # 0 => e.sent = resp.sent
      /\ e.body \in {resp.body, Append(resp.body, "error")}
  BY <1>2, HTTPErrorGood
<1>4. CASE resp.inner > 0
  <2>1. resp' = resp
    BY <1>4 DEF Recover
  <2>2. Answered'
    BY <1>2, <1>4, <2>1 DEF Answered, Good, Recover
  <2> QED
    BY <1>1, <1>2, <2>1, <2>2
    DEF IInv, Recover, States, EnteredInv, LoggedInv, PanicInv
<1>5. CASE ~(resp.inner > 0)
  <2> HIDE DEF e
  <2>1. resp' = [e EXCEPT !.inner = resp.inner]
    BY <1>5 DEF Recover, e
  <2>2. resp.inner \in Codes
    BY <1>2 DEF Good, Responses
  <2>3. Good(resp') /\ resp'.sent = e.sent /\ resp'.body = e.body
    BY <1>3, <1>5, <2>1, <2>2 DEF Good, Responses
  <2>4. Answered'
    BY <1>2, <1>3, <1>5, <2>3 DEF Answered, Recover, Written
  <2>5. States' /\ EnteredInv'
    BY <1>1, <1>2, <2>3 DEF IInv, Recover, States, EnteredInv
  <2> QED
    BY <1>1, <2>4, <2>5 DEF IInv, Recover, LoggedInv, PanicInv
<1> QED BY <1>4, <1>5

LEMMA RecoverNothingStep == ASSUME IInv, RecoverNothing PROVE IInv'
<1>1. at = 2 /\ at' = 1 /\ way' = "out" /\ Len(Chain) \in Nat \ {0, 1}
  BY AtFacts, ChainFacts DEF IInv, RecoverNothing
<1>2. before.how # "panic"
  BY <1>1 DEF IInv, PanicInv, RecoverNothing
<1> QED
  BY <1>1, <1>2
  DEF IInv, RecoverNothing, States, EnteredInv, LoggedInv, PanicInv

LEMMA AccesslogStep == ASSUME IInv, Accesslog PROVE IInv'
<1> DEFINE h == SendHeader(resp, 200)
<1>1. at = 1 /\ at' = 0 /\ way = "out" /\ way' = "out" /\ resp' = h /\ logged'.done
  BY AtFacts DEF IInv, Accesslog
<1>2. Good(h) /\ h.sent # 0 /\ (resp.sent # 0 => h = resp)
  BY SendHeaderGood, CodeFacts DEF IInv, States
<1> HIDE DEF h
<1>3. States'
  BY <1>1, <1>2, ChainFacts DEF IInv, Accesslog, States
<1>4. EnteredInv' /\ LoggedInv'
  BY <1>1, <1>2 DEF IInv, Accesslog, EnteredInv, LoggedInv
<1>5. ASSUME before.how = "panic" PROVE Answered'
  <2>1. Answered /\ Good(before.resp)
    BY <1>1, <1>5 DEF IInv, PanicInv, States
  <2>2. h = resp
    BY <1>2, <2>1 DEF Answered
  <2> QED BY <1>1, <2>1, <2>2 DEF Answered, Accesslog
<1>6. PanicInv'
  BY <1>1, <1>5 DEF Accesslog, PanicInv
<1> QED BY <1>3, <1>4, <1>6 DEF IInv

LEMMA StepInv == IInv /\ [Next]_vars => IInv'
<1> SUFFICES ASSUME IInv, [Next]_vars PROVE IInv'
  OBVIOUS
<1>1. CASE Begin \/ ClientLeaves \/ Call \/ Return
  BY <1>1, BeginStep, ClientStep, CallStep, ReturnStep
<1>2. ASSUME NEW s \in Statuses, DoWriteHeader(s) PROVE IInv'
  BY <1>2, WriteStep
<1>3. ASSUME NEW ok \in BOOLEAN, DoWrite(ok) PROVE IInv'
  <2>1. Good(Write(resp, "data", ok))
    BY WriteGood DEF IInv, States, Parts
  <2> QED BY <1>3, <2>1, RespondStep DEF DoWrite
<1>4. ASSUME NEW ok \in BOOLEAN, NEW s \in Statuses, NEW e \in BOOLEAN,
             DoWriteError(s, ok) \/ DoWriteJSON(s, e, ok)
      PROVE  IInv'
  BY <1>4, WriteStep
<1>5. ASSUME NEW how \in {"panic", "abort"}, Panics(how) PROVE IInv'
  BY <1>5, PanicStep
<1>6. ASSUME NEW ok \in BOOLEAN, Recover(ok) PROVE IInv'
  BY <1>6, RecoverStep
<1>7. CASE RecoverNothing \/ Accesslog
  BY <1>7, RecoverNothingStep, AccesslogStep
<1>8. CASE UNCHANGED vars
  BY <1>8
  DEF vars, IInv, States, EnteredInv, LoggedInv, PanicInv, Answered
<1> QED
  BY <1>1, <1>2, <1>3, <1>4, <1>5, <1>6, <1>7, <1>8 DEF Next

LEMMA AlwaysInv == Spec => []IInv
BY InitInv, StepInv, PTL DEF Spec

-----------------------------------------------------------------------------
\* Types hold in every state, and nothing is in the body, or logged, before a
\* status is on the wire.
THEOREM TypeCorrect == Spec => []TypeOK
<1>1. IInv => TypeOK
  <2> SUFFICES ASSUME IInv PROVE TypeOK
    OBVIOUS
  <2>1. /\ resp.sent \in Codes /\ resp.inner \in Codes /\ resp.outer \in Codes
        /\ resp.ctype \in Types /\ resp.sentType \in Types
        /\ resp.body \in Seq(Parts) /\ (resp.sent = 0 => resp.body = <<>>)
    BY DEF IInv, States, Good, Responses
  <2> QED
    BY <2>1, ChainFacts DEF IInv, States, EnteredInv, LoggedInv, TypeOK
<1> QED BY <1>1, AlwaysInv, PTL

\* The comment in start (server.go:35) has the first middleware outermost, the
\* one on AddMiddleware (global.go:12) "the most nested one".
OutermostFirst ==
  /\ entered = SubSeq(Middlewares \o <<"handler">>, 1, Len(entered))
  /\ at > 2 => entered # <<>>

\* The layers are entered in the order in which AddMiddleware was called, for
\* any number of middlewares: the comment in start is right.
THEOREM EnteredInOrder == Spec => []OutermostFirst
<1>1. IInv => OutermostFirst
  <2> SUFFICES ASSUME IInv PROVE OutermostFirst
    OBVIOUS
  <2> DEFINE k == Len(entered)
             first == SubSeq(Order, 1, k)
  <2>1. /\ entered \in Seq(Layers) /\ k \in Nat /\ k <= N + 1
        /\ \A i \in 1 .. k : entered[i] = Order[i]
        /\ at > 2 => entered # <<>>
    BY DEF IInv, EnteredInv
  <2>2. first \in Seq(Layers) /\ Len(first) = k /\ \A i \in 1 .. k : first[i] = Order[i]
    BY <2>1, ChainFacts, SubSeqProperties
  <2>3. entered = first
    BY <2>1, <2>2
  <2> QED BY <2>1, <2>3 DEF OutermostFirst, Order
<1> QED BY <1>1, AlwaysInv, PTL

\* Every request that reached a middleware or the handler comes out at
\* accesslog, also if it panicked.
THEOREM RequestsAreLogged == Spec => []EveryRequestIsLogged
<1>1. IInv => EveryRequestIsLogged
  BY DEF IInv, LoggedInv, EveryRequestIsLogged
<1> QED BY <1>1, AlwaysInv, PTL

\* A panic is answered with 500 if nothing was sent, and adds nothing to a
\* response whose status was written, whichever layer panicked.
THEOREM PanicsAreAnswered == Spec => []PanicIsAnswered
<1>1. IInv => PanicIsAnswered
  BY ChainFacts DEF IInv, LoggedInv, PanicInv, Answered, PanicIsAnswered
<1> QED BY <1>1, AlwaysInv, PTL
=============================================================================
