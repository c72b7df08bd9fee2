# Verification of zumi

zumi is a set of Go building blocks for services: a client for NATS JetStream
(`queue/`), one for PostgreSQL (`database/`), one for valkey (`cache/`), an HTTP
server with request binding (`server/`), a configuration reader (`config/`) and a
generator of OpenAPI documents (`server/gen/`).  `examples/spring-boot-like` is a
program made of them.  This directory holds TLA+ models of these parts, the TLC
configurations that check them, and TLAPS proofs about them.  Paths below are relative
to `src/`.

To repeat a run: `tlc -config MCQueue.cfg MCQueue.tla`; to repeat the proofs of a
module: `tlapm QueueProofs.tla`.  `PROJECT.json` lists the runs, which lines each
definition models, and for each property a mutation of the model that breaks it.

## 1. Inventory

| part | state | operations | what is hard |
|---|---|---|---|
| queue client, `queue/client.go` | the slices of a batch (`events`, `acks`), attempts of a retry policy; on the server the stream and a durable consumer that replicas share | `NewQueue`, `Publish`, `Consume` (fetch, collect, callback, acknowledge) | answers that come after their timeout, redelivery while a callback works, indices chosen by user code, crashes |
| database client, `database/service.go` | `d.pool`, `d.isTeardown`, a goroutine that pings and reconnects | `NewDatabase`, health check, `Disconnect`, readers of `d.pool` | no lock: reconnect, Disconnect and users interleave; migrations without deadline |
| transactions, `database/service.go` | connections of a pool, open transactions | `WithTX`, `WithReadTX`, `ExecQuery`, `SelectRow(s)` | nesting, errors at any step, lost answers to COMMIT, exhausted pools |
| pagination, `database/page.go` | none of its own | `SelectRowsPageable`, `MapContent` | two statements, a table that changes, boundaries |
| cache connection, `cache/valkey.go` | `c.valcli`, `c.client`, `c.isTeardown`, a goroutine | `NewCache`, `connect`, `healthCheck`, `Publish`, `Subscribe`, `Disconnect` | two fields stored one after the other without a lock |
| cache lock, `cache/valkey.go` | one key with an expiry | `Lock`, `Unlock` | expiry against late clients, lost answers |
| read-through cache, `cache/valkey.go` | one key with an expiry, the data it stands for | `Wrapped`, `Get`, `Set`, `GetWithResetTTL`, `Delete` (and `IncrBy`, `TTL`) | each operation is several round trips |
| server start and shutdown, `server/server.go`, `global.go` | a goroutine, a channel, connections | `StartServer` (and `AddHandler`, `ClearServer`) | context, error channel and requests race |
| middleware chain and responses, `server/server.go`, `recovery.go` | the response, two recorders | `AddMiddleware`, `accesslog`, `recovery`, `WriteJSON`, `WriteError` | panics and failing writes at any point |
| request binding, `server/parser.go`, `parser_fields.go`, `validator.go` | none | `ParseRequest`, `ValidateStruct` | absent, empty and default values, pointers, structs in structs |
| configuration, `config/` | none | `FromYAML`, `LoadConfig`, `expandEnvVars` | substitution in sequence, types decided by values |
| OpenAPI generator, `server/gen/gen.go` | a cache of generated types | a build-time walk over syntax trees | recursive and generic types, what the binder requires |
| books service, `examples/spring-boot-like` | rows, events, requests under way | `CreateBook`, `GetBooks`, `GetBookByID`, `DeleteBookByID`, `main` | commit and publication are two steps, and shutdown comes between any two |
| example of `cache/` as a queue, tools, CI | | | |

How they interact.  The parts of the library do not call one another, except that `NewQueue`,
`NewCache` and the examples take structures of `config`.  They meet in a service:
`examples/spring-boot-like` calls `WithTX` and then `Publish` in a handler whose request
`ParseRequest` has bound, runs `Consume` in a goroutine, and disconnects the database when
`StartServer` has returned; the generator reads the same structs as the parser, at build
time.  Within a part the interaction is by shared fields (the pool, the cache clients,
`isTeardown`), by one channel (`errChan`) and by callbacks (the queue's callback, the
function of a transaction, the fallback of `Wrapped`, middlewares).

What makes each part correct:

- queue: nothing is acknowledged that no callback reported; a `Publish` that returned
  nil stored its message; all loops end; every message settles in the end.
- database client: users find only pools whose migrations succeeded; Disconnect completes
  and is not undone more than once; Disconnect(true) can be followed by use.
- transactions: all or nothing, results that tell which, no connection lost.
- pagination: pages read one after another are the table.
- cache connection: the two fields agree; the same of Disconnect as above.
- cache lock: one holder; a lock that its holder forgot comes free.
- read-through cache: a nil error means loaded data; how an old value can be cached.
- server: nil only when drained; it always returns; its goroutine ends.
- responses: order of the layers, every request logged, a panic answered.
- binding: a nil error means that every field has what the client gave.
- configuration: a file loads as if the values had been written into it.
- generator: the document describes the types, and what refuses a request made from it is
  known.
- books service: a book comes, is announced and goes in this order, answers are true,
  and a book without its event is never the result of a clean run.

## 2. The modules

Each component is one module, with constants for its actors and bounds, one action per
step between which others can act, and its properties at the end.  `MC*` modules and
their `.cfg` files instantiate it for TLC; `*Proofs` modules hold the theorems.
`Books`, `BindingDocs` and `Inputs` compose components.

| module | models | remarks |
|---|---|---|
| `JetStream` | the server, from its use in `queue/client.go` | external; messages on the wire are sets, so they are lost, delayed and reordered without actions for it |
| `Queue` | `Publish`, `Consume` | EXTENDS `JetStream`; each attempt of a retry is a step |
| `AtLeastOnce` | abstract: what the queue promises | `Queue` implements it (`PromiseKept`) |
| `Transaction` | `runTransactionWithOpts` and statements | calls nest, with and without `existingQ` |
| `UnitOfWork` | abstract: what a transaction promises to readers | `Transaction` implements it (`AtomicUnits`) |
| `Database` | `NewDatabase`, `runReconnect`, `connectAndMigratePool`, `Disconnect` | a pool is a number; `current` is `d.pool` |
| `Page` | `SelectRowsPageable` | a row is its key; other transactions commit between and during calls |
| `CacheClient` | `NewCache`, `connect`, `healthCheck`, `Publish`, `Subscribe`, `Disconnect` | the two stores are two steps |
| `CacheLock` | `Lock`, `Unlock` | time in steps; sending, arrival and answer of a command are apart |
| `Lease` | abstract: what a lock with a duration promises | `CacheLock` implements it for punctual clients (`LeaseKept`) |
| `CacheAside` | `Wrapped`, `Get`, `Set`, `GetWithResetTTL`, `Delete` | values are numbered by age |
| `ServerLife` | `start` | net/http's listener and connections are external; runs as part of `Books` |
| `Response` | the chain, `accesslog`, `recovery`, `responseRecorder`, `WriteJSON`, `WriteError` | middlewares and handler take any steps |
| `Books` | the handlers, the service and `main` of `examples/spring-boot-like` | EXTENDS `ServerLife`; the database and the queue as `UnitOfWork` and `AtLeastOnce` promise them |
| `Catalogue` | abstract: what the service promises about its books | `Books` implements it (`CatalogueKept`) |
| `Binding` | `ParseRequest`, `parseFields`, `parseField`, `ValidateStruct` | a struct is laid out flat, one round of the loop over its fields is a step |
| `BindingDocs` | `extractRequestInfo`, the part of the generator that reads request structs | EXTENDS `Binding`; `DocsMatchBinding` is of the two together |
| `Config` | `FromYAML`, `processNode`, `expandEnvVars` | one scalar, from the text of the file to the field |
| `Gen` | `processAddHandler`, the schemas | types are trees; the syntax tree is read already |
| `Inputs` | the functions above that keep nothing between calls | `Page`, `Config`, `BindingDocs`, `Gen`, one at a time |

State and code.  Variables that stand for a field or a local variable have its name
(`events`, `acks`, `valcli`, `client`, `errChan`, `isTeardown` as `teardown`); where a
goroutine is in its code is a variable of its own (`pc` in `Queue`, `checker` in `Database`,
`health` in `CacheClient`, `serving` and `main` in `ServerLife`, `state` elsewhere).  History
variables, which no guard reads: `accepted` in `Queue`, `late` in `Database` and
`CacheClient`, `before` in `Response`, `walk` in `Page`, `posted`, `toldDeleted` and the
fields `before` and `found` of a handler in `Books`.  Error values are left out wherever a
caller can only see that there was one.

`Queue`.  A message is its stream sequence, so that `events[c][i]` and `acks[c][i]`
being the same message can be said.  A publish request is a pair of message and
attempt: JetStream answers on an inbox of its own for each, so a late answer is lost,
not confused.  `Results` is whatever the callback may return, out of range and repeated
indices included.  A crash (an unrecovered panic of a callback) restarts the consumer.

`Transaction`.  `holds` are calls with a connection, `uses[k]` the call whose
transaction `k` runs in, `within[k]` the calls around it.  A failed statement marks the
transaction in `aborted`; its COMMIT is then answered by ROLLBACK, which pgx returns as
an error.  `unsure` are commits whose answer was lost.  `Under(k)` are the calls nested
in `k` that are under way.

`Database`, `CacheClient`.  Every read of `d.pool`, `c.client`, `c.valcli` and
`isTeardown` is a step apart from what is done with it.  `late` counts stores after
`isTeardown` was set.  `OpenPools` are the pools made and not closed, whether the code
can still reach them or not.

`CacheLock`, `Lease`.  `lease[c]` is the time for which `c` was told that it has the lock,
`Punctual` says that clients are done, and their DEL has arrived, before it ends.  The
lock of this code cannot exclude clients that are not.  In `Lease` the holders are the
clients that hold the lock, the term is what the server has left of it; commands, answers
and their loss are steps that change nothing there.

`Response`.  `resp` is what is on the wire, the header so far, and the status each of
the two recorders has.  The header goes out with the first status; `sentType` is the
`Content-Type` it took along.  `AddMiddleware` appends to a list that the loop of `start`
goes through from its end: `Decorators` is the order in which it puts them around the
handler, `Wrapped` the one in which they are entered.  Recovery, and around it accesslog,
are put around all of these.

`Books`.  `handler[c]` is the request on connection `c`: its stage, the book it is
about, the status it is about to answer.  A connection is `active` in `ServerLife`
exactly while it has a handler.  `stored`, `deleted` and `stream` are what was made
durable.  `Commit` and `Publish` may fail after they took effect.  `Disconnect` and
`Exit` are the end of `main`, with which handlers that are still there disappear.

`Binding`.  A struct is the sequence of its fields, each struct inside followed by its
own: `inner` is their number, so that `Inside(i)` are the fields of field `i` and
`Behind(i)` is the field after them.  `at` is the field whose round is next.  The call
of `ParseRequest` for a struct without a tag goes on with its first field (`Entered`),
and where the fields of a struct end, its validation is part of the step (`Ending`).
A value is zero, given or a struct, or is not there because a pointer around it is nil.
`RunParser`, `Assign`, `Decoded` and `Valid` are what the registry of parsers,
reflection, encoding/json and the validator do with it.  Of texts that are numbers "0" is
the zero value (`Zeroes`), and stands for "false" too.  Of the JSON in a body is known
whether it is an object or null, for which fields of the struct it has a value (`sent`)
and which of these are zero values (`zeros`).

`BindingDocs`.  `ExtractRequestInfo` is the document of a struct, `Follows` a client that
reads it: it sends what is required and may send what is optional, with any value of the
documented type, zero values and empty texts included, and a body with the required
properties of its schema or more.  `Unsaid` are the three things of such a request that
the binding refuses and the document cannot say or does not: a required parameter that
has the zero value of its type, no body where that is optional, and a body without a value
for a field the validator requires, be it zero or left out as a pointer.

`Catalogue`.  `stored`, `deleted`, `stream` and the two records of what clients were told
are its variables; its service is over when the process has exited, cleanly if
`StartServer` had returned nil.

`Config`.  Texts are sequences of tokens, the four characters that the substitution is
about and words: `MatchEnd` is the regular expression, `ReplaceText` is
`strings.ReplaceAll`.  `Resolve` and `Decode` are the types that yaml gives to a scalar
with and without a tag.  `PlainValues` says of a file and an environment that no
placeholder comes of a plain text or a value, alone or at the seam with what is before it,
and that none is written inside another.

`Gen`.  A type is a tree of names, pointers, slices, maps, structs and parameters.
`generated` is `generatedTypes`, `schemas` the components of the document.  `Shape` and
`Unfold` are what a type and a schema stand for when every name is followed `Levels`
deep; they know nothing of the cache.

## 3. The runs

| run | instance | distinct states | shows |
|---|---|---|---|
| `queue` | 1 publication with a retry, 2 consumers, batches of 2, callbacks that return the batch in the other order, an index twice, or only indices beside the batch, 1 crash; symmetry of publications and of consumers | 3 264 000 | `AckedWereAccepted`, `PublishedIsStored`, and with `PromiseKept` that `Queue` implements `AtLeastOnce` |
| `queue_live` | 1 publication with a retry, 1 consumer, callbacks that report, ignore or repeat the event | 9 000 | `RetriesEnd`, `EveryMessageSettles` |
| `tx` | 2 calls, 1 write, 1 connection | 9 100 | results, atomicity, connections, that only an exhausted pool makes everybody wait, Disconnect too, return of calls and of Disconnect |
| `db` | 2 users, Disconnect(true), Disconnect(), 1 fault, a server that may hang | 78 000 | `ServedPoolsAreMigrated`, `OnePoolPerFault`, Disconnect closes and completes, reuse |
| `db_released` | 1 user, Disconnect(), 1 fault | violated | a pool that nobody closes (section 6) |
| `cache_client` | 2 users, 1 subscription, Disconnect(true), Disconnect(), 2 faults | 63 000 | the same for the two fields of the cache |
| `lock` | 3 punctual clients, durations 2, 3 and none | 13 900 | `LeaseKept`, that `CacheLock` implements `Lease`; `LockComesFree` |
| `aside` | 2 readers, 2 writers, 3 values, timeouts 1 and 2 | 82 000 | `NilMeansLoaded`, `StaleOnlyByRace`, `OldValuesGo` |
| `books` | 2 connections, 1 book | 128 000 | `CatalogueKept`, the answers and events of the service, and `NilMeansDrained`, `StartReturns`, `GoroutineEnds`, `ProcessExits` of the server in it |
| `response` | 2 middlewares and the handler, 3 steps | 22 000 | `EveryRequestIsLogged`, `PanicIsAnswered` |
| `inputs` | see below | 269 000 | `WalkIsComplete`, `ConfigLoadsAsWritten`, `NilMeansBound`, `DocsMatchBinding`, `SchemasDescribeTypes` |
| `gen_generics` | a generic type that holds another one, with two arguments | violated | schemas of one type given to another (section 6) |

The instances of `inputs`:

- pages: 3 keys, pages -1 to 4, sizes -1 to 2 and 4, 4 sorts, integers of 4 bits.
- configuration: 2 variables, 4 values (unset, a number, a placeholder, the tail of
  one), files of up to 4 of 6 parts, quoted or not, into a string or an int.
- binding: structs of one or two of 28 fields, among them structs and pointers to structs
  with fields and structs in them; each with any values of a few under the names it
  uses, zero values among them, and 8 bodies: none, malformed, null, and objects with
  nothing, with everything, with zero values only, without the pointers, and with what
  is required.
- generator: any order of 6 handlers that use a generic page of four types, one of them
  a page, two types that hold each other, and parameters with types of their own.

Why the bounds are enough for the cases that matter.  Confusing two messages needs a
batch of two, and an index too low, too high, out of order or given twice, which
`MCReports` has.  Overlapping work on one message needs two consumers and one expiry of
`AckWait`; the copies that a retry of its publication stores are the second message.
A deadlock of nested calls needs as many calls as connections and one more: two and
one.  A reconnect that is late needs one Disconnect, its interplay with
Disconnect(true) two.  A stolen lock needs a second client, and a third that takes it in
between.  A stale entry needs one reader and one writer; two of each also let one
reader's stale store meet another's read and a second change.  For a walk over three
rows, sizes of 1 and 2 give full, partial and empty last pages, size 4 is more than the
table has, and with 4 bits page times size wraps around.  A deleted book that is shown
again needs one request that is told so and one that begins after it: two connections
and one book; so does a shutdown with one request under way and one that arrives.  Of
placeholders, two next to each other, the same twice, and one that another's value
completes need four parts.  Two fields are enough for one to take what another needed
(the body, the first error), for every other rule is of one field.  A wrong reference
needs two handlers whose types share a name.

Bounds that are not in the code, all in guards: `MaxCrashes`, `MaxFaults`, `MaxValue`,
`MaxSteps`, `MaxParts`, and `Depth` in `Gen`, which stands for the stack.
`MaxPools` and `MaxClients` are such bounds too, but no restriction: they follow from the
number of faults and Disconnects, and wherever the code goes on to build a pool or a client
there is one left (`MaxPoolsIsEnough`, `MaxClientsIsEnough`, proved).
`MaxRetries` is in the code (5 for publishing and for acknowledging): the behaviour at
the last attempt is the same for 0 and 1.

Deadlock is checked where the system cannot stop (`aside`, `lock`, `response`).  The
other models end: calls are made once, crashes and faults are used up, Disconnect,
StartServer and `main` return, a file is loaded.

Each run lists in `PROJECT.json` one mutation per property, a plausible slip in one
mapped definition, with which TLC finds the property violated.

## 4. Fairness

Assumed, and why the code justifies it:

- goroutines are scheduled: weak fairness of the steps of `Publish` and of the consumer
  loop (`LoopFairness`), of the health goroutines, of Disconnect once called, of the
  goroutine and the `select` in `start`.  `select` takes either ready case, so fairness
  is of the disjunction.
- timers run: attempts of a retry, `AckWait`, the five seconds of `Shutdown`, expiry of
  keys (`Tick`).
- functions handed to transactions return, so that `Disconnect`, which waits for
  them, does (`Transaction`, `Database`).  In `Database` transactions end only as long as
  the server answers: BeginTx, Rollback and Commit (`service.go:224-238`) have the context
  of the caller, which need have no deadline.  There a transaction stands for a whole
  call, so that its end also assumes that no nested calls exhaust the pool; what happens
  then is in `Transaction`.
- `Begin` has strong fairness: a waiting call is not passed over for ever, since
  pgxpool's acquisition is first come, first served.  That the pool was closed a waiting
  call is told only once a connection is back (`FreeConnection` in `BeginFails`): Close
  does not wake those that wait for one.
- `EveryMessageSettles` has its assumption in its statement, `DeliveryFairness`: each
  step of delivering, reporting and acknowledging a message, attempted again and again,
  succeeds in the end.  That is strong fairness, of the message and not of the server in
  general, and includes a callback that reports it.  It says that nothing but the loop
  itself keeps a message from settling.  `RetriesEnd` needs none of it: it holds however
  the server fails.
- `ProcessExits` has `ExitFairness` in its statement: transactions under way end, by
  their statement, their commit or an error, and `main` goes on.  `StartReturns` and
  `GoroutineEnds` need nothing of handlers.
- Not assumed: that anybody calls an operation, that handlers return (or publish, or
  answer), that clients leave, that the context ends, that a call gives up waiting, that
  the database answers (where `MayHang`).

## 5. What is proved

TLAPS checks these for all values of the constants that the named assumptions allow.

| theorem | states | by |
|---|---|---|
| `QueueProofs!TypeCorrect` | `TypeOK` | inductive |
| `QueueProofs!AcknowledgedWasReported` | `AckedWereAccepted` | `BatchIInv` |
| `QueueProofs!QueueKeepsPromise` | `Queue` implements `AtLeastOnce` | the above and `ExpiredIsGone` |
| `QueueProofs!PublishStores` | `PublishedIsStored` | `PublishInv` |
| `TransactionProofs!TypeCorrect` | `TypeOK` | inductive |
| `TransactionProofs!NoConnectionLeaks` | `ConnectionsComeBack` | `NestInv` |
| `TransactionProofs!NoOtherDeadlock` | `OnlyExhaustionBlocks`: calls wait for each other only on an exhausted pool | `NestInv`, `Chained`, `Innermost` |
| `TransactionProofs!ExistingNeverExhausts` | no such exhaustion if every nested call joins the transaction around it | the same |
| `TransactionProofs!OutcomeIsTold` | `ReturnTellsOutcome` | `OutcomeInv` and `NestInv` |
| `TransactionProofs!TransactionsAreAtomic` | `Transaction` implements `UnitOfWork` | the same |
| `DatabaseProofs!TypeCorrect`, `LateInstallBound`, `ServedAreMigrated`, `ClosedByDisconnect` | types and safety properties of `db` | `LateInv`, `MigratedInv`, `ClosingInv` |
| `DatabaseProofs!PoolsLeakByFault`, `MaxPoolsIsEnough` | `OnePoolPerFault`, and that `MaxPools` restricts nothing | `PoolsInv`, `CountInv` |
| `CacheProofs!TypeCorrect`, `LateClientBound`, `ClosedByDisconnect` | the safety properties of `cache_client` | `LateInv`, `ClosedInv` |
| `CacheProofs!ClientsLeakByFault`, `MaxClientsIsEnough` | the same for the clients of the cache | `ClientsInv`, `CountInv` |
| `CacheProofs!LockTypeCorrect`, `LocksExclude` | types, and `MutualExclusion` of punctual clients | `HolderInv` |
| `CacheProofs!LeaseIsKept` | `CacheLock` implements `Lease` when clients are punctual | `HolderInv`, `AsksInv` |
| `CacheAsideProofs!TypeCorrect`, `NilIsLoaded`, `StaleByRaceOnly` | the safety properties of `aside` | `LoadedInv` |
| `BooksProofs!ServerTypes`, `NilIsDrained` | types and `NilMeansDrained` of `ServerLife` | `ServeInv` |
| `BooksProofs!GoroutineNeverStuck` | the goroutine of `start` always has its next step: the safety half of `GoroutineEnds` | `ErrorHasRoom` |
| `BooksProofs!BooksKeepCatalogue` | `Books` implements `Catalogue` | `BooksInv`, `OneAnswer` |
| `BooksProofs!BooksTypes`, `EventsOnlyOfBooks`, `AnswersTrue`, `LostKnown`, `BooksNilIsDrained` | the safety properties of `books` | `BooksInv` |
| `ResponseProofs!TypeCorrect`, `RequestsAreLogged`, `PanicsAreAnswered` | types and the properties of `response` | `IInv` |
| `ResponseProofs!EnteredInOrder` | `OutermostFirst`: layers are entered in the order of `AddMiddleware`, the first added outermost | `IInv` |
| `InputsProofs!PageTypeCorrect`, `PagesAreComplete` | types, and `WalkIsComplete` | `CallInv`, `WalkInv` |
| `InputsProofs!BindTypeCorrect`, `NilIsUnderstood` | types of `Binding`, and `NilMeansBound` | `BoundInv` |
| `InputsProofs!RefusedForTheUnsaid` | `DocsMatchBinding` | `DocsInv` and `BoundInv` |
| `InputsProofs!ConfigLoadsAsMeant` | `ConfigLoadsAsWritten` | `ConfigInv`, and the lemmas on `FindAll` and `ReplaceText` |

The type invariants are inductive or part of the invariants named; being proved for
every instance, they are no longer checked by runs.  Nor are `EventsHaveBooks`, which
`CatalogueKept` implies (an event is of a book that came) and `EventsOnlyOfBooks` states,
and `MutualExclusion`, which `LeaseKept` implies.  The theorems of `InputsProofs` are of the
specifications of `Page`, `Binding` and `Config`, which run `inputs` steps through one at a
time.  `ClientsLeakByFault` is proved only: its counterpart `OnePoolPerFault` is what run
`db` checks.  `EnteredInOrder` too: it is what the code does where a comment says the
opposite (section 6).

The assumptions are those of the modules (`QueueAssumption` and so on): finite sets of
calls and disconnects, bounds that are natural numbers, middlewares that are not named
as the two that `start` adds, keys that are numbers, request structs whose fields nest
(`BindingAssumption`), texts and values that are sequences of strings
(`ConfigAssumption`).  The callback of the queue may return any sequence of
integers.

The arguments, and why the properties are not inductive by themselves:

- *Nothing acknowledged unreported.*  That the next `Ack` is of a reported message
  depends on the index meaning the same in `events` and `acks` (`Aligned`: the event at
  position i has index i - 1 and is the message that `acks[i]` settles) and on every
  index left being of a reported message (`AckingReported`).  `Aligned` holds because
  `Collect` appends to both, and both are dropped together.
- *Queue implements AtLeastOnce.*  A step of the server that settles a message takes an
  acknowledgement off the wire, which was reported by the above; and a message that
  aged out is never settled afterwards, because it is neither pending nor to be
  redelivered (`ExpiredIsGone`).
- *Publish stores.*  Requests and copies of a publication together are at most the
  attempts begun (`PublishInv`): an attempt's request is on the wire until it is
  stored, and an answer is under way only for what is stored.
- *Connections.*  `NestInv`: the functions around a call under way wait in `fn`, only
  calls with their own transaction wait for a connection, commit or roll back, and a
  connection is held only in between.
- *Who waits for whom.*  The calls around a call are around each other in one order
  (`Chained`).  So among the calls under way that are nested in a given one, or are that
  one, some call has the most calls around it, and nothing is nested in it: such an
  innermost call is not waiting in `fn` for another, and waits for a connection only if
  none is free (`Innermost`), whether the pool is open or closing.  That every call that
  holds a connection has such a call inside that waits is exhaustion, which stops Close
  as well.  A call that joins holds no connection and waits for none, so without calls
  that open their own inside another there is no exhaustion.
- *Outcome and atomicity.*  `OutcomeInv`: a write is in the transaction its call runs
  in and in no other (`Origin`), what is durable was written in one (`Recorded`), and
  for each transaction the state of the call that owns it says whether its writes are
  undone, or durable, or durable with the answer lost (`FateOf`).  The refinement maps
  a transaction to a unit whose fate is read off that state.
- *One late store.*  `late = 1` only where the goroutine reads `isTeardown` before
  it can begin another reconnect.
- *Served pools are migrated.*  `MigratedInv`: the pool in `d.pool`, the one about to be
  stored and those that users have read are migrated, for `fresh` is stored only behind
  its migrations, and a pool stays migrated.
- *Disconnect closes.*  While nothing was stored late the pool a Disconnect closes is
  `d.pool` still; in the cache, `valcli = client` except between the two stores
  (`PairInv`).
- *A pool for every fault.*  A reconnect closes neither the pool it replaces nor one
  whose migrations failed, but it comes of a fault, or of a ping that fails because a
  Disconnect has closed `d.pool`.  `CountInv` counts along: at each place of the
  goroutine the pools made are at most one, the faults, and the pools closed by then.
  Before the next ping `d.pool` is not among these (`ClosedBefore`), for if it is closed
  it pays for the pool that this ping leads to.  Every closed pool was closed by a
  Disconnect of its own (`PoolsInv`), so there are no more of them than Disconnects,
  whence `MaxPoolsIsEnough`.  In the cache there are two fields, and between the two
  stores it is the client just made that does not count yet (`ClosedEarlier`).
- *Exclusion and lease.*  Whoever has the lock set the key, and its remaining time is the
  lease (`HolderInv`).  So a DEL of a holder deletes its own key, and a tick that ends
  the key ends nobody's lease.
- *Start returns nil when drained.*  By then Shutdown has closed the listener, so that
  nothing connects any more, and it was called for the end of the context (`ClosingInv`).
- *The service tells the truth.*  `HandlerFacts` is what a handler knows at each stage:
  one that publishes has committed, one that answers 201 or 202 has done it, one that
  answers 200 has read nothing whose deletion was told before its request came.  The
  steps of the server are steps of `ServerLife`, whose invariant is used as it stands.
  That `exit # "no"` only after `start` returned makes a book without its event an
  effect of a failed shutdown: after a clean one there was no handler to cut off.
- *The service keeps its catalogue.*  Every step of handlers, server and `main` is a step
  of `Catalogue` or changes none of its variables.  What the mapping needs beyond
  `BooksInv` is `OneAnswer`: a book has at most one POST running and no answer while it
  does, so it is added and answered once.  A clean end has no handlers left, and by
  `LostEventsAreKnown` owes events to failed calls only.
- *The goroutine.*  It sends once, so there is room until it has ended, and a `start`
  that returned without closing the listener took the error the goroutine ended with
  (`ErrorHasRoom`).
- *Pages.*  A finite set of rows has one ascending and one descending order (`OneOrder`,
  from a least row where two orders differ), so the calls of a walk, which choose theirs
  anew, see one sequence; each takes the window behind the ones before (`PagesJoin`).
  An offset that does not fit the width ends the walk.
- *Binding.*  `BoundInv`: what is behind the walk is bound, bodies with all that is in
  them (`Understood`), and validated where a struct has ended; what is left of the body
  is what was sent or nothing; and the field to come is one the request is read for
  (`NextIsReached`).
  `RoundKeepsBound` says once, for every kind of field, that a round keeps this.
- *The document.*  `DocsInv`: a request made from the document never panics, and if it
  meets with nothing `Unsaid` no round fails, what is ahead is as it was, and the body is
  unread while a field ahead needs it.  Every field that is read is listed and no other
  is (`ReachedIsListed`, `ListedIsReached`), what is listed is read without an error, and
  has a value if it is required and not `Blank` (`ReadFollows`); what is `Missing` in an
  object is what has no value after decoding (`MissingIsZero`).  The other way round, what
  is `Unsaid` leaves a required field zero, which by `BoundInv` no validated struct has.
- *The configuration.*  `expandEnvVars` takes matches in the original text and replaces
  each in the whole of what the earlier ones left.  The text of the file is laid out in
  pieces, one for each part, and so is every text on the way, some pieces replaced already.
  Where the code's two recursive functions go on from a position depends on what comes
  behind it, so they are shown to exist, and two texts that agree from a position to
  agree in their results, by the positions from the end for which it holds having no least
  exception (`FromBehind`).  The matches found are then the placeholders of the file, in
  order and none besides; replacing one replaces the pieces that are equal to it and no
  others, since under `PlainValues` a placeholder opens at the begin of a piece only.  After
  the last match every piece is what its part means.  The rest of `LoadConfig` is by cases of
  the tag.
- *Responses.*  `ChainFacts`: wrapping from the last that was added to the first gives
  the order of addition, from the outside inwards.
  `EnteredInv`: the layers entered are those outside of where the request is.
  `PanicInv`: a panic is in `recovery` or has been there, with the response as it was.
  The facts on single writes (`WriteJSONGood` and so on) are lemmas of their own.

Only model-checked: the liveness properties, which are under fairness, and
`SchemasDescribeTypes`, of recursive operators over types, which is false in general (run
`gen_generics`).  The types of the variables of `Gen` are not stated as an invariant, nor
those of `Config` beyond `ConfigInv`.

## 6. Where comments and code disagree

Two runs show one each.

`gen_generics`: `gen.go:627` promises a "unique name for the specific instantiation",
but the name is made from the type as it is written inside another generic one, before
the substitutions.  `Page[T]` within `Shelf[T]` has one name for `Shelf[Book]` and
`Shelf[Author]`, and `:631` returns the schema that was made first.

`db_released`: a reconnect drops the pool it built when the
migrations fail (`service.go:126`), and the one it replaces (`:129`), without closing
either, while `service.go:153` has Disconnect "ensure all resources are released
properly".

The models show others as well, reached by the steps named; no run is spent on them.

- `service.go:155` and `valkey.go:203` say that Disconnect prevents "any further
  operations".  `isTeardown` is not read again before the store of a reconnect
  (`service.go:129`, `valkey.go:77`): one pool or client may be stored afterwards and
  serves (`Install`, `StoreClient`).  `OneLateInstall` and `OneLateClient` bound it.
- `service.go:108`: "give 15 seconds for the db to be ready".  The context goes to
  `NewWithConfig`, which connects to nothing; the migrations (`:124`) have none
  (`Hang`, and `Stuck` in the properties).
- `service.go:153`: Disconnect is there "to ensure all resources are released properly".  It
  may not return at all: Close waits for every connection in use, and one does not come
  back whose call has a nested one waiting for a connection of the exhausted pool
  (`Exhausted`), or a statement that the server does not answer (`Unanswered`).
- `valkey.go:200`: after Disconnect(true) the client can "be reused later".
  `Subscribe` keeps the client it read (`:131`) and never hears again (`Receive`).
- `valkey.go:169`: "locks a key in the cache for a specified duration".  `Unlock`
  (`:181`) deletes the key without asking whose it is, so a late one ends the lock of
  another (`Del` with `Punctual = FALSE`).
- `valkey.go:297`: `Wrapped` calls the fallback "if it doesn't exist".  It does so after
  any error of `Get` (`:306`), and overwrites the entry (`GetFails`).
- `global.go:12`: "The first middleware added is the most nested one".  It is the
  outermost, as the comment at `server.go:35` means it to be (`Wrapped` in `Response`;
  `OutermostFirst`, proved in `ResponseProofs`).
- `recovery.go:62`: "response was already sent, nothing we can do".  The recorder's
  `Write` does not set its status, so after a body without an explicit status the text
  of the error is appended (`Write`, `Recover`).
- `recovery.go:12-13`: `accesslog` logs the "response status".  It is 0 when none was
  written explicitly, and the last, ignored, one when two were (`WriteHeader`).
- `recovery.go:44`: `http.ErrAbortHandler` is swallowed, so net/http ends the response
  as a complete one (`RecoverNothing`).
- `server.go:92`: `WriteJSON` "sets the Content-Type header".  It does so after
  `WriteHeader` (`:96`), too late for the wire (`sentType`).
- `server.go:93-94`, `:105`: a failed encoding is turned into an error with a status of
  its own.  The first status is out by then (`WriteError` in `WriteJSON`).
- `gen.go:589`: `generateOperationID` "creates a unique ID".  `/a/b` and `/a_b` get the
  same one, and so do `/books/{id}` and `/books/id`.
- `gen.go:635`: the cache is "to handle recursive structures".  Inside a generic type
  that holds itself, as `Tree[T]` in `Tree[T]`, the parameter is substituted by itself,
  without end if there is a field of it (`SchemaRef`, `Depth`).
- A user type called `ErrorResponse`, or two of one name from two packages, overwrite
  each other's schema: names are those of the type alone (`GenerateTypeNameOfBase`).
- `gen.go:474` documents a body as optional unless it is validated as required, but the
  parser refuses a request without one (`Body`).  A parameter with `required` is documented
  with no more than its type, and the validator (`validator.go:13`) refuses its zero value:
  0, false, the empty text (`Blank`).  A field of a body is documented as optional if it is
  a pointer (`gen.go:568`), required by the validator or not, and any other with no more
  than its type, so that `{"message": ""}` follows the document and is refused, as
  `server_test.go:221` has it (`Missing`).  `DocsMatchBinding` says that a request made
  from the document is refused for these three things (`Unsaid`) and no other.
- A second body field reads what the first has left, nothing.  Fields of an inner struct
  that is not embedded are bound but not documented, and so are those of one embedded in a
  body.  `DocsMatchBinding` is of the other structs (`Documentable`).
- `parser.go:16` has a field `ID int` with the tag `ctx:"id"`.  The tag's value is not
  looked at, and the whole context is set into the field (`:41`), which panics unless it
  is an interface that a context implements (`Read`).
- A body of JSON `null` is no error: it leaves a struct as it was, and a pointer nil, with
  a nil error unless the validator asks for it (`Decoded`).
- A write with a status that `httpStatusMap` (`gen.go:73`) does not have is left out of
  the document (`Responses`).
- `parser_fields.go:44`: a default is used for a query parameter that is there and
  empty, but not for an absent one, which never gets to `parseField` (`NilMeansBound`).
  `PageRequest` has no defaults at all, so `GET /api/v1/books` without a size asks for
  pages of size 0, which divides by zero, and is answered with 500 by `recovery`.
- `[]int` or `[]uuid.UUID` in a query, and string types with a name of their own, make
  reflection panic, which is answered with 500 and not 400 (`Assign`).
- `parser.go:53` of `config/` substitutes in what it has substituted: a value that holds
  the beginning of a placeholder, or completes one, may be replaced in turn
  (`PlainValues` excepts it).  A fallback that holds
  a placeholder, `${A:${B:c}}`, leaves its last brace behind.  A value `null` gives an
  empty string, and a placeholder in quotes does not load into an int (`Resolve`).
- `page.go:20-31`, `:122-133`: `totalElements` and `totalPages` come from a count of the
  statement with its LIMIT (`Total`), a size of 0 divides by zero (`Divide`), arguments
  of the caller collide with `$1` and `$2` (`Refused`), and an empty first sort command
  leaves out `ORDER BY` (`Order`).
- `client.go:126`: `FetchLimit` is "the maximum number of messages to fetch per second";
  it is the size of a batch, fetched again at once.  The default `AckWait` of the server,
  30 s, is shorter than the default callback timeout of a minute (`:138`), so the
  overlap in run `queue` is what slow callbacks get.

Properties take these as the code has them: `DisconnectCloses` allows the one late store,
`OnePoolPerFault` one pool that nobody closes for each fault, `LeaseKept` is of punctual
clients, `DisconnectCompletes` and `ReusableAfterDisconnect` except a goroutine stuck in the
migrations, and the first of them a Disconnect that waits for a transaction on a server that
no longer answers, `LockComesFree` is of locks asked for with a duration, `OldValuesGo`
excepts an old value that `GetWithResetTTL` keeps alive, `EveryCallReturns` excepts, for
calls and for Disconnect, a pool whose every connection is held by a call that waits for
another, and `DocsMatchBinding` the three things that the document does not say.

## 7. What is not modelled

- `MapContent`, `IncrBy`, `TTL`, `ClearServer`, `AddHandler`: one assignment or one
  command each.
- Of the generator: loading packages, finding calls in the syntax tree, tags and
  descriptions.  `Gen` begins where the type of a request and the writes of a handler
  are known.
- Rules of the validator other than `required`: the library's.  In a body, fields whose
  names JSON does not have and nulls for single fields, which are as if left out; a second
  document behind the first.
- Of a page `numberOfElements`, `first`, `empty` and `pageable`, which copy what is there.
- Statuses without a body (204, 304) and informational ones (1xx), which net/http treats
  in ways of its own.
- In names of instantiated types, title case beyond the basic types (`gen.go:622`): `Defs`
  has no two types whose names differ in the case of letters alone.
- `examples/cache-pubsub`, calls of `Publish` and `Subscribe`, which `CacheClient` has;
  the documentation routes of the other example.  Its consumer of `events.books` is that
  of `Queue`.
- A killed process in `Books`: it loses events as a failed shutdown does.
- Build tools and continuous integration.
- Logging, error texts, the banner; contents of messages, rows and responses.
- The libraries (nats.go, pgx, goose, valkey-go, failsafe-go, net/http) and the servers,
  beyond what the code asks of them.  They are marked external in `PROJECT.json`.
- Memory-model effects of the unsynchronised fields beyond the interleaving of whole
  reads and writes.  `d.pool` is one word; `c.valcli` and `c.client` are interfaces that
  hold the same dynamic type at every store after the first, and the first comes before
  any use, so a read that is torn sees the old or the new value all the same.

## 8. Plan

Done: sections 2 to 5.  Left, most important first:

1. `Books` with two books and the consumer of `events.books`, so that the order in
   which events reach it is in the model.  Two books and three connections are past what
   TLC does in minutes; the theorems hold for any number.
2. Operation ids and tags of the generator, against the comment at `gen.go:589`.
3. An abstract specification of the read-through cache for `CacheAside` to implement: a
   register whose entry has an age, counted from its store.  How old a value is when it is
   stored has no bound in the code.
4. The lifecycle that `Database` and `CacheClient` share, connect, reconnect and Disconnect,
   as one abstract specification of both.
