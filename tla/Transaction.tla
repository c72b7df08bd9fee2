---------------------------- MODULE Transaction ----------------------------
(***************************************************************************)
(* database/service.go: WithTX and WithReadTX, which are                   *)
(* runTransactionWithOpts with one access mode or the other, on a pool of  *)
(* MaxConns connections that Disconnect may close at any time.             *)
(*                                                                         *)
(* A call is made once.  A call made by the function of another is nested  *)
(* in it; it is handed the transaction of that function (existingQ) or is  *)
(* not, and then takes a connection of its own while the outer call holds  *)
(* on to its own.  uses[k] is the call in whose transaction k runs.        *)
(*                                                                         *)
(* A write is the pair of the call that made it and what it wrote.  The    *)
(* database is external: a transaction commits what it wrote as a whole,   *)
(* and a statement that fails on the server aborts the transaction, whose  *)
(* COMMIT is then answered by a ROLLBACK, which pgx returns as an error.   *)
(***************************************************************************)
EXTENDS Naturals, FiniteSets

CONSTANTS
  Calls,          \* calls of WithTX and WithReadTX
  Writes,         \* what a function may write
  MaxConns,       \* size of the pool
  MayNestOwn      \* whether functions nest calls without existingQ

ASSUME TransactionAssumption ==
  /\ IsFiniteSet(Calls)
  /\ MaxConns \in Nat \ {0}
  /\ MayNestOwn \in BOOLEAN

VARIABLES
  state,       \* of each call: where it is, and how it returned
  within,      \* the calls it is nested in, directly or not
  uses,        \* the call in whose transaction it runs
  mode,        \* access mode of its transaction
  verdict,     \* what it will return once the deferred Rollback has run
  holds,       \* calls that hold a connection of the pool
  wrote,       \* writes of each transaction
  aborted,     \* transactions in which a statement failed on the server
  committed,   \* writes the database has made durable
  unsure,      \* commits whose answer was lost
  pool         \* "open", "closing": Close waits for connections, "closed"

callVars == <<state, within, uses, mode, verdict>>
dbVars   == <<wrote, aborted, committed, unsure>>
vars     == <<callVars, holds, dbVars, pool>>

Returned == {"ok", "error", "panic"}
States   == {"none", "begin", "fn", "commit", "rollback"} \cup Returned
Modes    == {"ReadOnly", "ReadWrite"}

Init ==
  /\ state = [k \in Calls |-> "none"]
  /\ within = [k \in Calls |-> {}]
  /\ uses = [k \in Calls |-> k]
  /\ mode = [k \in Calls |-> "ReadWrite"]
  /\ verdict = [k \in Calls |-> "ok"]
  /\ holds = {}
  /\ wrote = [k \in Calls |-> {}]
  /\ aborted = {}
  /\ committed = {}
  /\ unsure = {}
  /\ pool = "open"

Under(k) == {j \in Calls : k \in within[j]}

\* The function of k runs its own code: no call under it is under way.
Running(k) ==
  /\ state[k] = "fn"
  /\ \A j \in Under(k) : state[j] \in {"none"} \cup Returned

-----------------------------------------------------------------------------
(* runTransactionWithOpts                                                   *)

\* A call without existingQ, made by a goroutine that is in no transaction.
CallTop(k, m) ==
  /\ state[k] = "none"
  /\ state' = [state EXCEPT ![k] = "begin"]
  /\ mode' = [mode EXCEPT ![k] = m]
  /\ UNCHANGED <<within, uses, verdict, holds, dbVars, pool>>

\* A call without existingQ, made by the function of p.
CallNested(k, p, m) ==
  /\ MayNestOwn
  /\ state[k] = "none" /\ Running(p)
  /\ state' = [state EXCEPT ![k] = "begin"]
  /\ within' = [within EXCEPT ![k] = within[p] \cup {p}]
  /\ mode' = [mode EXCEPT ![k] = m]
  /\ UNCHANGED <<uses, verdict, holds, dbVars, pool>>

\* A call whose existingQ is the transaction handed to the function of p.
\* The options of the call are not looked at.
CallExisting(k, p) ==
  /\ state[k] = "none" /\ Running(p)
  /\ state' = [state EXCEPT ![k] = "fn"]
  /\ within' = [within EXCEPT ![k] = within[p] \cup {p}]
  /\ uses' = [uses EXCEPT ![k] = uses[p]]
  /\ UNCHANGED <<mode, verdict, holds, dbVars, pool>>

FreeConnection == Cardinality(holds) < MaxConns

\* BeginTx gets a connection of the pool and BEGIN succeeds.
Begin(k) ==
  /\ state[k] = "begin"
  /\ pool = "open"
  /\ FreeConnection
  /\ holds' = holds \cup {k}
  /\ state' = [state EXCEPT ![k] = "fn"]
  /\ UNCHANGED <<within, uses, mode, verdict, dbVars, pool>>

\* The context ended while waiting, the pool was closed, or BEGIN failed and
\* BeginTx gave the connection back.
BeginFails(k) ==
  /\ state[k] = "begin"
  /\ state' = [state EXCEPT ![k] = "error"]
  /\ UNCHANGED <<within, uses, mode, verdict, holds, dbVars, pool>>

\* ExecQuery inside the function, on the transaction it was handed.
Exec(k, w) ==
  /\ Running(k)
  /\ uses[k] \notin aborted
  /\ mode[uses[k]] = "ReadWrite"
  /\ wrote' = [wrote EXCEPT ![uses[k]] = @ \cup {<<k, w>>}]
  /\ UNCHANGED <<callVars, holds, aborted, committed, unsure, pool>>

\* A statement fails on the server, as a write in a read-only transaction
\* does.  The function may well go on and return nil.
ExecFails(k) ==
  /\ Running(k)
  /\ aborted' = aborted \cup {uses[k]}
  /\ UNCHANGED <<callVars, holds, wrote, committed, unsure, pool>>

\* Mutations: a nested call commits; an error of fn is not looked at; a panic
\* of fn goes past the Rollback, as one that is not deferred.
AfterFnCommitsNested(k, r) == IF r = "ok" THEN "commit" ELSE r
AfterFnIgnoresError(k, r) == IF uses[k] # k THEN r ELSE "commit"
AfterFnPanicEscapes(k, r) ==
  IF uses[k] # k \/ r = "panic" THEN r
  ELSE IF r = "ok" THEN "commit" ELSE "rollback"

\* What follows the function.  With existingQ its result is returned at once.
AfterFn(k, r) ==
  IF uses[k] # k THEN r
  ELSE IF r = "ok" THEN "commit" ELSE "rollback"

FnReturns(k, r) ==
  /\ Running(k)
  /\ state' = [state EXCEPT ![k] = AfterFn(k, r)]
  /\ verdict' = [verdict EXCEPT ![k] = r]
  /\ UNCHANGED <<within, uses, mode, holds, dbVars, pool>>

\* tx.Commit gives the connection back whatever its outcome.
CommitReturns(k, v) ==
  /\ state[k] = "commit"
  /\ state' = [state EXCEPT ![k] = "rollback"]
  /\ verdict' = [verdict EXCEPT ![k] = v]
  /\ holds' = holds \ {uses[k]}
  /\ UNCHANGED <<within, uses, mode, wrote, aborted, pool>>

CommitSucceeds(k) ==
  /\ uses[k] \notin aborted
  /\ CommitReturns(k, "ok")
  /\ committed' = committed \cup wrote[uses[k]]
  /\ UNCHANGED unsure

\* The transaction was aborted, or the request never reached the server.
CommitFails(k) == CommitReturns(k, "error") /\ UNCHANGED <<committed, unsure>>

\* The server committed and the connection broke before its answer.
CommitAnswerLost(k) ==
  /\ uses[k] \notin aborted
  /\ CommitReturns(k, "error")
  /\ committed' = committed \cup wrote[uses[k]]
  /\ unsure' = unsure \cup {uses[k]}

\* Mutation: no deferred Rollback.
RollbackForgotten(k) ==
  /\ state[k] = "rollback"
  /\ state' = [state EXCEPT ![k] = verdict[k]]
  /\ UNCHANGED <<within, uses, mode, verdict, holds, dbVars, pool>>

\* The deferred Rollback gives back a connection that is still held and does
\* nothing to a transaction that was committed.
Rollback(k) ==
  /\ state[k] = "rollback"
  /\ holds' = holds \ {uses[k]}
  /\ state' = [state EXCEPT ![k] = verdict[k]]
  /\ UNCHANGED <<within, uses, mode, verdict, dbVars, pool>>

-----------------------------------------------------------------------------
(* Disconnect closes the pool: no connection is given out any more, and     *)
(* Close returns when those in use have come back.                          *)

Close ==
  /\ pool = "open"
  /\ pool' = "closing"
  /\ UNCHANGED <<callVars, holds, dbVars>>

CloseReturns ==
  /\ pool = "closing"
  /\ holds = {}
  /\ pool' = "closed"
  /\ UNCHANGED <<callVars, holds, dbVars>>

-----------------------------------------------------------------------------
FnStep(k) ==
  \/ \E w \in Writes : Exec(k, w)
  \/ ExecFails(k)
  \/ \E r \in Returned : FnReturns(k, r)

Finish(k) ==
  \/ CommitSucceeds(k) \/ CommitFails(k) \/ CommitAnswerLost(k) \/ Rollback(k)

Next ==
  \/ \E k \in Calls :
       \/ \E m \in Modes : CallTop(k, m)
       \/ \E p \in Calls, m \in Modes : CallNested(k, p, m)
       \/ \E p \in Calls : CallExisting(k, p)
       \/ Begin(k) \/ BeginFails(k) \/ FnStep(k) \/ Finish(k)
  \/ Close
  \/ CloseReturns

Spec == Init /\ [][Next]_vars

\* Functions and statements return, the pool serves those who wait for a
\* connection in turn, and a call that waits on a pool that was closed is told
\* so once a connection is back: Close itself wakes nobody.  Nothing makes a
\* call give up waiting, for its context may have no deadline.
Fairness ==
  /\ \A k \in Calls :
       /\ WF_vars(\E r \in Returned : FnReturns(k, r))
       /\ SF_vars(Begin(k))
       /\ WF_vars(pool # "open" /\ FreeConnection /\ BeginFails(k))
       /\ WF_vars(Finish(k))
  /\ WF_vars(CloseReturns)

FairSpec == Spec /\ Fairness

-----------------------------------------------------------------------------
(* Properties                                                              *)

TypeOK ==
  /\ state \in [Calls -> States]
  /\ within \in [Calls -> SUBSET Calls]
  /\ uses \in [Calls -> Calls]
  /\ mode \in [Calls -> Modes]
  /\ verdict \in [Calls -> Returned]
  /\ holds \subseteq Calls /\ Cardinality(holds) <= MaxConns
  /\ wrote \in [Calls -> SUBSET (Calls \X Writes)]
  /\ aborted \subseteq Calls
  /\ committed \subseteq Calls \X Writes
  /\ unsure \subseteq Calls
  /\ pool \in {"open", "closing", "closed"}

(* What a call of its own transaction returns tells what became of all that *)
(* was written in it, by its function and by the nested calls that joined:  *)
(* nil means every write is durable, a panic means none is, and an error    *)
(* means none is unless the answer to the COMMIT was lost.  COMMIT is asked *)
(* for only when the function returned nil.                                 *)
Durable(k) == wrote[k] \subseteq committed
Undone(k)  == wrote[k] \cap committed = {}
ReturnTellsOutcome ==
  \A k \in Calls : uses[k] = k =>
    /\ state[k] = "commit" => verdict[k] = "ok"
    /\ state[k] = "ok" => Durable(k)
    /\ state[k] = "panic" => Undone(k)
    /\ state[k] = "error" => Undone(k) \/ (k \in unsure /\ Durable(k))

(* A connection is held by calls under way and by no other: neither errors, *)
(* panics nor lost answers leak one, and none is in use once Close has      *)
(* returned.                                                                *)
ConnectionsComeBack ==
  /\ \A k \in holds : uses[k] = k /\ state[k] \in {"fn", "commit", "rollback"}
  /\ pool = "closed" => holds = {}

(* What the database shows, as the specification UnitOfWork: a transaction  *)
(* is decided once and as a whole, and what nested calls wrote in it shows  *)
(* when the outermost call commits, not when the nested ones return.        *)
Decision(k) ==
  IF state[k] \notin {"rollback"} \cup Returned THEN "open"
  ELSE IF wrote[k] # {} /\ Durable(k) THEN "committed" ELSE "dropped"

Units == INSTANCE UnitOfWork WITH
  Units <- Calls, Items <- Calls \X Writes, contents <- wrote, visible <- committed,
  fate <- [k \in Calls |-> Decision(k)]

AtomicUnits == Units!AbsSpec

(* A call waits for ever only when every connection is held by a call that  *)
(* itself waits, through a nested call without existingQ, for one: calls    *)
(* that join the transaction of their caller need none, and all others      *)
(* return.  Disconnect waits for ever in that case too, for closing the     *)
(* pool wakes none of them, and in no other.                                *)
Exhausted ==
  /\ Cardinality(holds) = MaxConns
  /\ \A k \in holds : \E j \in Under(k) : state[j] = "begin"

EveryCallReturns ==
  /\ \A k \in Calls : state[k] # "none" ~> state[k] \in Returned \/ Exhausted
  /\ pool = "closing" ~> pool = "closed" \/ Exhausted

(* What makes that so at every moment: as long as a call is under way some  *)
(* call can take its next step without waiting for another, and so can one  *)
(* that Close waits for, unless the pool is exhausted as above.             *)
Proceeds(k) ==
  \/ Running(k) \/ state[k] \in {"commit", "rollback"}
  \/ state[k] = "begin" /\ FreeConnection

OnlyExhaustionBlocks ==
  \/ Exhausted
  \/ /\ (\E k \in Calls : state[k] \notin {"none"} \cup Returned)
            => \E j \in Calls : Proceeds(j)
     /\ pool = "closing" =>
          holds = {} \/ \E k \in holds : \E j \in {k} \cup Under(k) : Proceeds(j)
=============================================================================
