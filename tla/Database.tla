------------------------------ MODULE Database ------------------------------
(***************************************************************************)
(* database/service.go: the life of the client.  NewDatabase builds a pool,*)
(* runs the migrations on it, stores it in d.pool and starts the goroutine *)
(* that looks after it: every five seconds that goroutine pings d.pool and,*)
(* when the ping fails, builds another pool in the same way.  Disconnect   *)
(* closes d.pool, after setting isTeardown unless told not to, and callers *)
(* of WithTX read d.pool.  Nothing but isTeardown is synchronised, so each *)
(* reads whatever pool d.pool holds at that moment.                        *)
(*                                                                         *)
(* pgxpool, goose and the database are external.  NewWithConfig connects   *)
(* to nothing, Close gives out no more connections and returns when those  *)
(* in use are back, and the migrations run without any deadline.           *)
(***************************************************************************)
EXTENDS Naturals, FiniteSets

CONSTANTS
  Users,          \* goroutines that call WithTX
  Disconnects,    \* calls of Disconnect
  Final,          \* those made without noTeardown
  MaxFaults,      \* bound on pings and migrations that fail on an open pool
  MayHang         \* whether statements may remain unanswered for ever

ASSUME DatabaseAssumption ==
  /\ Final \subseteq Disconnects
  /\ IsFiniteSet(Disconnects)
  /\ MaxFaults \in Nat
  /\ MayHang \in BOOLEAN

\* Every pool but the first is built after a ping that failed, either by a
\* fault or on a pool that a Disconnect closed.
MaxPools == 1 + MaxFaults + Cardinality(Disconnects)
PoolIds == 1 .. MaxPools

VARIABLES
  client,      \* NewDatabase: "connecting", "ready" or "failed"
  checker,     \* where the goroutine of NewDatabase, then of runReconnect, is
  fresh,       \* pool built last
  migrated,    \* pools on which the migrations ran
  current,     \* d.pool
  teardown,    \* d.isTeardown
  pools,       \* "absent", "open", "closing" or "closed"
  at,          \* users: "idle", "begin": d.pool was read, "in" a transaction
  on,          \* the pool a user read
  leave,       \* Disconnect: "none", "flagged", "waiting", "returned"
  closes,      \* the pool it closes
  late,        \* pools stored in d.pool since isTeardown was set
  faults,      \* faults so far
  hung         \* whether statements go unanswered

checkVars == <<client, checker, fresh, migrated, current, late>>
userVars  == <<at, on>>
leaveVars == <<teardown, leave, closes>>
vars == <<checkVars, userVars, leaveVars, pools, faults, hung>>

Init ==
  /\ client = "connecting" /\ checker = "build"
  /\ fresh = 0 /\ migrated = {} /\ current = 0
  /\ teardown = FALSE
  /\ pools = [p \in PoolIds |-> "absent"]
  /\ at = [u \in Users |-> "idle"] /\ on = [u \in Users |-> 0]
  /\ leave = [d \in Disconnects |-> "none"] /\ closes = [d \in Disconnects |-> 0]
  /\ late = 0 /\ faults = 0 /\ hung = FALSE

InUse(p) == \E u \in Users : at[u] = "in" /\ on[u] = p

Fault == faults < MaxFaults /\ faults' = faults + 1

-----------------------------------------------------------------------------
(* runReconnect and healthCheckPool                                         *)

\* Mutation: the flag is not looked at again.
CheckOnlyPings ==
  /\ checker = "check"
  /\ checker' = "ping"
  /\ UNCHANGED <<client, fresh, migrated, current, late>>
  /\ UNCHANGED <<userVars, leaveVars, pools, faults, hung>>

Check ==
  /\ checker = "check"
  /\ checker' = IF teardown THEN "stopped" ELSE "ping"
  /\ UNCHANGED <<client, fresh, migrated, current, late>>
  /\ UNCHANGED <<userVars, leaveVars, pools, faults, hung>>

\* Mutation: a pool is built each round, whether the ping failed or not.
PingResultIgnored ==
  /\ checker = "ping"
  /\ pools[current] = "open" /\ ~hung
  /\ checker' = "build"
  /\ UNCHANGED <<client, fresh, migrated, current, late>>
  /\ UNCHANGED <<userVars, leaveVars, pools, faults, hung>>

PingSucceeds ==
  /\ checker = "ping"
  /\ pools[current] = "open" /\ ~hung
  /\ checker' = "sleep"
  /\ UNCHANGED <<client, fresh, migrated, current, late>>
  /\ UNCHANGED <<userVars, leaveVars, pools, faults, hung>>

\* Mutation: a client that was disconnected is taken to be meant so.
PingFailsOpenOnly ==
  /\ checker = "ping"
  /\ IF pools[current] = "open"
       THEN Fault /\ checker' = "build"
       ELSE UNCHANGED faults /\ checker' = "sleep"
  /\ UNCHANGED <<client, fresh, migrated, current, late>>
  /\ UNCHANGED <<userVars, leaveVars, pools, hung>>

\* A pool that was closed refuses the ping.  An open one fails it when the
\* database cannot be reached, or for want of a free connection in 30 seconds.
PingFails ==
  /\ checker = "ping"
  /\ IF pools[current] = "open" THEN Fault ELSE UNCHANGED faults
  /\ checker' = "build"
  /\ UNCHANGED <<client, fresh, migrated, current, late>>
  /\ UNCHANGED <<userVars, leaveVars, pools, hung>>

Wake ==
  /\ checker = "sleep"
  /\ checker' = "check"
  /\ UNCHANGED <<client, fresh, migrated, current, late>>
  /\ UNCHANGED <<userVars, leaveVars, pools, faults, hung>>

-----------------------------------------------------------------------------
(* connectAndMigratePool, called by NewDatabase and by healthCheckPool      *)

\* Mutation: the new pool is stored before the migrations have run on it.
NewPoolStored ==
  /\ checker = "build"
  /\ fresh < MaxPools
  /\ fresh' = fresh + 1
  /\ pools' = [pools EXCEPT ![fresh'] = "open"]
  /\ current' = fresh'
  /\ checker' = "migrate"
  /\ UNCHANGED <<client, migrated, late>>
  /\ UNCHANGED <<userVars, leaveVars, faults, hung>>

NewPool ==
  /\ checker = "build"
  /\ fresh < MaxPools
  /\ fresh' = fresh + 1
  /\ pools' = [pools EXCEPT ![fresh'] = "open"]
  /\ checker' = "migrate"
  /\ UNCHANGED <<client, migrated, current, late>>
  /\ UNCHANGED <<userVars, leaveVars, faults, hung>>

\* The error goes to the caller of NewDatabase or to the log.  Nobody has the
\* new pool any more, and nobody closes it.
MigrateFails ==
  /\ checker = "migrate" /\ ~hung
  /\ Fault
  /\ IF client = "connecting"
       THEN client' = "failed" /\ checker' = "stopped"
       ELSE checker' = "sleep" /\ UNCHANGED client
  /\ UNCHANGED <<fresh, migrated, current, late>>
  /\ UNCHANGED <<userVars, leaveVars, pools, hung>>

MigrateSucceeds ==
  /\ checker = "migrate" /\ ~hung
  /\ migrated' = migrated \cup {fresh}
  /\ checker' = "install"
  /\ UNCHANGED <<client, fresh, current, late>>
  /\ UNCHANGED <<userVars, leaveVars, pools, faults, hung>>

\* d.pool = pool.  The pool it held is not closed.
Install ==
  /\ checker = "install"
  /\ current' = fresh
  /\ late' = IF teardown THEN late + 1 ELSE late
  /\ IF client = "connecting"
       THEN client' = "ready" /\ checker' = "check"
       ELSE checker' = "sleep" /\ UNCHANGED client
  /\ UNCHANGED <<fresh, migrated, userVars, leaveVars, pools, faults, hung>>

-----------------------------------------------------------------------------
(* WithTX, as far as it uses the pool: see Transaction                      *)

ReadPool(u) ==
  /\ client = "ready" /\ at[u] = "idle"
  /\ at' = [at EXCEPT ![u] = "begin"]
  /\ on' = [on EXCEPT ![u] = current]
  /\ UNCHANGED <<checkVars, leaveVars, pools, faults, hung>>

\* A connection was acquired: BEGIN is sent, and from here Close waits for it.
BeginTx(u) ==
  /\ at[u] = "begin" /\ pools[on[u]] = "open"
  /\ at' = [at EXCEPT ![u] = "in"]
  /\ UNCHANGED <<on, checkVars, leaveVars, pools, faults, hung>>

\* Mutation: a transaction that ends does not give its connection back.
LeavesKeepingConnection(u) ==
  /\ at[u] = "begin"
  /\ at' = [at EXCEPT ![u] = "idle"]
  /\ UNCHANGED <<on, checkVars, leaveVars, pools, faults, hung>>

\* BeginTx failed, or the transaction ended and its connection went back.  All
\* of it runs on the context of the caller, to which no deadline is added.
Leaves(u) ==
  /\ at[u] \in {"begin", "in"}
  /\ at' = [at EXCEPT ![u] = "idle"]
  /\ UNCHANGED <<on, checkVars, leaveVars, pools, faults, hung>>

-----------------------------------------------------------------------------
(* Disconnect                                                               *)

\* Mutation: the meaning of noTeardown is turned round.
CallDisconnectInverted(d) ==
  /\ client = "ready" /\ leave[d] = "none"
  /\ leave' = [leave EXCEPT ![d] = "flagged"]
  /\ teardown' = (teardown \/ d \notin Final)
  /\ UNCHANGED <<closes, checkVars, userVars, pools, faults, hung>>

CallDisconnect(d) ==
  /\ client = "ready" /\ leave[d] = "none"
  /\ leave' = [leave EXCEPT ![d] = "flagged"]
  /\ teardown' = (teardown \/ d \in Final)
  /\ UNCHANGED <<closes, checkVars, userVars, pools, faults, hung>>

\* d.pool.Close(), on the pool d.pool holds now.
CloseStarts(d) ==
  /\ leave[d] = "flagged"
  /\ leave' = [leave EXCEPT ![d] = "waiting"]
  /\ closes' = [closes EXCEPT ![d] = current]
  /\ pools' = [pools EXCEPT ![current] = IF @ = "open" THEN "closing" ELSE @]
  /\ UNCHANGED <<teardown, checkVars, userVars, faults, hung>>

CloseReturns(d) ==
  /\ leave[d] = "waiting" /\ ~InUse(closes[d])
  /\ leave' = [leave EXCEPT ![d] = "returned"]
  /\ pools' = [pools EXCEPT ![closes[d]] = "closed"]
  /\ UNCHANGED <<teardown, closes, checkVars, userVars, faults, hung>>

-----------------------------------------------------------------------------
\* The server stops answering statements, on connections it still accepts.
Hang ==
  /\ MayHang /\ ~hung
  /\ hung' = TRUE
  /\ UNCHANGED <<checkVars, userVars, leaveVars, pools, faults>>

Connect == NewPool \/ MigrateFails \/ MigrateSucceeds \/ Install

Health == Check \/ PingSucceeds \/ PingFails \/ Wake

User(u) == ReadPool(u) \/ BeginTx(u) \/ Leaves(u)

Leave(d) == CallDisconnect(d) \/ CloseStarts(d) \/ CloseReturns(d)

Next ==
  \/ Connect \/ Health \/ Hang
  \/ \E u \in Users : User(u)
  \/ \E d \in Disconnects : Leave(d)

Spec == Init /\ [][Next]_vars

\* The goroutine is scheduled, pings and sleeps end, and so do transactions as
\* long as the server answers.  Nobody has to call Disconnect.
Fairness ==
  /\ WF_vars(Connect \/ Health)
  /\ \A u \in Users : WF_vars(~hung /\ Leaves(u))
  /\ \A d \in Disconnects : WF_vars(CloseStarts(d) \/ CloseReturns(d))

FairSpec == Spec /\ Fairness

-----------------------------------------------------------------------------
(* Properties                                                               *)

CheckerStates ==
  {"build", "migrate", "install", "check", "ping", "sleep", "stopped"}

TypeOK ==
  /\ client \in {"connecting", "ready", "failed"}
  /\ checker \in CheckerStates
  /\ fresh \in 0 .. MaxPools /\ current \in 0 .. fresh
  /\ migrated \subseteq 1 .. fresh
  /\ checker \in {"migrate", "install"} => fresh # 0
  /\ client = "ready" => current # 0
  /\ teardown \in BOOLEAN /\ hung \in BOOLEAN
  /\ pools \in [PoolIds -> {"absent", "open", "closing", "closed"}]
  /\ at \in [Users -> {"idle", "begin", "in"}] /\ on \in [Users -> 0 .. fresh]
  /\ leave \in [Disconnects -> {"none", "flagged", "waiting", "returned"}]
  /\ closes \in [Disconnects -> 0 .. fresh]
  /\ late \in Nat /\ faults \in 0 .. MaxFaults

(* Nothing reaches the users but pools that are migrated: neither the pool  *)
(* in d.pool nor one that a user read there, however long ago and whatever  *)
(* reconnects failed since, is one whose migrations failed or still run.    *)
ServedPoolsAreMigrated ==
  /\ current # 0 => current \in migrated
  /\ \A u \in Users : at[u] # "idle" => on[u] \in migrated

(* A reconnect closes neither the pool it replaces nor the one it gave up,  *)
(* but each pool left open is the trace of a fault: those that a Disconnect *)
(* closed are replaced once, and no round without a fault adds one.         *)
ClosedPools == {p \in PoolIds : pools[p] \in {"closing", "closed"}}
OpenPools == {p \in PoolIds : pools[p] = "open"}
OnePoolPerFault == Cardinality(OpenPools) <= 1 + faults

(* After Disconnect has set isTeardown the goroutine may finish the one     *)
(* reconnect it had begun, and none after that: d.pool changes once at most.*)
OneLateInstall == late <= 1

(* Once Disconnect has returned, the pool in d.pool is closed, unless the   *)
(* reconnect that was under way stored another after isTeardown was set.    *)
TornDown == \E d \in Final : leave[d] = "returned"
DisconnectCloses == TornDown /\ late = 0 => pools[current] = "closed"

(* The migrations take no context: with a server that accepts connections   *)
(* and answers nothing they wait without end.                               *)
Stuck == hung /\ checker = "migrate"

(* A statement on the pool that Disconnect closes may be one of those.      *)
Unanswered(d) == hung /\ leave[d] = "waiting" /\ InUse(closes[d])

(* Disconnect waits for nothing but transactions on its own pool, and so    *)
(* returns, unless one of them has no answer; it ends the goroutine, unless *)
(* that waits in the migrations.                                            *)
DisconnectCompletes ==
  /\ \A d \in Disconnects :
       leave[d] = "flagged" ~> leave[d] = "returned" \/ Unanswered(d)
  /\ teardown ~> checker = "stopped" \/ Stuck

(* After Disconnect(true) the client can be used again: the goroutine finds *)
(* the pool closed and puts another in its place, unless it waits as above. *)
Usable == client = "ready" /\ pools[current] = "open"
ReusableAfterDisconnect ==
  (client = "ready" /\ ~Usable) ~> (Usable \/ teardown \/ Stuck)

-----------------------------------------------------------------------------
(* What the comment on Disconnect says                                      *)

(* Lines 153 and 154: all resources are released.  Once Disconnect has      *)
(* returned and the goroutine has ended, no pool is open.                   *)
AllPoolsReleased ==
  TornDown /\ checker = "stopped" =>
    \A p \in PoolIds : pools[p] \notin {"open", "closing"}
=============================================================================
