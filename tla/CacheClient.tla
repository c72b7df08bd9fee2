---------------------------- MODULE CacheClient -----------------------------
(***************************************************************************)
(* cache/valkey.go: the life of the client.  connect makes a valkey client *)
(* and an adapter over it, pings it and stores the two in the fields valcli*)
(* and client, one after the other; NewCache calls it, and then the health *)
(* goroutine whenever a ping of c.client fails.  Operations read c.client, *)
(* Disconnect closes c.valcli, and Subscribe stays with the client it read *)
(* when it was called.  Only isTeardown is synchronised.                   *)
(*                                                                         *)
(* A valkey client is a number here, and its adapter is the same number.   *)
(* NewClient connects, and leaves nothing behind when it cannot; Close     *)
(* waits for nothing, and whatever uses a closed client gets an error.     *)
(***************************************************************************)
EXTENDS Naturals, FiniteSets

CONSTANTS
  Users,          \* goroutines that publish, get, set and so on
  Subscribers,    \* calls of Subscribe
  Disconnects,    \* calls of Disconnect
  Final,          \* those made without noTeardown
  MaxFaults       \* bound on pings and connects that fail on their own

ASSUME CacheClientAssumption ==
  /\ Final \subseteq Disconnects
  /\ IsFiniteSet(Disconnects)
  /\ MaxFaults \in Nat

\* Every client but the first is made after a ping that failed, either by a
\* fault or on a client that a Disconnect closed.
MaxClients == 1 + MaxFaults + Cardinality(Disconnects)
ClientIds == 1 .. MaxClients

VARIABLES
  cache,       \* NewCache: "connecting", "ready" or "failed"
  health,      \* where the goroutine of NewCache, then of healthCheck, is
  made,        \* client made last
  valcli,      \* c.valcli
  client,      \* c.client
  teardown,    \* c.isTeardown
  clients,     \* "absent", "open" or "closed"
  op,          \* the client an operation of a user has read, 0: none
  sub,         \* the client a Subscribe has read, 0: not called
  hearing,     \* Subscribe: "receive" or "callback"
  leave,       \* Disconnect: "none", "flagged", "returned"
  late,        \* clients stored since isTeardown was set
  faults       \* faults so far

healthVars == <<cache, health, made, valcli, client, late>>
useVars    == <<op, sub, hearing>>
leaveVars  == <<teardown, leave>>
vars == <<healthVars, useVars, leaveVars, clients, faults>>

Init ==
  /\ cache = "connecting" /\ health = "create"
  /\ made = 0 /\ valcli = 0 /\ client = 0 /\ late = 0
  /\ teardown = FALSE
  /\ clients = [i \in ClientIds |-> "absent"]
  /\ op = [u \in Users |-> 0]
  /\ sub = [s \in Subscribers |-> 0]
  /\ hearing = [s \in Subscribers |-> "receive"]
  /\ leave = [d \in Disconnects |-> "none"]
  /\ faults = 0

Fault == faults < MaxFaults /\ faults' = faults + 1

-----------------------------------------------------------------------------
(* healthCheck                                                              *)

\* Mutation: the flag is not looked at again.
CheckOnlyPings ==
  /\ health = "check"
  /\ health' = "ping"
  /\ UNCHANGED <<cache, made, valcli, client, late>>
  /\ UNCHANGED <<useVars, leaveVars, clients, faults>>

Check ==
  /\ health = "check"
  /\ health' = IF teardown THEN "stopped" ELSE "ping"
  /\ UNCHANGED <<cache, made, valcli, client, late>>
  /\ UNCHANGED <<useVars, leaveVars, clients, faults>>

PingSucceeds ==
  /\ health = "ping" /\ clients[client] = "open"
  /\ health' = "sleep"
  /\ UNCHANGED <<cache, made, valcli, client, late>>
  /\ UNCHANGED <<useVars, leaveVars, clients, faults>>

\* A closed client refuses the ping; an open one may fail it.
PingFails ==
  /\ health = "ping"
  /\ IF clients[client] = "open" THEN Fault ELSE UNCHANGED faults
  /\ health' = "create"
  /\ UNCHANGED <<cache, made, valcli, client, late>>
  /\ UNCHANGED <<useVars, leaveVars, clients>>

Wake ==
  /\ health = "sleep"
  /\ health' = "check"
  /\ UNCHANGED <<cache, made, valcli, client, late>>
  /\ UNCHANGED <<useVars, leaveVars, clients, faults>>

-----------------------------------------------------------------------------
(* connect, called by NewCache and by healthCheck                           *)

\* Its error goes to the caller of NewCache or to the log.
ConnectFails ==
  IF cache = "connecting"
    THEN cache' = "failed" /\ health' = "stopped"
    ELSE health' = "sleep" /\ UNCHANGED cache

CreateFails ==
  /\ health = "create"
  /\ Fault /\ ConnectFails
  /\ UNCHANGED <<made, valcli, client, late, useVars, leaveVars, clients>>

Create ==
  /\ health = "create" /\ made < MaxClients
  /\ made' = made + 1
  /\ clients' = [clients EXCEPT ![made'] = "open"]
  /\ health' = "pingNew"
  /\ UNCHANGED <<cache, valcli, client, late, useVars, leaveVars, faults>>

\* The client that did not answer is neither stored nor closed.
PingNewFails ==
  /\ health = "pingNew"
  /\ Fault /\ ConnectFails
  /\ UNCHANGED <<made, valcli, client, late, useVars, leaveVars, clients>>

PingNewSucceeds ==
  /\ health = "pingNew"
  /\ health' = "storeValcli"
  /\ UNCHANGED <<cache, made, valcli, client, late, useVars, leaveVars, clients, faults>>

\* Mutation: only the adapter is stored.
StoreValcliForgotten ==
  /\ health = "storeValcli"
  /\ valcli' = IF valcli = 0 THEN made ELSE valcli
  /\ health' = "storeClient"
  /\ UNCHANGED <<cache, made, client, late, useVars, leaveVars, clients, faults>>

\* c.valcli = valcli.  The client it held is not closed.
StoreValcli ==
  /\ health = "storeValcli"
  /\ valcli' = made
  /\ health' = "storeClient"
  /\ UNCHANGED <<cache, made, client, late, useVars, leaveVars, clients, faults>>

\* Mutation: only the client below the adapter is stored.
StoreClientForgotten ==
  /\ health = "storeClient"
  /\ client' = IF client = 0 THEN made ELSE client
  /\ late' = IF teardown THEN late + 1 ELSE late
  /\ IF cache = "connecting"
       THEN cache' = "ready" /\ health' = "check"
       ELSE health' = "sleep" /\ UNCHANGED cache
  /\ UNCHANGED <<made, valcli, useVars, leaveVars, clients, faults>>

\* c.client = client
StoreClient ==
  /\ health = "storeClient"
  /\ client' = made
  /\ late' = IF teardown THEN late + 1 ELSE late
  /\ IF cache = "connecting"
       THEN cache' = "ready" /\ health' = "check"
       ELSE health' = "sleep" /\ UNCHANGED cache
  /\ UNCHANGED <<made, valcli, useVars, leaveVars, clients, faults>>

-----------------------------------------------------------------------------
(* Operations, and Subscribe                                                *)

ReadClient(u) ==
  /\ cache = "ready" /\ op[u] = 0
  /\ op' = [op EXCEPT ![u] = client]
  /\ UNCHANGED <<sub, hearing, healthVars, leaveVars, clients, faults>>

Served(u) ==
  /\ op[u] # 0 /\ clients[op[u]] = "open"
  /\ op' = [op EXCEPT ![u] = 0]
  /\ UNCHANGED <<sub, hearing, healthVars, leaveVars, clients, faults>>

Refused(u) ==
  /\ op[u] # 0
  /\ op' = [op EXCEPT ![u] = 0]
  /\ UNCHANGED <<sub, hearing, healthVars, leaveVars, clients, faults>>

Subscribe(s) ==
  /\ cache = "ready" /\ sub[s] = 0
  /\ sub' = [sub EXCEPT ![s] = client]
  /\ UNCHANGED <<op, hearing, healthVars, leaveVars, clients, faults>>

\* A message on the channel, not empty: the callback is called.  Errors of
\* ReceiveMessage and other messages leave the loop where it is.
Receive(s) ==
  /\ sub[s] # 0 /\ hearing[s] = "receive" /\ clients[sub[s]] = "open"
  /\ hearing' = [hearing EXCEPT ![s] = "callback"]
  /\ UNCHANGED <<op, sub, healthVars, leaveVars, clients, faults>>

\* With or without an error, the loop goes on.
CallbackReturns(s) ==
  /\ hearing[s] = "callback"
  /\ hearing' = [hearing EXCEPT ![s] = "receive"]
  /\ UNCHANGED <<op, sub, healthVars, leaveVars, clients, faults>>

-----------------------------------------------------------------------------
(* Disconnect                                                               *)

\* Neither field is nil once NewCache has returned the client.
Flag(d) ==
  /\ cache = "ready" /\ leave[d] = "none"
  /\ leave' = [leave EXCEPT ![d] = "flagged"]
  /\ teardown' = (teardown \/ d \in Final)
  /\ UNCHANGED <<healthVars, useVars, clients, faults>>

\* c.valcli.Close()
CloseValcli(d) ==
  /\ leave[d] = "flagged"
  /\ leave' = [leave EXCEPT ![d] = "returned"]
  /\ clients' = [clients EXCEPT ![valcli] = "closed"]
  /\ UNCHANGED <<teardown, healthVars, useVars, faults>>

-----------------------------------------------------------------------------
Connect ==
  \/ Create \/ CreateFails \/ PingNewSucceeds \/ PingNewFails
  \/ StoreValcli \/ StoreClient

Health == Check \/ PingSucceeds \/ PingFails \/ Wake

Use ==
  \/ \E u \in Users : ReadClient(u) \/ Served(u) \/ Refused(u)
  \/ \E s \in Subscribers : Subscribe(s) \/ Receive(s) \/ CallbackReturns(s)

Leave == \E d \in Disconnects : Flag(d) \/ CloseValcli(d)

Next == Connect \/ Health \/ Use \/ Leave

Spec == Init /\ [][Next]_vars

\* The goroutine is scheduled, pings and sleeps end, callbacks return and
\* Disconnect goes on; nobody has to call it.
Fairness ==
  /\ WF_vars(Connect \/ Health)
  /\ \A s \in Subscribers : WF_vars(CallbackReturns(s)) /\ SF_vars(Receive(s))
  /\ \A d \in Disconnects : WF_vars(CloseValcli(d))

FairSpec == Spec /\ Fairness

-----------------------------------------------------------------------------
(* Properties                                                               *)

HealthStates ==
  {"create", "pingNew", "storeValcli", "storeClient", "check", "ping", "sleep", "stopped"}

TypeOK ==
  /\ cache \in {"connecting", "ready", "failed"}
  /\ health \in HealthStates
  /\ made \in 0 .. MaxClients
  /\ health \in {"pingNew", "storeValcli", "storeClient"} => made # 0
  /\ valcli \in 0 .. made /\ client \in 0 .. made
  /\ health = "storeClient" => valcli # 0
  /\ cache = "ready" => valcli # 0 /\ client # 0
  /\ teardown \in BOOLEAN
  /\ clients \in [ClientIds -> {"absent", "open", "closed"}]
  /\ op \in [Users -> 0 .. made] /\ sub \in [Subscribers -> 0 .. made]
  /\ hearing \in [Subscribers -> {"receive", "callback"}]
  /\ leave \in [Disconnects -> {"none", "flagged", "returned"}]
  /\ late \in Nat /\ faults \in 0 .. MaxFaults

TornDown == \E d \in Final : leave[d] = "returned"

(* Disconnect closes what operations use: the two fields hold one client    *)
(* but for the moment between their stores, and once Disconnect has returned*)
(* c.client is closed, unless a reconnect that was under way stored another.*)
DisconnectCloses ==
  /\ health # "storeClient" => valcli = client
  /\ TornDown /\ late = 0 /\ health # "storeClient" => clients[client] = "closed"

(* After Disconnect has set isTeardown the goroutine may finish the one     *)
(* reconnect it had begun, and none after that.                             *)
OneLateClient == late <= 1

(* Disconnect ends the health goroutine.                                    *)
GoroutineStops == teardown ~> health = "stopped"

(* After Disconnect(true) the client can be used again: the goroutine finds *)
(* its client closed and puts another in its place.                         *)
Usable == cache = "ready" /\ clients[client] = "open"
ReusableAfterDisconnect ==
  (cache = "ready" /\ ~Usable) ~> (Usable \/ teardown)
=============================================================================
