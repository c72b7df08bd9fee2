---------------------------- MODULE CacheProofs -----------------------------
(***************************************************************************)
(* Proofs about CacheClient, for any number of users, subscriptions, calls *)
(* of Disconnect and faults, and about CacheLock, for any number of        *)
(* clients and any durations.  The two share nothing but the package.      *)
(***************************************************************************)
EXTENDS CacheClient, CacheLock, FiniteSetTheorems, TLAPS

(* The bound on clients is a number, so their numbers are too.              *)
LEMMA ClientsAreNumbered == MaxClients \in Nat /\ 1 <= MaxClients /\ ClientIds \subseteq Nat
<1>1. Cardinality(Disconnects) \in Nat
  BY CacheClientAssumption, FS_CardinalityType DEF CacheClientAssumption
<1> QED
  BY <1>1, CacheClientAssumption DEF CacheClientAssumption, MaxClients, ClientIds

(* The initial state, told apart by the facts that need arithmetic.         *)
LEMMA InitTypes == Init => TypeOK
<1> SUFFICES ASSUME Init PROVE TypeOK
  OBVIOUS
<1>1. 0 \in 0 .. MaxClients /\ 0 \in 0 .. MaxFaults /\ 0 \in 0 .. 0
  BY CacheClientAssumption, ClientsAreNumbered DEF CacheClientAssumption
<1>2. /\ made \in 0 .. MaxClients /\ valcli \in 0 .. made /\ client \in 0 .. made
      /\ late \in Nat /\ faults \in 0 .. MaxFaults
  BY <1>1 DEF Init
<1>3. op \in [Users -> 0 .. made] /\ sub \in [Subscribers -> 0 .. made]
  BY <1>1 DEF Init
<1> QED
  BY <1>2, <1>3 DEF Init, TypeOK, HealthStates

-----------------------------------------------------------------------------
(* Every state has the types TypeOK gives it.  In particular neither field  *)
(* is nil once NewCache has returned, so Disconnect always closes a client. *)
THEOREM TypeCorrect == Spec => []TypeOK
<1>1. TypeOK /\ [Next]_vars => TypeOK'
  <2> SUFFICES ASSUME TypeOK, [Next]_vars PROVE TypeOK'
    OBVIOUS
  <2> USE DEF HealthStates, healthVars, useVars, leaveVars
  <2>1. /\ MaxClients \in Nat /\ ClientIds = 1 .. MaxClients
        /\ made \in Nat /\ made <= MaxClients
        /\ valcli \in 0 .. made /\ client \in 0 .. made
        /\ MaxFaults \in Nat /\ faults \in 0 .. MaxFaults
    BY ClientsAreNumbered, CacheClientAssumption DEF TypeOK, ClientIds, CacheClientAssumption
  <2>2. Fault => faults' \in 0 .. MaxFaults
    BY <2>1 DEF Fault
  <2>3. CASE Check \/ PingSucceeds \/ Wake
    BY <2>3 DEF Check, PingSucceeds, Wake, TypeOK
  <2>4. CASE PingFails
    BY <2>2, <2>4 DEF PingFails, TypeOK
  <2>5. CASE Create
    <3>1. /\ made' = made + 1 /\ made' \in 0 .. MaxClients /\ made' \in ClientIds
          /\ made' # 0 /\ 0 .. made \subseteq 0 .. made'
      BY <2>1, <2>5 DEF Create
    <3>2. /\ valcli' \in 0 .. made' /\ client' \in 0 .. made'
          /\ op' \in [Users -> 0 .. made'] /\ sub' \in [Subscribers -> 0 .. made']
      BY <2>5, <3>1 DEF Create, TypeOK
    <3>3. clients' \in [ClientIds -> {"absent", "open", "closed"}]
      BY <2>5, <3>1 DEF Create, TypeOK
    <3> QED
      BY <2>5, <3>1, <3>2, <3>3 DEF Create, TypeOK
  <2>6. CASE CreateFails \/ PingNewFails
    BY <2>2, <2>6 DEF CreateFails, PingNewFails, ConnectFails, TypeOK
  <2>7. CASE PingNewSucceeds
    BY <2>7 DEF PingNewSucceeds, TypeOK
  <2>8. CASE StoreValcli
    <3>1. valcli' \in 0 .. made /\ valcli' # 0
      BY <2>1, <2>8 DEF StoreValcli, TypeOK
    <3> QED
      BY <2>8, <3>1 DEF StoreValcli, TypeOK
  <2>9. CASE StoreClient
    <3>1. client' \in 0 .. made /\ client' # 0 /\ late' \in Nat
      BY <2>1, <2>9 DEF StoreClient, TypeOK
    <3> QED
      BY <2>9, <3>1 DEF StoreClient, TypeOK
  <2>10. CASE Use
    <3>1. ASSUME NEW u \in Users, ReadClient(u) \/ Served(u) \/ Refused(u)
          PROVE  TypeOK'
      <4>1. op' \in [Users -> 0 .. made]
        BY <2>1, <3>1 DEF ReadClient, Served, Refused, TypeOK
      <4> QED
        BY <3>1, <4>1 DEF ReadClient, Served, Refused, TypeOK
    <3>2. ASSUME NEW s \in Subscribers, Subscribe(s) \/ Receive(s) \/ CallbackReturns(s)
          PROVE  TypeOK'
      BY <2>1, <3>2 DEF Subscribe, Receive, CallbackReturns, TypeOK
    <3> QED
      BY <2>10, <3>1, <3>2 DEF Use
  <2>11. ASSUME NEW d \in Disconnects, Flag(d) \/ CloseValcli(d)
         PROVE  TypeOK'
    <3>1. CASE Flag(d)
      <4>1. teardown' \in BOOLEAN
        BY <3>1 DEF Flag, TypeOK
      <4> QED
        BY <3>1, <4>1 DEF Flag, TypeOK
    <3>2. CASE CloseValcli(d)
      BY <2>1, <3>2 DEF CloseValcli, TypeOK
    <3> QED
      BY <2>11, <3>1, <3>2
  <2>12. CASE UNCHANGED vars
    BY <2>12 DEF vars, TypeOK
  <2> QED
    BY <2>3, <2>4, <2>5, <2>6, <2>7, <2>8, <2>9, <2>10, <2>11, <2>12
    DEF Next, Connect, Health, Leave
<1> QED
  BY InitTypes, <1>1, PTL DEF Spec

-----------------------------------------------------------------------------
(* A reconnect under way when isTeardown was set stores one client; then the*)
(* goroutine finds the flag set before it begins another.                   *)
LateInv ==
  /\ late \in {0, 1}
  /\ late = 1 => teardown /\ health \in {"sleep", "check", "stopped"}

(* No more than one client is stored after isTeardown has been set.         *)
THEOREM LateClientBound == Spec => []OneLateClient
<1>1. Init => LateInv
  BY DEF Init, LateInv
<1>2. LateInv /\ [Next]_vars => LateInv'
  <2> SUFFICES ASSUME LateInv, [Next]_vars PROVE LateInv'
    OBVIOUS
  <2> USE DEF healthVars, useVars, leaveVars
  <2>1. CASE Health
    BY <2>1 DEF Health, Check, PingSucceeds, PingFails, Wake, LateInv
  <2>2. CASE Create \/ PingNewSucceeds \/ StoreValcli
    BY <2>2 DEF Create, PingNewSucceeds, StoreValcli, LateInv
  <2>3. CASE CreateFails \/ PingNewFails
    BY <2>3 DEF CreateFails, PingNewFails, ConnectFails, LateInv
  <2>4. CASE StoreClient
    <3>1. late = 0
      BY <2>4 DEF StoreClient, LateInv
    <3>2. CASE cache = "connecting"
      BY <2>4, <3>1, <3>2 DEF StoreClient, LateInv
    <3>3. CASE cache # "connecting"
      BY <2>4, <3>1, <3>3 DEF StoreClient, LateInv
    <3> QED
      BY <3>2, <3>3
  <2>5. CASE Use
    BY <2>5 DEF Use, ReadClient, Served, Refused, Subscribe, Receive, CallbackReturns, LateInv
  <2>6. CASE Leave
    <3>1. late' = late /\ health' = health
      BY <2>6 DEF Leave, Flag, CloseValcli
    <3>2. teardown => teardown'
      BY <2>6 DEF Leave, Flag, CloseValcli
    <3> QED
      BY <3>1, <3>2 DEF LateInv
  <2>7. CASE UNCHANGED vars
    BY <2>7 DEF vars, LateInv
  <2> QED
    BY <2>1, <2>2, <2>3, <2>4, <2>5, <2>6, <2>7 DEF Next, Connect
<1>3. LateInv => OneLateClient
  BY DEF LateInv, OneLateClient
<1> QED
  BY <1>1, <1>2, <1>3, PTL DEF Spec

-----------------------------------------------------------------------------
(* The fields agree but between their stores, when valcli is the new client.*)
(* A Disconnect that has set isTeardown and returned closed the client that *)
(* both hold, while no other was stored.                                    *)
PairInv ==
  /\ health = "storeClient" => valcli = made
  /\ health # "storeClient" => valcli = client

ClosedInv ==
  /\ TypeOK /\ PairInv
  /\ \A d \in Final : leave[d] # "none" => teardown
  /\ \A d \in Disconnects : leave[d] # "none" => cache = "ready"
  /\ TornDown /\ late = 0 /\ health # "storeClient" => clients[client] = "closed"

(* Once Disconnect has returned, c.client is closed, unless a reconnect that*)
(* was under way stored another client.                                     *)
THEOREM ClosedByDisconnect == Spec => []DisconnectCloses
<1>1. TypeOK /\ Init => ClosedInv
  BY CacheClientAssumption DEF Init, ClosedInv, PairInv, TornDown, CacheClientAssumption
<1>2. TypeOK' /\ ClosedInv /\ [Next]_vars => ClosedInv'
  <2> SUFFICES ASSUME TypeOK', ClosedInv, [Next]_vars PROVE ClosedInv'
    OBVIOUS
  <2> USE DEF healthVars, useVars, leaveVars
  <2>0. /\ MaxClients \in Nat /\ ClientIds = 1 .. MaxClients /\ Final \subseteq Disconnects
        /\ made \in Nat /\ client \in 0 .. made /\ valcli \in 0 .. made /\ late \in Nat
        /\ cache = "ready" => client \in ClientIds /\ valcli \in ClientIds
        /\ clients \in [ClientIds -> {"absent", "open", "closed"}]
        /\ leave \in [Disconnects -> {"none", "flagged", "returned"}]
    BY CacheClientAssumption, ClientsAreNumbered
    DEF CacheClientAssumption, ClientIds, ClosedInv, TypeOK
  <2>1. TornDown => cache = "ready" /\ teardown
    BY <2>0 DEF ClosedInv, TornDown
  <2>2. CASE Health
    BY <2>2 DEF Health, Check, PingSucceeds, PingFails, Wake, ClosedInv, PairInv, TornDown
  <2>3. CASE Create
    <3>1. TornDown => clients'[client] = clients[client]
      <4>1. made' = made + 1 /\ clients' = [clients EXCEPT ![made'] = "open"]
        BY <2>3 DEF Create
      <4>2. client # made'
        BY <2>0, <4>1
      <4> QED
        BY <2>0, <2>1, <4>1, <4>2
    <3> QED
      BY <2>3, <3>1 DEF Create, ClosedInv, PairInv, TornDown
  <2>4. CASE CreateFails \/ PingNewFails \/ PingNewSucceeds
    BY <2>4 DEF CreateFails, PingNewFails, PingNewSucceeds, ConnectFails, ClosedInv, PairInv, TornDown
  <2>5. CASE StoreValcli
    BY <2>5 DEF StoreValcli, ClosedInv, PairInv, TornDown
  <2>6. CASE StoreClient
    <3>1. TornDown' => late' # 0
      <4>1. TornDown' => TornDown
        BY <2>6 DEF StoreClient, TornDown
      <4> QED
        BY <2>0, <2>1, <2>6, <4>1 DEF StoreClient
    <3>2. PairInv'
      BY <2>6 DEF StoreClient, ClosedInv, PairInv
    <3> QED
      BY <2>6, <3>1, <3>2 DEF StoreClient, ClosedInv
  <2>7. CASE Use
    BY <2>7 DEF Use, ReadClient, Served, Refused, Subscribe, Receive, CallbackReturns,
                ClosedInv, PairInv, TornDown
  <2>8. ASSUME NEW d \in Disconnects, Flag(d)
        PROVE  ClosedInv'
    <3>1. TornDown' => TornDown
      BY <2>0, <2>8 DEF Flag, TornDown
    <3> QED
      BY <2>0, <2>8, <3>1 DEF Flag, ClosedInv, PairInv
  <2>9. ASSUME NEW d \in Disconnects, CloseValcli(d)
        PROVE  ClosedInv'
    <3>1. cache = "ready" /\ clients'[valcli] = "closed"
      BY <2>0, <2>9 DEF CloseValcli, ClosedInv
    <3>2. health # "storeClient" => clients'[client] = "closed"
      BY <3>1 DEF ClosedInv, PairInv
    <3> QED
      BY <2>0, <2>9, <3>2 DEF CloseValcli, ClosedInv, PairInv
  <2>10. CASE UNCHANGED vars
    BY <2>10 DEF vars, ClosedInv, PairInv, TornDown
  <2> QED
    BY <2>2, <2>3, <2>4, <2>5, <2>6, <2>7, <2>8, <2>9, <2>10 DEF Next, Connect, Leave
<1>3. ClosedInv => DisconnectCloses
  BY DEF ClosedInv, PairInv, DisconnectCloses
<1> QED
  BY <1>1, <1>2, <1>3, TypeCorrect, PTL DEF Spec

-----------------------------------------------------------------------------
(* How many clients there are                                               *)

OpenClients == {i \in ClientIds : clients[i] = "open"}
ClosedClients == {i \in ClientIds : clients[i] = "closed"}

(* The closed clients; without the one in c.client; without the last one.   *)
Closed == Cardinality(ClosedClients)
ClosedBefore == Cardinality(ClosedClients \ {client})
ClosedEarlier == Cardinality(ClosedClients \ {made})

Gone == {d \in Disconnects : leave[d] = "returned"}

ClientsInv ==
  /\ cache = "failed" => health = "stopped"
  /\ health \in {"check", "ping", "sleep"} => cache = "ready"
  /\ \A i \in ClientIds : clients[i] = "absent" <=> i > made
  /\ health \in {"pingNew", "storeValcli"} => valcli # made /\ clients[made] = "open"
  /\ \A d \in Disconnects : leave[d] # "none" => cache = "ready"
  /\ PairInv

(* Every client is the first, or was paid for by a fault or by a Disconnect *)
(* that closed the client before it.                                        *)
CountInv ==
  /\ Closed <= Cardinality(Gone)
  /\ health \in {"check", "ping", "sleep", "stopped"} => made <= 1 + faults + ClosedBefore
  /\ health = "create" => made <= faults + Closed
  /\ health \in {"pingNew", "storeValcli"} => made <= 1 + faults + Closed
  /\ health = "storeClient" => made <= 1 + faults + ClosedEarlier

LEMMA ClosedAreCounted ==
  /\ IsFiniteSet(ClosedClients) /\ Closed \in Nat
  /\ ClosedBefore \in Nat /\ ClosedEarlier \in Nat
  /\ Closed = IF client \in ClosedClients THEN ClosedBefore + 1 ELSE ClosedBefore
  /\ Closed = IF made \in ClosedClients THEN ClosedEarlier + 1 ELSE ClosedEarlier
<1>1. IsFiniteSet(ClientIds)
  BY ClientsAreNumbered, FS_Interval DEF ClientIds
<1>2. IsFiniteSet(ClosedClients)
  BY <1>1, FS_Subset DEF ClosedClients
<1>3. /\ IsFiniteSet(ClosedClients \ {client}) /\ IsFiniteSet(ClosedClients \ {made})
      /\ ClosedBefore = IF client \in ClosedClients THEN Closed - 1 ELSE Closed
      /\ ClosedEarlier = IF made \in ClosedClients THEN Closed - 1 ELSE Closed
  BY <1>2, FS_RemoveElement DEF Closed, ClosedBefore, ClosedEarlier
<1>4. Closed \in Nat /\ ClosedBefore \in Nat /\ ClosedEarlier \in Nat
  BY <1>2, <1>3, FS_CardinalityType DEF Closed, ClosedBefore, ClosedEarlier
<1> QED
  BY <1>2, <1>3, <1>4

LEMMA ClientsAreAccounted == Spec => []ClientsInv
<1>1. Init => ClientsInv
  BY ClientsAreNumbered DEF Init, ClientsInv, PairInv, ClientIds
<1>2. TypeOK /\ TypeOK' /\ ClientsInv /\ [Next]_vars => ClientsInv'
  <2> SUFFICES ASSUME TypeOK, TypeOK', ClientsInv, [Next]_vars PROVE ClientsInv'
    OBVIOUS
  <2> USE DEF healthVars, useVars, leaveVars
  <2>0. /\ MaxClients \in Nat /\ ClientIds = 1 .. MaxClients /\ made \in Nat
        /\ client \in 0 .. made /\ valcli \in 0 .. made
        /\ cache \in {"connecting", "ready", "failed"} /\ health \in HealthStates
        /\ cache = "ready" => valcli \in ClientIds
        /\ clients \in [ClientIds -> {"absent", "open", "closed"}]
        /\ leave \in [Disconnects -> {"none", "flagged", "returned"}]
    BY ClientsAreNumbered DEF ClientIds, TypeOK
  <2>1. CASE Health \/ Use \/ UNCHANGED vars
    BY <2>1 DEF Health, Check, PingSucceeds, PingFails, Wake, Use, ReadClient, Served, Refused,
                Subscribe, Receive, CallbackReturns, vars, ClientsInv, PairInv
  <2>2. CASE Create
    <3>1. /\ made' = made + 1 /\ made' \in ClientIds /\ clients' = [clients EXCEPT ![made'] = "open"]
          /\ leave' = leave /\ cache' = cache /\ valcli' = valcli /\ client' = client
          /\ health = "create" /\ health' = "pingNew"
      BY <2>0, <2>2 DEF Create
    <3>2. \A i \in ClientIds : clients'[i] = "absent" <=> i > made'
      BY <2>0, <3>1 DEF ClientsInv
    <3>3. valcli' # made' /\ clients'[made'] = "open"
      BY <2>0, <3>1
    <3> QED
      BY <3>1, <3>2, <3>3 DEF ClientsInv, PairInv
  <2>3. CASE CreateFails \/ PingNewFails \/ PingNewSucceeds
    BY <2>0, <2>3 DEF CreateFails, PingNewFails, PingNewSucceeds, ConnectFails, ClientsInv, PairInv
  <2>4. CASE StoreValcli \/ StoreClient
    BY <2>0, <2>4 DEF StoreValcli, StoreClient, ClientsInv, PairInv
  <2>5. ASSUME NEW d \in Disconnects, Flag(d) PROVE ClientsInv'
    BY <2>0, <2>5 DEF Flag, ClientsInv, PairInv
  <2>6. ASSUME NEW d \in Disconnects, CloseValcli(d) PROVE ClientsInv'
    <3>1. /\ leave[d] = "flagged" /\ leave' = [leave EXCEPT ![d] = "returned"]
          /\ clients' = [clients EXCEPT ![valcli] = "closed"]
          /\ made' = made /\ valcli' = valcli /\ client' = client
          /\ cache' = cache /\ health' = health
      BY <2>6 DEF CloseValcli
    <3>2. cache = "ready" /\ valcli \in ClientIds
      BY <2>0, <3>1 DEF ClientsInv
    <3>3. \A i \in ClientIds : clients'[i] = "absent" <=> i > made'
      BY <2>0, <3>1, <3>2 DEF ClientsInv
    <3>4. health' \in {"pingNew", "storeValcli"} => valcli' # made' /\ clients'[made'] = "open"
      BY <2>0, <3>1 DEF ClientsInv
    <3> QED
      BY <3>1, <3>2, <3>3, <3>4 DEF ClientsInv, PairInv
  <2> QED
    BY <2>1, <2>2, <2>3, <2>4, <2>5, <2>6 DEF Next, Connect, Leave
<1> QED
  BY <1>1, <1>2, TypeCorrect, PTL DEF Spec

LEMMA ClientsAreCounted == Spec => []CountInv
<1>0. IsFiniteSet(Disconnects)
  BY CacheClientAssumption DEF CacheClientAssumption
<1>1. TypeOK /\ Init => CountInv
  <2> SUFFICES ASSUME TypeOK, Init PROVE CountInv
    OBVIOUS
  <2>1. ClosedClients = {} /\ Gone = {} /\ Cardinality({}) = 0
    BY FS_EmptySet DEF Init, ClosedClients, Gone
  <2> QED
    BY <2>1 DEF Init, CountInv, Closed
<1>2. TypeOK /\ TypeOK' /\ ClientsInv /\ CountInv /\ [Next]_vars => CountInv'
  <2> SUFFICES ASSUME TypeOK, TypeOK', ClientsInv, CountInv, [Next]_vars PROVE CountInv'
    OBVIOUS
  <2> USE DEF healthVars, useVars, leaveVars
  <2>0. /\ MaxClients \in Nat /\ ClientIds = 1 .. MaxClients /\ made \in Nat /\ faults \in Nat
        /\ client \in 0 .. made /\ valcli \in 0 .. made /\ health \in HealthStates
        /\ cache = "ready" => client \in ClientIds /\ valcli \in ClientIds
        /\ clients \in [ClientIds -> {"absent", "open", "closed"}]
        /\ leave \in [Disconnects -> {"none", "flagged", "returned"}]
    BY ClientsAreNumbered, CacheClientAssumption DEF ClientIds, TypeOK, CacheClientAssumption
  <2>1. Fault => faults' = faults + 1
    BY DEF Fault
  <2>2. ASSUME clients' = clients PROVE ClosedClients' = ClosedClients /\ Closed' = Closed
    BY <2>2 DEF ClosedClients, Closed
  <2>3. ASSUME leave' = leave PROVE Gone' = Gone
    BY <2>3 DEF Gone
  <2>4. ASSUME clients' = clients, client' = client PROVE ClosedBefore' = ClosedBefore
    BY <2>2, <2>4 DEF ClosedBefore
  <2>5. ASSUME clients' = clients, made' = made PROVE ClosedEarlier' = ClosedEarlier
    BY <2>2, <2>5 DEF ClosedEarlier
  <2>6. CASE Check \/ PingSucceeds \/ Wake \/ Use \/ UNCHANGED vars
    <3>1. /\ clients' = clients /\ leave' = leave /\ client' = client /\ made' = made
          /\ faults' = faults
          /\ \/ health' = health
             \/ {health, health'} \subseteq {"check", "ping", "sleep", "stopped"}
      BY <2>6 DEF Check, PingSucceeds, Wake, Use, ReadClient, Served, Refused, Subscribe,
                  Receive, CallbackReturns, vars
    <3> QED
      BY <2>2, <2>3, <2>4, <2>5, <3>1 DEF CountInv
  <2>7. CASE PingFails
    <3>1. /\ clients' = clients /\ leave' = leave /\ made' = made
          /\ health = "ping" /\ health' = "create"
          /\ IF clients[client] = "open" THEN faults' = faults + 1 ELSE faults' = faults
      BY <2>1, <2>7 DEF PingFails
    <3>2. made <= 1 + faults + ClosedBefore
      BY <3>1 DEF CountInv
    <3>3. clients[client] = "open" \/ client \in ClosedClients
      BY <2>0, <3>1 DEF ClientsInv, ClosedClients
    <3>4. made' <= faults' + Closed'
      BY <2>0, <2>2, <3>1, <3>2, <3>3, ClosedAreCounted
    <3> QED
      BY <2>2, <2>3, <3>1, <3>4 DEF CountInv
  <2>8. CASE Create
    <3>1. /\ made' = made + 1 /\ faults' = faults /\ leave' = leave
          /\ health = "create" /\ health' = "pingNew"
          /\ made < MaxClients /\ clients' = [clients EXCEPT ![made'] = "open"]
      BY <2>8 DEF Create
    <3>2. clients[made'] = "absent" /\ made' \in ClientIds
      BY <2>0, <3>1 DEF ClientsInv
    <3>3. Closed' = Closed
      <4>1. ClosedClients' = ClosedClients
        BY <2>0, <3>1, <3>2 DEF ClosedClients
      <4> QED
        BY <4>1 DEF Closed
    <3>4. made <= faults + Closed
      BY <3>1 DEF CountInv
    <3>5. made' <= 1 + faults' + Closed'
      BY <2>0, <3>1, <3>3, <3>4, ClosedAreCounted
    <3> QED
      BY <2>3, <3>1, <3>3, <3>5 DEF CountInv
  <2>9. CASE CreateFails \/ PingNewFails
    <3>1. /\ clients' = clients /\ leave' = leave /\ client' = client /\ made' = made
          /\ faults' = faults + 1
          /\ health \in {"create", "pingNew"} /\ health' \in {"stopped", "sleep"}
      BY <2>1, <2>9 DEF CreateFails, PingNewFails, ConnectFails
    <3>2. made <= faults + Closed \/ made <= 1 + faults + Closed
      BY <3>1 DEF CountInv
    <3>3. made' <= 1 + faults' + ClosedBefore'
      BY <2>0, <2>4, <3>1, <3>2, ClosedAreCounted
    <3> QED
      BY <2>2, <2>3, <3>1, <3>3 DEF CountInv
  <2>10. CASE PingNewSucceeds
    <3>1. /\ clients' = clients /\ leave' = leave /\ made' = made /\ faults' = faults
          /\ health = "pingNew" /\ health' = "storeValcli"
      BY <2>10 DEF PingNewSucceeds
    <3> QED
      BY <2>2, <2>3, <3>1 DEF CountInv
  <2>11. CASE StoreValcli
    <3>1. /\ clients' = clients /\ leave' = leave /\ made' = made /\ faults' = faults
          /\ health = "storeValcli" /\ health' = "storeClient"
      BY <2>11 DEF StoreValcli
    <3>2. made \notin ClosedClients
      BY <3>1 DEF ClientsInv, ClosedClients
    <3>3. ClosedEarlier' = Closed
      BY <2>5, <3>1, <3>2, ClosedAreCounted
    <3> QED
      BY <2>2, <2>3, <3>1, <3>3 DEF CountInv
  <2>12. CASE StoreClient
    <3>1. /\ clients' = clients /\ leave' = leave /\ made' = made /\ faults' = faults
          /\ client' = made /\ health = "storeClient" /\ health' \in {"check", "sleep"}
      BY <2>12 DEF StoreClient
    <3>2. ClosedBefore' = ClosedEarlier
      BY <2>2, <3>1 DEF ClosedBefore, ClosedEarlier
    <3> QED
      BY <2>2, <2>3, <3>1, <3>2 DEF CountInv
  <2>13. ASSUME NEW d \in Disconnects, Flag(d) PROVE CountInv'
    <3>1. /\ clients' = clients /\ client' = client /\ made' = made /\ faults' = faults
          /\ health' = health
      BY <2>13 DEF Flag
    <3>2. Gone' = Gone
      BY <2>0, <2>13 DEF Flag, Gone
    <3> QED
      BY <2>2, <2>4, <2>5, <3>1, <3>2 DEF CountInv
  <2>14. ASSUME NEW d \in Disconnects, CloseValcli(d) PROVE CountInv'
    <3>1. /\ leave[d] = "flagged" /\ leave' = [leave EXCEPT ![d] = "returned"]
          /\ clients' = [clients EXCEPT ![valcli] = "closed"]
          /\ made' = made /\ valcli' = valcli /\ client' = client
          /\ health' = health /\ faults' = faults
      BY <2>14 DEF CloseValcli
    <3>2. valcli \in ClientIds
      BY <2>0, <3>1 DEF ClientsInv
    <3>3. ClosedClients' = ClosedClients \cup {valcli}
      BY <2>0, <3>1, <3>2 DEF ClosedClients
    <3>4. Gone' = Gone \cup {d} /\ d \notin Gone
      BY <2>0, <3>1 DEF Gone
    <3>5. PICK a \in Nat, b \in Nat :
            a = Closed /\ b = Closed' /\ a <= b /\ b <= a + 1
      <4>1. Closed' = IF valcli \in ClosedClients THEN Closed ELSE Closed + 1
        BY <3>3, ClosedAreCounted, FS_AddElement DEF Closed
      <4>2. Closed \in Nat
        BY ClosedAreCounted
      <4> QED
        BY <4>1, <4>2
    <3>6. Closed' <= Cardinality(Gone')
      <4>1. IsFiniteSet(Gone)
        BY <1>0, FS_Subset DEF Gone
      <4>2. Cardinality(Gone') = Cardinality(Gone) + 1 /\ Cardinality(Gone) \in Nat
        BY <3>4, <4>1, FS_AddElement, FS_CardinalityType
      <4>3. PICK n \in Nat : n = Cardinality(Gone) /\ a <= n
        BY <3>5, <4>2 DEF CountInv
      <4>4. b <= n + 1
        BY <3>5, <4>3
      <4> QED
        BY <3>5, <4>2, <4>3, <4>4
    <3>7. health = "storeClient" => ClosedEarlier' = ClosedEarlier
      BY <3>1, <3>3 DEF ClientsInv, PairInv, ClosedEarlier
    <3>8. health # "storeClient" => ClosedBefore' = ClosedBefore
      BY <3>1, <3>3 DEF ClientsInv, PairInv, ClosedBefore
    <3>9. /\ made <= faults + a => made <= faults + b
          /\ made <= 1 + faults + a => made <= 1 + faults + b
      <4>1. a <= b /\ made \in Nat /\ faults \in Nat
        BY <2>0, <3>5
      <4> QED
        BY <4>1
    <3>10. /\ health' = "create" => made' <= faults' + Closed'
           /\ health' \in {"pingNew", "storeValcli"} => made' <= 1 + faults' + Closed'
      BY <3>1, <3>5, <3>9 DEF CountInv
    <3> QED
      BY <3>1, <3>6, <3>7, <3>8, <3>10 DEF CountInv
  <2> QED
    BY <2>6, <2>7, <2>8, <2>9, <2>10, <2>11, <2>12, <2>13, <2>14
    DEF Next, Connect, Health, Leave
<1> QED
  BY <1>1, <1>2, TypeCorrect, ClientsAreAccounted, PTL DEF Spec

(* A reconnect does not close the client it replaces, but each client left  *)
(* open is the trace of a fault, for any number of Disconnects and faults.  *)
THEOREM ClientsLeakByFault == Spec => [](Cardinality(OpenClients) <= 1 + faults)
<1>1. TypeOK /\ ClientsInv /\ CountInv => Cardinality(OpenClients) <= 1 + faults
  <2> SUFFICES ASSUME TypeOK, ClientsInv, CountInv
               PROVE  Cardinality(OpenClients) <= 1 + faults
    OBVIOUS
  <2>0. /\ MaxClients \in Nat /\ ClientIds = 1 .. MaxClients /\ made \in 0 .. MaxClients
        /\ faults \in Nat /\ health \in HealthStates
        /\ clients \in [ClientIds -> {"absent", "open", "closed"}]
    BY ClientsAreNumbered, CacheClientAssumption DEF ClientIds, TypeOK, CacheClientAssumption
  <2>1. OpenClients \cup ClosedClients = 1 .. made /\ OpenClients \cap ClosedClients = {}
    BY <2>0 DEF ClientsInv, OpenClients, ClosedClients
  <2>2. IsFiniteSet(OpenClients) /\ IsFiniteSet(ClosedClients)
    <3>1. IsFiniteSet(ClientIds)
      BY <2>0, FS_Interval
    <3> QED
      BY <3>1, FS_Subset DEF OpenClients, ClosedClients
  <2>3. Cardinality(1 .. made) = made
    BY <2>0, FS_Interval
  <2>4. Cardinality(OpenClients \cup ClosedClients) =
          Cardinality(OpenClients) + Cardinality(ClosedClients)
             - Cardinality(OpenClients \cap ClosedClients)
    BY <2>2, FS_Union
  <2>5. /\ Cardinality(OpenClients \cap ClosedClients) = 0
        /\ Cardinality(OpenClients) \in Nat /\ Cardinality(ClosedClients) \in Nat
    BY <2>1, <2>2, FS_EmptySet, FS_CardinalityType
  <2>6. Cardinality(OpenClients) + Closed = made
    <3>1. made = Cardinality(OpenClients) + Cardinality(ClosedClients) - 0
      BY ONLY <2>1, <2>3, <2>4, <2>5
    <3> QED
      BY <2>5, <3>1 DEF Closed
  <2>7. made <= 1 + faults + Closed
    BY <2>0, ClosedAreCounted DEF CountInv, HealthStates
  <2> QED
    BY <2>0, <2>5, <2>6, <2>7, ClosedAreCounted
<1> QED
  BY <1>1, TypeCorrect, ClientsAreAccounted, ClientsAreCounted, PTL

(* MaxClients is no restriction: wherever the code goes on to make a client *)
(* the model has one left.                                                  *)
THEOREM MaxClientsIsEnough == Spec => [](health = "create" => made < MaxClients)
<1>1. TypeOK /\ CountInv => (health = "create" => made < MaxClients)
  <2> SUFFICES ASSUME TypeOK, CountInv, health = "create" PROVE made < MaxClients
    OBVIOUS
  <2>1. /\ made \in Nat /\ faults \in Nat /\ MaxFaults \in Nat /\ faults <= MaxFaults
        /\ Closed \in Nat
    BY ClientsAreNumbered, CacheClientAssumption, ClosedAreCounted DEF TypeOK, CacheClientAssumption
  <2>2. made <= faults + Closed /\ Closed <= Cardinality(Gone)
    BY DEF CountInv
  <2>3. /\ Cardinality(Gone) <= Cardinality(Disconnects)
        /\ Cardinality(Gone) \in Nat /\ Cardinality(Disconnects) \in Nat
    BY CacheClientAssumption, FS_Subset, FS_CardinalityType DEF CacheClientAssumption, Gone
  <2> QED
    BY <2>1, <2>2, <2>3 DEF MaxClients
<1> QED
  BY <1>1, TypeCorrect, ClientsAreCounted, PTL

-----------------------------------------------------------------------------
(* The lock                                                                 *)

(* Every state has the types LockTypeOK gives it, punctual clients or not.  *)
THEOREM LockTypeCorrect == LockSpec => []LockTypeOK
<1>1. LockInit => LockTypeOK
  BY DEF LockInit, LockTypeOK, States
<1>2. LockTypeOK /\ [LockNext]_lockVars => LockTypeOK'
  <2> SUFFICES ASSUME LockTypeOK, [LockNext]_lockVars PROVE LockTypeOK'
    OBVIOUS
  <2> USE DEF LockTypeOK, States
  <2>1. ASSUME NEW c \in Clients, NEW t \in Durations, CallLock(c, t)
        PROVE  LockTypeOK'
    <3>1. t \in Nat
      BY CacheLockAssumption DEF CacheLockAssumption
    <3> QED
      BY <2>1, <3>1 DEF CallLock
  <2>2. ASSUME NEW c \in Clients, SetNX(c)
        PROVE  LockTypeOK'
    BY <2>2, CacheLockAssumption DEF SetNX, CacheLockAssumption
  <2>3. ASSUME NEW c \in Clients, SetNXDenied(c) \/ LockReturns(c) \/ LockFails(c)
        PROVE  LockTypeOK'
    BY <2>3 DEF SetNXDenied, LockReturns, LockFails
  <2>4. ASSUME NEW c \in Clients, CallUnlock(c) \/ Del(c) \/ Abandon(c)
        PROVE  LockTypeOK'
    BY <2>4 DEF CallUnlock, Del, Abandon
  <2>5. CASE Tick
    <3>1. \A n \in Nat : Less(n) \in Nat
      BY DEF Less
    <3>2. ttl' = 0 \/ key' # Nobody
      BY <2>5 DEF Tick, Less
    <3> QED
      BY <2>5, <3>1, <3>2 DEF Tick
  <2>6. CASE UNCHANGED lockVars
    BY <2>6 DEF lockVars
  <2> QED
    BY <2>1, <2>2, <2>3, <2>4, <2>5, <2>6 DEF LockNext, Step
<1> QED
  BY <1>1, <1>2, PTL DEF LockSpec

-----------------------------------------------------------------------------
(* Whoever has the lock is the one that set the key, and the key lives as   *)
(* long as the lease.  It is this that Unlock, which asks nothing, needs.   *)
HolderInv == \A c \in Clients : Holds(c) => key = c /\ ttl = lease[c]

LEMMA HoldersSetTheKey == ASSUME Punctual PROVE LockSpec => []HolderInv
<1>1. LockInit => HolderInv
  BY DEF LockInit, HolderInv, Holds
<1>2. LockTypeOK /\ LockTypeOK' /\ HolderInv /\ [LockNext]_lockVars => HolderInv'
  <2> SUFFICES ASSUME LockTypeOK, LockTypeOK', HolderInv, [LockNext]_lockVars,
                      NEW d \in Clients, Holds(d)'
               PROVE  key' = d /\ ttl' = lease'[d]
    BY DEF HolderInv
  <2>0. /\ Nobody \notin Clients
        /\ state \in [Clients -> States] /\ lease \in [Clients -> Nat] /\ ttl \in Nat
    BY CacheLockAssumption DEF CacheLockAssumption, LockTypeOK
  <2>1. ASSUME NEW c \in Clients, NEW t \in Durations, CallLock(c, t)
        PROVE  key' = d /\ ttl' = lease'[d]
    BY <2>0, <2>1 DEF CallLock, HolderInv, Holds
  <2>2. ASSUME NEW c \in Clients, SetNX(c)
        PROVE  key' = d /\ ttl' = lease'[d]
    <3>1. CASE d = c
      BY <2>0, <2>2, <3>1 DEF SetNX
    <3>2. CASE d # c
      BY <2>0, <2>2, <3>2 DEF SetNX, HolderInv, Holds
    <3> QED
      BY <3>1, <3>2
  <2>3. ASSUME NEW c \in Clients, SetNXDenied(c) \/ LockReturns(c) \/ LockFails(c)
        PROVE  key' = d /\ ttl' = lease'[d]
    <3>1. Holds(d) /\ lease'[d] = lease[d]
      BY <2>0, <2>3 DEF SetNXDenied, LockReturns, LockFails, Holds
    <3> QED
      BY <2>3, <3>1 DEF SetNXDenied, LockReturns, LockFails, HolderInv
  <2>4. ASSUME NEW c \in Clients, CallUnlock(c) \/ Abandon(c)
        PROVE  key' = d /\ ttl' = lease'[d]
    <3>1. Holds(d) /\ lease'[d] = lease[d]
      BY <2>0, <2>4 DEF CallUnlock, Abandon, Holds
    <3> QED
      BY <2>4, <3>1 DEF CallUnlock, Abandon, HolderInv
  <2>5. ASSUME NEW c \in Clients, Del(c)
        PROVE  key' = d /\ ttl' = lease'[d]
    <3>1. c # d /\ Holds(d) /\ Holds(c)
      BY <2>0, <2>5 DEF Del, Holds
    <3> QED
      BY <3>1 DEF HolderInv
  <2>6. CASE Tick
    <3>1. Holds(d) /\ lease[d] # 1 /\ lease'[d] = Less(lease[d])
      BY <2>6 DEF Tick, Holds
    <3> QED
      BY <2>6, <3>1 DEF Tick, HolderInv
  <2>7. CASE UNCHANGED lockVars
    BY <2>7 DEF lockVars, HolderInv, Holds
  <2> QED
    BY <2>1, <2>2, <2>3, <2>4, <2>5, <2>6, <2>7 DEF LockNext, Step
<1> QED
  BY <1>1, <1>2, LockTypeCorrect, PTL DEF LockSpec

(* Punctual clients exclude one another, however many there are, whatever   *)
(* durations they ask for and whichever commands and answers are lost.      *)
THEOREM LocksExclude == ASSUME Punctual PROVE LockSpec => []MutualExclusion
<1>1. HolderInv => MutualExclusion
  BY DEF HolderInv, MutualExclusion
<1> QED
  BY <1>1, HoldersSetTheKey, PTL

(* A SET NX under way is for one of the durations.                          *)
AsksInv == \A c \in Clients : state[c] = "locking" => asks[c] \in Durations

LEMMA AsksAreDurations == LockSpec => []AsksInv
<1>1. LockInit => AsksInv
  BY DEF LockInit, AsksInv
<1>2. LockTypeOK /\ AsksInv /\ [LockNext]_lockVars => AsksInv'
  BY DEF LockTypeOK, AsksInv, LockNext, Tick, Step, CallLock, SetNX, SetNXDenied, LockReturns,
         LockFails, CallUnlock, Del, Abandon, lockVars
<1> QED
  BY <1>1, <1>2, LockTypeCorrect, PTL DEF LockSpec

(* Punctual clients see a Lease.  The holder in it is whoever set the key,  *)
(* and its term is what the server counts down.                             *)
THEOREM LeaseIsKept == ASSUME Punctual PROVE LockSpec => LeaseKept
<1> DEFINE Having == {c \in Clients : Holds(c)}
<1>1. LockInit => Promise!LeaseInit
  BY DEF LockInit, Promise!LeaseInit, Holds
<1>2. LockTypeOK /\ HolderInv /\ AsksInv /\ [LockNext]_lockVars
        => [Promise!LeaseNext]_(Promise!leaseVars)
  <2> SUFFICES ASSUME LockTypeOK, HolderInv, AsksInv, [LockNext]_lockVars
               PROVE  [Promise!LeaseNext]_(Promise!leaseVars)
    OBVIOUS
  <2>0. /\ Nobody \notin Clients
        /\ state \in [Clients -> States] /\ lease \in [Clients -> Nat]
        /\ ttl \in Nat /\ (key = Nobody => ttl = 0)
    BY CacheLockAssumption DEF CacheLockAssumption, LockTypeOK
  <2>1. ASSUME NEW c \in Clients, Holds(c) PROVE Having = {c} /\ key = c /\ ttl = lease[c]
    BY <2>1 DEF HolderInv
  <2>2. ASSUME Having' = Having, (key' = Nobody) <=> (key = Nobody), ttl' = ttl
        PROVE  UNCHANGED Promise!leaseVars
    BY <2>2 DEF Promise!leaseVars
  <2>3. ASSUME NEW c \in Clients, Holds(c), Having' = {}, key' = key, ttl' = ttl
        PROVE  Promise!Leave(c)
    BY <2>1, <2>3 DEF Promise!Leave
  <2>4. ASSUME NEW c \in Clients, NEW t \in Durations, CallLock(c, t)
        PROVE  UNCHANGED Promise!leaseVars
    <3>1. Having' = Having
      BY <2>0, <2>4 DEF CallLock, Holds
    <3> QED
      BY <2>2, <2>4, <3>1 DEF CallLock
  <2>5. ASSUME NEW c \in Clients, SetNX(c)
        PROVE  Promise!Grant(c, asks[c]) /\ asks[c] \in Durations
    <3>1. Having = {}
      BY <2>0, <2>1, <2>5 DEF SetNX
    <3>2. Having' = {c}
      BY <2>0, <2>5, <3>1 DEF SetNX, Holds
    <3> QED
      BY <2>0, <2>5, <3>1, <3>2 DEF SetNX, AsksInv, Promise!Grant
  <2>6. ASSUME NEW c \in Clients, SetNXDenied(c) \/ LockReturns(c) \/ CallUnlock(c)
        PROVE  UNCHANGED Promise!leaseVars
    <3>1. Having' = Having
      BY <2>0, <2>6 DEF SetNXDenied, LockReturns, CallUnlock, Holds
    <3> QED
      BY <2>2, <2>6, <3>1 DEF SetNXDenied, LockReturns, CallUnlock
  <2>7. ASSUME NEW c \in Clients, LockFails(c) \/ Abandon(c)
        PROVE  Promise!Leave(c) \/ UNCHANGED Promise!leaseVars
    <3>1. /\ state' = [state EXCEPT ![c] = "idle"]
          /\ key' = key /\ ttl' = ttl
      BY <2>7 DEF LockFails, Abandon
    <3>2. Having' = Having \ {c}
      BY <2>0, <3>1 DEF Holds
    <3>3. CASE Holds(c)
      BY <2>1, <2>3, <3>1, <3>2, <3>3
    <3>4. CASE ~Holds(c)
      BY <2>2, <3>1, <3>2, <3>4
    <3> QED
      BY <3>3, <3>4
  <2>8. ASSUME NEW c \in Clients, Del(c)
        PROVE  Promise!GiveBack(c)
    <3>1. Holds(c)
      BY <2>8 DEF Del, Holds
    <3>2. Having' = {}
      BY <2>0, <2>1, <2>8, <3>1 DEF Del, Holds
    <3> QED
      BY <2>8, <3>1, <3>2 DEF Del, Promise!GiveBack
  <2>9. CASE Tick
    <3>1. Having' = Having
      BY <2>9 DEF Tick, Holds
    <3>2. CASE ttl = 0
      BY <2>2, <2>9, <3>1, <3>2 DEF Tick, Less
    <3>3. CASE ttl # 0
      <4>1. ttl = 1 => Having = {}
        BY <2>1, <2>9 DEF Tick
      <4>2. ttl' = ttl - 1 /\ (key' # Nobody <=> ttl # 1)
        BY <2>0, <2>9, <3>3 DEF Tick, Less
      <4>3. Promise!Pass
        BY <2>0, <3>1, <3>3, <4>1, <4>2 DEF Promise!Pass
      <4> QED
        BY <4>3 DEF Promise!LeaseNext
    <3> QED
      BY <3>2, <3>3
  <2>10. CASE UNCHANGED lockVars
    BY <2>2, <2>10 DEF lockVars, Holds
  <2> QED
    BY <2>4, <2>5, <2>6, <2>7, <2>8, <2>9, <2>10 DEF LockNext, Step, Promise!LeaseNext
<1> QED
  BY <1>1, <1>2, LockTypeCorrect, HoldersSetTheKey, AsksAreDurations, PTL
  DEF LockSpec, LeaseKept, Promise!LeaseSpec
=============================================================================
