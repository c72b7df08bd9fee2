--------------------------- MODULE DatabaseProofs ---------------------------
(***************************************************************************)
(* Proofs about Database for any number of users, calls of Disconnect and  *)
(* faults.                                                                 *)
(***************************************************************************)
EXTENDS Database, FiniteSetTheorems, TLAPS

(* The bound on pools is a number, so the numbers of pools are too.         *)
LEMMA PoolsAreNumbered == MaxPools \in Nat /\ 1 <= MaxPools /\ PoolIds \subseteq Nat
<1>1. Cardinality(Disconnects) \in Nat
  BY DatabaseAssumption, FS_CardinalityType DEF DatabaseAssumption
<1> QED
  BY <1>1, DatabaseAssumption DEF DatabaseAssumption, MaxPools, PoolIds

-----------------------------------------------------------------------------
(* Every state has the types TypeOK gives it.  In particular d.pool is never*)
(* nil once NewDatabase has returned the client.                            *)
THEOREM TypeCorrect == Spec => []TypeOK
<1>1. ASSUME Init PROVE TypeOK
  <2>1. /\ 0 \in 0 .. MaxPools /\ 0 \in 0 .. MaxFaults
        /\ 0 \in 0 .. 0 /\ {} \subseteq 1 .. 0
    BY DatabaseAssumption, PoolsAreNumbered DEF DatabaseAssumption
  <2>2. /\ fresh \in 0 .. MaxPools /\ current \in 0 .. fresh /\ migrated \subseteq 1 .. fresh
        /\ late \in Nat /\ faults \in 0 .. MaxFaults
    BY <1>1, <2>1 DEF Init
  <2>3. on \in [Users -> 0 .. fresh] /\ closes \in [Disconnects -> 0 .. fresh]
    BY <1>1, <2>1 DEF Init
  <2> QED
    BY <1>1, <2>2, <2>3 DEF Init, TypeOK, CheckerStates
<1>2. TypeOK /\ [Next]_vars => TypeOK'
  <2> SUFFICES ASSUME TypeOK, [Next]_vars PROVE TypeOK'
    OBVIOUS
  <2> USE DEF CheckerStates, checkVars, userVars, leaveVars
  <2>1. /\ MaxPools \in Nat /\ PoolIds = 1 .. MaxPools
        /\ fresh \in Nat /\ fresh <= MaxPools /\ current \in 0 .. fresh
        /\ MaxFaults \in Nat /\ faults \in 0 .. MaxFaults
    BY PoolsAreNumbered, DatabaseAssumption DEF TypeOK, PoolIds, DatabaseAssumption
  <2>2. Fault => faults' \in 0 .. MaxFaults
    BY <2>1 DEF Fault
  <2>3. CASE Check \/ PingSucceeds \/ Wake
    BY <2>3 DEF Check, PingSucceeds, Wake, TypeOK
  <2>4. CASE PingFails
    BY <2>2, <2>4 DEF PingFails, TypeOK
  <2>5. CASE NewPool
    <3>1. /\ fresh' = fresh + 1 /\ fresh' \in 0 .. MaxPools /\ fresh' \in PoolIds
          /\ 0 .. fresh \subseteq 0 .. fresh' /\ 1 .. fresh \subseteq 1 .. fresh'
      BY <2>1, <2>5 DEF NewPool
    <3>2. /\ current' \in 0 .. fresh' /\ migrated' \subseteq 1 .. fresh'
          /\ on' \in [Users -> 0 .. fresh'] /\ closes' \in [Disconnects -> 0 .. fresh']
      BY <2>5, <3>1 DEF NewPool, TypeOK
    <3>3. pools' \in [PoolIds -> {"absent", "open", "closing", "closed"}]
      BY <2>5, <3>1 DEF NewPool, TypeOK
    <3> QED
      BY <2>5, <3>1, <3>2, <3>3 DEF NewPool, TypeOK
  <2>6. CASE MigrateFails
    BY <2>2, <2>6 DEF MigrateFails, TypeOK
  <2>7. CASE MigrateSucceeds
    <3>1. migrated' \subseteq 1 .. fresh
      BY <2>1, <2>7 DEF MigrateSucceeds, TypeOK
    <3> QED
      BY <2>7, <3>1 DEF MigrateSucceeds, TypeOK
  <2>8. CASE Install
    <3>1. late' \in Nat
      BY <2>8 DEF Install, TypeOK
    <3>2. current' \in 0 .. fresh /\ current' # 0
      BY <2>1, <2>8 DEF Install, TypeOK
    <3> QED
      BY <2>8, <3>1, <3>2 DEF Install, TypeOK
  <2>9. ASSUME NEW u \in Users, User(u)
        PROVE  TypeOK'
    BY <2>1, <2>9 DEF User, ReadPool, BeginTx, Leaves, TypeOK
  <2>10. ASSUME NEW d \in Disconnects, Leave(d)
         PROVE  TypeOK'
    <3>1. CASE CallDisconnect(d)
      <4>1. teardown' \in BOOLEAN
        BY <3>1 DEF CallDisconnect, TypeOK
      <4> QED
        BY <3>1, <4>1 DEF CallDisconnect, TypeOK
    <3>2. CASE CloseStarts(d)
      <4>1. \E v \in {"absent", "open", "closing", "closed"} :
              pools' = [pools EXCEPT ![current] = v]
        <5>1. client = "ready" => current \in PoolIds
          BY <2>1 DEF TypeOK
        <5>2. CASE pools[current] = "open"
          BY <3>2, <5>2 DEF CloseStarts
        <5>3. CASE pools[current] # "open"
          <6>1. pools' = pools
            BY <3>2, <5>3 DEF CloseStarts, TypeOK
          <6> QED
            BY <6>1 DEF TypeOK
        <5> QED
          BY <5>2, <5>3
      <4> QED
        BY <2>1, <3>2, <4>1 DEF CloseStarts, TypeOK
    <3>3. CASE CloseReturns(d)
      BY <2>1, <3>3 DEF CloseReturns, TypeOK
    <3> QED
      BY <2>10, <3>1, <3>2, <3>3 DEF Leave
  <2>11. CASE Hang
    BY <2>11 DEF Hang, TypeOK
  <2>12. CASE UNCHANGED vars
    BY <2>12 DEF vars, TypeOK
  <2> QED
    BY <2>3, <2>4, <2>5, <2>6, <2>7, <2>8, <2>9, <2>10, <2>11, <2>12
    DEF Next, Connect, Health
<1> QED
  BY <1>1, <1>2, PTL DEF Spec

-----------------------------------------------------------------------------
(* A reconnect that was under way when isTeardown was set stores one pool,  *)
(* and the goroutine then finds the flag set before it begins another.      *)
LateInv ==
  /\ late \in {0, 1}
  /\ late = 1 => teardown /\ checker \in {"sleep", "check", "stopped"}

(* Disconnect changes d.pool's fate once at most: no more than one pool is  *)
(* stored in it after isTeardown has been set.                              *)
THEOREM LateInstallBound == Spec => []OneLateInstall
<1>1. Init => LateInv
  BY DEF Init, LateInv
<1>2. LateInv /\ [Next]_vars => LateInv'
  <2> SUFFICES ASSUME LateInv, [Next]_vars PROVE LateInv'
    OBVIOUS
  <2> USE DEF checkVars, userVars, leaveVars
  <2>1. CASE Check
    BY <2>1 DEF Check, LateInv
  <2>2. CASE PingSucceeds \/ PingFails \/ Wake
    BY <2>2 DEF PingSucceeds, PingFails, Wake, LateInv
  <2>3. CASE NewPool \/ MigrateFails \/ MigrateSucceeds
    BY <2>3 DEF NewPool, MigrateFails, MigrateSucceeds, LateInv
  <2>4. CASE Install
    <3>1. late = 0
      BY <2>4 DEF Install, LateInv
    <3>2. CASE client = "connecting"
      BY <2>4, <3>1, <3>2 DEF Install, LateInv
    <3>3. CASE client # "connecting"
      BY <2>4, <3>1, <3>3 DEF Install, LateInv
    <3> QED
      BY <3>2, <3>3
  <2>5. ASSUME NEW u \in Users, User(u)
        PROVE  LateInv'
    BY <2>5 DEF User, ReadPool, BeginTx, Leaves, LateInv
  <2>6. ASSUME NEW d \in Disconnects, Leave(d)
        PROVE  LateInv'
    BY <2>6 DEF Leave, CallDisconnect, CloseStarts, CloseReturns, LateInv
  <2>7. CASE Hang \/ UNCHANGED vars
    BY <2>7 DEF Hang, vars, LateInv
  <2> QED
    BY <2>1, <2>2, <2>3, <2>4, <2>5, <2>6, <2>7 DEF Next, Connect, Health
<1>3. LateInv => OneLateInstall
  BY DEF LateInv, OneLateInstall
<1> QED
  BY <1>1, <1>2, <1>3, PTL DEF Spec

-----------------------------------------------------------------------------
(* Only pools on which the migrations ran get into d.pool, and so to users. *)
MigratedInv ==
  /\ TypeOK
  /\ ServedPoolsAreMigrated
  /\ checker = "install" => fresh \in migrated

(* The pool in d.pool, and each pool that a user has read there, is one on  *)
(* which the migrations have run.                                           *)
THEOREM ServedAreMigrated == Spec => []ServedPoolsAreMigrated
<1>1. TypeOK /\ Init => MigratedInv
  BY DEF Init, MigratedInv, ServedPoolsAreMigrated
<1>2. TypeOK' /\ MigratedInv /\ [Next]_vars => MigratedInv'
  <2> SUFFICES ASSUME TypeOK', MigratedInv, [Next]_vars
               PROVE  ServedPoolsAreMigrated' /\ (checker' = "install" => fresh' \in migrated')
    BY DEF MigratedInv
  <2> USE DEF checkVars, userVars, leaveVars
  <2>1. CASE Health
    BY <2>1 DEF Health, Check, PingSucceeds, PingFails, Wake, MigratedInv, ServedPoolsAreMigrated
  <2>2. CASE NewPool \/ MigrateSucceeds
    BY <2>2 DEF NewPool, MigrateSucceeds, MigratedInv, ServedPoolsAreMigrated
  <2>3. CASE MigrateFails
    BY <2>3 DEF MigrateFails, MigratedInv, ServedPoolsAreMigrated
  <2>4. CASE Install
    BY <2>4 DEF Install, MigratedInv, ServedPoolsAreMigrated
  <2>5. ASSUME NEW u \in Users, User(u)
        PROVE  ServedPoolsAreMigrated' /\ (checker' = "install" => fresh' \in migrated')
    <3>1. client = "ready" => current # 0
      BY DEF MigratedInv, TypeOK
    <3> QED
      BY <2>5, <3>1
      DEF User, ReadPool, BeginTx, Leaves, MigratedInv, ServedPoolsAreMigrated, TypeOK
  <2>6. ASSUME NEW d \in Disconnects, Leave(d)
        PROVE  ServedPoolsAreMigrated' /\ (checker' = "install" => fresh' \in migrated')
    BY <2>6 DEF Leave, CallDisconnect, CloseStarts, CloseReturns, MigratedInv, ServedPoolsAreMigrated
  <2>7. CASE Hang \/ UNCHANGED vars
    BY <2>7 DEF Hang, vars, MigratedInv, ServedPoolsAreMigrated
  <2> QED
    BY <2>1, <2>2, <2>3, <2>4, <2>5, <2>6, <2>7 DEF Next, Connect
<1>3. MigratedInv => ServedPoolsAreMigrated
  BY DEF MigratedInv
<1> QED
  BY <1>1, <1>2, <1>3, TypeCorrect, PTL DEF Spec

-----------------------------------------------------------------------------
(* While nothing was stored late, a Disconnect that sets isTeardown closes  *)
(* the pool that d.pool still holds, and pools that are closed stay so.     *)
Closing(d) ==
  /\ leave[d] # "none" => teardown /\ client = "ready"
  /\ leave[d] \in {"waiting", "returned"} => closes[d] # 0
  /\ leave[d] \in {"waiting", "returned"} /\ late = 0 => closes[d] = current
  /\ leave[d] = "returned" => pools[closes[d]] = "closed"

ClosingInv == TypeOK /\ \A d \in Final : Closing(d)

(* Once Disconnect has returned d.pool is closed, unless the reconnect that *)
(* was under way stored another pool after isTeardown was set.              *)
THEOREM ClosedByDisconnect == Spec => []DisconnectCloses
<1>1. TypeOK /\ Init => ClosingInv
  BY DatabaseAssumption DEF Init, ClosingInv, Closing, DatabaseAssumption
<1>2. TypeOK' /\ ClosingInv /\ [Next]_vars => ClosingInv'
  <2> SUFFICES ASSUME TypeOK', ClosingInv, [Next]_vars, NEW c \in Final
               PROVE  Closing(c)'
    BY DEF ClosingInv, Closing
  <2> USE DEF checkVars, userVars, leaveVars
  <2>0. /\ c \in Disconnects /\ late \in Nat
        /\ MaxPools \in Nat /\ PoolIds = 1 .. MaxPools
        /\ fresh \in Nat /\ closes[c] \in 0 .. fresh /\ current \in 0 .. fresh
        /\ client = "ready" => current \in PoolIds
        /\ closes \in [Disconnects -> 0 .. fresh]
        /\ pools \in [PoolIds -> {"absent", "open", "closing", "closed"}]
        /\ leave \in [Disconnects -> {"none", "flagged", "waiting", "returned"}]
    BY DatabaseAssumption, PoolsAreNumbered DEF DatabaseAssumption, PoolIds, ClosingInv, TypeOK
  <2>1. ASSUME leave' = leave, closes' = closes, teardown' = teardown, pools' = pools,
               current' = current, late' = late, client' = client
        PROVE  Closing(c)'
    BY <2>1 DEF ClosingInv, Closing
  <2>2. CASE Health \/ Hang \/ MigrateSucceeds \/ UNCHANGED vars
    BY <2>1, <2>2 DEF Health, Check, PingSucceeds, PingFails, Wake, Hang, MigrateSucceeds, vars
  <2>3. CASE Install \/ MigrateFails
    <3>1. CASE Install
      <4>1. leave[c] # "none" => client' = "ready" /\ late' = late + 1 /\ late' # 0
        BY <2>0, <3>1 DEF Install, ClosingInv, Closing
      <4> QED
        BY <3>1, <4>1 DEF Install, ClosingInv, Closing
    <3>2. CASE MigrateFails
      BY <3>2 DEF MigrateFails, ClosingInv, Closing
    <3> QED
      BY <2>3, <3>1, <3>2
  <2>4. CASE NewPool
    <3>1. /\ leave' = leave /\ closes' = closes /\ teardown' = teardown
          /\ current' = current /\ late' = late /\ client' = client
          /\ fresh' = fresh + 1 /\ pools' = [pools EXCEPT ![fresh'] = "open"]
      BY <2>4 DEF NewPool
    <3>2. leave[c] = "returned" => pools'[closes[c]] = "closed"
      <4>1. closes[c] # fresh'
        BY <2>0, <3>1
      <4>2. \A p \in PoolIds : p # fresh' => pools'[p] = pools[p]
        BY <2>0, <3>1
      <4>3. leave[c] = "returned" => closes[c] \in PoolIds
        BY <2>0 DEF ClosingInv, Closing, TypeOK
      <4> QED
        BY <4>1, <4>2, <4>3 DEF ClosingInv, Closing
    <3> QED
      BY <3>1, <3>2 DEF ClosingInv, Closing
  <2>5. ASSUME NEW u \in Users, User(u)
        PROVE  Closing(c)'
    BY <2>1, <2>5 DEF User, ReadPool, BeginTx, Leaves
  <2>6. ASSUME NEW d \in Disconnects, Leave(d)
        PROVE  Closing(c)'
    <3>1. CASE CallDisconnect(d)
      BY <2>0, <3>1 DEF CallDisconnect, ClosingInv, Closing
    <3>2. CASE CloseStarts(d)
      <4>1. \A p \in PoolIds : pools[p] = "closed" => pools'[p] = "closed"
        BY <2>0, <3>2 DEF CloseStarts
      <4>2. CASE c = d
        BY <2>0, <3>2, <4>2 DEF CloseStarts, ClosingInv, Closing, TypeOK
      <4>3. CASE c # d
        <5>1. /\ leave'[c] = leave[c] /\ closes'[c] = closes[c] /\ late' = late
              /\ current' = current /\ teardown' = teardown /\ client' = client
          BY <2>0, <3>2, <4>3 DEF CloseStarts
        <5>2. leave[c] = "returned" => closes[c] \in PoolIds
          BY <2>0 DEF ClosingInv, Closing, TypeOK
        <5> QED
          BY <4>1, <5>1, <5>2 DEF ClosingInv, Closing
      <4> QED
        BY <4>2, <4>3
    <3>3. CASE CloseReturns(d)
      <4>1. \A p \in PoolIds : pools[p] = "closed" => pools'[p] = "closed"
        BY <2>0, <3>3 DEF CloseReturns
      <4>2. leave[c] \in {"waiting", "returned"} => closes[c] \in PoolIds
        BY <2>0 DEF ClosingInv, Closing, TypeOK
      <4>3. c = d => pools'[closes[c]] = "closed"
        BY <2>0, <3>3, <4>2 DEF CloseReturns
      <4>4. /\ c # d => leave'[c] = leave[c]
            /\ leave'[c] \in {"waiting", "returned"} => leave[c] \in {"waiting", "returned"}
            /\ leave'[c] # "none" => leave[c] # "none"
            /\ closes' = closes /\ late' = late /\ current' = current
            /\ teardown' = teardown /\ client' = client
        BY <2>0, <3>3 DEF CloseReturns
      <4> QED
        BY <4>1, <4>2, <4>3, <4>4 DEF ClosingInv, Closing
    <3> QED
      BY <2>6, <3>1, <3>2, <3>3 DEF Leave
  <2> QED
    BY <2>2, <2>3, <2>4, <2>5, <2>6 DEF Next, Connect
<1>3. ClosingInv => DisconnectCloses
  BY DEF ClosingInv, Closing, DisconnectCloses, TornDown
<1> QED
  BY <1>1, <1>2, <1>3, TypeCorrect, PTL DEF Spec

-----------------------------------------------------------------------------
(* How many pools there are                                                 *)

(* The closed pools, counted with the pool in d.pool and without it.        *)
Closed == Cardinality(ClosedPools)
ClosedBefore == Cardinality(ClosedPools \ {current})

Leaving == {d \in Disconnects : leave[d] \in {"waiting", "returned"}}

PoolsInv ==
  /\ client = "failed" => checker = "stopped"
  /\ checker \in {"check", "ping", "sleep"} => client = "ready"
  /\ \A d \in Disconnects : leave[d] # "none" => client = "ready"
  /\ \A p \in PoolIds : pools[p] = "absent" <=> p > fresh
  /\ checker \in {"migrate", "install"} => current # fresh /\ pools[fresh] = "open"
  /\ \A d \in Leaving : closes[d] \in ClosedPools
  /\ \A p \in ClosedPools : \E d \in Leaving : closes[d] = p

(* Every pool is the first, or was paid for by a fault or by a Disconnect   *)
(* that closed the pool before it.                                          *)
CountInv ==
  /\ checker \in {"check", "ping", "sleep", "stopped"} => fresh <= 1 + faults + ClosedBefore
  /\ checker = "build" => fresh <= faults + Closed
  /\ checker \in {"migrate", "install"} => fresh <= 1 + faults + Closed

LEMMA ClosedAreCounted ==
  ASSUME TypeOK
  PROVE  /\ IsFiniteSet(PoolIds) /\ IsFiniteSet(ClosedPools)
         /\ Closed \in Nat /\ ClosedBefore \in Nat
         /\ Closed = IF current \in ClosedPools THEN ClosedBefore + 1 ELSE ClosedBefore
<1>1. IsFiniteSet(PoolIds)
  BY PoolsAreNumbered, FS_Interval DEF PoolIds
<1>2. IsFiniteSet(ClosedPools)
  BY <1>1, FS_Subset DEF ClosedPools
<1>3. /\ IsFiniteSet(ClosedPools \ {current})
      /\ ClosedBefore = IF current \in ClosedPools THEN Closed - 1 ELSE Closed
  BY <1>2, FS_RemoveElement DEF Closed, ClosedBefore
<1>4. Closed \in Nat /\ ClosedBefore \in Nat
  BY <1>2, <1>3, FS_CardinalityType DEF Closed, ClosedBefore
<1> QED
  BY <1>1, <1>2, <1>3, <1>4

(* Each Disconnect closes one pool.                                         *)
LEMMA ClosedByAsMany ==
  ASSUME TypeOK, PoolsInv
  PROVE  Closed <= Cardinality(Disconnects) /\ Cardinality(Disconnects) \in Nat
<1>1. IsFiniteSet(Disconnects) /\ Cardinality(Disconnects) \in Nat
  BY DatabaseAssumption, FS_CardinalityType DEF DatabaseAssumption
<1>2. /\ IsFiniteSet(Leaving) /\ Cardinality(Leaving) <= Cardinality(Disconnects)
      /\ Cardinality(Leaving) \in Nat
  BY <1>1, FS_Subset, FS_CardinalityType DEF Leaving
<1>3. [d \in Leaving |-> closes[d]] \in Surjection(Leaving, ClosedPools)
  <2>1. \A d \in Leaving : closes[d] \in ClosedPools
    BY DEF PoolsInv
  <2>2. \A p \in ClosedPools : \E d \in Leaving : closes[d] = p
    BY DEF PoolsInv
  <2> QED
    BY <2>1, <2>2 DEF Surjection
<1>4. Closed <= Cardinality(Leaving) /\ Closed \in Nat
  BY <1>2, <1>3, FS_Surjection, ClosedAreCounted DEF Closed
<1> QED
  BY <1>1, <1>2, <1>4

LEMMA PoolsAreAccounted == Spec => []PoolsInv
<1>1. Init => PoolsInv
  BY PoolsAreNumbered DEF Init, PoolsInv, PoolIds, ClosedPools, Leaving
<1>2. TypeOK /\ TypeOK' /\ PoolsInv /\ [Next]_vars => PoolsInv'
  <2> SUFFICES ASSUME TypeOK, TypeOK', PoolsInv, [Next]_vars PROVE PoolsInv'
    OBVIOUS
  <2> USE DEF checkVars, userVars, leaveVars
  <2>0. /\ MaxPools \in Nat /\ PoolIds = 1 .. MaxPools /\ fresh \in Nat /\ fresh <= MaxPools
        /\ current \in 0 .. fresh /\ client \in {"connecting", "ready", "failed"}
        /\ checker \in CheckerStates
        /\ client = "ready" => current \in PoolIds /\ current <= fresh
        /\ pools \in [PoolIds -> {"absent", "open", "closing", "closed"}]
        /\ leave \in [Disconnects -> {"none", "flagged", "waiting", "returned"}]
        /\ closes \in [Disconnects -> 0 .. fresh]
    BY PoolsAreNumbered DEF PoolIds, TypeOK
  <2>1. ASSUME leave' = leave, closes' = closes, pools' = pools
        PROVE  ClosedPools' = ClosedPools /\ Leaving' = Leaving
    BY <2>1 DEF ClosedPools, Leaving
  <2>2. CASE Check \/ PingSucceeds \/ PingFails \/ Wake \/ Hang \/ UNCHANGED vars
    BY <2>1, <2>2 DEF Check, PingSucceeds, PingFails, Wake, Hang, vars, PoolsInv
  <2>3. CASE NewPool
    <3>1. /\ fresh' = fresh + 1 /\ fresh' \in PoolIds /\ pools' = [pools EXCEPT ![fresh'] = "open"]
          /\ leave' = leave /\ closes' = closes /\ current' = current /\ client' = client
          /\ checker' = "migrate" /\ checker = "build"
      BY <2>0, <2>3 DEF NewPool
    <3>2. pools[fresh'] = "absent"
      BY <2>0, <3>1 DEF PoolsInv
    <3>3. ClosedPools' = ClosedPools /\ Leaving' = Leaving
      BY <2>0, <3>1, <3>2 DEF ClosedPools, Leaving
    <3>4. \A q \in PoolIds : (pools[q] = "absent" <=> q > fresh)'
      BY <2>0, <3>1 DEF PoolsInv
    <3>5. current' # fresh' /\ pools'[fresh'] = "open"
      BY <2>0, <3>1
    <3>6. /\ client' = "failed" => checker' = "stopped"
          /\ \A d \in Disconnects : leave'[d] # "none" => client' = "ready"
      BY <3>1 DEF PoolsInv
    <3>7. /\ \A d \in Leaving' : closes'[d] \in ClosedPools'
          /\ \A q \in ClosedPools' : \E d \in Leaving' : closes'[d] = q
      BY <3>1, <3>3 DEF PoolsInv
    <3> QED
      BY <3>1, <3>4, <3>5, <3>6, <3>7 DEF PoolsInv
  <2>4. CASE MigrateFails \/ MigrateSucceeds
    BY <2>0, <2>1, <2>4 DEF MigrateFails, MigrateSucceeds, PoolsInv
  <2>5. CASE Install
    BY <2>0, <2>1, <2>5 DEF Install, PoolsInv
  <2>6. ASSUME NEW u \in Users, User(u) PROVE PoolsInv'
    BY <2>1, <2>6 DEF User, ReadPool, BeginTx, Leaves, PoolsInv
  <2>7. ASSUME NEW d \in Disconnects, CallDisconnect(d) PROVE PoolsInv'
    <3>1. ClosedPools' = ClosedPools /\ Leaving' = Leaving
      BY <2>0, <2>7 DEF CallDisconnect, ClosedPools, Leaving
    <3>2. \A e \in Disconnects : leave'[e] # "none" => client' = "ready"
      BY <2>0, <2>7 DEF CallDisconnect, PoolsInv
    <3> QED
      BY <2>7, <3>1, <3>2 DEF CallDisconnect, PoolsInv
  <2>8. ASSUME NEW d \in Disconnects, CloseStarts(d) PROVE PoolsInv'
    <3>1. /\ leave[d] = "flagged" /\ leave' = [leave EXCEPT ![d] = "waiting"]
          /\ closes' = [closes EXCEPT ![d] = current]
          /\ pools' = [pools EXCEPT ![current] = IF @ = "open" THEN "closing" ELSE @]
          /\ fresh' = fresh /\ current' = current /\ client' = client /\ checker' = checker
      BY <2>8 DEF CloseStarts
    <3>2. client = "ready" /\ current \in PoolIds /\ pools[current] # "absent"
      BY <2>0, <3>1 DEF PoolsInv
    <3>3. ClosedPools' = ClosedPools \cup {current}
      BY <2>0, <3>1, <3>2 DEF ClosedPools
    <3>4. Leaving' = Leaving \cup {d} /\ d \notin Leaving
      BY <2>0, <3>1 DEF Leaving
    <3>5. \A e \in Leaving : closes'[e] = closes[e]
      BY <2>0, <3>1, <3>4 DEF Leaving
    <3>6. closes'[d] = current
      BY <2>0, <3>1
    <3>7. /\ \A e \in Leaving' : closes'[e] \in ClosedPools'
          /\ \A q \in ClosedPools' : \E e \in Leaving' : closes'[e] = q
      BY <3>3, <3>4, <3>5, <3>6 DEF PoolsInv
    <3>8. \A q \in PoolIds : (pools[q] = "absent" <=> q > fresh)'
      BY <2>0, <3>1, <3>2 DEF PoolsInv
    <3>9. \A e \in Disconnects : leave'[e] # "none" => client' = "ready"
      BY <3>1, <3>2
    <3>10. checker' \in {"migrate", "install"} => current' # fresh' /\ pools'[fresh'] = "open"
      BY <2>0, <3>1 DEF PoolsInv
    <3> QED
      BY <3>1, <3>7, <3>8, <3>9, <3>10 DEF PoolsInv
  <2>9. ASSUME NEW d \in Disconnects, CloseReturns(d) PROVE PoolsInv'
    <3>1. /\ leave[d] = "waiting" /\ leave' = [leave EXCEPT ![d] = "returned"]
          /\ closes' = closes /\ pools' = [pools EXCEPT ![closes[d]] = "closed"]
          /\ fresh' = fresh /\ current' = current /\ client' = client /\ checker' = checker
      BY <2>9 DEF CloseReturns
    <3>2. closes[d] \in ClosedPools
      BY <3>1 DEF PoolsInv, Leaving
    <3>3. ClosedPools' = ClosedPools
      BY <2>0, <3>1, <3>2 DEF ClosedPools
    <3>4. Leaving' = Leaving
      BY <2>0, <3>1 DEF Leaving
    <3>5. \A q \in PoolIds : (pools[q] = "absent" <=> q > fresh)'
      BY <2>0, <3>1, <3>2 DEF PoolsInv, ClosedPools
    <3>6. \A e \in Disconnects : leave'[e] # "none" => client' = "ready"
      BY <2>0, <3>1 DEF PoolsInv
    <3>7. checker' \in {"migrate", "install"} => current' # fresh' /\ pools'[fresh'] = "open"
      BY <2>0, <3>1, <3>2 DEF PoolsInv, ClosedPools
    <3> QED
      BY <3>1, <3>3, <3>4, <3>5, <3>6, <3>7 DEF PoolsInv
  <2> QED
    BY <2>2, <2>3, <2>4, <2>5, <2>6, <2>7, <2>8, <2>9 DEF Next, Connect, Health, Leave
<1> QED
  BY <1>1, <1>2, TypeCorrect, PTL DEF Spec

LEMMA PoolsAreCounted == Spec => []CountInv
<1>1. TypeOK /\ Init => CountInv
  <2> SUFFICES ASSUME TypeOK, Init PROVE CountInv
    OBVIOUS
  <2>1. Closed \in Nat /\ faults = 0 /\ fresh = 0 /\ checker = "build"
    BY ClosedAreCounted DEF Init
  <2> QED
    BY <2>1 DEF CountInv
<1>2. TypeOK /\ TypeOK' /\ PoolsInv /\ CountInv /\ [Next]_vars => CountInv'
  <2> SUFFICES ASSUME TypeOK, TypeOK', PoolsInv, CountInv, [Next]_vars PROVE CountInv'
    OBVIOUS
  <2> USE DEF checkVars, userVars, leaveVars
  <2>0. /\ MaxPools \in Nat /\ PoolIds = 1 .. MaxPools /\ fresh \in Nat
        /\ faults \in Nat /\ current \in 0 .. fresh
        /\ client = "ready" => current \in PoolIds
        /\ Closed \in Nat /\ ClosedBefore \in Nat
        /\ Closed <= ClosedBefore + 1 /\ ClosedBefore <= Closed
        /\ current \in ClosedPools => Closed = ClosedBefore + 1
        /\ current \notin ClosedPools => Closed = ClosedBefore
        /\ checker \in CheckerStates
        /\ pools \in [PoolIds -> {"absent", "open", "closing", "closed"}]
    BY PoolsAreNumbered, DatabaseAssumption, ClosedAreCounted DEF PoolIds, TypeOK, DatabaseAssumption
  <2>1. ClosedPools' = ClosedPools => Closed' = Closed
    BY DEF Closed
  <2>2. ClosedPools' \ {current'} = ClosedPools \ {current} => ClosedBefore' = ClosedBefore
    BY DEF ClosedBefore
  <2>3. Fault => faults' = faults + 1
    BY DEF Fault
  <2>4. ASSUME pools' = pools, current' = current
        PROVE  Closed' = Closed /\ ClosedBefore' = ClosedBefore
    BY <2>1, <2>2, <2>4 DEF ClosedPools
  <2>5. CASE Check \/ PingSucceeds \/ Wake \/ Hang \/ UNCHANGED vars
    <3>1. /\ pools' = pools /\ current' = current /\ fresh' = fresh /\ faults' = faults
          /\ \/ checker' = checker
             \/ {checker, checker'} \subseteq {"check", "ping", "sleep", "stopped"}
      BY <2>5 DEF Check, PingSucceeds, Wake, Hang, vars
    <3> QED
      BY <2>4, <3>1 DEF CountInv
  <2>6. CASE PingFails
    <3>1. /\ pools' = pools /\ current' = current /\ fresh' = fresh
          /\ checker = "ping" /\ checker' = "build"
          /\ IF pools[current] = "open" THEN faults' = faults + 1 ELSE faults' = faults
      BY <2>3, <2>6 DEF PingFails
    <3>2. fresh <= 1 + faults + ClosedBefore
      BY <3>1 DEF CountInv
    <3>3. pools[current] = "open" \/ current \in ClosedPools
      BY <2>0, <3>1 DEF PoolsInv, ClosedPools
    <3>4. fresh' <= faults' + Closed'
      BY <2>0, <2>4, <3>1, <3>2, <3>3
    <3> QED
      BY <3>1, <3>4 DEF CountInv
  <2>7. CASE NewPool
    <3>1. /\ fresh' = fresh + 1 /\ faults' = faults /\ current' = current
          /\ checker = "build" /\ checker' = "migrate"
          /\ fresh < MaxPools /\ pools' = [pools EXCEPT ![fresh'] = "open"]
      BY <2>7 DEF NewPool
    <3>2. pools[fresh'] = "absent" /\ fresh' \in PoolIds
      BY <2>0, <3>1 DEF PoolsInv
    <3>3. ClosedPools' = ClosedPools
      BY <2>0, <3>1, <3>2 DEF ClosedPools
    <3>4. fresh <= faults + Closed
      BY <3>1 DEF CountInv
    <3>5. fresh' <= 1 + faults' + Closed'
      BY <2>0, <2>1, <3>1, <3>3, <3>4
    <3> QED
      BY <3>1, <3>5 DEF CountInv
  <2>8. CASE MigrateFails
    <3>1. /\ pools' = pools /\ current' = current /\ fresh' = fresh /\ faults' = faults + 1
          /\ checker = "migrate" /\ checker' \in {"stopped", "sleep"}
      BY <2>3, <2>8 DEF MigrateFails
    <3>2. fresh <= 1 + faults + Closed
      BY <3>1 DEF CountInv
    <3>3. fresh' <= 1 + faults' + ClosedBefore'
      BY <2>0, <2>4, <3>1, <3>2
    <3> QED
      BY <3>1, <3>3 DEF CountInv
  <2>9. CASE MigrateSucceeds
    <3>1. /\ pools' = pools /\ current' = current /\ fresh' = fresh /\ faults' = faults
          /\ checker = "migrate" /\ checker' = "install"
      BY <2>9 DEF MigrateSucceeds
    <3> QED
      BY <2>4, <3>1 DEF CountInv
  <2>10. CASE Install
    <3>1. /\ pools' = pools /\ current' = fresh /\ fresh' = fresh /\ faults' = faults
          /\ checker = "install" /\ checker' \in {"check", "sleep"}
      BY <2>10 DEF Install
    <3>2. fresh \notin ClosedPools /\ ClosedPools' = ClosedPools
      BY <3>1 DEF PoolsInv, ClosedPools
    <3>3. ClosedPools' \ {current'} = ClosedPools
      BY <3>1, <3>2
    <3>4. ClosedBefore' = Closed
      BY <3>3 DEF ClosedBefore, Closed
    <3>5. fresh <= 1 + faults + Closed
      BY <3>1 DEF CountInv
    <3> QED
      BY <3>1, <3>4, <3>5 DEF CountInv
  <2>11. ASSUME NEW u \in Users, User(u) PROVE CountInv'
    <3>1. UNCHANGED <<pools, current, fresh, faults, checker>>
      BY <2>11 DEF User, ReadPool, BeginTx, Leaves
    <3> QED
      BY <2>4, <3>1 DEF CountInv
  <2>12. ASSUME NEW d \in Disconnects, Leave(d) PROVE CountInv'
    <3>1. UNCHANGED <<current, fresh, faults, checker>>
      BY <2>12 DEF Leave, CallDisconnect, CloseStarts, CloseReturns
    <3>2. /\ ClosedPools \subseteq ClosedPools'
          /\ ClosedPools' \ {current'} = ClosedPools \ {current}
      <4>1. CASE CallDisconnect(d)
        BY <3>1, <4>1 DEF CallDisconnect, ClosedPools
      <4>2. CASE CloseStarts(d)
        <5>1. pools' = [pools EXCEPT ![current] = IF @ = "open" THEN "closing" ELSE @]
          BY <4>2 DEF CloseStarts
        <5> QED
          BY <2>0, <3>1, <5>1 DEF ClosedPools
      <4>3. CASE CloseReturns(d)
        <5>1. pools' = [pools EXCEPT ![closes[d]] = "closed"] /\ closes[d] \in ClosedPools
          BY <4>3 DEF CloseReturns, PoolsInv, Leaving
        <5> QED
          BY <2>0, <3>1, <5>1 DEF ClosedPools
      <4> QED
        BY <2>12, <4>1, <4>2, <4>3 DEF Leave
    <3>3. Closed' \in Nat /\ Closed <= Closed'
      <4>1. IsFiniteSet(PoolIds) /\ ClosedPools' \subseteq PoolIds
        BY ClosedAreCounted DEF ClosedPools
      <4>2. IsFiniteSet(ClosedPools')
        BY <4>1, FS_Subset
      <4>3. Closed' \in Nat
        BY <4>2, FS_CardinalityType DEF Closed
      <4>4. Cardinality(ClosedPools) <= Cardinality(ClosedPools')
        BY <3>2, <4>2, FS_Subset
      <4> QED
        BY <4>3, <4>4 DEF Closed
    <3>4. ClosedBefore' = ClosedBefore
      BY <2>2, <3>2
    <3>5. /\ fresh <= faults + Closed => fresh' <= faults' + Closed'
          /\ fresh <= 1 + faults + Closed => fresh' <= 1 + faults' + Closed'
      <4>1. fresh' = fresh /\ faults' = faults
        BY <3>1
      <4>2. PICK b \in Nat : b = Closed' /\ Closed <= b
        BY <3>3
      <4>3. PICK a \in Nat : a = Closed
        BY <2>0
      <4>4. a <= b /\ fresh \in Nat /\ faults \in Nat
        BY <2>0, <4>2, <4>3
      <4>5. /\ fresh <= faults + a => fresh <= faults + b
            /\ fresh <= 1 + faults + a => fresh <= 1 + faults + b
        BY <4>4
      <4> QED
        BY <4>1, <4>2, <4>3, <4>5
    <3> QED
      BY <3>1, <3>4, <3>5 DEF CountInv
  <2> QED
    BY <2>5, <2>6, <2>7, <2>8, <2>9, <2>10, <2>11, <2>12 DEF Next, Connect, Health
<1> QED
  BY <1>1, <1>2, TypeCorrect, PoolsAreAccounted, PTL DEF Spec

(* For any number of Disconnects and faults: each pool left open is the     *)
(* trace of a fault.                                                        *)
THEOREM PoolsLeakByFault == Spec => []OnePoolPerFault
<1>1. TypeOK /\ PoolsInv /\ CountInv => OnePoolPerFault
  <2> SUFFICES ASSUME TypeOK, PoolsInv, CountInv PROVE OnePoolPerFault
    OBVIOUS
  <2>0. /\ MaxPools \in Nat /\ PoolIds = 1 .. MaxPools /\ fresh \in 0 .. MaxPools
        /\ faults \in Nat /\ checker \in CheckerStates
        /\ pools \in [PoolIds -> {"absent", "open", "closing", "closed"}]
    BY PoolsAreNumbered, DatabaseAssumption DEF PoolIds, TypeOK, DatabaseAssumption
  <2>1. OpenPools \cup ClosedPools = 1 .. fresh /\ OpenPools \cap ClosedPools = {}
    BY <2>0 DEF PoolsInv, OpenPools, ClosedPools
  <2>2. IsFiniteSet(OpenPools) /\ IsFiniteSet(ClosedPools)
    BY ClosedAreCounted, FS_Subset DEF OpenPools
  <2>3. Cardinality(1 .. fresh) = fresh
    BY <2>0, FS_Interval
  <2>4. /\ Cardinality(OpenPools \cup ClosedPools) =
             Cardinality(OpenPools) + Cardinality(ClosedPools)
                - Cardinality(OpenPools \cap ClosedPools)
    BY <2>2, FS_Union
  <2>5. /\ Cardinality(OpenPools \cap ClosedPools) = 0
        /\ Cardinality(OpenPools) \in Nat /\ Cardinality(ClosedPools) \in Nat
    BY <2>1, <2>2, FS_EmptySet, FS_CardinalityType
  <2>6. Cardinality(OpenPools) + Closed = fresh
    <3>1. fresh = Cardinality(OpenPools) + Cardinality(ClosedPools) - 0
      BY ONLY <2>1, <2>3, <2>4, <2>5
    <3> QED
      BY <2>5, <3>1 DEF Closed
  <2>7. fresh <= 1 + faults + Closed
    BY <2>0, ClosedAreCounted DEF CountInv, CheckerStates
  <2> QED
    BY <2>0, <2>5, <2>6, <2>7, ClosedAreCounted DEF OnePoolPerFault
<1> QED
  BY <1>1, TypeCorrect, PoolsAreAccounted, PoolsAreCounted, PTL

(* MaxPools is no restriction: wherever the code goes on to build a pool    *)
(* the model has one left.                                                  *)
THEOREM MaxPoolsIsEnough == Spec => [](checker = "build" => fresh < MaxPools)
<1>1. TypeOK /\ PoolsInv /\ CountInv => (checker = "build" => fresh < MaxPools)
  <2> SUFFICES ASSUME TypeOK, PoolsInv, CountInv, checker = "build" PROVE fresh < MaxPools
    OBVIOUS
  <2>1. /\ fresh \in Nat /\ faults \in Nat /\ MaxFaults \in Nat /\ faults <= MaxFaults
        /\ Closed \in Nat
    BY PoolsAreNumbered, DatabaseAssumption, ClosedAreCounted DEF TypeOK, DatabaseAssumption
  <2>2. fresh <= faults + Closed
    BY DEF CountInv
  <2> QED
    BY <2>1, <2>2, ClosedByAsMany DEF MaxPools
<1> QED
  BY <1>1, TypeCorrect, PoolsAreAccounted, PoolsAreCounted, PTL
=============================================================================
