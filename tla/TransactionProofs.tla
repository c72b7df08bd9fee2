------------------------- MODULE TransactionProofs -------------------------
(***************************************************************************)
(* Proofs about Transaction for any number of calls, nested in any way,    *)
(* and any size of the pool.                                               *)
(***************************************************************************)
EXTENDS Transaction, FiniteSetTheorems, WellFoundedInduction, TLAPS

-----------------------------------------------------------------------------
(* Every state has the types TypeOK gives it; the pool never gives out more *)
(* connections than it has.                                                 *)
THEOREM TypeCorrect == Spec => []TypeOK
<1> USE DEF States, Returned, Modes
<1>1. Init => TypeOK
  BY FS_EmptySet, TransactionAssumption DEF Init, TypeOK, TransactionAssumption
<1>2. TypeOK /\ [Next]_vars => TypeOK'
  <2> SUFFICES ASSUME TypeOK, [Next]_vars PROVE TypeOK'
    OBVIOUS
  <2>1. IsFiniteSet(holds) /\ Cardinality(holds) \in Nat /\ MaxConns \in Nat
    BY TransactionAssumption, FS_Subset, FS_CardinalityType DEF TransactionAssumption, TypeOK
  <2>2. ASSUME NEW k \in Calls
        PROVE  /\ Cardinality(holds \ {k}) <= MaxConns
               /\ FreeConnection => Cardinality(holds \cup {k}) <= MaxConns
    <3>1. \/ Cardinality(holds \ {k}) = Cardinality(holds)
          \/ Cardinality(holds \ {k}) = Cardinality(holds) - 1
      BY <2>1, FS_RemoveElement
    <3>2. \/ Cardinality(holds \cup {k}) = Cardinality(holds)
          \/ Cardinality(holds \cup {k}) = Cardinality(holds) + 1
      BY <2>1, FS_AddElement
    <3>3. Cardinality(holds) <= MaxConns
      BY DEF TypeOK
    <3> QED
      BY <2>1, <3>1, <3>2, <3>3 DEF FreeConnection
  <2>3. ASSUME NEW k \in Calls, NEW m \in Modes, CallTop(k, m)
        PROVE  TypeOK'
    BY <2>3 DEF CallTop, TypeOK, dbVars
  <2>4. ASSUME NEW k \in Calls, NEW p \in Calls, NEW m \in Modes, CallNested(k, p, m)
        PROVE  TypeOK'
    BY <2>4 DEF CallNested, TypeOK, dbVars
  <2>5. ASSUME NEW k \in Calls, NEW p \in Calls, CallExisting(k, p)
        PROVE  TypeOK'
    BY <2>5 DEF CallExisting, TypeOK, dbVars
  <2>6. ASSUME NEW k \in Calls, Begin(k) \/ BeginFails(k)
        PROVE  TypeOK'
    <3>1. CASE Begin(k)
      <4>1. Cardinality(holds') <= MaxConns
        BY <2>2, <3>1 DEF Begin
      <4> QED
        BY <3>1, <4>1 DEF Begin, TypeOK, dbVars
    <3>2. CASE BeginFails(k)
      BY <3>2 DEF BeginFails, TypeOK, dbVars
    <3> QED
      BY <2>6, <3>1, <3>2
  <2>7. ASSUME NEW k \in Calls, FnStep(k)
        PROVE  TypeOK'
    BY <2>7 DEF FnStep, Exec, ExecFails, FnReturns, AfterFn, TypeOK, callVars, dbVars
  <2>8. ASSUME NEW k \in Calls, Finish(k)
        PROVE  TypeOK'
    <3>1. uses[k] \in Calls /\ wrote[uses[k]] \subseteq Calls \X Writes /\ verdict[k] \in Returned
      BY DEF TypeOK
    <3>2. holds' = holds \ {uses[k]}
      BY <2>8 DEF Finish, CommitSucceeds, CommitFails, CommitAnswerLost, CommitReturns, Rollback
    <3>3. holds' \subseteq Calls /\ Cardinality(holds') <= MaxConns
      BY <2>2, <3>1, <3>2 DEF TypeOK
    <3>4. CASE Rollback(k)
      BY <3>1, <3>3, <3>4 DEF Rollback, TypeOK, dbVars
    <3>5. CASE CommitSucceeds(k) \/ CommitFails(k) \/ CommitAnswerLost(k)
      BY <3>1, <3>3, <3>5
      DEF CommitSucceeds, CommitFails, CommitAnswerLost, CommitReturns, TypeOK
    <3> QED
      BY <2>8, <3>4, <3>5 DEF Finish
  <2>9. ASSUME Close \/ CloseReturns
        PROVE  TypeOK'
    BY <2>9 DEF Close, CloseReturns, TypeOK, callVars, dbVars
  <2>10. CASE UNCHANGED vars
    BY <2>10 DEF vars, TypeOK, callVars, dbVars
  <2> QED
    BY <2>3, <2>4, <2>5, <2>6, <2>7, <2>8, <2>9, <2>10 DEF Next
<1> QED
  BY <1>1, <1>2, PTL DEF Spec

-----------------------------------------------------------------------------
(* How calls are nested.                                                    *)

Active == {"begin", "fn", "commit", "rollback"}

\* The functions of the calls around one that is under way are waiting.
Waiting ==
  \A k \in Calls : state[k] \in Active =>
    \A a \in within[k] : state[a] = "fn" /\ a # k

\* A call runs in its own transaction or in that of a call around it, and
\* only the former waits for a connection, commits or rolls back.
Ownership ==
  \A k \in Calls :
    /\ uses[uses[k]] = uses[k]
    /\ uses[k] # k => uses[k] \in within[k]
    /\ state[k] \in {"none", "begin", "commit", "rollback"} => uses[k] = k
    /\ state[k] = "none" => within[k] = {} /\ Under(k) = {}

\* A connection is held for a transaction that is not over.
Holding ==
  \A k \in holds : uses[k] = k /\ state[k] \in {"fn", "commit", "rollback"}

NestInv == Waiting /\ Ownership /\ Holding /\ (pool = "closed" => holds = {})

(* The calls that start leave the nesting as described.                     *)
LEMMA CallKeepsNestInv ==
  ASSUME TypeOK, NestInv, NEW k \in Calls, state[k] = "none",
         NEW p \in Calls, Running(p),
         NEW st \in {"begin", "fn"}, state' = [state EXCEPT ![k] = st],
         within' = [within EXCEPT ![k] = within[p] \cup {p}],
         UNCHANGED <<holds, pool>>,
         \/ uses' = uses
         \/ st = "fn" /\ uses' = [uses EXCEPT ![k] = uses[p]]
  PROVE  NestInv'
<1> USE DEF Active
<1>1. /\ state[p] = "fn" /\ p # k
      /\ uses[k] = k /\ within[k] = {} /\ k \notin holds
  BY DEF Running, NestInv, Ownership, Holding
<1>2. \A a \in within[p] : state[a] = "fn" /\ a # k /\ a # p
  BY <1>1 DEF NestInv, Waiting
<1>3. \A j \in Calls \ {k} :
        /\ state'[j] = state[j] /\ within'[j] = within[j] /\ uses'[j] = uses[j]
  BY DEF TypeOK
<1>4. state'[k] = st /\ within'[k] = within[p] \cup {p}
  BY DEF TypeOK
<1>5. \A j \in Calls : k \notin within[j]
  BY DEF NestInv, Ownership, Under
<1>6. Waiting'
  BY <1>1, <1>2, <1>3, <1>4, <1>5 DEF Waiting, NestInv, TypeOK
<1>7. uses[p] \in within[p] \cup {p} /\ uses[uses[p]] = uses[p] /\ uses[p] # k
  BY <1>1, <1>2 DEF NestInv, Ownership
<1>8. \A j \in Calls \ {k} : uses[j] # k
  BY <1>1, <1>5 DEF NestInv, Ownership, TypeOK
<1>9. Ownership'
  <2>1. ASSUME NEW j \in Calls, j # k
        PROVE  /\ uses'[uses'[j]] = uses'[j]
               /\ uses'[j] # j => uses'[j] \in within'[j]
               /\ state'[j] \in {"none", "begin", "commit", "rollback"} => uses'[j] = j
               /\ state'[j] = "none" => within'[j] = {}
    BY <1>3, <1>8, <2>1 DEF Ownership, NestInv, TypeOK
  <2>2. ASSUME NEW j \in Calls, state'[j] = "none"
        PROVE  Under(j)' = {}
    <3>1. j # k /\ state[j] = "none" /\ j # p /\ j \notin within[p]
      BY <1>1, <1>2, <1>3, <1>4, <2>2
    <3>2. \A i \in Calls : j \notin within[i]
      BY <3>1 DEF Ownership, NestInv, Under
    <3> QED
      BY <1>3, <1>4, <3>1, <3>2 DEF Under
  <2>3. /\ uses'[uses'[k]] = uses'[k]
        /\ uses'[k] # k => uses'[k] \in within'[k]
        /\ st = "begin" => uses'[k] = k
    BY <1>1, <1>3, <1>4, <1>7 DEF TypeOK
  <2> QED
    BY <1>4, <2>1, <2>2, <2>3 DEF Ownership
<1>10. Holding'
  BY <1>1, <1>3 DEF Holding, NestInv, TypeOK
<1> QED
  BY <1>6, <1>9, <1>10 DEF NestInv

(* So does everything else a call does: nobody is nested in a call that     *)
(* leaves its function.                                                     *)
LEMMA StepKeepsNestInv ==
  ASSUME TypeOK, NestInv, NEW k \in Calls, UNCHANGED <<within, uses>>,
         NEW st \in States, state' = [state EXCEPT ![k] = st],
         \/ /\ state[k] = "none" /\ st = "begin" /\ UNCHANGED <<holds, pool>>
         \/ /\ state[k] = "begin" /\ st = "fn" /\ pool = "open"
            /\ holds' = holds \cup {k} /\ UNCHANGED pool
         \/ /\ state[k] = "begin" /\ st = "error" /\ UNCHANGED <<holds, pool>>
         \/ /\ Running(k) /\ UNCHANGED <<holds, pool>>
            /\ st \in IF uses[k] = k THEN {"commit", "rollback"} ELSE Returned
         \/ /\ state[k] = "commit" /\ st = "rollback"
            /\ holds' = holds \ {k} /\ UNCHANGED pool
         \/ /\ state[k] = "rollback" /\ st \in Returned
            /\ holds' = holds \ {k} /\ UNCHANGED pool
  PROVE  NestInv'
<1> USE DEF Active, States, Returned
<1>1. \A j \in Calls \ {k} : state'[j] = state[j]
  BY DEF TypeOK
<1>2. state'[k] = st
  BY DEF TypeOK
<1>3. state[k] # "none" => st # "none"
  OBVIOUS
<1>4. \A j \in Calls : state[j] \in Active => k \notin within[j]
  <2>1. CASE state[k] = "none"
    BY <2>1 DEF NestInv, Ownership, Under
  <2>2. CASE Running(k)
    BY <2>2 DEF Running, Under
  <2>3. CASE state[k] \in {"begin", "commit", "rollback"}
    BY <2>3 DEF NestInv, Waiting
  <2> QED
    BY <2>1, <2>2, <2>3
<1>5. st \in Active => state[k] \in Active \/ within[k] = {}
  BY DEF NestInv, Ownership, Running
<1>6. Waiting'
  BY <1>1, <1>2, <1>4, <1>5 DEF Waiting, NestInv
<1>7. Ownership'
  <2>1. \A j \in Calls : state'[j] = "none" => state[j] = "none"
    BY <1>1, <1>2, <1>3
  <2>2. \A j \in Calls : Under(j)' = Under(j)
    BY DEF Under
  <2>3. st \in {"none", "begin", "commit", "rollback"} => uses[k] = k
    BY DEF NestInv, Ownership
  <2> QED
    BY <1>1, <1>2, <2>1, <2>2, <2>3 DEF Ownership, NestInv
<1>8. Holding'
  <2>1. ASSUME NEW j \in holds', j # k
        PROVE  uses'[j] = j /\ state'[j] \in {"fn", "commit", "rollback"}
    BY <1>1, <2>1 DEF NestInv, Holding, TypeOK
  <2>2. ASSUME k \in holds'
        PROVE  uses'[k] = k /\ state'[k] \in {"fn", "commit", "rollback"}
    BY <1>2, <2>2 DEF NestInv, Holding, Ownership, Running
  <2> QED
    BY <2>1, <2>2 DEF Holding
<1>9. (pool = "closed" => holds = {})'
  BY DEF NestInv
<1> QED
  BY <1>6, <1>7, <1>8, <1>9 DEF NestInv

(* Calls are nested, own transactions and hold connections as described.    *)
LEMMA NestInvariant == Spec => []NestInv
<1> USE DEF States, Returned
<1>1. Init => NestInv
  BY DEF Init, NestInv, Waiting, Active, Ownership, Holding, Under
<1>2. TypeOK /\ NestInv /\ [Next]_vars => NestInv'
  <2> SUFFICES ASSUME TypeOK, NestInv, [Next]_vars PROVE NestInv'
    OBVIOUS
  <2>1. ASSUME NEW k \in Calls, NEW m \in Modes, CallTop(k, m)
        PROVE  NestInv'
    BY <2>1, StepKeepsNestInv DEF CallTop
  <2>2. ASSUME NEW k \in Calls, NEW p \in Calls, NEW m \in Modes, CallNested(k, p, m)
        PROVE  NestInv'
    BY <2>2, CallKeepsNestInv DEF CallNested
  <2>3. ASSUME NEW k \in Calls, NEW p \in Calls, CallExisting(k, p)
        PROVE  NestInv'
    BY <2>3, CallKeepsNestInv DEF CallExisting
  <2>4. ASSUME NEW k \in Calls, Begin(k) \/ BeginFails(k)
        PROVE  NestInv'
    BY <2>4, StepKeepsNestInv DEF Begin, BeginFails
  <2>5. ASSUME NEW k \in Calls, FnStep(k)
        PROVE  NestInv'
    <3>1. CASE \E r \in Returned : FnReturns(k, r)
      <4>1. PICK r \in Returned : FnReturns(k, r)
        BY <3>1
      <4>2. AfterFn(k, r) \in IF uses[k] = k THEN {"commit", "rollback"} ELSE Returned
        BY DEF AfterFn
      <4> QED
        BY <4>1, <4>2, StepKeepsNestInv DEF FnReturns
    <3>2. CASE ExecFails(k) \/ \E w \in Writes : Exec(k, w)
      BY <3>2 DEF ExecFails, Exec, callVars, NestInv, Waiting, Ownership, Holding, Under
    <3> QED
      BY <2>5, <3>1, <3>2 DEF FnStep
  <2>6. ASSUME NEW k \in Calls, Finish(k)
        PROVE  NestInv'
    <3>1. state[k] \in {"commit", "rollback"}
      BY <2>6 DEF Finish, CommitSucceeds, CommitFails, CommitAnswerLost, CommitReturns, Rollback
    <3>2. uses[k] = k
      BY <3>1 DEF NestInv, Ownership
    <3>3. CASE Rollback(k)
      <4>1. verdict[k] \in Returned
        BY DEF TypeOK
      <4> QED
        BY <3>2, <3>3, <4>1, StepKeepsNestInv DEF Rollback
    <3>4. CASE CommitSucceeds(k) \/ CommitFails(k) \/ CommitAnswerLost(k)
      <4>1. /\ state[k] = "commit" /\ state' = [state EXCEPT ![k] = "rollback"]
            /\ holds' = holds \ {k} /\ UNCHANGED <<within, uses, pool>>
        BY <3>2, <3>4 DEF CommitSucceeds, CommitFails, CommitAnswerLost, CommitReturns
      <4> QED
        BY <4>1, StepKeepsNestInv
    <3> QED
      BY <2>6, <3>3, <3>4 DEF Finish
  <2>7. ASSUME Close \/ CloseReturns
        PROVE  NestInv'
    BY <2>7 DEF Close, CloseReturns, callVars, NestInv, Waiting, Ownership, Holding, Under
  <2>8. CASE UNCHANGED vars
    BY <2>8 DEF vars, callVars, NestInv, Waiting, Ownership, Holding, Under
  <2> QED
    BY <2>1, <2>2, <2>3, <2>4, <2>5, <2>6, <2>7, <2>8 DEF Next
<1> QED
  BY <1>1, <1>2, TypeCorrect, PTL DEF Spec

(* No connection is held but by a transaction that is not over, and none    *)
(* when Close has returned.                                                 *)
THEOREM NoConnectionLeaks == Spec => []ConnectionsComeBack
<1>1. NestInv => ConnectionsComeBack
  BY DEF NestInv, Holding, ConnectionsComeBack
<1> QED
  BY <1>1, NestInvariant, PTL

-----------------------------------------------------------------------------
(* Who waits for whom.                                                      *)

\* A call is nested in all that its caller is nested in; only with MayNestOwn
\* is there one that waits for a connection.
Chained ==
  /\ \A k \in Calls : k \notin within[k] /\ \A a \in within[k] : within[a] \subseteq within[k]
  /\ MayNestOwn \/ \A k \in Calls : state[k] = "begin" => within[k] = {}

LEMMA ChainedInvariant == Spec => []Chained
<1>1. Init => Chained
  BY DEF Init, Chained
<1>2. TypeOK /\ NestInv /\ Chained /\ [Next]_vars => Chained'
  <2> SUFFICES ASSUME TypeOK, NestInv, Chained, [Next]_vars PROVE Chained'
    OBVIOUS
  <2>1. ASSUME NEW k \in Calls, NEW p \in Calls, state[k] = "none", Running(p),
               within' = [within EXCEPT ![k] = within[p] \cup {p}],
               NEW st \in {"begin", "fn"}, state' = [state EXCEPT ![k] = st],
               st = "begin" => MayNestOwn
        PROVE  Chained'
    <3>1. /\ p # k /\ k \notin within[p] /\ \A j \in Calls : k \notin within[j]
      BY <2>1 DEF Running, NestInv, Ownership, Under
    <3>2. /\ within'[k] = within[p] \cup {p} /\ state'[k] = st
          /\ \A j \in Calls \ {k} : within'[j] = within[j] /\ state'[j] = state[j]
      BY <2>1 DEF TypeOK
    <3>3. ASSUME NEW j \in Calls
          PROVE  j \notin within'[j] /\ \A a \in within'[j] : within'[a] \subseteq within'[j]
      BY <3>1, <3>2 DEF Chained, TypeOK
    <3>4. MayNestOwn \/ \A j \in Calls : state'[j] = "begin" => within'[j] = {}
      BY <2>1, <3>2 DEF Chained
    <3> QED
      BY <3>3, <3>4 DEF Chained
  <2>2. ASSUME UNCHANGED within,
               \A j \in Calls : state'[j] = "begin" => state[j] = "begin" \/ within[j] = {}
        PROVE  Chained'
    BY <2>2 DEF Chained
  <2>3. ASSUME NEW k \in Calls, NEW m \in Modes, CallTop(k, m)
        PROVE  Chained'
    <3>1. within[k] = {}
      BY <2>3 DEF CallTop, NestInv, Ownership
    <3> QED
      BY <2>2, <2>3, <3>1 DEF CallTop, TypeOK
  <2>4. ASSUME NEW k \in Calls, NEW p \in Calls, NEW m \in Modes, CallNested(k, p, m)
        PROVE  Chained'
    BY <2>1, <2>4 DEF CallNested
  <2>5. ASSUME NEW k \in Calls, NEW p \in Calls, CallExisting(k, p)
        PROVE  Chained'
    BY <2>1, <2>5 DEF CallExisting
  <2>6. ASSUME NEW k \in Calls, Begin(k) \/ BeginFails(k) \/ FnStep(k) \/ Finish(k)
        PROVE  Chained'
    <3>1. verdict[k] \in Returned
      BY DEF TypeOK
    <3>2. \A j \in Calls : state'[j] = "begin" => state[j] = "begin"
      BY <2>6, <3>1 DEF TypeOK, Returned, Begin, BeginFails, FnStep, Exec, ExecFails, FnReturns,
                        AfterFn, Finish, CommitSucceeds, CommitFails, CommitAnswerLost,
                        CommitReturns, Rollback, callVars
    <3>3. UNCHANGED within
      BY <2>6 DEF Begin, BeginFails, FnStep, Exec, ExecFails, FnReturns, Finish,
                  CommitSucceeds, CommitFails, CommitAnswerLost, CommitReturns, Rollback, callVars
    <3> QED
      BY <2>2, <3>2, <3>3
  <2>7. CASE Close \/ CloseReturns \/ UNCHANGED vars
    BY <2>2, <2>7 DEF Close, CloseReturns, vars, callVars
  <2> QED
    BY <2>3, <2>4, <2>5, <2>6, <2>7 DEF Next
<1> QED
  BY <1>1, <1>2, TypeCorrect, NestInvariant, PTL DEF Spec

(* A set of numbers has a least element.                                    *)
LEMMA LeastNumber ==
  ASSUME NEW D \in SUBSET Nat, D # {}
  PROVE  \E x \in D : \A y \in D : x <= y
<1>1. PICK x \in D : \A y \in D : ~ (<<y, x>> \in OpToRel(<, Nat))
  BY WFMin, NatLessThanWellFounded
<1>2. ASSUME NEW y \in D PROVE x <= y
  <2>1. ~(y < x)
    BY <1>1 DEF OpToRel
  <2> QED
    BY <2>1
<1> QED
  BY <1>2

(* Of a call under way and those under it, one is innermost: it runs its own *)
(* code or waits for a connection.                                          *)
LEMMA Innermost ==
  ASSUME TypeOK, NestInv, Chained, NEW k \in Calls, state[k] \in Active
  PROVE  \E j \in {k} \cup Under(k) :
           /\ state[j] \in Active
           /\ state[j] = "fn" => Running(j)
<1> DEFINE A == {j \in {k} \cup Under(k) : state[j] \in Active}
           Depth(j) == Cardinality(within[j])
           D == {Cardinality(Calls) - Depth(j) : j \in A}
<1>1. /\ IsFiniteSet(Calls) /\ Cardinality(Calls) \in Nat
      /\ \A j \in Calls : /\ IsFiniteSet(within[j]) /\ Depth(j) \in Nat
                          /\ Depth(j) <= Cardinality(Calls)
  BY TransactionAssumption, FS_Subset, FS_CardinalityType DEF TransactionAssumption, TypeOK
<1>2. D \in SUBSET Nat /\ D # {}
  <2>1. \A j \in Calls : Cardinality(Calls) - Depth(j) \in Nat
    BY <1>1
  <2>2. A \subseteq Calls /\ k \in A
    BY DEF Under
  <2> HIDE DEF Depth, A
  <2> QED
    BY <2>1, <2>2
<1>3. PICK d \in D : \A e \in D : d <= e
  BY <1>2, LeastNumber
<1>4. PICK j \in A : d = Cardinality(Calls) - Depth(j)
  BY <1>3
<1>5. ASSUME state[j] = "fn", NEW i \in Under(j), state[i] \in Active
      PROVE  FALSE
  <2>1. i \in Calls /\ j \in Calls /\ j \in within[i] /\ within[j] \subseteq within[i] /\ j \notin within[j]
    BY <1>5 DEF Chained, Under
  <2>2. i \in A
    BY <1>5, <2>1 DEF Under
  <2>3. Depth(j) < Depth(i)
    <3>1. Cardinality(within[j] \cup {j}) = Depth(j) + 1
      BY <1>1, <2>1, FS_AddElement
    <3>2. Cardinality(within[j] \cup {j}) <= Depth(i)
      BY <1>1, <2>1, FS_Subset
    <3> HIDE DEF Depth
    <3> QED
      BY <1>1, <2>1, <3>1, <3>2
  <2>4. Cardinality(Calls) - Depth(i) \in D
    BY <2>2
  <2> HIDE DEF Depth, A, D
  <2> QED
    BY <1>1, <1>3, <1>4, <2>1, <2>3, <2>4
<1>6. state[j] = "fn" => Running(j)
  BY <1>5 DEF Running, TypeOK, States, Active, Under
<1> QED
  BY <1>4, <1>6

(* Nobody waits for ever but for connections that wait for each other, with *)
(* any number of calls and connections, and whether or not Disconnect has   *)
(* closed the pool under them.                                              *)
THEOREM NoOtherDeadlock == Spec => []OnlyExhaustionBlocks
<1> USE DEF Active
<1>1. ASSUME TypeOK, NestInv, Chained PROVE OnlyExhaustionBlocks
  <2> SUFFICES ASSUME ~Exhausted
               PROVE  /\ (\E k \in Calls : state[k] \in Active) => \E j \in Calls : Proceeds(j)
                      /\ pool = "closing" =>
                           holds = {} \/ \E k \in holds : \E j \in {k} \cup Under(k) : Proceeds(j)
    <3>1. \A k \in Calls : state[k] \in {"none"} \cup Returned \/ state[k] \in Active
      BY <1>1 DEF TypeOK, States
    <3> QED
      BY <3>1 DEF OnlyExhaustionBlocks
  <2>1. ASSUME NEW k \in Calls, state[k] \in Active,
               \A j \in {k} \cup Under(k) : state[j] = "begin" => FreeConnection
        PROVE  \E j \in {k} \cup Under(k) : Proceeds(j)
    <3>1. PICK j \in {k} \cup Under(k) : state[j] \in Active /\ (state[j] = "fn" => Running(j))
      BY <1>1, <2>1, Innermost
    <3> QED
      BY <2>1, <3>1 DEF Proceeds
  <2>2. ASSUME NEW k \in holds PROVE k \in Calls /\ state[k] \in Active \ {"begin"}
    BY <1>1 DEF NestInv, Holding, TypeOK
  <2>3. CASE FreeConnection
    BY <2>1, <2>2, <2>3 DEF Under
  <2>4. CASE ~FreeConnection
    <3>1. Cardinality(holds) = MaxConns
      <4>1. Cardinality(holds) \in Nat /\ MaxConns \in Nat /\ Cardinality(holds) <= MaxConns
        BY <1>1, TransactionAssumption, FS_Subset, FS_CardinalityType
        DEF TransactionAssumption, TypeOK
      <4> QED
        BY <2>4, <4>1 DEF FreeConnection
    <3>2. PICK h \in holds : \A j \in Under(h) : state[j] # "begin"
      BY <3>1 DEF Exhausted
    <3>3. \E j \in {h} \cup Under(h) : Proceeds(j)
      BY <2>1, <2>2, <3>2
    <3> QED
      BY <2>2, <3>2, <3>3 DEF Under
  <2> QED
    BY <2>3, <2>4
<1> QED
  BY <1>1, TypeCorrect, NestInvariant, ChainedInvariant, PTL

(* If functions hand on the transaction they were given, the pool is never  *)
(* exhausted, however small it is and however deep the calls are nested.    *)
THEOREM ExistingNeverExhausts == Spec => [](MayNestOwn \/ ~Exhausted)
<1>1. ASSUME Chained, ~MayNestOwn, Exhausted PROVE FALSE
  <2>1. PICK k \in holds : TRUE
    <3>1. Cardinality(holds) # 0
      BY <1>1, TransactionAssumption DEF Exhausted, TransactionAssumption
    <3> QED
      BY <3>1, FS_EmptySet
  <2>2. PICK j \in Under(k) : state[j] = "begin"
    BY <1>1, <2>1 DEF Exhausted
  <2> QED
    BY <1>1, <2>2 DEF Under, Chained
<1>2. Chained => MayNestOwn \/ ~Exhausted
  BY <1>1
<1> QED
  BY <1>2, ChainedInvariant, PTL

-----------------------------------------------------------------------------
(* What becomes of the writes.                                              *)

\* A write is in the transaction its call runs in, and nowhere else.
Origin ==
  \A o \in Calls : \A x \in wrote[o] : uses[x[1]] = o /\ state[x[1]] # "none"

\* What is durable was written in a transaction.
Recorded == \A x \in committed : x \in wrote[uses[x[1]]]

Settled(k, v) ==
  /\ v = "ok" => Durable(k)
  /\ v = "panic" => Undone(k)
  /\ v = "error" => Undone(k) \/ (k \in unsure /\ Durable(k))

FateOf(k) ==
  uses[k] = k =>
    /\ state[k] \in {"none", "begin", "fn", "commit"} => Undone(k)
    /\ state[k] = "commit" => verdict[k] = "ok"
    /\ state[k] = "rollback" => Settled(k, verdict[k])
    /\ state[k] \in Returned => Settled(k, state[k])

OutcomeInv == Origin /\ Recorded /\ \A k \in Calls : FateOf(k)

(* Steps that touch neither the writes nor who runs where matter only to    *)
(* the call that takes them.                                                *)
LEMMA CallStepKeepsOutcome ==
  ASSUME TypeOK, OutcomeInv, NEW k \in Calls, UNCHANGED <<wrote, committed, unsure, uses>>,
         \A j \in Calls \ {k} : state'[j] = state[j] /\ verdict'[j] = verdict[j],
         state'[k] # "none", FateOf(k)'
  PROVE  OutcomeInv'
<1>1. Origin'
  <2> SUFFICES ASSUME NEW o \in Calls, NEW x \in wrote[o]
               PROVE  state'[x[1]] # "none"
    BY DEF OutcomeInv, Origin
  <2>1. x[1] \in Calls /\ state[x[1]] # "none"
    BY DEF OutcomeInv, Origin, TypeOK
  <2> QED
    BY <2>1
<1>2. Recorded'
  BY DEF OutcomeInv, Recorded
<1>3. ASSUME NEW j \in Calls \ {k}
      PROVE  FateOf(j)'
  BY DEF OutcomeInv, FateOf, Settled, Durable, Undone
<1> QED
  BY <1>1, <1>2, <1>3 DEF OutcomeInv

(* A call that joins the transaction of its caller has written nothing yet. *)
LEMMA JoinKeepsOutcome ==
  ASSUME TypeOK, NestInv, OutcomeInv, NEW k \in Calls, NEW p \in Calls, CallExisting(k, p)
  PROVE  OutcomeInv'
<1>1. /\ state[k] = "none" /\ state'[k] = "fn" /\ state[p] = "fn"
      /\ uses'[k] = uses[p] /\ uses[p] # k
      /\ UNCHANGED <<wrote, committed, unsure, verdict>>
  <2>1. /\ state[k] = "none" /\ state'[k] = "fn" /\ state[p] = "fn"
        /\ uses'[k] = uses[p] /\ UNCHANGED <<wrote, committed, unsure, verdict>>
    BY DEF CallExisting, Running, TypeOK, dbVars
  <2>2. uses[p] # k
    BY <2>1 DEF NestInv, Ownership, Under
  <2> QED
    BY <2>1, <2>2
<1>2. \A j \in Calls \ {k} : state'[j] = state[j] /\ uses'[j] = uses[j]
  BY DEF CallExisting, TypeOK
<1>3. \A o \in Calls : \A x \in wrote[o] : x[1] \in Calls \ {k}
  BY <1>1 DEF OutcomeInv, Origin, TypeOK
<1>4. Origin'
  BY <1>1, <1>2, <1>3 DEF OutcomeInv, Origin
<1>5. \A x \in committed : x[1] \in Calls \ {k} /\ x \in wrote[uses[x[1]]]
  <2> SUFFICES ASSUME NEW x \in committed
               PROVE  x[1] \in Calls \ {k} /\ x \in wrote[uses[x[1]]]
    OBVIOUS
  <2>1. x[1] \in Calls /\ uses[x[1]] \in Calls /\ x \in wrote[uses[x[1]]]
    BY DEF OutcomeInv, Recorded, TypeOK
  <2> QED
    BY <1>3, <2>1
<1>6. Recorded'
  BY <1>1, <1>2, <1>5 DEF Recorded
<1>7. ASSUME NEW j \in Calls
      PROVE  FateOf(j)'
  <2>1. CASE j = k
    <3>1. uses'[k] # k
      BY <1>1
    <3> QED
      BY <2>1, <3>1 DEF FateOf
  <2>2. CASE j # k
    BY <1>1, <1>2, <2>2 DEF OutcomeInv, FateOf, Settled, Durable, Undone
  <2> QED
    BY <2>1, <2>2
<1> QED
  BY <1>4, <1>6, <1>7 DEF OutcomeInv

(* A write goes to a transaction that is still undecided.                   *)
LEMMA ExecKeepsOutcome ==
  ASSUME TypeOK, NestInv, OutcomeInv, NEW k \in Calls, NEW w \in Writes, Exec(k, w)
  PROVE  OutcomeInv' /\ state[uses[k]] = "fn"
<1> DEFINE o == uses[k]
<1>1. o \in Calls /\ uses[o] = o /\ state[k] = "fn"
  BY DEF Exec, Running, NestInv, Ownership, TypeOK
<1>2. state[o] = "fn"
  BY <1>1 DEF NestInv, Ownership, Waiting, Active
<1>3. /\ wrote' = [wrote EXCEPT ![o] = @ \cup {<<k, w>>}]
      /\ UNCHANGED <<state, within, uses, verdict, committed, unsure>>
  BY DEF Exec, callVars
<1>4. /\ wrote'[o] = wrote[o] \cup {<<k, w>>}
      /\ \A j \in Calls \ {o} : wrote'[j] = wrote[j]
  BY <1>1, <1>3 DEF TypeOK
<1>5. <<k, w>> \notin committed
  <2> SUFFICES ASSUME <<k, w>> \in committed PROVE FALSE
    OBVIOUS
  <2>1. <<k, w>> \in wrote[o]
    BY DEF OutcomeInv, Recorded
  <2>2. Undone(o)
    BY <1>1, <1>2 DEF OutcomeInv, FateOf
  <2> QED
    BY <2>1, <2>2 DEF Undone
<1>6. Origin'
  <2> SUFFICES ASSUME NEW j \in Calls, NEW x \in wrote'[j]
               PROVE  uses[x[1]] = j /\ state[x[1]] # "none"
    BY <1>3 DEF Origin
  <2>1. CASE x \in wrote[j]
    BY <2>1 DEF OutcomeInv, Origin
  <2>2. CASE x \notin wrote[j]
    <3>1. j = o /\ x = <<k, w>>
      BY <1>4, <2>2
    <3> QED
      BY <1>1, <3>1
  <2> QED
    BY <2>1, <2>2
<1>7. Recorded'
  <2> SUFFICES ASSUME NEW x \in committed PROVE x \in wrote'[uses[x[1]]]
    BY <1>3 DEF Recorded
  <2>1. uses[x[1]] \in Calls /\ x \in wrote[uses[x[1]]]
    BY DEF OutcomeInv, Recorded, TypeOK
  <2> QED
    BY <1>4, <2>1
<1>8. ASSUME NEW j \in Calls
      PROVE  FateOf(j)'
  <2>1. CASE j = o
    <3>1. Undone(o)
      BY <1>1, <1>2 DEF OutcomeInv, FateOf
    <3>2. Undone(j)'
      <4>1. (wrote[o] \cup {<<k, w>>}) \cap committed = {}
        BY <1>5, <3>1 DEF Undone
      <4>2. wrote'[o] \cap committed' = {}
        BY <1>3, <1>4, <4>1
      <4> QED
        BY <2>1, <4>2 DEF Undone
    <3>3. state'[j] = "fn"
      BY <1>2, <1>3, <2>1
    <3> QED
      BY <3>2, <3>3 DEF FateOf, Returned
  <2>2. CASE j # o
    BY <1>3, <1>4, <2>2 DEF OutcomeInv, FateOf, Settled, Durable, Undone
  <2> QED
    BY <2>1, <2>2
<1> QED
  BY <1>2, <1>6, <1>7, <1>8 DEF OutcomeInv

(* Two transactions have no write in common.                                *)
LEMMA DisjointTransactions ==
  ASSUME OutcomeInv, NEW j \in Calls, NEW k \in Calls, j # k
  PROVE  wrote[j] \cap wrote[k] = {}
BY DEF OutcomeInv, Origin

(* The end of a COMMIT settles its own transaction and no other.            *)
LEMMA CommitKeepsOutcome ==
  ASSUME TypeOK, NestInv, OutcomeInv, NEW k \in Calls,
         CommitSucceeds(k) \/ CommitFails(k) \/ CommitAnswerLost(k)
  PROVE  OutcomeInv'
<1>1. /\ state[k] = "commit" /\ uses[k] = k /\ Undone(k)
      /\ state' = [state EXCEPT ![k] = "rollback"]
      /\ UNCHANGED <<within, uses, wrote>>
  BY DEF CommitSucceeds, CommitFails, CommitAnswerLost, CommitReturns, NestInv, Ownership,
     OutcomeInv, FateOf
<1>2. /\ state'[k] = "rollback"
      /\ \A j \in Calls \ {k} : state'[j] = state[j] /\ verdict'[j] = verdict[j]
  BY <1>1 DEF CommitSucceeds, CommitFails, CommitAnswerLost, CommitReturns, TypeOK
<1>3. \/ /\ verdict'[k] = "ok" /\ committed' = committed \cup wrote[k] /\ unsure' = unsure
      \/ /\ verdict'[k] = "error" /\ committed' = committed /\ unsure' = unsure
      \/ /\ verdict'[k] = "error" /\ committed' = committed \cup wrote[k]
         /\ unsure' = unsure \cup {k}
  BY <1>1 DEF CommitSucceeds, CommitFails, CommitAnswerLost, CommitReturns, TypeOK
<1>4. Origin'
  <2> SUFFICES ASSUME NEW o \in Calls, NEW x \in wrote[o]
               PROVE  uses[x[1]] = o /\ state'[x[1]] # "none"
    BY <1>1 DEF Origin
  <2>1. x[1] \in Calls /\ uses[x[1]] = o /\ state[x[1]] # "none"
    BY DEF OutcomeInv, Origin, TypeOK
  <2> QED
    BY <1>2, <2>1
<1>5. Recorded'
  <2>1. \A x \in wrote[k] : uses[x[1]] = k
    BY DEF OutcomeInv, Origin
  <2> QED
    BY <1>1, <1>3, <2>1 DEF OutcomeInv, Recorded
<1>6. FateOf(k)'
  <2>1. Settled(k, verdict[k])'
    BY <1>1, <1>3 DEF Settled, Durable, Undone
  <2> QED
    BY <1>2, <2>1 DEF FateOf, Returned
<1>7. ASSUME NEW j \in Calls, j # k
      PROVE  FateOf(j)'
  <2>1. wrote[j] \cap wrote[k] = {}
    BY <1>7, DisjointTransactions
  <2>2. /\ Undone(j) => Undone(j)'
        /\ Durable(j) => Durable(j)'
        /\ j \in unsure => j \in unsure'
    BY <1>1, <1>3, <2>1 DEF Undone, Durable
  <2>3. uses'[j] = uses[j] /\ state'[j] = state[j] /\ verdict'[j] = verdict[j]
    BY <1>1, <1>2, <1>7
  <2> QED
    BY <2>2, <2>3 DEF OutcomeInv, FateOf, Settled
<1> QED
  BY <1>4, <1>5, <1>6, <1>7 DEF OutcomeInv

(* What the calls return tells what became of the writes, in every state.   *)
LEMMA OutcomeInvariant == Spec => []OutcomeInv
<1>1. Init => OutcomeInv
  BY DEF Init, OutcomeInv, Origin, Recorded, FateOf, Undone, Returned
<1>2. TypeOK /\ NestInv /\ OutcomeInv /\ [Next]_vars => OutcomeInv'
  <2> SUFFICES ASSUME TypeOK, NestInv, OutcomeInv, [Next]_vars PROVE OutcomeInv'
    OBVIOUS
  <2>1. ASSUME NEW k \in Calls, NEW st \in {"begin", "fn"}, state[k] \in {"none", "begin"},
               state' = [state EXCEPT ![k] = st],
               UNCHANGED <<verdict, wrote, committed, unsure, uses>>
        PROVE  OutcomeInv'
    <3>1. state'[k] = st /\ \A j \in Calls \ {k} : state'[j] = state[j]
      BY <2>1 DEF TypeOK
    <3>2. FateOf(k)'
      BY <2>1, <3>1 DEF OutcomeInv, FateOf, Undone, Returned
    <3> QED
      BY <2>1, <3>1, <3>2, CallStepKeepsOutcome
  <2>2. ASSUME NEW k \in Calls,
               \/ \E m \in Modes : CallTop(k, m)
               \/ \E p \in Calls, m \in Modes : CallNested(k, p, m)
               \/ Begin(k)
        PROVE  OutcomeInv'
    BY <2>1, <2>2 DEF CallTop, CallNested, Begin, dbVars
  <2>3. ASSUME NEW k \in Calls, BeginFails(k)
        PROVE  OutcomeInv'
    <3>1. state[k] = "begin" /\ state'[k] = "error" /\ \A j \in Calls \ {k} : state'[j] = state[j]
      BY <2>3 DEF BeginFails, TypeOK
    <3>2. UNCHANGED <<verdict, wrote, committed, unsure, uses>>
      BY <2>3 DEF BeginFails, dbVars
    <3>3. FateOf(k)'
      BY <3>1, <3>2 DEF OutcomeInv, FateOf, Settled, Durable, Undone, Returned
    <3> QED
      BY <3>1, <3>2, <3>3, CallStepKeepsOutcome
  <2>4. ASSUME NEW k \in Calls, NEW p \in Calls, CallExisting(k, p)
        PROVE  OutcomeInv'
    BY <2>4, JoinKeepsOutcome
  <2>5. ASSUME NEW k \in Calls, NEW w \in Writes, Exec(k, w)
        PROVE  OutcomeInv'
    BY <2>5, ExecKeepsOutcome
  <2>6. ASSUME NEW k \in Calls, NEW r \in Returned, FnReturns(k, r)
        PROVE  OutcomeInv'
    <3>1. /\ state[k] = "fn" /\ state'[k] = AfterFn(k, r) /\ verdict'[k] = r
          /\ \A j \in Calls \ {k} : state'[j] = state[j] /\ verdict'[j] = verdict[j]
          /\ UNCHANGED <<wrote, committed, unsure, uses>>
      BY <2>6 DEF FnReturns, Running, TypeOK, dbVars
    <3>2. AfterFn(k, r) # "none"
      BY DEF AfterFn, Returned
    <3>3. FateOf(k)'
      <4>1. CASE uses[k] # k
        BY <3>1, <4>1 DEF FateOf
      <4>2. CASE uses[k] = k
        <5>1. Undone(k) /\ AfterFn(k, r) = IF r = "ok" THEN "commit" ELSE "rollback"
          BY <3>1, <4>2 DEF OutcomeInv, FateOf, AfterFn
        <5>2. Undone(k)'
          BY <3>1, <5>1 DEF Undone
        <5> QED
          BY <3>1, <5>1, <5>2 DEF FateOf, Settled, Returned
      <4> QED
        BY <4>1, <4>2
    <3> QED
      BY <3>1, <3>2, <3>3, CallStepKeepsOutcome
  <2>7. ASSUME NEW k \in Calls, CommitSucceeds(k) \/ CommitFails(k) \/ CommitAnswerLost(k)
        PROVE  OutcomeInv'
    BY <2>7, CommitKeepsOutcome
  <2>8. ASSUME NEW k \in Calls, Rollback(k)
        PROVE  OutcomeInv'
    <3>1. /\ state[k] = "rollback" /\ state'[k] = verdict[k] /\ verdict[k] \in Returned
          /\ \A j \in Calls \ {k} : state'[j] = state[j]
          /\ UNCHANGED <<verdict, wrote, committed, unsure, uses>>
      BY <2>8 DEF Rollback, TypeOK, dbVars
    <3>2. FateOf(k)'
      BY <3>1 DEF OutcomeInv, FateOf, Settled, Durable, Undone, Returned
    <3>3. state'[k] # "none"
      BY <3>1 DEF Returned
    <3> QED
      BY <3>1, <3>2, <3>3, CallStepKeepsOutcome
  <2>9. ASSUME UNCHANGED <<state, verdict, uses, wrote, committed, unsure>>
        PROVE  OutcomeInv'
    BY <2>9 DEF OutcomeInv, Origin, Recorded, FateOf, Settled, Durable, Undone
  <2>10. ASSUME NEW k \in Calls, ExecFails(k)
         PROVE  OutcomeInv'
    BY <2>9, <2>10 DEF ExecFails, callVars
  <2>11. ASSUME Close \/ CloseReturns \/ UNCHANGED vars
         PROVE  OutcomeInv'
    BY <2>9, <2>11 DEF Close, CloseReturns, vars, callVars, dbVars
  <2> QED
    BY <2>2, <2>3, <2>4, <2>5, <2>6, <2>7, <2>8, <2>10, <2>11 DEF Next, FnStep, Finish
<1> QED
  BY <1>1, <1>2, TypeCorrect, NestInvariant, PTL DEF Spec

(* nil from WithTX means that all is durable, a panic that nothing is, and  *)
(* an error that nothing is unless the answer to the COMMIT was lost.       *)
THEOREM OutcomeIsTold == Spec => []ReturnTellsOutcome
<1>1. OutcomeInv => ReturnTellsOutcome
  BY DEF OutcomeInv, FateOf, Settled, ReturnTellsOutcome, Returned
<1> QED
  BY <1>1, OutcomeInvariant, PTL

-----------------------------------------------------------------------------
(* Transaction implements UnitOfWork.                                       *)

Fates == [k \in Calls |-> Decision(k)]

\* Transactions that did not take the step are as decided as they were.
OthersKeep(k) ==
  \A j \in Calls \ {k} : /\ state'[j] = state[j] /\ wrote'[j] = wrote[j]
                         /\ wrote[j] # {} => (Durable(j)' <=> Durable(j))

(* A step of one call changes no other decision.                            *)
LEMMA OneDecision ==
  ASSUME NEW k \in Calls, OthersKeep(k)
  PROVE  Fates' = [Fates EXCEPT ![k] = Decision(k)']
<1>1. \A j \in Calls \ {k} : Decision(j)' = Decision(j)
  BY DEF OthersKeep, Decision
<1> QED
  BY <1>1 DEF Fates

(* A call that ends without a COMMIT that succeeded drops its unit.         *)
LEMMA EndDropsUnit ==
  ASSUME NEW k \in Calls, OthersKeep(k), UNCHANGED <<wrote, committed>>,
         Decision(k) = "open", Decision(k)' = "dropped"
  PROVE  Units!Drop(k)
<1>1. Fates' = [Fates EXCEPT ![k] = "dropped"] /\ Fates[k] = "open"
  BY OneDecision DEF Fates
<1> QED
  BY <1>1 DEF Units!Drop, Fates

(* A nested call writes in the transaction it joined, never in its own.     *)
LEMMA JoinedWroteNothing ==
  ASSUME TypeOK, OutcomeInv, NestInv, NEW k \in Calls, uses[k] # k
  PROVE  wrote[k] = {}
<1> SUFFICES ASSUME NEW x \in wrote[k] PROVE FALSE
  OBVIOUS
<1>1. uses[x[1]] = k /\ x[1] \in Calls
  BY DEF OutcomeInv, Origin, TypeOK
<1> QED
  BY <1>1 DEF NestInv, Ownership

(* A write maps to a write of the unit that is still open.                  *)
LEMMA ExecIsWrite ==
  ASSUME TypeOK, NestInv, OutcomeInv, NEW k \in Calls, NEW w \in Writes, Exec(k, w)
  PROVE  Units!Write(uses[k])
<1> DEFINE o == uses[k]
<1>1. o \in Calls /\ state[o] = "fn"
  BY ExecKeepsOutcome DEF TypeOK
<1>2. /\ wrote' = [wrote EXCEPT ![o] = @ \cup {<<k, w>>}] /\ <<k, w>> \in Calls \X Writes
      /\ UNCHANGED <<state, committed>>
  BY DEF Exec, callVars
<1>3. \A j \in Calls \ {o} : wrote'[j] = wrote[j]
  BY <1>1, <1>2 DEF TypeOK
<1>4. \A j \in Calls : Decision(j)' = Decision(j)
  <2>1. \A j \in Calls \ {o} : Decision(j)' = Decision(j)
    BY <1>2, <1>3 DEF Decision, Durable
  <2>2. ASSUME NEW j \in Calls, j = o
        PROVE  Decision(j)' = Decision(j)
    BY <1>1, <1>2, <2>2 DEF Decision, Returned
  <2> QED
    BY <2>1, <2>2
<1>5. Fates' = Fates /\ Fates[o] = "open"
  <2>1. Decision(o) = "open"
    BY <1>1 DEF Decision, Returned
  <2> QED
    BY <1>1, <1>4, <2>1 DEF Fates
<1> QED
  BY <1>2, <1>5 DEF Units!Write, Fates

(* The end of a COMMIT decides the unit.                                    *)
LEMMA CommitDecides ==
  ASSUME TypeOK, NestInv, OutcomeInv, NEW k \in Calls,
         CommitSucceeds(k) \/ CommitFails(k) \/ CommitAnswerLost(k)
  PROVE  Units!Commit(k) \/ Units!Drop(k)
<1>1. /\ state[k] = "commit" /\ uses[k] = k /\ Undone(k)
      /\ state' = [state EXCEPT ![k] = "rollback"] /\ wrote' = wrote
      /\ committed' \in {committed, committed \cup wrote[k]}
  BY DEF CommitSucceeds, CommitFails, CommitAnswerLost, CommitReturns, NestInv, Ownership,
     OutcomeInv, FateOf
<1>2. state'[k] = "rollback" /\ \A j \in Calls \ {k} : state'[j] = state[j]
  BY <1>1 DEF TypeOK
<1>3. OthersKeep(k)
  <2> SUFFICES ASSUME NEW j \in Calls \ {k}
               PROVE  Durable(j)' <=> Durable(j)
    BY <1>1, <1>2 DEF OthersKeep
  <2>1. wrote[j] \cap wrote[k] = {}
    BY DisjointTransactions
  <2> QED
    BY <1>1, <2>1 DEF Durable
<1>4. Decision(k) = "open" /\ Fates[k] = "open"
  BY <1>1 DEF Decision, Returned, Fates
<1>5. CASE wrote[k] # {} /\ committed' = committed \cup wrote[k]
  <2>1. Decision(k)' = "committed"
    BY <1>1, <1>2, <1>5 DEF Decision, Durable, Returned
  <2>2. Fates' = [Fates EXCEPT ![k] = "committed"]
    BY <1>3, <2>1, OneDecision
  <2> QED
    BY <1>1, <1>4, <1>5, <2>2 DEF Units!Commit, Fates
<1>6. CASE wrote[k] = {} \/ committed' = committed
  <2>1. committed' = committed
    BY <1>1, <1>6
  <2>2. Decision(k)' = "dropped"
    BY <1>1, <1>2, <2>1 DEF Decision, Durable, Undone, Returned
  <2> QED
    BY <1>1, <1>3, <1>4, <2>1, <2>2, EndDropsUnit
<1> QED
  BY <1>1, <1>5, <1>6

(* The database shows units of work: each is decided once and whole, and    *)
(* nothing of it shows before, whichever calls wrote it.                    *)
THEOREM TransactionsAreAtomic == Spec => AtomicUnits
<1>1. Init => Units!AbsInit
  BY DEF Init, Units!AbsInit, Decision, Returned
<1>2. TypeOK /\ NestInv /\ OutcomeInv /\ [Next]_vars => [Units!AbsNext]_(Units!absVars)
  <2> SUFFICES ASSUME TypeOK, NestInv, OutcomeInv, [Next]_vars
               PROVE  [Units!AbsNext]_(Units!absVars)
    OBVIOUS
  <2>1. ASSUME UNCHANGED <<wrote, committed>>, \A j \in Calls : Decision(j)' = Decision(j)
        PROVE  UNCHANGED Units!absVars
    BY <2>1 DEF Units!absVars
  <2>2. ASSUME NEW k \in Calls, OthersKeep(k), UNCHANGED <<wrote, committed>>,
               Decision(k)' = Decision(k)
        PROVE  UNCHANGED Units!absVars
    BY <2>1, <2>2 DEF OthersKeep, Decision
  <2>3. ASSUME NEW k \in Calls,
               \/ \E m \in Modes : CallTop(k, m)
               \/ \E p \in Calls, m \in Modes : CallNested(k, p, m)
               \/ \E p \in Calls : CallExisting(k, p)
               \/ Begin(k)
        PROVE  UNCHANGED Units!absVars
    <3>1. /\ OthersKeep(k) /\ UNCHANGED <<wrote, committed>>
          /\ state[k] \in {"none", "begin"} /\ state'[k] \in {"begin", "fn"}
      BY <2>3 DEF CallTop, CallNested, CallExisting, Begin, OthersKeep, Durable, TypeOK, dbVars
    <3> QED
      BY <2>2, <3>1 DEF Decision, Returned
  <2>4. ASSUME NEW k \in Calls, BeginFails(k)
        PROVE  Units!Drop(k)
    <3>1. /\ OthersKeep(k) /\ UNCHANGED <<wrote, committed, uses>>
          /\ state[k] = "begin" /\ state'[k] = "error"
      BY <2>4 DEF BeginFails, OthersKeep, Durable, TypeOK, dbVars
    <3>2. Undone(k) /\ Decision(k) = "open"
      BY <3>1 DEF OutcomeInv, FateOf, NestInv, Ownership, Decision, Returned
    <3>3. Decision(k)' = "dropped"
      BY <3>1, <3>2 DEF Decision, Durable, Undone, Returned
    <3> QED
      BY <3>1, <3>2, <3>3, EndDropsUnit
  <2>5. ASSUME NEW k \in Calls, NEW r \in Returned, FnReturns(k, r)
        PROVE  Units!Drop(k) \/ UNCHANGED Units!absVars
    <3>1. /\ OthersKeep(k) /\ UNCHANGED <<wrote, committed>>
          /\ state[k] = "fn" /\ state'[k] = AfterFn(k, r)
      BY <2>5 DEF FnReturns, Running, OthersKeep, Durable, TypeOK, dbVars
    <3>2. Decision(k) = "open"
      BY <3>1 DEF Decision, Returned
    <3>3. CASE AfterFn(k, r) = "commit"
      <4>1. Decision(k)' = "open"
        BY <3>1, <3>3 DEF Decision, Returned
      <4> QED
        BY <2>2, <3>1, <3>2, <4>1
    <3>4. CASE AfterFn(k, r) # "commit"
      <4>1. Undone(k)
        <5>1. CASE uses[k] = k
          BY <3>1, <5>1 DEF OutcomeInv, FateOf
        <5>2. CASE uses[k] # k
          BY <5>2, JoinedWroteNothing DEF Undone
        <5> QED
          BY <5>1, <5>2
      <4>2. AfterFn(k, r) \in {"rollback"} \cup Returned
        BY <3>4 DEF AfterFn
      <4>3. Decision(k)' = "dropped"
        BY <3>1, <4>1, <4>2 DEF Decision, Durable, Undone
      <4> QED
        BY <3>1, <3>2, <4>3, EndDropsUnit
    <3> QED
      BY <3>3, <3>4
  <2>6. ASSUME NEW k \in Calls, Rollback(k)
        PROVE  UNCHANGED Units!absVars
    <3>1. /\ OthersKeep(k) /\ UNCHANGED <<wrote, committed>>
          /\ state[k] = "rollback" /\ state'[k] \in Returned
      BY <2>6 DEF Rollback, OthersKeep, Durable, TypeOK, dbVars
    <3> QED
      BY <2>2, <3>1 DEF Decision, Durable
  <2>7. ASSUME \/ \E k \in Calls : ExecFails(k)
               \/ Close \/ CloseReturns \/ UNCHANGED vars
        PROVE  UNCHANGED Units!absVars
    BY <2>1, <2>7 DEF ExecFails, Close, CloseReturns, vars, callVars, dbVars, Decision, Durable
  <2> QED
    BY <2>3, <2>4, <2>5, <2>6, <2>7, ExecIsWrite, CommitDecides
    DEF Next, FnStep, Finish, Units!AbsNext, TypeOK
<1> QED
  BY <1>1, <1>2, TypeCorrect, NestInvariant, OutcomeInvariant, PTL
  DEF Spec, AtomicUnits, Units!AbsSpec
=============================================================================
