-------------------------- MODULE CacheAsideProofs --------------------------
(***************************************************************************)
(* Proofs about CacheAside for any number of readers and writers, any      *)
(* timeouts and any number of changes.                                     *)
(***************************************************************************)
EXTENDS CacheAside, TLAPS

(* Types, with what the two invariants below need: readers only have values *)
(* that were true, and a call that succeeded has one.                       *)
LoadedInv ==
  /\ TypeOK
  /\ \A r \in Readers : data[r] \in 0 .. truth
  /\ NilMeansLoaded

(* Init satisfies the invariant.                                            *)
LEMMA InitLoaded == Init => LoadedInv
  BY CacheAsideAssumption DEF Init, LoadedInv, TypeOK, States, NilMeansLoaded, CacheAsideAssumption

(* Every step keeps it.                                                     *)
LEMMA StepLoaded == LoadedInv /\ [Next]_vars => LoadedInv'
<1> SUFFICES ASSUME LoadedInv, [Next]_vars PROVE LoadedInv'
  OBVIOUS
<1> USE DEF LoadedInv, TypeOK, States, NilMeansLoaded, Goto, Return
<1>0. /\ MaxValue \in Nat /\ truth \in Nat /\ truth # 0 /\ truth \in 0 .. truth
      /\ 0 \in 0 .. truth /\ Timeouts \subseteq Nat /\ Slides \subseteq Nat
  BY CacheAsideAssumption DEF CacheAsideAssumption
<1>1. ASSUME NEW r \in Readers, Call(r)
      PROVE  LoadedInv'
  <2>1. ASSUME NEW t \in Timeouts, CallWrapped(r, t)
        PROVE  LoadedInv'
    BY <1>0, <2>1 DEF CallWrapped
  <2>2. CASE CallBypass(r)
    BY <1>0, <2>2 DEF CallBypass
  <2>3. ASSUME NEW t \in Slides, CallSlide(r, t)
        PROVE  LoadedInv'
    BY <1>0, <2>3 DEF CallSlide
  <2> QED
    BY <1>1, <2>1, <2>2, <2>3 DEF Call
<1>2. ASSUME NEW r \in Readers, Hit(r) \/ SlideHit(r)
      PROVE  LoadedInv'
  BY <1>0, <1>2 DEF Hit, SlideHit
<1>3. ASSUME NEW r \in Readers, GetFails(r) \/ FallbackFails(r) \/ SetFails(r) \/ SlideFails(r)
      PROVE  LoadedInv'
  BY <1>3 DEF GetFails, FallbackFails, SetFails, SlideFails
<1>4. ASSUME NEW r \in Readers, FallbackLoads(r)
      PROVE  LoadedInv'
  <2>1. CASE cached[r]
    BY <1>0, <1>4, <2>1 DEF FallbackLoads
  <2>2. CASE ~cached[r]
    BY <1>0, <1>4, <2>2 DEF FallbackLoads
  <2> QED
    BY <2>1, <2>2
<1>5. ASSUME NEW r \in Readers, NEW v \in {"nil", "error"}, SetStores(r, v)
      PROVE  LoadedInv'
  <2>1. data[r] # 0 /\ entry' = data[r] /\ ttl' = timeout[r]
    BY <1>5 DEF SetStores, Store
  <2> QED
    BY <1>5, <2>1 DEF SetStores
<1>6. ASSUME NEW r \in Readers, NEW v \in {"nil", "error"}, Expire(r, v)
      PROVE  LoadedInv'
  <2>1. ttl' \in Nat /\ (entry = 0 => ttl' = 0)
    BY <1>6 DEF Expire
  <2> QED
    BY <1>6, <2>1 DEF Expire
<1>7. ASSUME NEW w \in Writers, Write(w)
      PROVE  LoadedInv'
  <2>1. CASE Change(w)
    <3>1. truth' \in 1 .. MaxValue /\ 0 .. truth \subseteq 0 .. truth'
      BY <1>0, <2>1 DEF Change
    <3> QED
      BY <2>1, <3>1 DEF Change, readVars
  <2>2. CASE Delete(w) \/ DeleteFails(w)
    BY <1>0, <2>2 DEF Delete, DeleteFails, readVars
  <2> QED
    BY <1>7, <2>1, <2>2 DEF Write
<1>8. CASE Tick
  <2>1. ttl' \in Nat /\ entry' \in 0 .. truth /\ (entry' = 0 => ttl' = 0)
    BY <1>0, <1>8 DEF Tick
  <2> QED
    BY <1>8, <2>1 DEF Tick, readVars
<1>9. CASE UNCHANGED vars
  BY <1>9 DEF vars, readVars
<1> QED
  BY <1>1, <1>2, <1>3, <1>4, <1>5, <1>6, <1>7, <1>8, <1>9 DEF Next, Wrapped, Slide

-----------------------------------------------------------------------------
(* Every state has the types TypeOK gives it.                               *)
THEOREM TypeCorrect == Spec => []TypeOK
<1>1. LoadedInv => TypeOK
  BY DEF LoadedInv
<1> QED
  BY <1>1, InitLoaded, StepLoaded, PTL DEF Spec

(* A nil error means that data was filled, and Set is given only what a     *)
(* fallback has loaded.                                                     *)
THEOREM NilIsLoaded == Spec => []NilMeansLoaded
<1>1. LoadedInv => NilMeansLoaded
  BY DEF LoadedInv
<1> QED
  BY <1>1, InitLoaded, StepLoaded, PTL DEF Spec

-----------------------------------------------------------------------------
(* An old value with no Delete to come was stored by a Wrapped that had     *)
(* loaded it before the change, or left behind by a Delete that failed.     *)
THEOREM StaleByRaceOnly == Spec => StaleOnlyByRace
<1>1. LoadedInv /\ [Next]_vars
        => [Coherent /\ ~Coherent' => StoresOld \/ \E w \in Writers : DeleteFails(w)]_vars
  <2> SUFFICES ASSUME LoadedInv, Next, Coherent, ~Coherent'
               PROVE  StoresOld \/ \E w \in Writers : DeleteFails(w)
    OBVIOUS
  <2>0. truth \in Nat /\ truth # 0 /\ \A r \in Readers : data[r] \in 0 .. truth
    BY CacheAsideAssumption DEF LoadedInv, TypeOK, CacheAsideAssumption
  <2>1. ~(UNCHANGED <<truth, entry, writing>>)
    BY DEF Coherent
  <2>2. ASSUME NEW r \in Readers, Call(r) \/ Slide(r)
        PROVE  FALSE
    BY <2>1, <2>2 DEF Call, CallWrapped, CallBypass, CallSlide, Slide, SlideHit, Expire, SlideFails
  <2>3. ASSUME NEW r \in Readers, Wrapped(r)
        PROVE  StoresOld
    <3>1. SetStores(r, "nil") \/ SetStores(r, "error")
      BY <2>1, <2>3 DEF Wrapped, Hit, GetFails, FallbackLoads, FallbackFails, SetFails
    <3>2. state[r] = "set" /\ entry' = data[r] /\ truth' = truth /\ writing' = writing
      BY <3>1 DEF SetStores, Store
    <3>3. data[r] # truth
      BY <3>2 DEF Coherent
    <3> QED
      BY <2>0, <3>2, <3>3 DEF StoresOld
  <2>4. ASSUME NEW w \in Writers, Write(w)
        PROVE  DeleteFails(w)
    <3>1. ~Change(w)
      BY DEF Change, Coherent
    <3>2. ~Delete(w)
      BY DEF Delete, Coherent
    <3> QED
      BY <2>4, <3>1, <3>2 DEF Write
  <2>5. ~Tick
    BY DEF Tick, Coherent
  <2> QED
    BY <2>2, <2>3, <2>4, <2>5 DEF Next
<1> QED
  BY <1>1, InitLoaded, StepLoaded, PTL DEF Spec, StaleOnlyByRace
=============================================================================
