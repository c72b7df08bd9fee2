----------------------------- MODULE CacheAside -----------------------------
(***************************************************************************)
(* cache/valkey.go: Wrapped, Get, Set, Delete and GetWithResetTTL, on one  *)
(* key.  Wrapped reads the cache, calls its fallback function when that    *)
(* did not work, and stores what the fallback loaded; each of these steps  *)
(* is a round trip, and others may come between any two of them.           *)
(*                                                                         *)
(* What the fallback loads is external: a value that writers change, each  *)
(* of which then calls Delete so that the cache does not show the old one. *)
(* Values are numbered by their age, and 0 stands for no value.  An entry  *)
(* whose JSON does not fit the caller's type fails Get like a lost answer. *)
(***************************************************************************)
EXTENDS Naturals

CONSTANTS
  Readers,        \* callers of Wrapped and GetWithResetTTL
  Writers,        \* goroutines that change the value and call Delete
  Timeouts,       \* timeouts given to Wrapped, 0: no expiry
  Slides,         \* timeouts given to GetWithResetTTL
  MaxValue        \* bound on the changes

ASSUME CacheAsideAssumption ==
  /\ Timeouts \subseteq Nat /\ Slides \subseteq Nat \ {0}
  /\ MaxValue \in Nat \ {0}

VARIABLES
  state,       \* of each reader, see States
  data,        \* what its data argument points to
  timeout,     \* its timeout
  cached,      \* whether it uses the cache: FALSE for a timeout of -1
  result,      \* "none", "nil" or "error"
  writing,     \* writers that have yet to call Delete
  truth,       \* the value, outside of the cache
  entry, ttl   \* the key in the cache and the time it has left, 0: for ever

readVars == <<state, data, timeout, cached, result>>
vars == <<readVars, writing, truth, entry, ttl>>

States == {"idle", "get", "fallback", "set", "slideGet", "expire"}

Init ==
  /\ state = [r \in Readers |-> "idle"]
  /\ data = [r \in Readers |-> 0]
  /\ timeout = [r \in Readers |-> 0]
  /\ cached = [r \in Readers |-> TRUE]
  /\ result = [r \in Readers |-> "none"]
  /\ writing = {} /\ truth = 1 /\ entry = 0 /\ ttl = 0

Goto(r, s) == state' = [state EXCEPT ![r] = s] /\ UNCHANGED result

Return(r, v) ==
  /\ state' = [state EXCEPT ![r] = "idle"]
  /\ result' = [result EXCEPT ![r] = v]

-----------------------------------------------------------------------------
(* Wrapped                                                                  *)

\* A call begins with whatever its data pointed to before: nothing.
CallWrapped(r, t) ==
  /\ state[r] = "idle"
  /\ state' = [state EXCEPT ![r] = "get"]
  /\ result' = [result EXCEPT ![r] = "none"]
  /\ data' = [data EXCEPT ![r] = 0]
  /\ timeout' = [timeout EXCEPT ![r] = t]
  /\ cached' = [cached EXCEPT ![r] = TRUE]
  /\ UNCHANGED <<writing, truth, entry, ttl>>

\* A timeout of -1: the fallback and nothing else.
CallBypass(r) ==
  /\ state[r] = "idle"
  /\ state' = [state EXCEPT ![r] = "fallback"]
  /\ result' = [result EXCEPT ![r] = "none"]
  /\ data' = [data EXCEPT ![r] = 0]
  /\ cached' = [cached EXCEPT ![r] = FALSE]
  /\ UNCHANGED <<timeout, writing, truth, entry, ttl>>

Hit(r) ==
  /\ state[r] = "get" /\ entry # 0
  /\ data' = [data EXCEPT ![r] = entry]
  /\ Return(r, "nil")
  /\ UNCHANGED <<timeout, cached, writing, truth, entry, ttl>>

\* No entry, no answer, or an entry that cannot be unmarshalled.
GetFails(r) ==
  /\ state[r] = "get"
  /\ Goto(r, "fallback")
  /\ UNCHANGED <<data, timeout, cached, writing, truth, entry, ttl>>

\* fallbackFunc loads the value.
FallbackLoads(r) ==
  /\ state[r] = "fallback"
  /\ data' = [data EXCEPT ![r] = truth]
  /\ IF cached[r] THEN Goto(r, "set") ELSE Return(r, "nil")
  /\ UNCHANGED <<timeout, cached, writing, truth, entry, ttl>>

\* Mutation: the error of fallbackFunc is not looked at.
FallbackErrorIgnored(r) ==
  /\ state[r] = "fallback"
  /\ IF cached[r] THEN Goto(r, "set") ELSE Return(r, "error")
  /\ UNCHANGED <<data, timeout, cached, writing, truth, entry, ttl>>

FallbackFails(r) ==
  /\ state[r] = "fallback"
  /\ Return(r, "error")
  /\ UNCHANGED <<data, timeout, cached, writing, truth, entry, ttl>>

Store(r) ==
  /\ entry' = data[r]
  /\ ttl' = timeout[r]

\* Mutation: the timeout is not passed on to Set.
SetWithoutTimeout(r, v) ==
  /\ state[r] = "set"
  /\ entry' = data[r] /\ ttl' = 0
  /\ Return(r, v)
  /\ UNCHANGED <<data, timeout, cached, writing, truth>>

\* Set stores the value.  Its answer may be lost, which is an error.
SetStores(r, v) ==
  /\ state[r] = "set"
  /\ Store(r)
  /\ Return(r, v)
  /\ UNCHANGED <<data, timeout, cached, writing, truth>>

\* Set fails: the value cannot be marshalled or the command is lost.  Wrapped
\* returns that error, although data is loaded.
SetFails(r) ==
  /\ state[r] = "set"
  /\ Return(r, "error")
  /\ UNCHANGED <<data, timeout, cached, writing, truth, entry, ttl>>

-----------------------------------------------------------------------------
(* GetWithResetTTL                                                          *)

CallSlide(r, t) ==
  /\ state[r] = "idle"
  /\ state' = [state EXCEPT ![r] = "slideGet"]
  /\ result' = [result EXCEPT ![r] = "none"]
  /\ data' = [data EXCEPT ![r] = 0]
  /\ timeout' = [timeout EXCEPT ![r] = t]
  /\ UNCHANGED <<cached, writing, truth, entry, ttl>>

SlideHit(r) ==
  /\ state[r] = "slideGet" /\ entry # 0
  /\ data' = [data EXCEPT ![r] = entry]
  /\ Goto(r, "expire")
  /\ UNCHANGED <<timeout, cached, writing, truth, entry, ttl>>

\* Mutation: the value that was read is stored again with the new timeout.
ExpireBySet(r, v) ==
  /\ state[r] = "expire"
  /\ Store(r)
  /\ Return(r, v)
  /\ UNCHANGED <<data, timeout, cached, writing, truth>>

\* EXPIRE gives the entry that is there now its time to live, which need not
\* be the entry that was read; if there is none, that is no error.
Expire(r, v) ==
  /\ state[r] = "expire"
  /\ ttl' = IF entry = 0 THEN 0 ELSE timeout[r]
  /\ Return(r, v)
  /\ UNCHANGED <<data, timeout, cached, writing, truth, entry>>

SlideFails(r) ==
  /\ state[r] \in {"slideGet", "expire"}
  /\ Return(r, "error")
  /\ UNCHANGED <<data, timeout, cached, writing, truth, entry, ttl>>

-----------------------------------------------------------------------------
(* Writers, time                                                            *)

Change(w) ==
  /\ w \notin writing
  /\ truth < MaxValue
  /\ truth' = truth + 1
  /\ writing' = writing \cup {w}
  /\ UNCHANGED <<readVars, entry, ttl>>

\* Delete removes the key.
Delete(w) ==
  /\ w \in writing
  /\ entry' = 0 /\ ttl' = 0
  /\ writing' = writing \ {w}
  /\ UNCHANGED <<readVars, truth>>

DeleteFails(w) ==
  /\ w \in writing
  /\ writing' = writing \ {w}
  /\ UNCHANGED <<readVars, truth, entry, ttl>>

\* Time passes; an entry that has none left expires.
Tick ==
  /\ ttl > 0
  /\ ttl' = ttl - 1
  /\ entry' = IF ttl = 1 THEN 0 ELSE entry
  /\ UNCHANGED <<readVars, writing, truth>>

-----------------------------------------------------------------------------
Wrapped(r) ==
  \/ Hit(r) \/ GetFails(r) \/ FallbackLoads(r) \/ FallbackFails(r)
  \/ SetStores(r, "nil") \/ SetStores(r, "error") \/ SetFails(r)

Slide(r) == SlideHit(r) \/ Expire(r, "nil") \/ Expire(r, "error") \/ SlideFails(r)

Call(r) ==
  \/ \E t \in Timeouts : CallWrapped(r, t)
  \/ CallBypass(r)
  \/ \E t \in Slides : CallSlide(r, t)

Write(w) == Change(w) \/ Delete(w) \/ DeleteFails(w)

Next ==
  \/ \E r \in Readers : Call(r) \/ Wrapped(r) \/ Slide(r)
  \/ \E w \in Writers : Write(w)
  \/ Tick

Spec == Init /\ [][Next]_vars

\* Time goes on and calls under way go on.
Fairness ==
  /\ WF_vars(Tick)
  /\ \A r \in Readers : WF_vars(Wrapped(r) \/ Slide(r))
  /\ \A w \in Writers : WF_vars(Delete(w) \/ DeleteFails(w))

FairSpec == Spec /\ Fairness

-----------------------------------------------------------------------------
(* Properties                                                               *)

TypeOK ==
  /\ state \in [Readers -> States]
  /\ data \in [Readers -> Nat]
  /\ timeout \in [Readers -> Nat]
  /\ cached \in [Readers -> BOOLEAN]
  /\ result \in [Readers -> {"none", "nil", "error"}]
  /\ writing \subseteq Writers
  /\ truth \in 1 .. MaxValue
  /\ entry \in 0 .. truth
  /\ ttl \in Nat /\ (entry = 0 => ttl = 0)

(* Only what a fallback loaded gets into the cache, and a nil error means   *)
(* that data was filled: neither an error of the fallback nor one of the    *)
(* cache is taken for a value.                                              *)
NilMeansLoaded ==
  \A r \in Readers :
    /\ state[r] \in {"set", "expire"} => data[r] # 0
    /\ result[r] = "nil" => data[r] # 0

(* The cache shows an old value, with no Delete to come, for two reasons    *)
(* only: a Wrapped stores what it loaded before the value changed, or a     *)
(* Delete has failed, which its caller was told.                            *)
Coherent == entry \in {0, truth} \/ writing # {}
StoresOld == \E r \in Readers : state[r] = "set" /\ data[r] < truth /\ entry' = data[r]
StaleOnlyByRace ==
  [][Coherent /\ ~Coherent' => StoresOld \/ \E w \in Writers : DeleteFails(w)]_vars

(* With timeouts that end, an old value does not stay in the cache unless   *)
(* GetWithResetTTL goes on giving it more time, whatever raced and whatever *)
(* was lost.                                                                *)
Old == entry \notin {0, truth}
OldValuesGo == Old ~> (~Old \/ \E r \in Readers : state[r] = "expire")
=============================================================================
