----------------------------- MODULE CacheLock ------------------------------
(***************************************************************************)
(* cache/valkey.go: Lock and Unlock, on one key.  Lock is SET NX with an   *)
(* expiry, answered by whether the key was set; Unlock is DEL, whoever set *)
(* the key.  A command reaches the server some time after it was sent, its *)
(* answer reaches the caller some time after that, and either may be lost, *)
(* which Lock and Unlock report as an error.                               *)
(*                                                                         *)
(* Clients call Unlock when Lock has told them true, and not otherwise.    *)
(* Nothing in the code stops them from working, or from calling Unlock,    *)
(* when the duration they asked for is over: Punctual says whether they    *)
(* can be relied on to be done by then.  Time passes in steps.             *)
(***************************************************************************)
EXTENDS Naturals

CONSTANTS
  Clients,        \* callers of Lock and Unlock
  Nobody,         \* not one of them
  Durations,      \* timeouts given to Lock, 0: no expiry
  Punctual        \* whether DEL reaches the server before the key expires

ASSUME CacheLockAssumption ==
  /\ Nobody \notin Clients
  /\ Durations \subseteq Nat
  /\ Punctual \in BOOLEAN

VARIABLES
  state,          \* of each client, see States
  asks,           \* the timeout it gave to Lock
  key,            \* who set the key
  ttl,            \* time the key has left on the server, 0: for ever
  lease           \* time the lock was given for and has left, 0: none

lockVars == <<state, asks, key, ttl, lease>>

States == {"idle", "locking", "granted", "denied", "inside", "unlocking"}
Holds(c) == state[c] \in {"granted", "inside", "unlocking"}

LockInit ==
  /\ state = [c \in Clients |-> "idle"]
  /\ asks = [c \in Clients |-> 0]
  /\ key = Nobody /\ ttl = 0
  /\ lease = [c \in Clients |-> 0]

-----------------------------------------------------------------------------
(* Lock                                                                     *)

CallLock(c, t) ==
  /\ state[c] = "idle"
  /\ state' = [state EXCEPT ![c] = "locking"]
  /\ asks' = [asks EXCEPT ![c] = t]
  /\ UNCHANGED <<key, ttl, lease>>

\* Mutation: plain SET.
SetAlways(c) ==
  /\ state[c] = "locking"
  /\ state' = [state EXCEPT ![c] = "granted"]
  /\ key' = c
  /\ ttl' = asks[c]
  /\ lease' = [lease EXCEPT ![c] = asks[c]]
  /\ UNCHANGED asks

\* Mutation: the expiry is left out.
SetForEver(c) ==
  /\ state[c] = "locking" /\ key = Nobody
  /\ state' = [state EXCEPT ![c] = "granted"]
  /\ key' = c
  /\ ttl' = 0
  /\ lease' = [lease EXCEPT ![c] = asks[c]]
  /\ UNCHANGED asks

\* The server executes SET NX, and sets the key.
SetNX(c) ==
  /\ state[c] = "locking" /\ key = Nobody
  /\ state' = [state EXCEPT ![c] = "granted"]
  /\ key' = c
  /\ ttl' = asks[c]
  /\ lease' = [lease EXCEPT ![c] = asks[c]]
  /\ UNCHANGED asks

\* The server executes SET NX, and the key is there.
SetNXDenied(c) ==
  /\ state[c] = "locking" /\ key # Nobody
  /\ state' = [state EXCEPT ![c] = "denied"]
  /\ UNCHANGED <<asks, key, ttl, lease>>

LockReturns(c) ==
  /\ state[c] \in {"granted", "denied"}
  /\ state' = [state EXCEPT ![c] = IF @ = "granted" THEN "inside" ELSE "idle"]
  /\ UNCHANGED <<asks, key, ttl, lease>>

\* The command or its answer was lost: the error does not say whether the key
\* was set, and if it was it stays so.
LockFails(c) ==
  /\ state[c] \in {"locking", "granted", "denied"}
  /\ state' = [state EXCEPT ![c] = "idle"]
  /\ lease' = [lease EXCEPT ![c] = 0]
  /\ UNCHANGED <<asks, key, ttl>>

-----------------------------------------------------------------------------
(* Unlock                                                                   *)

CallUnlock(c) ==
  /\ state[c] = "inside"
  /\ state' = [state EXCEPT ![c] = "unlocking"]
  /\ UNCHANGED <<asks, key, ttl, lease>>

\* The server executes DEL, which does not ask who set the key.
Del(c) ==
  /\ state[c] = "unlocking"
  /\ key' = Nobody /\ ttl' = 0
  /\ state' = [state EXCEPT ![c] = "idle"]
  /\ lease' = [lease EXCEPT ![c] = 0]
  /\ UNCHANGED asks

\* The client stops without calling Unlock, or DEL was lost.
Abandon(c) ==
  /\ state[c] \in {"inside", "unlocking"}
  /\ state' = [state EXCEPT ![c] = "idle"]
  /\ lease' = [lease EXCEPT ![c] = 0]
  /\ UNCHANGED <<asks, key, ttl>>

-----------------------------------------------------------------------------
Less(n) == IF n = 0 THEN 0 ELSE n - 1

\* Time passes, and the key expires when it has none left.
Tick ==
  /\ ttl > 0 \/ \E c \in Clients : lease[c] > 0
  /\ Punctual => \A c \in Clients : Holds(c) => lease[c] # 1
  /\ key' = IF ttl = 1 THEN Nobody ELSE key
  /\ ttl' = Less(ttl)
  /\ lease' = [c \in Clients |-> Less(lease[c])]
  /\ UNCHANGED <<state, asks>>

Step(c) ==
  \/ \E t \in Durations : CallLock(c, t)
  \/ SetNX(c) \/ SetNXDenied(c) \/ LockReturns(c) \/ LockFails(c)
  \/ CallUnlock(c) \/ Del(c) \/ Abandon(c)

LockNext == Tick \/ \E c \in Clients : Step(c)

LockSpec == LockInit /\ [][LockNext]_lockVars

\* Time goes on, answers arrive or are given up, and whoever is told that it
\* has the lock is done with it at some point.
LockFairness ==
  /\ WF_lockVars(Tick)
  /\ \A c \in Clients :
       WF_lockVars(LockReturns(c) \/ LockFails(c) \/ CallUnlock(c) \/ Del(c) \/ Abandon(c))

LockFairSpec == LockSpec /\ LockFairness

-----------------------------------------------------------------------------
(* Properties                                                               *)

LockTypeOK ==
  /\ state \in [Clients -> States]
  /\ asks \in [Clients -> Nat]
  /\ key \in Clients \cup {Nobody}
  /\ ttl \in Nat /\ (key = Nobody => ttl = 0)
  /\ lease \in [Clients -> Nat]

(* Of clients that are punctual at most one has the lock, from the moment   *)
(* the server set the key for it to the moment the server deletes it: lost  *)
(* commands, lost answers and clients that stop do not let a second one in. *)
MutualExclusion ==
  \A c, d \in Clients : Holds(c) /\ Holds(d) => c = d

(* Punctual clients see a Lease: lost commands and answers and clients that *)
(* stop neither give the key to a second one nor take it from its holder,   *)
(* and a DEL, which does not ask whose the key is, deletes the caller's.    *)
Promise == INSTANCE Lease WITH
  Holders <- Clients, Terms <- Durations,
  holders <- {c \in Clients : Holds(c)}, taken <- key # Nobody, left <- ttl

LeaseKept == Promise!LeaseSpec

(* A lock asked for with a duration comes free: whichever answer is lost    *)
(* and whoever stops, the key does not stay its holder's for ever.          *)
LockComesFree ==
  \A c \in Clients : state[c] = "granted" /\ asks[c] > 0 ~> key # c
=============================================================================
