------------------------------- MODULE Queue -------------------------------
(***************************************************************************)
(* queue/client.go: Publish, and the loop of Consume.                      *)
(*                                                                         *)
(* Each publication is one call of Publish.  A consumer is a goroutine in  *)
(* Consume; several (one per replica of a service) share the durable       *)
(* consumer of the same name.  The steps of a loop iteration are Fetch,    *)
(* Collect for each message of the batch, the callback, and one attempt of *)
(* failsafe.Run per acknowledgement, so that the server, the publishers    *)
(* and the other consumers act between any two of them.                    *)
(*                                                                         *)
(* A message is identified by its stream sequence, which also stands for   *)
(* the payload handed to the callback; acks holds the sequence whose Ack   *)
(* method the client stored at that position.                              *)
(***************************************************************************)
EXTENDS JetStream, Integers, FiniteSets, Functions

CONSTANTS
  Consumers,      \* goroutines running Consume
  FetchLimit,     \* ConsumerConfig.FetchLimit
  MaxRetries,     \* retries of the policy after a first failed attempt
  Results,        \* what a callback may return: sequences of integers
  MaxCrashes      \* bound on the crashes of the processes that consume

ASSUME QueueAssumption ==
  /\ FetchLimit \in Nat \ {0}
  /\ MaxRetries \in Nat
  /\ MaxCrashes \in Nat
  /\ Results \subseteq Seq(Int)

VARIABLES
  pubState, attempt,            \* of each call of Publish
  pc,                           \* where each consumer is in its loop
  msgs,                         \* messages in the channel of the batch
  events, acks,                 \* the slices the loop builds
  res,                          \* indices still to be acknowledged
  spent,                        \* indices whose message was acknowledged
  tries,                        \* failed attempts at the current index
  crashes,
  accepted                      \* history: messages a callback reported

pubVars   == <<pubState, attempt>>
batchVars == <<msgs, events, acks, res, spent, tries>>
loopVars  == <<pc, batchVars, crashes, accepted>>
vars      == <<publishVars, consumerVars, pubVars, loopVars>>

PubStates == {"idle", "sending", "waiting", "ok", "failed"}
PCs == {"create", "fetch", "collect", "callback", "ack", "stopped"}

Init ==
  /\ ServerInit
  /\ pubState = [m \in Publications |-> "idle"]
  /\ attempt = [m \in Publications |-> 0]
  /\ pc = [c \in Consumers |-> "create"]
  /\ msgs = [c \in Consumers |-> <<>>]
  /\ events = [c \in Consumers |-> <<>>]
  /\ acks = [c \in Consumers |-> <<>>]
  /\ res = [c \in Consumers |-> <<>>]
  /\ spent = [c \in Consumers |-> {}]
  /\ tries = [c \in Consumers |-> 0]
  /\ crashes = 0
  /\ accepted = {}

-----------------------------------------------------------------------------
(* Publish                                                                 *)

CallPublish(m) ==
  /\ pubState[m] = "idle"
  /\ pubState' = [pubState EXCEPT ![m] = "sending"]
  /\ attempt' = [attempt EXCEPT ![m] = 1]
  /\ UNCHANGED <<publishVars, consumerVars, loopVars>>

\* js.Publish puts the request on the wire and waits for its answer.
Send(m) ==
  /\ pubState[m] = "sending"
  /\ pubState' = [pubState EXCEPT ![m] = "waiting"]
  /\ wire' = wire \cup {<<m, attempt[m]>>}
  /\ UNCHANGED <<pubAcks, stream, consumerVars, attempt, loopVars>>

AnswerIsIn(m) == <<m, attempt[m]>> \in pubAcks

PublishSucceeds(m) ==
  /\ pubState[m] = "waiting"
  /\ AnswerIsIn(m)
  /\ pubState' = [pubState EXCEPT ![m] = "ok"]
  /\ UNCHANGED <<publishVars, consumerVars, attempt, loopVars>>

\* Mutation: one attempt too many.
MayRetryOnceMore(n) == n <= MaxRetries + 1

MayRetry(n) == n <= MaxRetries

\* The request could not be sent, or the timeout passed without an answer:
\* the policy runs another attempt until the retries are used up.
AttemptFails(m) ==
  /\ pubState[m] \in {"sending", "waiting"}
  /\ IF MayRetry(attempt[m])
       THEN /\ pubState' = [pubState EXCEPT ![m] = "sending"]
            /\ attempt' = [attempt EXCEPT ![m] = @ + 1]
       ELSE /\ pubState' = [pubState EXCEPT ![m] = "failed"]
            /\ UNCHANGED attempt
  /\ UNCHANGED <<publishVars, consumerVars, loopVars>>

Publisher(m) == Send(m) \/ PublishSucceeds(m) \/ AttemptFails(m)

-----------------------------------------------------------------------------
(* Consume                                                                 *)

CreateConsumer(c) ==
  /\ pc[c] = "create"
  /\ pc' = [pc EXCEPT ![c] = "fetch"]
  /\ UNCHANGED <<publishVars, consumerVars, pubVars, batchVars, crashes, accepted>>

\* The only error Consume returns.
CreateConsumerFails(c) ==
  /\ pc[c] = "create"
  /\ pc' = [pc EXCEPT ![c] = "stopped"]
  /\ UNCHANGED <<publishVars, consumerVars, pubVars, batchVars, crashes, accepted>>

\* A Fetch that fails, at once or after its retries, leads back here with
\* nothing changed.
Fetch(c) ==
  /\ pc[c] = "fetch"
  /\ pc' = [pc EXCEPT ![c] = "collect"]
  /\ UNCHANGED <<publishVars, consumerVars, pubVars, batchVars, crashes, accepted>>

\* The server answers the pull request: the message is put in the channel.
Deliver(c, s) ==
  /\ pc[c] = "collect"
  /\ Len(msgs[c]) + Len(events[c]) < FetchLimit
  /\ HandOut(s)
  /\ msgs' = [msgs EXCEPT ![c] = Append(@, s)]
  /\ UNCHANGED <<publishVars, pubVars, pc, events, acks, res, spent, tries,
                 crashes, accepted>>

\* The message is handed out but never reaches the channel.
DeliveryLost(c, s) ==
  /\ pc[c] = "collect"
  /\ Len(msgs[c]) + Len(events[c]) < FetchLimit
  /\ HandOut(s)
  /\ UNCHANGED <<publishVars, pubVars, loopVars>>

\* Mutation: indices from one.
NextIndexFromOne(c) == Len(events[c]) + 1

NextIndex(c) == Len(events[c])

\* One round of the range loop over the batch whose InProgress succeeds.
Collect(c) ==
  /\ pc[c] = "collect"
  /\ msgs[c] # <<>>
  /\ LET s == Head(msgs[c]) IN
       /\ events' = [events EXCEPT ![c] =
                       Append(@, [Index |-> NextIndex(c), Payload |-> s])]
       /\ acks' = [acks EXCEPT ![c] = Append(@, s)]
  /\ msgs' = [msgs EXCEPT ![c] = Tail(@)]
  /\ UNCHANGED <<publishVars, consumerVars, pubVars, pc, res, spent, tries,
                 crashes, accepted>>

\* The range loop is over: an empty batch continues with the next Fetch.
LeaveBatch(c) ==
  /\ pc' = [pc EXCEPT ![c] = IF events[c] = <<>> THEN "fetch" ELSE "callback"]
  /\ msgs' = [msgs EXCEPT ![c] = <<>>]
  /\ UNCHANGED <<publishVars, consumerVars, pubVars, events, acks, res, spent,
                 tries, crashes, accepted>>

\* InProgress fails: the loop breaks and the rest of the batch is left unread.
InProgressFails(c) == pc[c] = "collect" /\ msgs[c] # <<>> /\ LeaveBatch(c)

\* The batch is full, or the wait of the Fetch is over.
BatchEnds(c) == pc[c] = "collect" /\ msgs[c] = <<>> /\ LeaveBatch(c)

Reported(c, r) == {e \in Range(events[c]) : e.Index \in Range(r)}

\* The callback returns the indices of the events it processed.
CallbackReturns(c, r) ==
  /\ pc[c] = "callback"
  /\ res' = [res EXCEPT ![c] = r]
  /\ accepted' = accepted \cup {e.Payload : e \in Reported(c, r)}
  /\ pc' = [pc EXCEPT ![c] = "ack"]
  /\ UNCHANGED <<publishVars, consumerVars, pubVars, msgs, events, acks, spent,
                 tries, crashes>>

\* Mutation: the lower bound off by one.
InBatchFromOne(c, idx) == 0 < idx /\ idx < Len(acks[c])

InBatch(c, idx) == 0 <= idx /\ idx < Len(acks[c])

SkipIndex(c) ==
  /\ pc[c] = "ack"
  /\ res[c] # <<>>
  /\ ~ InBatch(c, Head(res[c]))
  /\ res' = [res EXCEPT ![c] = Tail(@)]
  /\ UNCHANGED <<publishVars, consumerVars, pubVars, pc, msgs, events, acks,
                 spent, tries, crashes, accepted>>

\* An attempt at acks[idx]() succeeds.  Ack only sends: it does not wait for
\* the server.  It refuses a message it was already called on.
Ack(c) ==
  /\ pc[c] = "ack"
  /\ res[c] # <<>>
  /\ LET idx == Head(res[c]) IN
       /\ InBatch(c, idx)
       /\ idx \notin spent[c]
       /\ ackWire' = ackWire \cup {acks[c][idx + 1]}
       /\ spent' = [spent EXCEPT ![c] = @ \cup {idx}]
  /\ res' = [res EXCEPT ![c] = Tail(@)]
  /\ tries' = [tries EXCEPT ![c] = 0]
  /\ UNCHANGED <<publishVars, delivered, pending, redeliver, acked, expired,
                 pubVars, pc, msgs, events, acks, crashes, accepted>>

\* Mutation: an acknowledgement is tried for ever.
AckRetriedForEver(c) ==
  /\ pc[c] = "ack" /\ res[c] # <<>> /\ InBatch(c, Head(res[c]))
  /\ UNCHANGED vars

\* An attempt fails; when it was the last one the index is given up.
AckFails(c) ==
  /\ pc[c] = "ack"
  /\ res[c] # <<>>
  /\ InBatch(c, Head(res[c]))
  /\ IF MayRetry(tries[c] + 1)
       THEN /\ tries' = [tries EXCEPT ![c] = @ + 1]
            /\ UNCHANGED res
       ELSE /\ tries' = [tries EXCEPT ![c] = 0]
            /\ res' = [res EXCEPT ![c] = Tail(@)]
  /\ UNCHANGED <<publishVars, consumerVars, pubVars, pc, msgs, events, acks,
                 spent, crashes, accepted>>

\* Mutation: acks is declared before the loop and never emptied.
ForgetBatchKeepsAcks(c) ==
  /\ msgs' = [msgs EXCEPT ![c] = <<>>]
  /\ events' = [events EXCEPT ![c] = <<>>]
  /\ res' = [res EXCEPT ![c] = <<>>]
  /\ spent' = [spent EXCEPT ![c] = {}]
  /\ tries' = [tries EXCEPT ![c] = 0]
  /\ UNCHANGED acks

\* The variables of the iteration go out of scope.
ForgetBatch(c) ==
  /\ msgs' = [msgs EXCEPT ![c] = <<>>]
  /\ events' = [events EXCEPT ![c] = <<>>]
  /\ acks' = [acks EXCEPT ![c] = <<>>]
  /\ res' = [res EXCEPT ![c] = <<>>]
  /\ spent' = [spent EXCEPT ![c] = {}]
  /\ tries' = [tries EXCEPT ![c] = 0]

IterationEnds(c) ==
  /\ pc[c] = "ack"
  /\ res[c] = <<>>
  /\ pc' = [pc EXCEPT ![c] = "fetch"]
  /\ ForgetBatch(c)
  /\ UNCHANGED <<publishVars, consumerVars, pubVars, crashes, accepted>>

\* The process dies, for instance of a panic of the callback, which nothing
\* recovers, and is started again.  The durable consumer is not affected.
Crash(c) ==
  /\ crashes < MaxCrashes
  /\ crashes' = crashes + 1
  /\ pc' = [pc EXCEPT ![c] = "create"]
  /\ ForgetBatch(c)
  /\ UNCHANGED <<publishVars, consumerVars, pubVars, accepted>>

Consumer(c) ==
  \/ Fetch(c) \/ Collect(c) \/ InProgressFails(c) \/ BatchEnds(c)
  \/ \E r \in Results : CallbackReturns(c, r)
  \/ SkipIndex(c) \/ Ack(c) \/ AckFails(c) \/ IterationEnds(c)

-----------------------------------------------------------------------------
ServerStep ==
  /\ \/ \E r \in wire : Store(r[1], r[2])
     \/ \E s \in StreamSeqs :
          AckWaitExpires(s) \/ AckArrives(s) \/ AckLost(s) \/ AgesOut(s)
  /\ UNCHANGED <<pubVars, loopVars>>

Next ==
  \/ \E m \in Publications : CallPublish(m) \/ Publisher(m)
  \/ \E c \in Consumers :
       \/ CreateConsumer(c) \/ CreateConsumerFails(c) \/ Consumer(c) \/ Crash(c)
       \/ \E s \in StreamSeqs : Deliver(c, s) \/ DeliveryLost(c, s)
  \/ ServerStep

Spec == Init /\ [][Next]_vars

-----------------------------------------------------------------------------
(* Fairness.  Goroutines are scheduled and the timers of the server run:    *)
(* weak fairness.  What may fail is assumed not to fail for ever: strong    *)
(* fairness, per message, of the attempts that succeed and of a callback    *)
(* that reports the message.                                                *)

CollectsMessage(c, s) == msgs[c] # <<>> /\ Head(msgs[c]) = s /\ Collect(c)
AcksMessage(c, s) ==
  /\ res[c] # <<>> /\ InBatch(c, Head(res[c])) /\ acks[c][Head(res[c]) + 1] = s
  /\ Ack(c)
Reports(c, s) ==
  \E r \in Results :
    /\ \E e \in Reported(c, r) : e.Payload = s
    /\ CallbackReturns(c, r)

LoopFairness ==
  /\ \A m \in Publications : WF_vars(Publisher(m))
  /\ \A c \in Consumers : WF_vars(Consumer(c))

MaxStream == Cardinality(Publications) * (MaxRetries + 1)

DeliveryFairness ==
  /\ \A c \in Consumers : WF_vars(CreateConsumer(c))
  /\ \A s \in 1 .. MaxStream :
       /\ WF_vars(AckWaitExpires(s) /\ UNCHANGED <<pubVars, loopVars>>)
       /\ SF_vars(AckArrives(s) /\ UNCHANGED <<pubVars, loopVars>>)
       /\ SF_vars(\E c \in Consumers : Deliver(c, s))
       /\ SF_vars(\E c \in Consumers : CollectsMessage(c, s))
       /\ SF_vars(\E c \in Consumers : Reports(c, s))
       /\ SF_vars(\E c \in Consumers : AcksMessage(c, s))

LoopSpec == Spec /\ LoopFairness
FairSpec == LoopSpec /\ DeliveryFairness

-----------------------------------------------------------------------------
(* Properties                                                              *)

Event == [Index : Nat, Payload : StreamSeqs]

TypeOK ==
  /\ wire \subseteq Publications \X Nat
  /\ pubAcks \subseteq Publications \X Nat
  /\ stream \in Seq(Publications)
  /\ delivered \in 0 .. Len(stream)
  /\ pending \subseteq StreamSeqs
  /\ redeliver \subseteq StreamSeqs
  /\ acked \subseteq StreamSeqs
  /\ expired \subseteq StreamSeqs
  /\ ackWire \subseteq StreamSeqs
  /\ pubState \in [Publications -> PubStates]
  /\ attempt \in [Publications -> Nat]
  /\ pc \in [Consumers -> PCs]
  /\ msgs \in [Consumers -> Seq(StreamSeqs)]
  /\ events \in [Consumers -> Seq(Event)]
  /\ acks \in [Consumers -> Seq(StreamSeqs)]
  /\ res \in [Consumers -> Seq(Int)]
  /\ spent \in [Consumers -> SUBSET Nat]
  /\ tries \in [Consumers -> Nat]
  /\ crashes \in Nat
  /\ accepted \subseteq StreamSeqs

(* The server is told to forget a message only when some callback reported  *)
(* that very message: whatever a callback returns, repeated, out of range   *)
(* or out of order, and wherever a batch was cut short or the process died, *)
(* an index never acknowledges the message of another event.                *)
AckedWereAccepted == acked \cup ackWire \subseteq accepted

(* A call of Publish that returned no error has left at least one copy in   *)
(* the stream, although answers are lost and arrive late; one that is still *)
(* trying, or failed, has left at most one copy per attempt of the policy.  *)
Copies(m) == {s \in StreamSeqs : stream[s] = m}
PublishedIsStored ==
  \A m \in Publications :
    /\ pubState[m] = "ok" => Copies(m) # {}
    /\ Cardinality(Copies(m)) <= MaxRetries + 1

(* What the queue promises, as the specification AtLeastOnce.               *)
Promise == INSTANCE AtLeastOnce WITH
  stored <- StreamSeqs, settled <- acked, discarded <- expired

PromiseKept == Promise!AbsSpec

(* Retries come to an end, also when the connection stays down or the       *)
(* callback names an index twice: a call of Publish returns, and a consumer *)
(* that acknowledges a batch fetches again, unless its process dies.        *)
RetriesEnd ==
  /\ \A m \in Publications :
       pubState[m] = "sending" ~> pubState[m] \in {"ok", "failed"}
  /\ \A c \in Consumers : pc[c] = "ack" ~> pc[c] \in {"fetch", "create"}

(* Every stored message is in the end reported by a callback and taken as   *)
(* acknowledged by the server, or ages out, unless every call of Consume    *)
(* has returned: provided that nothing the loop relies on fails for ever.   *)
EveryMessageSettles ==
  DeliveryFairness => \A s \in 1 .. MaxStream :
    s \in StreamSeqs ~>
      s \in acked \cup expired \/ \A c \in Consumers : pc[c] = "stopped"
=============================================================================
