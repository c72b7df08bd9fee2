---------------------------- MODULE QueueProofs ----------------------------
(***************************************************************************)
(* Proofs about Queue for every number of publications and consumers,      *)
(* every batch size, retry policy and callback.                            *)
(***************************************************************************)
EXTENDS Queue, FiniteSetTheorems, SequenceTheorems, TLAPS

-----------------------------------------------------------------------------
(* The stream only grows, so whatever is a sequence number stays one.       *)

(* A longer stream has all the sequence numbers of the shorter one.         *)
LEMMA StreamGrows ==
  ASSUME TypeOK, NEW m \in Publications, stream' = Append(stream, m)
  PROVE  /\ stream' \in Seq(Publications)
         /\ Len(stream) \in Nat
         /\ Len(stream') = Len(stream) + 1
         /\ StreamSeqs \subseteq StreamSeqs'
         /\ \A s \in StreamSeqs : stream'[s] = stream[s]
         /\ stream'[Len(stream) + 1] = m
<1>1. stream \in Seq(Publications)
  BY DEF TypeOK
<1>2. Len(stream) \in Nat
  BY <1>1, LenProperties
<1>3. /\ stream' \in Seq(Publications)
      /\ Len(stream') = Len(stream) + 1
      /\ \A s \in 1 .. Len(stream) : stream'[s] = stream[s]
      /\ stream'[Len(stream) + 1] = m
  BY <1>1, AppendProperties
<1> QED
  BY <1>2, <1>3 DEF StreamSeqs

(* Every request on the wire names a publication.                           *)
LEMMA StoreType ==
  ASSUME TypeOK, NEW r \in wire, Store(r[1], r[2]), UNCHANGED <<pubVars, loopVars>>
  PROVE  TypeOK'
<1>1. r[1] \in Publications /\ r[2] \in Nat /\ <<r[1], r[2]>> \in Publications \X Nat
  BY DEF TypeOK
<1>2. /\ stream' \in Seq(Publications)
      /\ Len(stream) \in Nat
      /\ Len(stream') = Len(stream) + 1
      /\ StreamSeqs \subseteq StreamSeqs'
  BY <1>1, StreamGrows DEF Store
<1>3. wire' \subseteq Publications \X Nat /\ pubAcks' \subseteq Publications \X Nat
  BY <1>1 DEF Store, TypeOK
<1>4. /\ delivered' \in 0 .. Len(stream')
      /\ pending' \subseteq StreamSeqs' /\ redeliver' \subseteq StreamSeqs'
      /\ acked' \subseteq StreamSeqs' /\ expired' \subseteq StreamSeqs'
      /\ ackWire' \subseteq StreamSeqs' /\ accepted' \subseteq StreamSeqs'
  BY <1>2 DEF Store, TypeOK, consumerVars, loopVars
<1>5. \A q \in Seq(StreamSeqs) : q \in Seq(StreamSeqs')
  BY <1>2, SeqMonotonic
<1>6. msgs' \in [Consumers -> Seq(StreamSeqs')] /\ acks' \in [Consumers -> Seq(StreamSeqs')]
  BY <1>5 DEF TypeOK, loopVars, batchVars
<1>7. events' \in [Consumers -> Seq(Event')]
  <2>1. Event \subseteq Event'
    BY <1>2 DEF Event
  <2>2. \A q \in Seq(Event) : q \in Seq(Event')
    BY <2>1, SeqMonotonic
  <2> QED
    BY <2>2 DEF TypeOK, loopVars, batchVars
<1> QED
  BY <1>2, <1>3, <1>4, <1>6, <1>7 DEF TypeOK, loopVars, batchVars, pubVars

(* The steps of the server on the consumer state keep it in the stream.     *)
LEMMA ConsumerStateType ==
  ASSUME TypeOK, NEW s \in StreamSeqs,
         \/ AckWaitExpires(s) \/ AckArrives(s) \/ AckLost(s) \/ AgesOut(s)
  PROVE  /\ UNCHANGED publishVars
         /\ delivered' = delivered
         /\ pending' \subseteq StreamSeqs /\ redeliver' \subseteq StreamSeqs
         /\ acked' \subseteq StreamSeqs /\ expired' \subseteq StreamSeqs
         /\ ackWire' \subseteq StreamSeqs
  BY DEF TypeOK, AckWaitExpires, AckArrives, AckLost, AgesOut

(* Handing out a message keeps the consumer state in the stream.            *)
LEMMA HandOutType ==
  ASSUME TypeOK, NEW s \in StreamSeqs, HandOut(s)
  PROVE  /\ delivered' \in 0 .. Len(stream)
         /\ pending' \subseteq StreamSeqs /\ redeliver' \subseteq StreamSeqs
  BY DEF TypeOK, HandOut, StreamSeqs

-----------------------------------------------------------------------------
(* Every state of the queue has the types TypeOK gives it.                  *)
THEOREM TypeCorrect == Spec => []TypeOK
<1>1. Init => TypeOK
  <2> SUFFICES ASSUME Init PROVE TypeOK
    OBVIOUS
  <2>1. Len(stream) = 0 /\ stream \in Seq(Publications)
    BY EmptySeq DEF Init, ServerInit
  <2> QED
    BY <2>1, EmptySeq DEF Init, ServerInit, TypeOK, PubStates, PCs
<1>2. TypeOK /\ [Next]_vars => TypeOK'
  <2> SUFFICES ASSUME TypeOK, [Next]_vars PROVE TypeOK'
    OBVIOUS
  <2> USE QueueAssumption
  <2>1. ASSUME NEW m \in Publications, CallPublish(m) \/ Publisher(m)
        PROVE  TypeOK'
    <3>1. wire' \subseteq Publications \X Nat
      BY <2>1 DEF CallPublish, Publisher, Send, PublishSucceeds, AttemptFails,
         TypeOK, publishVars
    <3>2. pubState' \in [Publications -> PubStates] /\ attempt' \in [Publications -> Nat]
      <4>1. CASE CallPublish(m)
        BY <4>1 DEF CallPublish, TypeOK, PubStates
      <4>2. CASE Send(m) \/ PublishSucceeds(m)
        BY <4>2 DEF Send, PublishSucceeds, TypeOK, PubStates
      <4>3. CASE AttemptFails(m)
        <5>1. /\ pubState \in [Publications -> PubStates] /\ attempt \in [Publications -> Nat]
              /\ attempt[m] + 1 \in Nat
          BY DEF TypeOK
        <5>2. /\ \E v \in PubStates : pubState' = [pubState EXCEPT ![m] = v]
              /\ attempt' \in {attempt, [attempt EXCEPT ![m] = @ + 1]}
          BY <4>3 DEF AttemptFails, PubStates
        <5> QED
          BY <5>1, <5>2
      <4> QED
        BY <2>1, <4>1, <4>2, <4>3 DEF Publisher
    <3>3. UNCHANGED <<pubAcks, stream, consumerVars, loopVars>>
      BY <2>1 DEF CallPublish, Publisher, Send, PublishSucceeds, AttemptFails, publishVars
    <3> QED
      BY <3>1, <3>2, <3>3 DEF TypeOK, Event, StreamSeqs, consumerVars, loopVars, batchVars
  <2>2. ASSUME NEW c \in Consumers, CreateConsumer(c) \/ CreateConsumerFails(c) \/ Fetch(c)
        PROVE  TypeOK'
    BY <2>2 DEF CreateConsumer, CreateConsumerFails, Fetch, TypeOK, PCs, Event, StreamSeqs,
       publishVars, consumerVars, pubVars, batchVars
  <2>3. ASSUME NEW c \in Consumers, NEW s \in StreamSeqs, Deliver(c, s)
        PROVE  TypeOK'
    <3>1. HandOut(s)
      BY <2>3 DEF Deliver
    <3>2. msgs' \in [Consumers -> Seq(StreamSeqs)]
      BY <2>3, AppendProperties DEF Deliver, TypeOK
    <3> QED
      BY <2>3, <3>1, <3>2, HandOutType DEF Deliver, HandOut, TypeOK, Event, StreamSeqs,
         publishVars, pubVars
  <2>4. ASSUME NEW c \in Consumers, NEW s \in StreamSeqs, DeliveryLost(c, s)
        PROVE  TypeOK'
    BY <2>4, HandOutType DEF DeliveryLost, HandOut, TypeOK, Event, StreamSeqs,
       publishVars, pubVars, loopVars, batchVars
  <2>5. ASSUME NEW c \in Consumers, Collect(c)
        PROVE  TypeOK'
    <3>1. /\ Head(msgs[c]) \in StreamSeqs /\ Tail(msgs[c]) \in Seq(StreamSeqs)
      BY <2>5, HeadTailProperties DEF Collect, TypeOK
    <3>3. NextIndex(c) \in Nat
      BY LenProperties DEF NextIndex, TypeOK
    <3>4. [Index |-> NextIndex(c), Payload |-> Head(msgs[c])] \in Event
      BY <3>1, <3>3 DEF Event
    <3>5. /\ events' \in [Consumers -> Seq(Event)]
          /\ acks' \in [Consumers -> Seq(StreamSeqs)]
      BY <2>5, <3>1, <3>4, AppendProperties DEF Collect, TypeOK
    <3>6. msgs' \in [Consumers -> Seq(StreamSeqs)]
      BY <2>5, <3>1 DEF Collect, TypeOK
    <3> QED
      BY <2>5, <3>5, <3>6 DEF Collect, TypeOK, Event, StreamSeqs, publishVars, consumerVars, pubVars
  <2>6. ASSUME NEW c \in Consumers, InProgressFails(c) \/ BatchEnds(c)
        PROVE  TypeOK'
    <3>1. LeaveBatch(c)
      BY <2>6 DEF InProgressFails, BatchEnds
    <3>2. msgs' \in [Consumers -> Seq(StreamSeqs)]
      BY <3>1, EmptySeq DEF LeaveBatch, TypeOK
    <3>3. pc' \in [Consumers -> PCs]
      BY <3>1 DEF LeaveBatch, TypeOK, PCs
    <3> QED
      BY <3>1, <3>2, <3>3 DEF LeaveBatch, TypeOK, Event, StreamSeqs, publishVars, consumerVars, pubVars
  <2>7. ASSUME NEW c \in Consumers, NEW r \in Results, CallbackReturns(c, r)
        PROVE  TypeOK'
    <3>1. r \in Seq(Int)
      BY DEF QueueAssumption
    <3>2. Range(events[c]) \subseteq Event
      BY RangeOfSeq DEF TypeOK
    <3>3. accepted' \subseteq StreamSeqs
      BY <2>7, <3>2 DEF CallbackReturns, Reported, Event, TypeOK
    <3> QED
      BY <2>7, <3>1, <3>3 DEF CallbackReturns, TypeOK, PCs, Event, StreamSeqs,
         publishVars, consumerVars, pubVars
  <2>8. ASSUME NEW c \in Consumers, SkipIndex(c) \/ Ack(c) \/ AckFails(c)
        PROVE  TypeOK'
    <3>1. res[c] # <<>> /\ Head(res[c]) \in Int /\ Tail(res[c]) \in Seq(Int)
      BY <2>8, HeadTailProperties DEF SkipIndex, Ack, AckFails, TypeOK
    <3>2. CASE SkipIndex(c)
      BY <3>1, <3>2 DEF SkipIndex, TypeOK, Event, StreamSeqs, publishVars, consumerVars, pubVars
    <3>3. CASE Ack(c)
      <4>1. Head(res[c]) \in Nat /\ Head(res[c]) + 1 \in 1 .. Len(acks[c])
        BY <3>1, <3>3, LenProperties DEF Ack, InBatch, TypeOK
      <4>2. acks[c][Head(res[c]) + 1] \in StreamSeqs
        BY <4>1, ElementOfSeq DEF TypeOK
      <4> QED
        BY <3>1, <3>3, <4>1, <4>2 DEF Ack, TypeOK, Event, StreamSeqs, publishVars, pubVars
    <3>4. CASE AckFails(c)
      <4>1. res' \in [Consumers -> Seq(Int)] /\ tries' \in [Consumers -> Nat]
        <5>1. /\ res \in [Consumers -> Seq(Int)] /\ tries \in [Consumers -> Nat]
              /\ tries[c] + 1 \in Nat
          BY DEF TypeOK
        <5>2. /\ \E v \in Nat : tries' = [tries EXCEPT ![c] = v]
              /\ res' = res \/ \E v \in Seq(Int) : res' = [res EXCEPT ![c] = v]
          BY <3>1, <3>4, <5>1 DEF AckFails
        <5>3. tries' \in [Consumers -> Nat]
          BY <5>1, <5>2
        <5>4. res' \in [Consumers -> Seq(Int)]
          BY <5>1, <5>2
        <5> QED
          BY <5>3, <5>4
      <4> QED
        BY <3>4, <4>1 DEF AckFails, TypeOK, Event, StreamSeqs, publishVars, consumerVars, pubVars
    <3> QED
      BY <2>8, <3>2, <3>3, <3>4
  <2>9. ASSUME NEW c \in Consumers, IterationEnds(c) \/ Crash(c)
        PROVE  TypeOK'
    <3>1. ForgetBatch(c)
      BY <2>9 DEF IterationEnds, Crash
    <3>2. /\ msgs' \in [Consumers -> Seq(StreamSeqs)]
          /\ events' \in [Consumers -> Seq(Event)]
          /\ acks' \in [Consumers -> Seq(StreamSeqs)]
          /\ res' \in [Consumers -> Seq(Int)]
          /\ spent' \in [Consumers -> SUBSET Nat]
          /\ tries' \in [Consumers -> Nat]
      <4>1. <<>> \in Seq(StreamSeqs) /\ <<>> \in Seq(Event) /\ <<>> \in Seq(Int)
        BY EmptySeq
      <4> QED
        BY <3>1, <4>1 DEF ForgetBatch, TypeOK
    <3>3. pc' \in [Consumers -> PCs] /\ crashes' \in Nat
      <4>1. pc \in [Consumers -> PCs] /\ crashes \in Nat /\ crashes + 1 \in Nat
        BY DEF TypeOK
      <4>2. /\ \E v \in PCs : pc' = [pc EXCEPT ![c] = v]
            /\ crashes' \in {crashes, crashes + 1}
        BY <2>9 DEF IterationEnds, Crash, PCs
      <4> QED
        BY <4>1, <4>2
    <3>4. UNCHANGED <<publishVars, consumerVars, pubVars, accepted>>
      BY <2>9 DEF IterationEnds, Crash
    <3> QED
      BY <3>2, <3>3, <3>4 DEF TypeOK, Event, StreamSeqs, publishVars, consumerVars, pubVars
  <2>10. ASSUME ServerStep
         PROVE  TypeOK'
    <3>1. CASE \E r \in wire : Store(r[1], r[2])
      BY <2>10, <3>1, StoreType DEF ServerStep
    <3>2. CASE \E s \in StreamSeqs : AckWaitExpires(s) \/ AckArrives(s) \/ AckLost(s) \/ AgesOut(s)
      BY <2>10, <3>2, ConsumerStateType DEF ServerStep, TypeOK, Event, StreamSeqs,
         publishVars, pubVars, loopVars, batchVars
    <3> QED
      BY <2>10, <3>1, <3>2 DEF ServerStep
  <2>11. CASE UNCHANGED vars
    BY <2>11 DEF vars, TypeOK, Event, StreamSeqs, publishVars, consumerVars, pubVars, loopVars, batchVars
  <2> QED
    BY <2>1, <2>2, <2>3, <2>4, <2>5, <2>6, <2>7, <2>8, <2>9, <2>10, <2>11
    DEF Next, Consumer
<1> QED
  BY <1>1, <1>2, PTL DEF Spec

-----------------------------------------------------------------------------
(* The inductive invariant behind the safety properties.                    *)

\* Event i of a batch has index i - 1 and is the message acks[i] settles.
Aligned ==
  \A c \in Consumers :
    /\ Len(acks[c]) = Len(events[c])
    /\ \A i \in 1 .. Len(events[c]) :
         events[c][i].Index = i - 1 /\ events[c][i].Payload = acks[c][i]

\* While a batch is acknowledged, each index left stands for a message that
\* the callback reported.
AckingReported ==
  \A c \in Consumers : pc[c] = "ack" =>
    \A j \in 1 .. Len(res[c]) :
      InBatch(c, res[c][j]) => acks[c][res[c][j] + 1] \in accepted

\* A message that aged out is not handed out again.
ExpiredIsGone == (pending \cup redeliver) \cap expired = {}

BatchInv == Aligned /\ AckingReported /\ AckedWereAccepted

(* Only Collect and the end of an iteration touch the slices of a batch.    *)
LEMMA BatchFrame ==
  ASSUME [Next]_vars
  PROVE  \/ UNCHANGED <<events, acks>>
         \/ \E c \in Consumers : Collect(c)
         \/ \E c \in Consumers : IterationEnds(c) \/ Crash(c)
<1>1. CASE UNCHANGED vars
  BY <1>1 DEF vars, loopVars, batchVars
<1>2. ASSUME NEW m \in Publications, CallPublish(m) \/ Publisher(m)
      PROVE  UNCHANGED <<events, acks>>
  BY <1>2 DEF CallPublish, Publisher, Send, PublishSucceeds, AttemptFails, loopVars, batchVars
<1>3. ASSUME NEW c \in Consumers,
             \/ CreateConsumer(c) \/ CreateConsumerFails(c) \/ Fetch(c)
             \/ InProgressFails(c) \/ BatchEnds(c)
             \/ \E r \in Results : CallbackReturns(c, r)
             \/ SkipIndex(c) \/ Ack(c) \/ AckFails(c)
             \/ \E s \in StreamSeqs : Deliver(c, s) \/ DeliveryLost(c, s)
      PROVE  UNCHANGED <<events, acks>>
  BY <1>3 DEF CreateConsumer, CreateConsumerFails, Fetch, InProgressFails, BatchEnds,
     LeaveBatch, CallbackReturns, SkipIndex, Ack, AckFails, Deliver, DeliveryLost,
     loopVars, batchVars
<1>4. ASSUME ServerStep
      PROVE  UNCHANGED <<events, acks>>
  BY <1>4 DEF ServerStep, loopVars, batchVars
<1> QED
  BY <1>1, <1>2, <1>3, <1>4 DEF Next, Consumer

(* The two slices of a batch stay aligned.                                  *)
LEMMA AlignedStep ==
  ASSUME TypeOK, Aligned, [Next]_vars
  PROVE  Aligned'
<1>1. CASE UNCHANGED <<events, acks>>
  BY <1>1 DEF Aligned
<1>2. ASSUME NEW c \in Consumers, Collect(c)
      PROVE  Aligned'
  <2> DEFINE s == Head(msgs[c])
             e == [Index |-> NextIndex(c), Payload |-> s]
  <2>1. s \in StreamSeqs
    BY <1>2, HeadTailProperties DEF Collect, TypeOK
  <2>2. events[c] \in Seq(Event) /\ acks[c] \in Seq(StreamSeqs) /\ Len(events[c]) \in Nat
    BY LenProperties DEF TypeOK
  <2>3. e \in Event
    BY <2>1, <2>2 DEF Event, NextIndex
  <2>4. /\ events' = [events EXCEPT ![c] = Append(@, e)]
        /\ acks' = [acks EXCEPT ![c] = Append(@, s)]
    BY <1>2 DEF Collect
  <2>5. /\ events'[c] = Append(events[c], e) /\ acks'[c] = Append(acks[c], s)
        /\ \A d \in Consumers \ {c} : events'[d] = events[d] /\ acks'[d] = acks[d]
    BY <2>4 DEF TypeOK
  <2>6. /\ Len(acks[c]) = Len(events[c])
        /\ Len(events'[c]) = Len(events[c]) + 1 /\ Len(acks'[c]) = Len(acks[c]) + 1
        /\ \A i \in 1 .. Len(events[c]) :
             events'[c][i] = events[c][i] /\ acks'[c][i] = acks[c][i]
        /\ events'[c][Len(events[c]) + 1] = e /\ acks'[c][Len(acks[c]) + 1] = s
    BY <2>1, <2>2, <2>3, <2>5, AppendProperties DEF Aligned
  <2>7. e.Index = Len(events[c]) /\ e.Payload = s
    BY DEF NextIndex
  <2>8. \A i \in 1 .. Len(events'[c]) :
          events'[c][i].Index = i - 1 /\ events'[c][i].Payload = acks'[c][i]
    <3> SUFFICES ASSUME NEW i \in 1 .. Len(events'[c])
                 PROVE  events'[c][i].Index = i - 1 /\ events'[c][i].Payload = acks'[c][i]
      OBVIOUS
    <3>1. CASE i = Len(events[c]) + 1
      <4>1. events'[c][i] = e /\ acks'[c][i] = s
        BY <3>1, <2>6
      <4>2. e.Index = i - 1
        BY <3>1, <2>2, <2>7
      <4> QED
        BY <4>1, <4>2, <2>7
    <3>2. CASE i \in 1 .. Len(events[c])
      BY <3>2, <2>6 DEF Aligned
    <3> QED
      BY <3>1, <3>2, <2>2, <2>6
  <2>9. Len(acks'[c]) = Len(events'[c])
    BY <2>6
  <2>10. \A d \in Consumers \ {c} :
           /\ Len(acks'[d]) = Len(events'[d])
           /\ \A i \in 1 .. Len(events'[d]) :
                events'[d][i].Index = i - 1 /\ events'[d][i].Payload = acks'[d][i]
    BY <2>5 DEF Aligned
  <2> HIDE DEF e, s
  <2> QED
    BY <2>8, <2>9, <2>10 DEF Aligned
<1>3. ASSUME NEW c \in Consumers, IterationEnds(c) \/ Crash(c)
      PROVE  Aligned'
  <2>1. /\ events'[c] = <<>> /\ acks'[c] = <<>>
        /\ \A d \in Consumers \ {c} : events'[d] = events[d] /\ acks'[d] = acks[d]
    BY <1>3 DEF IterationEnds, Crash, ForgetBatch, TypeOK
  <2>2. Len(<<>>) = 0 /\ 1 .. 0 = {}
    OBVIOUS
  <2>3. Len(acks'[c]) = Len(events'[c]) /\ 1 .. Len(events'[c]) = {}
    BY <2>1, <2>2
  <2>4. \A i \in 1 .. Len(events'[c]) :
          events'[c][i].Index = i - 1 /\ events'[c][i].Payload = acks'[c][i]
    BY <2>3
  <2> QED
    BY <2>1, <2>3, <2>4 DEF Aligned
<1> QED
  BY <1>1, <1>2, <1>3, BatchFrame

(* While no batch is touched by a consumer other than to shorten what is    *)
(* left to acknowledge, the indices left keep standing for reported ones.   *)
LEMMA AckingReportedKept ==
  ASSUME AckingReported, UNCHANGED acks, accepted \subseteq accepted',
         \A d \in Consumers : pc'[d] = "ack" => pc[d] = "ack" /\ res'[d] = res[d]
  PROVE  AckingReported'
BY DEF AckingReported, InBatch

(* Shortening res at its head leaves indices that were there before.        *)
LEMMA TailKeepsIndices ==
  ASSUME TypeOK, NEW c \in Consumers, res[c] # <<>>, res' = [res EXCEPT ![c] = Tail(@)]
  PROVE  /\ \A d \in Consumers \ {c} : res'[d] = res[d]
         /\ \A j \in 1 .. Len(res'[c]) : \E k \in 1 .. Len(res[c]) : res'[c][j] = res[c][k]
<1>1. res[c] \in Seq(Int) /\ res'[c] = Tail(res[c])
  BY DEF TypeOK
<1>2. /\ Len(res[c]) \in Nat /\ Len(Tail(res[c])) = Len(res[c]) - 1
      /\ \A j \in 1 .. Len(Tail(res[c])) : Tail(res[c])[j] = res[c][j + 1]
  BY <1>1, HeadTailProperties, LenProperties
<1>3. ASSUME NEW j \in 1 .. Len(res'[c])
      PROVE  j + 1 \in 1 .. Len(res[c]) /\ res'[c][j] = res[c][j + 1]
  <2>1. j \in 1 .. Len(Tail(res[c]))
    BY <1>1
  <2>2. res'[c][j] = res[c][j + 1]
    BY <1>1, <1>2, <2>1
  <2>3. j + 1 \in 1 .. Len(res[c])
    BY <1>2, <2>1
  <2> QED
    BY <2>2, <2>3
<1>4. \A d \in Consumers \ {c} : res'[d] = res[d]
  BY DEF TypeOK
<1> QED
  BY <1>3, <1>4

(* What is left to acknowledge was reported, whatever steps next.           *)
LEMMA AckingReportedStep ==
  ASSUME TypeOK, Aligned, AckingReported, [Next]_vars
  PROVE  AckingReported' /\ accepted \subseteq accepted'
<1>1. CASE UNCHANGED vars
  <2>1. UNCHANGED <<acks, accepted, pc, res>>
    BY <1>1 DEF vars, loopVars, batchVars
  <2> QED
    BY <2>1, AckingReportedKept
<1>2. ASSUME NEW m \in Publications, CallPublish(m) \/ Publisher(m)
      PROVE  AckingReported' /\ accepted \subseteq accepted'
  <2>1. UNCHANGED <<acks, accepted, pc, res>>
    BY <1>2 DEF CallPublish, Publisher, Send, PublishSucceeds, AttemptFails, loopVars, batchVars
  <2> QED
    BY <2>1, AckingReportedKept
<1>3. ASSUME ServerStep
      PROVE  AckingReported' /\ accepted \subseteq accepted'
  <2>1. UNCHANGED <<acks, accepted, pc, res>>
    BY <1>3 DEF ServerStep, loopVars, batchVars
  <2> QED
    BY <2>1, AckingReportedKept
<1>4. ASSUME NEW c \in Consumers, NEW s \in StreamSeqs, Deliver(c, s) \/ DeliveryLost(c, s)
      PROVE  AckingReported' /\ accepted \subseteq accepted'
  <2>1. UNCHANGED <<acks, accepted, pc, res>>
    BY <1>4 DEF Deliver, DeliveryLost, loopVars, batchVars
  <2> QED
    BY <2>1, AckingReportedKept
<1>5. ASSUME NEW c \in Consumers,
             \/ CreateConsumer(c) \/ CreateConsumerFails(c) \/ Fetch(c)
             \/ InProgressFails(c) \/ BatchEnds(c)
      PROVE  AckingReported' /\ accepted \subseteq accepted'
  <2>1. UNCHANGED <<acks, accepted, res>>
    BY <1>5 DEF CreateConsumer, CreateConsumerFails, Fetch, InProgressFails, BatchEnds,
       LeaveBatch, batchVars
  <2>2. \E v \in PCs \ {"ack"} : pc' = [pc EXCEPT ![c] = v]
    BY <1>5 DEF CreateConsumer, CreateConsumerFails, Fetch, InProgressFails, BatchEnds,
       LeaveBatch, PCs
  <2>3. \A d \in Consumers : pc'[d] = "ack" => pc[d] = "ack"
    BY <2>2 DEF TypeOK
  <2> QED
    BY <2>1, <2>3, AckingReportedKept
<1>6. ASSUME NEW c \in Consumers, Collect(c)
      PROVE  AckingReported' /\ accepted \subseteq accepted'
  <2>1. UNCHANGED <<accepted, res, pc>> /\ pc[c] = "collect"
    BY <1>6 DEF Collect
  <2>2. \A d \in Consumers : pc'[d] = "ack" => acks'[d] = acks[d]
    BY <1>6, <2>1 DEF Collect, TypeOK
  <2> QED
    BY <2>1, <2>2 DEF AckingReported, InBatch
<1>7. ASSUME NEW c \in Consumers, IterationEnds(c) \/ Crash(c)
      PROVE  AckingReported' /\ accepted \subseteq accepted'
  <2>1. UNCHANGED accepted
    BY <1>7 DEF IterationEnds, Crash
  <2>2. pc'[c] # "ack"
    BY <1>7 DEF IterationEnds, Crash, TypeOK
  <2>3. \A d \in Consumers \ {c} : pc'[d] = pc[d] /\ res'[d] = res[d] /\ acks'[d] = acks[d]
    BY <1>7 DEF IterationEnds, Crash, ForgetBatch, TypeOK
  <2> QED
    BY <2>1, <2>2, <2>3 DEF AckingReported, InBatch
<1>8. ASSUME NEW c \in Consumers, NEW r \in Results, CallbackReturns(c, r)
      PROVE  AckingReported' /\ accepted \subseteq accepted'
  <2>1. /\ UNCHANGED <<acks, events>> /\ accepted \subseteq accepted'
        /\ res'[c] = r
        /\ \A d \in Consumers \ {c} : pc'[d] = pc[d] /\ res'[d] = res[d]
    BY <1>8 DEF CallbackReturns, TypeOK
  <2>2. r \in Seq(Int) /\ events[c] \in Seq(Event) /\ acks[c] \in Seq(StreamSeqs)
    BY QueueAssumption DEF QueueAssumption, TypeOK
  <2>3. ASSUME NEW j \in 1 .. Len(r), InBatch(c, r[j])
        PROVE  acks[c][r[j] + 1] \in accepted'
    <3> DEFINE i == r[j] + 1
    <3>1. r[j] \in Int /\ r[j] \in Range(r)
      BY <2>2, ElementOfSeq, RangeEquality
    <3>2. i \in 1 .. Len(events[c])
      BY <2>2, <2>3, <3>1, LenProperties DEF InBatch, Aligned
    <3>3. events[c][i].Index = i - 1 /\ events[c][i].Payload = acks[c][i]
      BY <3>2 DEF Aligned
    <3>4. events[c][i] \in Range(events[c])
      BY <2>2, <3>2, RangeEquality
    <3>5. events[c][i] \in Reported(c, r)
      <4>1. i - 1 = r[j]
        BY <3>1
      <4> QED
        BY <3>1, <3>3, <3>4, <4>1 DEF Reported
    <3>6. events[c][i].Payload \in accepted'
      BY <1>8, <3>5 DEF CallbackReturns
    <3> QED
      BY <3>3, <3>6
  <2>4. ASSUME NEW d \in Consumers, pc'[d] = "ack",
               NEW j \in 1 .. Len(res'[d]), InBatch(d, res'[d][j])
        PROVE  acks'[d][res'[d][j] + 1] \in accepted'
    <3>1. CASE d = c
      BY <3>1, <2>1, <2>3, <2>4
    <3>2. CASE d # c
      BY <3>2, <2>1, <2>4 DEF AckingReported, InBatch
    <3> QED
      BY <3>1, <3>2
  <2> QED
    BY <2>1, <2>4 DEF AckingReported, InBatch
<1>9. ASSUME NEW c \in Consumers, SkipIndex(c) \/ Ack(c) \/ AckFails(c)
      PROVE  AckingReported' /\ accepted \subseteq accepted'
  <2>1. UNCHANGED <<acks, accepted, pc>> /\ res[c] # <<>>
    BY <1>9 DEF SkipIndex, Ack, AckFails
  <2>2. res' = res \/ res' = [res EXCEPT ![c] = Tail(@)]
    BY <1>9 DEF SkipIndex, Ack, AckFails
  <2>3. CASE res' = res
    BY <2>1, <2>3, AckingReportedKept
  <2>4. CASE res' = [res EXCEPT ![c] = Tail(@)]
    BY <2>1, <2>4, TailKeepsIndices DEF AckingReported, InBatch
  <2> QED
    BY <2>2, <2>3, <2>4
<1> QED
  BY <1>1, <1>2, <1>3, <1>4, <1>5, <1>6, <1>7, <1>8, <1>9 DEF Next, Consumer

(* Acknowledgements come into being in Ack only and are moved by the server. *)
LEMMA AckFrame ==
  ASSUME [Next]_vars
  PROVE  \/ UNCHANGED <<acked, ackWire>>
         \/ \E c \in Consumers : Ack(c)
         \/ \E s \in StreamSeqs : AckArrives(s) \/ AckLost(s)
<1>1. CASE UNCHANGED vars
  BY <1>1 DEF vars, consumerVars
<1>2. ASSUME NEW m \in Publications, CallPublish(m) \/ Publisher(m)
      PROVE  UNCHANGED <<acked, ackWire>>
  BY <1>2 DEF CallPublish, Publisher, Send, PublishSucceeds, AttemptFails, consumerVars
<1>3. ASSUME NEW c \in Consumers,
             \/ CreateConsumer(c) \/ CreateConsumerFails(c) \/ Fetch(c) \/ Collect(c)
             \/ InProgressFails(c) \/ BatchEnds(c)
             \/ \E r \in Results : CallbackReturns(c, r)
             \/ SkipIndex(c) \/ AckFails(c) \/ IterationEnds(c) \/ Crash(c)
             \/ \E s \in StreamSeqs : Deliver(c, s) \/ DeliveryLost(c, s)
      PROVE  UNCHANGED <<acked, ackWire>>
  BY <1>3 DEF CreateConsumer, CreateConsumerFails, Fetch, Collect, InProgressFails,
     BatchEnds, LeaveBatch, CallbackReturns, SkipIndex, AckFails, IterationEnds, Crash,
     Deliver, DeliveryLost, HandOut, consumerVars
<1>4. ASSUME ServerStep, ~ \E s \in StreamSeqs : AckArrives(s) \/ AckLost(s)
      PROVE  UNCHANGED <<acked, ackWire>>
  BY <1>4 DEF ServerStep, Store, AckWaitExpires, AgesOut, consumerVars
<1> QED
  BY <1>1, <1>2, <1>3, <1>4 DEF Next, Consumer

(* What is acknowledged stays within what was reported.                     *)
LEMMA AckedWereAcceptedStep ==
  ASSUME TypeOK, Aligned, AckingReported, AckedWereAccepted, [Next]_vars
  PROVE  AckedWereAccepted'
<1>1. accepted \subseteq accepted'
  BY AckingReportedStep
<1>2. CASE UNCHANGED <<acked, ackWire>>
  BY <1>1, <1>2 DEF AckedWereAccepted
<1>3. ASSUME NEW s \in StreamSeqs, AckArrives(s) \/ AckLost(s)
      PROVE  AckedWereAccepted'
  <2>1. acked' \subseteq acked \cup {s} /\ ackWire' \subseteq ackWire /\ s \in ackWire
    BY <1>3 DEF AckArrives, AckLost
  <2> QED
    BY <1>1, <2>1 DEF AckedWereAccepted
<1>4. ASSUME NEW c \in Consumers, Ack(c)
      PROVE  AckedWereAccepted'
  <2>1. res[c] \in Seq(Int) /\ res[c] # <<>> /\ pc[c] = "ack" /\ InBatch(c, Head(res[c]))
    BY <1>4 DEF Ack, TypeOK
  <2>2. 1 \in 1 .. Len(res[c]) /\ Head(res[c]) = res[c][1]
    BY <2>1, EmptySeq, LenProperties
  <2>3. acks[c][Head(res[c]) + 1] \in accepted
    BY <2>1, <2>2 DEF AckingReported
  <2>4. acked' = acked /\ ackWire' = ackWire \cup {acks[c][Head(res[c]) + 1]}
    BY <1>4 DEF Ack
  <2> QED
    BY <1>1, <2>3, <2>4 DEF AckedWereAccepted
<1> QED
  BY <1>2, <1>3, <1>4, AckFrame

BatchIInv == TypeOK /\ BatchInv

(* The inductive invariant holds in every state.                            *)
LEMMA BatchInvariant == Spec => []BatchIInv
<1>1. Init => BatchInv
  <2> SUFFICES ASSUME Init PROVE BatchInv
    OBVIOUS
  <2>1. Len(<<>>) = 0 /\ 1 .. 0 = {}
    OBVIOUS
  <2>2. ASSUME NEW c \in Consumers
        PROVE  /\ Len(acks[c]) = Len(events[c]) /\ 1 .. Len(events[c]) = {}
               /\ pc[c] # "ack"
    BY <2>1 DEF Init
  <2> QED
    BY <2>2 DEF BatchInv, Aligned, AckingReported, AckedWereAccepted, Init, ServerInit
<1>2. TypeOK /\ BatchInv /\ [Next]_vars => BatchInv'
  BY AlignedStep, AckingReportedStep, AckedWereAcceptedStep DEF BatchInv
<1> QED
  BY <1>1, <1>2, TypeCorrect, PTL DEF Spec, BatchIInv

(* No message is acknowledged that no callback reported.                    *)
THEOREM AcknowledgedWasReported == Spec => []AckedWereAccepted
<1>1. BatchIInv => AckedWereAccepted
  BY DEF BatchIInv, BatchInv
<1> QED
  BY <1>1, BatchInvariant, PTL

-----------------------------------------------------------------------------
(* The promise of the queue.                                                *)

(* What the specification of the promise sees is left alone by every step   *)
(* but the arrival of a message, a return of the callback, the arrival of   *)
(* an acknowledgement and the removal of an old message.                    *)
LEMMA PromiseFrame ==
  ASSUME [Next]_vars
  PROVE  \/ UNCHANGED <<stream, accepted, acked, expired>>
         \/ ServerStep
         \/ \E c \in Consumers, r \in Results : CallbackReturns(c, r)
<1>1. CASE UNCHANGED vars
  BY <1>1 DEF vars, publishVars, consumerVars, loopVars
<1>2. ASSUME NEW m \in Publications, CallPublish(m) \/ Publisher(m)
      PROVE  UNCHANGED <<stream, accepted, acked, expired>>
  BY <1>2 DEF CallPublish, Publisher, Send, PublishSucceeds, AttemptFails, publishVars,
     consumerVars, loopVars
<1>3. ASSUME NEW c \in Consumers,
             \/ CreateConsumer(c) \/ CreateConsumerFails(c) \/ Fetch(c) \/ Collect(c)
             \/ InProgressFails(c) \/ BatchEnds(c)
             \/ SkipIndex(c) \/ Ack(c) \/ AckFails(c) \/ IterationEnds(c) \/ Crash(c)
             \/ \E s \in StreamSeqs : Deliver(c, s) \/ DeliveryLost(c, s)
      PROVE  UNCHANGED <<stream, accepted, acked, expired>>
  BY <1>3 DEF CreateConsumer, CreateConsumerFails, Fetch, Collect, InProgressFails,
     BatchEnds, LeaveBatch, SkipIndex, Ack, AckFails, IterationEnds, Crash,
     Deliver, DeliveryLost, HandOut, publishVars, consumerVars, loopVars
<1> QED
  BY <1>1, <1>2, <1>3 DEF Next, Consumer

(* A message that aged out is neither pending nor due for redelivery.       *)
LEMMA ExpiredIsGoneInvariant == Spec => []ExpiredIsGone
<1>1. Init => ExpiredIsGone
  BY DEF Init, ServerInit, ExpiredIsGone
<1>2. ExpiredIsGone /\ [Next]_vars => ExpiredIsGone'
  <2> SUFFICES ASSUME ExpiredIsGone, [Next]_vars PROVE ExpiredIsGone'
    OBVIOUS
  <2>1. CASE UNCHANGED vars
    BY <2>1 DEF vars, consumerVars, ExpiredIsGone
  <2>2. ASSUME NEW m \in Publications, CallPublish(m) \/ Publisher(m)
        PROVE  UNCHANGED <<pending, redeliver, expired>>
    BY <2>2 DEF CallPublish, Publisher, Send, PublishSucceeds, AttemptFails, consumerVars
  <2>3. ASSUME NEW c \in Consumers,
               \/ CreateConsumer(c) \/ CreateConsumerFails(c) \/ Consumer(c) \/ Crash(c)
        PROVE  UNCHANGED <<pending, redeliver, expired>>
    BY <2>3 DEF CreateConsumer, CreateConsumerFails, Consumer, Fetch, Collect,
       InProgressFails, BatchEnds, LeaveBatch, CallbackReturns, SkipIndex, Ack, AckFails,
       IterationEnds, Crash, consumerVars
  <2>4. ASSUME NEW s \in StreamSeqs, HandOut(s)
        PROVE  ExpiredIsGone'
    BY <2>4 DEF HandOut, Available, ExpiredIsGone
  <2>5. CASE ServerStep
    <3>1. CASE \E r \in wire : Store(r[1], r[2])
      BY <3>1 DEF Store, consumerVars, ExpiredIsGone
    <3>2. ASSUME NEW s \in StreamSeqs,
                 AckWaitExpires(s) \/ AckArrives(s) \/ AckLost(s) \/ AgesOut(s)
          PROVE  ExpiredIsGone'
      BY <3>2 DEF AckWaitExpires, AckArrives, AckLost, AgesOut, ExpiredIsGone
    <3> QED
      BY <2>5, <3>1, <3>2 DEF ServerStep
  <2>6. ASSUME UNCHANGED <<pending, redeliver, expired>>
        PROVE  ExpiredIsGone'
    BY <2>6 DEF ExpiredIsGone
  <2> QED
    BY <2>1, <2>2, <2>3, <2>4, <2>5, <2>6 DEF Next, Deliver, DeliveryLost
<1> QED
  BY <1>1, <1>2, PTL DEF Spec

(* A step of the server is a step of the promise, or none.                  *)
LEMMA ServerKeepsPromise ==
  ASSUME TypeOK, AckedWereAccepted, ExpiredIsGone, ServerStep
  PROVE  [Promise!AbsNext]_(Promise!absVars)
<1>0. UNCHANGED accepted
  BY DEF ServerStep, loopVars
<1>1. ASSUME NEW r \in wire, Store(r[1], r[2])
      PROVE  Promise!Put
  <2>1. r[1] \in Publications
    BY DEF TypeOK
  <2>2. StreamSeqs \subseteq StreamSeqs'
    BY <1>1, <2>1, StreamGrows DEF Store
  <2> QED
    BY <1>0, <1>1, <2>2 DEF Promise!Put, Store, consumerVars
<1>2. ASSUME NEW s \in StreamSeqs, AckArrives(s)
      PROVE  Promise!Settle \/ UNCHANGED Promise!absVars
  <2>1. UNCHANGED <<stream, expired>> /\ StreamSeqs' = StreamSeqs
    BY <1>2 DEF AckArrives, publishVars, StreamSeqs
  <2>2. CASE s \in pending \cup redeliver
    <3>1. s \in accepted \ expired /\ acked' = acked \cup {s}
      BY <1>2, <2>2 DEF AckArrives, AckedWereAccepted, ExpiredIsGone
    <3> QED
      BY <1>0, <2>1, <3>1 DEF Promise!Settle
  <2>3. CASE s \notin pending \cup redeliver
    BY <1>0, <1>2, <2>1, <2>3 DEF AckArrives, Promise!absVars
  <2> QED
    BY <2>2, <2>3
<1>3. ASSUME NEW s \in StreamSeqs, AgesOut(s)
      PROVE  Promise!Discard
  <2>1. UNCHANGED <<stream, acked>> /\ StreamSeqs' = StreamSeqs
    BY <1>3 DEF AgesOut, publishVars, StreamSeqs
  <2> QED
    BY <1>0, <1>3, <2>1 DEF AgesOut, Promise!Discard
<1>4. ASSUME NEW s \in StreamSeqs, AckWaitExpires(s) \/ AckLost(s)
      PROVE  UNCHANGED Promise!absVars
  BY <1>0, <1>4 DEF AckWaitExpires, AckLost, publishVars, StreamSeqs, Promise!absVars
<1> QED
  BY <1>1, <1>2, <1>3, <1>4 DEF ServerStep, Promise!AbsNext

(* The queue implements its promise: a message stays its responsibility     *)
(* until a callback reported it or it grew too old, through every retry,    *)
(* redelivery, loss and crash.                                              *)
THEOREM QueueKeepsPromise == Spec => PromiseKept
<1>1. Init => Promise!AbsInit
  <2> SUFFICES ASSUME Init PROVE Promise!AbsInit
    OBVIOUS
  <2>1. Len(stream) = 0
    BY DEF Init, ServerInit
  <2>2. StreamSeqs = {}
    BY <2>1 DEF StreamSeqs
  <2> QED
    BY <2>2 DEF Init, ServerInit, Promise!AbsInit
<1>2. BatchIInv /\ ExpiredIsGone /\ [Next]_vars => [Promise!AbsNext]_(Promise!absVars)
  <2> SUFFICES ASSUME BatchIInv, ExpiredIsGone, [Next]_vars
               PROVE  [Promise!AbsNext]_(Promise!absVars)
    OBVIOUS
  <2>1. TypeOK /\ Aligned /\ AckingReported /\ AckedWereAccepted
    BY DEF BatchIInv, BatchInv
  <2>2. CASE UNCHANGED <<stream, accepted, acked, expired>>
    BY <2>2 DEF StreamSeqs, Promise!absVars
  <2>3. CASE ServerStep
    BY <2>1, <2>3, ServerKeepsPromise
  <2>4. ASSUME NEW c \in Consumers, NEW r \in Results, CallbackReturns(c, r)
        PROVE  Promise!Accept
    <3>1. Range(events[c]) \subseteq Event
      BY <2>1, RangeOfSeq DEF TypeOK
    <3>2. accepted \subseteq accepted' /\ accepted' \subseteq StreamSeqs
      BY <2>1, <2>4, <3>1 DEF CallbackReturns, Reported, Event, TypeOK
    <3>3. UNCHANGED <<stream, acked, expired>> /\ StreamSeqs' = StreamSeqs
      BY <2>4 DEF CallbackReturns, publishVars, consumerVars, StreamSeqs
    <3> QED
      BY <3>2, <3>3 DEF Promise!Accept
  <2> QED
    BY <2>2, <2>3, <2>4, PromiseFrame DEF Promise!AbsNext
<1> QED
  BY <1>1, <1>2, BatchInvariant, ExpiredIsGoneInvariant, PTL
  DEF Spec, PromiseKept, Promise!AbsSpec

-----------------------------------------------------------------------------
(* Publishing.                                                              *)

\* The attempts of m whose request is on the wire.
Requests(m) == {n \in Nat : <<m, n>> \in wire}

\* Requests of m sent so far: the attempt under way may not have sent its own.
SentBound(m) == IF pubState[m] = "sending" THEN attempt[m] - 1 ELSE attempt[m]

PublishingOf(m) ==
  /\ pubState[m] = "idle" => attempt[m] = 0
  /\ pubState[m] = "sending" => attempt[m] > 0
  /\ attempt[m] <= MaxRetries + 1
  /\ pubState[m] = "ok" => Copies(m) # {}
  /\ IsFiniteSet(Requests(m))
  /\ Cardinality(Copies(m)) + Cardinality(Requests(m)) <= SentBound(m)

AnswersAreStored == \A a \in pubAcks : Copies(a[1]) # {}

PublishInv == AnswersAreStored /\ \A m \in Publications : PublishingOf(m)

(* The copies of a message in the stream are finitely many.                 *)
LEMMA CopiesFinite ==
  ASSUME TypeOK, NEW m
  PROVE  IsFiniteSet(Copies(m)) /\ Cardinality(Copies(m)) \in Nat
<1>1. Len(stream) \in Nat
  BY LenProperties DEF TypeOK
<1>2. IsFiniteSet(StreamSeqs)
  BY <1>1, FS_Interval DEF StreamSeqs
<1>3. Copies(m) \in SUBSET StreamSeqs
  BY DEF Copies
<1> QED
  BY <1>2, <1>3, FS_Subset, FS_CardinalityType

(* Publishing a message leaves the other messages alone.                    *)
LEMMA OtherPublications ==
  ASSUME TypeOK, NEW m \in Publications, CallPublish(m) \/ Publisher(m),
         NEW x \in Publications, x # m, PublishingOf(x)
  PROVE  PublishingOf(x)'
<1>1. pubState'[x] = pubState[x] /\ attempt'[x] = attempt[x] /\ stream' = stream
  BY DEF CallPublish, Publisher, Send, PublishSucceeds, AttemptFails, TypeOK, publishVars
<1>2. wire' = wire \/ wire' = wire \cup {<<m, attempt[m]>>}
  BY DEF CallPublish, Publisher, Send, PublishSucceeds, AttemptFails, publishVars
<1>3. Requests(x)' = Requests(x)
  BY <1>2 DEF Requests
<1>4. Copies(x)' = Copies(x)
  BY <1>1 DEF Copies, StreamSeqs
<1>5. SentBound(x)' = SentBound(x)
  BY <1>1 DEF SentBound
<1> QED
  BY <1>1, <1>3, <1>4, <1>5 DEF PublishingOf

(* A step of the call that publishes m.                                     *)
LEMMA PublicationStep ==
  ASSUME TypeOK, AnswersAreStored, NEW m \in Publications, PublishingOf(m),
         CallPublish(m) \/ Publisher(m)
  PROVE  PublishingOf(m)'
<1> USE QueueAssumption DEF QueueAssumption
<1>1. /\ attempt[m] \in Nat /\ pubState[m] \in PubStates
      /\ m \in DOMAIN pubState /\ m \in DOMAIN attempt
  BY DEF TypeOK
<1>2. stream' = stream /\ Copies(m)' = Copies(m)
  BY DEF CallPublish, Publisher, Send, PublishSucceeds, AttemptFails, publishVars,
     Copies, StreamSeqs
<1>3. /\ Cardinality(Copies(m)) \in Nat /\ IsFiniteSet(Requests(m))
      /\ Cardinality(Requests(m)) \in Nat
  BY CopiesFinite, FS_CardinalityType DEF PublishingOf
<1>4. CASE CallPublish(m)
  <2>1. /\ pubState[m] = "idle" /\ pubState'[m] = "sending" /\ attempt'[m] = 1
        /\ wire' = wire
    BY <1>1, <1>4 DEF CallPublish, publishVars
  <2>2. Requests(m)' = Requests(m)
    BY <2>1 DEF Requests
  <2> QED
    BY <1>1, <1>2, <1>3, <2>1, <2>2 DEF PublishingOf, SentBound
<1>5. CASE Send(m)
  <2>1. /\ pubState[m] = "sending" /\ pubState'[m] = "waiting" /\ attempt'[m] = attempt[m]
        /\ wire' = wire \cup {<<m, attempt[m]>>}
    BY <1>1, <1>5 DEF Send
  <2>2. Requests(m)' = Requests(m) \cup {attempt[m]}
    BY <1>1, <2>1 DEF Requests
  <2>3. /\ IsFiniteSet(Requests(m)')
        /\ \/ Cardinality(Requests(m)') = Cardinality(Requests(m))
           \/ Cardinality(Requests(m)') = Cardinality(Requests(m)) + 1
    <3>1. /\ IsFiniteSet(Requests(m) \cup {attempt[m]})
          /\ \/ Cardinality(Requests(m) \cup {attempt[m]}) = Cardinality(Requests(m))
             \/ Cardinality(Requests(m) \cup {attempt[m]}) = Cardinality(Requests(m)) + 1
      BY <1>3, FS_AddElement
    <3> QED
      BY <2>2, <3>1
  <2> QED
    BY <1>1, <1>2, <1>3, <2>1, <2>3 DEF PublishingOf, SentBound
<1>6. CASE PublishSucceeds(m)
  <2>1. /\ pubState[m] = "waiting" /\ pubState'[m] = "ok" /\ attempt' = attempt
        /\ wire' = wire
    BY <1>1, <1>6 DEF PublishSucceeds, publishVars
  <2>2. Requests(m)' = Requests(m)
    BY <2>1 DEF Requests
  <2>3. Copies(m) # {}
    BY <1>6 DEF PublishSucceeds, AnswerIsIn, AnswersAreStored
  <2> QED
    BY <1>1, <1>2, <1>3, <2>1, <2>2, <2>3 DEF PublishingOf, SentBound
<1>7. CASE AttemptFails(m)
  <2>1. wire' = wire /\ pubState[m] \in {"sending", "waiting"}
    BY <1>7 DEF AttemptFails, publishVars
  <2>2. Requests(m)' = Requests(m)
    BY <2>1 DEF Requests
  <2>3. \/ /\ pubState'[m] = "sending" /\ attempt'[m] = attempt[m] + 1
           /\ attempt[m] <= MaxRetries
        \/ pubState'[m] = "failed" /\ attempt'[m] = attempt[m]
    BY <1>1, <1>7 DEF AttemptFails, MayRetry
  <2>4. CASE pubState'[m] = "failed" /\ attempt'[m] = attempt[m]
    BY <1>1, <1>2, <1>3, <2>1, <2>2, <2>4 DEF PublishingOf, SentBound
  <2>5. CASE /\ pubState'[m] = "sending" /\ attempt'[m] = attempt[m] + 1
             /\ attempt[m] <= MaxRetries
    BY <1>1, <1>2, <1>3, <2>1, <2>2, <2>5 DEF PublishingOf, SentBound
  <2> QED
    BY <2>3, <2>4, <2>5
<1> QED
  BY <1>4, <1>5, <1>6, <1>7 DEF Publisher

(* A request turns into a copy in the stream, and its answer is truthful.   *)
LEMMA StoreKeepsPublishInv ==
  ASSUME TypeOK, PublishInv, NEW r \in wire, Store(r[1], r[2]), UNCHANGED pubVars
  PROVE  PublishInv'
<1> DEFINE m == r[1]
           n == r[2]
           new == Len(stream) + 1
<1>1. m \in Publications /\ n \in Nat /\ r = <<m, n>>
  BY DEF TypeOK
<1>2. /\ stream' = Append(stream, m) /\ wire' = wire \ {<<m, n>>}
      /\ pubAcks' = pubAcks \cup {<<m, n>>} /\ pubState' = pubState /\ attempt' = attempt
  BY DEF Store, pubVars
<1>3. /\ Len(stream) \in Nat /\ StreamSeqs' = StreamSeqs \cup {new} /\ new \notin StreamSeqs
      /\ \A s \in StreamSeqs : stream'[s] = stream[s]
      /\ stream'[new] = m
  <2>1. /\ Len(stream) \in Nat /\ Len(stream') = new
        /\ \A s \in StreamSeqs : stream'[s] = stream[s]
        /\ stream'[new] = m
    BY <1>1, <1>2, StreamGrows
  <2> QED
    BY <2>1 DEF StreamSeqs
<1> HIDE DEF m, n, new
<1>4. Copies(m)' = Copies(m) \cup {new} /\ new \notin Copies(m)
  BY <1>3 DEF Copies
<1>5. \A x : x # m => Copies(x)' = Copies(x)
  BY <1>3 DEF Copies
<1>6. AnswersAreStored'
  BY <1>2, <1>4, <1>5 DEF AnswersAreStored, PublishInv
<1>7. ASSUME NEW x \in Publications, x # m
      PROVE  PublishingOf(x)'
  <2>1. Requests(x)' = Requests(x)
    BY <1>2, <1>7 DEF Requests
  <2>2. SentBound(x)' = SentBound(x)
    BY <1>2 DEF SentBound
  <2> QED
    BY <1>2, <1>5, <1>7, <2>1, <2>2 DEF PublishingOf, PublishInv
<1>8. PublishingOf(m)'
  <2>1. PublishingOf(m)
    BY <1>1 DEF PublishInv
  <2>2. Requests(m)' = Requests(m) \ {n} /\ n \in Requests(m)
    BY <1>1, <1>2 DEF Requests
  <2>3. IsFiniteSet(Requests(m)) /\ IsFiniteSet(Copies(m))
    BY <2>1, CopiesFinite DEF PublishingOf
  <2>4. /\ IsFiniteSet(Requests(m)')
        /\ Cardinality(Requests(m)') = Cardinality(Requests(m)) - 1
    BY <2>2, <2>3, FS_RemoveElement
  <2>5. Cardinality(Copies(m)') = Cardinality(Copies(m)) + 1
    BY <1>4, <2>3, FS_AddElement
  <2>6. SentBound(m)' = SentBound(m)
    BY <1>2 DEF SentBound
  <2>7. Cardinality(Copies(m)) \in Nat /\ Cardinality(Requests(m)) \in Nat
    BY <2>3, FS_CardinalityType
  <2>8. Cardinality(Copies(m)') + Cardinality(Requests(m)')
          = Cardinality(Copies(m)) + Cardinality(Requests(m))
    BY <2>4, <2>5, <2>7
  <2>9. Copies(m)' # {}
    BY <1>4
  <2> QED
    BY <1>2, <2>1, <2>4, <2>6, <2>8, <2>9 DEF PublishingOf
<1> QED
  BY <1>6, <1>7, <1>8 DEF PublishInv

(* Publish that returned no error left a copy in the stream, and no call    *)
(* leaves more copies than its policy has attempts.                         *)
THEOREM PublishStores == Spec => []PublishedIsStored
<1>1. Init => PublishInv
  <2> SUFFICES ASSUME Init PROVE PublishInv
    OBVIOUS
  <2>1. Len(stream) = 0
    BY DEF Init, ServerInit
  <2>2. \A m : Copies(m) = {}
    BY <2>1 DEF Copies, StreamSeqs
  <2>3. \A m : Requests(m) = {}
    BY DEF Requests, Init, ServerInit
  <2>4. \A m \in Publications : attempt[m] = 0 /\ pubState[m] = "idle"
    BY DEF Init
  <2> QED
    <3>1. AnswersAreStored
      BY DEF AnswersAreStored, Init, ServerInit
    <3>2. Cardinality({}) = 0 /\ IsFiniteSet({}) /\ 0 <= MaxRetries + 1
      BY FS_EmptySet, QueueAssumption DEF QueueAssumption
    <3>3. ASSUME NEW m \in Publications
          PROVE  PublishingOf(m)
      <4>1. SentBound(m) = 0
        BY <2>4 DEF SentBound
      <4> QED
        BY <2>2, <2>3, <2>4, <3>2, <4>1 DEF PublishingOf
    <3> QED
      BY <3>1, <3>3 DEF PublishInv
<1>2. TypeOK /\ PublishInv /\ [Next]_vars => PublishInv'
  <2> SUFFICES ASSUME TypeOK, PublishInv, [Next]_vars PROVE PublishInv'
    OBVIOUS
  <2>1. ASSUME UNCHANGED <<publishVars, pubVars>>
        PROVE  PublishInv'
    <3>1. UNCHANGED <<wire, pubAcks, stream, pubState, attempt>>
      BY <2>1 DEF publishVars, pubVars
    <3>2. \A m : /\ Copies(m)' = Copies(m) /\ Requests(m)' = Requests(m)
                 /\ SentBound(m)' = SentBound(m)
      BY <3>1 DEF Copies, StreamSeqs, Requests, SentBound
    <3> QED
      BY <3>1, <3>2 DEF PublishInv, AnswersAreStored, PublishingOf
  <2>2. ASSUME NEW m \in Publications, CallPublish(m) \/ Publisher(m)
        PROVE  PublishInv'
    <3>1. UNCHANGED <<pubAcks, stream>>
      BY <2>2 DEF CallPublish, Publisher, Send, PublishSucceeds, AttemptFails, publishVars
    <3>2. AnswersAreStored'
      BY <3>1 DEF PublishInv, AnswersAreStored, Copies, StreamSeqs
    <3>3. \A x \in Publications : PublishingOf(x)'
      BY <2>2, OtherPublications, PublicationStep DEF PublishInv
    <3> QED
      BY <3>2, <3>3 DEF PublishInv
  <2>3. ASSUME NEW c \in Consumers,
               \/ CreateConsumer(c) \/ CreateConsumerFails(c) \/ Consumer(c) \/ Crash(c)
               \/ \E s \in StreamSeqs : Deliver(c, s) \/ DeliveryLost(c, s)
        PROVE  UNCHANGED <<publishVars, pubVars>>
    BY <2>3 DEF CreateConsumer, CreateConsumerFails, Consumer, Fetch, Collect,
       InProgressFails, BatchEnds, LeaveBatch, CallbackReturns, SkipIndex, Ack, AckFails,
       IterationEnds, Crash, Deliver, DeliveryLost, publishVars
  <2>4. CASE ServerStep
    <3>1. UNCHANGED pubVars
      BY <2>4 DEF ServerStep
    <3>2. CASE \E r \in wire : Store(r[1], r[2])
      BY <3>1, <3>2, StoreKeepsPublishInv
    <3>3. CASE \E s \in StreamSeqs :
                 AckWaitExpires(s) \/ AckArrives(s) \/ AckLost(s) \/ AgesOut(s)
      BY <2>1, <3>1, <3>3 DEF AckWaitExpires, AckArrives, AckLost, AgesOut
    <3> QED
      BY <2>4, <3>2, <3>3 DEF ServerStep
  <2>5. CASE UNCHANGED vars
    BY <2>1, <2>5 DEF vars
  <2> QED
    BY <2>1, <2>2, <2>3, <2>4, <2>5 DEF Next
<1>3. TypeOK /\ PublishInv => PublishedIsStored
  <2> SUFFICES ASSUME TypeOK, PublishInv, NEW m \in Publications
               PROVE  /\ pubState[m] = "ok" => Copies(m) # {}
                      /\ Cardinality(Copies(m)) <= MaxRetries + 1
    BY DEF PublishedIsStored
  <2>1. PublishingOf(m)
    BY DEF PublishInv
  <2>2. /\ Cardinality(Copies(m)) \in Nat /\ Cardinality(Requests(m)) \in Nat
        /\ attempt[m] \in Nat
    BY <2>1, CopiesFinite, FS_CardinalityType DEF PublishingOf, TypeOK
  <2> QED
    BY <2>1, <2>2, QueueAssumption DEF PublishingOf, SentBound, QueueAssumption
<1> QED
  BY <1>1, <1>2, <1>3, TypeCorrect, PTL DEF Spec
=============================================================================
