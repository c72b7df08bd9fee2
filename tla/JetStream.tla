----------------------------- MODULE JetStream -----------------------------
(***************************************************************************)
(* The part of a NATS JetStream server that queue/client.go relies on: one *)
(* stream with the limits retention policy and one durable consumer with   *)
(* explicit acknowledgements.  The server is not in this repository; what  *)
(* is modelled is what the client code asks of it and expects back.        *)
(*                                                                         *)
(* A request of a publisher is the pair <<m, n>> of the publication and    *)
(* the number of the attempt: JetStream answers each request on an inbox   *)
(* of its own, so the answer to an earlier attempt is not taken for the    *)
(* answer to a later one.  Nothing is deduplicated: the client sends no    *)
(* message id.  Messages on the wire are sets; one that is never taken out *)
(* of its set is a lost one, and the order of arrival is free.             *)
(***************************************************************************)
EXTENDS Naturals, Sequences

CONSTANTS Publications      \* the messages the program publishes

VARIABLES
  wire,        \* publish requests under way to the server, <<m, n>>
  pubAcks,     \* publish acknowledgements under way to the client, <<m, n>>
  stream,      \* the stored messages; the position is the stream sequence
  delivered,   \* highest sequence the durable consumer has handed out
  pending,     \* sequences handed out whose AckWait timer is running
  redeliver,   \* sequences whose AckWait timer has expired
  acked,       \* sequences the server has taken an acknowledgement for
  expired,     \* sequences removed by MaxAge before they were acknowledged
  ackWire      \* acknowledgements under way to the server

publishVars  == <<wire, pubAcks, stream>>
consumerVars == <<delivered, pending, redeliver, acked, expired, ackWire>>

StreamSeqs == 1 .. Len(stream)

ServerInit ==
  /\ wire = {} /\ pubAcks = {} /\ stream = <<>>
  /\ delivered = 0
  /\ pending = {} /\ redeliver = {} /\ acked = {} /\ expired = {}
  /\ ackWire = {}

-----------------------------------------------------------------------------
\* A publish request reaches the stream, possibly after its sender gave up.
Store(m, n) ==
  /\ <<m, n>> \in wire
  /\ wire' = wire \ {<<m, n>>}
  /\ stream' = Append(stream, m)
  /\ pubAcks' = pubAcks \cup {<<m, n>>}
  /\ UNCHANGED consumerVars

-----------------------------------------------------------------------------
\* What the durable consumer serves next: expired deliveries before new
\* messages, new messages in stream order past those that aged out.
Available(s) ==
  \/ s \in redeliver
  \/ /\ redeliver = {}
     /\ s \in (delivered + 1) .. Len(stream)
     /\ s \notin expired
     /\ \A t \in (delivered + 1) .. (s - 1) : t \in expired

HandOut(s) ==
  /\ Available(s)
  /\ delivered' = IF s > delivered THEN s ELSE delivered
  /\ pending' = pending \cup {s}
  /\ redeliver' = redeliver \ {s}
  /\ UNCHANGED <<acked, expired, ackWire>>

\* The AckWait of the server runs out.  Its default of 30 seconds is shorter
\* than the minute a callback is given, so it may do so at any time.
AckWaitExpires(s) ==
  /\ s \in pending
  /\ pending' = pending \ {s}
  /\ redeliver' = redeliver \cup {s}
  /\ UNCHANGED <<publishVars, delivered, acked, expired, ackWire>>

\* An acknowledgement arrives.  It settles the message whichever delivery it
\* answers, and is ignored when the message aged out or was acknowledged.
AckArrives(s) ==
  /\ s \in ackWire
  /\ ackWire' = ackWire \ {s}
  /\ acked' = acked \cup ({s} \cap (pending \cup redeliver))
  /\ pending' = pending \ {s}
  /\ redeliver' = redeliver \ {s}
  /\ UNCHANGED <<publishVars, delivered, expired>>

AckLost(s) ==
  /\ s \in ackWire
  /\ ackWire' = ackWire \ {s}
  /\ UNCHANGED <<publishVars, delivered, pending, redeliver, acked, expired>>

\* MaxAge removes a message nobody acknowledged; the removal of one that was
\* acknowledged changes nothing this model holds.
AgesOut(s) ==
  /\ s \in StreamSeqs \ (acked \cup expired)
  /\ expired' = expired \cup {s}
  /\ pending' = pending \ {s}
  /\ redeliver' = redeliver \ {s}
  /\ UNCHANGED <<publishVars, delivered, acked, ackWire>>
=============================================================================
