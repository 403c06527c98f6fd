--------------------------- MODULE ServerPipeline ---------------------------
(***************************************************************************)
(* ConnectionRegistry, and the ServerPipeline that drives one socket read   *)
(* through framing, the ingress ring, the engine and the egress ring.       *)
(*                                                                          *)
(* Everything runs on one thread.  submit_client_bytes is a sequence of     *)
(* steps, and no other handler runs in between.  A frame is a message or a  *)
(* bad frame; how bytes become frames is module FrameBuffer.  Who calls the *)
(* pipeline, and when, is module TcpServer.                                 *)
(***************************************************************************)
EXTENDS EngineProcessor

CONSTANTS
  Sockets,            \* file descriptors of clients
  max_connections,    \* the connection cap
  Commands,           \* messages the clients send, some of Inbound
  MaxBatch,           \* most frames one socket read holds
  NoSocket

ASSUME ServerAssumption ==
  /\ NoSocket \notin Sockets
  /\ max_connections \in Nat
  /\ Commands \subseteq Inbound

VARIABLES
  open,           \* descriptors the kernel holds open
  connections,    \* ConnectionRegistry::connections_
  monitored,      \* SelectReadinessPoller::monitored_
  outbound,       \* events the caller's sink keeps, per connection
  stage,          \* where the thread stands
  fd,             \* the connection being read
  batch,          \* frames this read has delivered
  ingress_backpressure_count,
  responses_emitted

registryVars == <<open, connections, monitored>>

countVars == <<ingress_backpressure_count, responses_emitted>>

pipelineVars == <<registryVars, outbound, stage, fd, batch, countVars>>

-----------------------------------------------------------------------------
(* ConnectionRegistry.                                                      *)

AtCapacity == Cardinality(connections) >= max_connections

(* accept below the cap; at the cap the socket is closed and nothing else   *)
(* changes.                                                                 *)
accept(s) ==
  /\ ~ AtCapacity
  /\ open' = open \cup {s}
  /\ connections' = connections \cup {s}
  /\ monitored' = monitored \cup {s}

(* Fault: the descriptor stays registered with the poller.                  *)
FaultStayMonitored(s) ==
  /\ open' = open \ (connections \cap {s})
  /\ connections' = connections \ {s}
  /\ UNCHANGED monitored

(* The single teardown path; nothing for an unknown descriptor.             *)
teardown(s) ==
  /\ monitored' = monitored \ (connections \cap {s})
  /\ open' = open \ (connections \cap {s})
  /\ connections' = connections \ {s}

-----------------------------------------------------------------------------
(* ServerPipeline::submit_client_bytes.                                     *)

(* The framer delivers a message and the pipeline submits it; a refusal by  *)
(* the full ring is counted.                                                *)
DeliverFrame(msg) ==
  /\ stage = "Framing"
  /\ batch < MaxBatch
  /\ batch' = batch + 1
  /\ submit(msg)
  /\ ingress_backpressure_count' =
       ingress_backpressure_count + IF Len(ingress) = IngressCapacity THEN 1 ELSE 0
  /\ UNCHANGED <<registryVars, outbound, stage, fd, responses_emitted>>

(* The bytes of this read are used up, a partial frame is kept.             *)
EndOfBytes ==
  /\ stage = "Framing"
  /\ stage' = "Processing"
  /\ UNCHANGED <<coreVars, procVars, registryVars, outbound, fd, batch, countVars>>

(* An oversize or undecodable frame tears the connection down; what was     *)
(* framed before it is processed all the same.                              *)
BadFrame ==
  /\ stage = "Framing"
  /\ teardown(fd)
  /\ stage' = "Processing"
  /\ UNCHANGED <<coreVars, procVars, outbound, fd, batch, countVars>>

(* process_all.                                                             *)
RunEngine ==
  /\ stage = "Processing"
  /\ Process
  /\ UNCHANGED pipelineVars

(* Fault: one message is processed per read.                                *)
FaultProcessOnce ==
  /\ stage = "Processing"
  /\ Idle
  /\ stage' = "Draining"
  /\ UNCHANGED <<coreVars, procVars, registryVars, outbound, fd, batch, countVars>>

StartDrain ==
  /\ stage = "Processing"
  /\ Idle /\ ingress = << >>
  /\ stage' = "Draining"
  /\ UNCHANGED <<coreVars, procVars, registryVars, outbound, fd, batch, countVars>>

(* The sink's map makes an empty queue for a connection that has none.      *)
Queue(c) == IF c \in DOMAIN outbound THEN outbound[c] ELSE << >>

(* drain_events: every event goes to the connection that was read.          *)
DrainEvent ==
  /\ stage = "Draining"
  /\ next_event
  /\ outbound' = [c \in DOMAIN outbound \cup {fd} |->
                    IF c = fd THEN Append(Queue(c), Head(egress)) ELSE outbound[c]]
  /\ responses_emitted' = responses_emitted + 1
  /\ UNCHANGED <<registryVars, stage, fd, batch, ingress_backpressure_count>>

Submitting ==
  \/ \E msg \in Commands : DeliverFrame(msg)
  \/ EndOfBytes
  \/ BadFrame
  \/ RunEngine
  \/ StartDrain
  \/ DrainEvent

PipelineInit ==
  /\ ProcInit
  /\ open = {} /\ connections = {} /\ monitored = {}
  /\ outbound = << >>
  /\ fd = NoSocket /\ batch = 0
  /\ ingress_backpressure_count = 0 /\ responses_emitted = 0

=============================================================================
