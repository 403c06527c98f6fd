-------------------------- MODULE TcpServerProofs --------------------------
(***************************************************************************)
(* The server around the engine: what it calls are the operations of the    *)
(* processor, a read leaves nothing in the rings, and the four records of   *)
(* which connections exist agree; for every number of descriptors, every    *)
(* cap and every ring, and whatever order handlers, failures and signals    *)
(* come in.  Then what a step of the server does to the commands taken and  *)
(* to the events produced for them, which TcpAnswerProofs builds on.        *)
(***************************************************************************)
EXTENDS MCTcpServer, EngineProofs, FiniteSetTheorems

Serving == stage \in {"Framing", "Processing", "Draining"}

(* What each stage of a read says about the rings.  Outside a read both are *)
(* empty because a read ends only when its last stage emptied the egress    *)
(* ring, and that one started only when the stage before had emptied the    *)
(* ingress ring.                                                            *)
StageInv ==
  /\ read_set \subseteq Sockets /\ monitored \subseteq Sockets
  /\ Serving <=> fd # NoSocket
  /\ ~ Serving => ingress = << >> /\ egress = << >> /\ Idle
  /\ stage = "Framing" => Idle
  /\ stage = "Draining" => ingress = << >> /\ Idle

-----------------------------------------------------------------------------

(* The server changes the engine only through the processor's operations.   *)
LEMMA ServerStepIsProcStep == [ServerNext]_allVars => [ProcNext]_<<coreVars, procVars>>
<1> SUFFICES ASSUME [ServerNext]_allVars PROVE [ProcNext]_<<coreVars, procVars>>
  OBVIOUS
<1> DEFINE Same == UNCHANGED <<coreVars, procVars>>
<1>1. CASE Start
  BY <1>1 DEF Start, ProcNext
<1>2. CASE Select \/ Stop \/ EndAccept \/ StartWriting \/ EndPass
  BY <1>2 DEF Select, Stop, EndAccept, StartWriting, EndPass
<1>3. ASSUME NEW s \in Sockets,
             \/ AcceptClient(s) \/ ReadEnds(s) \/ ReadNothing(s) \/ ReadBytes(s)
             \/ WriteFails(s)
      PROVE  Same
  BY <1>3 DEF AcceptClient, ReadEnds, ReadNothing, ReadBytes, WriteFails, Writing
<1>4. CASE Submit
  <2>1. ASSUME NEW msg \in Commands, DeliverFrame(msg) PROVE ProcNext
    BY <2>1, ServerAssumption DEF DeliverFrame, ProcNext
  <2>2. CASE EndOfBytes \/ BadFrame \/ StartDrain
    BY <2>2 DEF EndOfBytes, BadFrame, StartDrain
  <2>3. CASE RunEngine
    BY <2>3 DEF RunEngine, ProcNext
  <2>4. CASE DrainEvent
    BY <2>4 DEF DrainEvent, ProcNext
  <2> QED
    BY <1>4, <2>1, <2>2, <2>3, <2>4 DEF Submit, Submitting
<1>5. CASE FinishRead
  BY <1>5 DEF FinishRead, EndRead
<1>6. ASSUME NEW s, NEW n, Sends(s, n) PROVE Same
  BY <1>6 DEF Sends, WriteSome, Writing, Flush, EndRead
<1>7. CASE UNCHANGED allVars
  BY <1>7 DEF allVars
<1> QED
  BY <1>1, <1>2, <1>3, <1>4, <1>5, <1>6, <1>7 DEF ServerNext, Steps

(* The engine process drives its processor within what EngineProcessor      *)
(* allows, so that what is proved of the processor and of the matching core *)
(* holds of the running server.                                             *)
THEOREM ServerRunsProcessor == ServerSpec => ProcSpec
<1>1. ServerInit => ProcInit
  BY DEF ServerInit, PipelineInit
<1> QED
  BY <1>1, ServerStepIsProcStep, PTL DEF ServerSpec, ProcSpec

-----------------------------------------------------------------------------
(* The rings.                                                               *)

LEMMA StageInvInit == ServerInit => StageInv
BY DEF ServerInit, PipelineInit, ProcInit, CoreInit, StageInv, Serving, Idle

LEMMA StageInvNext == StageInv /\ [ServerNext]_allVars => StageInv'
<1> SUFFICES ASSUME StageInv, [ServerNext]_allVars PROVE StageInv'
  OBVIOUS
<1> USE DEF StageInv, Serving, Idle
<1>1. CASE Start
  BY <1>1 DEF Start, initialize, ResetCore, ringVars, coreVars, registryVars, passVars
<1>2. CASE Select \/ Stop
  BY <1>2 DEF Select, Stop, coreVars, procVars, registryVars, passVars
<1>3. CASE EndAccept \/ StartWriting \/ EndPass
  BY <1>3 DEF EndAccept, StartWriting, EndPass, coreVars, procVars, registryVars, passVars
<1>4. ASSUME NEW s \in Sockets, AcceptClient(s) \/ ReadEnds(s) \/ WriteFails(s)
      PROVE  StageInv'
  BY <1>4 DEF AcceptClient, accept, ReadEnds, Reading, WriteFails, Writing, SendFails,
     teardown, coreVars, procVars, registryVars, passVars
<1>5. ASSUME NEW s \in Sockets, ReadNothing(s) \/ ReadBytes(s)
      PROVE  StageInv'
  BY <1>5, ServerAssumption DEF ReadNothing, ReadBytes, Reading, coreVars, procVars,
     pipelineVars, registryVars
<1>6. CASE Submit
  <2>1. ASSUME NEW msg \in Commands, DeliverFrame(msg) PROVE StageInv'
    BY <1>6, <2>1 DEF Submit, DeliverFrame, submit, coreVars, registryVars, passVars
  <2>2. CASE EndOfBytes \/ StartDrain
    BY <1>6, <2>2 DEF Submit, EndOfBytes, StartDrain, coreVars, procVars, registryVars, passVars
  <2>3. CASE BadFrame
    BY <1>6, <2>3 DEF Submit, BadFrame, teardown, coreVars, procVars, passVars
  <2>4. CASE RunEngine
    BY <1>6, <2>4 DEF Submit, RunEngine, pipelineVars, registryVars, passVars
  <2>5. CASE DrainEvent
    BY <1>6, <2>5 DEF Submit, DrainEvent, next_event, coreVars, registryVars, passVars
  <2> QED
    BY <1>6, <2>1, <2>2, <2>3, <2>4, <2>5 DEF Submit, Submitting
<1>7. CASE FinishRead
  BY <1>7 DEF FinishRead, EndRead, SendFails, teardown, coreVars, procVars, registryVars,
     passVars
<1>8. ASSUME NEW s, NEW n, Sends(s, n) PROVE StageInv'
  BY <1>8 DEF Sends, WriteSome, Writing, Flush, EndRead, SendSome, coreVars, procVars,
     registryVars, passVars
<1>9. CASE UNCHANGED allVars
  BY <1>9 DEF allVars, coreVars, procVars, serverVars, pipelineVars, registryVars, passVars
<1> QED
  BY <1>1, <1>2, <1>3, <1>4, <1>5, <1>6, <1>7, <1>8, <1>9 DEF ServerNext, Steps

(* Between two reads both rings are empty and no call is in progress, so    *)
(* that the events drained by a read are those of its own commands.         *)
THEOREM ServerRingsEmpty == ServerSpec => []RingsEmptyBetweenReads
<1>1. StageInv => RingsEmptyBetweenReads
  BY DEF StageInv, RingsEmptyBetweenReads, BetweenReads
<1> QED
  BY <1>1, StageInvInit, StageInvNext, PTL DEF ServerSpec

-----------------------------------------------------------------------------
(* The connections.                                                         *)

(* The connection being read, if there is one.                              *)
Served == {fd} \ {NoSocket}

(* A read may find its own connection closed: it still has its queue and    *)
(* is not yet counted as closed, which Served makes good.  A descriptor     *)
(* waiting for its turn is that of a connection, because only its own turn  *)
(* can close it.                                                            *)
LifeInv ==
  /\ connections = monitored /\ connections = open
  /\ IsFiniteSet(connections) /\ Cardinality(connections) <= max_connections
  /\ DOMAIN outbound = connections \cup Served
  /\ accepted \in Nat /\ closed \in Nat
  /\ accepted = closed + Cardinality(connections \cup Served)
  /\ read_set \subseteq connections /\ read_set \cap Served = {}
  /\ stage = "Writing" => write_set \subseteq connections /\ read_set = {}
  /\ stage = "Framing" => fd \in connections

LEMMA OneMore ==
  ASSUME NEW S, IsFiniteSet(S), NEW s, s \notin S
  PROVE  /\ IsFiniteSet(S \cup {s})
         /\ Cardinality(S) \in Nat
         /\ Cardinality(S \cup {s}) = Cardinality(S) + 1
BY FS_AddElement, FS_CardinalityType

LEMMA OneLess ==
  ASSUME NEW S, IsFiniteSet(S), NEW s, s \in S
  PROVE  /\ IsFiniteSet(S \ {s})
         /\ Cardinality(S \ {s}) \in Nat
         /\ Cardinality(S) = Cardinality(S \ {s}) + 1
<1>1. IsFiniteSet(S \ {s})
  BY FS_RemoveElement
<1>2. (S \ {s}) \cup {s} = S
  OBVIOUS
<1> QED
  BY <1>1, <1>2, OneMore

(* Outside a read: a connection is closed, its queue goes, it is counted.   *)
LEMMA DropKeeps ==
  ASSUME LifeInv, fd = NoSocket, fd' = NoSocket, NEW s \in connections,
         teardown(s), drop_connection(s), UNCHANGED accepted,
         read_set' \subseteq read_set \ {s}, stage' # "Framing",
         stage' = "Writing" => write_set' \subseteq connections \ {s} /\ read_set' = {}
  PROVE  LifeInv'
<1>1. Served = {} /\ Served' = {}
  BY DEF Served
<1>2. /\ connections' = connections \ {s} /\ monitored' = connections \ {s}
      /\ open' = connections \ {s}
  BY DEF teardown, LifeInv
<1>3. DOMAIN outbound' = connections \ {s} /\ closed' = closed + 1
  BY <1>1 DEF drop_connection, LifeInv
<1>4. /\ IsFiniteSet(connections \ {s}) /\ Cardinality(connections \ {s}) \in Nat
      /\ Cardinality(connections) = Cardinality(connections \ {s}) + 1
  BY OneLess DEF LifeInv
<1>5. /\ accepted = closed + Cardinality(connections) /\ closed \in Nat /\ accepted \in Nat
      /\ Cardinality(connections) <= max_connections
  BY <1>1 DEF LifeInv
<1>6. accepted' = closed' + Cardinality(connections') /\ closed' \in Nat
      /\ Cardinality(connections') <= max_connections
  BY <1>2, <1>3, <1>4, <1>5, ServerAssumption
<1> QED
  BY <1>1, <1>2, <1>3, <1>4, <1>5, <1>6 DEF LifeInv

LEMMA LifeInvInit == ServerInit => LifeInv
<1> SUFFICES ASSUME ServerInit PROVE LifeInv
  OBVIOUS
<1>1. IsFiniteSet({}) /\ Cardinality({}) = 0
  BY FS_EmptySet
<1>2. /\ open = {} /\ connections = {} /\ monitored = {} /\ read_set = {}
      /\ outbound = << >> /\ fd = NoSocket /\ accepted = 0 /\ closed = 0
      /\ stage = "Starting"
  BY DEF ServerInit, PipelineInit
<1>3. Served = {} /\ DOMAIN outbound = {}
  BY <1>2 DEF Served
<1>4. connections \cup Served = {}
  BY <1>2, <1>3
<1>5. Cardinality(connections) <= max_connections
  BY <1>1, <1>2, ServerAssumption
<1> QED
  BY <1>1, <1>2, <1>3, <1>4, <1>5 DEF LifeInv

LEMMA AcceptKeeps ==
  ASSUME LifeInv, StageInv, NEW s \in Sockets, AcceptClient(s)
  PROVE  LifeInv'
<1>1. Served = {} /\ Served' = {}
  BY DEF AcceptClient, StageInv, Serving, Served
<1>2. s \notin connections /\ s \notin DOMAIN outbound
  BY <1>1 DEF AcceptClient, LifeInv
<1>3. /\ connections' = connections \cup {s} /\ monitored' = connections \cup {s}
      /\ open' = connections \cup {s}
      /\ DOMAIN outbound' = connections \cup {s}
      /\ accepted' = accepted + 1 /\ closed' = closed
      /\ read_set' = read_set /\ stage' = "Accepting"
  BY <1>1, Zenon DEF AcceptClient, accept, passVars, LifeInv
<1>4. /\ IsFiniteSet(connections \cup {s}) /\ Cardinality(connections) \in Nat
      /\ Cardinality(connections \cup {s}) = Cardinality(connections) + 1
  BY <1>2, OneMore DEF LifeInv
<1>5. /\ accepted = closed + Cardinality(connections) /\ closed \in Nat /\ accepted \in Nat
      /\ Cardinality(connections) < max_connections
  BY <1>1, <1>4, ServerAssumption DEF LifeInv, AcceptClient, accept, AtCapacity
<1>6. /\ accepted' = closed' + Cardinality(connections') /\ accepted' \in Nat
      /\ Cardinality(connections') <= max_connections
  BY <1>3, <1>4, <1>5, ServerAssumption
<1> QED
  BY <1>1, <1>3, <1>4, <1>5, <1>6, Zenon DEF LifeInv

(* The end of a read: the served connection is still there, or its queue is *)
(* dropped and it is counted.                                               *)
LEMMA EndReadKeeps ==
  ASSUME LifeInv, StageInv, EndRead,
         \/ fd \in connections /\ DOMAIN outbound' = DOMAIN outbound
            /\ UNCHANGED <<registryVars, closed>>
         \/ fd \in connections /\ teardown(fd) /\ drop_connection(fd)
         \/ fd \notin connections /\ drop_connection(fd) /\ UNCHANGED registryVars
  PROVE  LifeInv'
<1>1. /\ fd # NoSocket /\ Served = {fd} /\ Served' = {}
      /\ stage' = "Reading" /\ read_set' = read_set /\ accepted' = accepted
  BY DEF EndRead, StageInv, Serving, Served, passVars
<1>2. /\ DOMAIN outbound = connections \cup {fd}
      /\ accepted = closed + Cardinality(connections \cup {fd})
      /\ accepted \in Nat /\ closed \in Nat
      /\ IsFiniteSet(connections) /\ Cardinality(connections) <= max_connections
      /\ connections = monitored /\ connections = open
      /\ read_set \subseteq connections /\ fd \notin read_set
  BY <1>1 DEF LifeInv
<1>3. CASE fd \in connections /\ DOMAIN outbound' = DOMAIN outbound
           /\ UNCHANGED <<registryVars, closed>>
  <2>1. connections \cup {fd} = connections /\ connections' = connections
        /\ monitored' = monitored /\ open' = open /\ closed' = closed
    BY <1>3 DEF registryVars
  <2> QED
    BY <1>1, <1>2, <1>3, <2>1 DEF LifeInv
<1>4. CASE fd \in connections /\ teardown(fd) /\ drop_connection(fd)
  <2>1. /\ connections \cup {fd} = connections
        /\ connections' = connections \ {fd} /\ monitored' = connections \ {fd}
        /\ open' = connections \ {fd}
        /\ DOMAIN outbound' = connections \ {fd} /\ closed' = closed + 1
    BY <1>2, <1>4 DEF teardown, drop_connection
  <2>2. /\ IsFiniteSet(connections \ {fd}) /\ Cardinality(connections \ {fd}) \in Nat
        /\ Cardinality(connections) = Cardinality(connections \ {fd}) + 1
    BY <1>2, <1>4, OneLess
  <2>3. /\ accepted' = closed' + Cardinality(connections') /\ closed' \in Nat
        /\ Cardinality(connections') <= max_connections
    BY <1>1, <1>2, <2>1, <2>2, ServerAssumption
  <2> QED
    BY <1>1, <1>2, <2>1, <2>2, <2>3 DEF LifeInv
<1>5. CASE fd \notin connections /\ drop_connection(fd) /\ UNCHANGED registryVars
  <2>1. /\ connections' = connections /\ monitored' = monitored /\ open' = open
        /\ DOMAIN outbound' = connections /\ closed' = closed + 1
    BY <1>2, <1>5 DEF drop_connection, registryVars
  <2>2. /\ Cardinality(connections) \in Nat
        /\ Cardinality(connections \cup {fd}) = Cardinality(connections) + 1
    BY <1>2, <1>5, OneMore
  <2>3. accepted' = closed' + Cardinality(connections') /\ closed' \in Nat
    BY <1>1, <1>2, <2>1, <2>2
  <2> QED
    BY <1>1, <1>2, <2>1, <2>3, Zenon DEF LifeInv
<1> QED
  BY <1>3, <1>4, <1>5

LEMMA LifeInvNext == LifeInv /\ StageInv /\ [ServerNext]_allVars => LifeInv'
<1> SUFFICES ASSUME LifeInv, StageInv, [ServerNext]_allVars PROVE LifeInv'
  OBVIOUS
<1>1. CASE Start \/ Select \/ Stop \/ EndAccept \/ EndPass
  BY <1>1 DEF Start, Select, Stop, EndAccept, EndPass, LifeInv, StageInv, Serving, Served,
     registryVars, passVars
<1>2. CASE StartWriting
  BY <1>2 DEF StartWriting, LifeInv, StageInv, Serving, Served, Unsent, registryVars, passVars
<1>3. ASSUME NEW s \in Sockets, AcceptClient(s) PROVE LifeInv'
  BY <1>3, AcceptKeeps
<1>4. ASSUME NEW s \in Sockets, ReadEnds(s) PROVE LifeInv'
  <2>1. /\ s \in connections /\ read_set' = read_set \ {s} /\ stage' = "Reading"
        /\ fd = NoSocket /\ fd' = NoSocket
    BY <1>4 DEF ReadEnds, Reading, LifeInv, StageInv, Serving
  <2> QED
    BY <1>4, <2>1, DropKeeps DEF ReadEnds
<1>5. ASSUME NEW s \in Sockets, ReadNothing(s) PROVE LifeInv'
  BY <1>5 DEF ReadNothing, Reading, LifeInv, Served, pipelineVars, registryVars
<1>6. ASSUME NEW s \in Sockets, ReadBytes(s) PROVE LifeInv'
  <2>1. /\ Served = {} /\ Served' = {s} /\ s \in connections
        /\ connections \cup {s} = connections
    BY <1>6, ServerAssumption DEF ReadBytes, Reading, LifeInv, StageInv, Serving, Served
  <2> QED
    BY <1>6, <2>1, Zenon DEF ReadBytes, Reading, LifeInv, registryVars
<1>7. ASSUME NEW s \in Sockets, WriteFails(s) PROVE LifeInv'
  <2>1. /\ s \in connections /\ write_set' = write_set \ {s} /\ write_set \subseteq connections
        /\ read_set' = {} /\ stage' = "Writing" /\ fd = NoSocket /\ fd' = NoSocket
    BY <1>7 DEF WriteFails, Writing, LifeInv, StageInv, Serving
  <2> QED
    BY <1>7, <2>1, DropKeeps DEF WriteFails, Writing, SendFails, LifeInv
<1>8. CASE Submit
  <2>1. ASSUME NEW msg \in Commands, DeliverFrame(msg) PROVE LifeInv'
    BY <1>8, <2>1 DEF Submit, DeliverFrame, LifeInv, Served, registryVars, passVars
  <2>2. CASE EndOfBytes \/ RunEngine \/ StartDrain
    BY <1>8, <2>2, Zenon DEF Submit, EndOfBytes, RunEngine, StartDrain, LifeInv, Served,
       pipelineVars, registryVars, passVars
  <2>3. CASE BadFrame
    <3>1. Served = {fd} /\ Served' = {fd} /\ fd \in connections
      BY <2>3 DEF BadFrame, LifeInv, StageInv, Serving, Served
    <3>2. (connections \ {fd}) \cup {fd} = connections /\ connections \cup {fd} = connections
      BY <3>1
    <3>3. /\ connections' = connections \ {fd} /\ monitored' = connections \ {fd}
          /\ open' = connections \ {fd}
      BY <2>3, <3>1, Zenon DEF BadFrame, teardown, LifeInv
    <3>4. /\ IsFiniteSet(connections \ {fd}) /\ Cardinality(connections \ {fd}) \in Nat
          /\ Cardinality(connections) = Cardinality(connections \ {fd}) + 1
      BY <3>1, OneLess DEF LifeInv
    <3>5. Cardinality(connections') <= max_connections
      BY <3>3, <3>4, ServerAssumption DEF LifeInv
    <3> QED
      BY <1>8, <2>3, <3>1, <3>2, <3>3, <3>4, <3>5 DEF Submit, BadFrame, LifeInv, passVars
  <2>4. CASE DrainEvent
    <3>1. Served = {fd} /\ Served' = {fd}
      BY <2>4 DEF DrainEvent, StageInv, Serving, Served
    <3>2. DOMAIN outbound' = DOMAIN outbound \cup {fd}
      BY <2>4 DEF DrainEvent
    <3> QED
      BY <1>8, <2>4, <3>1, <3>2, Zenon DEF Submit, DrainEvent, LifeInv, registryVars, passVars
  <2> QED
    BY <1>8, <2>1, <2>2, <2>3, <2>4 DEF Submit, Submitting
<1>9. CASE FinishRead
  BY <1>9, EndReadKeeps DEF FinishRead, SendFails
<1>10. ASSUME NEW s, NEW n, Sends(s, n) PROVE LifeInv'
  <2>1. CASE WriteSome(s, n)
    <3>1. DOMAIN outbound' = DOMAIN outbound
      BY <2>1 DEF WriteSome, SendSome, EraseSent
    <3> QED
      BY <2>1, <3>1 DEF WriteSome, Writing, SendSome, LifeInv, Served, registryVars
  <2>2. CASE Flush(n)
    <3>1. /\ EndRead /\ fd \in connections /\ UNCHANGED <<registryVars, closed>>
          /\ DOMAIN outbound' = DOMAIN outbound
      BY <2>2 DEF Flush, SendSome, EraseSent
    <3> QED
      BY <3>1, EndReadKeeps
  <2> QED
    BY <1>10, <2>1, <2>2 DEF Sends
<1>11. CASE UNCHANGED allVars
  BY <1>11 DEF allVars, serverVars, pipelineVars, registryVars, passVars, LifeInv, Served
<1> QED
  BY <1>1, <1>2, <1>3, <1>4, <1>5, <1>6, <1>7, <1>8, <1>9, <1>10, <1>11
     DEF ServerNext, Steps

(* Once a handler has returned, registry, poller, kernel and queues name    *)
(* the same connections, each accepted one was closed at most once and      *)
(* counted, and the cap is never exceeded.                                  *)
THEOREM ServerLifecyclesAgree == ServerSpec => []LifecyclesAgree
<1>1. LifeInv => LifecyclesAgree
  <2> SUFFICES ASSUME LifeInv PROVE LifecyclesAgree
    OBVIOUS
  <2>1. fd = NoSocket => Served = {} /\ connections \cup Served = connections
    BY DEF Served
  <2> QED
    BY <2>1, Zenon DEF LifeInv, LifecyclesAgree, BetweenReads
<1> QED
  BY <1>1, LifeInvInit, LifeInvNext, StageInvInit, StageInvNext, PTL DEF ServerSpec

-----------------------------------------------------------------------------
(* Sequences.                                                               *)

LEMMA AppendOfConcat ==
  ASSUME NEW S, NEW s \in Seq(S), NEW t \in Seq(S), NEW e \in S
  PROVE  s \o Append(t, e) = Append(s \o t, e)
<1>1. << e >> \in Seq(S)
  BY SingletonSeq
<1>2. Append(t, e) = t \o << e >>
  BY AppendIsConcat
<1>3. s \o t \in Seq(S)
  BY ConcatProperties
<1>4. Append(s \o t, e) = (s \o t) \o << e >>
  BY <1>3, AppendIsConcat
<1> QED
  BY <1>1, <1>2, <1>4, ConcatAssociative


(* A property of numbers that fails at all fails first somewhere.           *)
LEMMA FirstFailure ==
  ASSUME NEW T, T \subseteq Nat, T # {}
  PROVE  \E m \in T : \A k \in Nat : k < m => k \notin T
<1>1. PICK m \in T : \A y \in T : m <= y
  BY MinFacts
<1>2. ASSUME NEW k \in Nat, k < m PROVE k \notin T
  BY <1>1, <1>2
<1> QED
  BY <1>2

(* Induction on sequences, for the set G of those with the property.        *)
LEMMA AllGrown ==
  ASSUME NEW S, NEW G, << >> \in G, \A s \in Seq(S) \cap G, e \in S : Append(s, e) \in G
  PROVE  Seq(S) \subseteq G
<1> DEFINE T == {n \in Nat : \E s \in Seq(S) : s \notin G /\ Len(s) = n}
<1>1. \A s \in Seq(S) : Len(s) \in Nat
  BY LenProperties
<1>2. T \subseteq Nat /\ \A s \in Seq(S) : s \notin G => Len(s) \in T
  BY <1>1
<1>3. \A n \in T : \E s \in Seq(S) : s \notin G /\ Len(s) = n
  OBVIOUS
<1> HIDE DEF T
<1>4. T = {}
  <2> SUFFICES ASSUME T # {} PROVE FALSE
    OBVIOUS
  <2>1. PICK n \in T : \A k \in Nat : k < n => k \notin T
    BY <1>2, FirstFailure
  <2>2. PICK s \in Seq(S) : s \notin G /\ Len(s) = n
    BY <1>3
  <2>3. PICK t \in Seq(S), e \in S : s = Append(t, e)
    BY <2>2, SequenceEmptyOrAppend
  <2>4. Len(s) = Len(t) + 1 /\ Len(t) \in Nat
    BY <1>1, <2>3, AppendProperties
  <2>5. Len(t) < n
    BY <2>2, <2>4
  <2>6. t \in G
    BY <1>2, <2>1, <2>4, <2>5
  <2> QED
    BY <2>2, <2>3, <2>6
<1> QED
  BY <1>2, <1>4

-----------------------------------------------------------------------------
(* The answers among a sequence of events.                                  *)

(* f lists, for every n, the answers among the first n events of es.        *)
ListsAnswers(f, es) ==
  f = [n \in 0..Len(es) |->
         IF n = 0 THEN << >>
         ELSE IF es[n].type = "Trade" THEN f[n - 1]
         ELSE Append(f[n - 1], es[n].order_id)]

(* Such a list exists, which makes the recursion in AnswerIds well-defined. *)
LEMMA AnswersListed ==
  ASSUME NEW es \in Seq(Events)
  PROVE  \E f : ListsAnswers(f, es) /\ AnswerIds(es) = f[Len(es)]
<1> DEFINE L == Len(es)
           Upto(f, m) == f = [n \in 0..m |->
                                IF n = 0 THEN << >>
                                ELSE IF es[n].type = "Trade" THEN f[n - 1]
                                ELSE Append(f[n - 1], es[n].order_id)]
           T == {m \in 0..L : ~ \E f : Upto(f, m)}
<1>0. L \in Nat
  BY LenProperties
<1>a. T \subseteq Nat /\ \A m \in 0..L : m \notin T => \E f : Upto(f, m)
  BY <1>0
<1>b. \A m \in T : m \in 0..L /\ ~ \E f : Upto(f, m)
  OBVIOUS
<1> HIDE DEF L, Upto, T
<1>1. T = {}
  <2> SUFFICES ASSUME T # {} PROVE FALSE
    OBVIOUS
  <2>1. PICK m \in T : \A k \in Nat : k < m => k \notin T
    BY <1>a, FirstFailure, Zenon
  <2>2. m \in 0..L /\ ~ \E f : Upto(f, m)
    BY <1>b
  <2>3. CASE m = 0
    <3>1. Upto([n \in 0..0 |-> << >>], 0)
      BY DEF Upto
    <3> QED
      BY <2>2, <2>3, <3>1
  <2>4. CASE m # 0
    <3>1. m - 1 \in 0..L /\ m - 1 \notin T
      BY <1>0, <2>1, <2>2, <2>4
    <3>2. PICK f : Upto(f, m - 1)
      BY <1>a, <3>1
    <3> DEFINE x == IF es[m].type = "Trade" THEN f[m - 1]
                    ELSE Append(f[m - 1], es[m].order_id)
               g == [n \in 0..m |-> IF n = m THEN x ELSE f[n]]
    <3>3. \A n \in 0..m : n = m \/ n \in 0..(m - 1)
      BY <1>0, <2>2
    <3>4. \A n \in 0..m : n # 0 => n - 1 \in 0..(m - 1)
      BY <1>0, <2>2
    <3>5. m \notin 0..(m - 1) /\ m \in 0..m /\ \A n \in 0..(m - 1) : n \in 0..m
      BY <1>0, <2>2
    <3>6. \A n \in 0..(m - 1) : g[n] = f[n]
      BY <3>5
    <3>7. \A n \in 0..(m - 1) :
            f[n] = IF n = 0 THEN << >>
                   ELSE IF es[n].type = "Trade" THEN f[n - 1]
                   ELSE Append(f[n - 1], es[n].order_id)
      BY <3>2, Zenon DEF Upto
    <3>8. ASSUME NEW n \in 0..m
          PROVE  g[n] = IF n = 0 THEN << >>
                        ELSE IF es[n].type = "Trade" THEN g[n - 1]
                        ELSE Append(g[n - 1], es[n].order_id)
      <4>1. n # 0 => g[n - 1] = f[n - 1]
        BY <3>4, <3>6
      <4>2. CASE n = m
        <5>1. g[n] = x
          BY <3>5, <4>2
        <5> QED
          BY <2>4, <4>1, <4>2, <5>1
      <4>3. CASE n \in 0..(m - 1)
        <5>1. g[n] = f[n]
          BY <3>6, <4>3
        <5> QED
          BY <3>7, <4>1, <4>3, <5>1
      <4> QED
        BY <3>3, <4>2, <4>3
    <3>9. DOMAIN g = 0..m
      OBVIOUS
    <3>10. g = [n \in 0..m |-> g[n]]
      OBVIOUS
    <3> HIDE DEF g
    <3>11. Upto(g, m)
      BY <3>8, <3>10 DEF Upto
    <3> QED
      BY <2>2, <3>11
  <2> QED
    BY <2>3, <2>4
<1>2. PICK f : Upto(f, L)
  BY <1>0, <1>a, <1>1
<1> DEFINE ids == CHOOSE h : ListsAnswers(h, es)
<1>3. ListsAnswers(f, es)
  BY <1>2, Zenon DEF Upto, L, ListsAnswers
<1>4. ListsAnswers(ids, es)
  BY <1>3
<1>5. AnswerIds(es) = ids[Len(es)]
  BY DEF AnswerIds, ListsAnswers
<1> QED
  BY <1>4, <1>5

(* An event adds its identifier to the answers, a trade adds none.          *)
LEMMA AnswersAppend ==
  ASSUME NEW es \in Seq(Events), NEW e \in Events
  PROVE  AnswerIds(Append(es, e)) = IF e.type = "Trade" THEN AnswerIds(es)
                                    ELSE Append(AnswerIds(es), e.order_id)
<1> DEFINE L == Len(es)
           ds == Append(es, e)
<1>1. /\ ds \in Seq(Events) /\ Len(ds) = L + 1 /\ ds[L + 1] = e
      /\ \A i \in 1..L : ds[i] = es[i]
  BY AppendProperties
<1>2. L \in Nat
  BY LenProperties
<1> HIDE DEF ds, L
<1>3. PICK f : ListsAnswers(f, es) /\ AnswerIds(es) = f[Len(es)]
  BY AnswersListed
<1>4. PICK g : ListsAnswers(g, ds) /\ AnswerIds(ds) = g[Len(ds)]
  BY <1>1, AnswersListed
<1>5. \A n \in 0..L : f[n] = IF n = 0 THEN << >>
                            ELSE IF es[n].type = "Trade" THEN f[n - 1]
                            ELSE Append(f[n - 1], es[n].order_id)
  BY <1>3 DEF ListsAnswers, L
<1>6. \A n \in 0..(L + 1) : g[n] = IF n = 0 THEN << >>
                                  ELSE IF ds[n].type = "Trade" THEN g[n - 1]
                                  ELSE Append(g[n - 1], ds[n].order_id)
  BY <1>1, <1>4, Zenon DEF ListsAnswers
<1> DEFINE T == {n \in 0..L : f[n] # g[n]}
<1>7. T \subseteq Nat /\ \A n \in T : n \in 0..L /\ f[n] # g[n]
  BY <1>2
<1>8. \A n \in 0..L : n \notin T => f[n] = g[n]
  OBVIOUS
<1> HIDE DEF T
<1>9. T = {}
  <2> SUFFICES ASSUME T # {} PROVE FALSE
    OBVIOUS
  <2>1. PICK n \in T : \A k \in Nat : k < n => k \notin T
    BY <1>7, FirstFailure, Zenon
  <2>2. n \in 0..L /\ n \in 0..(L + 1) /\ f[n] # g[n]
    BY <1>2, <1>7
  <2>3. CASE n = 0
    BY <1>5, <1>6, <2>2, <2>3
  <2>4. CASE n # 0
    <3>1. n - 1 \in 0..L /\ n - 1 \in Nat /\ n - 1 < n /\ n \in 1..L
      BY <1>2, <2>2, <2>4
    <3>2. f[n - 1] = g[n - 1]
      BY <1>8, <2>1, <3>1
    <3>3. ds[n] = es[n]
      BY <1>1, <3>1
    <3>4. f[n] = IF es[n].type = "Trade" THEN f[n - 1] ELSE Append(f[n - 1], es[n].order_id)
      BY <1>5, <2>2, <2>4
    <3>5. g[n] = IF ds[n].type = "Trade" THEN g[n - 1] ELSE Append(g[n - 1], ds[n].order_id)
      BY <1>6, <2>2, <2>4
    <3> QED
      BY <2>2, <3>2, <3>3, <3>4, <3>5
  <2> QED
    BY <2>3, <2>4
<1>10. L \in 0..L /\ L + 1 \in 0..(L + 1) /\ L + 1 # 0 /\ (L + 1) - 1 = L
  BY <1>2
<1>11. f[L] = g[L]
  BY <1>8, <1>9, <1>10
<1>12. g[L + 1] = IF ds[L + 1].type = "Trade" THEN g[(L + 1) - 1]
                  ELSE Append(g[(L + 1) - 1], ds[L + 1].order_id)
  BY <1>6, <1>10
<1> QED
  BY <1>1, <1>3, <1>4, <1>10, <1>11, <1>12 DEF L, ds

LEMMA AnswersEmpty == AnswerIds(<< >>) = << >>
<1>1. << >> \in Seq(Events) /\ Len(<< >>) = 0
  BY EmptySeq
<1>2. PICK f : ListsAnswers(f, << >>) /\ AnswerIds(<< >>) = f[Len(<< >>)]
  BY <1>1, AnswersListed, Zenon
<1> QED
  BY <1>1, <1>2 DEF ListsAnswers

LEMMA AnswerFields ==
  ASSUME NEW e \in Events, e.type # "Trade"
  PROVE  e.order_id \in Nat
BY DEF Events, TradeEvents, AckEvents, RejectEvents

LEMMA AnswersType ==
  ASSUME NEW es \in Seq(Events)
  PROVE  AnswerIds(es) \in Seq(Nat)
<1> DEFINE G == {s \in Seq(Events) : AnswerIds(s) \in Seq(Nat)}
<1>1. << >> \in G
  BY AnswersEmpty, EmptySeq, Zenon
<1>2. ASSUME NEW s \in Seq(Events) \cap G, NEW e \in Events
      PROVE  Append(s, e) \in G
  <2>1. Append(s, e) \in Seq(Events)
    BY AppendProperties
  <2>2. CASE e.type = "Trade"
    BY <2>1, <2>2, AnswersAppend
  <2>3. CASE e.type # "Trade"
    <3>1. AnswerIds(Append(s, e)) = Append(AnswerIds(s), e.order_id)
      BY <2>3, AnswersAppend
    <3>2. Append(AnswerIds(s), e.order_id) \in Seq(Nat)
      BY <2>3, AnswerFields, AppendProperties
    <3> QED
      BY <2>1, <3>1, <3>2, Zenon
  <2> QED
    BY <2>2, <2>3
<1>3. \A s \in G : AnswerIds(s) \in Seq(Nat)
  OBVIOUS
<1> HIDE DEF G
<1> QED
  BY <1>1, <1>2, <1>3, AllGrown

(* The answers among two sequences, one after the other.                    *)
LEMMA AnswersConcat ==
  ASSUME NEW es \in Seq(Events), NEW ds \in Seq(Events)
  PROVE  AnswerIds(es \o ds) = AnswerIds(es) \o AnswerIds(ds)
<1> DEFINE G == {s \in Seq(Events) : AnswerIds(es \o s) = AnswerIds(es) \o AnswerIds(s)}
<1>0. AnswerIds(es) \in Seq(Nat)
  BY AnswersType
<1>1. << >> \in G
  <2>1. << >> \in Seq(Events) /\ es \o << >> = es
    BY EmptySeq, ConcatEmptySeq
  <2>2. AnswerIds(es) \o AnswerIds(<< >>) = AnswerIds(es)
    BY <1>0, AnswersEmpty, ConcatEmptySeq
  <2> QED
    BY <2>1, <2>2
<1>2. ASSUME NEW s \in Seq(Events) \cap G, NEW e \in Events
      PROVE  Append(s, e) \in G
  <2>1. /\ Append(s, e) \in Seq(Events) /\ es \o s \in Seq(Events)
        /\ es \o Append(s, e) = Append(es \o s, e)
    BY AppendProperties, ConcatProperties, AppendOfConcat
  <2>2. AnswerIds(es \o s) = AnswerIds(es) \o AnswerIds(s) /\ AnswerIds(s) \in Seq(Nat)
    BY AnswersType
  <2>3. CASE e.type = "Trade"
    BY <2>1, <2>2, <2>3, AnswersAppend
  <2>4. CASE e.type # "Trade"
    <3>1. AnswerIds(Append(es \o s, e)) = Append(AnswerIds(es) \o AnswerIds(s), e.order_id)
      BY <2>1, <2>2, <2>4, AnswersAppend
    <3>2. AnswerIds(Append(s, e)) = Append(AnswerIds(s), e.order_id) /\ e.order_id \in Nat
      BY <2>4, AnswersAppend, AnswerFields
    <3>3. AnswerIds(es) \o Append(AnswerIds(s), e.order_id)
            = Append(AnswerIds(es) \o AnswerIds(s), e.order_id)
      <4>1. \A x \in Nat : AnswerIds(es) \o Append(AnswerIds(s), x)
                           = Append(AnswerIds(es) \o AnswerIds(s), x)
        BY <1>0, <2>2, AppendOfConcat
      <4> QED
        BY <3>2, <4>1
    <3> QED
      BY <2>1, <3>1, <3>2, <3>3
  <2> QED
    BY <2>3, <2>4
<1>3. \A s \in G : AnswerIds(es \o s) = AnswerIds(es) \o AnswerIds(s)
  OBVIOUS
<1> HIDE DEF G
<1> QED
  BY <1>1, <1>2, <1>3, AllGrown

-----------------------------------------------------------------------------
(* The commands that wait.                                                  *)

(* A message of a kind the engine does not take still names an order.       *)
LEMMA MisplacedAsks ==
  ASSUME NEW m \in Misplaced
  PROVE  AskedId(m) \in Ids
<1>1. PICK id \in Ids : \/ m = Trade(1, 1, 1, id, id)
                        \/ m = Ack(id, "Accepted")
                        \/ m = Reject(id, "OrderNotFound")
  BY DEF Misplaced
<1>2. CASE m = Trade(1, 1, 1, id, id)
  BY <1>2 DEF AskedId, invalid_message_order_id, Trade
<1>3. CASE m = Ack(id, "Accepted")
  BY <1>3 DEF AskedId, invalid_message_order_id, Ack
<1>4. CASE m = Reject(id, "OrderNotFound")
  BY <1>4 DEF AskedId, invalid_message_order_id, Reject
<1> QED
  BY <1>1, <1>2, <1>3, <1>4

LEMMA AskedType ==
  ASSUME NEW m \in Inbound
  PROVE  AskedId(m) \in Nat
<1>1. Ids \subseteq Nat
  BY IdsAreNatural
<1>2. CASE m \in NewOrders
  BY <1>1, <1>2 DEF NewOrders, AskedId, invalid_message_order_id
<1>3. CASE m \in Cancels
  BY <1>1, <1>3 DEF Cancels, CancelOrder, AskedId, invalid_message_order_id
<1>4. CASE m \in Misplaced
  BY <1>1, <1>4, MisplacedAsks
<1> QED
  BY <1>2, <1>3, <1>4 DEF Inbound

LEMMA AskedIdsType ==
  ASSUME NEW ms \in Seq(Inbound)
  PROVE  /\ AskedIds(ms) \in Seq(Nat) /\ Len(AskedIds(ms)) = Len(ms)
         /\ \A i \in 1..Len(ms) : AskedIds(ms)[i] = AskedId(ms[i])
<1>1. Len(ms) \in Nat /\ \A i \in 1..Len(ms) : AskedId(ms[i]) \in Nat
  BY LenProperties, ElementOfSeq, AskedType
<1> QED
  BY <1>1 DEF AskedIds

LEMMA AskedAppend ==
  ASSUME NEW ms \in Seq(Inbound), NEW m \in Inbound
  PROVE  AskedIds(Append(ms, m)) = Append(AskedIds(ms), AskedId(m))
<1> DEFINE a == AskedIds(Append(ms, m))
           b == Append(AskedIds(ms), AskedId(m))
<1>0. Len(ms) \in Nat /\ AskedId(m) \in Nat
  BY LenProperties, AskedType
<1>1. /\ Append(ms, m) \in Seq(Inbound) /\ Len(Append(ms, m)) = Len(ms) + 1
      /\ Append(ms, m)[Len(ms) + 1] = m /\ \A i \in 1..Len(ms) : Append(ms, m)[i] = ms[i]
  BY AppendProperties
<1>2. /\ a \in Seq(Nat) /\ Len(a) = Len(ms) + 1
      /\ \A i \in 1..(Len(ms) + 1) : a[i] = AskedId(Append(ms, m)[i])
  BY <1>1, AskedIdsType, Zenon
<1>3. /\ AskedIds(ms) \in Seq(Nat) /\ Len(AskedIds(ms)) = Len(ms)
      /\ \A i \in 1..Len(ms) : AskedIds(ms)[i] = AskedId(ms[i])
  BY AskedIdsType
<1>4. /\ b \in Seq(Nat) /\ Len(b) = Len(ms) + 1 /\ b[Len(ms) + 1] = AskedId(m)
      /\ \A i \in 1..Len(ms) : b[i] = AskedIds(ms)[i]
  BY <1>0, <1>3, AppendProperties
<1> HIDE DEF a, b
<1>5. ASSUME NEW i \in 1..(Len(ms) + 1) PROVE a[i] = b[i]
  <2>1. CASE i \in 1..Len(ms)
    BY <1>1, <1>2, <1>3, <1>4, <2>1
  <2>2. CASE i = Len(ms) + 1
    BY <1>1, <1>2, <1>4, <2>2
  <2> QED
    BY <1>0, <2>1, <2>2
<1>6. a = b
  BY <1>2, <1>4, <1>5, SeqEqual
<1> QED
  BY <1>6 DEF a, b

LEMMA AskedHead ==
  ASSUME NEW ms \in Seq(Inbound), ms # << >>
  PROVE  /\ Head(ms) \in Inbound /\ Tail(ms) \in Seq(Inbound)
         /\ AskedIds(ms) = << AskedId(Head(ms)) >> \o AskedIds(Tail(ms))
<1> DEFINE h == << AskedId(Head(ms)) >>
           t == AskedIds(Tail(ms))
<1>0. Len(ms) \in Nat
  BY LenProperties
<1>1. /\ Head(ms) \in Inbound /\ Tail(ms) \in Seq(Inbound) /\ Len(Tail(ms)) = Len(ms) - 1
      /\ \A i \in 1..(Len(ms) - 1) : Tail(ms)[i] = ms[i + 1]
  BY HeadTailProperties
<1>2. /\ h \in Seq(Nat) /\ Len(h) = 1 /\ h[1] = AskedId(Head(ms))
      /\ Head(ms) = ms[1]
  BY <1>1, AskedType
<1>3. /\ t \in Seq(Nat) /\ Len(t) = Len(ms) - 1
      /\ \A i \in 1..(Len(ms) - 1) : t[i] = AskedId(ms[i + 1])
  BY <1>1, AskedIdsType
<1>4. /\ AskedIds(ms) \in Seq(Nat) /\ Len(AskedIds(ms)) = Len(ms)
      /\ \A i \in 1..Len(ms) : AskedIds(ms)[i] = AskedId(ms[i])
  BY AskedIdsType
<1> HIDE DEF h, t
<1>5. /\ h \o t \in Seq(Nat) /\ Len(h \o t) = Len(ms)
      /\ \A i \in 1..Len(ms) : (h \o t)[i] = IF i <= 1 THEN h[i] ELSE t[i - 1]
  <2>1. /\ h \o t \in Seq(Nat) /\ Len(h \o t) = Len(h) + Len(t)
        /\ \A i \in 1..Len(h) + Len(t) : (h \o t)[i] = IF i <= Len(h) THEN h[i] ELSE t[i - Len(h)]
    BY <1>2, <1>3, ConcatProperties
  <2>2. Len(h) + Len(t) = Len(ms)
    BY <1>0, <1>2, <1>3
  <2> QED
    BY <1>2, <2>1, <2>2
<1>6. ASSUME NEW i \in 1..Len(ms) PROVE AskedIds(ms)[i] = (h \o t)[i]
  <2>1. CASE i = 1
    <3>1. (h \o t)[i] = h[1]
      BY <1>5, <2>1
    <3>2. AskedIds(ms)[i] = AskedId(ms[1])
      BY <1>4, <2>1
    <3> QED
      BY <1>2, <3>1, <3>2
  <2>2. CASE i # 1
    <3>1. i - 1 \in 1..(Len(ms) - 1) /\ ~ (i <= 1) /\ (i - 1) + 1 = i
      BY <1>0, <2>2
    <3>2. t[i - 1] = AskedId(ms[i])
      BY <1>3, <3>1
    <3> QED
      BY <1>4, <1>5, <3>1, <3>2
  <2> QED
    BY <2>1, <2>2
<1>7. AskedIds(ms) = h \o t
  BY <1>4, <1>5, <1>6, SeqEqual
<1> QED
  BY <1>1, <1>7 DEF h, t

(* What the engine has taken and not answered.                              *)
InFlight == (IF Idle THEN << >> ELSE << incoming.order_id >>) \o AskedIds(ingress)

LEMMA InFlightFacts ==
  ASSUME IInv, ingress \in Seq(Inbound)
  PROVE  /\ InFlight \in Seq(Nat) /\ AskedIds(ingress) \in Seq(Nat)
         /\ Idle => InFlight = AskedIds(ingress)
         /\ ~ Idle => /\ incoming.order_id \in Nat
                      /\ InFlight = << incoming.order_id >> \o AskedIds(ingress)
<1>1. AskedIds(ingress) \in Seq(Nat)
  BY AskedIdsType
<1>2. ~ Idle => incoming.order_id \in Nat
  BY IdsAreNatural DEF IInv, IncomingValid, NewOrders
<1>3. << >> \o AskedIds(ingress) = AskedIds(ingress)
  BY <1>1, ConcatEmptySeq
<1>4. ~ Idle => << incoming.order_id >> \in Seq(Nat)
  BY <1>2
<1> QED
  BY <1>1, <1>2, <1>3, <1>4, ConcatProperties DEF InFlight

(* A command taken off the ring moves from the front of what waits.         *)
LEMMA DequeueTakes ==
  ASSUME IInv, IInv', ingress \in Seq(Inbound), Dequeue
  PROVE  /\ Head(ingress) \in Inbound /\ ingress' \in Seq(Inbound)
         /\ InFlight = << AskedId(Head(ingress)) >> \o AskedIds(ingress')
         /\ processed_count' = processed_count + 1 /\ Len(ingress') = Len(ingress) - 1
<1>1. /\ Idle /\ ingress # << >> /\ ingress' = Tail(ingress)
      /\ processed_count' = processed_count + 1
  BY DEF Dequeue
<1>2. /\ Head(ingress) \in Inbound /\ Tail(ingress) \in Seq(Inbound)
      /\ AskedIds(ingress) = << AskedId(Head(ingress)) >> \o AskedIds(Tail(ingress))
  BY <1>1, AskedHead
<1>3. Len(Tail(ingress)) = Len(ingress) - 1
  BY <1>1, HeadTailProperties
<1> QED
  BY <1>1, <1>2, <1>3, InFlightFacts

(* What one step of process_all does with a command and its events: it      *)
(* takes the command up, sends a trade of the command it has, or answers    *)
(* the oldest command not answered, after its trades if it had some.        *)
TakesUp ==
  Idle /\ ~ Idle' /\ InFlight' = InFlight /\ UNCHANGED <<egress, egress_overflow_count>>

EmitsTrade(e) ==
  /\ ~ Idle /\ UNCHANGED incoming /\ InFlight' = InFlight
  /\ emit(e) /\ e.type = "Trade" /\ e.incoming_id = incoming.order_id

Answers(e) ==
  /\ Idle' /\ InFlight = << e.order_id >> \o InFlight'
  /\ emit(e) /\ e.type # "Trade"
  /\ ~ Idle => e = Ack(incoming.order_id, "Accepted")

LEMMA ProcessEffect ==
  ASSUME IInv, IInv', ingress \in Seq(Inbound), Process
  PROVE  /\ ingress' \in Seq(Inbound)
         /\ TakesUp \/ \E e \in Events : EmitsTrade(e) \/ Answers(e)
<1>a. ASSUME NEW e \in Events, e.type # "Trade", emit(e), Dequeue, UNCHANGED incoming,
             e.order_id = AskedId(Head(ingress))
      PROVE  ingress' \in Seq(Inbound) /\ Answers(e)
  <2>1. Idle /\ Idle'
    BY <1>a DEF Dequeue, Idle
  <2>2. /\ ingress' \in Seq(Inbound)
        /\ InFlight = << AskedId(Head(ingress)) >> \o AskedIds(ingress')
    BY <1>a, DequeueTakes
  <2>3. InFlight' = AskedIds(ingress')
    <3>1. AskedIds(ingress') \in Seq(Nat)
      BY <2>2, AskedIdsType
    <3> QED
      BY <2>1, <3>1, ConcatEmptySeq DEF InFlight
  <2> QED
    BY <1>a, <2>1, <2>2, <2>3 DEF Answers
<1>1. CASE BeginNewOrder
  <2>1. /\ Dequeue /\ Idle /\ Head(ingress) \in NewOrders /\ incoming' = Head(ingress)
        /\ UNCHANGED <<egress, egress_overflow_count>>
    BY <1>1 DEF BeginNewOrder, StartNewOrder
  <2>2. /\ ingress' \in Seq(Inbound)
        /\ InFlight = << AskedId(Head(ingress)) >> \o AskedIds(ingress')
    BY <2>1, DequeueTakes
  <2>3. ~ Idle' /\ AskedId(Head(ingress)) = incoming'.order_id
    BY <2>1, NoOrderAssumption DEF Idle, AskedId, invalid_message_order_id, NewOrders
  <2> QED
    BY <2>1, <2>2, <2>3 DEF TakesUp, InFlight
<1>2. CASE EmitTrade
  <2>1. MatchOne /\ emit(Last(emitted')) /\ ingress' = ingress
    BY <1>2 DEF EmitTrade
  <2>2. /\ Last(emitted').type = "Trade" /\ Last(emitted') \in Events
        /\ Last(emitted').incoming_id = incoming.order_id
    BY <2>1, MatchEmits, TradeDelivered
  <2>3. ~ Idle /\ incoming' = incoming
    BY <2>1 DEF MatchOne
  <2>4. InFlight' = InFlight
    BY <2>1, <2>3 DEF InFlight, Idle
  <2> QED
    BY <2>1, <2>2, <2>3, <2>4 DEF EmitsTrade
<1>3. CASE EndNewOrder
  <2> DEFINE e == Ack(incoming.order_id, "Accepted")
  <2>1. ~ Idle /\ Idle' /\ emit(e) /\ ingress' = ingress
    BY <1>3 DEF EndNewOrder, RestRemainder, Return, Idle
  <2>2. incoming.order_id \in Ids
    BY <2>1 DEF IInv, IncomingValid, NewOrders
  <2>3. e \in Events /\ e.type # "Trade" /\ e.order_id = incoming.order_id
    BY <2>2, AckIsEvent, Zenon DEF AckKinds, Ack
  <2>4. InFlight = << e.order_id >> \o AskedIds(ingress)
    BY <2>1, <2>3, InFlightFacts
  <2>5. InFlight' = AskedIds(ingress)
    <3>1. AskedIds(ingress) \in Seq(Nat)
      BY AskedIdsType
    <3> QED
      BY <2>1, <3>1, ConcatEmptySeq DEF InFlight
  <2> QED
    BY <2>1, <2>3, <2>4, <2>5 DEF Answers
<1>4. CASE InvalidNewOrder
  <2> DEFINE m == Head(ingress)
  <2>1. /\ Dequeue /\ m \in NewOrders /\ RejectNewOrder(m) /\ emit(Last(emitted'))
    BY <1>4 DEF InvalidNewOrder
  <2>2. m.order_id \in Ids /\ InvalidReason(m) \in RejectReasons /\ AskedId(m) = m.order_id
    BY <2>1, ReasonIsReason DEF NewOrders, AskedId, invalid_message_order_id
  <2>3. emitted' = << Reject(m.order_id, InvalidReason(m)) >> /\ UNCHANGED incoming
    BY <2>1 DEF RejectNewOrder
  <2>4. Last(emitted') = Reject(m.order_id, InvalidReason(m))
    BY <2>2, <2>3, RejectIsEvent, SingletonSeq
  <2>5. Last(emitted') \in Events /\ Last(emitted').type # "Trade"
        /\ Last(emitted').order_id = AskedId(m)
    BY <2>2, <2>4, RejectIsEvent DEF Reject
  <2> QED
    BY <1>a, <2>1, <2>3, <2>5
<1>5. CASE Cancel
  <2>0. Dequeue /\ emit(Last(emitted'))
    BY <1>5 DEF Cancel
  <2>1. PICK id \in Ids : Head(ingress) = CancelOrder(id)
    BY <1>5 DEF Cancel, Cancels
  <2>2. CancelResting(id) \/ CancelMiss(id)
    BY <1>5, <2>1 DEF Cancel, CancelOrder
  <2>3. UNCHANGED incoming /\ AskedId(Head(ingress)) = id
    <3>1. UNCHANGED incoming
      BY <2>2 DEF CancelResting, CancelMiss
    <3>2. AskedId(CancelOrder(id)) = id
      BY DEF AskedId, invalid_message_order_id, CancelOrder
    <3> QED
      BY <2>1, <3>1, <3>2
  <2>4. PICK e \in Events : emitted' = << e >> /\ e.type # "Trade" /\ e.order_id = id
    <3>1. CASE CancelResting(id)
      <4>1. Ack(id, "Cancelled") \in Events /\ Ack(id, "Cancelled").type # "Trade"
            /\ Ack(id, "Cancelled").order_id = id
        BY AckIsEvent, Zenon DEF AckKinds, Ack
      <4> QED
        BY <3>1, <4>1 DEF CancelResting
    <3>2. CASE CancelMiss(id)
      <4>1. PICK r \in RejectReasons : emitted' = << Reject(id, r) >>
        BY <3>2 DEF CancelMiss, RejectReasons
      <4> QED
        BY <4>1, RejectIsEvent DEF Reject
    <3> QED
      BY <2>2, <3>1, <3>2
  <2>5. Last(emitted') = e
    BY <2>4, SingletonSeq
  <2> QED
    BY <1>a, <2>0, <2>3, <2>4, <2>5
<1>6. CASE emit_invalid_message_error
  <2> DEFINE e == Reject(AskedId(Head(ingress)), "IntegrityViolation")
  <2>1. Dequeue /\ emit(e) /\ UNCHANGED incoming
    BY <1>6 DEF emit_invalid_message_error, coreVars, AskedId
  <2>2. AskedId(Head(ingress)) \in Ids
    BY <1>6, MisplacedAsks DEF emit_invalid_message_error
  <2>3. e \in Events /\ e.type # "Trade" /\ e.order_id = AskedId(Head(ingress))
    BY <2>2, RejectIsEvent DEF RejectReasons, Reject
  <2> QED
    BY <1>a, <2>1, <2>3
<1> QED
  BY <1>1, <1>2, <1>3, <1>4, <1>5, <1>6 DEF Process

-----------------------------------------------------------------------------
(* The server's counters and queues hold what they should.                  *)

ServerTypes ==
  /\ batch \in Nat /\ processed_count \in Nat
  /\ ingress_backpressure_count \in Nat /\ egress_overflow_count \in Nat
  /\ ingress \in Seq(Inbound)
  /\ \A c \in DOMAIN outbound : outbound[c] \in Seq(Events)

(* The frames that were delivered: processed, waiting or refused.           *)
Delivered == processed_count + Len(ingress) + ingress_backpressure_count

LEMMA ProcessCounts ==
  ASSUME IInv, IInv', processed_count \in Nat, egress_overflow_count \in Nat,
         ingress \in Seq(Inbound), Process
  PROVE  /\ processed_count' \in Nat /\ egress_overflow_count' \in Nat
         /\ processed_count' + Len(ingress') = processed_count + Len(ingress)
<1>1. Len(ingress) \in Nat
  BY LenProperties
<1>2. egress_overflow_count' \in Nat
  BY DEF Process, BeginNewOrder, EmitTrade, EndNewOrder, InvalidNewOrder, Cancel,
     emit_invalid_message_error, emit
<1>3. CASE EmitTrade \/ EndNewOrder
  BY <1>2, <1>3 DEF EmitTrade, EndNewOrder
<1>4. CASE Dequeue
  <2>1. processed_count' = processed_count + 1 /\ Len(ingress') = Len(ingress) - 1
    BY <1>4, DequeueTakes
  <2> QED
    BY <1>1, <1>2, <2>1
<1> QED
  BY <1>3, <1>4 DEF Process, BeginNewOrder, InvalidNewOrder, Cancel, emit_invalid_message_error

(* Neither a step inside a pass that leaves the engine alone nor a start    *)
(* changes what was counted, and the queues lose from the front only.       *)
LEMMA QueuesKeepType ==
  ASSUME ServerTypes, batch' \in {batch, 0}, UNCHANGED <<ingress, statVars>>,
         UNCHANGED ingress_backpressure_count,
         \A c \in DOMAIN outbound' :
           \/ outbound'[c] = << >>
           \/ c \in DOMAIN outbound /\ \E n \in 0..Len(outbound[c]) :
                outbound'[c] = SubSeq(outbound[c], n + 1, Len(outbound[c]))
  PROVE  ServerTypes' /\ Delivered' = Delivered
<1>1. ASSUME NEW c \in DOMAIN outbound' PROVE outbound'[c] \in Seq(Events)
  <2>1. CASE outbound'[c] = << >>
    BY <2>1, EmptySeq
  <2>2. CASE c \in DOMAIN outbound
    <3>1. PICK q \in Seq(Events) : q = outbound[c]
      BY <2>2 DEF ServerTypes
    <3>2. CASE \E n \in 0..Len(q) : outbound'[c] = SubSeq(q, n + 1, Len(q))
      <4>1. PICK n \in 0..Len(q) : outbound'[c] = SubSeq(q, n + 1, Len(q))
        BY <3>2
      <4>2. Len(q) \in Nat /\ \A i \in (n + 1)..Len(q) : q[i] \in Events
        BY LenProperties, ElementOfSeq
      <4> QED
        BY <4>1, <4>2, SubSeqProperties
    <3> QED
      BY <2>1, <2>2, <3>1, <3>2
  <2> QED
    BY <2>1, <2>2
<1>2. /\ ingress' = ingress /\ processed_count' = processed_count
      /\ egress_overflow_count' = egress_overflow_count
  BY DEF statVars
<1> QED
  BY <1>1, <1>2 DEF ServerTypes, Delivered

(* A queue that did not change lost nothing from its front.                 *)
LEMMA WholeQueue ==
  ASSUME ServerTypes, NEW c \in DOMAIN outbound
  PROVE  /\ Len(outbound[c]) \in Nat /\ 0 \in 0..Len(outbound[c])
         /\ SubSeq(outbound[c], 0 + 1, Len(outbound[c])) = outbound[c]
<1>1. outbound[c] \in Seq(Events)
  BY DEF ServerTypes
<1>2. Len(outbound[c]) \in Nat
  BY <1>1, LenProperties
<1>3. SubSeq(outbound[c], 1, Len(outbound[c])) = outbound[c]
  BY <1>1, SubSeqFull
<1> QED
  BY <1>2, <1>3

-----------------------------------------------------------------------------
(* Every step of the server other than a send is of one of five kinds.      *)

(* The engine is at rest: nothing waits and no call is in progress.         *)
Quiet == ingress = << >> /\ egress = << >> /\ Idle

(* The engine is at rest, connections come with an empty queue and go with  *)
(* what is in theirs.                                                       *)
RestingStep ==
  /\ Quiet /\ Quiet'
  /\ batch' \in {batch, 0}
  /\ UNCHANGED <<statVars, ingress_backpressure_count>>
  /\ \A c \in DOMAIN outbound' :
       outbound'[c] = IF c \in DOMAIN outbound THEN outbound[c] ELSE << >>
  /\ \A c \in connections' \ connections : c \notin DOMAIN outbound

(* Inside a read the thread goes on to the next stage.                      *)
StageStep ==
  /\ UNCHANGED <<coreVars, procVars, outbound, fd, batch, ingress_backpressure_count>>
  /\ connections' \subseteq connections

LEMMA QuietOutside ==
  ASSUME StageInv, ~ Serving
  PROVE  Quiet
BY DEF StageInv, Quiet

LEMMA StepKinds ==
  ASSUME StageInv, LifeInv, Start \/ Select \/ Stop \/ Steps
  PROVE  \/ RestingStep
         \/ StageStep
         \/ \E msg \in Commands : DeliverFrame(msg)
         \/ RunEngine
         \/ DrainEvent
<1>a. ASSUME Quiet, UNCHANGED <<coreVars, procVars>>, batch' \in {batch, 0},
             UNCHANGED ingress_backpressure_count,
             outbound' = outbound \/ \E s : drop_connection(s),
             connections' \subseteq connections
      PROVE  RestingStep
  <2>1. Quiet' /\ UNCHANGED statVars
    BY <1>a DEF Quiet, Idle, coreVars, procVars, statVars
  <2>2. ASSUME NEW c \in DOMAIN outbound'
        PROVE  c \in DOMAIN outbound /\ outbound'[c] = outbound[c]
    BY <1>a, <2>2, Zenon DEF drop_connection
  <2> QED
    BY <1>a, <2>1, <2>2 DEF RestingStep
<1>1. CASE Start
  <2>1. /\ ~ Serving /\ UNCHANGED <<ingress, egress, incoming, statVars, batch, outbound,
                                    connections, ingress_backpressure_count>>
    BY <1>1 DEF Start, initialize, ResetCore, coreVars, ringVars, registryVars, countVars, Serving
  <2>2. Quiet /\ Quiet'
    BY <2>1, QuietOutside DEF Quiet, Idle
  <2> QED
    BY <2>1, <2>2 DEF RestingStep
<1>2. CASE Select \/ Stop \/ EndAccept \/ StartWriting \/ EndPass
  <2>1. /\ ~ Serving /\ UNCHANGED <<coreVars, procVars>> /\ UNCHANGED <<batch, outbound,
                                    connections, ingress_backpressure_count>>
    BY <1>2 DEF Select, Stop, EndAccept, StartWriting, EndPass, registryVars, countVars, Serving
  <2> QED
    BY <1>a, <2>1, QuietOutside
<1>3. ASSUME NEW s \in Sockets, AcceptClient(s) PROVE RestingStep
  <2>1. /\ ~ Serving /\ UNCHANGED <<coreVars, procVars>>
        /\ UNCHANGED <<batch, ingress_backpressure_count>>
        /\ outbound' = [c \in DOMAIN outbound \cup {s} |-> Queue(c)]
        /\ connections' = connections \cup {s} /\ s \notin open
    BY <1>3 DEF AcceptClient, accept, countVars, Serving
  <2>2. Quiet /\ Quiet' /\ UNCHANGED statVars
    BY <2>1, QuietOutside DEF Quiet, Idle, coreVars, procVars, statVars
  <2>3. s \notin DOMAIN outbound
    BY <2>1 DEF LifeInv, StageInv, Served
  <2>4. \A c \in DOMAIN outbound' :
          outbound'[c] = IF c \in DOMAIN outbound THEN outbound[c] ELSE << >>
    BY <2>1 DEF Queue
  <2> QED
    BY <2>1, <2>2, <2>3, <2>4, Zenon DEF RestingStep
<1>4. ASSUME NEW s \in Sockets, ReadEnds(s) \/ ReadNothing(s) \/ ReadBytes(s) \/ WriteFails(s)
      PROVE  RestingStep
  <2>1. /\ ~ Serving /\ UNCHANGED <<coreVars, procVars>>
        /\ UNCHANGED <<batch, ingress_backpressure_count>>
        /\ outbound' = outbound \/ drop_connection(s)
        /\ connections' \subseteq connections
    BY <1>4 DEF ReadEnds, ReadNothing, ReadBytes, Reading, WriteFails, Writing, SendFails,
       teardown, countVars, registryVars, pipelineVars, Serving
  <2> QED
    BY <1>a, <2>1, QuietOutside
<1>5. CASE FinishRead
  <2>1. /\ Quiet /\ UNCHANGED <<coreVars, procVars>> /\ batch' = 0
        /\ UNCHANGED ingress_backpressure_count
    BY <1>5 DEF FinishRead, EndRead, StageInv, Quiet, countVars
  <2>2. /\ outbound' = outbound \/ drop_connection(fd)
        /\ connections' \subseteq connections
    BY <1>5 DEF FinishRead, SendFails, teardown, registryVars
  <2> QED
    BY <1>a, <2>1, <2>2
<1>6. CASE Submit
  <2>1. CASE EndOfBytes \/ StartDrain
    BY <2>1 DEF EndOfBytes, StartDrain, StageStep, registryVars, countVars
  <2>2. CASE BadFrame
    BY <2>2 DEF BadFrame, teardown, StageStep, countVars
  <2> QED
    BY <1>6, <2>1, <2>2 DEF Submit, Submitting
<1> QED
  BY <1>1, <1>2, <1>3, <1>4, <1>5, <1>6 DEF Steps

(* The types are kept by each of the kinds, and only a delivery counts.     *)
LEMMA RestingStepTypes ==
  ASSUME ServerTypes, RestingStep
  PROVE  ServerTypes' /\ Delivered' = Delivered
<1>1. ASSUME NEW c \in DOMAIN outbound'
      PROVE  \/ outbound'[c] = << >>
             \/ c \in DOMAIN outbound /\ \E n \in 0..Len(outbound[c]) :
                  outbound'[c] = SubSeq(outbound[c], n + 1, Len(outbound[c]))
  BY WholeQueue DEF RestingStep
<1>2. UNCHANGED <<ingress, statVars>> /\ UNCHANGED ingress_backpressure_count
  BY DEF RestingStep, Quiet
<1> QED
  BY <1>1, <1>2, QueuesKeepType DEF RestingStep

LEMMA StageStepTypes ==
  ASSUME ServerTypes, StageStep
  PROVE  ServerTypes' /\ Delivered' = Delivered
BY DEF StageStep, ServerTypes, Delivered, procVars

LEMMA DeliverTypes ==
  ASSUME ServerTypes, NEW msg \in Commands, DeliverFrame(msg)
  PROVE  ServerTypes' /\ Delivered' = Delivered + 1 /\ Delivered \in Nat
<1>1. /\ batch' = batch + 1 /\ UNCHANGED outbound /\ UNCHANGED statVars
      /\ ingress' = IF Len(ingress) = IngressCapacity THEN ingress ELSE Append(ingress, msg)
      /\ ingress_backpressure_count' =
           ingress_backpressure_count + IF Len(ingress) = IngressCapacity THEN 1 ELSE 0
  BY DEF DeliverFrame, submit
<1>2. msg \in Inbound /\ Len(ingress) \in Nat
  BY ServerAssumption, LenProperties DEF ServerTypes
<1>3. Append(ingress, msg) \in Seq(Inbound) /\ Len(Append(ingress, msg)) = Len(ingress) + 1
  BY <1>2, AppendProperties DEF ServerTypes
<1>4. CASE Len(ingress) = IngressCapacity
  BY <1>1, <1>2, <1>4 DEF ServerTypes, Delivered, statVars
<1>5. CASE Len(ingress) # IngressCapacity
  BY <1>1, <1>2, <1>3, <1>5 DEF ServerTypes, Delivered, statVars
<1> QED
  BY <1>4, <1>5

LEMMA RunTypes ==
  ASSUME ServerTypes, IInv, IInv', RunEngine
  PROVE  ServerTypes' /\ Delivered' = Delivered
<1>1. /\ Process /\ UNCHANGED <<batch, outbound, ingress_backpressure_count>>
  BY DEF RunEngine, pipelineVars, countVars
<1>2. /\ processed_count' \in Nat /\ egress_overflow_count' \in Nat
      /\ processed_count' + Len(ingress') = processed_count + Len(ingress)
  BY <1>1, ProcessCounts DEF ServerTypes
<1>3. ingress' \in Seq(Inbound)
  BY <1>1, ProcessEffect DEF ServerTypes
<1> QED
  BY <1>1, <1>2, <1>3 DEF ServerTypes, Delivered

LEMMA DrainTypes ==
  ASSUME ServerTypes, LifeInv, StageInv, egress \in Seq(Events), DrainEvent
  PROVE  /\ ServerTypes' /\ Delivered' = Delivered /\ fd \in DOMAIN outbound
         /\ outbound' = [outbound EXCEPT ![fd] = Append(outbound[fd], Head(egress))]
         /\ Head(egress) \in Events
<1>1. /\ egress # << >> /\ UNCHANGED <<ingress, statVars>>
      /\ UNCHANGED <<batch, ingress_backpressure_count>>
      /\ outbound' = [c \in DOMAIN outbound \cup {fd} |->
                       IF c = fd THEN Append(Queue(c), Head(egress)) ELSE outbound[c]]
  BY DEF DrainEvent, next_event
<1>2. fd \in DOMAIN outbound
  BY DEF DrainEvent, LifeInv, StageInv, Serving, Served
<1>3. Queue(fd) = outbound[fd] /\ DOMAIN outbound \cup {fd} = DOMAIN outbound
  BY <1>2, Zenon DEF Queue
<1>4. Head(egress) \in Events
  BY <1>1, HeadTailProperties
<1>5. Append(outbound[fd], Head(egress)) \in Seq(Events)
  BY <1>2, <1>4, AppendProperties DEF ServerTypes
<1>6. DOMAIN outbound' = DOMAIN outbound
  BY <1>1, <1>3
<1>7. \A c \in DOMAIN outbound :
        outbound'[c] = IF c = fd THEN Append(outbound[fd], Head(egress)) ELSE outbound[c]
  BY <1>1, <1>3
<1>8. outbound' = [outbound EXCEPT ![fd] = Append(outbound[fd], Head(egress))]
  <2>1. outbound' = [c \in DOMAIN outbound |->
                       IF c = fd THEN Append(outbound[fd], Head(egress)) ELSE outbound[c]]
    BY <1>1, <1>3
  <2> QED
    BY <2>1
<1> QED
  BY <1>1, <1>2, <1>4, <1>5, <1>6, <1>7, <1>8, Zenon DEF ServerTypes, Delivered, statVars

-----------------------------------------------------------------------------
(* What a connection is owed against what was produced for it.              *)

(* The answers a connection gets from what the server holds now.            *)
Due(s) == AnswerIds(Produced(s)) \o Pending(s)

(* A log against what is due: short of at most k, and equal to it when k is *)
(* nothing.                                                                 *)
Balanced(log, due, k) ==
  /\ Len(log) - Len(due) \in 0..k
  /\ k = 0 => log = due

Accounted(s) == Balanced(owed[s], Due(s), egress_overflow_count)

LEMMA BalancedAppend ==
  ASSUME NEW log \in Seq(Nat), NEW due \in Seq(Nat), NEW x \in Nat, NEW k \in Nat,
         Balanced(log, due, k)
  PROVE  Balanced(Append(log, x), Append(due, x), k)
<1>1. Len(Append(log, x)) = Len(log) + 1 /\ Len(Append(due, x)) = Len(due) + 1
  BY AppendProperties
<1>2. Len(log) \in Nat /\ Len(due) \in Nat
  BY LenProperties
<1>3. Len(Append(log, x)) - Len(Append(due, x)) = Len(log) - Len(due)
  BY <1>1, <1>2
<1> QED
  BY <1>3 DEF Balanced

(* The answers at the front are sent and struck from the log.               *)
LEMMA BalancedSend ==
  ASSUME NEW log \in Seq(Nat), NEW sent \in Seq(Nat), NEW rest \in Seq(Nat), NEW k \in Nat,
         Balanced(log, sent \o rest, k)
  PROVE  /\ SubSeq(log, Len(sent) + 1, Len(log)) \in Seq(Nat)
         /\ Balanced(SubSeq(log, Len(sent) + 1, Len(log)), rest, k)
<1> DEFINE m == Len(sent)
           n == Len(log)
           r == Len(rest)
           left == SubSeq(log, m + 1, n)
<1>1. m \in Nat /\ n \in Nat /\ r \in Nat /\ \A i \in (m + 1)..n : log[i] \in Nat
  BY LenProperties, ElementOfSeq
<1>2. /\ sent \o rest \in Seq(Nat) /\ Len(sent \o rest) = m + r
      /\ \A i \in 1..(m + r) : (sent \o rest)[i] = IF i <= m THEN sent[i] ELSE rest[i - m]
  BY ConcatProperties
<1>3. n - (m + r) \in 0..k /\ (k = 0 => log = sent \o rest)
  BY <1>2 DEF Balanced
<1>4. /\ left \in Seq(Nat) /\ Len(left) = IF m + 1 <= n THEN n - (m + 1) + 1 ELSE 0
      /\ \A i \in 1..(n - (m + 1) + 1) : left[i] = log[(m + 1) + i - 1]
  BY <1>1, SubSeqProperties
<1> HIDE DEF m, n, r, left
<1>5. Len(left) = n - m
  BY <1>1, <1>3, <1>4
<1>6. Len(left) - r \in 0..k
  BY <1>1, <1>3, <1>5
<1>7. ASSUME k = 0 PROVE left = rest
  <2>1. log = sent \o rest /\ n = m + r /\ Len(left) = r
    BY <1>1, <1>3, <1>5, <1>7
  <2>2. ASSUME NEW i \in 1..r PROVE left[i] = rest[i]
    <3>1. /\ i \in 1..(n - (m + 1) + 1) /\ (m + 1) + i - 1 = m + i /\ m + i \in 1..(m + r)
          /\ ~ (m + i <= m) /\ (m + i) - m = i
      BY <1>1, <2>1
    <3>2. left[i] = log[m + i]
      BY <1>4, <3>1
    <3>3. (sent \o rest)[m + i] = rest[i]
      BY <1>2, <3>1
    <3> QED
      BY <2>1, <3>2, <3>3
  <2> QED
    BY <1>4, <2>1, <2>2, SeqEqual DEF r
<1> QED
  BY <1>4, <1>6, <1>7 DEF Balanced, left, m, n, r

(* An answer that was lost is one more the connection may be short of.      *)
LEMMA BalancedLoss ==
  ASSUME NEW log \in Seq(Nat), NEW due \in Seq(Nat), NEW left \in Seq(Nat), NEW k \in Nat,
         Balanced(log, due, k), Len(due) \in {Len(left), Len(left) + 1}
  PROVE  Balanced(log, left, k + 1)
<1>1. Len(log) \in Nat /\ Len(due) \in Nat /\ Len(left) \in Nat
  BY LenProperties
<1>2. Len(log) - Len(left) \in 0..(k + 1) /\ k + 1 # 0
  BY <1>1 DEF Balanced
<1> QED
  BY <1>2 DEF Balanced

(* Where what is due comes from.                                            *)
DueFact ==
  ServerTypes /\ IInv /\ egress \in Seq(Events) =>
    \A s \in DOMAIN outbound :
      /\ Due(s) \in Seq(Nat) /\ Produced(s) \in Seq(Events)
      /\ Len(Due(s)) = Len(AnswerIds(Produced(s))) + Len(Pending(s))
      /\ s = fd => /\ Produced(s) = outbound[s] \o egress
                   /\ Due(s) = AnswerIds(outbound[s] \o egress) \o InFlight
      /\ s # fd => Produced(s) = outbound[s] /\ Due(s) = AnswerIds(outbound[s])
      /\ Quiet => Produced(s) = outbound[s] /\ Due(s) = AnswerIds(outbound[s])

LEMMA DueFacts == DueFact
<1> SUFFICES ASSUME ServerTypes, IInv, egress \in Seq(Events), NEW s \in DOMAIN outbound
             PROVE  /\ Due(s) \in Seq(Nat) /\ Produced(s) \in Seq(Events)
                    /\ Len(Due(s)) = Len(AnswerIds(Produced(s))) + Len(Pending(s))
                    /\ s = fd => /\ Produced(s) = outbound[s] \o egress
                                 /\ Due(s) = AnswerIds(outbound[s] \o egress) \o InFlight
                    /\ s # fd => Produced(s) = outbound[s] /\ Due(s) = AnswerIds(outbound[s])
                    /\ Quiet => Produced(s) = outbound[s] /\ Due(s) = AnswerIds(outbound[s])
  BY DEF DueFact
<1>1. outbound[s] \in Seq(Events) /\ ingress \in Seq(Inbound)
  BY DEF ServerTypes
<1>2. InFlight \in Seq(Nat) /\ << >> \in Seq(Nat) /\ << >> \in Seq(Events)
  BY <1>1, InFlightFacts, EmptySeq
<1>3. outbound[s] \o << >> = outbound[s] /\ outbound[s] \o egress \in Seq(Events)
  BY <1>1, ConcatEmptySeq, ConcatProperties
<1>4. Pending(s) = IF s = fd THEN InFlight ELSE << >>
  BY DEF Pending, InFlight
<1>5. Produced(s) = IF s = fd THEN outbound[s] \o egress ELSE outbound[s]
  BY <1>3 DEF Produced
<1>6. Pending(s) \in Seq(Nat) /\ Produced(s) \in Seq(Events)
  BY <1>1, <1>2, <1>3, <1>4, <1>5
<1>7. AnswerIds(Produced(s)) \in Seq(Nat)
  BY <1>6, AnswersType
<1>8. Due(s) \in Seq(Nat) /\ Len(Due(s)) = Len(AnswerIds(Produced(s))) + Len(Pending(s))
  BY <1>6, <1>7, ConcatProperties DEF Due
<1>9. ASSUME Pending(s) = << >> PROVE Due(s) = AnswerIds(Produced(s))
  BY <1>7, <1>9, ConcatEmptySeq DEF Due
<1>10. ASSUME Quiet PROVE Produced(s) = outbound[s] /\ Pending(s) = << >>
  <2>1. AskedIds(ingress) = << >>
    <3>1. Len(ingress) = 0
      BY <1>10 DEF Quiet
    <3>2. AskedIds(ingress) \in Seq(Nat) /\ Len(AskedIds(ingress)) = 0
      BY <1>1, <3>1, AskedIdsType, Zenon
    <3> QED
      BY <3>2, EmptySeq
  <2>2. InFlight = << >>
    BY <1>1, <1>10, <2>1, InFlightFacts DEF Quiet
  <2> QED
    BY <1>3, <1>4, <1>5, <1>10, <2>2 DEF Quiet
<1> QED
  BY <1>4, <1>5, <1>6, <1>8, <1>9, <1>10 DEF Due

LEMMA DueFactsNext == DueFact'
BY DueFacts, PTL

=============================================================================
