------------------------------ MODULE TcpServer ------------------------------
(***************************************************************************)
(* The engine process: main() brings the pipeline up, then TcpServer's loop *)
(* makes passes over select: accept what is pending, read what was reported *)
(* readable, write where room was reported.                                 *)
(*                                                                          *)
(* stage is "Starting", "Select" between two passes, "Accepting", "Reading" *)
(* and "Writing" inside a pass, a stage of submit_client_bytes inside a     *)
(* read, and "Exited".                                                      *)
(***************************************************************************)
EXTENDS ServerPipeline

CONSTANT MaxAccepted    \* bound on the connections ever registered

VARIABLES
  read_set,     \* descriptors select reported readable and not yet read
  write_set,    \* descriptors select reported writable and not yet written
  accepted,     \* accepted_
  closed        \* closed_

passVars == <<read_set, write_set>>

serverVars == <<pipelineVars, passVars, accepted, closed>>

allVars == <<coreVars, procVars, serverVars>>

-----------------------------------------------------------------------------

(* main: initialize, bind and listen; any failure ends the process.         *)
Start ==
  /\ stage = "Starting"
  /\ \/ initialize(FALSE) /\ stage' = "Exited"
     \/ initialize(TRUE) /\ stage' \in {"Exited", "Select"}
  /\ UNCHANGED <<registryVars, outbound, fd, batch, countVars, passVars,
                 accepted, closed>>

(* SIGINT or SIGTERM.  The flag is looked at between passes only, so that a *)
(* signal during a pass is one at its end.                                  *)
Stop ==
  /\ stage = "Select"
  /\ stage' = "Exited"
  /\ UNCHANGED <<coreVars, procVars, registryVars, outbound, fd, batch, countVars,
                 passVars, accepted, closed>>

(* Fault: a queue that a short send left behind is not watched.             *)
FaultReadOnly == {}

(* The connections watched for room: those with something queued.           *)
Unsent == {s \in DOMAIN outbound : outbound[s] # << >>}

(* select returns.  Every watched descriptor gets its turn in the pass; one *)
(* that was not reported is one whose turn finds nothing to read, or no     *)
(* room.                                                                    *)
Select ==
  /\ stage = "Select"
  /\ read_set' = monitored
  /\ write_set' = Unsent
  /\ stage' \in {"Accepting", "Reading"}
  /\ UNCHANGED <<coreVars, procVars, registryVars, outbound, fd, batch, countVars,
                 accepted, closed>>

-----------------------------------------------------------------------------

(* drain_accept: a pending client gets the lowest descriptor not in use, as *)
(* POSIX has it; after a close the same one is handed out again.            *)
AcceptClient(s) ==
  /\ stage = "Accepting"
  /\ accepted < MaxAccepted
  /\ s \in Sockets \ open /\ \A other \in Sockets \ open : s <= other
  /\ accept(s)
  /\ accepted' = accepted + 1
  /\ outbound' = [c \in DOMAIN outbound \cup {s} |-> Queue(c)]
  /\ UNCHANGED <<coreVars, procVars, stage, fd, batch, countVars, passVars, closed>>

(* The loop ends when accept would block.  Clients refused on the way, at   *)
(* the cap or because they cannot be made non-blocking, leave no trace.     *)
EndAccept ==
  /\ stage = "Accepting"
  /\ stage' = "Reading"
  /\ UNCHANGED <<coreVars, procVars, registryVars, outbound, fd, batch, countVars,
                 passVars, accepted, closed>>

drop_connection(s) ==
  /\ outbound' = [c \in DOMAIN outbound \ {s} |-> outbound[c]]
  /\ closed' = closed + 1

Reading(s) ==
  /\ stage = "Reading"
  /\ s \in read_set
  /\ read_set' = read_set \ {s}

(* handle_readable: the peer closed, or the socket failed.                  *)
ReadEnds(s) ==
  /\ Reading(s)
  /\ teardown(s)
  /\ drop_connection(s)
  /\ UNCHANGED <<coreVars, procVars, stage, fd, batch, countVars, write_set, accepted>>

(* handle_readable: spurious readiness.                                     *)
ReadNothing(s) ==
  /\ Reading(s)
  /\ UNCHANGED <<coreVars, procVars, pipelineVars, write_set, accepted, closed>>

(* handle_readable: bytes arrived; submit_client_bytes starts.              *)
ReadBytes(s) ==
  /\ Reading(s)
  /\ stage' = "Framing"
  /\ fd' = s
  /\ UNCHANGED <<coreVars, procVars, registryVars, outbound, batch, countVars,
                 write_set, accepted, closed>>

Submit == Submitting /\ UNCHANGED <<passVars, accepted, closed>>

(* Fault: what was not sent is dropped with what was.                       *)
FaultEraseAll(s, n) == outbound' = [outbound EXCEPT ![s] = << >>]

(* The sent prefix leaves the queue.                                        *)
EraseSent(s, n) == outbound' = [outbound EXCEPT ![s] = SubSeq(@, n + 1, Len(@))]

(* handle_writable: the kernel takes some prefix of the queue.              *)
SendSome(s, n) ==
  /\ n \in 0..Len(outbound[s])
  /\ EraseSent(s, n)
  /\ UNCHANGED <<registryVars, closed>>

(* handle_writable: the send fails and the connection is torn down.         *)
SendFails(s) == teardown(s) /\ drop_connection(s)

(* handle_readable after submit_client_bytes.                               *)
EndRead ==
  /\ stage = "Draining"
  /\ egress = << >>
  /\ stage' = "Reading"
  /\ fd' = NoSocket
  /\ batch' = 0
  /\ UNCHANGED <<coreVars, procVars, countVars, passVars, accepted>>

(* The connection is still there: what is queued for it is flushed at once. *)
Flush(n) == EndRead /\ fd \in connections \cap Unsent /\ SendSome(fd, n)

(* Nothing is queued, or the flush fails, or the pipeline closed the        *)
(* connection and what is queued for it is dropped.                         *)
FinishRead ==
  /\ EndRead
  /\ \/ fd \in connections \ Unsent /\ UNCHANGED <<registryVars, outbound, closed>>
     \/ fd \in connections \cap Unsent /\ SendFails(fd)
     \/ fd \notin connections /\ drop_connection(fd) /\ UNCHANGED registryVars

(* The keys to write are collected after the reads.                         *)
StartWriting ==
  /\ stage = "Reading"
  /\ read_set = {}
  /\ stage' = "Writing"
  /\ write_set' = write_set \cap Unsent
  /\ UNCHANGED <<coreVars, procVars, registryVars, outbound, fd, batch, countVars,
                 read_set, accepted, closed>>

Writing(s) ==
  /\ stage = "Writing"
  /\ s \in write_set
  /\ write_set' = write_set \ {s}
  /\ UNCHANGED <<coreVars, procVars, stage, fd, batch, countVars, read_set, accepted>>

WriteSome(s, n) == Writing(s) /\ SendSome(s, n)

WriteFails(s) == Writing(s) /\ SendFails(s)

EndPass ==
  /\ stage = "Writing"
  /\ write_set = {}
  /\ stage' = "Select"
  /\ UNCHANGED <<coreVars, procVars, registryVars, outbound, fd, batch, countVars,
                 passVars, accepted, closed>>

-----------------------------------------------------------------------------

ServerInit ==
  /\ PipelineInit
  /\ stage = "Starting"
  /\ read_set = {} /\ write_set = {}
  /\ accepted = 0 /\ closed = 0

(* The kernel takes the first n events queued for s.                        *)
Sends(s, n) == WriteSome(s, n) \/ (s = fd /\ Flush(n))

(* What else the thread does without waiting once select has returned.      *)
Steps ==
  \/ EndAccept
  \/ \E s \in Sockets : \/ AcceptClient(s)
                        \/ ReadEnds(s) \/ ReadNothing(s) \/ ReadBytes(s)
                        \/ WriteFails(s)
  \/ Submit
  \/ FinishRead
  \/ StartWriting
  \/ EndPass

ServerNext ==
  \/ Start \/ Select \/ Stop
  \/ Steps
  \/ \E s \in DOMAIN outbound : \E n \in 0..Len(outbound[s]) : Sends(s, n)

ServerSpec == ServerInit /\ [][ServerNext]_allVars

-----------------------------------------------------------------------------

(* No read is being served.                                                 *)
BetweenReads == fd = NoSocket

(* Between two reads the rings are empty: a command is processed, and its   *)
(* events are drained, during the read that delivered it.  That is what     *)
(* lets the pipeline send every event to the originating connection without *)
(* a table from order to connection.                                        *)
RingsEmptyBetweenReads == BetweenReads => ingress = << >> /\ egress = << >> /\ Idle

(* The registry, the poller, the kernel and the outbound queues never       *)
(* disagree about which connections exist once a handler has returned,      *)
(* whichever of the teardown paths was taken; each registered connection is *)
(* closed once; and the cap holds.                                          *)
LifecyclesAgree ==
  /\ BetweenReads =>
       /\ connections = monitored /\ connections = open
       /\ connections = DOMAIN outbound
       /\ accepted = closed + Cardinality(connections)
  /\ Cardinality(connections) <= max_connections

=============================================================================
