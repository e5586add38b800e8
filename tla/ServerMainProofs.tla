-------------------------- MODULE ServerMainProofs --------------------------
EXTENDS ServerMain, TLAPS

(***************************************************************************)
(* Proofs about the server process and its logger, for any number of       *)
(* connections, starts of daemons, failing calls and signals.              *)
(***************************************************************************)

-----------------------------------------------------------------------------
(* The inductive invariant.                                                *)

\* Without overlap there is one daemon at a time, and the path is its own
\* from bind() to close().  Once it has removed a stale path, nobody makes a
\* new one before it binds.
SoleDaemon ==
    ~overlap =>
        /\ \A d, e \in Daemons : dpc[d] # "off" /\ dpc[e] # "off" => d = e
        /\ \A d \in Daemons : Bound(d) => path = d
        /\ \A d \in Daemons : dpc[d] = "bind" => path = None

\* Who has the descriptor of a connection.
Ownership ==
    /\ client_socket # None <=> mpc \in {"create", "reject"}
    /\ \A c \in Conns : hpc[c] # "none" => conn[c] = "taken" /\ client_socket # c
    /\ client_socket # None => conn[client_socket] = "taken"

ProcessInv ==
    /\ SoleDaemon
    /\ Ownership
    /\ DescriptorsOwned
    /\ StopsForCause

-----------------------------------------------------------------------------
(* Types.                                                                  *)

LEMMA CallTypes ==
  ASSUME call \in [Senders -> {Idle, Calling} \union Daemons], NEW s \in Senders
  PROVE  /\ Logs(s) => call' \in [Senders -> {Idle, Calling} \union Daemons]
         /\ Returned(s) => call' \in [Senders -> {Idle, Calling} \union Daemons]
  BY DEF Logs, Returned

LEMMA FaultTypes ==
  ASSUME faults \in 0 .. MaxFaults
  PROVE  Fault \/ NoFault => faults' \in 0 .. MaxFaults
  BY LoggerAssumption DEF Fault, NoFault

LEMMA EnqueueTypes ==
  ASSUME LoggerTypeOK, NEW d \in Daemons, NEW p \in Packets, Room(d), Enqueue(d, p)
  PROVE  /\ queue' \in [Daemons -> Seq(Packets)]
         /\ \A e \in Daemons : Len(queue'[e]) <= QueueMax
<1>1. queue[d] \in Seq(Packets) /\ Len(queue[d]) \in Nat
  BY DEF LoggerTypeOK
<1>2. Append(queue[d], p) \in Seq(Packets)
      /\ Len(Append(queue[d], p)) = Len(queue[d]) + 1
  BY <1>1
<1>3. Len(queue[d]) + 1 <= QueueMax
  BY <1>1, LoggerAssumption DEF Room
<1> QED BY <1>2, <1>3 DEF LoggerTypeOK, Enqueue

LEMMA DiesTypes ==
  ASSUME LoggerTypeOK, NEW d \in Daemons, SocketDies(d)
  PROVE  /\ queue' \in [Daemons -> Seq(Packets)]
         /\ \A e \in Daemons : Len(queue'[e]) <= QueueMax
         /\ call' \in [Senders -> {Idle, Calling} \union Daemons]
<1>1. <<>> \in Seq(Packets) /\ Len(<<>>) = 0 /\ 0 <= QueueMax
  BY LoggerAssumption
<1>2. queue' \in [Daemons -> Seq(Packets)]
      /\ \A e \in Daemons : Len(queue'[e]) <= QueueMax
  BY <1>1 DEF LoggerTypeOK, SocketDies
<1>3. call' \in [Senders -> {Idle, Calling} \union Daemons]
  BY DEF LoggerTypeOK, SocketDies
<1> QED BY <1>2, <1>3

\* Senders: a call is sent, waits, or returns.
LEMMA SendTypes ==
  ASSUME LoggerTypeOK, NEW s \in Senders, LogCall(s) \/ LogFails(s)
  PROVE  LoggerTypeOK'
<1>1. CASE LogFails(s)
  BY <1>1, CallTypes, FaultTypes DEF LogFails, LoggerTypeOK, daemons
<1>2. CASE LogWakes(s)
  <2>1. /\ queue' \in [Daemons -> Seq(Packets)]
        /\ \A e \in Daemons : Len(queue'[e]) <= QueueMax
    BY <1>2, EnqueueTypes DEF LogWakes, Packets
  <2> QED BY <1>2, <2>1, CallTypes DEF LogWakes, LoggerTypeOK
<1>3. CASE LogSend(s)
  <2>1. Reachable => path \in Daemons
    BY DEF LoggerTypeOK, Reachable
  <2>2. /\ queue' \in [Daemons -> Seq(Packets)]
        /\ \A e \in Daemons : Len(queue'[e]) <= QueueMax
    <3>1. CASE Reachable /\ Room(path) /\ Enqueue(path, "entry")
      BY <2>1, <3>1, EnqueueTypes DEF Packets
    <3>2. CASE queue' = queue
      BY <3>2 DEF LoggerTypeOK
    <3> QED BY <1>3, <3>1, <3>2 DEF LogSend
  <2>3. call' \in [Senders -> {Idle, Calling} \union Daemons]
    BY <1>3, <2>1, CallTypes DEF LogSend, LoggerTypeOK
  <2> QED BY <1>3, <2>2, <2>3 DEF LogSend, LoggerTypeOK
<1> QED BY <1>1, <1>2, <1>3 DEF LogCall

\* Daemons.
LEMMA DaemonTypes ==
  ASSUME LoggerTypeOK, NEW d \in Daemons, Daemon(d) \/ DaemonEvent(d)
  PROVE  LoggerTypeOK'
<1>1. CASE Start(d)
  <2>1. overlap' \in BOOLEAN
    BY <1>1 DEF Start, LoggerTypeOK
  <2>2. starts' \in 0 .. MaxStarts
    BY <1>1, LoggerAssumption DEF Start, Daemons
  <2>3. dpc' \in [Daemons -> DaemonPcs] /\ drunning' \in [Daemons -> BOOLEAN]
    BY <1>1 DEF Start, DGoto, LoggerTypeOK, DaemonPcs
  <2> QED BY <1>1, <2>1, <2>2, <2>3 DEF Start, LoggerTypeOK
<1>2. CASE UnlinkStale(d)
  BY <1>2, FaultTypes DEF UnlinkStale, DGoto, LoggerTypeOK, DaemonPcs
<1>3. CASE Bind(d)
  <2>1. dpc' \in [Daemons -> DaemonPcs]
    BY <1>3 DEF Bind, DGoto, AfterLoopTest, LoggerTypeOK, DaemonPcs
  <2>2. path' \in Daemons \union {None}
    BY <1>3 DEF Bind, LoggerTypeOK
  <2>3. faults' \in 0 .. MaxFaults
    BY <1>3, FaultTypes DEF Bind, LoggerTypeOK
  <2> QED BY <1>3, <2>1, <2>2, <2>3 DEF Bind, LoggerTypeOK
<1>4. CASE Receive(d)
  <2>1. /\ queue' \in [Daemons -> Seq(Packets)]
        /\ \A e \in Daemons : Len(queue'[e]) <= QueueMax
    <3>1. queue[d] \in Seq(Packets) /\ queue[d] # <<>> /\ Len(queue[d]) <= QueueMax
      BY <1>4 DEF Receive, LoggerTypeOK
    <3>2. Tail(queue[d]) \in Seq(Packets) /\ Len(Tail(queue[d])) = Len(queue[d]) - 1
      BY <3>1
    <3>3. Len(Tail(queue[d])) <= QueueMax
      BY <3>1, <3>2, LoggerAssumption
    <3> QED BY <1>4, <3>2, <3>3 DEF Receive, LoggerTypeOK
  <2>2. faults' \in 0 .. MaxFaults
    BY <1>4, FaultTypes DEF Receive, LoggerTypeOK
  <2>3. dpc' \in [Daemons -> DaemonPcs]
    BY <1>4 DEF Receive, DGoto, AfterLoopTest, LoggerTypeOK, DaemonPcs
  <2> QED BY <1>4, <2>1, <2>2, <2>3 DEF Receive, LoggerTypeOK
<1>5. CASE ReceiveFails(d)
  BY <1>5, FaultTypes DEF ReceiveFails, DGoto, LoggerTypeOK, DaemonPcs
<1>6. CASE CloseSocket(d)
  BY <1>6, DiesTypes DEF CloseSocket, DGoto, LoggerTypeOK, DaemonPcs
<1>7. CASE UnlinkPath(d)
  BY <1>7 DEF UnlinkPath, DGoto, LoggerTypeOK, DaemonPcs
<1>8. CASE DaemonSignal(d)
  <2>1. dpc' \in [Daemons -> DaemonPcs]
    BY <1>8 DEF DaemonSignal, DGoto, LoggerTypeOK, DaemonPcs
  <2> QED BY <1>8, <2>1, FaultTypes DEF DaemonSignal, LoggerTypeOK
<1>9. CASE Kill(d)
  BY <1>9, DiesTypes, FaultTypes DEF Kill, DGoto, LoggerTypeOK, DaemonPcs
<1> QED BY <1>1, <1>2, <1>3, <1>4, <1>5, <1>6, <1>7, <1>8, <1>9
        DEF Daemon, DaemonEvent

LEMMA LoggerTypes == LoggerTypeOK /\ LoggerStep => LoggerTypeOK'
<1> SUFFICES ASSUME LoggerTypeOK, LoggerStep PROVE LoggerTypeOK'
  OBVIOUS
<1>1. CASE OtherSends
  <2>1. path \in Daemons
    BY <1>1 DEF OtherSends, Reachable, LoggerTypeOK
  <2>2. /\ queue' \in [Daemons -> Seq(Packets)]
        /\ \A e \in Daemons : Len(queue'[e]) <= QueueMax
    BY <1>1, <2>1, EnqueueTypes DEF OtherSends, Packets
  <2> QED BY <1>1, <2>2, FaultTypes DEF OtherSends, LoggerTypeOK
<1> QED BY <1>1, SendTypes, DaemonTypes DEF LoggerStep

\* A step of the process leaves the daemons alone.
LEMMA LoggerKept ==
  ASSUME LoggerTypeOK, UNCHANGED daemons,
         call' \in [Senders -> {Idle, Calling} \union Daemons], Fault \/ NoFault
  PROVE  LoggerTypeOK'
  BY FaultTypes DEF LoggerTypeOK, daemons

\* The main thread and the handlers.
MainAct == MainStep \/ AcceptFails \/ Signal

ConnAct(c) ==
    HandlerStep(c) \/ Connect(c) \/ HandlerEvent(c) \/ HandlerLeaves(c)

\* What every step of the process does to the logger.
LEMMA ProcessCalls ==
  ASSUME TypeOK, MainAct \/ \E c \in Conns : ConnAct(c)
  PROVE  /\ UNCHANGED daemons
         /\ call' \in [Senders -> {Idle, Calling} \union Daemons]
         /\ Fault \/ NoFault
<1> USE DEF MainAct, ConnAct, MainStep, HandlerStep
<1>1. UNCHANGED daemons
  BY DEF Initialise, MainLoop, EnterAccept, Accept, AcceptFails, Break,
       CreateThread, Reject, Created, Cleanup, Stopped, Exit, Signal,
       HandlerStart, HandlerEvent, HandlerLeaves, HandlerCloses, Connect, logging
<1>2. Fault \/ NoFault
  BY DEF Initialise, MainLoop, EnterAccept, Accept, AcceptFails, Break,
       CreateThread, Reject, Created, Cleanup, Stopped, Exit, Signal,
       HandlerStart, HandlerEvent, HandlerLeaves, HandlerCloses, Connect, logging,
       NoFault
<1>3. \/ Logs(Main) \/ Returned(Main) \/ UNCHANGED call
      \/ \E c \in Conns : Logs(c)
      \/ call' = [s \in Senders |-> Idle]
  BY DEF Initialise, MainLoop, EnterAccept, Accept, AcceptFails, Break,
       CreateThread, Reject, Created, Cleanup, Stopped, Exit, Signal, Interrupted,
       HandlerStart, HandlerEvent, HandlerLeaves, HandlerCloses, Connect, logging
<1>4. call \in [Senders -> {Idle, Calling} \union Daemons]
  BY DEF TypeOK, LoggerTypeOK
<1>5. call' \in [Senders -> {Idle, Calling} \union Daemons]
  BY <1>3, <1>4, CallTypes, ServerMainAssumption
<1> QED BY <1>1, <1>2, <1>5

\* The variables of server/main.c and of the handlers.
ProcessType ==
    /\ mpc \in MainPcs
    /\ running \in BOOLEAN /\ listening \in BOOLEAN /\ accept_error \in BOOLEAN
    /\ missed \in BOOLEAN
    /\ client_socket \in Conns \union {None}
    /\ conn \in [Conns -> {"new", "pending", "taken"}]
    /\ open \subseteq Conns
    /\ hpc \in [Conns -> HandlerPcs]
    /\ signals \in 0 .. MaxSignals /\ events \in 0 .. MaxEvents

LEMMA MainTypes ==
  ASSUME ProcessType, Ownership, MainAct
  PROVE  ProcessType'
<1> USE DEF ProcessType, MainPcs
<1>1. CASE Initialise
  BY <1>1 DEF Initialise
<1>2. CASE MainLoop \/ EnterAccept \/ Break \/ Created \/ Stopped
  BY <1>2 DEF MainLoop, EnterAccept, Break, Created, Stopped, counters
<1>3. CASE Accept
  BY <1>3 DEF Accept, counters
<1>4. CASE AcceptFails
  BY <1>4 DEF AcceptFails
<1>5. CASE CreateThread
  <2>1. client_socket \in Conns
    BY <1>5 DEF CreateThread, At, Ownership
  <2> QED BY <1>5, <2>1 DEF CreateThread, counters, HandlerPcs
<1>6. CASE Reject
  BY <1>6 DEF Reject, counters
<1>7. CASE Cleanup
  BY <1>7 DEF Cleanup, counters
<1>8. CASE Exit
  BY <1>8 DEF Exit, counters, HandlerPcs
<1>9. CASE Signal
  <2>1. missed' \in BOOLEAN
    BY <1>9 DEF Signal
  <2>2. signals' \in 0 .. MaxSignals
    BY <1>9, ServerMainAssumption DEF Signal
  <2>3. mpc' \in MainPcs
    BY <1>9 DEF Signal, Interrupted
  <2> QED BY <1>9, <2>1, <2>2, <2>3 DEF Signal
<1> QED BY <1>1, <1>2, <1>3, <1>4, <1>5, <1>6, <1>7, <1>8, <1>9
        DEF MainAct, MainStep

LEMMA ConnTypes ==
  ASSUME ProcessType, NEW c \in Conns, ConnAct(c)
  PROVE  ProcessType'
<1> USE DEF ProcessType
<1>1. CASE HandlerStart(c) \/ HandlerLeaves(c) \/ HandlerCloses(c)
  BY <1>1 DEF HandlerStart, HandlerLeaves, HandlerCloses, counters, HandlerPcs
<1>2. CASE HandlerEvent(c)
  BY <1>2, ServerMainAssumption DEF HandlerEvent
<1>3. CASE Connect(c)
  BY <1>3 DEF Connect, counters
<1> QED BY <1>1, <1>2, <1>3 DEF ConnAct, HandlerStep

-----------------------------------------------------------------------------
(* The invariant of the daemons.                                           *)

\* A step of a daemon d leaves the others alone, and as long as d is the only
\* one, what it has done to the path holds until its next step.
LEMMA DaemonStep ==
  ASSUME LoggerTypeOK, SoleDaemon, LoggerStep
  PROVE  SoleDaemon'
<1>1. ASSUME NEW d \in Daemons, Start(d) PROVE SoleDaemon'
  BY <1>1 DEF Start, DGoto, SoleDaemon, Bound, LoggerTypeOK
<1>2. ASSUME NEW d \in Daemons, dpc[d] # "off", overlap' = overlap,
             \A e \in Daemons \ {d} : dpc'[e] = dpc[e],
             \/ dpc'[d] \in {"off", "unlink_stale", "unlink"}
             \/ dpc'[d] \in {"recv", "close"} /\ path' = d
             \/ dpc'[d] = "bind" /\ path' = None
      PROVE  SoleDaemon'
  <2>1. ~overlap => \A e \in Daemons \ {d} : dpc[e] = "off"
    BY <1>2 DEF SoleDaemon
  <2> QED BY <1>2, <2>1 DEF SoleDaemon, Bound
<1>3. ASSUME overlap, overlap' = overlap PROVE SoleDaemon'
  BY <1>3 DEF SoleDaemon
<1>4. ASSUME NEW d \in Daemons, UnlinkStale(d) PROVE SoleDaemon'
  BY <1>2, <1>4 DEF UnlinkStale, DGoto, LoggerTypeOK
<1>5. ASSUME NEW d \in Daemons, Bind(d) PROVE SoleDaemon'
  BY <1>2, <1>5 DEF Bind, DGoto, AfterLoopTest, LoggerTypeOK
<1>6. ASSUME NEW d \in Daemons, Receive(d) \/ ReceiveFails(d) PROVE SoleDaemon'
  <2>1. ~overlap => path' = d
    BY <1>6 DEF Receive, ReceiveFails, SoleDaemon, Bound
  <2> QED BY <1>2, <1>3, <1>6, <2>1 DEF Receive, ReceiveFails, DGoto,
          AfterLoopTest, LoggerTypeOK
<1>7. ASSUME NEW d \in Daemons, CloseSocket(d) \/ UnlinkPath(d) \/ Kill(d)
      PROVE  SoleDaemon'
  BY <1>2, <1>7 DEF CloseSocket, UnlinkPath, Kill, DGoto, LoggerTypeOK
<1>8. ASSUME NEW d \in Daemons, DaemonSignal(d) PROVE SoleDaemon'
  <2>1. /\ UNCHANGED <<path, overlap>>
        /\ \A e \in Daemons \ {d} : dpc'[e] = dpc[e]
        /\ dpc'[d] = dpc[d] \/ (dpc[d] = "recv" /\ dpc'[d] = "close")
    BY <1>8 DEF DaemonSignal, DGoto, LoggerTypeOK
  <2> QED BY <2>1 DEF SoleDaemon, Bound
<1>9. ASSUME \/ OtherSends
             \/ \E s \in Senders : LogCall(s) \/ LogFails(s)
      PROVE  SoleDaemon'
  <2>1. UNCHANGED <<path, dpc, overlap>>
    BY <1>9 DEF OtherSends, LogCall, LogSend, LogWakes, LogFails, daemons
  <2> QED BY <2>1 DEF SoleDaemon, Bound
<1> QED BY <1>1, <1>4, <1>5, <1>6, <1>7, <1>8, <1>9
        DEF LoggerStep, Daemon, DaemonEvent

-----------------------------------------------------------------------------
(* The invariant of the process.                                           *)

OwnerInv == Ownership /\ DescriptorsOwned /\ StopsForCause

LEMMA MainOwner ==
  ASSUME ProcessType, OwnerInv, MainAct
  PROVE  OwnerInv'
<1> USE DEF OwnerInv
<1>0. None \notin Conns
  BY ServerMainAssumption
<1>1. CASE Initialise
  BY <1>1 DEF Initialise, At, Ownership, DescriptorsOwned, StopsForCause,
     ProcessType
<1>2. CASE MainLoop \/ EnterAccept \/ Break \/ Created \/ Stopped
  BY <1>2 DEF MainLoop, EnterAccept, Break, Created, Stopped, At, counters,
     Ownership, DescriptorsOwned, StopsForCause, ProcessType
<1>3. CASE Accept
  <2>1. PICK c \in Conns : /\ conn[c] = "pending"
                           /\ conn' = [conn EXCEPT ![c] = "taken"]
                           /\ open' = open \union {c}
                           /\ client_socket' = c
    BY <1>3 DEF Accept
  <2>2. /\ mpc = "blocked" /\ mpc' = "create" /\ client_socket = None
        /\ UNCHANGED <<hpc, running, accept_error>>
    BY <1>3 DEF Accept, At, Ownership, counters
  <2>3. hpc[c] = "none"
    BY <2>1 DEF Ownership
  <2> QED BY <1>0, <2>1, <2>2, <2>3 DEF Ownership, DescriptorsOwned,
          StopsForCause, ProcessType
<1>4. CASE AcceptFails
  BY <1>4 DEF AcceptFails, At, Ownership, DescriptorsOwned, StopsForCause,
     ProcessType
<1>5. CASE CreateThread
  <2>1. client_socket \in Conns /\ conn[client_socket] = "taken"
    BY <1>0, <1>5 DEF CreateThread, At, Ownership, ProcessType
  <2>2. /\ mpc = "create"
        /\ UNCHANGED <<conn, open, running, accept_error>>
    BY <1>5 DEF CreateThread, At, counters
  <2>3. CASE /\ hpc' = [hpc EXCEPT ![client_socket] = "start"]
             /\ client_socket' = None
             /\ mpc' \in {"loop", "created"}
    BY <1>0, <2>1, <2>2, <2>3 DEF Ownership, DescriptorsOwned, StopsForCause,
       ProcessType
  <2>4. CASE mpc' = "reject" /\ UNCHANGED <<hpc, client_socket>>
    BY <2>1, <2>2, <2>4 DEF Ownership, DescriptorsOwned, StopsForCause, ProcessType
  <2> QED BY <1>5, <2>3, <2>4 DEF CreateThread
<1>6. CASE Reject
  BY <1>0, <1>6 DEF Reject, At, counters, Ownership, DescriptorsOwned,
     StopsForCause, ProcessType
<1>7. CASE Cleanup
  BY <1>7 DEF Cleanup, At, counters, Ownership, DescriptorsOwned, StopsForCause,
     ProcessType
<1>8. CASE Exit
  BY <1>8 DEF Exit, At, counters, Ownership, DescriptorsOwned, StopsForCause,
     ProcessType
<1>9. CASE Signal
  <2>1. mpc' = mpc \/ (mpc = "blocked" /\ mpc' = "loop")
    BY <1>9 DEF Signal, Interrupted
  <2>2. running' = FALSE /\ mpc # "exit"
        /\ UNCHANGED <<client_socket, conn, open, hpc>>
    BY <1>9 DEF Signal
  <2> QED BY <2>1, <2>2 DEF Ownership, DescriptorsOwned, StopsForCause, ProcessType
<1> QED BY <1>1, <1>2, <1>3, <1>4, <1>5, <1>6, <1>7, <1>8, <1>9
        DEF MainAct, MainStep

LEMMA ConnOwner ==
  ASSUME ProcessType, OwnerInv, NEW c \in Conns, ConnAct(c)
  PROVE  OwnerInv'
<1> USE DEF OwnerInv
<1>1. CASE HandlerStart(c) \/ HandlerLeaves(c) \/ HandlerCloses(c)
  BY <1>1 DEF HandlerStart, HandlerLeaves, HandlerCloses, HandlerAt, counters,
     Ownership, DescriptorsOwned, StopsForCause, ProcessType
<1>2. CASE HandlerEvent(c)
  BY <1>2 DEF HandlerEvent, Ownership, DescriptorsOwned, StopsForCause
<1>3. CASE Connect(c)
  BY <1>3 DEF Connect, counters, Ownership, DescriptorsOwned, StopsForCause,
     ProcessType
<1> QED BY <1>1, <1>2, <1>3 DEF ConnAct, HandlerStep

-----------------------------------------------------------------------------
(* The theorems.                                                           *)

LEMMA ProcessInit == Init => TypeOK /\ ProcessInv
<1> SUFFICES ASSUME Init PROVE TypeOK /\ ProcessInv
  OBVIOUS
<1>1. LoggerTypeOK
  <2>1. <<>> \in Seq(Packets) /\ Len(<<>>) = 0 /\ 0 <= QueueMax
    BY LoggerAssumption
  <2>2. /\ queue \in [Daemons -> Seq(Packets)]
        /\ \A d \in Daemons : Len(queue[d]) <= QueueMax
    BY <2>1 DEF Init, LoggerInit
  <2>3. starts \in 0 .. MaxStarts /\ faults \in 0 .. MaxFaults
    BY LoggerAssumption DEF Init, LoggerInit
  <2>4. /\ path \in Daemons \union {None}
        /\ dpc \in [Daemons -> DaemonPcs]
        /\ drunning \in [Daemons -> BOOLEAN]
        /\ call \in [Senders -> {Idle, Calling} \union Daemons]
        /\ overlap \in BOOLEAN
    BY DEF Init, LoggerInit, DaemonPcs
  <2> QED BY <2>2, <2>3, <2>4 DEF LoggerTypeOK
<1>2. TypeOK
  <2>1. signals \in 0 .. MaxSignals /\ events \in 0 .. MaxEvents
    BY ServerMainAssumption DEF Init
  <2>2. /\ mpc \in MainPcs
        /\ running \in BOOLEAN /\ listening \in BOOLEAN
        /\ accept_error \in BOOLEAN /\ missed \in BOOLEAN
        /\ client_socket \in Conns \union {None}
    BY DEF Init, MainPcs
  <2>3. /\ conn \in [Conns -> {"new", "pending", "taken"}]
        /\ open \subseteq Conns
        /\ hpc \in [Conns -> HandlerPcs]
    BY DEF Init, HandlerPcs
  <2> QED BY <1>1, <2>1, <2>2, <2>3 DEF TypeOK
<1>3. ProcessInv
  BY DEF Init, LoggerInit, ProcessInv, SoleDaemon, Bound, Ownership,
     DescriptorsOwned, StopsForCause
<1> QED BY <1>2, <1>3

LEMMA ProcessStep == TypeOK /\ ProcessInv /\ [Next]_vars => TypeOK' /\ ProcessInv'
<1> SUFFICES ASSUME TypeOK, ProcessInv, [Next]_vars PROVE TypeOK' /\ ProcessInv'
  OBVIOUS
<1>0. /\ LoggerTypeOK /\ ProcessType /\ SoleDaemon /\ OwnerInv /\ Ownership
  BY DEF TypeOK, ProcessType, ProcessInv, OwnerInv
<1>1. CASE MainAct \/ \E c \in Conns : ConnAct(c)
  <2>1. LoggerTypeOK'
    BY <1>0, <1>1, ProcessCalls, LoggerKept
  <2>2. ProcessType' /\ OwnerInv'
    BY <1>0, <1>1, MainTypes, ConnTypes, MainOwner, ConnOwner
  <2>3. SoleDaemon'
    <3>1. UNCHANGED daemons
      BY <1>1, ProcessCalls
    <3> QED BY <1>0, <3>1 DEF daemons, SoleDaemon, Bound
  <2> QED BY <2>1, <2>2, <2>3 DEF TypeOK, ProcessType, ProcessInv, OwnerInv
<1>2. CASE LoggerStep /\ UNCHANGED process
  <2>1. LoggerTypeOK' /\ SoleDaemon'
    BY <1>0, <1>2, LoggerTypes, DaemonStep
  <2>2. ProcessType' /\ OwnerInv'
    BY <1>0, <1>2 DEF process, counters, ProcessType, OwnerInv, Ownership,
       DescriptorsOwned, StopsForCause
  <2> QED BY <2>1, <2>2 DEF TypeOK, ProcessType, ProcessInv, OwnerInv
<1>3. CASE UNCHANGED vars
  BY <1>3 DEF vars, logging, daemons, process, counters, TypeOK, LoggerTypeOK,
     ProcessInv, SoleDaemon, Bound, Ownership, DescriptorsOwned, StopsForCause
<1> QED BY <1>1, <1>2, <1>3 DEF Next, Event, Waiting, MainAct, ConnAct

\* The inductive invariant of the server process and its logger: one daemon
\* at a time unless starts overlap, with the path its own once it has bound
\* it, and every descriptor has its owner.
THEOREM ProcessInvariant == Spec => [](TypeOK /\ ProcessInv)
<1> QED BY ProcessInit, ProcessStep, PTL DEF Spec

\* Types of the server process and of the logger, with bounded queues.
THEOREM ProcessTypes == Spec => []TypeOK
<1> QED BY ProcessInvariant, PTL

\* A daemon that receives is the one behind LOGGER_SOCKET_PATH, as long as no
\* two daemons have run at once (create_logger_socket, cleanup).
THEOREM DaemonReachable == Spec => []ServingReachable
<1>1. ProcessInv => ServingReachable
  BY DEF ProcessInv, SoleDaemon, Bound, ServingReachable
<1> QED BY <1>1, ProcessInvariant, PTL

\* A daemon never fails to start because of the path that an earlier one has
\* left: it gives up only for a failure of its own, a kill, or an overlap
\* (create_logger_socket).
THEOREM StartsReplaceStalePath == Spec => StalePathReplaced
<1>1. ASSUME TypeOK, ProcessInv, [Next]_vars, NEW d \in Daemons,
             dpc[d] \in {"unlink_stale", "bind"} /\ dpc'[d] = "off"
      PROVE  faults' > faults \/ overlap
  <2>1. /\ LoggerTypeOK /\ SoleDaemon /\ faults \in Nat
        /\ Fault => faults' > faults
    BY <1>1, LoggerAssumption DEF TypeOK, LoggerTypeOK, ProcessInv, Fault
  <2>2. dpc' # dpc
    BY <1>1
  <2>3. ~(MainAct \/ \E c \in Conns : ConnAct(c))
    BY <1>1, <2>2, ProcessCalls DEF daemons
  <2>4. LoggerStep
    BY <1>1, <2>2, <2>3 DEF Next, Event, Waiting, MainAct, ConnAct, vars, logging,
       daemons
  <2>5. PICK e \in Daemons : Daemon(e) \/ DaemonEvent(e)
    BY <2>2, <2>4 DEF LoggerStep, LogCall, LogSend, LogWakes, LogFails, OtherSends,
       daemons
  <2>6. e = d
    <3>1. \E l \in DaemonPcs : dpc' = [dpc EXCEPT ![e] = l]
      BY <2>1, <2>5 DEF Daemon, DaemonEvent, Start, UnlinkStale, Bind, Receive,
         ReceiveFails, CloseSocket, UnlinkPath, DaemonSignal, Kill, DGoto,
         AfterLoopTest, DaemonPcs, LoggerTypeOK
    <3> QED BY <1>1, <2>1, <3>1 DEF LoggerTypeOK
  <2>7. UnlinkStale(d) \/ Bind(d) \/ Kill(d)
    BY <1>1, <2>1, <2>5, <2>6 DEF Daemon, DaemonEvent, Start, Receive, ReceiveFails,
       CloseSocket, UnlinkPath, DaemonSignal, DGoto, LoggerTypeOK
  <2>8. CASE UnlinkStale(d) \/ Kill(d)
    BY <1>1, <2>1, <2>8 DEF UnlinkStale, Kill, DGoto, LoggerTypeOK
  <2>9. CASE Bind(d)
    BY <1>1, <2>1, <2>9 DEF Bind, DGoto, AfterLoopTest, SoleDaemon, LoggerTypeOK
  <2> QED BY <2>7, <2>8, <2>9
<1>2. TypeOK /\ ProcessInv /\ [Next]_vars =>
        [\A d \in Daemons :
           dpc[d] \in {"unlink_stale", "bind"} /\ dpc'[d] = "off" =>
               faults' > faults \/ overlap]_vars
  BY <1>1
<1> QED BY <1>2, ProcessInvariant, PTL DEF Spec, StalePathReplaced

\* Every open descriptor has exactly one owner, the main thread or a handler,
\* whichever of malloc() and pthread_create() fails.
THEOREM DescriptorsHaveOwners == Spec => []DescriptorsOwned
<1>1. ProcessInv => DescriptorsOwned
  BY DEF ProcessInv
<1> QED BY <1>1, ProcessInvariant, PTL

\* Only a signal, or an error of accept() or of the start, ends the server.
THEOREM ServerStopsForCause == Spec => []StopsForCause
<1>1. ProcessInv => StopsForCause
  BY DEF ProcessInv
<1> QED BY <1>1, ProcessInvariant, PTL
=============================================================================
