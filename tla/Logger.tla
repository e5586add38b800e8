------------------------------- MODULE Logger -------------------------------
(***************************************************************************)
(* SyncChat's logging: logger_client_log (logger/logger_client.c), called  *)
(* by every thread of the server, and the logger daemon (logger/main.c).   *)
(*                                                                         *)
(* The two meet at LOGGER_SOCKET_PATH, a Unix datagram socket.  Each call  *)
(* sends one datagram with a blocking sendto(); the daemon appends what it *)
(* receives to the log file.  Daemons may be started twice, be stopped by  *)
(* a signal or be killed.  What the log file contains is left out.         *)
(***************************************************************************)
EXTENDS Integers, Sequences

CONSTANTS
    Senders,       \* threads that log
    QueueMax,      \* datagrams a socket holds (net.unix.max_dgram_qlen)
    MaxStarts,     \* bound: starts of daemons
    MaxFaults,     \* bound: failing calls, malformed datagrams, signals to
                   \* daemons and kills of daemons
    None           \* no daemon, no sender

ASSUME LoggerAssumption ==
    /\ QueueMax \in Nat \ {0}
    /\ MaxStarts \in Nat
    /\ MaxFaults \in Nat
    /\ None \notin Nat \union Senders

\* Start number d of the daemon is process d.
Daemons == 1 .. MaxStarts

\* Values of call, beside the daemons.
Idle == 0
Calling == -1

VARIABLES
    path,          \* whose socket LOGGER_SOCKET_PATH names, or None
    dpc,           \* where each daemon is
    drunning,      \* its flag running
    queue,         \* datagrams in its socket
    call,          \* sender: Idle, Calling before sendto(), or the daemon
                   \* whose full queue it waits for
    overlap,       \* history: two daemons have run at the same time
    starts,        \* starts of daemons so far
    faults         \* failed calls, malformed datagrams and stops so far

daemons == <<path, dpc, drunning, queue, overlap, starts>>
logging == <<daemons, call, faults>>

-----------------------------------------------------------------------------
\* A packet of logger_client_log, or what another program may send: the test
\* of its length or validate_packet refuses it.
Packets == {"entry", "malformed"}

DaemonPcs == {"off", "unlink_stale", "bind", "recv", "close", "unlink"}

\* The socket is bound and not yet closed; the path may name another one.
Bound(d) == dpc[d] \in {"recv", "close"}

\* sendto() finds a socket behind the path.
Reachable == path # None /\ Bound(path)

Fault == faults < MaxFaults /\ faults' = faults + 1
NoFault == faults' = faults

DGoto(d, l) == dpc' = [dpc EXCEPT ![d] = l]

\* while (running)
AfterLoopTest(d) == IF drunning[d] THEN "recv" ELSE "close"

-----------------------------------------------------------------------------
(* logger_client_log.                                                      *)

\* The call begins: the packet is filled in.
Logs(s) == call' = [call EXCEPT ![s] = Calling]

Returned(s) == call' = [call EXCEPT ![s] = Idle]

Room(d) == Len(queue[d]) < QueueMax

Enqueue(d, p) == queue' = [queue EXCEPT ![d] = Append(@, p)]

\* Mutant of LogSend: the call tries again until a daemon is there.
LogSendInsisting(s) ==
    /\ call[s] = Calling
    /\ Reachable /\ Room(path)
    /\ Enqueue(path, "entry")
    /\ Returned(s)
    /\ UNCHANGED <<path, dpc, drunning, overlap, starts, faults>>

\* sendto() finds the socket behind the path.  Nobody there: ENOENT or
\* ECONNREFUSED, and the call returns -1, which no caller looks at.
LogSend(s) ==
    /\ call[s] = Calling
    /\ \/ /\ ~Reachable
          /\ Returned(s)
          /\ queue' = queue
       \/ /\ Reachable /\ Room(path)
          /\ Enqueue(path, "entry")
          /\ Returned(s)
       \/ /\ Reachable /\ ~Room(path)
          /\ call' = [call EXCEPT ![s] = path]
          /\ queue' = queue
    /\ UNCHANGED <<path, dpc, drunning, overlap, starts, faults>>

\* socket() fails before anything is sent.
LogFails(s) ==
    /\ call[s] = Calling
    /\ Fault
    /\ Returned(s)
    /\ UNCHANGED daemons

\* There is room again.
LogWakes(s) ==
    /\ call[s] \in Daemons
    /\ Room(call[s])
    /\ Enqueue(call[s], "entry")
    /\ Returned(s)
    /\ UNCHANGED <<path, dpc, drunning, overlap, starts, faults>>

\* Another program sends something malformed.
OtherSends ==
    /\ Fault
    /\ Reachable /\ Room(path)
    /\ Enqueue(path, "malformed")
    /\ UNCHANGED <<path, dpc, drunning, call, overlap, starts>>

-----------------------------------------------------------------------------
(* The daemon.                                                             *)

Start(d) ==
    /\ d = starts + 1
    /\ starts' = d
    /\ drunning' = [drunning EXCEPT ![d] = TRUE]
    /\ DGoto(d, "unlink_stale")
    /\ overlap' = (overlap \/ \E e \in Daemons : dpc[e] # "off")
    /\ UNCHANGED <<path, queue, call, faults>>

\* Mutant of UnlinkStale: a path that a killed daemon has left is kept.
UnlinkStaleKeeping(d) ==
    /\ dpc[d] = "unlink_stale"
    /\ \/ path' = path /\ DGoto(d, "bind") /\ NoFault
       \/ path' = path /\ DGoto(d, "off") /\ Fault
    /\ UNCHANGED <<drunning, queue, call, overlap, starts>>

\* create_logger_socket: unlink() whatever has the name ...
UnlinkStale(d) ==
    /\ dpc[d] = "unlink_stale"
    /\ \/ path' = None /\ DGoto(d, "bind") /\ NoFault
       \/ path' = path /\ DGoto(d, "off") /\ Fault
    /\ UNCHANGED <<drunning, queue, call, overlap, starts>>

\* Mutant of Bind: its failure is not noticed.
BindUnchecked(d) ==
    /\ dpc[d] = "bind"
    /\ \/ path = None /\ path' = d /\ NoFault
       \/ path' = path /\ Fault
    /\ DGoto(d, "recv")
    /\ UNCHANGED <<drunning, queue, call, overlap, starts>>

\* ... and bind(), which fails if another daemon has just done so; then
\* open_log_file, whose failure leads to cleanup.
Bind(d) ==
    /\ dpc[d] = "bind"
    /\ \/ path = None /\ path' = d /\ DGoto(d, AfterLoopTest(d)) /\ NoFault
       \/ path = None /\ path' = d /\ DGoto(d, "close") /\ Fault
       \/ path # None /\ path' = path /\ DGoto(d, "off") /\ NoFault
       \/ path' = path /\ DGoto(d, "off") /\ Fault
    /\ UNCHANGED <<drunning, queue, call, overlap, starts>>

\* received == sizeof(log_packet_t) and validate_packet.
Accepts(p) == p = "entry"

\* recvfrom() returns a datagram; one that is not accepted is rejected, others
\* are written, and the daemon gives up if that fails.
Receive(d) ==
    /\ dpc[d] = "recv"
    /\ queue[d] # <<>>
    /\ queue' = [queue EXCEPT ![d] = Tail(@)]
    /\ \/ DGoto(d, AfterLoopTest(d)) /\ NoFault
       \/ Accepts(Head(queue[d])) /\ DGoto(d, "close") /\ Fault
    /\ UNCHANGED <<path, drunning, call, overlap, starts>>

\* recvfrom() fails for another reason than a signal: break.
ReceiveFails(d) ==
    /\ dpc[d] = "recv"
    /\ Fault
    /\ DGoto(d, "close")
    /\ UNCHANGED <<path, drunning, queue, call, overlap, starts>>

\* The socket of d is closed, with all it holds; who waits for it is told.
SocketDies(d) ==
    /\ queue' = [queue EXCEPT ![d] = <<>>]
    /\ call' = [s \in Senders |-> IF call[s] = d THEN Idle ELSE call[s]]

\* cleanup: close() ...
CloseSocket(d) ==
    /\ dpc[d] = "close"
    /\ SocketDies(d)
    /\ DGoto(d, "unlink")
    /\ UNCHANGED <<path, drunning, overlap, starts, faults>>

\* ... and unlink(), whatever the path names by now; a failure is only
\* reported.
UnlinkPath(d) ==
    /\ dpc[d] = "unlink"
    /\ path' \in {None, path}
    /\ DGoto(d, "off")
    /\ UNCHANGED <<drunning, queue, call, overlap, starts, faults>>

\* SIGINT or SIGTERM.  recvfrom() fails with EINTR and the loop ends, unless
\* the signal comes just before the call.
DaemonSignal(d) ==
    /\ dpc[d] # "off"
    /\ Fault
    /\ drunning' = [drunning EXCEPT ![d] = FALSE]
    /\ DGoto(d, dpc[d]) \/ (dpc[d] = "recv" /\ DGoto(d, "close"))
    /\ UNCHANGED <<path, queue, call, overlap, starts>>

\* The daemon is killed: the path stays.
Kill(d) ==
    /\ dpc[d] # "off"
    /\ Fault
    /\ SocketDies(d)
    /\ DGoto(d, "off")
    /\ UNCHANGED <<path, drunning, overlap, starts>>

-----------------------------------------------------------------------------
LoggerInit ==
    /\ path = None
    /\ dpc = [d \in Daemons |-> "off"]
    /\ drunning = [d \in Daemons |-> FALSE]
    /\ queue = [d \in Daemons |-> <<>>]
    /\ call = [s \in Senders |-> Idle]
    /\ overlap = FALSE
    /\ starts = 0 /\ faults = 0

\* What a daemon does by itself ...
Daemon(d) ==
    \/ UnlinkStale(d)
    \/ Bind(d)
    \/ Receive(d)
    \/ CloseSocket(d)
    \/ UnlinkPath(d)

\* ... and what happens to it.
DaemonEvent(d) == Start(d) \/ ReceiveFails(d) \/ DaemonSignal(d) \/ Kill(d)

LogCall(s) == LogSend(s) \/ LogWakes(s)

LoggerStep ==
    \/ \E d \in Daemons : Daemon(d) \/ DaemonEvent(d)
    \/ \E s \in Senders : LogCall(s) \/ LogFails(s)
    \/ OtherSends

-----------------------------------------------------------------------------
(* Properties.                                                             *)

\* Types of the logger's variables; no queue exceeds its limit.
LoggerTypeOK ==
    /\ path \in Daemons \union {None}
    /\ dpc \in [Daemons -> DaemonPcs]
    /\ drunning \in [Daemons -> BOOLEAN]
    /\ queue \in [Daemons -> Seq(Packets)]
    /\ \A d \in Daemons : Len(queue[d]) <= QueueMax
    /\ call \in [Senders -> {Idle, Calling} \union Daemons]
    /\ overlap \in BOOLEAN
    /\ starts \in 0 .. MaxStarts
    /\ faults \in 0 .. MaxFaults

\* A daemon that serves is the one that the path leads to, as long as no two
\* daemons have run at once: a stale path of a killed daemon, a path left by a
\* failed unlink() and a restart do not matter.  (A second daemon unlinks the
\* path of the first, and the first on its way out that of the second.)
ServingReachable ==
    ~overlap => \A d \in Daemons : dpc[d] = "recv" => path = d

\* No thread stays in a log call, with or without a daemon: the service goes
\* on if the daemon is missing, ends or is killed, as long as one that runs
\* keeps reading.
LogCallsReturn == \A s \in Senders : call[s] # Idle ~> call[s] = Idle
=============================================================================
