----------------------------- MODULE ServerMain -----------------------------
(***************************************************************************)
(* The server process (server/main.c) with its logger: the main thread     *)
(* accepts connections and gives each to a detached handler thread, all    *)
(* threads log, and SIGINT or SIGTERM ends the process.                    *)
(*                                                                         *)
(* Of a handler (client_handler) only what concerns the process is kept:   *)
(* it logs, closes its descriptor and ends.  ClientManager and FileManager *)
(* describe what it does in between.                                       *)
(***************************************************************************)
EXTENDS Logger

CONSTANTS
    Main,          \* the main thread as a sender
    Conns,         \* connections; one stands for its handler thread too
    MaxEvents,     \* bound: log calls of a handler while it serves
    MaxSignals     \* bound: signals to the server

ASSUME ServerMainAssumption ==
    /\ Main \notin Conns
    /\ None \notin Conns
    /\ Senders = Conns \union {Main}
    /\ MaxEvents \in Nat
    /\ MaxSignals \in Nat

VARIABLES
    mpc,           \* where the main thread is
    running,       \* the flag
    listening,     \* server_socket is open
    client_socket, \* the connection the main thread works on, or None
    conn,          \* connection: not there yet, in the backlog, or taken
    open,          \* connections whose descriptor is open
    hpc,           \* where each handler is
    signals,       \* signals so far
    events,        \* requests served and logged so far
    accept_error,  \* history: accept() or the start has failed
    missed         \* history: the last signal came just before accept()

counters == <<signals, events, accept_error, missed>>
process == <<mpc, running, listening, client_socket, conn, open, hpc, counters>>
vars == <<logging, process>>

MainPcs == {"init", "failed", "loop", "accept", "blocked", "create", "reject", "created",
            "break", "cleanup", "stopped", "exiting", "exit"}

HandlerPcs == {"none", "start", "serve", "close", "done"}

-----------------------------------------------------------------------------
(* The main thread.  It does nothing while it is in a log call.            *)

At(l) == mpc = l /\ call[Main] = Idle

\* client_manager_init and create_server_socket.
Initialise ==
    /\ At("init")
    /\ Logs(Main)
    /\ \/ /\ mpc' = "loop"
          /\ listening' = TRUE
          /\ NoFault
          /\ accept_error' = accept_error
       \/ /\ mpc' = "failed"
          /\ Fault
          /\ listening' = listening
          /\ accept_error' = TRUE
    /\ UNCHANGED <<daemons, running, client_socket, conn, open, hpc, signals,
                   events, missed>>

\* while (running); after the loop "Server shutdown initiated" is logged.
MainLoop ==
    /\ At("loop")
    /\ \/ /\ running
          /\ mpc' = "accept"
          /\ UNCHANGED call
       \/ /\ ~running
          /\ mpc' = "cleanup"
          /\ Logs(Main)
    /\ UNCHANGED <<daemons, faults, running, listening, client_socket, conn,
                   open, hpc, counters>>

\* accept() is called; a signal between the test and the call is not noticed.
EnterAccept ==
    /\ At("accept")
    /\ mpc' = "blocked"
    /\ UNCHANGED <<logging, running, listening, client_socket, conn, open, hpc,
                   counters>>

Accept ==
    /\ At("blocked")
    /\ \E c \in Conns :
       /\ conn[c] = "pending"
       /\ conn' = [conn EXCEPT ![c] = "taken"]
       /\ open' = open \union {c}
       /\ client_socket' = c
    /\ mpc' = "create"
    /\ Logs(Main)
    /\ UNCHANGED <<daemons, faults, running, listening, hpc, counters>>

\* Mutant of AcceptFails: the descriptor -1 is used like any other.
AcceptFailsUnchecked ==
    /\ At("blocked")
    /\ Fault
    /\ open' = open \union {None}
    /\ mpc' = "create"
    /\ Logs(Main)
    /\ UNCHANGED <<daemons, running, listening, client_socket, conn, hpc, counters>>

\* accept() fails for another reason than a signal: break.
AcceptFails ==
    /\ At("blocked")
    /\ Fault
    /\ accept_error' = TRUE
    /\ mpc' = "break"
    /\ Logs(Main)
    /\ UNCHANGED <<daemons, running, listening, client_socket, conn, open, hpc,
                   signals, events, missed>>

Break ==
    /\ At("break")
    /\ mpc' = "cleanup"
    /\ Logs(Main)
    /\ UNCHANGED <<daemons, faults, running, listening, client_socket, conn,
                   open, hpc, counters>>

\* malloc() and pthread_create(); a thread that is there owns the socket.
\* pthread_detach() may fail, which is only logged.
CreateThread ==
    /\ At("create")
    /\ Logs(Main)
    /\ \/ /\ hpc' = [hpc EXCEPT ![client_socket] = "start"]
          /\ client_socket' = None
          /\ (NoFault /\ mpc' = "loop") \/ (Fault /\ mpc' = "created")
       \/ /\ Fault
          /\ mpc' = "reject"
          /\ UNCHANGED <<hpc, client_socket>>
    /\ UNCHANGED <<daemons, running, listening, conn, open, counters>>

\* Mutants of Reject: the socket is not closed, and break instead of continue.
RejectLeaking ==
    /\ At("reject")
    /\ client_socket' = None
    /\ mpc' = "loop"
    /\ UNCHANGED <<logging, running, listening, conn, open, hpc, counters>>
RejectBreaking ==
    /\ At("reject")
    /\ open' = open \ {client_socket}
    /\ client_socket' = None
    /\ mpc' = "break"
    /\ UNCHANGED <<logging, running, listening, conn, hpc, counters>>

\* No memory or no thread: close() and continue.
Reject ==
    /\ At("reject")
    /\ open' = open \ {client_socket}
    /\ client_socket' = None
    /\ mpc' = "loop"
    /\ UNCHANGED <<logging, running, listening, conn, hpc, counters>>

Created ==
    /\ At("created")
    /\ mpc' = "loop"
    /\ Logs(Main)
    /\ UNCHANGED <<daemons, faults, running, listening, client_socket, conn,
                   open, hpc, counters>>

\* cleanup(): the backlog goes with the listening socket.
Cleanup ==
    /\ At("cleanup")
    /\ listening' = FALSE
    /\ conn' = [c \in Conns |-> IF conn[c] = "pending" THEN "taken" ELSE conn[c]]
    /\ (NoFault /\ mpc' = "exiting") \/ (Fault /\ mpc' = "stopped")
    /\ Logs(Main)
    /\ UNCHANGED <<daemons, running, client_socket, open, hpc, counters>>

Stopped ==
    /\ At("stopped")
    /\ mpc' = "exiting"
    /\ Logs(Main)
    /\ UNCHANGED <<daemons, faults, running, listening, client_socket, conn,
                   open, hpc, counters>>

\* main() returns: the process ends with all its threads and descriptors.
Exit ==
    /\ At("exiting") \/ At("failed")
    /\ mpc' = "exit"
    /\ open' = {}
    /\ hpc' = [c \in Conns |-> IF hpc[c] = "none" THEN "none" ELSE "done"]
    /\ call' = [s \in Senders |-> Idle]
    /\ UNCHANGED <<daemons, faults, running, listening, client_socket,
                   conn, counters>>

\* Mutant of Interrupted: accept() is restarted, as with SA_RESTART.
InterruptedRestarting ==
    \/ call[Main] \in Daemons /\ mpc' = mpc /\ Returned(Main)
    \/ call[Main] \notin Daemons /\ mpc' = mpc /\ call' = call

\* A signal interrupts accept(), which leads back to the test of running, or
\* the sendto() of a log call that waits.
Interrupted ==
    \/ mpc = "blocked" /\ mpc' = "loop" /\ call' = call
    \/ call[Main] \in Daemons /\ mpc' = mpc /\ Returned(Main)
    \/ mpc # "blocked" /\ call[Main] \notin Daemons /\ mpc' = mpc /\ call' = call

Signal ==
    /\ mpc \notin {"init", "exit"}
    /\ signals < MaxSignals
    /\ signals' = signals + 1
    /\ running' = FALSE
    /\ missed' = (mpc = "accept" \/ (missed /\ mpc # "blocked"))
    /\ Interrupted
    /\ UNCHANGED <<daemons, faults, listening, client_socket, conn, open, hpc,
                   events, accept_error>>

-----------------------------------------------------------------------------
(* Handlers and clients.                                                   *)

HandlerAt(c, l) == hpc[c] = l /\ call[c] = Idle /\ mpc # "exit"

HandlerStart(c) ==
    /\ HandlerAt(c, "start")
    /\ hpc' = [hpc EXCEPT ![c] = "serve"]
    /\ Logs(c)
    /\ UNCHANGED <<daemons, faults, mpc, running, listening, client_socket, conn,
                   open, counters>>

\* A request is served and logged.
HandlerEvent(c) ==
    /\ HandlerAt(c, "serve")
    /\ events < MaxEvents
    /\ events' = events + 1
    /\ Logs(c)
    /\ UNCHANGED <<daemons, faults, mpc, running, listening, client_socket, conn,
                   open, hpc, signals, accept_error, missed>>

\* The connection ends; the removal of a registered client is logged.
HandlerLeaves(c) ==
    /\ HandlerAt(c, "serve")
    /\ hpc' = [hpc EXCEPT ![c] = "close"]
    /\ Logs(c) \/ UNCHANGED call
    /\ UNCHANGED <<daemons, faults, mpc, running, listening, client_socket, conn,
                   open, counters>>

HandlerCloses(c) ==
    /\ HandlerAt(c, "close")
    /\ hpc' = [hpc EXCEPT ![c] = "done"]
    /\ open' = open \ {c}
    /\ Logs(c)
    /\ UNCHANGED <<daemons, faults, mpc, running, listening, client_socket, conn,
                   counters>>

\* A client connects: the kernel puts it into the backlog.
Connect(c) ==
    /\ conn[c] = "new" /\ listening
    /\ conn' = [conn EXCEPT ![c] = "pending"]
    /\ UNCHANGED <<logging, mpc, running, listening, client_socket, open, hpc,
                   counters>>

-----------------------------------------------------------------------------
Init ==
    /\ LoggerInit
    /\ mpc = "init"
    /\ running = TRUE
    /\ listening = FALSE
    /\ client_socket = None
    /\ conn = [c \in Conns |-> "new"]
    /\ open = {}
    /\ hpc = [c \in Conns |-> "none"]
    /\ signals = 0 /\ events = 0
    /\ accept_error = FALSE /\ missed = FALSE

\* What the main thread does unless it waits for something.
MainStep ==
    \/ Initialise
    \/ MainLoop
    \/ EnterAccept
    \/ Accept
    \/ Break
    \/ CreateThread
    \/ Reject
    \/ Created
    \/ Cleanup
    \/ Stopped
    \/ Exit

HandlerStep(c) == HandlerStart(c) \/ HandlerCloses(c)

\* What clients and operators do, and what fails.
Event ==
    \/ \E c \in Conns : Connect(c) \/ HandlerEvent(c) \/ HandlerLeaves(c)
    \/ AcceptFails
    \/ Signal

\* Everybody waits for somebody outside: a client, a signal, a start.
Waiting ==
    /\ mpc \in {"blocked", "exit"}
    /\ \A d \in Daemons : dpc[d] \in {"off", "recv"} /\ queue[d] = <<>>
    /\ \A s \in Senders : call[s] = Idle
    /\ \A c \in Conns : hpc[c] \in {"none", "serve", "done"}
    /\ UNCHANGED vars

Next ==
    \/ MainStep
    \/ \E c \in Conns : HandlerStep(c)
    \/ Event
    \/ LoggerStep /\ UNCHANGED process
    \/ Waiting

Spec == Init /\ [][Next]_vars

\* The threads go on, log calls return when they can, and a daemon that runs
\* goes on: it is not stopped, and its log file and console take its output.
Fairness ==
    /\ WF_vars(MainStep)
    /\ \A c \in Conns : WF_vars(HandlerStep(c))
    /\ \A s \in Senders : WF_vars(LogCall(s) /\ UNCHANGED process)
    /\ \A d \in Daemons : WF_vars(Daemon(d) /\ UNCHANGED process)

FairSpec == Spec /\ Fairness

-----------------------------------------------------------------------------
(* Properties.                                                             *)

\* Type invariant of the logger and the server process.
TypeOK ==
    /\ LoggerTypeOK
    /\ mpc \in MainPcs
    /\ running \in BOOLEAN /\ listening \in BOOLEAN /\ accept_error \in BOOLEAN
    /\ missed \in BOOLEAN
    /\ client_socket \in Conns \union {None}
    /\ conn \in [Conns -> {"new", "pending", "taken"}]
    /\ open \subseteq Conns
    /\ hpc \in [Conns -> HandlerPcs]
    /\ signals \in 0 .. MaxSignals /\ events \in 0 .. MaxEvents

\* A daemon that is started gives up only because one of its own calls fails
\* or it is killed, as long as no two daemons have run at once: a path that an
\* earlier one has left, killed or unable to unlink() it, is replaced by
\* create_logger_socket and never makes bind() fail.
StalePathReplaced ==
    [][\A d \in Daemons :
         dpc[d] \in {"unlink_stale", "bind"} /\ dpc'[d] = "off" =>
             faults' > faults \/ overlap]_vars

\* Every open descriptor has exactly one owner, the main thread between
\* accept() and pthread_create() or the handler, and no owner works on a
\* closed one: neither a failed malloc() nor a failed pthread_create() leaks
\* it, and the main thread never closes a handler's.
DescriptorsOwned ==
    mpc # "exit" => \A c \in Conns :
        c \in open <=>
            \/ client_socket = c /\ mpc \in {"create", "reject"}
            \/ hpc[c] \in {"start", "serve", "close"}

\* The server ends its loop only after a signal or an error of accept() or of
\* the start: a failed malloc(), pthread_create(), pthread_detach() or log
\* call costs at most one connection.
StopsForCause ==
    mpc \in {"failed", "break", "cleanup", "stopped", "exiting", "exit"} =>
        ~running \/ accept_error

\* After a signal the server ends, even if log calls have to wait for the
\* daemon, unless the signal came between the test of running and accept():
\* then it waits for one more connection or signal.
ShutdownEnds == ~running /\ ~missed ~> mpc = "exit"
=============================================================================
