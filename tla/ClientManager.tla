---------------------------- MODULE ClientManager ----------------------------
(***************************************************************************)
(* The client registry of the SyncChat server (server/client_manager.c)    *)
(* and the handler threads that use it (server/client_handler.c).          *)
(*                                                                         *)
(* Every accepted connection has one handler thread, so a member of Conns  *)
(* names both.  The threads share the table clients[], guarded by          *)
(* clients_mutex, and one send_mutex per slot, which a thread holds while  *)
(* it writes to the slot's socket.  A critical section that blocks on      *)
(* nothing is one step, enabled when clients_mutex is free; a section that *)
(* takes a send_mutex while it holds clients_mutex is split there.         *)
(*                                                                         *)
(* A socket is a stream: a frame is a header followed by a payload, and a  *)
(* DOWNLOAD_READY frame is followed by raw file blocks.  wire[c] holds the *)
(* frames completely written to connection c; expect[c] is what the client *)
(* at the other end is about to parse.                                     *)
(***************************************************************************)
EXTENDS Integers, FiniteSets, Sequences

CONSTANTS
    Conns,        \* connections, each with its handler thread
    Fds,          \* socket descriptors; the kernel reuses closed ones
    Users,        \* valid usernames
    MaxClients,   \* MAX_CLIENTS, the slots of the registry
    IntMax,       \* INT_MAX: the largest client id that stays positive
    MaxLogins,    \* bound: client ids handed out in a behaviour
    MaxRequests,  \* bound: requests made in a behaviour
    MaxBlocks,    \* bound: raw blocks of a downloaded file
    MaxFailures,  \* bound: peers lost or stalled at a time
    Requests,     \* the requests clients make: a subset of RequestKinds
    ReadErrors,   \* whether read() of a shared file may fail
    Stalls,       \* whether a peer may stop reading its socket
    None          \* -1 as a descriptor or slot, "" as a username

RequestKinds == {"chat", "private", "reply", "file", "download", "quit"}

ASSUME ClientManagerAssumption ==
    /\ MaxClients \in Nat \ {0}
    /\ IntMax \in Nat \ {0}
    /\ MaxLogins \in Nat
    /\ MaxRequests \in Nat
    /\ MaxBlocks \in Nat
    /\ MaxFailures \in Nat
    /\ Requests \subseteq RequestKinds
    /\ ReadErrors \in BOOLEAN
    /\ Stalls \in BOOLEAN
    /\ None \notin Conns \union Fds \union Users \union Nat

VARIABLES
    clients,         \* the registry: slot -> entry
    clients_mutex,   \* its owner, or None
    send_mutex,      \* slot -> the owner of the entry's send_mutex, or None
    next_client_id,  \* unsigned counter of client_manager_add
    sock,            \* kernel: descriptor -> open connection, or None
    link,            \* kernel: state of each connection
    expect,          \* client: what its parser waits for
    wire,            \* frames completely written to each connection
    pc,              \* where each handler thread is
    fd,              \* socket_fd of the thread
    name,            \* username of the thread
    cid,             \* result of client_manager_add in the thread
    msg,             \* the frame the thread is sending
    slot,            \* the slot it resolved, or None
    wfd,             \* the descriptor it writes to
    targets,         \* snapshot of a broadcast or private message
    todo,            \* the targets not yet served
    successful,      \* completed sends of the broadcast
    remaining,       \* raw blocks of the file still to write
    nreq             \* requests received so far: they number the messages

registry == <<clients, next_client_id>>
mutexes == <<clients_mutex, send_mutex>>
net == <<sock, link, expect, wire>>
ident == <<fd, name, cid>>
delivery == <<targets, todo, successful>>
vars == <<registry, mutexes, net, ident, delivery,
          pc, msg, slot, wfd, remaining, nreq>>

-----------------------------------------------------------------------------
(* Data.                                                                   *)

Slots == 0 .. MaxClients - 1

\* client_id is unsigned int: it wraps after 2^32 - 1 = 2 * INT_MAX + 1.
UIntMax == 2 * IntMax + 1

\* Mutant of Succ: a counter that is signed, and overflows.
SuccSigned(id) == IF id = IntMax THEN -IntMax - 1 ELSE id + 1

Succ(id) == IF id = UIntMax THEN 0 ELSE id + 1

\* client_manager_add returns (int)client_id.
Signed(id) == IF id <= IntMax THEN id ELSE id - UIntMax - 1

Entry == [active : BOOLEAN, socket_fd : Fds \union {None},
          client_id : 0 .. UIntMax, username : Users \union {None}]

EmptyEntry == [active |-> FALSE, socket_fd |-> None,
               client_id |-> 0, username |-> None]

\* What a thread sends.  The kinds after which perform_login gives up are
\* LoginErrors; "REPLY" stands for every reply whose send result is ignored.
LoginErrors == {"LOGIN_REJECTED", "USERNAME_ALREADY_EXISTS",
                "SERVER_CLIENT_LIMIT"}

\* Written by send_message of client_handler.c, without any mutex.
RawKinds == LoginErrors \union {"USERNAME_REQUIRED"}

\* Written by the thread to its own client, through the registry.
OwnKinds == {"LOGIN_SUCCESS", "REPLY", "MESSAGE_DELIVERED",
             "PRIVATE_MESSAGE_DELIVERED", "USER_NOT_FOUND",
             "PRIVATE_MESSAGE_FAILED", "FILE_REPLY", "DOWNLOAD_READY",
             "GOODBYE"}

\* Written by send_to_target to another client.
TargetKinds == {"BROADCAST", "PRIVATE"}

Kinds == RawKinds \union OwnKinds \union TargetKinds \union {"NONE"}

\* num is the sender's request, to the addressed name, arg the recipients of
\* a broadcast or the blocks of a file.
Frame(kind, from, num, to, arg) ==
    [type |-> kind, from |-> from, num |-> num, to |-> to, arg |-> arg]

Frames == [type : Kinds, from : Conns \union {None}, num : Nat,
           to : Users \union {None}, arg : Nat]

NoMsg == Frame("NONE", None, 0, None, 0)

Target == [slot : Slots, id : 0 .. UIntMax]

Pcs == {"new", "login", "idle", "find", "target", "wait", "hdr", "pay",
        "raw", "remove", "rmwait", "rmunlock", "close", "done"}

Writing(t) == pc[t] \in {"hdr", "pay", "raw"}

-----------------------------------------------------------------------------
(* Lookups in the registry; they scan the slots upwards.                   *)

IsFirst(s, S) == s \in S /\ \A r \in S : s <= r

FreeSlots == {s \in Slots : ~clients[s].active /\ clients[s].socket_fd = None}

SocketSlots(f) == {s \in Slots : clients[s].active /\ clients[s].socket_fd = f}

\* Mutant of UsernameSlots: the test of active is inverted.
UsernameSlotsInactive(u) ==
    {s \in Slots : ~clients[s].active /\ clients[s].username = u}

UsernameSlots(u) ==
    {s \in Slots : clients[s].active /\ clients[s].username = u}

-----------------------------------------------------------------------------
(* The client's parser of the stream (receive_message and the download     *)
(* loop of the client): a chunk it does not expect leaves it out of step.  *)

ParserStates == [at : {"header", "payload", "raw", "desync"}, left : Nat]

AtHeader == [at |-> "header", left |-> 0]
Desync == [at |-> "desync", left |-> 0]

AfterHeader(p) ==
    IF p.at = "header" THEN [at |-> "payload", left |-> 0] ELSE Desync

AfterPayload(p, m) ==
    IF p.at # "payload" THEN Desync
    ELSE IF m.type = "DOWNLOAD_READY" /\ m.arg > 0
         THEN [at |-> "raw", left |-> m.arg]
         ELSE AtHeader

AfterRaw(p) ==
    IF p.at # "raw" THEN Desync
    ELSE IF p.left = 1 THEN AtHeader
         ELSE [at |-> "raw", left |-> p.left - 1]

-----------------------------------------------------------------------------
(* Sending.                                                                *)

\* The thread leaves a reply for its own client in msg and calls
\* client_manager_send (or client_manager_send_file_stream).
Reply(t, kind, num, arg) ==
    /\ msg' = [msg EXCEPT ![t] = Frame(kind, t, num, name[t], arg)]
    /\ pc' = [pc EXCEPT ![t] = "find"]

\* The thread has nothing more to send and goes on at l.
Continue(t, l) ==
    /\ pc' = [pc EXCEPT ![t] = l]
    /\ msg' = [msg EXCEPT ![t] = NoMsg]

\* Mutants of Rest: the loop index is not advanced, or advanced twice.
RestSame(t) == todo[t]
RestSkipping(t) ==
    {g \in todo[t] : \E h, k \in todo[t] : h.slot < k.slot /\ k.slot < g.slot}

\* The targets of the broadcast after the current one, which has the least
\* slot.
Rest(t) == {g \in todo[t] : \E h \in todo[t] : h.slot < g.slot}

\* Mutant of Delivered: it counts the targets and not the successful sends.
DeliveredAttempts(t, r) == successful[t] + 1

\* The successful sends of the broadcast, this one included.
Delivered(t, r) == successful[t] + (IF r = 0 THEN 1 ELSE 0)

\* The send of msg[t] is over with result r: 0 done, 1 the client is not
\* registered (any more), -1 failed.  The caller goes on.
SendReturns(t, r) ==
    LET kind == msg[t].type IN
        /\ nreq' = nreq
        /\ \/ /\ kind \in RawKinds
              /\ Continue(t, IF kind = "USERNAME_REQUIRED" /\ r = 0
                             THEN "login" ELSE "close")
              /\ UNCHANGED delivery
           \/ /\ kind = "LOGIN_SUCCESS"
              /\ Continue(t, IF r # 0 THEN "remove"
                      ELSE IF cid[t] > 0 THEN "idle" ELSE "close")
              /\ UNCHANGED delivery
           \/ /\ kind \in {"FILE_REPLY", "DOWNLOAD_READY"}
              /\ Continue(t, IF r = 0 THEN "idle" ELSE "remove")
              /\ UNCHANGED delivery
           \/ /\ kind = "GOODBYE"
              /\ Continue(t, "remove")
              /\ UNCHANGED delivery
           \/ /\ kind \in {"REPLY", "MESSAGE_DELIVERED", "USER_NOT_FOUND",
                           "PRIVATE_MESSAGE_DELIVERED", "PRIVATE_MESSAGE_FAILED"}
              /\ Continue(t, "idle")
              /\ targets' = [targets EXCEPT ![t] = {}]
              /\ successful' = [successful EXCEPT ![t] = 0]
              /\ todo' = todo
           \/ /\ kind = "PRIVATE"
              /\ Reply(t, CASE r = 0 -> "PRIVATE_MESSAGE_DELIVERED"
                            [] r = 1 -> "USER_NOT_FOUND"
                            [] OTHER -> "PRIVATE_MESSAGE_FAILED",
                       msg[t].num, 0)
              /\ todo' = [todo EXCEPT ![t] = {}]
              /\ UNCHANGED <<targets, successful>>
           \/ /\ kind = "BROADCAST"
              /\ IF Rest(t) = {}
                 THEN Reply(t, "MESSAGE_DELIVERED", msg[t].num, Delivered(t, r))
                 ELSE pc' = [pc EXCEPT ![t] = "target"] /\ msg' = msg
              /\ todo' = [todo EXCEPT ![t] = Rest(t)]
              /\ successful' = [successful EXCEPT ![t] = Delivered(t, r)]
              /\ targets' = targets

\* The thread finds its own entry by descriptor, and then waits for the
\* send_mutex with clients_mutex held; r is the result if there is no entry.
SendToSelf(t, r) ==
    /\ clients_mutex = None
    /\ \/ /\ SocketSlots(fd[t]) = {}
          /\ SendReturns(t, r)
          /\ UNCHANGED <<mutexes, slot>>
       \/ \E s \in Slots :
          /\ IsFirst(s, SocketSlots(fd[t]))
          /\ slot' = [slot EXCEPT ![t] = s]
          /\ clients_mutex' = t
          /\ pc' = [pc EXCEPT ![t] = "wait"]
          /\ UNCHANGED <<send_mutex, delivery, msg, nreq>>
    /\ UNCHANGED <<registry, net, ident, wfd, remaining>>

client_manager_send(t) ==
    /\ pc[t] = "find" /\ msg[t].type # "DOWNLOAD_READY"
    /\ SendToSelf(t, 1)

client_manager_send_file_stream(t) ==
    /\ pc[t] = "find" /\ msg[t].type = "DOWNLOAD_READY"
    /\ SendToSelf(t, -1)

\* Mutant of SameClient: the generation of the slot is not compared.
SameSlot(g) == clients[g.slot].active

\* The slot still holds the client the snapshot recorded.
SameClient(g) ==
    clients[g.slot].active /\ clients[g.slot].client_id = g.id

\* g is the target that a broadcast or private message of t is sent to.
IsCurrent(t, g) == g \in todo[t] /\ \A h \in todo[t] : g.slot <= h.slot

\* send_to_target for the next target of the snapshot.
send_to_target(t) ==
    /\ pc[t] = "target"
    /\ clients_mutex = None
    /\ \E g \in todo[t] :
       /\ IsCurrent(t, g)
       /\ \/ /\ ~SameClient(g)
             /\ SendReturns(t, 1)
             /\ UNCHANGED <<mutexes, slot>>
          \/ /\ SameClient(g)
             /\ slot' = [slot EXCEPT ![t] = g.slot]
             /\ clients_mutex' = t
             /\ pc' = [pc EXCEPT ![t] = "wait"]
             /\ UNCHANGED <<send_mutex, delivery, msg, nreq>>
    /\ UNCHANGED <<registry, net, ident, wfd, remaining>>

\* Mutant of LockSend: it does not wait for the send_mutex.
LockSendAnyway(t) ==
    /\ pc[t] = "wait"
    /\ send_mutex' = [send_mutex EXCEPT ![slot[t]] = t]
    /\ wfd' = [wfd EXCEPT ![t] = clients[slot[t]].socket_fd]
    /\ clients_mutex' = None
    /\ pc' = [pc EXCEPT ![t] = "hdr"]
    /\ UNCHANGED <<registry, net, ident, delivery, msg, slot, remaining, nreq>>

\* The send_mutex becomes free; read the descriptor, release clients_mutex
\* and start to write.
LockSend(t) ==
    /\ pc[t] = "wait"
    /\ send_mutex[slot[t]] = None
    /\ send_mutex' = [send_mutex EXCEPT ![slot[t]] = t]
    /\ wfd' = [wfd EXCEPT ![t] = clients[slot[t]].socket_fd]
    /\ clients_mutex' = None
    /\ pc' = [pc EXCEPT ![t] = "hdr"]
    /\ UNCHANGED <<registry, net, ident, delivery, msg, slot, remaining, nreq>>

\* Mutant of FinishSend: the error path does not unlock.
FinishSendLeaking(t, r) ==
    /\ send_mutex' = IF slot[t] = None \/ r # 0 THEN send_mutex
                     ELSE [send_mutex EXCEPT ![slot[t]] = None]
    /\ slot' = [slot EXCEPT ![t] = None]
    /\ wfd' = [wfd EXCEPT ![t] = None]
    /\ SendReturns(t, r)

\* The write is over: release the send_mutex, if any, and return r.
FinishSend(t, r) ==
    /\ send_mutex' = IF slot[t] = None THEN send_mutex
                     ELSE [send_mutex EXCEPT ![slot[t]] = None]
    /\ slot' = [slot EXCEPT ![t] = None]
    /\ wfd' = [wfd EXCEPT ![t] = None]
    /\ SendReturns(t, r)

\* send() on the descriptor makes progress: the kernel accepts the bytes of
\* an open connection whose peer reads, or has closed without a reset yet.
Accepts(t) == sock[wfd[t]] # None /\ link[sock[wfd[t]]] \in {"up", "gone"}

WriteHeader(t) ==
    /\ pc[t] = "hdr"
    /\ Accepts(t)
    /\ expect' = [expect EXCEPT ![sock[wfd[t]]] = AfterHeader(@)]
    /\ pc' = [pc EXCEPT ![t] = "pay"]
    /\ UNCHANGED <<registry, mutexes, sock, link, wire, ident, delivery, msg,
                   slot, wfd, remaining, nreq>>

WritePayload(t) ==
    /\ pc[t] = "pay"
    /\ Accepts(t)
    /\ expect' = [expect EXCEPT ![sock[wfd[t]]] = AfterPayload(@, msg[t])]
    /\ wire' = [wire EXCEPT ![sock[wfd[t]]] = Append(@, msg[t])]
    /\ \/ /\ msg[t].type = "DOWNLOAD_READY" /\ msg[t].arg > 0
          /\ pc' = [pc EXCEPT ![t] = "raw"]
          /\ remaining' = [remaining EXCEPT ![t] = msg[t].arg]
          /\ UNCHANGED <<send_mutex, delivery, msg, slot, wfd, nreq>>
       \/ /\ ~(msg[t].type = "DOWNLOAD_READY" /\ msg[t].arg > 0)
          /\ FinishSend(t, 0)
          /\ remaining' = remaining
    /\ UNCHANGED <<registry, clients_mutex, sock, link, ident>>

\* One block of file data.
WriteRaw(t) ==
    /\ pc[t] = "raw"
    /\ Accepts(t)
    /\ expect' = [expect EXCEPT ![sock[wfd[t]]] = AfterRaw(@)]
    /\ remaining' = [remaining EXCEPT ![t] = @ - 1]
    /\ \/ /\ remaining[t] > 1
          /\ UNCHANGED <<send_mutex, delivery, pc, msg, slot, wfd, nreq>>
       \/ /\ remaining[t] = 1
          /\ FinishSend(t, 0)
    /\ UNCHANGED <<registry, clients_mutex, sock, link, wire, ident>>

\* send() fails: the peer is gone, or the descriptor is closed.  From then on
\* every send() on the connection fails.
WriteFail(t) ==
    /\ Writing(t)
    /\ sock[wfd[t]] # None => link[sock[wfd[t]]] \in {"gone", "broken"}
    /\ link' = [c \in Conns |-> IF c = sock[wfd[t]] THEN "broken" ELSE link[c]]
    /\ remaining' = [remaining EXCEPT ![t] = 0]
    /\ FinishSend(t, -1)
    /\ UNCHANGED <<registry, clients_mutex, sock, expect, wire, ident>>

\* read() of the file fails or ends early in the middle of the raw data.
ReadFail(t) ==
    /\ ReadErrors
    /\ pc[t] = "raw"
    /\ remaining' = [remaining EXCEPT ![t] = 0]
    /\ FinishSend(t, -1)
    /\ UNCHANGED <<registry, clients_mutex, net, ident>>

-----------------------------------------------------------------------------
(* Login.                                                                  *)

\* A connection is accepted and its thread sends USERNAME_REQUIRED.
Accept(t, f) ==
    /\ pc[t] = "new"
    /\ sock[f] = None
    /\ sock' = [sock EXCEPT ![f] = t]
    /\ link' = [link EXCEPT ![t] = "up"]
    /\ fd' = [fd EXCEPT ![t] = f]
    /\ wfd' = [wfd EXCEPT ![t] = f]
    /\ msg' = [msg EXCEPT ![t] = Frame("USERNAME_REQUIRED", t, 0, None, 0)]
    /\ pc' = [pc EXCEPT ![t] = "hdr"]
    /\ UNCHANGED <<registry, mutexes, expect, wire, name, cid, delivery, slot,
                   remaining, nreq>>

\* perform_login answers on the bare socket and gives up.
Reject(t, kind) ==
    /\ msg' = [msg EXCEPT ![t] = Frame(kind, t, 0, None, 0)]
    /\ wfd' = [wfd EXCEPT ![t] = fd[t]]
    /\ pc' = [pc EXCEPT ![t] = "hdr"]

\* The first message is not a login, or its username is not valid.
RejectLogin(t) ==
    /\ pc[t] = "login"
    /\ link[t] # "broken"
    /\ Reject(t, "LOGIN_REJECTED")
    /\ UNCHANGED <<registry, mutexes, net, ident, delivery, slot, remaining, nreq>>

\* The entry client_manager_add writes.
NewEntry(t, u) ==
    [active |-> TRUE, socket_fd |-> fd[t],
     client_id |-> next_client_id, username |-> u]

\* A login with a valid username: client_manager_add checks the name, takes
\* the first free slot and a new id in one critical section, and perform_login
\* acts on the int it returns.
client_manager_add(t, u) ==
    /\ pc[t] = "login"
    /\ link[t] # "broken"
    /\ clients_mutex = None
    /\ name' = [name EXCEPT ![t] = u]
    /\ \/ /\ UsernameSlots(u) # {}
          /\ cid' = [cid EXCEPT ![t] = -2]
          /\ Reject(t, "USERNAME_ALREADY_EXISTS")
          /\ UNCHANGED registry
       \/ /\ UsernameSlots(u) = {} /\ FreeSlots = {}
          /\ cid' = [cid EXCEPT ![t] = -1]
          /\ Reject(t, "SERVER_CLIENT_LIMIT")
          /\ UNCHANGED registry
       \/ \E s \in Slots :
          /\ UsernameSlots(u) = {} /\ IsFirst(s, FreeSlots)
          /\ next_client_id <= MaxLogins
          /\ clients' = [clients EXCEPT ![s] = NewEntry(t, u)]
          /\ next_client_id' = Succ(next_client_id)
          /\ cid' = [cid EXCEPT ![t] = Signed(next_client_id)]
          /\ \/ /\ Signed(next_client_id) = -2
                /\ Reject(t, "USERNAME_ALREADY_EXISTS")
             \/ /\ Signed(next_client_id) < 0 /\ Signed(next_client_id) # -2
                /\ Reject(t, "SERVER_CLIENT_LIMIT")
             \/ /\ Signed(next_client_id) >= 0
                /\ msg' = [msg EXCEPT ![t] = Frame("LOGIN_SUCCESS", t, 0, u, 0)]
                /\ pc' = [pc EXCEPT ![t] = "find"]
                /\ wfd' = wfd
    /\ UNCHANGED <<mutexes, net, fd, delivery, slot, remaining, nreq>>

-----------------------------------------------------------------------------
(* Requests.                                                               *)

\* The thread receives a request of the kind.
Receive(t, kind) ==
    /\ kind \in Requests
    /\ pc[t] = "idle"
    /\ link[t] # "broken"
    /\ nreq < MaxRequests
    /\ nreq' = nreq + 1

\* client_manager_broadcast: the identities of the other clients.
BroadcastTargets(t) ==
    {[slot |-> s, id |-> clients[s].client_id] :
        s \in {r \in Slots : clients[r].active /\ clients[r].socket_fd # fd[t]}}

\* MSG_CHAT with a message that fits: the snapshot, then the targets in turn.
HandleChat(t) ==
    /\ Receive(t, "chat")
    /\ clients_mutex = None
    /\ targets' = [targets EXCEPT ![t] = BroadcastTargets(t)]
    /\ todo' = [todo EXCEPT ![t] = BroadcastTargets(t)]
    /\ \/ /\ BroadcastTargets(t) = {}
          /\ Reply(t, "MESSAGE_DELIVERED", nreq', 0)
       \/ /\ BroadcastTargets(t) # {}
          /\ msg' = [msg EXCEPT ![t] = Frame("BROADCAST", t, nreq', None, 0)]
          /\ pc' = [pc EXCEPT ![t] = "target"]
    /\ UNCHANGED <<registry, mutexes, net, ident, successful, slot, wfd, remaining>>

\* MSG_PRIVATE to another user: client_manager_send_to_username resolves the
\* name to a slot and an id under clients_mutex, and sends after releasing it.
HandlePrivate(t, u) ==
    /\ Receive(t, "private")
    /\ u # name[t]
    /\ clients_mutex = None
    /\ \/ /\ UsernameSlots(u) = {}
          /\ Reply(t, "USER_NOT_FOUND", nreq', 0)
          /\ UNCHANGED delivery
       \/ \E s \in Slots :
          /\ IsFirst(s, UsernameSlots(u))
          /\ LET g == {[slot |-> s, id |-> clients[s].client_id]} IN
             /\ targets' = [targets EXCEPT ![t] = g]
             /\ todo' = [todo EXCEPT ![t] = g]
          /\ msg' = [msg EXCEPT ![t] = Frame("PRIVATE", t, nreq', u, 0)]
          /\ pc' = [pc EXCEPT ![t] = "target"]
          /\ successful' = successful
    /\ UNCHANGED <<registry, mutexes, net, ident, slot, wfd, remaining>>

\* Requests answered by one frame whose send result is ignored: the user
\* list, and every error of the switch.
HandleReply(t) ==
    /\ Receive(t, "reply")
    /\ Reply(t, "REPLY", nreq', 0)
    /\ UNCHANGED <<registry, mutexes, net, ident, delivery, slot, wfd, remaining>>

\* A frame of a file request; when it cannot be sent the connection ends.
HandleFile(t) ==
    /\ Receive(t, "file")
    /\ Reply(t, "FILE_REPLY", nreq', 0)
    /\ UNCHANGED <<registry, mutexes, net, ident, delivery, slot, wfd, remaining>>

\* MSG_FILE_DOWNLOAD of a file of n blocks.
HandleDownload(t, n) ==
    /\ Receive(t, "download")
    /\ Reply(t, "DOWNLOAD_READY", nreq', n)
    /\ UNCHANGED <<registry, mutexes, net, ident, delivery, slot, wfd, remaining>>

\* MSG_DISCONNECT.
HandleQuit(t) ==
    /\ Receive(t, "quit")
    /\ Reply(t, "GOODBYE", nreq', 0)
    /\ UNCHANGED <<registry, mutexes, net, ident, delivery, slot, wfd, remaining>>

\* Mutant of ReceiveFails: the entry is not removed before the close.
ReceiveFailsNoRemove(t) ==
    /\ pc[t] \in {"login", "idle"}
    /\ pc' = [pc EXCEPT ![t] = "close"]
    /\ UNCHANGED <<registry, mutexes, net, ident, delivery, msg, slot, wfd,
                   remaining, nreq>>

\* receive_message fails: end of stream, a reset, or a malformed header.
ReceiveFails(t) ==
    /\ pc[t] \in {"login", "idle"}
    /\ pc' = [pc EXCEPT ![t] = IF pc[t] = "idle" THEN "remove" ELSE "close"]
    /\ UNCHANGED <<registry, mutexes, net, ident, delivery, msg, slot, wfd,
                   remaining, nreq>>

-----------------------------------------------------------------------------
(* Teardown.                                                               *)

client_manager_remove(t) ==
    /\ pc[t] = "remove"
    /\ clients_mutex = None
    /\ \/ /\ SocketSlots(fd[t]) = {}
          /\ pc' = [pc EXCEPT ![t] = "close"]
          /\ UNCHANGED <<clients_mutex, slot>>
       \/ \E s \in Slots :
          /\ IsFirst(s, SocketSlots(fd[t]))
          /\ slot' = [slot EXCEPT ![t] = s]
          /\ clients_mutex' = t
          /\ pc' = [pc EXCEPT ![t] = "rmwait"]
    /\ UNCHANGED <<registry, send_mutex, net, ident, delivery, msg, wfd,
                   remaining, nreq>>

\* Mutant of Cleared: socket_fd is not reset to -1.
ClearedButSocket(e) == [EmptyEntry EXCEPT !.socket_fd = e.socket_fd]

\* What client_manager_remove makes of entry e: every field is reset.
Cleared(e) == EmptyEntry

\* Mutant of RemoveClear: clients_mutex is not released.
RemoveClearKeepsMutex(t) ==
    /\ pc[t] = "rmwait"
    /\ send_mutex[slot[t]] = None
    /\ send_mutex' = [send_mutex EXCEPT ![slot[t]] = t]
    /\ clients' = [clients EXCEPT ![slot[t]] = Cleared(@)]
    /\ pc' = [pc EXCEPT ![t] = "rmunlock"]
    /\ UNCHANGED <<clients_mutex, next_client_id, net, ident, delivery, msg, slot,
                   wfd, remaining, nreq>>

\* No send to the client is in progress: clear the entry, release
\* clients_mutex ...
RemoveClear(t) ==
    /\ pc[t] = "rmwait"
    /\ send_mutex[slot[t]] = None
    /\ send_mutex' = [send_mutex EXCEPT ![slot[t]] = t]
    /\ clients' = [clients EXCEPT ![slot[t]] = Cleared(@)]
    /\ clients_mutex' = None
    /\ pc' = [pc EXCEPT ![t] = "rmunlock"]
    /\ UNCHANGED <<next_client_id, net, ident, delivery, msg, slot, wfd,
                   remaining, nreq>>

\* ... and then the send_mutex.
RemoveUnlock(t) ==
    /\ pc[t] = "rmunlock"
    /\ send_mutex' = [send_mutex EXCEPT ![slot[t]] = None]
    /\ slot' = [slot EXCEPT ![t] = None]
    /\ pc' = [pc EXCEPT ![t] = "close"]
    /\ UNCHANGED <<registry, clients_mutex, net, ident, delivery, msg, wfd,
                   remaining, nreq>>

Close(t) ==
    /\ pc[t] = "close"
    /\ sock' = [sock EXCEPT ![fd[t]] = None]
    /\ pc' = [pc EXCEPT ![t] = "done"]
    /\ UNCHANGED <<registry, mutexes, link, expect, wire, ident, delivery, msg,
                   slot, wfd, remaining, nreq>>

-----------------------------------------------------------------------------
(* The peers.                                                              *)

SetLink(c, l) ==
    /\ link' = [link EXCEPT ![c] = l]
    /\ UNCHANGED <<registry, mutexes, sock, expect, wire, ident, delivery, pc,
                   msg, slot, wfd, remaining, nreq>>

MayFail(c) == Cardinality({d \in Conns \ {c} : link[d] # "up"}) < MaxFailures

\* The client closes or resets the connection: recv() and send() learn it.  A
\* peer that goes silently is a stalled one, since the code sets no timeout
\* and no SO_KEEPALIVE.
PeerLeaves(c) ==
    /\ pc[c] \notin {"new", "done"}
    /\ link[c] \in {"up", "stalled"}
    /\ MayFail(c)
    /\ SetLink(c, "gone")

\* The client stops reading and its buffers fill: send() to it blocks.
PeerStalls(c) ==
    /\ Stalls
    /\ pc[c] \notin {"new", "done"}
    /\ link[c] = "up"
    /\ MayFail(c)
    /\ SetLink(c, "stalled")

PeerResumes(c) ==
    /\ link[c] = "stalled"
    /\ SetLink(c, "up")

-----------------------------------------------------------------------------
Init ==
    /\ clients = [s \in Slots |-> EmptyEntry]
    /\ clients_mutex = None
    /\ send_mutex = [s \in Slots |-> None]
    /\ next_client_id = 1
    /\ sock = [f \in Fds |-> None]
    /\ link = [c \in Conns |-> "up"]
    /\ expect = [c \in Conns |-> AtHeader]
    /\ wire = [c \in Conns |-> <<>>]
    /\ pc = [c \in Conns |-> "new"]
    /\ fd = [c \in Conns |-> None]
    /\ name = [c \in Conns |-> None]
    /\ cid = [c \in Conns |-> 0]
    /\ msg = [c \in Conns |-> NoMsg]
    /\ slot = [c \in Conns |-> None]
    /\ wfd = [c \in Conns |-> None]
    /\ targets = [c \in Conns |-> {}]
    /\ todo = [c \in Conns |-> {}]
    /\ successful = [c \in Conns |-> 0]
    /\ remaining = [c \in Conns |-> 0]
    /\ nreq = 0

\* What the client or the network decides.
Environment(t) ==
    \/ \E f \in Fds : Accept(t, f)
    \/ RejectLogin(t)
    \/ \E u \in Users : client_manager_add(t, u)
    \/ HandleChat(t)
    \/ \E u \in Users : HandlePrivate(t, u)
    \/ HandleReply(t)
    \/ HandleFile(t)
    \/ \E n \in 0 .. MaxBlocks : HandleDownload(t, n)
    \/ HandleQuit(t)
    \/ ReceiveFails(t)
    \/ PeerLeaves(t)
    \/ PeerStalls(t)
    \/ PeerResumes(t)

\* What the thread does by itself.
Thread(t) ==
    \/ client_manager_send(t)
    \/ client_manager_send_file_stream(t)
    \/ send_to_target(t)
    \/ LockSend(t)
    \/ WriteHeader(t)
    \/ WritePayload(t)
    \/ WriteRaw(t)
    \/ WriteFail(t)
    \/ ReadFail(t)
    \/ client_manager_remove(t)
    \/ RemoveClear(t)
    \/ RemoveUnlock(t)
    \/ Close(t)

\* Every connection has come and gone: the end of a bounded behaviour.
Finished == (\A t \in Conns : pc[t] = "done") /\ UNCHANGED vars

Next == (\E t \in Conns : Environment(t) \/ Thread(t)) \/ Finished

Spec == Init /\ [][Next]_vars

\* A thread that can run eventually runs, and a thread that waits for input
\* from a peer that is gone eventually learns it.
Fairness ==
    \A t \in Conns :
        /\ WF_vars(Thread(t))
        /\ WF_vars(link[t] \in {"gone", "broken"} /\ ReceiveFails(t))

FairSpec == Spec /\ Fairness

-----------------------------------------------------------------------------
(* Properties.                                                             *)

RegistryType ==
    /\ clients \in [Slots -> Entry]
    /\ next_client_id \in 0 .. UIntMax

MutexType ==
    /\ clients_mutex \in Conns \union {None}
    /\ send_mutex \in [Slots -> Conns \union {None}]

NetType ==
    /\ sock \in [Fds -> Conns \union {None}]
    /\ link \in [Conns -> {"up", "stalled", "gone", "broken"}]
    /\ expect \in [Conns -> ParserStates]
    /\ wire \in [Conns -> Seq(Frames)]

IdentType ==
    /\ fd \in [Conns -> Fds \union {None}]
    /\ name \in [Conns -> Users \union {None}]
    /\ cid \in [Conns -> Int]

DeliveryType ==
    /\ targets \in [Conns -> SUBSET Target]
    /\ todo \in [Conns -> SUBSET Target]
    /\ successful \in [Conns -> Nat]

CallType ==
    /\ pc \in [Conns -> Pcs]
    /\ msg \in [Conns -> Frames]
    /\ slot \in [Conns -> Slots \union {None}]
    /\ wfd \in [Conns -> Fds \union {None}]
    /\ remaining \in [Conns -> Nat]
    /\ nreq \in Nat

\* Type invariant of the registry, the locks, the kernel and the threads; the
\* id counter is an unsigned int that wraps (client_manager_add).
TypeOK ==
    /\ RegistryType
    /\ MutexType
    /\ NetType
    /\ IdentType
    /\ DeliveryType
    /\ CallType

\* The thread has been given a client id and has not yet cleared its entry.
Registered(c) == cid[c] > 0 /\ pc[c] \notin {"rmunlock", "close", "done"}

\* No two logged-in connections have the same username: the test of the name
\* and the insertion of client_manager_add are one critical section, and an
\* entry is cleared only by its own thread.
NamesUnique ==
    \A c, d \in Conns :
        Registered(c) /\ Registered(d) /\ name[c] = name[d] => c = d

\* Entry s of the registry is that of connection c.
EntryOf(s, c) ==
    clients[s] = [active |-> TRUE, socket_fd |-> fd[c],
                  client_id |-> cid[c], username |-> name[c]]

\* The registry is exactly the set of logged-in connections: an active entry
\* has the open descriptor, the id and the name of a live thread, and every
\* logged-in thread has one entry.  In particular no entry outlives the
\* close() of its descriptor, which accept() may hand to another client.
RegistryConsistent ==
    /\ \A s \in Slots : clients[s].active =>
          \E c \in Conns : /\ Registered(c) /\ EntryOf(s, c)
                           /\ sock[clients[s].socket_fd] = c
    /\ \A c \in Conns : Registered(c) => \E s \in Slots : EntryOf(s, c)

\* A thread in the middle of a write writes to an open descriptor of the very
\* connection it means: its own, or the one whose client id the snapshot
\* recorded, although descriptors and slots are reused all the time.
WritesGoToAddressee ==
    \A t \in Conns : Writing(t) =>
        LET c == sock[wfd[t]] IN
        /\ c # None
        /\ IF msg[t].type \in TargetKinds
           THEN \E g \in todo[t] : IsCurrent(t, g) /\ cid[c] = g.id
           ELSE c = t

\* The frames and the raw file data of a connection are never interleaved:
\* the client's parser never meets a chunk of something else.
FramesWhole == \A c \in Conns : expect[c].at # "desync"

\* Frame f is the chat or private message number n of connection t.
IsMessage(f, kind, t, n) == f.type = kind /\ f.from = t /\ f.num = n

\* The connections a message was completely written to.
Recipients(kind, t, n) ==
    {c \in Conns : \E i \in DOMAIN wire[c] : IsMessage(wire[c][i], kind, t, n)}

\* A client sees the messages of any one sender in the order they were sent,
\* none of them twice.
BroadcastOrder ==
    \A c \in Conns : \A i, j \in DOMAIN wire[c] :
        /\ i < j
        /\ wire[c][i].type \in TargetKinds /\ wire[c][j].type \in TargetKinds
        /\ wire[c][i].from = wire[c][j].from
        => wire[c][i].num < wire[c][j].num

\* A broadcast that is over has been written to every client of its snapshot
\* that is still logged in, except those whose connection failed: neither a
\* failed send nor a client that left stops the loop.
BroadcastComplete ==
    \A t \in Conns : msg[t].type = "MESSAGE_DELIVERED" =>
        \A g \in targets[t] : \A c \in Conns :
            /\ Registered(c)
            /\ cid[c] = g.id
            /\ link[c] # "broken"
            => c \in Recipients("BROADCAST", t, msg[t].num)

\* MESSAGE_DELIVERED n tells the sender how many clients its message was
\* written to, although clients come and go during the broadcast.
DeliveredCount ==
    \A t \in Conns : \A i \in DOMAIN wire[t] :
        wire[t][i].type = "MESSAGE_DELIVERED" =>
            wire[t][i].arg = Cardinality(Recipients("BROADCAST", t, wire[t][i].num))

\* A private message reaches only the user it names, and the sender is told
\* that it was delivered exactly when it was.
PrivateOutcome ==
    \A c \in Conns : \A i \in DOMAIN wire[c] :
        LET f == wire[c][i]
            reached == Recipients("PRIVATE", c, f.num)
        IN  /\ f.type = "PRIVATE" => f.to = name[c] /\ f.from # c
            /\ f.type = "PRIVATE_MESSAGE_DELIVERED" => reached # {}
            /\ f.type \in {"USER_NOT_FOUND", "PRIVATE_MESSAGE_FAILED"} =>
                  reached = {}

\* Until the id counter passes INT_MAX, SERVER_CLIENT_LIMIT is answered only
\* when MAX_CLIENTS connections are logged in: no slot stays taken by a client
\* that has left.
LimitMeansFull ==
    [][\A t \in Conns :
          /\ msg'[t].type = "SERVER_CLIENT_LIMIT" /\ msg[t] # msg'[t]
          /\ next_client_id' <= IntMax + 1
          =>
              Cardinality({c \in Conns : Registered(c)}) = MaxClients]_vars

\* The first frame after USERNAME_REQUIRED is the result of the login, which
\* is what the client waits for.
LoginResultFirst ==
    \A c \in Conns : Len(wire[c]) >= 2 =>
        wire[c][2].type \in LoginErrors \union {"LOGIN_SUCCESS"}

\* A thread that takes clients_mutex gives it back: it is not held during
\* network I/O that may block.
RegistryMutexReleased ==
    \A t \in Conns : clients_mutex = t ~> clients_mutex # t

\* Every request is answered or the connection ends: the thread comes back
\* to its receive loop.
RequestsEnd ==
    \A t \in Conns :
        pc[t] \notin {"new", "done"} ~> pc[t] \in {"login", "idle", "done"}

\* A client that has closed or reset its connection is eventually removed from
\* the registry and its thread ends, whatever sends to it are pending.
Teardown ==
    \A t \in Conns :
        (pc[t] # "new" /\ link[t] \in {"gone", "broken"}) ~> pc[t] = "done"
=============================================================================
