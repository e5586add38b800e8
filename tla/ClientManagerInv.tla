--------------------------- MODULE ClientManagerInv ---------------------------
(***************************************************************************)
(* The inductive invariants behind the theorems of ClientManagerProofs.    *)
(* TLC checks them on small instances, TLAPS proves them in general.       *)
(***************************************************************************)
EXTENDS ClientManager

\* Fewer than 2^31 clients have logged in: no client id has become negative.
NoOverflow == MaxLogins <= IntMax

-----------------------------------------------------------------------------
(* Type correctness needs two facts besides TypeOK.                        *)

SlotsResolved ==
    \A t \in Conns : pc[t] \in {"wait", "rmwait", "rmunlock"} => slot[t] \in Slots

RawPending ==
    \A c \in Conns : expect[c].at = "raw" => expect[c].left > 0

TypeInv == TypeOK /\ SlotsResolved /\ RawPending

-----------------------------------------------------------------------------
(* Who holds which mutex follows from where the threads are.               *)

Holding(t) == pc[t] \in {"hdr", "pay", "raw", "rmunlock"}

MutexInv ==
    /\ \A t \in Conns : clients_mutex = t <=> pc[t] \in {"wait", "rmwait"}
    /\ \A t \in Conns, s \in Slots :
          send_mutex[s] = t <=> slot[t] = s /\ Holding(t)

(* A thread between accept() and close() owns its descriptor.              *)

Open(c) == pc[c] \notin {"new", "done"}

SocketInv ==
    /\ \A c \in Conns : Open(c) => fd[c] \in Fds /\ sock[fd[c]] = c
    /\ \A f \in Fds, c \in Conns : sock[f] = c => fd[c] = f /\ Open(c)

(* Client ids are not reused.                                              *)

IdInv ==
    /\ next_client_id \in 1 .. MaxLogins + 1
    /\ \A c \in Conns : cid[c] < next_client_id
    /\ \A c, d \in Conns : cid[c] > 0 /\ cid[c] = cid[d] => c = d

(* The registry is the set of logged-in connections.                       *)

EntryInv ==
    /\ \A s \in Slots : ~clients[s].active => clients[s] = EmptyEntry
    /\ \A s \in Slots : clients[s].active =>
          /\ clients[s].socket_fd \in Fds
          /\ sock[clients[s].socket_fd] \in Conns
          /\ Registered(sock[clients[s].socket_fd])
          /\ EntryOf(s, sock[clients[s].socket_fd])
    /\ \A c \in Conns : Registered(c) => \E s \in Slots : EntryOf(s, c)
    /\ \A r, s \in Slots :
          clients[r].active /\ clients[s].active
          /\ clients[r].username = clients[s].username => r = s

(* What a thread knows at each place.                                      *)

PlaceInv ==
    \A t \in Conns :
        /\ pc[t] \in {"new", "login"} => cid[t] <= 0
        /\ pc[t] \in {"idle", "find", "target", "wait", "remove", "rmwait"} =>
              cid[t] > 0
        /\ pc[t] = "find" => msg[t].type \in OwnKinds
        /\ pc[t] = "target" => msg[t].type \in TargetKinds
        /\ pc[t] = "wait" => msg[t].type \in OwnKinds \union TargetKinds
        /\ pc[t] \in {"wait", "rmwait", "rmunlock"} => slot[t] \in Slots
        /\ ~Holding(t) /\ pc[t] \notin {"wait", "rmwait"} => slot[t] = None
        /\ Writing(t) /\ slot[t] = None =>
              msg[t].type \in RawKinds /\ wfd[t] = fd[t] /\ cid[t] <= 0
        /\ Writing(t) /\ slot[t] # None =>
              msg[t].type \in OwnKinds \union TargetKinds /\ cid[t] > 0

(* The entry a thread has resolved stays that of the client it means.      *)

HeldInv ==
    \A t \in Conns : slot[t] # None /\ pc[t] # "rmunlock" =>
        /\ clients[slot[t]].active
        /\ pc[t] = "rmwait" \/ msg[t].type \in OwnKinds =>
              clients[slot[t]].socket_fd = fd[t]
        /\ pc[t] # "rmwait" /\ msg[t].type \in TargetKinds =>
              \E g \in todo[t] : /\ IsCurrent(t, g) /\ g.slot = slot[t]
                                 /\ g.id = clients[slot[t]].client_id
        /\ Writing(t) => wfd[t] = clients[slot[t]].socket_fd

\* The inductive invariant of the registry, under NoOverflow: who holds which
\* mutex, which connection each entry and descriptor belongs to, and what a
\* thread knows of the slot it has resolved (client_manager.c).
RegistryInv ==
    /\ MutexInv
    /\ SocketInv
    /\ IdInv
    /\ EntryInv
    /\ PlaceInv
    /\ HeldInv

-----------------------------------------------------------------------------
(* The streams.                                                            *)

WritesTo(t, c) == Writing(t) /\ sock[wfd[t]] = c

\* What the client expects while t writes to it.
Expected(t) ==
    CASE pc[t] = "hdr" -> AtHeader
      [] pc[t] = "pay" -> [at |-> "payload", left |-> 0]
      [] OTHER -> [at |-> "raw", left |-> remaining[t]]

\* The inductive invariant of the streams, if reading files never fails: the
\* client of a connection that has not failed expects just what the writer,
\* if there is one, writes next (send_message_raw and the raw loop of
\* client_manager_send_file_stream).
StreamInv ==
    /\ \A c \in Conns : pc[c] = "new" => link[c] = "up"
    /\ \A t \in Conns : pc[t] = "raw" => remaining[t] > 0
    /\ FramesWhole
    /\ \A t, c \in Conns :
          WritesTo(t, c) /\ link[c] # "broken" => expect[c] = Expected(t)
    /\ \A c \in Conns :
          link[c] # "broken" /\ (\A t \in Conns : ~WritesTo(t, c)) =>
              expect[c] = AtHeader

-----------------------------------------------------------------------------
(* The messages.                                                           *)

\* Frame f is a message of t with number n.
IsFrom(f, t, n) == f.type \in TargetKinds /\ f.from = t /\ f.num = n

Chat == {"BROADCAST", "MESSAGE_DELIVERED"}

\* What a thread sends at each place.
SendingInv ==
    \A t \in Conns :
        /\ pc[t] \notin {"find", "target", "wait", "hdr", "pay", "raw"} =>
              msg[t].type = "NONE"
        /\ pc[t] = "raw" => msg[t].type = "DOWNLOAD_READY"
        /\ msg[t].type # "NONE" => msg[t].from = t
        /\ msg[t].num <= nreq
        /\ msg[t].type \notin Chat => successful[t] = 0
        /\ msg[t].type \notin TargetKinds => todo[t] = {}

\* Numbers only grow: what a thread is sending is newer than its answers, and
\* as new as its messages.
WireInv ==
    \A c \in Conns : \A i \in DOMAIN wire[c] :
        /\ wire[c][i].num <= nreq
        /\ wire[c][i].type \in TargetKinds => cid[c] > 0
        /\ \A t \in Conns :
              /\ msg[t].type \in TargetKinds
              /\ wire[c][i].type \in TargetKinds /\ wire[c][i].from = t
              => wire[c][i].num <= msg[t].num
        /\ wire[c][i].type \in OwnKinds /\ msg[c].type \in TargetKinds =>
              wire[c][i].num < msg[c].num

\* A snapshot names clients by ids and by the slots they keep.
SnapshotInv ==
    \A t \in Conns :
        /\ todo[t] \subseteq targets[t]
        /\ \A g \in targets[t] : g.id > 0 /\ g.id < next_client_id
        /\ \A g, h \in targets[t] : g.id = h.id \/ g.slot = h.slot => g = h
        /\ \A g \in targets[t], c \in Conns :
              Registered(c) /\ cid[c] = g.id => EntryOf(g.slot, c)
        /\ msg[t].type = "PRIVATE" =>
              /\ todo[t] = targets[t]
              /\ \A g \in targets[t], c \in Conns :
                    cid[c] = g.id => name[c] = msg[t].to /\ c # t

\* Whoever has the message that t is sending is a target that was served ...
ServedInv ==
    \A t \in Conns : msg[t].type \in TargetKinds =>
        \A c \in Conns : \A i \in DOMAIN wire[c] :
            IsFrom(wire[c][i], t, msg[t].num) =>
                /\ wire[c][i].type = msg[t].type
                /\ \E g \in targets[t] \ todo[t] : cid[c] = g.id

\* ... and a target that was served has the message, if it still can.
CompleteInv ==
    \A t \in Conns : msg[t].type \in Chat =>
        \A g \in targets[t] \ todo[t], c \in Conns :
            Registered(c) /\ cid[c] = g.id /\ link[c] # "broken" =>
                c \in Recipients("BROADCAST", t, msg[t].num)

\* The sends that succeeded are the recipients.
CountInv ==
    \A t \in Conns :
        /\ msg[t].type = "BROADCAST" =>
              /\ IsFiniteSet(Recipients("BROADCAST", t, msg[t].num))
              /\ successful[t] = Cardinality(Recipients("BROADCAST", t, msg[t].num))
        /\ msg[t].type = "MESSAGE_DELIVERED" =>
              msg[t].arg = Cardinality(Recipients("BROADCAST", t, msg[t].num))

\* What a thread is about to report of its private message.
OutcomeInv ==
    \A t \in Conns :
        /\ msg[t].type = "PRIVATE_MESSAGE_DELIVERED" =>
              Recipients("PRIVATE", t, msg[t].num) # {}
        /\ msg[t].type \in {"USER_NOT_FOUND", "PRIVATE_MESSAGE_FAILED"} =>
              Recipients("PRIVATE", t, msg[t].num) = {}

\* The inductive invariant of the messages, on top of RegistryInv.
MessageInv ==
    /\ SendingInv
    /\ WireInv
    /\ SnapshotInv
    /\ ServedInv
    /\ CompleteInv
    /\ CountInv
    /\ OutcomeInv
    /\ BroadcastOrder
    /\ DeliveredCount
    /\ PrivateOutcome
=============================================================================
