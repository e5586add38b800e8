-------------------------- MODULE ClientMessageProofs --------------------------
EXTENDS ClientManagerProofs

(***************************************************************************)
(* Proofs about chat and private messages: who gets them, in which order,  *)
(* and what the sender is told.  A step is first summarised by what it     *)
(* does to the registry, to the wire and to the message of its thread;     *)
(* each part of MessageInv then follows from the summary.                  *)
(***************************************************************************)

\* What the type invariant says of the variables of messages.
LEMMA MessageShapes ==
  ASSUME TypeInv
  PROVE  /\ pc \in [Conns -> Pcs] /\ msg \in [Conns -> Frames]
         /\ wire \in [Conns -> Seq(Frames)]
         /\ targets \in [Conns -> SUBSET Target] /\ todo \in [Conns -> SUBSET Target]
         /\ successful \in [Conns -> Nat]
         /\ cid \in [Conns -> Int] /\ name \in [Conns -> Users \union {None}]
         /\ link \in [Conns -> {"up", "stalled", "gone", "broken"}]
         /\ fd \in [Conns -> Fds \union {None}] /\ clients \in [Slots -> Entry]
         /\ sock \in [Fds -> Conns \union {None}]
         /\ nreq \in Nat /\ next_client_id \in Nat
  BY DEF TypeInv, TypeOK, CallType, NetType, DeliveryType, IdentType, RegistryType, UIntMax

-----------------------------------------------------------------------------
(* The registry in a step.                                                 *)

\* Ids and names of logged-in clients stay, and a new id is a fresh one.
IdsKept ==
    /\ \A c \in Conns : cid[c] > 0 => cid'[c] = cid[c] /\ name'[c] = name[c]
    /\ \A c \in Conns : cid'[c] > 0 => cid'[c] = cid[c] \/ cid'[c] = next_client_id
    /\ next_client_id <= next_client_id' /\ next_client_id' \in Nat

\* A client that stays registered keeps its entry and, once broken, its link.
EntriesKept ==
    /\ \A c \in Conns : Registered(c)' => Registered(c) \/ cid'[c] = next_client_id
    /\ \A c \in Conns, s \in Slots :
          Registered(c) /\ Registered(c)' /\ EntryOf(s, c) => EntryOf(s, c)'
    /\ \A c \in Conns : Registered(c) /\ link[c] = "broken" => link'[c] = "broken"

\* A step that leaves the registry and the logins alone, and does not bring a
\* thread back from its teardown.
LEMMA SameRegistry ==
  ASSUME TypeInv, UNCHANGED <<clients, next_client_id, fd, name, cid>>,
         \A c \in Conns : pc'[c] \notin {"rmunlock", "close", "done"} =>
                          pc[c] \notin {"rmunlock", "close", "done"},
         \A c \in Conns : link[c] = "broken" => link'[c] = "broken"
  PROVE  IdsKept /\ EntriesKept
<1>1. IdsKept
  BY MessageShapes DEF IdsKept
<1>2. EntriesKept
  BY DEF EntriesKept, Registered, EntryOf
<1> QED BY <1>1, <1>2

\* The return of a send does not bring a thread back from its teardown.
LEMMA ReturnsForward ==
  ASSUME TypeInv, NEW t \in Conns, NEW r \in {0, 1, -1}, SendReturns(t, r),
         pc[t] \notin {"rmunlock", "close", "done"}
  PROVE  \A c \in Conns : pc'[c] \notin {"rmunlock", "close", "done"} =>
                          pc[c] \notin {"rmunlock", "close", "done"}
<1> PICK l, m : ReturnsTo(t, l, m)
  BY SendReturnsShape DEF TypeInv
<1> QED BY MessageShapes DEF ReturnsTo

LEMMA RegistrySide ==
  ASSUME NoOverflow, TypeInv, RegistryInv, [Next]_vars
  PROVE  IdsKept /\ EntriesKept
<1> DEFINE Forward == \A c \in Conns : pc'[c] \notin {"rmunlock", "close", "done"} =>
                                       pc[c] \notin {"rmunlock", "close", "done"}
           Broken == \A c \in Conns : link[c] = "broken" => link'[c] = "broken"
           Same == UNCHANGED <<clients, next_client_id, fd, name, cid>>
<1>0. Same /\ Forward /\ Broken => IdsKept /\ EntriesKept
  BY SameRegistry
<1>1. ASSUME NEW t \in Conns, NEW f \in Fds, Accept(t, f) PROVE IdsKept /\ EntriesKept
  <2>1. /\ UNCHANGED <<clients, next_client_id, name, cid>>
        /\ fd' = [fd EXCEPT ![t] = f] /\ link' = [link EXCEPT ![t] = "up"]
        /\ pc' = [pc EXCEPT ![t] = "hdr"] /\ pc[t] = "new"
    BY <1>1 DEF Accept, registry
  <2>2. ~Registered(t) /\ ~Registered(t)'
    BY <2>1, MessageShapes DEF RegistryInv, PlaceInv, Registered
  <2>3. IdsKept
    BY <2>1, MessageShapes DEF IdsKept
  <2>4. EntriesKept
    BY <2>1, <2>2, MessageShapes DEF EntriesKept, Registered, EntryOf
  <2> QED BY <2>3, <2>4
<1>2. ASSUME NEW t \in Conns, NEW u \in Users, client_manager_add(t, u)
      PROVE  IdsKept /\ EntriesKept
  <2>1. /\ pc[t] = "login" /\ cid[t] <= 0 /\ ~Registered(t)
        /\ name' = [name EXCEPT ![t] = u] /\ UNCHANGED <<fd, link>>
    BY <1>2, MessageShapes DEF client_manager_add, RegistryInv, PlaceInv, Registered, net
  <2>2. \A c \in Conns \ {t} : pc'[c] = pc[c] /\ cid'[c] = cid[c] /\ name'[c] = name[c]
    BY <1>2, MessageShapes DEF client_manager_add, Reject
  <2>3. CASE cid'[t] \in {-1, -2} /\ UNCHANGED registry
    <3>1. IdsKept
      BY <2>1, <2>2, <2>3, MessageShapes DEF IdsKept, registry
    <3>2. EntriesKept
      BY <2>1, <2>2, <2>3, MessageShapes DEF EntriesKept, Registered, EntryOf, registry
    <3> QED BY <3>1, <3>2
  <2>4. ASSUME NEW s \in Slots, IsFirst(s, FreeSlots), next_client_id <= MaxLogins,
               clients' = [clients EXCEPT ![s] = NewEntry(t, u)],
               next_client_id' = Succ(next_client_id),
               cid' = [cid EXCEPT ![t] = Signed(next_client_id)]
        PROVE  IdsKept /\ EntriesKept
    <3>1. cid'[t] = next_client_id /\ next_client_id' = next_client_id + 1
      <4>1. next_client_id \in Nat /\ next_client_id <= IntMax
        BY <2>4, MessageShapes, ClientManagerAssumption DEF NoOverflow
      <4>2. next_client_id # UIntMax
        BY <4>1, ClientManagerAssumption DEF UIntMax
      <4> QED BY <2>4, <4>1, <4>2, MessageShapes DEF Signed, Succ
    <3>2. ~clients[s].active
      BY <2>4 DEF IsFirst, FreeSlots
    <3>3. IdsKept
      BY <2>1, <2>2, <3>1, MessageShapes DEF IdsKept
    <3>4. \A c \in Conns : ~EntryOf(s, c)
      BY <3>2 DEF EntryOf
    <3>5. \A r \in Slots \ {s} : clients'[r] = clients[r]
      BY <2>4, MessageShapes
    <3>6. EntriesKept
      BY <2>1, <2>2, <3>1, <3>4, <3>5, MessageShapes DEF EntriesKept, Registered, EntryOf
    <3> QED BY <3>3, <3>6
  <2>5. CASE \E s \in Slots :
               /\ IsFirst(s, FreeSlots) /\ next_client_id <= MaxLogins
               /\ clients' = [clients EXCEPT ![s] = NewEntry(t, u)]
               /\ next_client_id' = Succ(next_client_id)
               /\ cid' = [cid EXCEPT ![t] = Signed(next_client_id)]
    BY <2>4, <2>5
  <2> QED BY <1>2, <2>3, <2>5, MessageShapes DEF client_manager_add
<1>3. ASSUME NEW t \in Conns, RemoveClear(t) PROVE IdsKept /\ EntriesKept
  <2>1. /\ UNCHANGED <<next_client_id, fd, name, cid, link>>
        /\ pc' = [pc EXCEPT ![t] = "rmunlock"] /\ pc[t] = "rmwait"
        /\ clients' = [clients EXCEPT ![slot[t]] = EmptyEntry]
    BY <1>3 DEF RemoveClear, Cleared, net, ident
  <2>2. slot[t] \in Slots /\ clients[slot[t]].socket_fd = fd[t]
    <3>1. slot[t] \in Slots
      BY <2>1 DEF RegistryInv, PlaceInv
    <3>2. slot[t] # None
      BY <3>1, ClientManagerAssumption DEF Slots
    <3> QED BY <2>1, <3>1, <3>2 DEF RegistryInv, HeldInv
  <2>3. ASSUME NEW c \in Conns, Registered(c), EntryOf(slot[t], c) PROVE c = t
    <3>1. fd[c] = fd[t]
      BY <2>2, <2>3 DEF EntryOf
    <3>2. Open(c) /\ Open(t)
      BY <2>1, <2>3, MessageShapes DEF Registered, RegistryInv, PlaceInv, Open
    <3> QED BY <3>1, <3>2 DEF RegistryInv, SocketInv
  <2>4. IdsKept
    BY <2>1, MessageShapes DEF IdsKept
  <2>5. ~Registered(t)'
    BY <2>1, MessageShapes DEF Registered
  <2>6. \A r \in Slots \ {slot[t]} : clients'[r] = clients[r]
    BY <2>1, MessageShapes
  <2>7. \A c \in Conns : Registered(c)' => Registered(c)
    BY <2>1, MessageShapes DEF Registered
  <2>8. \A c \in Conns, s \in Slots :
          Registered(c) /\ Registered(c)' /\ EntryOf(s, c) => EntryOf(s, c)'
    BY <2>1, <2>3, <2>5, <2>6 DEF EntryOf
  <2> QED BY <2>1, <2>4, <2>7, <2>8 DEF EntriesKept
<1>4. ASSUME NEW t \in Conns,
             \/ RejectLogin(t) \/ HandleChat(t) \/ (\E u \in Users : HandlePrivate(t, u))
             \/ HandleReply(t) \/ HandleFile(t)
             \/ (\E n \in 0 .. MaxBlocks : HandleDownload(t, n)) \/ HandleQuit(t)
      PROVE  IdsKept /\ EntriesKept
  <2>1. pc[t] \in {"login", "idle"} /\ \A c \in Conns \ {t} : pc'[c] = pc[c]
    BY <1>4, MessageShapes DEF RejectLogin, HandleChat, HandlePrivate, HandleReply, HandleFile,
       HandleDownload, HandleQuit, Reject, Reply, Receive
  <2>2. Same /\ UNCHANGED link
    BY <1>4 DEF RejectLogin, HandleChat, HandlePrivate, HandleReply, HandleFile, HandleDownload,
       HandleQuit, registry, ident, net
  <2> QED BY <1>0, <2>1, <2>2
<1>5. ASSUME NEW t \in Conns, ReceiveFails(t) \/ PeerLeaves(t) \/ PeerStalls(t) \/ PeerResumes(t)
      PROVE  IdsKept /\ EntriesKept
  <2>1. Same
    BY <1>5 DEF ReceiveFails, PeerLeaves, PeerStalls, PeerResumes, SetLink, registry, ident
  <2>2. Forward
    BY <1>5, MessageShapes DEF ReceiveFails, PeerLeaves, PeerStalls, PeerResumes, SetLink
  <2>3. Broken
    BY <1>5, MessageShapes DEF ReceiveFails, PeerLeaves, PeerStalls, PeerResumes, SetLink, net
  <2> QED BY <1>0, <2>1, <2>2, <2>3
<1>6. ASSUME NEW t \in Conns,
             \/ client_manager_send(t) \/ client_manager_send_file_stream(t) \/ send_to_target(t)
      PROVE  IdsKept /\ EntriesKept
  <2>1. Same /\ UNCHANGED link
    BY <1>6 DEF client_manager_send, client_manager_send_file_stream, send_to_target, SendToSelf,
       registry, ident, net
  <2>2. pc[t] \in {"find", "target"}
    BY <1>6 DEF client_manager_send, client_manager_send_file_stream, send_to_target
  <2>3. \/ \E r \in {0, 1, -1} : SendReturns(t, r)
        \/ pc' = [pc EXCEPT ![t] = "wait"]
    BY <1>6 DEF client_manager_send, client_manager_send_file_stream, send_to_target, SendToSelf
  <2>4. Forward
    BY <2>2, <2>3, ReturnsForward, MessageShapes
  <2> QED BY <1>0, <2>1, <2>4
<1>7. ASSUME NEW t \in Conns, LockSend(t) \/ WriteHeader(t) \/ client_manager_remove(t)
                              \/ RemoveUnlock(t) \/ Close(t)
      PROVE  IdsKept /\ EntriesKept
  <2>1. Same /\ UNCHANGED link
    BY <1>7 DEF LockSend, WriteHeader, client_manager_remove, RemoveUnlock, Close, registry,
       ident, net
  <2>2. Forward
    BY <1>7, MessageShapes DEF LockSend, WriteHeader, client_manager_remove, RemoveUnlock, Close
  <2> QED BY <1>0, <2>1, <2>2
<1>8. ASSUME NEW t \in Conns, WritePayload(t) \/ WriteRaw(t) \/ WriteFail(t) \/ ReadFail(t)
      PROVE  IdsKept /\ EntriesKept
  <2>1. Same /\ Writing(t)
    BY <1>8 DEF WritePayload, WriteRaw, WriteFail, ReadFail, registry, ident, Writing
  <2>2. \/ \E r \in {0, 1, -1} : SendReturns(t, r)
        \/ pc' = [pc EXCEPT ![t] = "raw"] \/ pc' = pc
    BY <1>8 DEF WritePayload, WriteRaw, WriteFail, ReadFail, FinishSend
  <2>3. Forward
    BY <2>1, <2>2, ReturnsForward, MessageShapes DEF Writing
  <2>4. Broken
    BY <1>8 DEF WritePayload, WriteRaw, WriteFail, ReadFail, net
  <2> QED BY <1>0, <2>1, <2>3, <2>4
<1>9. CASE UNCHANGED vars
  <2>1. Same /\ UNCHANGED <<pc, link>>
    BY <1>9 DEF vars, registry, ident, net
  <2> QED BY <1>0, <2>1
<1>10. ASSUME NEW t \in Conns, Environment(t) PROVE IdsKept /\ EntriesKept
  BY <1>1, <1>2, <1>4, <1>5, <1>10 DEF Environment
<1>11. ASSUME NEW t \in Conns, Thread(t) PROVE IdsKept /\ EntriesKept
  BY <1>3, <1>6, <1>7, <1>8, <1>11 DEF Thread
<1> QED BY <1>9, <1>10, <1>11 DEF Next, Finished

-----------------------------------------------------------------------------
(* The message of a thread in a step.                                      *)

Reports == {"MESSAGE_DELIVERED", "PRIVATE_MESSAGE_DELIVERED", "USER_NOT_FOUND",
            "PRIVATE_MESSAGE_FAILED"}

\* Only thread t moves.
OnlyMoves(t) ==
    \A u \in Conns \ {t} :
        /\ pc'[u] = pc[u] /\ msg'[u] = msg[u] /\ targets'[u] = targets[u]
        /\ todo'[u] = todo[u] /\ successful'[u] = successful[u]

\* The thread is where it can send what it has.
Placed(t) ==
    /\ pc'[t] \notin {"find", "target", "wait", "hdr", "pay", "raw"} =>
          msg'[t].type = "NONE"
    /\ pc'[t] = "raw" => msg'[t].type = "DOWNLOAD_READY"

\* The thread goes on with the same message ...
Kept(t) ==
    /\ msg'[t] = msg[t] /\ targets'[t] = targets[t]
    /\ todo'[t] = todo[t] /\ successful'[t] = successful[t]

\* ... or has something else to send, or nothing ...
Quiet(t) ==
    /\ msg[t].type \notin TargetKinds
    /\ msg'[t].type \notin TargetKinds \union Reports
    /\ msg'[t].type # "NONE" => msg'[t].from = t
    /\ msg'[t].num <= nreq'
    /\ targets'[t] \subseteq targets[t] /\ todo'[t] = todo[t]
    /\ successful'[t] = IF msg[t].type = "MESSAGE_DELIVERED" THEN 0 ELSE successful[t]

\* ... or reports its private message, whose send returned r ...
Answered(t, r) ==
    /\ msg[t].type = "PRIVATE"
    /\ msg'[t].type = CASE r = 0 -> "PRIVATE_MESSAGE_DELIVERED"
                        [] r = 1 -> "USER_NOT_FOUND"
                        [] OTHER -> "PRIVATE_MESSAGE_FAILED"
    /\ msg'[t].num = msg[t].num /\ msg'[t].from = t
    /\ todo'[t] = {} /\ targets'[t] = targets[t] /\ successful'[t] = successful[t]

\* ... or goes on to the next target of its broadcast, or reports it.
Advanced(t, r) ==
    /\ msg[t].type = "BROADCAST"
    /\ \/ msg'[t] = msg[t]
       \/ /\ msg'[t].type = "MESSAGE_DELIVERED" /\ msg'[t].num = msg[t].num
          /\ msg'[t].from = t /\ msg'[t].arg = Delivered(t, r) /\ Rest(t) = {}
    /\ todo'[t] = Rest(t) /\ targets'[t] = targets[t]
    /\ successful'[t] = Delivered(t, r)

\* What the caller finds when a send returns.
LEMMA ReturnKinds ==
  ASSUME TypeInv, NEW t \in Conns, NEW r \in {0, 1, -1}, SendReturns(t, r), SendingInv
  PROVE  /\ OnlyMoves(t) /\ Placed(t) /\ nreq' = nreq
         /\ Quiet(t) \/ Answered(t, r) \/ Advanced(t, r)
<1> DEFINE kind == msg[t].type
<1>0. nreq \in Nat /\ NoMsg.num = 0 /\ NoMsg.type = "NONE" /\ nreq' = nreq
  BY MessageShapes DEF NoMsg, Frame, SendReturns
<1>1. ASSUME NEW l, Continue(t, l), UNCHANGED delivery,
             kind \in RawKinds \union {"LOGIN_SUCCESS", "FILE_REPLY", "DOWNLOAD_READY", "GOODBYE"},
             l \in {"login", "close", "remove", "idle"}
      PROVE  OnlyMoves(t) /\ Placed(t) /\ Quiet(t)
  <2>1. msg'[t] = NoMsg /\ pc'[t] = l /\ UNCHANGED <<targets, todo, successful>>
    BY <1>1, MessageShapes DEF Continue, delivery
  <2>2. OnlyMoves(t) /\ Placed(t)
    BY <1>0, <1>1, <2>1, MessageShapes DEF OnlyMoves, Placed, Continue
  <2>3. kind \notin TargetKinds /\ kind # "MESSAGE_DELIVERED"
    BY <1>1 DEF TargetKinds, RawKinds, LoginErrors
  <2> QED BY <1>0, <2>1, <2>2, <2>3 DEF Quiet, TargetKinds, Reports
<1>2. CASE kind \in RawKinds
  <2>1. UNCHANGED delivery /\ Continue(t, IF kind = "USERNAME_REQUIRED" /\ r = 0
                             THEN "login" ELSE "close")
    BY <1>2 DEF SendReturns, RawKinds, LoginErrors
  <2> QED BY <1>0, <1>1, <1>2, <2>1
<1>3. CASE kind = "LOGIN_SUCCESS"
  <2>1. UNCHANGED delivery /\ \E l \in {"remove", "idle", "close"} : Continue(t, l)
    BY <1>3 DEF SendReturns, RawKinds, LoginErrors
  <2> QED BY <1>0, <1>1, <1>3, <2>1
<1>4. CASE kind \in {"FILE_REPLY", "DOWNLOAD_READY", "GOODBYE"}
  <2>1. UNCHANGED delivery /\ \E l \in {"remove", "idle"} : Continue(t, l)
    BY <1>4 DEF SendReturns, RawKinds, LoginErrors
  <2> QED BY <1>0, <1>1, <1>4, <2>1
<1>5. CASE kind \in {"REPLY"} \union Reports
  <2>1. /\ Continue(t, "idle")
        /\ targets' = [targets EXCEPT ![t] = {}]
        /\ successful' = [successful EXCEPT ![t] = 0]
        /\ todo' = todo
    BY <1>5 DEF SendReturns, RawKinds, LoginErrors, Reports
  <2>2. msg'[t] = NoMsg /\ pc'[t] = "idle"
    BY <2>1, MessageShapes DEF Continue
  <2>3. OnlyMoves(t) /\ Placed(t)
    BY <1>0, <2>1, <2>2, MessageShapes DEF OnlyMoves, Placed, Continue
  <2>4. kind \notin TargetKinds
    BY <1>5 DEF TargetKinds, Reports
  <2>5. targets'[t] = {} /\ successful'[t] = 0
    BY <2>1, MessageShapes
  <2>6. kind # "MESSAGE_DELIVERED" => successful[t] = 0
    BY <1>5, <2>4 DEF SendingInv, Chat, TargetKinds
  <2> QED BY <1>0, <2>1, <2>2, <2>3, <2>4, <2>5, <2>6 DEF Quiet, TargetKinds, Reports
<1>6. CASE kind = "PRIVATE"
  <2> DEFINE k == CASE r = 0 -> "PRIVATE_MESSAGE_DELIVERED"
                    [] r = 1 -> "USER_NOT_FOUND"
                    [] OTHER -> "PRIVATE_MESSAGE_FAILED"
             m == Frame(k, t, msg[t].num, name[t], 0)
  <2>1. /\ Reply(t, k, msg[t].num, 0)
        /\ todo' = [todo EXCEPT ![t] = {}]
        /\ UNCHANGED <<targets, successful>>
    BY <1>6 DEF SendReturns, RawKinds, LoginErrors
  <2>2. msg' = [msg EXCEPT ![t] = m] /\ pc' = [pc EXCEPT ![t] = "find"]
    BY <2>1 DEF Reply
  <2>3. m.type = k /\ m.num = msg[t].num /\ m.from = t
    BY DEF Frame
  <2> HIDE DEF m
  <2>4. msg'[t] = m /\ pc'[t] = "find" /\ todo'[t] = {}
    BY <2>1, <2>2, MessageShapes
  <2>5. OnlyMoves(t) /\ Placed(t)
    BY <2>1, <2>2, <2>4, MessageShapes DEF OnlyMoves, Placed
  <2>6. Answered(t, r)
    BY <1>6, <2>1, <2>3, <2>4 DEF Answered
  <2> QED BY <1>0, <2>5, <2>6
<1>7. CASE kind = "BROADCAST"
  <2>1. /\ todo' = [todo EXCEPT ![t] = Rest(t)]
        /\ successful' = [successful EXCEPT ![t] = Delivered(t, r)]
        /\ targets' = targets
        /\ IF Rest(t) = {}
           THEN Reply(t, "MESSAGE_DELIVERED", msg[t].num, Delivered(t, r))
           ELSE pc' = [pc EXCEPT ![t] = "target"] /\ msg' = msg
    BY <1>7 DEF SendReturns, RawKinds, LoginErrors
  <2>2. /\ todo'[t] = Rest(t) /\ successful'[t] = Delivered(t, r)
        /\ \A u \in Conns \ {t} : todo'[u] = todo[u] /\ successful'[u] = successful[u]
    BY <2>1, MessageShapes
  <2>3. CASE Rest(t) = {}
    <3> DEFINE m == Frame("MESSAGE_DELIVERED", t, msg[t].num, name[t], Delivered(t, r))
    <3>1. msg' = [msg EXCEPT ![t] = m] /\ pc' = [pc EXCEPT ![t] = "find"]
      BY <2>1, <2>3 DEF Reply
    <3>2. m.type = "MESSAGE_DELIVERED" /\ m.num = msg[t].num /\ m.from = t
          /\ m.arg = Delivered(t, r)
      BY DEF Frame
    <3> HIDE DEF m
    <3>3. msg'[t] = m /\ pc'[t] = "find"
      BY <3>1, MessageShapes
    <3>4. OnlyMoves(t) /\ Placed(t)
      BY <2>1, <2>2, <3>1, <3>3, MessageShapes DEF OnlyMoves, Placed
    <3>5. Advanced(t, r)
      BY <1>7, <2>1, <2>2, <2>3, <3>2, <3>3 DEF Advanced
    <3> QED BY <1>0, <3>4, <3>5
  <2>4. CASE Rest(t) # {}
    <3>1. pc' = [pc EXCEPT ![t] = "target"] /\ msg' = msg
      BY <2>1, <2>4
    <3>2. OnlyMoves(t) /\ Placed(t)
      BY <2>1, <2>2, <3>1, MessageShapes DEF OnlyMoves, Placed
    <3>3. Advanced(t, r)
      BY <1>7, <2>1, <2>2, <3>1 DEF Advanced
    <3> QED BY <1>0, <3>2, <3>3
  <2> QED BY <2>3, <2>4
<1> QED BY <1>2, <1>3, <1>4, <1>5, <1>6, <1>7 DEF SendReturns, Reports

\* The payload of the message is written: it is on the wire.
Wrote(t) ==
    /\ pc[t] = "pay"
    /\ wire' = [wire EXCEPT ![sock[wfd[t]]] = Append(@, msg[t])]

\* Why the send of a message returned r.
Because(t, r) ==
    \/ r = 0 /\ Wrote(t)
    \/ /\ r = 1 /\ wire' = wire
       /\ \E g \in todo[t] : IsCurrent(t, g) /\ ~SameClient(g)
    \/ /\ r = -1 /\ wire' = wire /\ Writing(t)
       /\ sock[wfd[t]] \in Conns => link'[sock[wfd[t]]] = "broken"

\* What a step does to the wire and to the message of its thread.
StepKind(t) ==
    \/ wire' = wire /\ Kept(t) /\ nreq' = nreq
    \/ (wire' = wire \/ Wrote(t)) /\ Quiet(t) /\ nreq' \in {nreq, nreq + 1}
    \/ Wrote(t) /\ Kept(t) /\ msg[t].type = "DOWNLOAD_READY" /\ nreq' = nreq
    \/ HandleChat(t)
    \/ \E u \in Users : HandlePrivate(t, u)
    \/ /\ \E r \in {0, 1, -1} : Because(t, r) /\ (Answered(t, r) \/ Advanced(t, r))
       /\ nreq' = nreq

\* A step that changes neither messages nor their snapshots.
LEMMA KeptKind ==
  ASSUME TypeInv, SendingInv, NEW t \in Conns,
         UNCHANGED <<wire, msg, targets, todo, successful, nreq>>,
         \A u \in Conns \ {t} : pc'[u] = pc[u],
         pc'[t] \notin {"find", "target", "wait", "hdr", "pay", "raw"} =>
            pc[t] \notin {"find", "target", "wait", "hdr", "pay", "raw"},
         pc'[t] = "raw" => pc[t] = "raw"
  PROVE  OnlyMoves(t) /\ Placed(t) /\ StepKind(t)
<1>1. OnlyMoves(t)
  BY DEF OnlyMoves
<1>2. Placed(t)
  BY DEF Placed, SendingInv
<1>3. StepKind(t)
  BY DEF StepKind, Kept
<1> QED BY <1>1, <1>2, <1>3

\* A thread that had nothing to send has a frame that is no message.
LEMMA QuietKind ==
  ASSUME TypeInv, SendingInv, NEW t \in Conns,
         pc[t] \in {"new", "login", "idle"}, pc'[t] \in {"hdr", "find"},
         msg'[t].type \notin TargetKinds \union Reports,
         msg'[t].from = t, msg'[t].num <= nreq', nreq' \in {nreq, nreq + 1},
         \A d \in Conns \ {t} : pc'[d] = pc[d] /\ msg'[d] = msg[d],
         UNCHANGED <<wire, targets, todo, successful>>
  PROVE  OnlyMoves(t) /\ Placed(t) /\ StepKind(t)
<1>1. msg[t].type = "NONE"
  BY DEF SendingInv
<1>2. OnlyMoves(t)
  BY DEF OnlyMoves
<1>3. Placed(t)
  BY DEF Placed
<1>4. Quiet(t)
  BY <1>1 DEF Quiet, TargetKinds
<1> QED BY <1>2, <1>3, <1>4 DEF StepKind

\* A send that returns without having written the message of the thread.
LEMMA ReturnKind ==
  ASSUME TypeInv, SendingInv, NEW t \in Conns, NEW r \in {0, 1, -1}, SendReturns(t, r),
         wire' = wire \/ Wrote(t),
         msg[t].type \in TargetKinds => Because(t, r)
  PROVE  OnlyMoves(t) /\ Placed(t) /\ StepKind(t)
<1>1. /\ OnlyMoves(t) /\ Placed(t) /\ nreq' = nreq
      /\ Quiet(t) \/ Answered(t, r) \/ Advanced(t, r)
  BY ReturnKinds
<1>2. CASE Quiet(t)
  BY <1>1, <1>2 DEF StepKind
<1>3. CASE Answered(t, r) \/ Advanced(t, r)
  <2>1. Because(t, r)
    BY <1>3 DEF Answered, Advanced, TargetKinds
  <2> QED BY <1>1, <1>3, <2>1 DEF StepKind
<1> QED BY <1>1, <1>2, <1>3

LEMMA EnvironmentKind ==
  ASSUME TypeInv, SendingInv, NEW t \in Conns, Environment(t)
  PROVE  OnlyMoves(t) /\ Placed(t) /\ StepKind(t)
<1> DEFINE Goal == OnlyMoves(t) /\ Placed(t) /\ StepKind(t)
<1>0. nreq \in Nat
  BY MessageShapes
<1>1. ASSUME NEW f \in Fds, Accept(t, f) PROVE Goal
  <2>1. /\ pc[t] = "new" /\ pc' = [pc EXCEPT ![t] = "hdr"]
        /\ msg' = [msg EXCEPT ![t] = Frame("USERNAME_REQUIRED", t, 0, None, 0)]
        /\ UNCHANGED <<wire, targets, todo, successful, nreq>>
    BY <1>1 DEF Accept, delivery
  <2>2. "USERNAME_REQUIRED" \notin TargetKinds \union Reports
    BY DEF TargetKinds, Reports
  <2>3. /\ msg'[t].type = "USERNAME_REQUIRED" /\ msg'[t].from = t /\ msg'[t].num = 0
        /\ pc'[t] = "hdr" /\ \A d \in Conns \ {t} : pc'[d] = pc[d] /\ msg'[d] = msg[d]
    BY <2>1, MessageShapes DEF Frame
  <2> QED BY <1>0, <2>1, <2>2, <2>3, QuietKind
<1>2. ASSUME NEW k \in LoginErrors, Reject(t, k), pc[t] = "login",
             UNCHANGED <<wire, targets, todo, successful, nreq>>
      PROVE  Goal
  <2>1. k \notin TargetKinds \union Reports
    BY DEF LoginErrors, TargetKinds, Reports
  <2>2. /\ msg'[t].type = k /\ msg'[t].from = t /\ msg'[t].num = 0
        /\ pc'[t] = "hdr" /\ \A d \in Conns \ {t} : pc'[d] = pc[d] /\ msg'[d] = msg[d]
    BY <1>2, MessageShapes DEF Frame, Reject
  <2> QED BY <1>0, <1>2, <2>1, <2>2, QuietKind
<1>3. CASE RejectLogin(t)
  BY <1>2, <1>3 DEF RejectLogin, LoginErrors, net, delivery
<1>4. ASSUME NEW u \in Users, client_manager_add(t, u) PROVE Goal
  <2>1. pc[t] = "login" /\ UNCHANGED <<wire, targets, todo, successful, nreq>>
    BY <1>4 DEF client_manager_add, net, delivery
  <2>2. \/ \E k \in LoginErrors : Reject(t, k)
        \/ /\ msg' = [msg EXCEPT ![t] = Frame("LOGIN_SUCCESS", t, 0, u, 0)]
           /\ pc' = [pc EXCEPT ![t] = "find"]
    BY <1>4 DEF client_manager_add, LoginErrors
  <2>3. "LOGIN_SUCCESS" \notin TargetKinds \union Reports
    BY DEF TargetKinds, Reports
  <2>4. CASE \E k \in LoginErrors : Reject(t, k)
    BY <1>2, <2>1, <2>4
  <2>5. CASE /\ msg' = [msg EXCEPT ![t] = Frame("LOGIN_SUCCESS", t, 0, u, 0)]
             /\ pc' = [pc EXCEPT ![t] = "find"]
    <3>1. /\ msg'[t].type = "LOGIN_SUCCESS" /\ msg'[t].from = t /\ msg'[t].num = 0
          /\ pc'[t] = "find" /\ \A d \in Conns \ {t} : pc'[d] = pc[d] /\ msg'[d] = msg[d]
      BY <2>5, MessageShapes DEF Frame
    <3> QED BY <1>0, <2>1, <2>3, <3>1, QuietKind
  <2> QED BY <2>2, <2>4, <2>5
<1>5. CASE HandleChat(t)
  <2>1. /\ pc' = [pc EXCEPT ![t] = pc'[t]] /\ pc'[t] \in {"find", "target"}
        /\ \A u \in Conns \ {t} : msg'[u] = msg[u]
    BY <1>5, MessageShapes DEF HandleChat, Reply
  <2>2. \A u \in Conns \ {t} : targets'[u] = targets[u] /\ todo'[u] = todo[u]
    BY <1>5, MessageShapes DEF HandleChat
  <2>3. OnlyMoves(t) /\ Placed(t)
    BY <1>5, <2>1, <2>2, MessageShapes DEF HandleChat, OnlyMoves, Placed
  <2> QED BY <1>5, <2>3 DEF StepKind
<1>6. ASSUME NEW u \in Users, HandlePrivate(t, u) PROVE Goal
  <2>1. /\ pc' = [pc EXCEPT ![t] = pc'[t]] /\ pc'[t] \in {"find", "target"}
        /\ \A d \in Conns \ {t} : msg'[d] = msg[d]
    BY <1>6, MessageShapes DEF HandlePrivate, Reply
  <2>2. \A d \in Conns \ {t} : targets'[d] = targets[d] /\ todo'[d] = todo[d]
                               /\ successful'[d] = successful[d]
    BY <1>6, MessageShapes DEF HandlePrivate, delivery
  <2>3. OnlyMoves(t) /\ Placed(t)
    BY <2>1, <2>2, MessageShapes DEF OnlyMoves, Placed
  <2> QED BY <1>6, <2>3 DEF StepKind
<1>7. ASSUME NEW k \in {"REPLY", "FILE_REPLY", "DOWNLOAD_READY", "GOODBYE"}, NEW a,
             Reply(t, k, nreq', a), pc[t] = "idle", nreq' = nreq + 1,
             UNCHANGED <<wire, targets, todo, successful>>
      PROVE  Goal
  <2>1. k \notin TargetKinds \union Reports
    BY <1>7 DEF TargetKinds, Reports
  <2>2. nreq' \in Nat /\ nreq' <= nreq'
    BY <1>0, <1>7
  <2>3. /\ msg'[t].type = k /\ msg'[t].from = t /\ msg'[t].num = nreq'
        /\ pc'[t] = "find" /\ \A d \in Conns \ {t} : pc'[d] = pc[d] /\ msg'[d] = msg[d]
    BY <1>7, MessageShapes DEF Frame, Reply
  <2> QED BY <1>7, <2>1, <2>2, <2>3, QuietKind
<1>8. CASE HandleReply(t) \/ HandleFile(t) \/ HandleQuit(t)
  BY <1>7, <1>8 DEF HandleReply, HandleFile, HandleQuit, Receive, net, delivery
<1>9. ASSUME NEW n \in 0 .. MaxBlocks, HandleDownload(t, n) PROVE Goal
  BY <1>7, <1>9 DEF HandleDownload, Receive, net, delivery
<1>10. CASE ReceiveFails(t) \/ PeerLeaves(t) \/ PeerStalls(t) \/ PeerResumes(t)
  <2>1. UNCHANGED <<wire, msg, targets, todo, successful, nreq>>
    BY <1>10 DEF ReceiveFails, PeerLeaves, PeerStalls, PeerResumes, SetLink, net, delivery
  <2>2. \/ pc' = pc
        \/ /\ pc[t] \in {"login", "idle"}
           /\ pc' = [pc EXCEPT ![t] = IF pc[t] = "idle" THEN "remove" ELSE "close"]
    BY <1>10 DEF ReceiveFails, PeerLeaves, PeerStalls, PeerResumes, SetLink
  <2>3. /\ \A u \in Conns \ {t} : pc'[u] = pc[u]
        /\ \/ pc'[t] = pc[t]
           \/ pc[t] \in {"login", "idle"} /\ pc'[t] \in {"remove", "close"}
    <3>1. pc \in [Conns -> Pcs]
      BY MessageShapes
    <3>2. CASE pc' = pc
      BY <3>2
    <3>3. CASE pc[t] = "idle" /\ pc' = [pc EXCEPT ![t] = "remove"]
      BY <3>1, <3>3
    <3>4. CASE pc[t] = "login" /\ pc' = [pc EXCEPT ![t] = "close"]
      BY <3>1, <3>4
    <3> QED BY <2>2, <3>2, <3>3, <3>4
  <2> QED BY <2>1, <2>3, KeptKind
<1> QED BY <1>1, <1>3, <1>4, <1>5, <1>6, <1>8, <1>9, <1>10 DEF Environment

LEMMA ThreadKind ==
  ASSUME TypeInv, RegistryInv, SendingInv, NEW t \in Conns, Thread(t)
  PROVE  OnlyMoves(t) /\ Placed(t) /\ StepKind(t)
<1> DEFINE Goal == OnlyMoves(t) /\ Placed(t) /\ StepKind(t)
           Mine == {"find", "target", "wait", "hdr", "pay", "raw"}
<1>1. CASE client_manager_send(t) \/ client_manager_send_file_stream(t)
  <2>1. pc[t] = "find" /\ wire' = wire
    BY <1>1 DEF client_manager_send, client_manager_send_file_stream, SendToSelf, net
  <2>2. msg[t].type \notin TargetKinds
    BY <2>1 DEF RegistryInv, PlaceInv, OwnKinds, TargetKinds
  <2>3. CASE \E r \in {1, -1} : SendReturns(t, r)
    BY <2>1, <2>2, <2>3, ReturnKind
  <2>4. CASE pc' = [pc EXCEPT ![t] = "wait"] /\ UNCHANGED <<delivery, msg, nreq>>
    <3>1. pc'[t] = "wait" /\ \A u \in Conns \ {t} : pc'[u] = pc[u]
      BY <2>4, MessageShapes
    <3> QED BY <2>1, <2>4, <3>1, KeptKind DEF delivery
  <2> QED BY <1>1, <2>3, <2>4
          DEF client_manager_send, client_manager_send_file_stream, SendToSelf
<1>2. CASE send_to_target(t)
  <2>1. pc[t] = "target" /\ wire' = wire
    BY <1>2 DEF send_to_target, net
  <2>2. CASE SendReturns(t, 1) /\ \E g \in todo[t] : IsCurrent(t, g) /\ ~SameClient(g)
    <3>1. Because(t, 1)
      BY <2>1, <2>2 DEF Because
    <3> QED BY <2>1, <2>2, <3>1, ReturnKind
  <2>3. CASE pc' = [pc EXCEPT ![t] = "wait"] /\ UNCHANGED <<delivery, msg, nreq>>
    <3>1. pc'[t] = "wait" /\ \A u \in Conns \ {t} : pc'[u] = pc[u]
      BY <2>3, MessageShapes
    <3> QED BY <2>1, <2>3, <3>1, KeptKind DEF delivery
  <2> QED BY <1>2, <2>2, <2>3 DEF send_to_target
<1>3. CASE LockSend(t) \/ WriteHeader(t)
  <2>1. /\ UNCHANGED <<wire, msg, targets, todo, successful, nreq>>
        /\ pc' = [pc EXCEPT ![t] = "hdr"] \/ pc' = [pc EXCEPT ![t] = "pay"]
    BY <1>3 DEF LockSend, WriteHeader, net, delivery
  <2>2. pc'[t] \in {"hdr", "pay"} /\ \A u \in Conns \ {t} : pc'[u] = pc[u]
    BY <2>1, MessageShapes
  <2> QED BY <2>1, <2>2, KeptKind
<1>4. CASE WritePayload(t)
  <2>1. Wrote(t) /\ pc[t] = "pay"
    BY <1>4 DEF WritePayload, Wrote
  <2>2. CASE /\ msg[t].type = "DOWNLOAD_READY" /\ pc' = [pc EXCEPT ![t] = "raw"]
             /\ UNCHANGED <<delivery, msg, nreq>>
    <3>1. pc'[t] = "raw" /\ \A u \in Conns \ {t} : pc'[u] = pc[u]
      BY <2>2, MessageShapes
    <3>2. UNCHANGED <<targets, todo, successful>>
      BY <2>2 DEF delivery
    <3>3. OnlyMoves(t) /\ Placed(t)
      BY <2>2, <3>1, <3>2 DEF OnlyMoves, Placed
    <3>4. Kept(t)
      BY <2>2, <3>2 DEF Kept
    <3> QED BY <2>1, <2>2, <3>3, <3>4 DEF StepKind
  <2>3. CASE SendReturns(t, 0)
    <3>1. Because(t, 0)
      BY <2>1 DEF Because
    <3> QED BY <2>1, <2>3, <3>1, ReturnKind
  <2> QED BY <1>4, <2>2, <2>3 DEF WritePayload, FinishSend
<1>5. CASE WriteRaw(t) \/ ReadFail(t)
  <2>1. pc[t] = "raw" /\ wire' = wire
    BY <1>5 DEF WriteRaw, ReadFail, net
  <2>2. msg[t].type \notin TargetKinds
    BY <2>1 DEF SendingInv, TargetKinds
  <2>3. CASE \E r \in {0, -1} : SendReturns(t, r)
    BY <2>1, <2>2, <2>3, ReturnKind
  <2>4. CASE UNCHANGED <<delivery, pc, msg, nreq>>
    BY <2>1, <2>4, KeptKind DEF delivery
  <2> QED BY <1>5, <2>3, <2>4 DEF WriteRaw, ReadFail, FinishSend
<1>6. CASE WriteFail(t)
  <2>1. /\ Writing(t) /\ wire' = wire /\ SendReturns(t, -1)
        /\ link' = [c \in Conns |-> IF c = sock[wfd[t]] THEN "broken" ELSE link[c]]
    BY <1>6 DEF WriteFail, FinishSend
  <2>2. Because(t, -1)
    BY <2>1 DEF Because
  <2> QED BY <2>1, <2>2, ReturnKind
<1>7. CASE client_manager_remove(t) \/ RemoveClear(t) \/ RemoveUnlock(t) \/ Close(t)
  <2>1. /\ UNCHANGED <<wire, msg, targets, todo, successful, nreq>>
        /\ pc[t] \in {"remove", "rmwait", "rmunlock", "close"}
        /\ \E l \in {"close", "rmwait", "rmunlock", "done"} : pc' = [pc EXCEPT ![t] = l]
    BY <1>7 DEF client_manager_remove, RemoveClear, RemoveUnlock, Close, net, delivery
  <2>2. /\ pc'[t] \in {"close", "rmwait", "rmunlock", "done"}
        /\ \A u \in Conns \ {t} : pc'[u] = pc[u]
    BY <2>1, MessageShapes
  <2> QED BY <2>1, <2>2, KeptKind
<1> QED BY <1>1, <1>2, <1>3, <1>4, <1>5, <1>6, <1>7 DEF Thread

\* Every step is of one of the kinds; a step of nobody is one that keeps all.
LEMMA NextKind ==
  ASSUME TypeInv, RegistryInv, SendingInv, [Next]_vars, Conns # {}
  PROVE  \E t \in Conns : OnlyMoves(t) /\ Placed(t) /\ StepKind(t)
<1>1. CASE UNCHANGED vars
  <2>1. UNCHANGED <<wire, msg, targets, todo, successful, nreq, pc>>
    BY <1>1 DEF vars, net, delivery
  <2>2. PICK t \in Conns : TRUE
    OBVIOUS
  <2> QED BY <2>1, <2>2, KeptKind
<1> QED BY <1>1, EnvironmentKind, ThreadKind DEF Next, Finished

-----------------------------------------------------------------------------
(* The wire in a step.                                                     *)

\* A frame on the wire was there before, or is the one just written.
LEMMA WireElements ==
  ASSUME TypeInv, NEW t \in Conns, wire' = wire \/ Wrote(t), NEW c \in Conns
  PROVE  /\ \A i \in DOMAIN wire[c] : i \in DOMAIN wire'[c] /\ wire'[c][i] = wire[c][i]
         /\ \A i \in DOMAIN wire'[c] :
              \/ i \in DOMAIN wire[c] /\ wire'[c][i] = wire[c][i]
              \/ /\ Wrote(t) /\ c = sock[wfd[t]] /\ wire'[c][i] = msg[t]
                 /\ \A j \in DOMAIN wire'[c] : j <= i
<1>1. wire[c] \in Seq(Frames)
  BY MessageShapes
<1>2. CASE wire'[c] = wire[c]
  BY <1>2
<1>3. CASE Wrote(t) /\ c = sock[wfd[t]]
  <2>1. wire'[c] = Append(wire[c], msg[t])
    BY <1>3, MessageShapes DEF Wrote
  <2>2. msg[t] \in Frames
    BY MessageShapes
  <2>3. /\ DOMAIN wire'[c] = 1 .. Len(wire[c]) + 1
        /\ wire'[c][Len(wire[c]) + 1] = msg[t]
        /\ \A i \in 1 .. Len(wire[c]) : wire'[c][i] = wire[c][i]
        /\ DOMAIN wire[c] = 1 .. Len(wire[c]) /\ Len(wire[c]) \in Nat
    BY <1>1, <2>1, <2>2
  <2> QED BY <1>3, <2>3
<1>4. CASE Wrote(t) /\ c # sock[wfd[t]]
  BY <1>4, <1>2, MessageShapes DEF Wrote
<1> QED BY <1>2, <1>3, <1>4

\* The recipients of a message after a step.
RecipientsNext(kind, t, n) ==
    {c \in Conns : \E i \in DOMAIN wire'[c] : IsMessage(wire'[c][i], kind, t, n)}

\* What a step does to the recipients of a message.
LEMMA RecipientsStep ==
  ASSUME TypeInv, NEW t \in Conns, wire' = wire \/ Wrote(t),
         NEW k, NEW u, NEW n
  PROVE  /\ Recipients(k, u, n) \subseteq RecipientsNext(k, u, n)
         /\ ~(Wrote(t) /\ IsMessage(msg[t], k, u, n)) =>
              RecipientsNext(k, u, n) = Recipients(k, u, n)
         /\ Wrote(t) /\ IsMessage(msg[t], k, u, n) /\ sock[wfd[t]] \in Conns =>
              RecipientsNext(k, u, n) = Recipients(k, u, n) \union {sock[wfd[t]]}
<1>1. Recipients(k, u, n) \subseteq RecipientsNext(k, u, n)
  BY WireElements DEF Recipients, RecipientsNext, IsMessage
<1>2. \A c \in RecipientsNext(k, u, n) :
        c \in Recipients(k, u, n)
        \/ (Wrote(t) /\ IsMessage(msg[t], k, u, n) /\ c = sock[wfd[t]])
  BY WireElements DEF Recipients, RecipientsNext, IsMessage
<1>3. ASSUME Wrote(t), IsMessage(msg[t], k, u, n), sock[wfd[t]] \in Conns
      PROVE  sock[wfd[t]] \in RecipientsNext(k, u, n)
  <2> DEFINE c == sock[wfd[t]]
  <2>1. wire[c] \in Seq(Frames) /\ msg[t] \in Frames
    BY <1>3, MessageShapes
  <2>2. wire'[c] = Append(wire[c], msg[t])
    BY <1>3, MessageShapes DEF Wrote
  <2>3. /\ Len(wire[c]) + 1 \in DOMAIN wire'[c]
        /\ wire'[c][Len(wire[c]) + 1] = msg[t]
    BY <2>1, <2>2
  <2> QED BY <1>3, <2>3 DEF Recipients, RecipientsNext, IsMessage
<1> QED BY <1>1, <1>2, <1>3

-----------------------------------------------------------------------------
(* A new message.                                                          *)

\* A thread that had nothing to send has a new message, or at once the answer
\* to a message that has no recipients.
Fresh(t) ==
    /\ msg[t].type = "NONE" /\ wire' = wire /\ nreq' = nreq + 1
    /\ msg'[t].num = nreq + 1 /\ msg'[t].from = t
    /\ successful'[t] = successful[t]
    /\ \/ msg'[t].type \in TargetKinds /\ todo'[t] = targets'[t]
       \/ /\ msg'[t].type = "MESSAGE_DELIVERED" /\ msg'[t].arg = 0
          /\ todo'[t] = {} /\ targets'[t] = {}
       \/ /\ msg'[t].type = "USER_NOT_FOUND"
          /\ todo'[t] = todo[t] /\ targets'[t] = targets[t]
    /\ msg'[t].type \in TargetKinds =>
          \A g \in targets'[t] :
             /\ clients[g.slot].active /\ g.id = clients[g.slot].client_id
             /\ msg'[t].type = "PRIVATE" =>
                  clients[g.slot].username = msg'[t].to /\ msg'[t].to # name[t]
    /\ \A g, h \in targets'[t] : msg'[t].type \in TargetKinds /\ g.slot = h.slot => g = h

LEMMA FreshMessage ==
  ASSUME TypeInv, SendingInv, NEW t \in Conns,
         HandleChat(t) \/ \E u \in Users : HandlePrivate(t, u)
  PROVE  Fresh(t)
<1>0. nreq \in Nat /\ pc[t] = "idle" /\ nreq' = nreq + 1 /\ wire' = wire
  BY MessageShapes DEF HandleChat, HandlePrivate, Receive, net
<1>1. msg[t].type = "NONE"
  BY <1>0 DEF SendingInv
<1>2. CASE HandleChat(t)
  <2> DEFINE G == BroadcastTargets(t)
  <2>1. /\ targets'[t] = G /\ todo'[t] = G /\ successful'[t] = successful[t]
    BY <1>2, MessageShapes DEF HandleChat
  <2>2. \A g \in G : clients[g.slot].active /\ g.id = clients[g.slot].client_id
    BY DEF BroadcastTargets
  <2>3. \A g, h \in G : g.slot = h.slot => g = h
    BY DEF BroadcastTargets
  <2>4. CASE G = {} /\ Reply(t, "MESSAGE_DELIVERED", nreq', 0)
    <3>1. /\ msg'[t].type = "MESSAGE_DELIVERED" /\ msg'[t].arg = 0
          /\ msg'[t].num = nreq' /\ msg'[t].from = t
      BY <2>4, MessageShapes DEF Reply, Frame
    <3> QED BY <1>0, <1>1, <2>1, <2>4, <3>1 DEF Fresh, TargetKinds
  <2>5. CASE msg' = [msg EXCEPT ![t] = Frame("BROADCAST", t, nreq', None, 0)]
    <3>1. msg'[t].type = "BROADCAST" /\ msg'[t].num = nreq' /\ msg'[t].from = t
      BY <2>5, MessageShapes DEF Frame
    <3> HIDE DEF G
    <3> QED BY <1>0, <1>1, <2>1, <2>2, <2>3, <3>1 DEF Fresh, TargetKinds
  <2> QED BY <1>2, <2>4, <2>5 DEF HandleChat
<1>3. ASSUME NEW u \in Users, HandlePrivate(t, u) PROVE Fresh(t)
  <2>1. CASE Reply(t, "USER_NOT_FOUND", nreq', 0) /\ UNCHANGED delivery
    <3>1. msg'[t].type = "USER_NOT_FOUND" /\ msg'[t].num = nreq' /\ msg'[t].from = t
      BY <2>1, MessageShapes DEF Reply, Frame
    <3>2. UNCHANGED <<targets, todo, successful>>
      BY <2>1 DEF delivery
    <3> QED BY <1>0, <1>1, <3>1, <3>2 DEF Fresh, TargetKinds
  <2>2. ASSUME NEW s \in Slots, IsFirst(s, UsernameSlots(u)),
               targets' = [targets EXCEPT ![t] = {[slot |-> s, id |-> clients[s].client_id]}],
               todo' = [todo EXCEPT ![t] = {[slot |-> s, id |-> clients[s].client_id]}],
               msg' = [msg EXCEPT ![t] = Frame("PRIVATE", t, nreq', u, 0)],
               successful' = successful
        PROVE  Fresh(t)
    <3> DEFINE g == [slot |-> s, id |-> clients[s].client_id]
    <3>1. clients[s].active /\ clients[s].username = u /\ u # name[t]
      BY <1>3, <2>2 DEF IsFirst, UsernameSlots, HandlePrivate
    <3>2. g.slot = s /\ g.id = clients[s].client_id
      OBVIOUS
    <3>3. targets'[t] = {g} /\ todo'[t] = {g}
      BY <2>2, MessageShapes
    <3>4. msg'[t].type = "PRIVATE" /\ msg'[t].num = nreq' /\ msg'[t].from = t /\ msg'[t].to = u
      BY <2>2, MessageShapes DEF Frame
    <3> HIDE DEF g
    <3> QED BY <1>0, <1>1, <2>2, <3>1, <3>2, <3>3, <3>4 DEF Fresh, TargetKinds
  <2> QED BY <1>3, <2>1, <2>2 DEF HandlePrivate
<1> QED BY <1>2, <1>3

\* What every step has in common: a message that a thread is sending is the
\* one it had, with the targets that are left, or a new one.
LEMMA StepFacts ==
  ASSUME TypeInv, SendingInv, NEW t \in Conns, StepKind(t)
  PROVE  /\ nreq' \in {nreq, nreq + 1}
         /\ wire' = wire \/ Wrote(t)
         /\ msg'[t].type \in TargetKinds =>
               \/ /\ msg'[t] = msg[t] /\ targets'[t] = targets[t] /\ todo'[t] \subseteq todo[t]
                  /\ wire' = wire \/ todo'[t] = Rest(t)
               \/ Fresh(t)
<1>0. Fresh(t) => nreq' = nreq + 1 /\ wire' = wire
  BY DEF Fresh
<1>1. CASE Kept(t) /\ nreq' = nreq /\ wire' = wire
  BY <1>1 DEF Kept
<1>2. CASE (wire' = wire \/ Wrote(t)) /\ Quiet(t) /\ nreq' \in {nreq, nreq + 1}
  BY <1>2 DEF Quiet
<1>3. CASE Wrote(t) /\ Kept(t) /\ msg[t].type = "DOWNLOAD_READY" /\ nreq' = nreq
  BY <1>3 DEF Kept, TargetKinds
<1>4. CASE HandleChat(t) \/ \E u \in Users : HandlePrivate(t, u)
  BY <1>0, <1>4, FreshMessage
<1>5. ASSUME NEW r \in {0, 1, -1}, Because(t, r), Answered(t, r) \/ Advanced(t, r), nreq' = nreq
      PROVE  /\ wire' = wire \/ Wrote(t)
             /\ msg'[t].type \in TargetKinds =>
                   /\ msg'[t] = msg[t] /\ targets'[t] = targets[t] /\ todo'[t] \subseteq todo[t]
                   /\ wire' = wire \/ todo'[t] = Rest(t)
  <2>1. wire' = wire \/ Wrote(t)
    BY <1>5 DEF Because
  <2>2. CASE Answered(t, r)
    BY <2>1, <2>2 DEF Answered, TargetKinds
  <2>3. CASE Advanced(t, r)
    BY <2>1, <2>3 DEF Advanced, TargetKinds, Rest
  <2> QED BY <1>5, <2>2, <2>3
<1> QED BY <1>1, <1>2, <1>3, <1>4, <1>5 DEF StepKind

\* A frame that is being written goes to the current target, or to its own client.
LEMMA Destination ==
  ASSUME TypeInv, RegistryInv, NEW t \in Conns, Wrote(t) \/ Writing(t)
  PROVE  /\ sock[wfd[t]] \in Conns
         /\ msg[t].type \in TargetKinds =>
               \E g \in todo[t] : IsCurrent(t, g) /\ cid[sock[wfd[t]]] = g.id
         /\ msg[t].type \notin TargetKinds => sock[wfd[t]] = t
<1>1. Writing(t)
  BY DEF Wrote, Writing
<1>2. sock[wfd[t]] \in Conns
  BY <1>1, SoleWriter DEF OneWriter
<1> QED BY <1>1, <1>2, Addressee DEF WritesGoToAddressee

-----------------------------------------------------------------------------
(* Each part of the invariant in a step of thread t.                       *)

LEMMA SendingStep ==
  ASSUME TypeInv, TypeInv', SendingInv, NEW t \in Conns,
         OnlyMoves(t), Placed(t), StepKind(t)
  PROVE  SendingInv'
<1> DEFINE Sends(u) ==
             /\ msg'[u].type # "NONE" => msg'[u].from = u
             /\ msg'[u].num <= nreq'
             /\ msg'[u].type \notin Chat => successful'[u] = 0
             /\ msg'[u].type \notin TargetKinds => todo'[u] = {}
<1>0. /\ nreq \in Nat /\ nreq' \in Nat /\ nreq <= nreq'
      /\ \A u \in Conns : msg[u].num \in Nat /\ msg[u].num <= nreq
  <2>1. nreq \in Nat /\ nreq' \in {nreq, nreq + 1}
    BY MessageShapes, StepFacts
  <2>2. \A u \in Conns : msg[u] \in Frames
    BY MessageShapes
  <2>3. \A u \in Conns : msg[u].num \in Nat
    BY <2>2 DEF Frames
  <2> QED BY <2>1, <2>3 DEF SendingInv
<1>1. ASSUME NEW u \in Conns \ {t} PROVE Sends(u)
  BY <1>0 DEF OnlyMoves, SendingInv
<1>2. ASSUME Kept(t) PROVE Sends(t)
  BY <1>0, <1>2 DEF Kept, SendingInv
<1>3. ASSUME Quiet(t) PROVE Sends(t)
  BY <1>3 DEF Quiet, SendingInv, TargetKinds, Reports, Chat
<1>4. ASSUME Fresh(t) PROVE Sends(t)
  <2>1. successful[t] = 0 /\ todo[t] = {}
    BY <1>4 DEF Fresh, SendingInv, Chat, TargetKinds
  <2> QED BY <1>0, <1>4, <2>1 DEF Fresh
<1>5. ASSUME NEW r \in {0, 1, -1}, Answered(t, r) PROVE Sends(t)
  <2>1. successful[t] = 0
    BY <1>5 DEF Answered, SendingInv, Chat
  <2> QED BY <1>0, <1>5, <2>1 DEF Answered
<1>6. ASSUME NEW r \in {0, 1, -1}, Advanced(t, r) PROVE Sends(t)
  <2>1. CASE msg'[t] = msg[t]
    BY <1>0, <1>6, <2>1 DEF Advanced, SendingInv, Chat, TargetKinds
  <2>2. CASE msg'[t].type = "MESSAGE_DELIVERED" /\ msg'[t].num = msg[t].num
             /\ msg'[t].from = t /\ Rest(t) = {}
    BY <1>0, <1>6, <2>2 DEF Advanced, Chat
  <2> QED BY <1>6, <2>1, <2>2 DEF Advanced
<1>7. Sends(t)
  BY <1>2, <1>3, <1>4, <1>5, <1>6, FreshMessage DEF StepKind
<1>8. \A u \in Conns : Sends(u)
  BY <1>1, <1>7
<1>9. \A u \in Conns :
        /\ pc'[u] \notin {"find", "target", "wait", "hdr", "pay", "raw"} => msg'[u].type = "NONE"
        /\ pc'[u] = "raw" => msg'[u].type = "DOWNLOAD_READY"
  BY DEF OnlyMoves, Placed, SendingInv
<1> HIDE DEF Sends
<1> QED
  <2> USE DEF Sends
  <2> QED BY <1>8, <1>9 DEF SendingInv

LEMMA WireStep ==
  ASSUME TypeInv, RegistryInv, SendingInv, SnapshotInv, WireInv, IdsKept,
         NEW t \in Conns, OnlyMoves(t), StepKind(t)
  PROVE  WireInv'
<1>0. /\ nreq \in Nat /\ nreq' \in {nreq, nreq + 1}
      /\ wire' = wire \/ Wrote(t)
      /\ \A u \in Conns : msg[u].num \in Nat /\ msg[u].num <= nreq
  <2>1. nreq \in Nat /\ nreq' \in {nreq, nreq + 1} /\ (wire' = wire \/ Wrote(t))
    BY MessageShapes, StepFacts
  <2>2. \A u \in Conns : msg[u] \in Frames
    BY MessageShapes
  <2>3. \A u \in Conns : msg[u].num \in Nat
    BY <2>2 DEF Frames
  <2> QED BY <2>1, <2>3 DEF SendingInv
<1>1. \A u \in Conns : msg'[u].type \in TargetKinds =>
        \/ msg'[u] = msg[u]
        \/ msg'[u].num = nreq + 1 /\ u = t /\ msg[t].type = "NONE"
  BY StepFacts DEF OnlyMoves, Fresh
<1> DEFINE Fits(c, f) ==
             /\ f.num <= nreq'
             /\ f.type \in TargetKinds => cid'[c] > 0
             /\ \A u \in Conns :
                   msg'[u].type \in TargetKinds /\ f.type \in TargetKinds /\ f.from = u
                   => f.num <= msg'[u].num
             /\ f.type \in OwnKinds /\ msg'[c].type \in TargetKinds => f.num < msg'[c].num
<1>2. ASSUME NEW c \in Conns, NEW i \in DOMAIN wire[c] PROVE Fits(c, wire[c][i])
  <2> DEFINE f == wire[c][i]
  <2>1. wire[c] \in Seq(Frames)
    BY MessageShapes
  <2>2. f \in Frames
    BY <2>1
  <2>3. f.num \in Nat
    BY <2>2 DEF Frames
  <2>4. /\ f.num <= nreq
        /\ f.type \in TargetKinds => cid[c] > 0
        /\ \A u \in Conns :
              msg[u].type \in TargetKinds /\ f.type \in TargetKinds /\ f.from = u
              => f.num <= msg[u].num
        /\ f.type \in OwnKinds /\ msg[c].type \in TargetKinds => f.num < msg[c].num
    BY DEF WireInv
  <2> HIDE DEF f
  <2>5. f.num <= nreq' /\ f.num < nreq + 1
    BY <1>0, <2>3, <2>4
  <2>6. f.type \in TargetKinds => cid'[c] > 0
    BY <2>4 DEF IdsKept
  <2>7. ASSUME NEW u \in Conns, msg'[u].type \in TargetKinds, f.type \in TargetKinds, f.from = u
        PROVE  f.num <= msg'[u].num
    BY <1>0, <1>1, <2>3, <2>4, <2>5, <2>7
  <2>8. ASSUME f.type \in OwnKinds, msg'[c].type \in TargetKinds
        PROVE  f.num < msg'[c].num
    BY <1>1, <2>4, <2>5, <2>8
  <2> QED BY <2>5, <2>6, <2>7, <2>8 DEF f
<1>3. ASSUME NEW c \in Conns, Wrote(t), c = sock[wfd[t]] PROVE Fits(c, msg[t])
  <2>1. msg[t].num <= nreq'
    BY <1>0
  <2>2. msg[t].type \in TargetKinds => cid'[c] > 0
    BY <1>3, Destination DEF SnapshotInv, IdsKept
  <2>3. ASSUME NEW u \in Conns, msg'[u].type \in TargetKinds, msg[t].type \in TargetKinds,
               msg[t].from = u
        PROVE  msg[t].num <= msg'[u].num
    <3>1. u = t /\ msg'[t] = msg[t]
      BY <1>1, <2>3 DEF SendingInv, TargetKinds
    <3> QED BY <1>0, <3>1
  <2>4. ASSUME msg[t].type \in OwnKinds, msg'[c].type \in TargetKinds PROVE FALSE
    <3>1. c = t
      BY <1>3, <2>4, Destination DEF OwnKinds, TargetKinds
    <3> QED BY <1>1, <2>4, <3>1 DEF OwnKinds, TargetKinds
  <2> QED BY <2>1, <2>2, <2>3, <2>4
<1>4. ASSUME NEW c \in Conns, NEW i \in DOMAIN wire'[c] PROVE Fits(c, wire'[c][i])
  <2>1. CASE i \in DOMAIN wire[c] /\ wire'[c][i] = wire[c][i]
    <3>1. Fits(c, wire[c][i])
      BY <1>2, <2>1
    <3> HIDE DEF Fits
    <3> QED BY <2>1, <3>1
  <2>2. CASE Wrote(t) /\ c = sock[wfd[t]] /\ wire'[c][i] = msg[t]
    <3>1. Fits(c, msg[t])
      BY <1>3, <2>2
    <3> HIDE DEF Fits
    <3> QED BY <2>2, <3>1
  <2> HIDE DEF Fits
  <2> QED BY <1>0, <2>1, <2>2, WireElements
<1> QED BY <1>4 DEF WireInv

\* Types of the snapshots.
TargetTypes ==
    /\ \A u \in Conns : \A g \in targets[u] : g.slot \in Slots /\ g.id \in Nat
    /\ \A u \in Conns : \A g \in todo[u] : g.slot \in Slots /\ g.id \in Nat

LEMMA TargetShapes == TypeInv => TargetTypes
<1> SUFFICES ASSUME TypeInv PROVE TargetTypes
  OBVIOUS
<1>1. \A u \in Conns : targets[u] \subseteq Target /\ todo[u] \subseteq Target
  BY MessageShapes
<1>2. UIntMax \in Nat
  BY ClientManagerAssumption DEF UIntMax
<1>3. \A g \in Target : g.slot \in Slots /\ g.id \in Nat
  BY <1>2 DEF Target
<1> QED BY <1>1, <1>3 DEF TargetTypes

LEMMA TargetShapesNext == TypeInv' => TargetTypes'
  BY TargetShapes, PTL

\* What SnapshotInv says of thread u after a step.
SnapshotNext(u) ==
    /\ todo'[u] \subseteq targets'[u]
    /\ \A g \in targets'[u] : g.id > 0 /\ g.id < next_client_id'
    /\ \A g, h \in targets'[u] : g.id = h.id \/ g.slot = h.slot => g = h
    /\ \A g \in targets'[u], c \in Conns :
          Registered(c)' /\ cid'[c] = g.id => EntryOf(g.slot, c)'
    /\ msg'[u].type = "PRIVATE" =>
          /\ todo'[u] = targets'[u]
          /\ \A g \in targets'[u], c \in Conns :
                cid'[c] = g.id => name'[c] = msg'[u].to /\ c # u

\* A client id of a snapshot names the same connection after the step.
LEMMA OldSnapshot ==
  ASSUME TypeInv, SnapshotInv, IdsKept, EntriesKept, NEW u \in Conns,
         targets'[u] \subseteq targets[u], todo'[u] \subseteq targets'[u],
         msg'[u].type = "PRIVATE" =>
            msg'[u] = msg[u] /\ targets'[u] = targets[u] /\ todo'[u] = todo[u]
  PROVE  SnapshotNext(u)
<1>0. \A g \in targets[u] : g.slot \in Slots /\ g.id \in Nat /\ g.id > 0 /\ g.id < next_client_id
  BY TargetShapes DEF TargetTypes, SnapshotInv
<1>1. next_client_id \in Nat /\ next_client_id' \in Nat /\ next_client_id <= next_client_id'
  BY MessageShapes DEF IdsKept
<1>2. ASSUME NEW g \in targets[u], NEW c \in Conns, cid'[c] = g.id
      PROVE  cid[c] = g.id /\ cid[c] > 0 /\ name'[c] = name[c]
  BY <1>0, <1>1, <1>2 DEF IdsKept
<1>3. ASSUME NEW g \in targets[u], NEW c \in Conns, Registered(c)', cid'[c] = g.id
      PROVE  EntryOf(g.slot, c)'
  <2>1. Registered(c)
    BY <1>0, <1>1, <1>3 DEF EntriesKept
  <2>2. EntryOf(g.slot, c)
    BY <1>2, <1>3, <2>1 DEF SnapshotInv
  <2> QED BY <1>0, <1>3, <2>1, <2>2 DEF EntriesKept
<1>4. ASSUME msg'[u].type = "PRIVATE"
      PROVE  /\ todo'[u] = targets'[u]
             /\ \A g \in targets'[u], c \in Conns :
                   cid'[c] = g.id => name'[c] = msg'[u].to /\ c # u
  BY <1>2, <1>4 DEF SnapshotInv
<1>5. \A g \in targets'[u] : g.id > 0 /\ g.id < next_client_id'
  BY <1>0, <1>1
<1>6. \A g, h \in targets'[u] : g.id = h.id \/ g.slot = h.slot => g = h
  BY DEF SnapshotInv
<1> QED BY <1>3, <1>4, <1>5, <1>6 DEF SnapshotNext

\* The snapshot of a new message is one of the registry as it is.
LEMMA NewSnapshot ==
  ASSUME TypeInv, TypeInv', RegistryInv, IdsKept, EntriesKept, NEW t \in Conns,
         Fresh(t), msg'[t].type \in TargetKinds
  PROVE  SnapshotNext(t)
<1>0. \A g \in targets'[t] :
        /\ g.slot \in Slots /\ clients[g.slot].active /\ g.id = clients[g.slot].client_id
        /\ msg'[t].type = "PRIVATE" =>
             clients[g.slot].username = msg'[t].to /\ msg'[t].to # name[t]
  BY TargetShapesNext DEF TargetTypes, Fresh
<1>1. ASSUME NEW g \in targets'[t]
      PROVE  \E d \in Conns : Registered(d) /\ EntryOf(g.slot, d) /\ cid[d] = g.id
  <2>1. PICK d \in Conns : Registered(d) /\ EntryOf(g.slot, d)
    BY <1>0 DEF RegistryInv, EntryInv
  <2>2. cid[d] = g.id
    BY <1>0, <2>1 DEF EntryOf
  <2> QED BY <2>1, <2>2
<1>2. next_client_id \in Nat /\ next_client_id' \in Nat /\ next_client_id <= next_client_id'
  BY MessageShapes DEF IdsKept
<1>3. \A c \in Conns : cid[c] \in Int /\ cid[c] < next_client_id
  BY MessageShapes DEF RegistryInv, IdInv
<1>4. \A g \in targets'[t] : g.id \in Nat /\ g.id > 0 /\ g.id < next_client_id
  BY <1>1, <1>3, TargetShapesNext DEF TargetTypes, Registered
<1>5. ASSUME NEW g \in targets'[t], NEW c \in Conns, cid[c] = g.id
      PROVE  EntryOf(g.slot, c)
  BY <1>1, <1>4, <1>5 DEF RegistryInv, IdInv
<1>6. ASSUME NEW g \in targets'[t], NEW c \in Conns, cid'[c] = g.id
      PROVE  cid[c] = g.id /\ cid[c] > 0 /\ name'[c] = name[c]
  BY <1>2, <1>4, <1>6 DEF IdsKept
<1>7. ASSUME NEW g \in targets'[t], NEW c \in Conns, Registered(c)', cid'[c] = g.id
      PROVE  EntryOf(g.slot, c)'
  <2>1. Registered(c)
    BY <1>2, <1>4, <1>7 DEF EntriesKept
  <2>2. EntryOf(g.slot, c)
    BY <1>5, <1>6, <1>7
  <2> QED BY <1>0, <1>7, <2>1, <2>2 DEF EntriesKept
<1>8. ASSUME NEW g \in targets'[t], NEW h \in targets'[t], g.id = h.id
      PROVE  g = h
  <2>1. PICK d \in Conns : EntryOf(g.slot, d) /\ cid[d] = g.id
    BY <1>1
  <2>2. EntryOf(h.slot, d)
    BY <1>5, <1>8, <2>1
  <2>3. g.slot = h.slot
    BY <1>0, <2>1, <2>2 DEF RegistryInv, EntryInv, EntryOf
  <2> QED BY <2>3 DEF Fresh
<1>9. ASSUME msg'[t].type = "PRIVATE", NEW g \in targets'[t], NEW c \in Conns, cid'[c] = g.id
      PROVE  name'[c] = msg'[t].to /\ c # t
  <2>1. EntryOf(g.slot, c) /\ name'[c] = name[c]
    BY <1>5, <1>6, <1>9
  <2>2. clients[g.slot].username = name[c]
    BY <2>1 DEF EntryOf
  <2> QED BY <1>0, <1>9, <2>1, <2>2
<1>10. \A g \in targets'[t] : g.id > 0 /\ g.id < next_client_id'
  BY <1>2, <1>4
<1>11. todo'[t] = targets'[t] /\ \A g, h \in targets'[t] : g.slot = h.slot => g = h
  BY DEF Fresh, TargetKinds
<1> QED BY <1>7, <1>8, <1>9, <1>10, <1>11 DEF SnapshotNext

LEMMA SnapshotStep ==
  ASSUME TypeInv, TypeInv', RegistryInv, SendingInv, SnapshotInv, IdsKept, EntriesKept,
         NEW t \in Conns, OnlyMoves(t), StepKind(t)
  PROVE  SnapshotInv'
<1> DEFINE Older(u) ==
             /\ targets'[u] \subseteq targets[u] /\ todo'[u] \subseteq targets'[u]
             /\ msg'[u].type = "PRIVATE" =>
                   msg'[u] = msg[u] /\ targets'[u] = targets[u] /\ todo'[u] = todo[u]
<1>0. \A u \in Conns : todo[u] \subseteq targets[u]
  BY DEF SnapshotInv
<1>1. ASSUME NEW u \in Conns \ {t} PROVE Older(u)
  BY <1>0 DEF OnlyMoves
<1>2. ASSUME Kept(t) PROVE Older(t)
  BY <1>0, <1>2 DEF Kept
<1>3. ASSUME Quiet(t) PROVE Older(t)
  <2>1. todo'[t] = {}
    BY <1>3 DEF Quiet, SendingInv
  <2> QED BY <1>3, <2>1 DEF Quiet, TargetKinds
<1>4. ASSUME Fresh(t), msg'[t].type \notin TargetKinds PROVE Older(t)
  BY <1>0, <1>4 DEF Fresh, TargetKinds
<1>5. ASSUME NEW r \in {0, 1, -1}, Answered(t, r) PROVE Older(t)
  BY <1>5 DEF Answered
<1>6. ASSUME NEW r \in {0, 1, -1}, Advanced(t, r) PROVE Older(t)
  BY <1>0, <1>6 DEF Advanced, Rest
<1>7. Older(t) \/ (Fresh(t) /\ msg'[t].type \in TargetKinds)
  BY <1>2, <1>3, <1>4, <1>5, <1>6, FreshMessage DEF StepKind
<1>8. \A u \in Conns : Older(u) => SnapshotNext(u)
  BY OldSnapshot
<1>9. \A u \in Conns : SnapshotNext(u)
  BY <1>1, <1>7, <1>8, NewSnapshot
<1> QED BY <1>9 DEF SnapshotNext, SnapshotInv

\* The current target is the only one that is served next.
LEMMA OneCurrent ==
  ASSUME TypeInv, SnapshotInv, NEW t \in Conns,
         NEW g \in todo[t], IsCurrent(t, g)
  PROVE  /\ g \in targets[t] /\ g \notin Rest(t)
         /\ \A h \in todo[t] : h \notin Rest(t) => h = g
<1>1. \A h \in todo[t] : h.slot \in Int
  BY TargetShapes DEF TargetTypes, Slots
<1>2. g \in targets[t]
  BY DEF SnapshotInv
<1>3. g \notin Rest(t)
  BY <1>1 DEF Rest, IsCurrent
<1>4. ASSUME NEW h \in todo[t], h \notin Rest(t) PROVE h = g
  <2>1. h.slot = g.slot
    BY <1>1, <1>4 DEF Rest, IsCurrent
  <2>2. h \in targets[t]
    BY DEF SnapshotInv
  <2> QED BY <1>2, <2>1, <2>2 DEF SnapshotInv
<1> QED BY <1>2, <1>3, <1>4

\* Whoever a message is being written to does not have it yet.
LEMMA NotServed ==
  ASSUME TypeInv, RegistryInv, SnapshotInv, ServedInv, NEW t \in Conns, Wrote(t),
         msg[t].type \in TargetKinds, NEW i \in DOMAIN wire[sock[wfd[t]]]
  PROVE  ~IsFrom(wire[sock[wfd[t]]][i], t, msg[t].num)
<1> DEFINE c == sock[wfd[t]]
<1>1. SUFFICES ASSUME IsFrom(wire[c][i], t, msg[t].num) PROVE FALSE
  OBVIOUS
<1>2. PICK g \in todo[t] : cid[c] = g.id /\ c \in Conns
  BY Destination
<1>3. PICK h \in targets[t] \ todo[t] : cid[c] = h.id
  BY <1>1, <1>2 DEF ServedInv
<1> QED BY <1>2, <1>3 DEF SnapshotInv

LEMMA ServedStep ==
  ASSUME TypeInv, RegistryInv, SendingInv, SnapshotInv, WireInv, ServedInv, IdsKept,
         NEW t \in Conns, OnlyMoves(t), StepKind(t)
  PROVE  ServedInv'
<1>0. wire' = wire \/ Wrote(t)
  BY StepFacts
<1> DEFINE Good(u, c, f) ==
             IsFrom(f, u, msg'[u].num) =>
                /\ f.type = msg'[u].type
                /\ \E g \in targets'[u] \ todo'[u] : cid'[c] = g.id
<1>1. ASSUME NEW u \in Conns, NEW c \in Conns, NEW i \in DOMAIN wire[c],
             msg'[u].type \in TargetKinds
      PROVE  Good(u, c, wire[c][i])
  <2> DEFINE f == wire[c][i]
  <2>1. SUFFICES ASSUME IsFrom(f, u, msg'[u].num)
                 PROVE  /\ f.type = msg'[u].type
                        /\ \E g \in targets'[u] \ todo'[u] : cid'[c] = g.id
    OBVIOUS
  <2>2. f.num <= nreq /\ f.num \in Nat /\ nreq \in Nat
    <3>1. wire[c] \in Seq(Frames) /\ nreq \in Nat
      BY MessageShapes
    <3>2. f \in Frames
      BY <3>1
    <3> QED BY <3>1, <3>2 DEF WireInv, Frames
  <2>3. ~(Fresh(t) /\ u = t)
    BY <2>1, <2>2 DEF Fresh, IsFrom
  <2>4. msg'[u] = msg[u] /\ targets'[u] = targets[u] /\ todo'[u] \subseteq todo[u]
    BY <1>1, <2>3, StepFacts DEF OnlyMoves
  <2>5. f.type = msg[u].type /\ \E g \in targets[u] \ todo[u] : cid[c] = g.id
    BY <1>1, <2>1, <2>4 DEF ServedInv
  <2>6. PICK g \in targets[u] \ todo[u] : cid[c] = g.id
    BY <2>5
  <2>7. cid'[c] = g.id
    BY <2>6 DEF SnapshotInv, IdsKept
  <2> QED BY <2>4, <2>5, <2>6, <2>7
<1>2. ASSUME NEW u \in Conns, NEW c \in Conns, wire' # wire, c = sock[wfd[t]],
             msg'[u].type \in TargetKinds
      PROVE  Good(u, c, msg[t])
  <2>1. SUFFICES ASSUME IsFrom(msg[t], u, msg'[u].num)
                 PROVE  /\ msg[t].type = msg'[u].type
                        /\ \E g \in targets'[u] \ todo'[u] : cid'[c] = g.id
    OBVIOUS
  <2>2. u = t
    BY <2>1 DEF IsFrom, SendingInv, TargetKinds
  <2>3. msg'[t] = msg[t] /\ targets'[t] = targets[t] /\ todo'[t] = Rest(t)
    BY <1>2, <2>2, StepFacts DEF Fresh
  <2>4. PICK g \in todo[t] : IsCurrent(t, g) /\ cid[c] = g.id
    BY <1>0, <1>2, <2>1, Destination DEF IsFrom
  <2>5. g \in targets[t] \ Rest(t)
    BY <2>4, OneCurrent
  <2>6. cid'[c] = g.id
    BY <2>4, <2>5 DEF SnapshotInv, IdsKept
  <2> QED BY <2>2, <2>3, <2>5, <2>6
<1> HIDE DEF Good
<1>3. ASSUME NEW u \in Conns, NEW c \in Conns, NEW i \in DOMAIN wire'[c],
             msg'[u].type \in TargetKinds
      PROVE  Good(u, c, wire'[c][i])
  <2>1. CASE i \in DOMAIN wire[c] /\ wire'[c][i] = wire[c][i]
    BY <1>1, <1>3, <2>1
  <2>2. CASE wire' # wire /\ c = sock[wfd[t]] /\ wire'[c][i] = msg[t]
    BY <1>2, <1>3, <2>2
  <2> QED BY <1>0, <2>1, <2>2, WireElements
<1> QED
  <2> USE DEF Good
  <2> QED BY <1>3 DEF ServedInv, IsFrom

LEMMA OrderStep ==
  ASSUME TypeInv, RegistryInv, SendingInv, SnapshotInv, WireInv, ServedInv, BroadcastOrder,
         NEW t \in Conns, StepKind(t)
  PROVE  BroadcastOrder'
<1>0. wire' = wire \/ Wrote(t)
  BY StepFacts
<1> SUFFICES ASSUME NEW c \in Conns, NEW i \in DOMAIN wire'[c], NEW j \in DOMAIN wire'[c],
                    i < j, wire'[c][i].type \in TargetKinds, wire'[c][j].type \in TargetKinds,
                    wire'[c][i].from = wire'[c][j].from
             PROVE  wire'[c][i].num < wire'[c][j].num
  BY DEF BroadcastOrder
<1>1. i \in Int /\ j \in Int
  <2>1. wire[c] \in Seq(Frames) /\ msg[t] \in Frames
    BY MessageShapes
  <2>2. CASE wire'[c] = wire[c]
    BY <2>1, <2>2
  <2>3. CASE wire'[c] = Append(wire[c], msg[t])
    BY <2>1, <2>3
  <2> QED BY <1>0, <2>2, <2>3, MessageShapes DEF Wrote
<1>2. i \in DOMAIN wire[c] /\ wire'[c][i] = wire[c][i]
  BY <1>0, <1>1, WireElements
<1>3. CASE j \in DOMAIN wire[c] /\ wire'[c][j] = wire[c][j]
  BY <1>2, <1>3 DEF BroadcastOrder
<1>4. CASE Wrote(t) /\ c = sock[wfd[t]] /\ wire'[c][j] = msg[t]
  <2> DEFINE f == wire[c][i]
  <2>1. msg[t].from = t /\ msg[t].type \in TargetKinds
    BY <1>4 DEF SendingInv, TargetKinds
  <2>2. f.type \in TargetKinds /\ f.from = t
    BY <1>2, <1>4, <2>1
  <2>3. f.num <= msg[t].num
    BY <1>2, <2>1, <2>2 DEF WireInv
  <2>4. f.num # msg[t].num
    BY <1>2, <1>4, <2>1, <2>2, NotServed DEF IsFrom
  <2>5. f.num \in Nat /\ msg[t].num \in Nat
    <3>1. wire[c] \in Seq(Frames) /\ msg[t] \in Frames
      BY MessageShapes
    <3>2. f \in Frames
      BY <1>2, <3>1
    <3> QED BY <3>1, <3>2 DEF Frames
  <2>6. f.num < msg[t].num
    BY <2>3, <2>4, <2>5
  <2> QED BY <1>2, <1>4, <2>6
<1> QED BY <1>0, <1>3, <1>4, WireElements

\* A message of another thread, of another kind or number has the recipients
\* it had.
LEMMA RecipientsSame ==
  ASSUME TypeInv, SendingInv, NEW t \in Conns, wire' = wire \/ Wrote(t),
         NEW k \in {"BROADCAST", "PRIVATE"}, NEW u, NEW n,
         wire' = wire \/ u # t \/ msg[t].type # k \/ msg[t].num # n
  PROVE  RecipientsNext(k, u, n) = Recipients(k, u, n)
<1>1. CASE wire' = wire
  BY <1>1 DEF RecipientsNext, Recipients
<1>2. CASE u # t \/ msg[t].type # k \/ msg[t].num # n
  <2>1. ~IsMessage(msg[t], k, u, n)
    BY <1>2 DEF IsMessage, SendingInv
  <2> QED BY <2>1, RecipientsStep
<1> QED BY <1>1, <1>2

\* A message with a number that is not in use has no recipients.
LEMMA NoRecipients ==
  ASSUME TypeInv, WireInv, NEW k, NEW u
  PROVE  Recipients(k, u, nreq + 1) = {}
<1> SUFFICES ASSUME NEW c \in Conns, NEW i \in DOMAIN wire[c], wire[c][i].num = nreq + 1
             PROVE  FALSE
  BY DEF Recipients, IsMessage
<1>1. wire[c][i].num <= nreq /\ nreq \in Nat
  BY MessageShapes DEF WireInv
<1> QED BY <1>1

\* The target a broadcast has just dealt with, if it still can get the message,
\* got it: the send succeeded, or the client had left, or its connection broke.
LEMMA TargetServed ==
  ASSUME TypeInv, RegistryInv, SendingInv, SnapshotInv, NEW t \in Conns,
         msg[t].type = "BROADCAST", NEW r \in {0, 1, -1}, Because(t, r),
         NEW g \in todo[t], g \notin Rest(t),
         NEW c \in Conns, Registered(c), cid[c] = g.id, link'[c] # "broken"
  PROVE  c \in RecipientsNext("BROADCAST", t, msg[t].num)
<1>0. msg[t].type \in TargetKinds /\ msg[t].from = t /\ cid[c] > 0
  BY DEF TargetKinds, SendingInv, Registered
<1>1. ASSUME NEW h \in todo[t], IsCurrent(t, h) PROVE h = g
  BY <1>1, OneCurrent
<1>2. ASSUME Wrote(t) \/ Writing(t) PROVE c = sock[wfd[t]]
  <2>1. PICK h \in todo[t] : IsCurrent(t, h) /\ cid[sock[wfd[t]]] = h.id
    BY <1>0, <1>2, Destination
  <2>2. h = g /\ sock[wfd[t]] \in Conns
    BY <1>1, <1>2, <2>1, Destination
  <2> QED BY <1>0, <2>1, <2>2 DEF RegistryInv, IdInv
<1>3. CASE r = 0 /\ Wrote(t)
  <2>1. IsMessage(msg[t], "BROADCAST", t, msg[t].num)
    BY <1>0 DEF IsMessage
  <2>2. c = sock[wfd[t]]
    BY <1>2, <1>3
  <2> QED BY <1>3, <2>1, <2>2, RecipientsStep
<1>4. CASE \E h \in todo[t] : IsCurrent(t, h) /\ ~SameClient(h)
  <2>1. ~SameClient(g)
    BY <1>1, <1>4
  <2>2. g \in targets[t]
    BY DEF SnapshotInv
  <2>3. EntryOf(g.slot, c)
    BY <2>2 DEF SnapshotInv
  <2>4. SameClient(g)
    BY <2>3 DEF SameClient, EntryOf
  <2> QED BY <2>1, <2>4
<1>5. CASE Writing(t) /\ (sock[wfd[t]] \in Conns => link'[sock[wfd[t]]] = "broken")
  BY <1>2, <1>5
<1> QED BY <1>3, <1>4, <1>5 DEF Because

LEMMA CompleteStep ==
  ASSUME TypeInv, RegistryInv, SendingInv, SnapshotInv, CompleteInv, IdsKept, EntriesKept,
         NEW t \in Conns, OnlyMoves(t), StepKind(t)
  PROVE  CompleteInv'
<1>0. wire' = wire \/ Wrote(t)
  BY StepFacts
<1> DEFINE Missed(u) == targets'[u] \ todo'[u]
           Able(g, c) == Registered(c)' /\ cid'[c] = g.id /\ link'[c] # "broken"
           Got(u, c) == c \in RecipientsNext("BROADCAST", u, msg'[u].num)
<1>1. ASSUME NEW u \in Conns, NEW g \in targets[u], NEW c \in Conns, Able(g, c)
      PROVE  Registered(c) /\ cid[c] = g.id /\ link[c] # "broken"
  <2>1. g.id \in Nat /\ g.id > 0 /\ g.id < next_client_id /\ next_client_id \in Nat
    BY TargetShapes, MessageShapes DEF TargetTypes, SnapshotInv
  <2>2. Registered(c) /\ cid[c] = g.id
    BY <1>1, <2>1 DEF EntriesKept, IdsKept
  <2> QED BY <1>1, <2>2 DEF EntriesKept
<1>2. ASSUME NEW u \in Conns, msg[u].type \in Chat, msg'[u].num = msg[u].num,
             NEW g \in targets[u] \ todo[u], NEW c \in Conns, Able(g, c)
      PROVE  Got(u, c)
  <2>1. c \in Recipients("BROADCAST", u, msg[u].num)
    BY <1>1, <1>2 DEF CompleteInv
  <2> QED BY <1>0, <1>2, <2>1, RecipientsStep
<1> DEFINE Done(u) == msg'[u].type \in Chat =>
                        \A g \in Missed(u), c \in Conns : Able(g, c) => Got(u, c)
<1>3. ASSUME NEW u \in Conns, msg'[u] = msg[u], targets'[u] = targets[u], todo'[u] = todo[u]
      PROVE  Done(u)
  <2> HIDE DEF Able, Got
  <2> QED BY <1>2, <1>3
<1>4. ASSUME NEW u \in Conns \ {t} PROVE Done(u)
  BY <1>3 DEF OnlyMoves
<1>5. ASSUME Kept(t) PROVE Done(t)
  BY <1>3, <1>5 DEF Kept
<1>6. ASSUME Quiet(t) PROVE Done(t)
  BY <1>6 DEF Quiet, Chat, TargetKinds, Reports
<1>7. ASSUME Fresh(t) PROVE Done(t)
  BY <1>7 DEF Fresh, Chat, TargetKinds
<1>8. ASSUME NEW r \in {0, 1, -1}, Answered(t, r) PROVE Done(t)
  BY <1>8 DEF Answered, Chat
<1>9. ASSUME NEW r \in {0, 1, -1}, Because(t, r), Advanced(t, r) PROVE Done(t)
  <2>1. /\ msg[t].type = "BROADCAST" /\ msg[t].type \in Chat /\ msg'[t].num = msg[t].num
        /\ targets'[t] = targets[t] /\ todo'[t] = Rest(t)
    BY <1>9 DEF Advanced, Chat
  <2>2. ASSUME NEW g \in targets[t] \ Rest(t), NEW c \in Conns, Able(g, c) PROVE Got(t, c)
    <3>1. CASE g \notin todo[t]
      <4> HIDE DEF Able, Got
      <4> QED BY <1>2, <2>1, <2>2, <3>1
    <3>2. CASE g \in todo[t]
      <4>1. Registered(c) /\ cid[c] = g.id /\ link'[c] # "broken"
        BY <1>1, <2>2
      <4>2. c \in RecipientsNext("BROADCAST", t, msg[t].num)
        BY <1>9, <2>1, <2>2, <3>2, <4>1, TargetServed
      <4> QED BY <2>1, <4>2
    <3> QED BY <3>1, <3>2
  <2> HIDE DEF Able, Got
  <2> QED BY <2>1, <2>2
<1>10. Done(t)
  <2> HIDE DEF Done
  <2> QED BY <1>5, <1>6, <1>7, <1>8, <1>9, FreshMessage DEF StepKind
<1>11. \A u \in Conns : Done(u)
  <2> HIDE DEF Done
  <2> QED BY <1>4, <1>10
<1> QED BY <1>11 DEF CompleteInv, Recipients, RecipientsNext, IsMessage

LEMMA CountStep ==
  ASSUME TypeInv, RegistryInv, SendingInv, SnapshotInv, WireInv, ServedInv, CountInv,
         NEW t \in Conns, OnlyMoves(t), StepKind(t)
  PROVE  CountInv'
<1>0. wire' = wire \/ Wrote(t)
  BY StepFacts
<1> DEFINE Got(u) == RecipientsNext("BROADCAST", u, msg'[u].num)
           Had(u) == Recipients("BROADCAST", u, msg[u].num)
           Counts(u) ==
             /\ msg'[u].type = "BROADCAST" =>
                   IsFiniteSet(Got(u)) /\ successful'[u] = Cardinality(Got(u))
             /\ msg'[u].type = "MESSAGE_DELIVERED" => msg'[u].arg = Cardinality(Got(u))
<1>1. ASSUME NEW u \in Conns, msg'[u] = msg[u], successful'[u] = successful[u],
             Got(u) = Had(u)
      PROVE  Counts(u)
  <2> HIDE DEF Got
  <2> QED BY <1>1 DEF CountInv
<1>2. ASSUME NEW u \in Conns \ {t} PROVE Counts(u)
  <2>1. msg'[u] = msg[u] /\ successful'[u] = successful[u]
    BY DEF OnlyMoves
  <2>2. Got(u) = Had(u)
    BY <1>0, <2>1, RecipientsSame
  <2> HIDE DEF Got, Had, Counts
  <2> QED BY <1>1, <2>1, <2>2
<1>3. ASSUME Kept(t), wire' = wire PROVE Counts(t)
  <2>1. msg'[t] = msg[t] /\ successful'[t] = successful[t]
    BY <1>3 DEF Kept
  <2>2. Got(t) = Had(t)
    BY <1>3, <2>1, RecipientsSame
  <2> HIDE DEF Got, Had, Counts
  <2> QED BY <1>1, <2>1, <2>2
<1>4. ASSUME msg'[t].type \notin Chat PROVE Counts(t)
  BY <1>4 DEF Chat
<1>5. ASSUME Fresh(t) PROVE Counts(t)
  <2>1. Got(t) = {}
    BY <1>0, <1>5, NoRecipients, RecipientsSame DEF Fresh
  <2>2. IsFiniteSet({}) /\ Cardinality({}) = 0
    BY FS_EmptySet
  <2>3. successful'[t] = 0
    BY <1>5 DEF Fresh, SendingInv, Chat
  <2>4. msg'[t].type = "MESSAGE_DELIVERED" => msg'[t].arg = 0
    BY <1>5 DEF Fresh, TargetKinds
  <2> HIDE DEF Got
  <2> QED BY <2>1, <2>2, <2>3, <2>4
<1>6. ASSUME NEW r \in {0, 1, -1}, Because(t, r), Advanced(t, r) PROVE Counts(t)
  <2> DEFINE n == msg[t].num
             R == Recipients("BROADCAST", t, n)
             N == RecipientsNext("BROADCAST", t, n)
  <2>1. IsFiniteSet(R) /\ successful[t] = Cardinality(R) /\ msg[t].type = "BROADCAST"
    BY <1>6 DEF Advanced, CountInv
  <2>2. IsFiniteSet(N) /\ Delivered(t, r) = Cardinality(N)
    <3>1. CASE r = 0 /\ Wrote(t)
      <4> DEFINE c == sock[wfd[t]]
      <4>1. c \in Conns /\ IsMessage(msg[t], "BROADCAST", t, n)
        BY <2>1, <3>1, Destination DEF IsMessage, SendingInv
      <4>2. N = R \union {c}
        BY <3>1, <4>1, RecipientsStep
      <4>3. c \notin R
        <5>1. \A i \in DOMAIN wire[c] : ~IsFrom(wire[c][i], t, n)
          BY <2>1, <3>1, NotServed DEF TargetKinds
        <5> QED BY <5>1 DEF Recipients, IsMessage, IsFrom, TargetKinds
      <4>4. IsFiniteSet(R \union {c}) /\ Cardinality(R \union {c}) = Cardinality(R) + 1
        BY <2>1, <4>3, FS_AddElement
      <4> HIDE DEF R, N
      <4> QED BY <2>1, <3>1, <4>2, <4>4 DEF Delivered
    <3>2. CASE r # 0 /\ wire' = wire
      <4>1. N = R
        BY <3>2, RecipientsSame
      <4>2. successful[t] \in Nat
        BY MessageShapes
      <4> HIDE DEF R, N
      <4> QED BY <2>1, <3>2, <4>1, <4>2 DEF Delivered
    <3> QED BY <1>6, <3>1, <3>2 DEF Because
  <2>3. Got(t) = N
    BY <1>6 DEF Advanced
  <2>4. successful'[t] = Delivered(t, r)
    BY <1>6 DEF Advanced
  <2>5. msg'[t].type = "MESSAGE_DELIVERED" => msg'[t].arg = Delivered(t, r)
    BY <1>6 DEF Advanced
  <2> HIDE DEF Got, N
  <2> QED BY <2>2, <2>3, <2>4, <2>5
<1>7. ASSUME NEW r \in {0, 1, -1}, Answered(t, r) PROVE msg'[t].type \notin Chat
  BY <1>7 DEF Answered, Chat
<1>8. ASSUME Quiet(t) PROVE msg'[t].type \notin Chat
  BY <1>8 DEF Quiet, Chat, TargetKinds, Reports
<1>9. ASSUME Kept(t), msg[t].type = "DOWNLOAD_READY" PROVE msg'[t].type \notin Chat
  BY <1>9 DEF Kept, Chat
<1> HIDE DEF Counts
<1>10. Counts(t)
  BY <1>3, <1>4, <1>5, <1>6, <1>7, <1>8, <1>9, FreshMessage DEF StepKind
<1>11. \A u \in Conns : Counts(u)
  BY <1>2, <1>10
<1> QED
  <2> USE DEF Counts
  <2> QED BY <1>11 DEF CountInv, Recipients, RecipientsNext, IsMessage

LEMMA OutcomeStep ==
  ASSUME TypeInv, RegistryInv, SendingInv, SnapshotInv, WireInv, ServedInv, OutcomeInv,
         NEW t \in Conns, OnlyMoves(t), StepKind(t)
  PROVE  OutcomeInv'
<1>0. wire' = wire \/ Wrote(t)
  BY StepFacts
<1> DEFINE Got(u) == RecipientsNext("PRIVATE", u, msg'[u].num)
           Had(u) == Recipients("PRIVATE", u, msg[u].num)
           True(u) ==
             /\ msg'[u].type = "PRIVATE_MESSAGE_DELIVERED" => Got(u) # {}
             /\ msg'[u].type \in {"USER_NOT_FOUND", "PRIVATE_MESSAGE_FAILED"} => Got(u) = {}
<1>1. ASSUME NEW u \in Conns, msg'[u] = msg[u], Got(u) = Had(u) PROVE True(u)
  <2> HIDE DEF Got
  <2> QED BY <1>1 DEF OutcomeInv
<1>2. ASSUME NEW u \in Conns \ {t} PROVE True(u)
  <2>1. msg'[u] = msg[u]
    BY DEF OnlyMoves
  <2>2. Got(u) = Had(u)
    BY <1>0, <2>1, RecipientsSame
  <2> HIDE DEF Got, Had, True
  <2> QED BY <1>1, <2>1, <2>2
<1>3. ASSUME Kept(t), wire' = wire PROVE True(t)
  <2>1. msg'[t] = msg[t]
    BY <1>3 DEF Kept
  <2>2. Got(t) = Had(t)
    BY <1>3, <2>1, RecipientsSame
  <2> HIDE DEF Got, Had, True
  <2> QED BY <1>1, <2>1, <2>2
<1>4. ASSUME msg'[t].type \notin Reports \/ msg'[t].type = "MESSAGE_DELIVERED" PROVE True(t)
  BY <1>4 DEF Reports
<1>5. ASSUME Fresh(t) PROVE True(t)
  <2>1. Got(t) = {}
    BY <1>0, <1>5, NoRecipients, RecipientsSame DEF Fresh
  <2>2. msg'[t].type # "PRIVATE_MESSAGE_DELIVERED"
    BY <1>5 DEF Fresh, TargetKinds
  <2> HIDE DEF Got
  <2> QED BY <2>1, <2>2
<1>6. ASSUME NEW r \in {0, 1, -1}, Because(t, r), Answered(t, r) PROVE True(t)
  <2> DEFINE n == msg[t].num
  <2>1. msg[t].type = "PRIVATE" /\ Got(t) = RecipientsNext("PRIVATE", t, n)
    BY <1>6 DEF Answered
  <2>2. CASE r = 0 /\ Wrote(t)
    <3>1. sock[wfd[t]] \in Conns /\ IsMessage(msg[t], "PRIVATE", t, n)
      BY <2>1, <2>2, Destination DEF IsMessage, SendingInv
    <3>2. sock[wfd[t]] \in RecipientsNext("PRIVATE", t, n)
      BY <2>2, <3>1, RecipientsStep
    <3>3. msg'[t].type = "PRIVATE_MESSAGE_DELIVERED"
      BY <1>6, <2>2 DEF Answered
    <3> HIDE DEF Got
    <3> QED BY <2>1, <3>2, <3>3
  <2>3. CASE r # 0 /\ wire' = wire
    <3>1. Recipients("PRIVATE", t, n) = {}
      <4> SUFFICES ASSUME NEW c \in Recipients("PRIVATE", t, n) PROVE FALSE
        OBVIOUS
      <4>1. PICK i \in DOMAIN wire[c] : IsFrom(wire[c][i], t, n)
        BY DEF Recipients, IsMessage, IsFrom, TargetKinds
      <4>2. c \in Conns /\ msg[t].type \in TargetKinds
        BY <2>1 DEF Recipients, TargetKinds
      <4>3. PICK g \in targets[t] \ todo[t] : TRUE
        BY <4>1, <4>2 DEF ServedInv
      <4> QED BY <2>1, <4>3 DEF SnapshotInv
    <3>2. RecipientsNext("PRIVATE", t, n) = {}
      BY <2>3, <3>1, RecipientsSame
    <3>3. msg'[t].type # "PRIVATE_MESSAGE_DELIVERED"
      BY <1>6, <2>3 DEF Answered
    <3> HIDE DEF Got
    <3> QED BY <2>1, <3>2, <3>3
  <2> QED BY <1>6, <2>2, <2>3 DEF Because
<1>7. ASSUME NEW r \in {0, 1, -1}, Advanced(t, r)
      PROVE  msg'[t].type \notin Reports \/ msg'[t].type = "MESSAGE_DELIVERED"
  BY <1>7 DEF Advanced, Reports
<1>8. ASSUME Quiet(t) PROVE msg'[t].type \notin Reports
  BY <1>8 DEF Quiet
<1>9. ASSUME Kept(t), msg[t].type = "DOWNLOAD_READY" PROVE msg'[t].type \notin Reports
  BY <1>9 DEF Kept, Reports
<1> HIDE DEF True
<1>10. True(t)
  BY <1>3, <1>4, <1>5, <1>6, <1>7, <1>8, <1>9, FreshMessage DEF StepKind
<1>11. \A u \in Conns : True(u)
  BY <1>2, <1>10
<1> QED
  <2> USE DEF True
  <2> QED BY <1>11 DEF OutcomeInv, Recipients, RecipientsNext, IsMessage

\* A report that is on the wire is about a message that is over: whatever is
\* written later does not change who has that message.
LEMMA ReportedStays ==
  ASSUME TypeInv, RegistryInv, SendingInv, WireInv, NEW t \in Conns, wire' = wire \/ Wrote(t),
         NEW k \in {"BROADCAST", "PRIVATE"},
         NEW c \in Conns, NEW i \in DOMAIN wire[c], wire[c][i].type \in OwnKinds
  PROVE  RecipientsNext(k, c, wire[c][i].num) = Recipients(k, c, wire[c][i].num)
<1> DEFINE n == wire[c][i].num
<1>1. wire' = wire \/ c # t \/ msg[t].type # k \/ msg[t].num # n
  <2> SUFFICES ASSUME c = t, msg[t].type = k, msg[t].num = n PROVE FALSE
    OBVIOUS
  <2>1. n < msg[t].num
    BY DEF WireInv, TargetKinds
  <2>2. msg[t] \in Frames
    BY MessageShapes
  <2>3. msg[t].num \in Nat
    BY <2>2 DEF Frames
  <2> QED BY <2>1, <2>3
<1> HIDE DEF n
<1> QED BY <1>1, RecipientsSame DEF n

LEMMA DeliveredStep ==
  ASSUME TypeInv, RegistryInv, SendingInv, WireInv, CountInv, DeliveredCount,
         NEW t \in Conns, StepKind(t)
  PROVE  DeliveredCount'
<1>0. wire' = wire \/ Wrote(t)
  BY StepFacts
<1> DEFINE Counted(c, f) ==
             f.type = "MESSAGE_DELIVERED" =>
                f.arg = Cardinality(RecipientsNext("BROADCAST", c, f.num))
<1>1. ASSUME NEW c \in Conns, NEW i \in DOMAIN wire[c] PROVE Counted(c, wire[c][i])
  <2> SUFFICES ASSUME wire[c][i].type = "MESSAGE_DELIVERED"
               PROVE  wire[c][i].arg =
                        Cardinality(RecipientsNext("BROADCAST", c, wire[c][i].num))
    OBVIOUS
  <2>1. wire[c][i].type \in OwnKinds
    BY DEF OwnKinds
  <2>2. RecipientsNext("BROADCAST", c, wire[c][i].num)
          = Recipients("BROADCAST", c, wire[c][i].num)
    BY <1>0, <2>1, ReportedStays
  <2> QED BY <2>2 DEF DeliveredCount
<1>2. ASSUME NEW c \in Conns, Wrote(t), c = sock[wfd[t]] PROVE Counted(c, msg[t])
  <2> SUFFICES ASSUME msg[t].type = "MESSAGE_DELIVERED"
               PROVE  msg[t].arg = Cardinality(RecipientsNext("BROADCAST", c, msg[t].num))
    OBVIOUS
  <2>1. c = t
    BY <1>2, Destination DEF TargetKinds
  <2>2. RecipientsNext("BROADCAST", t, msg[t].num) = Recipients("BROADCAST", t, msg[t].num)
    BY <1>0, RecipientsSame
  <2> QED BY <2>1, <2>2 DEF CountInv
<1> HIDE DEF Counted
<1>3. ASSUME NEW c \in Conns, NEW i \in DOMAIN wire'[c] PROVE Counted(c, wire'[c][i])
  BY <1>0, <1>1, <1>2, <1>3, WireElements
<1> QED
  <2> USE DEF Counted
  <2> QED BY <1>3 DEF DeliveredCount, Recipients, RecipientsNext, IsMessage

LEMMA PrivateStep ==
  ASSUME TypeInv, RegistryInv, SendingInv, SnapshotInv, WireInv, OutcomeInv, PrivateOutcome,
         IdsKept, NEW t \in Conns, StepKind(t)
  PROVE  PrivateOutcome'
<1>0. wire' = wire \/ Wrote(t)
  BY StepFacts
<1> DEFINE Addressed(c, f) == f.type = "PRIVATE" => f.to = name'[c] /\ f.from # c
           Reported(c, f) ==
             /\ f.type = "PRIVATE_MESSAGE_DELIVERED" =>
                   RecipientsNext("PRIVATE", c, f.num) # {}
             /\ f.type \in {"USER_NOT_FOUND", "PRIVATE_MESSAGE_FAILED"} =>
                   RecipientsNext("PRIVATE", c, f.num) = {}
           Answers == {"PRIVATE_MESSAGE_DELIVERED", "USER_NOT_FOUND", "PRIVATE_MESSAGE_FAILED"}
<1>1. ASSUME NEW c \in Conns, NEW i \in DOMAIN wire[c]
      PROVE  Addressed(c, wire[c][i]) /\ Reported(c, wire[c][i])
  <2> DEFINE f == wire[c][i]
  <2>1. Addressed(c, f)
    <3> SUFFICES ASSUME f.type = "PRIVATE" PROVE f.to = name'[c] /\ f.from # c
      OBVIOUS
    <3>1. f.to = name[c] /\ f.from # c
      BY DEF PrivateOutcome
    <3>2. cid[c] > 0
      BY DEF WireInv, TargetKinds
    <3> QED BY <3>1, <3>2 DEF IdsKept
  <2>2. Reported(c, f)
    <3> SUFFICES ASSUME f.type \in Answers PROVE Reported(c, f)
      OBVIOUS
    <3>1. f.type \in OwnKinds
      BY DEF OwnKinds
    <3>2. RecipientsNext("PRIVATE", c, f.num) = Recipients("PRIVATE", c, f.num)
      BY <1>0, <3>1, ReportedStays
    <3> QED BY <3>2 DEF PrivateOutcome
  <2> QED BY <2>1, <2>2
<1>2. ASSUME NEW c \in Conns, Wrote(t), c = sock[wfd[t]]
      PROVE  Addressed(c, msg[t]) /\ Reported(c, msg[t])
  <2>1. Addressed(c, msg[t])
    <3> SUFFICES ASSUME msg[t].type = "PRIVATE" PROVE msg[t].to = name'[c] /\ msg[t].from # c
      OBVIOUS
    <3>1. PICK g \in todo[t] : cid[c] = g.id
      BY <1>2, Destination DEF TargetKinds
    <3>2. name[c] = msg[t].to /\ c # t /\ cid[c] > 0
      BY <3>1 DEF SnapshotInv
    <3>3. name'[c] = name[c]
      BY <3>2 DEF IdsKept
    <3> QED BY <3>2, <3>3 DEF SendingInv
  <2>2. Reported(c, msg[t])
    <3> SUFFICES ASSUME msg[t].type \in Answers PROVE Reported(c, msg[t])
      OBVIOUS
    <3>1. c = t
      BY <1>2, Destination DEF TargetKinds
    <3>2. RecipientsNext("PRIVATE", t, msg[t].num) = Recipients("PRIVATE", t, msg[t].num)
      BY <1>0, RecipientsSame
    <3> QED BY <3>1, <3>2 DEF OutcomeInv
  <2> QED BY <2>1, <2>2
<1> HIDE DEF Addressed, Reported
<1>3. ASSUME NEW c \in Conns, NEW i \in DOMAIN wire'[c]
      PROVE  Addressed(c, wire'[c][i]) /\ Reported(c, wire'[c][i])
  BY <1>0, <1>1, <1>2, <1>3, WireElements
<1> QED
  <2> USE DEF Addressed, Reported
  <2> QED BY <1>3 DEF PrivateOutcome, Recipients, RecipientsNext, IsMessage

-----------------------------------------------------------------------------
(* The invariant of the messages.                                          *)

LEMMA MessageInit == Init => MessageInv
<1> SUFFICES ASSUME Init PROVE MessageInv
  OBVIOUS
<1>0. /\ NoMsg.type = "NONE" /\ NoMsg.num = 0
      /\ \A t \in Conns : msg[t] = NoMsg /\ wire[t] = <<>> /\ todo[t] = {} /\ targets[t] = {}
                          /\ successful[t] = 0 /\ pc[t] = "new"
      /\ nreq = 0
  BY DEF Init, NoMsg, Frame
<1>1. \A c \in Conns : DOMAIN wire[c] = {}
  BY <1>0
<1>2. SendingInv
  BY <1>0 DEF SendingInv
<1>3. WireInv /\ ServedInv /\ BroadcastOrder /\ DeliveredCount /\ PrivateOutcome
  BY <1>1 DEF WireInv, ServedInv, BroadcastOrder, DeliveredCount, PrivateOutcome
<1>4. SnapshotInv
  BY <1>0 DEF SnapshotInv
<1>5. CompleteInv /\ CountInv /\ OutcomeInv
  BY <1>0 DEF CompleteInv, CountInv, OutcomeInv, Chat
<1> QED BY <1>2, <1>3, <1>4, <1>5 DEF MessageInv

LEMMA MessageStep ==
    ASSUME NoOverflow
    PROVE  TypeInv /\ RegistryInv /\ MessageInv /\ [Next]_vars => MessageInv'
<1> SUFFICES ASSUME TypeInv, RegistryInv, MessageInv, [Next]_vars PROVE MessageInv'
  OBVIOUS
<1>1. CASE Conns = {}
  BY <1>1 DEF MessageInv, SendingInv, WireInv, SnapshotInv, ServedInv, CompleteInv, CountInv,
     OutcomeInv, BroadcastOrder, DeliveredCount, PrivateOutcome
<1>2. CASE Conns # {}
  <2> USE DEF MessageInv
  <2>0. TypeInv' /\ IdsKept /\ EntriesKept
    BY TypeStep, RegistrySide
  <2>1. PICK t \in Conns : OnlyMoves(t) /\ Placed(t) /\ StepKind(t)
    BY <1>2, NextKind
  <2>2. SendingInv' /\ WireInv' /\ SnapshotInv'
    BY <2>0, <2>1, SendingStep, WireStep, SnapshotStep
  <2>3. ServedInv' /\ CompleteInv' /\ CountInv' /\ OutcomeInv'
    BY <2>0, <2>1, ServedStep, CompleteStep, CountStep, OutcomeStep
  <2>4. BroadcastOrder' /\ DeliveredCount' /\ PrivateOutcome'
    BY <2>0, <2>1, OrderStep, DeliveredStep, PrivateStep
  <2> QED BY <2>2, <2>3, <2>4
<1> QED BY <1>1, <1>2

\* Below 2^31 logins the invariant of the messages holds at every step: what
\* the threads of client_handler.c send, whom client_manager_broadcast and
\* client_manager_send_to_username took into their snapshots, who of them was
\* served, and what the sender is told.
THEOREM MessageInvariant ==
    ASSUME NoOverflow PROVE Spec => []MessageInv
  BY MessageInit, MessageStep, RegistryInvariant, PTL DEF Spec

\* Below 2^31 logins every client sees the chat and private messages of any one
\* sender in the order of their requests and none twice, however the threads
\* that run send_to_target on the same socket interleave.
THEOREM BroadcastsOrdered ==
    ASSUME NoOverflow PROVE Spec => []BroadcastOrder
<1>1. MessageInv => BroadcastOrder
  BY DEF MessageInv
<1> QED BY <1>1, MessageInvariant, PTL

\* Below 2^31 logins a broadcast that is over was written to every client of
\* its snapshot that is still registered and whose connection has not failed:
\* the loop of client_manager_broadcast goes on after a failed send and after a
\* client that left, and a reused slot is not taken for its former client.
THEOREM BroadcastsComplete ==
    ASSUME NoOverflow PROVE Spec => []BroadcastComplete
<1>1. MessageInv => BroadcastComplete
  BY DEF MessageInv, SendingInv, CompleteInv, BroadcastComplete, TargetKinds, Chat
<1> QED BY <1>1, MessageInvariant, PTL

\* Below 2^31 logins the number in every MESSAGE_DELIVERED is the number of
\* clients that the message was written to: client_manager_broadcast counts its
\* successful sends, and no client is served twice.
THEOREM DeliveredCounts ==
    ASSUME NoOverflow PROVE Spec => []DeliveredCount
<1>1. MessageInv => DeliveredCount
  BY DEF MessageInv
<1> QED BY <1>1, MessageInvariant, PTL

\* Below 2^31 logins a private message is written to nobody but the user it
\* names, and the answer of client_manager_send_to_username tells the sender
\* whether it was written, although the user may log out, and another one take
\* the slot, between the lookup and the send.
THEOREM PrivateOutcomes ==
    ASSUME NoOverflow PROVE Spec => []PrivateOutcome
<1>1. MessageInv => PrivateOutcome
  BY DEF MessageInv
<1> QED BY <1>1, MessageInvariant, PTL
=============================================================================
