-------------------------- MODULE ClientManagerProofs --------------------------
(***************************************************************************)
(* Theorems about ClientManager, for any number of connections,            *)
(* descriptors, users and slots.                                           *)
(***************************************************************************)
EXTENDS ClientManagerInv, FiniteSetTheorems, TLAPS

USE ClientManagerAssumption

-----------------------------------------------------------------------------
(* Data.                                                                   *)

\* A frame built from typed parts is a frame.
LEMMA FrameType ==
    ASSUME NEW k \in Kinds, NEW c \in Conns \union {None}, NEW n \in Nat,
           NEW u \in Users \union {None}, NEW a \in Nat
    PROVE  Frame(k, c, n, u, a) \in Frames
  BY DEF Frame, Frames

\* A frame has the type it was built with.
LEMMA FrameKind == \A k, c, n, u, a : Frame(k, c, n, u, a).type = k
  BY DEF Frame

\* The frames the threads send are frames.
LEMMA RawFrame == \A k \in RawKinds, c \in Conns : Frame(k, c, 0, None, 0) \in Frames
  BY FrameType DEF Kinds

\* So are the replies a thread sends to its own client.
LEMMA OwnFrame ==
    \A k \in OwnKinds, c \in Conns, n \in Nat, u \in Users \union {None}, a \in Nat :
        Frame(k, c, n, u, a) \in Frames
  BY FrameType DEF Kinds

\* So are the messages send_to_target sends.
LEMMA TargetFrame ==
    \A k \in TargetKinds, c \in Conns, n \in Nat, u \in Users \union {None} :
        Frame(k, c, n, u, 0) \in Frames
  BY FrameType DEF Kinds

\* The empty message is a frame.
LEMMA NoMsgType == NoMsg \in Frames
  BY DEF NoMsg, Frame, Frames, Kinds

\* The ids client_manager_add hands out stay in range when they wrap.
LEMMA SuccType == \A id \in 0 .. UIntMax : Succ(id) \in 0 .. UIntMax
  BY DEF Succ, UIntMax

\* The client's parser goes from parser states to parser states, and expects
\* raw data only when some is left.
LEMMA ParserType ==
    ASSUME NEW p \in ParserStates, NEW m \in Frames, p.at = "raw" => p.left > 0
    PROVE  /\ AfterHeader(p) \in ParserStates
           /\ AfterPayload(p, m) \in ParserStates
           /\ AfterRaw(p) \in ParserStates
           /\ AfterHeader(p).at # "raw"
           /\ AfterPayload(p, m).at = "raw" => AfterPayload(p, m).left > 0
           /\ AfterRaw(p).at = "raw" => AfterRaw(p).left > 0
  BY DEF ParserStates, AfterHeader, AfterPayload, AfterRaw, AtHeader, Desync, Frames

-----------------------------------------------------------------------------
(* What a step of the send path leaves in the calling thread.              *)

\* The next place and message of thread t after SendReturns.
ReturnsTo(t, l, m) ==
    /\ pc' = [pc EXCEPT ![t] = l]
    /\ msg' = [msg EXCEPT ![t] = m]
    /\ l \in {"login", "close", "idle", "remove", "find", "target"}
    /\ m \in Frames
    /\ l = "find" => m.type \in OwnKinds
    /\ l = "target" => m.type \in TargetKinds
    /\ msg[t].type \in RawKinds => l \in {"login", "close"}
    /\ msg[t].type \notin RawKinds /\ cid[t] > 0 =>
          l \in {"idle", "remove", "find", "target"}

\* When a send returns, the thread is at one of the places that follow it,
\* and only its own variables have changed.
LEMMA SendReturnsShape ==
    ASSUME TypeOK, NEW t \in Conns, NEW r \in {0, 1, -1}, SendReturns(t, r)
    PROVE  /\ \E l, m : ReturnsTo(t, l, m)
           /\ targets' \in [Conns -> SUBSET Target]
           /\ todo' \in [Conns -> SUBSET Target]
           /\ successful' \in [Conns -> Nat]
           /\ \A d \in Conns \ {t} : todo'[d] = todo[d]
           /\ nreq' = nreq
<1> DEFINE kind == msg[t].type
<1> USE DEF TypeOK, DeliveryType, CallType, IdentType
<1>1. CASE kind \in RawKinds
  <2>1. \E l : l \in {"login", "close"} /\ ReturnsTo(t, l, NoMsg)
    BY <1>1, NoMsgType DEF SendReturns, ReturnsTo, RawKinds, LoginErrors, Continue
  <2>2. UNCHANGED <<delivery, nreq>>
    BY <1>1 DEF SendReturns, RawKinds, LoginErrors
  <2> QED BY <2>1, <2>2 DEF delivery
<1>2. CASE kind \in {"LOGIN_SUCCESS", "FILE_REPLY", "DOWNLOAD_READY", "GOODBYE"}
  <2>1. \E l : ReturnsTo(t, l, NoMsg)
    BY <1>2, NoMsgType DEF SendReturns, ReturnsTo, RawKinds, LoginErrors, Continue
  <2>2. UNCHANGED <<delivery, nreq>>
    BY <1>2 DEF SendReturns, RawKinds, LoginErrors
  <2> QED BY <2>1, <2>2 DEF delivery
<1>3. CASE kind \in {"REPLY", "MESSAGE_DELIVERED", "USER_NOT_FOUND",
                     "PRIVATE_MESSAGE_DELIVERED", "PRIVATE_MESSAGE_FAILED"}
  <2>1. ReturnsTo(t, "idle", NoMsg)
    BY <1>3, NoMsgType DEF SendReturns, ReturnsTo, RawKinds, LoginErrors, Continue
  <2>2. /\ targets' = [targets EXCEPT ![t] = {}]
        /\ successful' = [successful EXCEPT ![t] = 0]
        /\ UNCHANGED <<todo, nreq>>
    BY <1>3 DEF SendReturns, RawKinds, LoginErrors
  <2> QED BY <2>1, <2>2
<1>4. CASE kind = "PRIVATE"
  <2>1. \E k \in OwnKinds : Reply(t, k, msg[t].num, 0)
    BY <1>4 DEF SendReturns, RawKinds, LoginErrors, OwnKinds
  <2>2. PICK k \in OwnKinds : Reply(t, k, msg[t].num, 0)
    BY <2>1
  <2>3. Frame(k, t, msg[t].num, name[t], 0) \in Frames
    BY FrameType DEF Frames, Kinds
  <2>4. ReturnsTo(t, "find", Frame(k, t, msg[t].num, name[t], 0))
    BY <1>4, <2>2, <2>3 DEF Reply, ReturnsTo, RawKinds, LoginErrors, Frame
  <2>5. /\ todo' = [todo EXCEPT ![t] = {}]
        /\ UNCHANGED <<targets, successful, nreq>>
    BY <1>4 DEF SendReturns, RawKinds, LoginErrors
  <2> QED BY <2>4, <2>5
<1>5. CASE kind = "BROADCAST"
  <2>1. Delivered(t, r) \in Nat /\ Rest(t) \in SUBSET Target
    BY DEF Delivered, Rest
  <2>2. Frame("MESSAGE_DELIVERED", t, msg[t].num, name[t], Delivered(t, r)) \in Frames
    BY <2>1, FrameType DEF Frames, Kinds, OwnKinds
  <2>3. \/ ReturnsTo(t, "target", msg[t])
        \/ ReturnsTo(t, "find", Frame("MESSAGE_DELIVERED", t, msg[t].num, name[t],
                                      Delivered(t, r)))
    BY <1>5, <2>2 DEF SendReturns, Reply, ReturnsTo, RawKinds, LoginErrors, OwnKinds,
                      TargetKinds, Frame
  <2>4. /\ todo' = [todo EXCEPT ![t] = Rest(t)]
        /\ successful' = [successful EXCEPT ![t] = Delivered(t, r)]
        /\ UNCHANGED <<targets, nreq>>
    BY <1>5 DEF SendReturns, RawKinds, LoginErrors
  <2> QED BY <2>1, <2>3, <2>4
<1> QED
  BY <1>1, <1>2, <1>3, <1>4, <1>5 DEF SendReturns

\* FinishSend releases the send_mutex, forgets the slot and the descriptor,
\* and returns like SendReturns.
LEMMA FinishSendShape ==
    ASSUME TypeOK, NEW t \in Conns, NEW r \in {0, 1, -1}, FinishSend(t, r)
    PROVE  /\ \E l, m : ReturnsTo(t, l, m)
           /\ send_mutex' = IF slot[t] = None THEN send_mutex
                            ELSE [send_mutex EXCEPT ![slot[t]] = None]
           /\ slot' = [slot EXCEPT ![t] = None]
           /\ wfd' = [wfd EXCEPT ![t] = None]
           /\ targets' \in [Conns -> SUBSET Target]
           /\ todo' \in [Conns -> SUBSET Target]
           /\ successful' \in [Conns -> Nat]
           /\ \A d \in Conns \ {t} : todo'[d] = todo[d]
           /\ nreq' = nreq
  BY SendReturnsShape DEF FinishSend

-----------------------------------------------------------------------------
(* Type correctness.                                                       *)

\* The first state is well typed.
LEMMA TypeInit == Init => TypeInv
<1> SUFFICES ASSUME Init PROVE TypeInv
  OBVIOUS
<1>1. EmptyEntry \in Entry
  BY DEF EmptyEntry, Entry, UIntMax
<1>2. RegistryType /\ MutexType
  BY <1>1 DEF Init, RegistryType, MutexType, UIntMax
<1>3. NetType /\ RawPending
  BY DEF Init, NetType, RawPending, ParserStates, AtHeader
<1>4. IdentType /\ DeliveryType
  BY DEF Init, IdentType, DeliveryType
<1>5. CallType /\ SlotsResolved
  BY NoMsgType DEF Init, CallType, SlotsResolved, Pcs
<1> QED
  BY <1>2, <1>3, <1>4, <1>5 DEF TypeInv, TypeOK

\* Variables that do not change keep their types.
LEMMA TypeUnchanged ==
    /\ RegistryType /\ UNCHANGED registry => RegistryType'
    /\ MutexType /\ UNCHANGED mutexes => MutexType'
    /\ NetType /\ RawPending /\ UNCHANGED net => NetType' /\ RawPending'
    /\ IdentType /\ UNCHANGED ident => IdentType'
    /\ DeliveryType /\ UNCHANGED delivery => DeliveryType'
    /\ CallType /\ SlotsResolved /\ UNCHANGED <<pc, msg, slot, wfd, remaining, nreq>>
          => CallType' /\ SlotsResolved'
<1>1. RegistryType /\ UNCHANGED registry => RegistryType'
  BY DEF RegistryType, registry
<1>2. MutexType /\ UNCHANGED mutexes => MutexType'
  BY DEF MutexType, mutexes
<1>3. NetType /\ RawPending /\ UNCHANGED net => NetType' /\ RawPending'
  BY DEF NetType, RawPending, net
<1>4. IdentType /\ UNCHANGED ident => IdentType'
  BY DEF IdentType, ident
<1>5. DeliveryType /\ UNCHANGED delivery => DeliveryType'
  BY DEF DeliveryType, delivery
<1>6. CallType /\ SlotsResolved /\ UNCHANGED <<pc, msg, slot, wfd, remaining, nreq>>
          => CallType' /\ SlotsResolved'
  BY DEF CallType, SlotsResolved
<1> QED
  BY <1>1, <1>2, <1>3, <1>4, <1>5, <1>6

\* A thread that starts a send, or waits to be registered, keeps its types.
LEMMA CallStep ==
    ASSUME CallType, SlotsResolved, NEW t \in Conns,
           NEW l \in Pcs \ {"wait", "rmwait", "rmunlock"}, NEW m \in Frames,
           pc' = [pc EXCEPT ![t] = l], msg' = [msg EXCEPT ![t] = m],
           slot' = slot \/ slot' = [slot EXCEPT ![t] = None],
           wfd' \in [Conns -> Fds \union {None}],
           remaining' \in [Conns -> Nat], nreq' \in Nat
    PROVE  CallType' /\ SlotsResolved'
  BY DEF CallType, SlotsResolved

\* Every step of the environment keeps the types.
LEMMA TypeEnvironment ==
    ASSUME TypeInv, NEW t \in Conns, Environment(t)
    PROVE  TypeInv'
<1> USE TypeUnchanged DEF TypeInv, TypeOK
<1>0. /\ {"hdr", "find", "target"} \subseteq Pcs \ {"wait", "rmwait", "rmunlock"}
      /\ nreq \in Nat /\ nreq + 1 \in Nat
      /\ wfd \in [Conns -> Fds \union {None}]
      /\ \A f \in Fds \union {None} : [wfd EXCEPT ![t] = f] \in [Conns -> Fds \union {None}]
      /\ remaining \in [Conns -> Nat] /\ name[t] \in Users \union {None}
      /\ fd[t] \in Fds \union {None}
  BY DEF Pcs, CallType, IdentType
<1>1. ASSUME NEW f \in Fds, Accept(t, f) PROVE TypeInv'
  <2>0. Frame("USERNAME_REQUIRED", t, 0, None, 0) \in Frames
    BY RawFrame DEF RawKinds
  <2>1. CallType' /\ SlotsResolved'
    BY <1>0, <1>1, <2>0, CallStep DEF Accept
  <2>2. NetType' /\ RawPending' /\ IdentType'
    BY <1>1 DEF Accept, NetType, IdentType, RawPending
  <2> QED BY <1>1, <2>1, <2>2 DEF Accept
<1>2. ASSUME NEW k \in RawKinds, Reject(t, k), UNCHANGED <<slot, remaining, nreq>>
      PROVE  CallType' /\ SlotsResolved'
  BY <1>0, <1>2, CallStep, RawFrame DEF Reject
<1>3. CASE RejectLogin(t)
  <2>1. CallType' /\ SlotsResolved'
    BY <1>2, <1>3 DEF RejectLogin, RawKinds, LoginErrors
  <2> QED BY <1>3, <2>1 DEF RejectLogin
<1>4. ASSUME NEW u \in Users, client_manager_add(t, u) PROVE TypeInv'
  <2>1. NewEntry(t, u) \in Entry
    BY <1>0 DEF NewEntry, Entry, RegistryType
  <2>2. RegistryType'
    BY <1>4, <2>1, SuccType DEF client_manager_add, RegistryType, registry
  <2>3. IdentType'
    BY <1>4 DEF client_manager_add, Signed, UIntMax, IdentType, RegistryType
  <2>4. \/ \E k \in RawKinds : Reject(t, k)
        \/ /\ msg' = [msg EXCEPT ![t] = Frame("LOGIN_SUCCESS", t, 0, u, 0)]
           /\ pc' = [pc EXCEPT ![t] = "find"]
           /\ wfd' = wfd
    BY <1>4 DEF client_manager_add, RawKinds, LoginErrors
  <2>5. UNCHANGED <<slot, remaining, nreq>>
    BY <1>4 DEF client_manager_add
  <2>6. Frame("LOGIN_SUCCESS", t, 0, u, 0) \in Frames
    BY OwnFrame DEF OwnKinds
  <2>7. CallType' /\ SlotsResolved'
    BY <1>0, <1>2, <2>4, <2>5, <2>6, CallStep
  <2> QED BY <1>4, <2>2, <2>3, <2>7 DEF client_manager_add
<1>5. ASSUME NEW k \in OwnKinds, NEW a \in Nat, Reply(t, k, nreq + 1, a),
             nreq' = nreq + 1, UNCHANGED <<slot, wfd, remaining>>
      PROVE  CallType' /\ SlotsResolved'
  BY <1>0, <1>5, CallStep, OwnFrame DEF Reply
<1>6. ASSUME NEW k \in TargetKinds, NEW u \in Users \union {None},
             msg' = [msg EXCEPT ![t] = Frame(k, t, nreq + 1, u, 0)],
             pc' = [pc EXCEPT ![t] = "target"],
             nreq' = nreq + 1, UNCHANGED <<slot, wfd, remaining>>
      PROVE  CallType' /\ SlotsResolved'
  BY <1>0, <1>6, CallStep, TargetFrame
<1>7. CASE HandleChat(t)
  <2>1. BroadcastTargets(t) \in SUBSET Target
    BY DEF BroadcastTargets, Target, Entry, RegistryType
  <2>2. DeliveryType'
    BY <1>7, <2>1 DEF HandleChat, DeliveryType
  <2>3. CallType' /\ SlotsResolved'
    BY <1>5, <1>6, <1>7 DEF HandleChat, Receive, OwnKinds, TargetKinds
  <2> QED BY <1>7, <2>2, <2>3 DEF HandleChat
<1>8. ASSUME NEW u \in Users, HandlePrivate(t, u) PROVE TypeInv'
  <2>1. \A s \in Slots : {[slot |-> s, id |-> clients[s].client_id]} \in SUBSET Target
    BY DEF Target, Entry, RegistryType
  <2>2. DeliveryType'
    BY <1>8, <2>1 DEF HandlePrivate, DeliveryType, delivery
  <2>3. CallType' /\ SlotsResolved'
    BY <1>5, <1>6, <1>8 DEF HandlePrivate, Receive, OwnKinds, TargetKinds
  <2> QED BY <1>8, <2>2, <2>3 DEF HandlePrivate
<1>9. CASE HandleReply(t)
  BY <1>9, <1>5 DEF HandleReply, Receive, OwnKinds
<1>10. CASE HandleFile(t)
  BY <1>10, <1>5 DEF HandleFile, Receive, OwnKinds
<1>11. ASSUME NEW n \in 0 .. MaxBlocks, HandleDownload(t, n) PROVE TypeInv'
  BY <1>11, <1>5 DEF HandleDownload, Receive, OwnKinds
<1>12. CASE HandleQuit(t)
  BY <1>12, <1>5 DEF HandleQuit, Receive, OwnKinds
<1>13. CASE ReceiveFails(t)
  <2>1. CallType' /\ SlotsResolved'
    BY <1>13 DEF ReceiveFails, Pcs, CallType, SlotsResolved
  <2> QED BY <1>13, <2>1 DEF ReceiveFails
<1>14. CASE PeerLeaves(t) \/ PeerStalls(t) \/ PeerResumes(t)
  <2>1. NetType' /\ RawPending'
    BY <1>14 DEF PeerLeaves, PeerStalls, PeerResumes, SetLink, NetType, RawPending
  <2> QED BY <1>14, <2>1 DEF PeerLeaves, PeerStalls, PeerResumes, SetLink
<1> QED
  BY <1>1, <1>3, <1>4, <1>7, <1>8, <1>9, <1>10, <1>11, <1>12, <1>13, <1>14
     DEF Environment

\* A thread that comes back from a send keeps its types.
LEMMA ReturnType ==
    ASSUME CallType, SlotsResolved, NEW t \in Conns, NEW l, NEW m,
           ReturnsTo(t, l, m),
           slot' = slot \/ slot' = [slot EXCEPT ![t] = None],
           wfd' = wfd \/ wfd' = [wfd EXCEPT ![t] = None],
           remaining' \in [Conns -> Nat], nreq' = nreq
    PROVE  CallType' /\ SlotsResolved'
<1>1. l \in Pcs \ {"wait", "rmwait", "rmunlock"} /\ m \in Frames
  BY DEF ReturnsTo, Pcs
<1>2. wfd' \in [Conns -> Fds \union {None}] /\ nreq' \in Nat
  BY DEF CallType
<1> QED
  BY <1>1, <1>2, CallStep DEF ReturnsTo

\* A thread that waits for a send_mutex has resolved a slot.
LEMMA WaitType ==
    ASSUME CallType, SlotsResolved, NEW t \in Conns, NEW s \in Slots,
           NEW l \in {"wait", "rmwait"},
           pc' = [pc EXCEPT ![t] = l], slot' = [slot EXCEPT ![t] = s],
           UNCHANGED <<msg, wfd, remaining, nreq>>
    PROVE  CallType' /\ SlotsResolved'
  BY DEF CallType, SlotsResolved, Pcs

\* A write that is over leaves the mutexes, the snapshot and the thread typed.
LEMMA FinishType ==
    ASSUME TypeInv, NEW t \in Conns, NEW r \in {0, 1, -1}, FinishSend(t, r),
           clients_mutex' = clients_mutex, remaining' \in [Conns -> Nat]
    PROVE  MutexType' /\ DeliveryType' /\ CallType' /\ SlotsResolved'
<1>1. MutexType'
  BY FinishSendShape DEF TypeInv, TypeOK, MutexType
<1>2. DeliveryType'
  BY FinishSendShape DEF TypeInv, DeliveryType
<1>3. CallType' /\ SlotsResolved'
  BY FinishSendShape, ReturnType DEF TypeInv, TypeOK
<1> QED
  BY <1>1, <1>2, <1>3

\* Every step of a thread keeps the types.
LEMMA TypeThread ==
    ASSUME TypeInv, NEW t \in Conns, Thread(t)
    PROVE  TypeInv'
<1> USE TypeUnchanged DEF TypeInv, TypeOK
<1>0. remaining \in [Conns -> Nat]
  BY DEF CallType
<1>a. ASSUME NEW r \in {1, -1}, SendReturns(t, r), UNCHANGED <<slot, wfd, remaining>>
      PROVE  DeliveryType' /\ CallType' /\ SlotsResolved'
  <2>1. DeliveryType'
    BY <1>a, SendReturnsShape DEF DeliveryType
  <2>2. CallType' /\ SlotsResolved'
    BY <1>0, <1>a, SendReturnsShape, ReturnType
  <2> QED BY <2>1, <2>2
<1>b. ASSUME clients_mutex' = t, send_mutex' = send_mutex PROVE MutexType'
  BY <1>b DEF MutexType
<1>1. ASSUME NEW r \in {1, -1}, SendToSelf(t, r) PROVE TypeInv'
  <2>1. CASE SendReturns(t, r) /\ UNCHANGED <<mutexes, slot>>
    BY <1>1, <1>a, <2>1 DEF SendToSelf
  <2>2. ASSUME NEW s \in Slots, slot' = [slot EXCEPT ![t] = s], clients_mutex' = t,
               pc' = [pc EXCEPT ![t] = "wait"], UNCHANGED <<send_mutex, delivery, msg, nreq>>
        PROVE  TypeInv'
    BY <1>1, <1>b, <2>2, WaitType DEF SendToSelf
  <2> QED BY <1>1, <2>1, <2>2 DEF SendToSelf
<1>2. CASE send_to_target(t)
  <2>1. CASE SendReturns(t, 1) /\ UNCHANGED <<mutexes, slot>>
    BY <1>2, <1>a, <2>1 DEF send_to_target
  <2>2. ASSUME NEW g \in todo[t], slot' = [slot EXCEPT ![t] = g.slot], clients_mutex' = t,
               pc' = [pc EXCEPT ![t] = "wait"], UNCHANGED <<send_mutex, delivery, msg, nreq>>
        PROVE  TypeInv'
    <3>1. g.slot \in Slots
      BY DEF DeliveryType, Target
    <3> QED BY <1>2, <1>b, <2>2, <3>1, WaitType DEF send_to_target
  <2> QED BY <1>2, <2>1, <2>2 DEF send_to_target
<1>3. CASE LockSend(t)
  <2>1. MutexType'
    BY <1>3 DEF LockSend, MutexType
  <2>2. CallType' /\ SlotsResolved'
    BY <1>3 DEF LockSend, CallType, SlotsResolved, Pcs, RegistryType, Entry
  <2> QED BY <1>3, <2>1, <2>2 DEF LockSend
<1>c. /\ \A c \in Conns : expect[c] \in ParserStates
      /\ msg[t] \in Frames
  BY DEF NetType, CallType
<1>4. CASE WriteHeader(t)
  <2>1. NetType' /\ RawPending'
    BY <1>c, <1>4, ParserType DEF WriteHeader, NetType, RawPending
  <2>2. CallType' /\ SlotsResolved'
    BY <1>4 DEF WriteHeader, CallType, SlotsResolved, Pcs
  <2> QED BY <1>4, <2>1, <2>2 DEF WriteHeader
<1>5. CASE WritePayload(t)
  <2>1. NetType' /\ RawPending'
    <3>1. expect' \in [Conns -> ParserStates] /\ RawPending'
      BY <1>c, <1>5, ParserType DEF WritePayload, NetType, RawPending
    <3>2. \A q \in Seq(Frames) : Append(q, msg[t]) \in Seq(Frames)
      BY <1>c
    <3>3. wire' \in [Conns -> Seq(Frames)]
      BY <1>5, <3>2 DEF WritePayload, NetType
    <3> QED BY <1>5, <3>1, <3>3 DEF WritePayload, NetType
  <2>2. CASE FinishSend(t, 0) /\ remaining' = remaining
    BY <1>0, <1>5, <2>1, <2>2, FinishType DEF WritePayload
  <2>3. CASE ~(FinishSend(t, 0) /\ remaining' = remaining)
    <3>1. CallType' /\ SlotsResolved'
      BY <1>c, <1>5, <2>3 DEF WritePayload, CallType, SlotsResolved, Pcs, Frames
    <3> QED BY <1>5, <2>1, <2>3, <3>1 DEF WritePayload, mutexes
  <2> QED BY <2>2, <2>3
<1>6. CASE WriteRaw(t)
  <2>1. NetType' /\ RawPending'
    BY <1>c, <1>6, ParserType DEF WriteRaw, NetType, RawPending
  <2>2. remaining' \in [Conns -> Nat]
    BY <1>0, <1>6 DEF WriteRaw
  <2>3. CASE FinishSend(t, 0)
    BY <1>6, <2>1, <2>2, <2>3, FinishType DEF WriteRaw
  <2>4. CASE ~FinishSend(t, 0)
    <3>1. CallType' /\ SlotsResolved'
      BY <1>6, <2>2, <2>4 DEF WriteRaw, CallType, SlotsResolved
    <3> QED BY <1>6, <2>1, <2>4, <3>1 DEF WriteRaw, mutexes
  <2> QED BY <2>3, <2>4
<1>7. CASE WriteFail(t)
  <2>1. NetType' /\ RawPending'
    BY <1>7 DEF WriteFail, NetType, RawPending
  <2>2. remaining' \in [Conns -> Nat]
    BY <1>0, <1>7 DEF WriteFail
  <2> QED BY <1>7, <2>1, <2>2, FinishType DEF WriteFail
<1>8. CASE ReadFail(t)
  <2>1. remaining' \in [Conns -> Nat]
    BY <1>0, <1>8 DEF ReadFail
  <2> QED BY <1>8, <2>1, FinishType DEF ReadFail
<1>9. CASE client_manager_remove(t)
  <2>1. CASE pc' = [pc EXCEPT ![t] = "close"] /\ UNCHANGED <<clients_mutex, slot>>
    <3>1. CallType' /\ SlotsResolved'
      BY <1>9, <2>1 DEF client_manager_remove, CallType, SlotsResolved, Pcs
    <3> QED BY <1>9, <2>1, <3>1 DEF client_manager_remove, mutexes
  <2>2. ASSUME NEW s \in Slots, slot' = [slot EXCEPT ![t] = s], clients_mutex' = t,
               pc' = [pc EXCEPT ![t] = "rmwait"]
        PROVE  TypeInv'
    BY <1>9, <1>b, <2>2, WaitType DEF client_manager_remove
  <2> QED BY <1>9, <2>1, <2>2 DEF client_manager_remove
<1>10. CASE RemoveClear(t)
  <2>1. \A e \in Entry : Cleared(e) \in Entry
    BY DEF Cleared, EmptyEntry, Entry, UIntMax
  <2>2. RegistryType'
    BY <1>10, <2>1 DEF RemoveClear, RegistryType
  <2>3. MutexType'
    BY <1>10 DEF RemoveClear, MutexType
  <2>4. CallType' /\ SlotsResolved'
    BY <1>10 DEF RemoveClear, CallType, SlotsResolved, Pcs
  <2> QED BY <1>10, <2>2, <2>3, <2>4 DEF RemoveClear
<1>11. CASE RemoveUnlock(t)
  <2>1. MutexType'
    BY <1>11 DEF RemoveUnlock, MutexType
  <2>2. CallType' /\ SlotsResolved'
    BY <1>11 DEF RemoveUnlock, CallType, SlotsResolved, Pcs
  <2> QED BY <1>11, <2>1, <2>2 DEF RemoveUnlock
<1>12. CASE Close(t)
  <2>1. NetType' /\ RawPending'
    BY <1>12 DEF Close, NetType, RawPending
  <2>2. CallType' /\ SlotsResolved'
    BY <1>12 DEF Close, CallType, SlotsResolved, Pcs
  <2> QED BY <1>12, <2>1, <2>2 DEF Close
<1> QED
  BY <1>1, <1>2, <1>3, <1>4, <1>5, <1>6, <1>7, <1>8, <1>9, <1>10, <1>11, <1>12
     DEF Thread, client_manager_send, client_manager_send_file_stream

\* A step that changes nothing keeps the types.
LEMMA TypeStutter == TypeInv /\ UNCHANGED vars => TypeInv'
  BY TypeUnchanged DEF TypeInv, TypeOK, vars

\* The types are kept by every step.
LEMMA TypeStep == TypeInv /\ [Next]_vars => TypeInv'
  BY TypeEnvironment, TypeThread, TypeStutter DEF Next, Finished

\* The registry, the locks, the descriptors and the threads' variables always
\* have the types declared for them, the client id counter included, which
\* wraps like the unsigned int of client_manager.c.
THEOREM TypeCorrect == Spec => []TypeOK
<1>1. Spec => []TypeInv
  BY TypeInit, TypeStep, PTL DEF Spec
<1>2. TypeInv => TypeOK
  BY DEF TypeInv
<1> QED
  BY <1>1, <1>2, PTL

-----------------------------------------------------------------------------
(* The invariant of the registry.  Three lemmas cover the steps that touch *)
(* neither the entries nor the descriptors.                                *)

\* A thread that holds no lock, or is at the end of a write, goes to another
\* place, and gives back the send_mutex if it holds one.
Leaves(t, l) ==
    /\ pc[t] \in {"login", "idle", "find", "target", "hdr", "pay", "raw"}
    /\ pc' = [pc EXCEPT ![t] = l]
    /\ l \in {"login", "idle", "find", "target", "hdr", "remove", "close"}
    /\ slot' = [slot EXCEPT ![t] = None]
    /\ send_mutex' = IF slot[t] = None THEN send_mutex
                     ELSE [send_mutex EXCEPT ![slot[t]] = None]
    /\ UNCHANGED <<registry, clients_mutex, sock, ident>>
    /\ \A d \in Conns \ {t} :
          msg'[d] = msg[d] /\ todo'[d] = todo[d] /\ wfd'[d] = wfd[d]
    /\ l \in {"login", "close", "hdr"} => cid[t] <= 0
    /\ l \in {"idle", "find", "target", "remove"} => cid[t] > 0
    /\ l = "find" => msg'[t].type \in OwnKinds
    /\ l = "target" => msg'[t].type \in TargetKinds
    /\ l = "hdr" => msg'[t].type \in RawKinds /\ wfd'[t] = fd[t]

\* Such a step keeps the invariant.
LEMMA LeaveStep ==
    ASSUME TypeInv, RegistryInv, NEW t \in Conns, NEW l, Leaves(t, l)
    PROVE  RegistryInv'
<1> USE DEF Leaves
<1> USE DEF TypeInv, TypeOK, CallType, RegistryInv, registry, ident
<1>0. None \notin Slots /\ None \notin Conns
  BY DEF Slots
<1>1. MutexInv'
  <2>1. slot[t] # None => slot[t] \in Slots /\ Holding(t) /\ send_mutex[slot[t]] = t
    BY DEF MutexInv, PlaceInv, Holding
  <2>2. \A c \in Conns : clients_mutex' = c <=> pc'[c] \in {"wait", "rmwait"}
    BY DEF MutexInv
  <2>3. \A s \in Slots : send_mutex'[s] # t /\ slot'[t] # s
    BY <1>0, <2>1 DEF MutexInv, MutexType
  <2>4. \A c \in Conns \ {t}, s \in Slots :
            send_mutex'[s] = c <=> slot'[c] = s /\ Holding(c)'
    BY <1>0, <2>1 DEF MutexInv, MutexType, Holding
  <2> QED BY <2>2, <2>3, <2>4 DEF MutexInv
<1>2. SocketInv'
  BY DEF SocketInv, Open
<1>3. IdInv'
  BY DEF IdInv
<1>4. \A c \in Conns : Registered(c)' <=> Registered(c)
  BY DEF Registered, IdentType
<1>5. EntryInv'
  BY <1>4 DEF EntryInv, EntryOf, NetType, RegistryType, Entry
<1>6. PlaceInv'
  BY DEF PlaceInv, Holding, Writing
<1>7. HeldInv'
  BY DEF HeldInv, IsCurrent, Writing
<1> QED
  BY <1>1, <1>2, <1>3, <1>5, <1>6, <1>7

\* A thread that found an entry holds clients_mutex and waits for its
\* send_mutex.
LEMMA AcquireStep ==
    ASSUME TypeInv, RegistryInv, NEW t \in Conns, NEW s \in Slots, NEW l,
           clients_mutex = None, clients_mutex' = t,
           \/ pc[t] = "find" /\ l = "wait" /\ clients[s].socket_fd = fd[t]
           \/ pc[t] = "remove" /\ l = "rmwait" /\ clients[s].socket_fd = fd[t]
           \/ /\ pc[t] = "target" /\ l = "wait"
              /\ \E g \in todo[t] : /\ IsCurrent(t, g) /\ g.slot = s
                                    /\ g.id = clients[s].client_id,
           clients[s].active,
           pc' = [pc EXCEPT ![t] = l],
           slot' = [slot EXCEPT ![t] = s],
           UNCHANGED <<registry, send_mutex, sock, ident, msg, todo, wfd>>
    PROVE  RegistryInv'
<1> USE DEF TypeInv, TypeOK, CallType, RegistryInv, registry, ident
<1>0. None \notin Slots /\ None \notin Conns
  BY DEF Slots
<1>1. MutexInv'
  BY <1>0 DEF MutexInv, MutexType, Holding, PlaceInv
<1>2. SocketInv'
  BY DEF SocketInv, Open
<1>3. IdInv'
  BY DEF IdInv
<1>4. \A c \in Conns : Registered(c)' <=> Registered(c)
  BY DEF Registered
<1>5. EntryInv'
  BY <1>4 DEF EntryInv, EntryOf, NetType, RegistryType, Entry
<1>6. PlaceInv'
  BY <1>0 DEF PlaceInv, Holding, Writing
<1>7. HeldInv'
  BY <1>0 DEF HeldInv, IsCurrent, Writing, PlaceInv, OwnKinds, TargetKinds
<1> QED
  BY <1>1, <1>2, <1>3, <1>5, <1>6, <1>7

\* A thread goes on writing the same frame or file.
LEMMA WritingStep ==
    ASSUME TypeInv, RegistryInv, NEW t \in Conns, NEW l \in {"pay", "raw"},
           Writing(t), pc' = [pc EXCEPT ![t] = l],
           UNCHANGED <<registry, mutexes, sock, ident, slot, msg, todo, wfd>>
    PROVE  RegistryInv'
<1> USE DEF TypeInv, TypeOK, CallType, RegistryInv, registry, ident, mutexes, Writing
<1>1. MutexInv'
  BY DEF MutexInv, Holding
<1>2. SocketInv'
  BY DEF SocketInv, Open
<1>3. IdInv'
  BY DEF IdInv
<1>4. \A c \in Conns : Registered(c)' <=> Registered(c)
  BY DEF Registered
<1>5. EntryInv'
  BY <1>4 DEF EntryInv, EntryOf, NetType, RegistryType, Entry
<1>6. PlaceInv'
  BY DEF PlaceInv, Holding
<1>7. HeldInv'
  BY DEF HeldInv, IsCurrent
<1> QED
  BY <1>1, <1>2, <1>3, <1>5, <1>6, <1>7

\* A step that leaves the variables of the invariant alone keeps it.
LEMMA RegistryUnchanged ==
    ASSUME RegistryInv,
           UNCHANGED <<registry, mutexes, sock, ident, pc, slot, msg, todo, wfd>>
    PROVE  RegistryInv'
<1> USE DEF RegistryInv, registry, ident, mutexes
<1>1. MutexInv' /\ SocketInv' /\ IdInv'
  BY DEF MutexInv, Holding, SocketInv, Open, IdInv
<1>2. EntryInv'
  BY DEF EntryInv, EntryOf, Registered
<1>3. PlaceInv' /\ HeldInv'
  BY DEF PlaceInv, HeldInv, IsCurrent, Writing, Holding
<1> QED
  BY <1>1, <1>2, <1>3

(* The steps that change entries or descriptors.                           *)

\* accept() hands out a descriptor that no thread and no entry uses.
LEMMA AcceptStep ==
    ASSUME TypeInv, RegistryInv, NEW t \in Conns, NEW f \in Fds, Accept(t, f)
    PROVE  RegistryInv'
<1> USE DEF TypeInv, TypeOK, CallType, IdentType, RegistryInv, registry, mutexes, delivery, Accept
<1>0. None \notin Slots /\ None \notin Conns /\ slot[t] = None
  BY DEF Slots, PlaceInv, Holding
<1>1. MutexInv'
  BY <1>0 DEF MutexInv, Holding
<1>2. SocketInv'
  BY <1>0 DEF SocketInv, Open, NetType
<1>3. IdInv'
  BY DEF IdInv
<1>4. \A c \in Conns : Registered(c)' <=> Registered(c)
  BY DEF Registered
<1>5. EntryInv'
  <2>1. cid[t] <= 0
    BY DEF PlaceInv
  <2>2. \A c \in Conns : Registered(c) => c # t
    BY <2>1 DEF Registered
  <2> QED BY <1>0, <1>4, <2>2 DEF EntryInv, EntryOf, NetType, RegistryType, Entry
<1>6. PlaceInv'
  BY <1>0 DEF PlaceInv, Holding, Writing, Frame, RawKinds
<1>7. HeldInv'
  BY <1>0 DEF HeldInv, IsCurrent, Writing
<1> QED
  BY <1>1, <1>2, <1>3, <1>5, <1>6, <1>7

\* client_manager_add refuses: nothing is registered.
LEMMA AddRefused ==
    ASSUME TypeInv, RegistryInv, NEW t \in Conns, NEW u \in Users, NEW k \in RawKinds,
           NEW e \in {-1, -2},
           pc[t] = "login", Reject(t, k), cid' = [cid EXCEPT ![t] = e],
           name' = [name EXCEPT ![t] = u],
           UNCHANGED <<registry, mutexes, sock, fd, slot, todo>>
    PROVE  RegistryInv'
<1> USE DEF TypeInv, TypeOK, CallType, IdentType, RegistryInv, registry, mutexes, Reject
<1>0. None \notin Slots /\ slot[t] = None /\ cid[t] <= 0
  BY DEF Slots, PlaceInv, Holding
<1>1. MutexInv'
  BY <1>0 DEF MutexInv, Holding
<1>2. SocketInv'
  BY DEF SocketInv, Open
<1>3. IdInv'
  BY <1>0 DEF IdInv
<1>4. \A c \in Conns : Registered(c)' <=> Registered(c)
  BY <1>0 DEF Registered
<1>5. EntryInv'
  <2>1. \A c \in Conns : Registered(c) => c # t
    BY <1>0 DEF Registered
  <2> QED BY <1>4, <2>1 DEF EntryInv, EntryOf, NetType, RegistryType, Entry
<1>6. PlaceInv'
  BY <1>0 DEF PlaceInv, Holding, Writing, Frame
<1>7. HeldInv'
  BY <1>0 DEF HeldInv, IsCurrent, Writing
<1> QED
  BY <1>1, <1>2, <1>3, <1>5, <1>6, <1>7

\* client_manager_add inserts a new entry in a free slot, with a fresh id and
\* a name no other entry has.
LEMMA AddInserts ==
    ASSUME NoOverflow, TypeInv, RegistryInv, NEW t \in Conns, NEW u \in Users,
           NEW s \in Slots,
           pc[t] = "login", UsernameSlots(u) = {}, s \in FreeSlots,
           next_client_id <= MaxLogins,
           name' = [name EXCEPT ![t] = u],
           clients' = [clients EXCEPT ![s] = NewEntry(t, u)],
           next_client_id' = Succ(next_client_id),
           cid' = [cid EXCEPT ![t] = Signed(next_client_id)],
           msg' = [msg EXCEPT ![t] = Frame("LOGIN_SUCCESS", t, 0, u, 0)],
           pc' = [pc EXCEPT ![t] = "find"],
           UNCHANGED <<mutexes, sock, fd, slot, todo, wfd>>
    PROVE  RegistryInv'
<1> USE DEF TypeInv, TypeOK, CallType, IdentType, RegistryInv, mutexes
<1>0. None \notin Slots /\ slot[t] = None /\ cid[t] <= 0
  BY DEF Slots, PlaceInv, Holding
<1>1. /\ cid' = [cid EXCEPT ![t] = next_client_id]
      /\ next_client_id' = next_client_id + 1
      /\ next_client_id \in Nat /\ next_client_id > 0
  <2>1. next_client_id \in Nat /\ next_client_id > 0 /\ next_client_id <= IntMax
    BY DEF NoOverflow, IdInv
  <2>2. next_client_id # UIntMax
    BY <2>1 DEF UIntMax
  <2> QED BY <2>1, <2>2 DEF Succ, Signed
<1>2. fd[t] \in Fds /\ sock[fd[t]] = t /\ ~clients[s].active
  BY DEF SocketInv, Open, FreeSlots
<1>3. MutexInv'
  BY <1>0 DEF MutexInv, Holding
<1>4. SocketInv'
  BY DEF SocketInv, Open
<1>5. IdInv'
  BY <1>1 DEF IdInv
<1>6. /\ Registered(t)' /\ ~Registered(t)
      /\ \A c \in Conns \ {t} : Registered(c)' <=> Registered(c)
  BY <1>0, <1>1 DEF Registered
<1>7. EntryInv'
  <2>1. \A r \in Slots \ {s} : clients'[r] = clients[r]
    BY DEF RegistryType
  <2>2. clients'[s] = [active |-> TRUE, socket_fd |-> fd[t],
                       client_id |-> next_client_id, username |-> u]
    BY DEF RegistryType, NewEntry
  <2>3. EntryOf(s, t)'
    BY <1>1, <2>2 DEF EntryOf
  <2>4. \A r \in Slots \ {s}, c \in Conns \ {t} : EntryOf(r, c)' <=> EntryOf(r, c)
    BY <2>1 DEF EntryOf
  <2>5. \A r \in Slots : ~clients'[r].active => clients'[r] = EmptyEntry
    BY <2>1, <2>2 DEF EntryInv
  <2>6. ASSUME NEW r \in Slots, clients'[r].active
        PROVE  /\ clients'[r].socket_fd \in Fds
               /\ sock'[clients'[r].socket_fd] \in Conns
               /\ Registered(sock[clients[r].socket_fd])'
               /\ EntryOf(r, sock[clients[r].socket_fd])'
    <3>1. CASE r = s
      BY <1>2, <1>6, <2>2, <2>3, <3>1
    <3>2. CASE r # s
      BY <1>6, <2>1, <2>4, <2>6, <3>2 DEF EntryInv
    <3> QED BY <3>1, <3>2
  <2>7. ASSUME NEW c \in Conns, Registered(c)' PROVE \E r \in Slots : EntryOf(r, c)'
    <3>1. CASE c = t
      BY <2>3, <3>1
    <3>2. CASE c # t
      <4>1. PICK r \in Slots : EntryOf(r, c)
        BY <1>6, <2>7, <3>2 DEF EntryInv
      <4>2. r # s
        BY <1>2, <4>1 DEF EntryOf
      <4> QED BY <2>4, <3>2, <4>1, <4>2
    <3> QED BY <3>1, <3>2
  <2>8. ASSUME NEW r \in Slots, NEW q \in Slots, clients'[r].active, clients'[q].active,
               clients'[r].username = clients'[q].username
        PROVE  r = q
    <3>1. \A p \in Slots \ {s} : clients[p].active => clients[p].username # u
      BY DEF UsernameSlots
    <3> QED BY <2>1, <2>2, <2>8, <3>1 DEF EntryInv
  <2> QED BY <2>5, <2>6, <2>7, <2>8 DEF EntryInv
<1>8. PlaceInv'
  BY <1>0, <1>1 DEF PlaceInv, Holding, Writing, Frame, OwnKinds
<1>9. HeldInv'
  BY <1>0, <1>2 DEF HeldInv, IsCurrent, Writing, RegistryType, PlaceInv
<1> QED
  BY <1>3, <1>4, <1>5, <1>7, <1>8, <1>9

\* The send_mutex is taken: nobody else writes to the entry's client.
LEMMA LockStep ==
    ASSUME TypeInv, RegistryInv, NEW t \in Conns, LockSend(t)
    PROVE  RegistryInv'
<1> USE DEF TypeInv, TypeOK, CallType, RegistryInv, registry, ident, net, delivery, LockSend
<1>0. None \notin Slots /\ None \notin Conns /\ slot[t] \in Slots
  BY DEF Slots, SlotsResolved
<1>1. MutexInv'
  BY <1>0 DEF MutexInv, MutexType, Holding
<1>2. SocketInv'
  BY DEF SocketInv, Open
<1>3. IdInv'
  BY DEF IdInv
<1>4. \A c \in Conns : Registered(c)' <=> Registered(c)
  BY DEF Registered
<1>5. EntryInv'
  BY <1>4 DEF EntryInv, EntryOf, NetType, RegistryType, Entry
<1>6. PlaceInv'
  BY <1>0 DEF PlaceInv, Holding, Writing
<1>7. HeldInv'
  BY <1>0 DEF HeldInv, IsCurrent, Writing
<1> QED
  BY <1>1, <1>2, <1>3, <1>5, <1>6, <1>7

\* The entry is cleared while no thread writes to its client or is about to.
LEMMA ClearStep ==
    ASSUME TypeInv, RegistryInv, NEW t \in Conns, RemoveClear(t)
    PROVE  RegistryInv'
<1> USE DEF TypeInv, TypeOK, CallType, RegistryInv, ident, net, delivery, RemoveClear
<1> DEFINE s == slot[t]
<1>0. None \notin Slots /\ None \notin Conns /\ s \in Slots
  BY DEF Slots, SlotsResolved
<1>1. MutexInv'
  BY <1>0 DEF MutexInv, MutexType, Holding
<1>2. SocketInv'
  BY DEF SocketInv, Open
<1>3. IdInv'
  BY DEF IdInv
<1>4. /\ ~Registered(t)'
      /\ \A c \in Conns \ {t} : Registered(c)' <=> Registered(c)
  BY DEF Registered
<1>5. EntryOf(s, t) /\ sock[fd[t]] = t
  BY <1>0 DEF HeldInv, EntryInv, SocketInv, Open
<1>6. /\ clients'[s] = EmptyEntry
      /\ \A r \in Slots \ {s} : clients'[r] = clients[r]
  BY <1>0 DEF RegistryType, Cleared
<1>7. EntryInv'
  <2>1. \A r \in Slots \ {s}, c \in Conns : EntryOf(r, c)' <=> EntryOf(r, c)
    BY <1>6 DEF EntryOf
  <2>2. ~clients'[s].active
    BY <1>6 DEF EmptyEntry
  <2>3. \A r \in Slots : ~clients'[r].active => clients'[r] = EmptyEntry
    BY <1>6 DEF EntryInv
  <2>4. ASSUME NEW r \in Slots, clients'[r].active
        PROVE  /\ clients'[r].socket_fd \in Fds
               /\ sock'[clients'[r].socket_fd] \in Conns
               /\ Registered(sock[clients[r].socket_fd])'
               /\ EntryOf(r, sock[clients[r].socket_fd])'
    <3>1. r # s /\ clients'[r] = clients[r] /\ clients[r].active
      BY <1>6, <2>2, <2>4
    <3>2. sock[clients[r].socket_fd] # t
      <4>1. SUFFICES ASSUME EntryOf(r, t) PROVE FALSE
        BY <3>1 DEF EntryInv
      <4> QED BY <1>0, <1>5, <3>1, <4>1 DEF EntryInv, EntryOf
    <3> QED BY <1>4, <2>1, <3>1, <3>2 DEF EntryInv
  <2>5. ASSUME NEW c \in Conns, Registered(c)' PROVE \E r \in Slots : EntryOf(r, c)'
    <3>1. c # t /\ Registered(c)
      BY <1>4, <2>5
    <3>2. PICK r \in Slots : EntryOf(r, c)
      BY <3>1 DEF EntryInv
    <3>3. r # s
      BY <1>5, <3>1, <3>2 DEF EntryOf, IdInv, Registered
    <3> QED BY <2>1, <3>2, <3>3
  <2>6. \A r, q \in Slots : clients'[r].active /\ clients'[q].active
            /\ clients'[r].username = clients'[q].username => r = q
    BY <1>6, <2>2 DEF EntryInv
  <2> QED BY <2>3, <2>4, <2>5, <2>6 DEF EntryInv
<1>8. PlaceInv'
  BY <1>0 DEF PlaceInv, Holding, Writing
<1>9. HeldInv'
  <2>1. \A d \in Conns \ {t} : slot[d] = s => pc[d] = "rmunlock"
    BY <1>0 DEF MutexInv, PlaceInv, Holding
  <2>2. \A d \in Conns \ {t} : slot[d] # None /\ slot[d] # s => clients'[slot[d]] = clients[slot[d]]
    BY <1>6
  <2> QED BY <2>1, <2>2 DEF HeldInv, IsCurrent, Writing
<1> QED
  BY <1>1, <1>2, <1>3, <1>7, <1>8, <1>9

\* The end of client_manager_remove.
LEMMA UnlockStep ==
    ASSUME TypeInv, RegistryInv, NEW t \in Conns, RemoveUnlock(t)
    PROVE  RegistryInv'
<1> USE DEF TypeInv, TypeOK, CallType, RegistryInv, registry, ident, net, delivery, RemoveUnlock
<1>0. None \notin Slots /\ None \notin Conns /\ slot[t] \in Slots
  BY DEF Slots, SlotsResolved
<1>1. MutexInv'
  <2>1. \A c \in Conns : clients_mutex' = c <=> pc'[c] \in {"wait", "rmwait"}
    BY DEF MutexInv
  <2>2. \A r \in Slots : send_mutex'[r] # t /\ slot'[t] # r
    BY <1>0 DEF MutexInv, MutexType, Holding
  <2>3. \A c \in Conns \ {t}, r \in Slots :
            send_mutex'[r] = c <=> slot'[c] = r /\ Holding(c)'
    BY <1>0 DEF MutexInv, MutexType, Holding
  <2> QED BY <2>1, <2>2, <2>3 DEF MutexInv
<1>2. SocketInv'
  BY DEF SocketInv, Open
<1>3. IdInv'
  BY DEF IdInv
<1>4. \A c \in Conns : Registered(c)' <=> Registered(c)
  BY DEF Registered
<1>5. EntryInv'
  BY <1>4 DEF EntryInv, EntryOf, NetType, RegistryType, Entry
<1>6. PlaceInv'
  BY <1>0 DEF PlaceInv, Holding, Writing
<1>7. HeldInv'
  BY <1>0 DEF HeldInv, IsCurrent, Writing
<1> QED
  BY <1>1, <1>2, <1>3, <1>5, <1>6, <1>7

\* close() of a descriptor that no entry has.
LEMMA CloseStep ==
    ASSUME TypeInv, RegistryInv, NEW t \in Conns, Close(t)
    PROVE  RegistryInv'
<1> USE DEF TypeInv, TypeOK, CallType, RegistryInv, registry, mutexes, ident, delivery, Close
<1>0. None \notin Slots /\ None \notin Conns /\ slot[t] = None
  BY DEF Slots, PlaceInv, Holding
<1>1. MutexInv'
  BY <1>0 DEF MutexInv, Holding
<1>2. SocketInv'
  BY <1>0 DEF SocketInv, Open, NetType
<1>3. IdInv'
  BY DEF IdInv
<1>4. \A c \in Conns : Registered(c)' <=> Registered(c)
  BY DEF Registered
<1>5. EntryInv'
  <2>1. ~Registered(t) /\ fd[t] \in Fds /\ sock[fd[t]] = t
    BY DEF Registered, SocketInv, Open
  <2>2. \A r \in Slots : clients[r].active =>
            sock'[clients[r].socket_fd] = sock[clients[r].socket_fd]
    BY <2>1 DEF EntryInv, NetType
  <2> QED BY <1>4, <2>2 DEF EntryInv, EntryOf, NetType, RegistryType, Entry
<1>6. PlaceInv'
  BY <1>0 DEF PlaceInv, Holding, Writing
<1>7. HeldInv'
  BY <1>0 DEF HeldInv, IsCurrent, Writing
<1> QED
  BY <1>1, <1>2, <1>3, <1>5, <1>6, <1>7

-----------------------------------------------------------------------------
(* The invariant of the registry is inductive.                             *)

\* The empty registry satisfies the invariant.
LEMMA RegistryInit == Init => RegistryInv
<1> SUFFICES ASSUME Init PROVE RegistryInv
  OBVIOUS
<1>0. None \notin Slots /\ None \notin Conns
  BY DEF Slots
<1>1. MutexInv /\ SocketInv /\ IdInv
  BY <1>0 DEF Init, MutexInv, SocketInv, IdInv, Holding, Open
<1>2. EntryInv
  BY DEF Init, EntryInv, EmptyEntry, Registered
<1>3. PlaceInv /\ HeldInv
  BY DEF Init, PlaceInv, HeldInv, Holding, Writing
<1> QED
  BY <1>1, <1>2, <1>3 DEF RegistryInv

\* Coming back from a send that held nothing, or holds the send_mutex until
\* its end, keeps the invariant.
LEMMA ReturnStep ==
    ASSUME TypeInv, RegistryInv, NEW t \in Conns, NEW r \in {0, 1, -1},
           pc[t] \in {"find", "target", "hdr", "pay", "raw"}, SendReturns(t, r),
           slot' = [slot EXCEPT ![t] = None],
           send_mutex' = IF slot[t] = None THEN send_mutex
                         ELSE [send_mutex EXCEPT ![slot[t]] = None],
           \A d \in Conns \ {t} : wfd'[d] = wfd[d],
           UNCHANGED <<registry, clients_mutex, sock, ident>>
    PROVE  RegistryInv'
<1>1. PICK l, m : ReturnsTo(t, l, m)
  BY SendReturnsShape DEF TypeInv
<1>2. /\ pc' = [pc EXCEPT ![t] = l] /\ msg'[t] = m
      /\ \A d \in Conns \ {t} : msg'[d] = msg[d] /\ todo'[d] = todo[d]
  BY <1>1, SendReturnsShape DEF ReturnsTo, TypeInv, TypeOK, CallType
<1>3. cid[t] \in Int /\ (cid[t] <= 0 \/ cid[t] > 0)
  BY DEF TypeInv, TypeOK, IdentType
<1>4. IF msg[t].type \in RawKinds THEN cid[t] <= 0 ELSE cid[t] > 0
  BY DEF RegistryInv, PlaceInv, Writing, RawKinds, LoginErrors, OwnKinds, TargetKinds
<1>5. Leaves(t, l)
  BY <1>1, <1>2, <1>3, <1>4 DEF ReturnsTo, Leaves
<1> QED
  BY <1>5, LeaveStep

\* A request is received: the thread starts to answer it.
LEMMA RequestStep ==
    ASSUME TypeInv, RegistryInv, NEW t \in Conns, NEW l \in {"find", "target"},
           pc[t] = "idle", pc' = [pc EXCEPT ![t] = l],
           msg'[t].type \in (IF l = "find" THEN OwnKinds ELSE TargetKinds),
           \A d \in Conns \ {t} : msg'[d] = msg[d] /\ todo'[d] = todo[d],
           UNCHANGED <<registry, mutexes, sock, ident, slot, wfd>>
    PROVE  RegistryInv'
<1>1. slot[t] = None /\ cid[t] > 0
  BY DEF RegistryInv, PlaceInv, Holding
<1>2. slot' = [slot EXCEPT ![t] = None]
  BY <1>1 DEF TypeInv, TypeOK, CallType
<1>3. Leaves(t, l)
  BY <1>1, <1>2 DEF mutexes, Leaves
<1> QED
  BY <1>3, LeaveStep

\* Logins, requests and failures of the peers keep the invariant.
LEMMA RegistryEnvironment ==
    ASSUME NoOverflow, TypeInv, RegistryInv, NEW t \in Conns, Environment(t)
    PROVE  RegistryInv'
<1> USE DEF registry, mutexes, net, ident, delivery
<1>0. /\ pc[t] \in {"login", "idle"} => slot[t] = None
      /\ slot[t] = None => slot = [slot EXCEPT ![t] = None]
      /\ pc[t] = "login" => cid[t] <= 0
      /\ pc[t] = "idle" => cid[t] > 0
      /\ \A v, d : d \in Conns \ {t} => [msg EXCEPT ![t] = v][d] = msg[d]
      /\ \A v, d : d \in Conns \ {t} => [wfd EXCEPT ![t] = v][d] = wfd[d]
      /\ \A v, d : d \in Conns \ {t} => [todo EXCEPT ![t] = v][d] = todo[d]
      /\ \A v : [msg EXCEPT ![t] = v][t] = v /\ [wfd EXCEPT ![t] = v][t] = v
  BY DEF RegistryInv, PlaceInv, Holding, TypeInv, TypeOK, CallType, DeliveryType
<1>1. CASE \E f \in Fds : Accept(t, f)
  BY <1>1, AcceptStep
<1>2. CASE RejectLogin(t)
  <2>1. msg'[t].type \in RawKinds /\ wfd'[t] = fd[t]
    BY <1>0, <1>2 DEF RejectLogin, Reject, Frame, RawKinds, LoginErrors
  <2>2. Leaves(t, "hdr")
    BY <1>0, <1>2, <2>1 DEF RejectLogin, Reject, Leaves
  <2> QED BY <2>2, LeaveStep
<1>3. ASSUME NEW u \in Users, client_manager_add(t, u) PROVE RegistryInv'
  <2>1. CASE UsernameSlots(u) # {}
    BY <1>3, <2>1, AddRefused DEF client_manager_add, RawKinds, LoginErrors
  <2>2. CASE UsernameSlots(u) = {} /\ FreeSlots = {}
    BY <1>3, <2>2, AddRefused DEF client_manager_add, RawKinds, LoginErrors, IsFirst
  <2>3. CASE UsernameSlots(u) = {} /\ FreeSlots # {}
    <3>1. PICK s \in Slots :
            /\ IsFirst(s, FreeSlots)
            /\ next_client_id <= MaxLogins
            /\ clients' = [clients EXCEPT ![s] = NewEntry(t, u)]
            /\ next_client_id' = Succ(next_client_id)
            /\ cid' = [cid EXCEPT ![t] = Signed(next_client_id)]
            /\ \/ Signed(next_client_id) = -2
               \/ Signed(next_client_id) < 0
               \/ /\ msg' = [msg EXCEPT ![t] = Frame("LOGIN_SUCCESS", t, 0, u, 0)]
                  /\ pc' = [pc EXCEPT ![t] = "find"]
                  /\ wfd' = wfd
      BY <1>3, <2>3 DEF client_manager_add
    <3>2. next_client_id \in Nat /\ Signed(next_client_id) = next_client_id
      BY <3>1 DEF Signed, NoOverflow, RegistryInv, IdInv
    <3>3. /\ msg' = [msg EXCEPT ![t] = Frame("LOGIN_SUCCESS", t, 0, u, 0)]
          /\ pc' = [pc EXCEPT ![t] = "find"]
          /\ wfd' = wfd
      BY <3>1, <3>2
    <3>4. s \in FreeSlots
      BY <3>1 DEF IsFirst
    <3>5. pc[t] = "login" /\ UNCHANGED <<mutexes, sock, fd, slot, todo>>
          /\ name' = [name EXCEPT ![t] = u]
      BY <1>3 DEF client_manager_add
    <3> QED BY <2>3, <3>1, <3>3, <3>4, <3>5, AddInserts
  <2> QED BY <2>1, <2>2, <2>3
<1>4. CASE HandleChat(t)
  <2>1. \/ msg'[t].type \in OwnKinds /\ pc' = [pc EXCEPT ![t] = "find"]
        \/ msg'[t].type \in TargetKinds /\ pc' = [pc EXCEPT ![t] = "target"]
    <3>1. \/ \E k \in OwnKinds : \E v : Reply(t, k, v, 0)
          \/ \E k \in TargetKinds : \E v, w :
                /\ msg' = [msg EXCEPT ![t] = Frame(k, t, v, w, 0)]
                /\ pc' = [pc EXCEPT ![t] = "target"]
      BY <1>4 DEF HandleChat, OwnKinds, TargetKinds
    <3> QED BY <1>0, <3>1, FrameKind DEF Reply
  <2>2. pc[t] = "idle" /\ UNCHANGED <<registry, mutexes, sock, ident, slot, wfd>>
    BY <1>4 DEF HandleChat, Receive
  <2>3. \A d \in Conns \ {t} : msg'[d] = msg[d]
    BY <1>4 DEF HandleChat, Reply, TypeInv, TypeOK, CallType
  <2>4. \A d \in Conns \ {t} : todo'[d] = todo[d]
    BY <1>4 DEF HandleChat, TypeInv, TypeOK, DeliveryType
  <2> QED BY <2>1, <2>2, <2>3, <2>4, RequestStep
<1>5. ASSUME NEW u \in Users, HandlePrivate(t, u) PROVE RegistryInv'
  <2>1. \/ msg'[t].type \in OwnKinds /\ pc' = [pc EXCEPT ![t] = "find"]
        \/ msg'[t].type \in TargetKinds /\ pc' = [pc EXCEPT ![t] = "target"]
    <3>1. \/ \E k \in OwnKinds : \E v : Reply(t, k, v, 0)
          \/ \E k \in TargetKinds : \E v, w :
                /\ msg' = [msg EXCEPT ![t] = Frame(k, t, v, w, 0)]
                /\ pc' = [pc EXCEPT ![t] = "target"]
      BY <1>5 DEF HandlePrivate, OwnKinds, TargetKinds
    <3> QED BY <1>0, <3>1, FrameKind DEF Reply
  <2>2. pc[t] = "idle" /\ UNCHANGED <<registry, mutexes, sock, ident, slot, wfd>>
    BY <1>5 DEF HandlePrivate, Receive
  <2>3. \A d \in Conns \ {t} : msg'[d] = msg[d]
    BY <1>5 DEF HandlePrivate, Reply, TypeInv, TypeOK, CallType
  <2>4. \A d \in Conns \ {t} : todo'[d] = todo[d]
    BY <1>5 DEF HandlePrivate, TypeInv, TypeOK, DeliveryType
  <2> QED BY <2>1, <2>2, <2>3, <2>4, RequestStep
<1>6. CASE \/ HandleReply(t) \/ HandleFile(t) \/ HandleQuit(t)
           \/ \E n \in 0 .. MaxBlocks : HandleDownload(t, n)
  <2>1. msg'[t].type \in OwnKinds /\ pc' = [pc EXCEPT ![t] = "find"]
    <3>1. \E k \in OwnKinds : \E v, a : Reply(t, k, v, a)
      BY <1>6 DEF HandleReply, HandleFile, HandleQuit, HandleDownload, OwnKinds
    <3> QED BY <1>0, <3>1, FrameKind DEF Reply
  <2>2. pc[t] = "idle" /\ UNCHANGED <<registry, mutexes, sock, ident, slot, wfd>>
    BY <1>6 DEF HandleReply, HandleFile, HandleQuit, HandleDownload, Receive
  <2>3. \A d \in Conns \ {t} : msg'[d] = msg[d]
    BY <1>6 DEF HandleReply, HandleFile, HandleQuit, HandleDownload, Reply, TypeInv, TypeOK, CallType
  <2>4. \A d \in Conns \ {t} : todo'[d] = todo[d]
    BY <1>6 DEF HandleReply, HandleFile, HandleQuit, HandleDownload, TypeInv, TypeOK, DeliveryType
  <2> QED BY <2>1, <2>2, <2>3, <2>4, RequestStep
<1>7. CASE ReceiveFails(t)
  <2>1. CASE pc[t] = "idle"
    <3>1. Leaves(t, "remove")
      BY <1>0, <1>7, <2>1 DEF ReceiveFails, Leaves
    <3> QED BY <3>1, LeaveStep
  <2>2. CASE pc[t] = "login"
    <3>1. Leaves(t, "close")
      BY <1>0, <1>7, <2>2 DEF ReceiveFails, Leaves
    <3> QED BY <3>1, LeaveStep
  <2> QED BY <1>7, <2>1, <2>2 DEF ReceiveFails
<1>8. CASE PeerLeaves(t) \/ PeerStalls(t) \/ PeerResumes(t)
  BY <1>8, RegistryUnchanged DEF PeerLeaves, PeerStalls, PeerResumes, SetLink
<1> QED
  BY <1>1, <1>2, <1>3, <1>4, <1>5, <1>6, <1>7, <1>8 DEF Environment

\* The steps a thread takes by itself keep the invariant.
LEMMA RegistryThread ==
    ASSUME TypeInv, RegistryInv, NEW t \in Conns, Thread(t)
    PROVE  RegistryInv'
<1> USE DEF registry, mutexes, net, ident, delivery
<1>0. /\ pc[t] \in {"find", "target", "remove"} => slot[t] = None
      /\ slot[t] = None => slot = [slot EXCEPT ![t] = None]
      /\ \A v, d : d \in Conns \ {t} => [wfd EXCEPT ![t] = v][d] = wfd[d]
  BY DEF RegistryInv, PlaceInv, Holding, TypeInv, TypeOK, CallType
<1>1. ASSUME NEW r \in {1, -1}, pc[t] = "find", SendToSelf(t, r) PROVE RegistryInv'
  <2>1. CASE SendReturns(t, r) /\ UNCHANGED <<mutexes, slot>>
    BY <1>0, <1>1, <2>1, ReturnStep DEF SendToSelf
  <2>2. CASE ~(SendReturns(t, r) /\ UNCHANGED <<mutexes, slot>>)
    BY <1>1, <2>2, AcquireStep DEF SendToSelf, IsFirst, SocketSlots
  <2> QED BY <2>1, <2>2
<1>2. CASE send_to_target(t)
  <2>1. CASE SendReturns(t, 1) /\ UNCHANGED <<mutexes, slot>>
    BY <1>0, <1>2, <2>1, ReturnStep DEF send_to_target
  <2>2. CASE ~(SendReturns(t, 1) /\ UNCHANGED <<mutexes, slot>>)
    <3>1. PICK g \in todo[t] :
             /\ IsCurrent(t, g) /\ SameClient(g)
             /\ slot' = [slot EXCEPT ![t] = g.slot]
      BY <1>2, <2>2 DEF send_to_target
    <3>2. g.slot \in Slots
      BY DEF TypeInv, TypeOK, DeliveryType, Target
    <3> QED BY <1>2, <2>2, <3>1, <3>2, AcquireStep DEF send_to_target, SameClient
  <2> QED BY <2>1, <2>2
<1>3. CASE LockSend(t)
  BY <1>3, LockStep
<1>4. CASE WriteHeader(t)
  BY <1>4, WritingStep DEF WriteHeader, Writing
<1>5. ASSUME NEW r \in {0, -1}, Writing(t), FinishSend(t, r),
             UNCHANGED <<registry, clients_mutex, sock, ident>>
      PROVE  RegistryInv'
  BY <1>0, <1>5, ReturnStep DEF FinishSend, Writing
<1>6. CASE WritePayload(t)
  <2>1. CASE FinishSend(t, 0)
    BY <1>5, <1>6, <2>1 DEF WritePayload, Writing
  <2>2. CASE ~FinishSend(t, 0)
    BY <1>6, <2>2, WritingStep DEF WritePayload, Writing
  <2> QED BY <2>1, <2>2
<1>7. CASE WriteRaw(t)
  <2>1. CASE FinishSend(t, 0)
    BY <1>5, <1>7, <2>1 DEF WriteRaw, Writing
  <2>2. CASE ~FinishSend(t, 0)
    BY <1>7, <2>2, RegistryUnchanged DEF WriteRaw
  <2> QED BY <2>1, <2>2
<1>8. CASE WriteFail(t)
  BY <1>5, <1>8 DEF WriteFail
<1>9. CASE ReadFail(t)
  BY <1>5, <1>9 DEF ReadFail, Writing
<1>10. CASE client_manager_remove(t)
  <2>1. SocketSlots(fd[t]) # {}
    <3>1. Registered(t)
      BY <1>10 DEF client_manager_remove, RegistryInv, PlaceInv, Registered
    <3>2. PICK s \in Slots : EntryOf(s, t)
      BY <3>1 DEF RegistryInv, EntryInv
    <3>3. clients[s].active /\ clients[s].socket_fd = fd[t]
      BY <3>2 DEF EntryOf
    <3> QED BY <3>3 DEF SocketSlots
  <2> QED BY <1>10, <2>1, AcquireStep DEF client_manager_remove, IsFirst, SocketSlots
<1>11. CASE RemoveClear(t)
  BY <1>11, ClearStep
<1>12. CASE RemoveUnlock(t)
  BY <1>12, UnlockStep
<1>13. CASE Close(t)
  BY <1>13, CloseStep
<1> QED
  BY <1>1, <1>2, <1>3, <1>4, <1>6, <1>7, <1>8, <1>9, <1>10, <1>11, <1>12, <1>13
     DEF Thread, client_manager_send, client_manager_send_file_stream

\* Every step keeps the invariant of the registry.
LEMMA RegistryStep ==
    ASSUME NoOverflow PROVE TypeInv /\ RegistryInv /\ [Next]_vars => RegistryInv'
<1>1. TypeInv /\ RegistryInv /\ UNCHANGED vars => RegistryInv'
  BY RegistryUnchanged DEF vars, net, delivery
<1> QED
  BY <1>1, RegistryEnvironment, RegistryThread DEF Next, Finished

\* Below 2^31 logins the registry always agrees with the threads, the locks
\* and the descriptors, as RegistryInv says.
THEOREM RegistryInvariant ==
    ASSUME NoOverflow PROVE Spec => [](TypeInv /\ RegistryInv)
  BY TypeInit, TypeStep, RegistryInit, RegistryStep, PTL DEF Spec

\* Below 2^31 logins no two logged-in connections ever have the same username,
\* although client_manager_add and client_manager_remove run in any order.
THEOREM UniqueUsernames ==
    ASSUME NoOverflow PROVE Spec => []NamesUnique
<1>1. TypeInv /\ RegistryInv => NamesUnique
  <2> SUFFICES ASSUME RegistryInv, NEW c \in Conns, NEW d \in Conns,
                      Registered(c), Registered(d), name[c] = name[d]
               PROVE  c = d
    BY DEF NamesUnique
  <2>1. PICK r \in Slots : EntryOf(r, c)
    BY DEF RegistryInv, EntryInv
  <2>2. PICK s \in Slots : EntryOf(s, d)
    BY DEF RegistryInv, EntryInv
  <2>3. r = s
    BY <2>1, <2>2 DEF RegistryInv, EntryInv, EntryOf
  <2>4. cid[c] = cid[d]
    BY <2>1, <2>2, <2>3 DEF EntryOf
  <2> QED BY <2>4 DEF RegistryInv, IdInv, Registered
<1> QED
  BY <1>1, RegistryInvariant, PTL

\* Below 2^31 logins an active entry is always that of a live, logged-in
\* connection whose descriptor is open, and every such connection has one.
THEOREM RegistryIsConsistent ==
    ASSUME NoOverflow PROVE Spec => []RegistryConsistent
<1>1. TypeInv /\ RegistryInv => RegistryConsistent
  BY DEF RegistryInv, EntryInv, RegistryConsistent
<1> QED
  BY <1>1, RegistryInvariant, PTL

\* A write in progress goes to the connection it is meant for.
LEMMA Addressee == TypeInv /\ RegistryInv => WritesGoToAddressee
<1> SUFFICES ASSUME TypeInv, RegistryInv, NEW t \in Conns, Writing(t)
             PROVE  /\ sock[wfd[t]] # None
                    /\ IF msg[t].type \in TargetKinds
                       THEN \E g \in todo[t] : /\ IsCurrent(t, g)
                                               /\ cid[sock[wfd[t]]] = g.id
                       ELSE sock[wfd[t]] = t
  BY DEF WritesGoToAddressee
<1> USE DEF RegistryInv
<1>0. Open(t) /\ fd[t] \in Fds /\ sock[fd[t]] = t /\ None \notin Conns
  BY DEF SocketInv, Open, Writing
<1>1. CASE slot[t] = None
  BY <1>0, <1>1 DEF PlaceInv, RawKinds, LoginErrors, TargetKinds
<1>2. CASE slot[t] # None
  <2>1. slot[t] \in Slots /\ pc[t] # "rmunlock" /\ pc[t] # "rmwait"
    BY <1>2 DEF TypeInv, TypeOK, CallType, Writing
  <2>2. /\ clients[slot[t]].active
        /\ wfd[t] = clients[slot[t]].socket_fd
    BY <1>2, <2>1 DEF HeldInv
  <2>3. sock[wfd[t]] \in Conns /\ EntryOf(slot[t], sock[wfd[t]])
    BY <2>1, <2>2 DEF EntryInv
  <2>4. cid[sock[wfd[t]]] = clients[slot[t]].client_id
    BY <2>3 DEF EntryOf
  <2>5. CASE msg[t].type \in TargetKinds
    <3>1. PICK g \in todo[t] : IsCurrent(t, g) /\ g.id = clients[slot[t]].client_id
      BY <1>2, <2>1, <2>5 DEF HeldInv
    <3> QED BY <1>0, <2>3, <2>4, <2>5, <3>1
  <2>6. CASE msg[t].type \in OwnKinds
    <3>1. clients[slot[t]].socket_fd = fd[t]
      BY <1>2, <2>1, <2>6 DEF HeldInv
    <3> QED BY <1>0, <2>2, <2>6, <3>1 DEF OwnKinds, TargetKinds
  <2> QED BY <1>2, <2>5, <2>6 DEF PlaceInv
<1> QED BY <1>1, <1>2

\* Below 2^31 logins nothing is ever written to a connection other than the
\* one it is meant for, however descriptors and slots are reused.
THEOREM WritesReachAddressee ==
    ASSUME NoOverflow PROVE Spec => []WritesGoToAddressee
  BY Addressee, RegistryInvariant, PTL

-----------------------------------------------------------------------------
(* The client limit.                                                       *)

\* The answer of a thread that can send SERVER_CLIENT_LIMIT.
Limit(t) == msg'[t].type = "SERVER_CLIENT_LIMIT" /\ msg[t] # msg'[t]

\* No send returns with that answer.
LEMMA ReturnIsNoLimit ==
  ASSUME TypeInv, NEW t \in Conns, NEW r \in {0, 1, -1}, SendReturns(t, r), NEW c \in Conns
  PROVE  ~Limit(c)
<1>0. msg \in [Conns -> Frames]
  BY DEF TypeInv, TypeOK, CallType
<1>1. \/ msg' = msg \/ msg' = [msg EXCEPT ![t] = NoMsg]
      \/ \E k \in OwnKinds : \E n, a : msg' = [msg EXCEPT ![t] = Frame(k, t, n, name[t], a)]
  BY DEF SendReturns, Continue, Reply, OwnKinds
<1>2. CASE msg' = msg
  BY <1>2 DEF Limit
<1>3. CASE msg' = [msg EXCEPT ![t] = NoMsg]
  <2>1. NoMsg.type = "NONE"
    BY DEF NoMsg, Frame
  <2> QED BY <1>0, <1>3, <2>1 DEF Limit
<1>4. ASSUME NEW k \in OwnKinds, NEW n, NEW a,
             msg' = [msg EXCEPT ![t] = Frame(k, t, n, name[t], a)]
      PROVE  ~Limit(c)
  <2>1. Frame(k, t, n, name[t], a).type = k
    BY FrameKind
  <2>2. c # t => msg'[c] = msg[c]
    BY <1>0, <1>4
  <2>3. msg'[t].type = k
    BY <1>0, <1>4, <2>1
  <2> QED BY <2>2, <2>3 DEF Limit, OwnKinds
<1> QED BY <1>1, <1>2, <1>3, <1>4

\* A thread that was refused found no free slot.
LEMMA LimitFromFull ==
  ASSUME NoOverflow, TypeInv, [Next]_vars, NEW c \in Conns, Limit(c)
  PROVE  FreeSlots = {}
<1>0. msg \in [Conns -> Frames]
  BY DEF TypeInv, TypeOK, CallType
<1>1. ASSUME NEW t \in Conns, msg'[t].type # "SERVER_CLIENT_LIMIT",
             \A d \in Conns \ {t} : msg'[d] = msg[d]
      PROVE  FALSE
  BY <1>1 DEF Limit
<1>2. msg' # msg
  BY DEF Limit
<1>3. ASSUME NEW t \in Conns, NEW u \in Users, client_manager_add(t, u) PROVE FreeSlots = {}
  <2>1. ASSUME Signed(next_client_id) < 0, next_client_id <= MaxLogins PROVE FALSE
    <3>1. next_client_id \in Nat
      BY DEF TypeInv, TypeOK, RegistryType, UIntMax
    <3> QED BY <2>1, <3>1 DEF NoOverflow, Signed
  <2>2. CASE Reject(t, "USERNAME_ALREADY_EXISTS")
    <3>1. msg'[t].type # "SERVER_CLIENT_LIMIT" /\ \A d \in Conns \ {t} : msg'[d] = msg[d]
      BY <1>0, <2>2 DEF Reject, Frame
    <3> QED BY <1>1, <3>1
  <2>3. CASE msg' = [msg EXCEPT ![t] = Frame("LOGIN_SUCCESS", t, 0, u, 0)]
    <3>1. msg'[t].type # "SERVER_CLIENT_LIMIT" /\ \A d \in Conns \ {t} : msg'[d] = msg[d]
      BY <1>0, <2>3 DEF Frame
    <3> QED BY <1>1, <3>1
  <2> QED BY <1>3, <2>1, <2>2, <2>3 DEF client_manager_add
<1>4. ASSUME NEW t \in Conns, Environment(t) PROVE FreeSlots = {}
  <2>1. CASE \E f \in Fds : Accept(t, f)
    <3>1. msg'[t].type # "SERVER_CLIENT_LIMIT" /\ \A d \in Conns \ {t} : msg'[d] = msg[d]
      BY <1>0, <2>1 DEF Accept, Frame
    <3> QED BY <1>1, <3>1
  <2>2. CASE RejectLogin(t)
    <3>1. msg'[t].type # "SERVER_CLIENT_LIMIT" /\ \A d \in Conns \ {t} : msg'[d] = msg[d]
      BY <1>0, <2>2 DEF RejectLogin, Reject, Frame
    <3> QED BY <1>1, <3>1
  <2>3. CASE HandleChat(t)
    <3>1. msg'[t].type # "SERVER_CLIENT_LIMIT" /\ \A d \in Conns \ {t} : msg'[d] = msg[d]
      BY <1>0, <2>3 DEF HandleChat, Reply, Frame
    <3> QED BY <1>1, <3>1
  <2>4. CASE \E u \in Users : HandlePrivate(t, u)
    <3>1. msg'[t].type # "SERVER_CLIENT_LIMIT" /\ \A d \in Conns \ {t} : msg'[d] = msg[d]
      BY <1>0, <2>4 DEF HandlePrivate, Reply, Frame
    <3> QED BY <1>1, <3>1
  <2>5. CASE HandleReply(t) \/ HandleFile(t) \/ HandleQuit(t)
    <3>1. msg'[t].type # "SERVER_CLIENT_LIMIT" /\ \A d \in Conns \ {t} : msg'[d] = msg[d]
      BY <1>0, <2>5 DEF HandleReply, HandleFile, HandleQuit, Reply, Frame
    <3> QED BY <1>1, <3>1
  <2>6. CASE \E n \in 0 .. MaxBlocks : HandleDownload(t, n)
    <3>1. msg'[t].type # "SERVER_CLIENT_LIMIT" /\ \A d \in Conns \ {t} : msg'[d] = msg[d]
      BY <1>0, <2>6 DEF HandleDownload, Reply, Frame
    <3> QED BY <1>1, <3>1
  <2>7. CASE ReceiveFails(t) \/ PeerLeaves(t) \/ PeerStalls(t) \/ PeerResumes(t)
    BY <1>2, <2>7 DEF ReceiveFails, PeerLeaves, PeerStalls, PeerResumes, SetLink
  <2> QED BY <1>3, <1>4, <2>1, <2>2, <2>3, <2>4, <2>5, <2>6, <2>7 DEF Environment
<1>5. ASSUME NEW t \in Conns, Thread(t) PROVE FALSE
  <2>1. \/ \E r \in {0, 1, -1} : SendReturns(t, r)
        \/ msg' = msg
    BY <1>5 DEF Thread, client_manager_send, client_manager_send_file_stream, SendToSelf,
       send_to_target, LockSend, WriteHeader, WritePayload, WriteRaw, WriteFail, ReadFail,
       FinishSend, client_manager_remove, RemoveClear, RemoveUnlock, Close
  <2> QED BY <1>2, <2>1, ReturnIsNoLimit
<1>6. CASE UNCHANGED vars
  BY <1>2, <1>6 DEF vars
<1> QED BY <1>4, <1>5, <1>6 DEF Next, Finished

\* If no slot is free, the slots and the logged-in connections are as many.
LEMMA FullRegistry ==
  ASSUME TypeInv, RegistryInv, FreeSlots = {}
  PROVE  Cardinality({c \in Conns : Registered(c)}) = MaxClients
<1> DEFINE C == {c \in Conns : Registered(c)}
           f == [s \in Slots |-> sock[clients[s].socket_fd]]
<1> USE DEF RegistryInv
<1>1. \A s \in Slots : clients[s].active
  BY DEF FreeSlots, EntryInv, EmptyEntry
<1>2. \A s \in Slots : f[s] \in C /\ EntryOf(s, f[s])
  BY <1>1 DEF EntryInv
<1>3. ASSUME NEW c \in C PROVE \E s \in Slots : f[s] = c
  <2>1. PICK s \in Slots : EntryOf(s, c)
    BY DEF EntryInv
  <2>2. cid[c] = clients[s].client_id /\ cid[f[s]] = clients[s].client_id
    <3>1. EntryOf(s, f[s])
      BY <1>2
    <3> HIDE DEF f
    <3> QED BY <2>1, <3>1 DEF EntryOf
  <2>3. f[s] = c
    <3>1. f[s] \in Conns /\ c \in Conns /\ cid[c] > 0
      BY <1>2 DEF Registered
    <3> HIDE DEF f
    <3> QED BY <2>2, <3>1 DEF IdInv
  <2> QED BY <2>3
<1>4. ASSUME NEW r \in Slots, NEW s \in Slots, f[r] = f[s] PROVE r = s
  <2>1. clients[r] = clients[s]
    BY <1>2, <1>4 DEF EntryOf
  <2> QED BY <1>1, <2>1 DEF EntryInv
<1>5. f \in Bijection(Slots, C)
  <2>1. f \in [Slots -> C]
    BY <1>2
  <2>2. f \in Injection(Slots, C)
    BY <1>4, <2>1 DEF Injection, IsInjective
  <2>3. f \in Surjection(Slots, C)
    BY <1>3, <2>1 DEF Surjection
  <2> QED BY <2>2, <2>3 DEF Bijection
<1>6. ExistsBijection(Slots, C)
  BY <1>5 DEF ExistsBijection
<1>7. IsFiniteSet(Slots) /\ Cardinality(Slots) = MaxClients
  <2>1. 0 \in Int /\ MaxClients - 1 \in Int /\ ~(0 > MaxClients - 1)
    OBVIOUS
  <2>2. /\ IsFiniteSet(0 .. MaxClients - 1)
        /\ Cardinality(0 .. MaxClients - 1) = (MaxClients - 1) - 0 + 1
    BY <2>1, FS_Interval
  <2> QED BY <2>2 DEF Slots
<1> HIDE DEF C
<1>8. Cardinality(C) = MaxClients
  BY <1>6, <1>7, FS_Bijection
<1> QED BY <1>8 DEF C

\* Below 2^31 logins a client is answered SERVER_CLIENT_LIMIT only while
\* MAX_CLIENTS connections are logged in: client_manager_remove leaves no slot
\* behind that client_manager_add could not take again.
THEOREM LimitWhenFull ==
    ASSUME NoOverflow PROVE Spec => LimitMeansFull
<1>1. TypeInv /\ RegistryInv /\ [Next]_vars =>
        [\A t \in Conns :
          /\ msg'[t].type = "SERVER_CLIENT_LIMIT" /\ msg[t] # msg'[t]
          /\ next_client_id' <= IntMax + 1
          =>
              Cardinality({c \in Conns : Registered(c)}) = MaxClients]_vars
  BY LimitFromFull, FullRegistry DEF Limit
<1> QED
  BY <1>1, RegistryInvariant, PTL DEF Spec, LimitMeansFull

-----------------------------------------------------------------------------
(* The streams.                                                            *)

\* A thread writes to an open connection, and no two write to the same one.
OneWriter ==
    /\ \A t \in Conns : Writing(t) => sock[wfd[t]] \in Conns /\ Open(sock[wfd[t]])
    /\ \A t, d, c \in Conns : WritesTo(t, c) /\ WritesTo(d, c) => t = d

\* There is one writer to a connection: the owner of its send_mutex, or its
\* own thread before it is registered.
LEMMA SoleWriter == TypeInv /\ RegistryInv => OneWriter
<1> SUFFICES ASSUME TypeInv, RegistryInv PROVE OneWriter
  OBVIOUS
<1> USE DEF RegistryInv
<1>1. ASSUME NEW t \in Conns, Writing(t), slot[t] = None
      PROVE  sock[wfd[t]] = t /\ cid[t] <= 0
  BY <1>1 DEF PlaceInv, SocketInv, Open, Writing
<1>2. ASSUME NEW t \in Conns, Writing(t), slot[t] # None
      PROVE  /\ slot[t] \in Slots /\ send_mutex[slot[t]] = t
             /\ sock[wfd[t]] \in Conns /\ Registered(sock[wfd[t]])
             /\ EntryOf(slot[t], sock[wfd[t]])
  <2>1. slot[t] \in Slots /\ pc[t] # "rmunlock" /\ Holding(t)
    BY <1>2 DEF TypeInv, TypeOK, CallType, Writing, Holding
  <2>2. clients[slot[t]].active /\ wfd[t] = clients[slot[t]].socket_fd
    BY <1>2, <2>1 DEF HeldInv
  <2> QED BY <2>1, <2>2 DEF EntryInv, MutexInv
<1>3. \A c \in Conns : Registered(c) => cid[c] > 0 /\ cid[c] \in Int /\ Open(c)
  BY DEF Registered, TypeInv, TypeOK, IdentType, PlaceInv, Open
<1>4. \A t \in Conns : Writing(t) => sock[wfd[t]] \in Conns /\ Open(sock[wfd[t]])
  BY <1>1, <1>2, <1>3 DEF Writing, Open
<1>5. ASSUME NEW t \in Conns, NEW d \in Conns, NEW c \in Conns, WritesTo(t, c), WritesTo(d, c)
      PROVE  t = d
  <2>1. CASE slot[t] = None /\ slot[d] = None
    BY <1>1, <1>5, <2>1 DEF WritesTo
  <2>2. CASE slot[t] # None /\ slot[d] # None
    <3>1. EntryOf(slot[t], c) /\ EntryOf(slot[d], c)
      BY <1>2, <1>5, <2>2 DEF WritesTo
    <3>2. slot[t] \in Slots /\ slot[d] \in Slots
      BY <1>2, <1>5, <2>2 DEF WritesTo
    <3>3. slot[t] = slot[d]
      BY <3>1, <3>2 DEF EntryOf, EntryInv
    <3> QED BY <1>2, <1>5, <2>2, <3>3 DEF WritesTo
  <2>3. CASE slot[t] = None /\ slot[d] # None
    <3>1. c \in Conns /\ cid[c] <= 0 /\ Registered(c)
      BY <1>1, <1>2, <1>5, <2>3 DEF WritesTo
    <3> QED BY <1>3, <3>1
  <2>4. CASE slot[t] # None /\ slot[d] = None
    <3>1. c \in Conns /\ cid[c] <= 0 /\ Registered(c)
      BY <1>1, <1>2, <1>5, <2>4 DEF WritesTo
    <3> QED BY <1>3, <3>1
  <2> QED BY <2>1, <2>2, <2>3, <2>4
<1> QED
  BY <1>4, <1>5 DEF OneWriter

\* The same in the next state.
LEMMA SoleWriterNext == TypeInv' /\ RegistryInv' => OneWriter'
  BY SoleWriter, PTL

\* Only thread t moves.
OthersSame(t) ==
    \A d \in Conns \ {t} :
        pc'[d] = pc[d] /\ wfd'[d] = wfd[d] /\ remaining'[d] = remaining[d]

\* A thread that is not writing does something else.
LEMMA QuietStep ==
    ASSUME StreamInv, NEW t \in Conns, OthersSame(t), ~Writing(t), ~Writing(t)',
           pc'[t] # "new", UNCHANGED <<sock, link, expect>>
    PROVE  StreamInv'
<1>1. \A d, c \in Conns : WritesTo(d, c)' <=> WritesTo(d, c)
  BY DEF OthersSame, WritesTo, Writing
<1>2. \A d, c \in Conns : WritesTo(d, c) => Expected(d)' = Expected(d)
  BY DEF OthersSame, WritesTo, Writing, Expected
<1>3. \A d \in Conns : pc'[d] = "raw" => remaining'[d] > 0
  BY DEF StreamInv, OthersSame, Writing
<1> QED
  BY <1>1, <1>2, <1>3 DEF StreamInv, OthersSame, FramesWhole

\* A thread starts to write to a connection that nobody writes to.
LEMMA StartStep ==
    ASSUME StreamInv, TypeInv', RegistryInv', NEW t \in Conns, OthersSame(t),
           ~Writing(t), pc'[t] = "hdr", UNCHANGED <<link, expect>>,
           \A d \in Conns \ {t} : Writing(d) => sock'[wfd[d]] = sock[wfd[d]]
    PROVE  StreamInv'
<1>1. \A d \in Conns \ {t}, c \in Conns : WritesTo(d, c)' <=> WritesTo(d, c)
  BY DEF OthersSame, WritesTo, Writing
<1>2. \A d \in Conns \ {t} : Writing(d) => Expected(d)' = Expected(d)
  BY DEF OthersSame, Writing, Expected
<1>3. \A d, c \in Conns : WritesTo(d, c)' /\ WritesTo(t, c)' => d = t
  <2>1. \A d, e, c \in Conns : WritesTo(d, c)' /\ WritesTo(e, c)' => d = e
    BY SoleWriterNext DEF OneWriter
  <2> QED BY <2>1
<1>4. \A c \in Conns : WritesTo(t, c)' => \A d \in Conns : ~WritesTo(d, c)
  BY <1>1, <1>3 DEF WritesTo
<1>5. Expected(t)' = AtHeader
  BY DEF Expected
<1>6. \A d, c \in Conns :
          WritesTo(d, c)' /\ link'[c] # "broken" => expect'[c] = Expected(d)'
  <2> SUFFICES ASSUME NEW d \in Conns, NEW c \in Conns, WritesTo(d, c)', link[c] # "broken"
               PROVE  expect[c] = Expected(d)'
    OBVIOUS
  <2>1. CASE d = t
    BY <1>4, <1>5, <2>1 DEF StreamInv
  <2>2. CASE d # t
    BY <1>1, <1>2, <2>2 DEF StreamInv, WritesTo
  <2> QED BY <2>1, <2>2
<1>7. \A c \in Conns : link'[c] # "broken" /\ (\A d \in Conns : ~WritesTo(d, c)')
          => expect'[c] = AtHeader
  BY <1>1 DEF StreamInv, WritesTo
<1> QED
  BY <1>6, <1>7 DEF StreamInv, OthersSame, FramesWhole

\* A thread stops writing: at the end of its frame or file, or because the
\* connection has failed.
LEMMA StopStep ==
    ASSUME TypeInv, RegistryInv, StreamInv, NEW t \in Conns, OthersSame(t),
           Writing(t), ~Writing(t)', pc'[t] # "new", sock' = sock,
           \A c \in Conns \ {sock[wfd[t]]} :
               link'[c] = link[c] /\ expect'[c] = expect[c],
           LET c == sock[wfd[t]] IN
               \/ link'[c] = "broken" /\ expect'[c] = expect[c]
               \/ link'[c] = link[c] /\ expect'[c] = AtHeader
    PROVE  StreamInv'
<1> DEFINE p == sock[wfd[t]]
<1>0. p \in Conns /\ pc[p] # "new" /\ pc'[p] # "new"
  BY SoleWriter DEF OneWriter, Open, OthersSame
<1>1. \A d \in Conns \ {t}, c \in Conns :
          WritesTo(d, c)' => WritesTo(d, c) /\ c # p /\ Expected(d)' = Expected(d)
  BY SoleWriter DEF OneWriter, OthersSame, WritesTo, Writing, Expected
<1>2. \A d \in Conns \ {t}, c \in Conns : WritesTo(d, c) => WritesTo(d, c)'
  BY DEF OthersSame, WritesTo, Writing
<1>3. \A c \in Conns : ~WritesTo(t, c)'
  BY DEF WritesTo
<1>4. \A c \in Conns \ {p} : ~WritesTo(t, c)
  BY DEF WritesTo
<1>5. FramesWhole'
  BY <1>0 DEF StreamInv, FramesWhole, AtHeader
<1>6. \A c \in Conns : pc'[c] = "new" => link'[c] = "up"
  BY <1>0 DEF StreamInv, OthersSame
<1>7. \A d \in Conns : pc'[d] = "raw" => remaining'[d] > 0
  BY DEF StreamInv, OthersSame, Writing
<1>8. \A d, c \in Conns :
          WritesTo(d, c)' /\ link'[c] # "broken" => expect'[c] = Expected(d)'
  BY <1>1, <1>3 DEF StreamInv
<1>9. \A c \in Conns : link'[c] # "broken" /\ (\A d \in Conns : ~WritesTo(d, c)')
          => expect'[c] = AtHeader
  <2> SUFFICES ASSUME NEW c \in Conns, link'[c] # "broken",
                      \A d \in Conns : ~WritesTo(d, c)'
               PROVE  expect'[c] = AtHeader
    OBVIOUS
  <2>1. CASE c = p
    BY <2>1
  <2>2. CASE c # p
    <3>1. \A d \in Conns : ~WritesTo(d, c)
      BY <1>2, <1>4, <2>2
    <3> QED BY <2>2, <3>1 DEF StreamInv
  <2> QED BY <2>1, <2>2
<1> QED
  BY <1>5, <1>6, <1>7, <1>8, <1>9 DEF StreamInv

\* A thread goes on writing, and the client has parsed what it wrote.
LEMMA ContinueStep ==
    ASSUME TypeInv, RegistryInv, StreamInv, NEW t \in Conns, OthersSame(t),
           Writing(t), Writing(t)', UNCHANGED <<sock, link, wfd>>,
           pc'[t] = "raw" => remaining'[t] > 0,
           \A c \in Conns \ {sock[wfd[t]]} : expect'[c] = expect[c],
           expect'[sock[wfd[t]]] = Expected(t)', Expected(t)'.at # "desync"
    PROVE  StreamInv'
<1> DEFINE p == sock[wfd[t]]
<1>0. p \in Conns /\ pc'[t] # "new"
  BY SoleWriter DEF OneWriter, Writing
<1>1. \A d \in Conns \ {t}, c \in Conns :
          WritesTo(d, c)' => WritesTo(d, c) /\ c # p /\ Expected(d)' = Expected(d)
  BY SoleWriter DEF OneWriter, OthersSame, WritesTo, Writing, Expected
<1>2. \A d, c \in Conns : WritesTo(d, c)' <=> WritesTo(d, c)
  BY DEF OthersSame, WritesTo, Writing
<1>3. \A c \in Conns \ {p} : ~WritesTo(t, c)
  BY DEF WritesTo
<1>4. WritesTo(t, p)
  BY <1>0 DEF WritesTo
<1>5. FramesWhole'
  BY <1>0 DEF StreamInv, FramesWhole
<1>6. \A c \in Conns : pc'[c] = "new" => link'[c] = "up"
  BY <1>0 DEF StreamInv, OthersSame
<1>7. \A d \in Conns : pc'[d] = "raw" => remaining'[d] > 0
  BY DEF StreamInv, OthersSame
<1>8. \A d, c \in Conns :
          WritesTo(d, c)' /\ link'[c] # "broken" => expect'[c] = Expected(d)'
  BY <1>1, <1>2, <1>3 DEF StreamInv
<1>9. \A c \in Conns : link'[c] # "broken" /\ (\A d \in Conns : ~WritesTo(d, c)')
          => expect'[c] = AtHeader
  BY <1>2, <1>4 DEF StreamInv
<1> QED
  BY <1>5, <1>6, <1>7, <1>8, <1>9 DEF StreamInv

\* Before the first connection every parser waits for a header.
LEMMA StreamInit == Init => StreamInv
  BY DEF Init, StreamInv, FramesWhole, AtHeader, WritesTo, Writing

\* The steps of the environment keep the streams whole.
LEMMA StreamEnvironment ==
    ASSUME TypeInv, RegistryInv, StreamInv, TypeInv', RegistryInv',
           NEW t \in Conns, Environment(t)
    PROVE  StreamInv'
<1> USE DEF registry, mutexes, net, ident, delivery
<1>0. /\ pc \in [Conns -> Pcs] /\ wfd \in [Conns -> Fds \union {None}]
      /\ remaining \in [Conns -> Nat] /\ link \in [Conns -> {"up", "stalled", "gone", "broken"}]
  BY DEF TypeInv, TypeOK, CallType, NetType
<1>1. ASSUME NEW f \in Fds, Accept(t, f) PROVE StreamInv'
  <2>1. link' = link
    BY <1>0, <1>1 DEF Accept, StreamInv
  <2>2. OthersSame(t) /\ ~Writing(t) /\ pc'[t] = "hdr" /\ expect' = expect
    BY <1>0, <1>1 DEF Accept, OthersSame, Writing
  <2>3. \A d \in Conns \ {t} : Writing(d) => sock'[wfd[d]] = sock[wfd[d]]
    <3>1. None \notin Conns
      OBVIOUS
    <3> QED BY <1>1, <3>1, SoleWriter DEF OneWriter, Accept, TypeInv, TypeOK, NetType
  <2> QED BY <2>1, <2>2, <2>3, StartStep
<1>2. ASSUME NEW k, pc[t] = "login", Reject(t, k), UNCHANGED <<net, remaining>>
      PROVE  StreamInv'
  <2>1. OthersSame(t) /\ ~Writing(t) /\ pc'[t] = "hdr"
    BY <1>0, <1>2 DEF Reject, OthersSame, Writing
  <2> QED BY <1>2, <2>1, StartStep
<1>3. ASSUME NEW l \in {"find", "target", "remove", "close"}, ~Writing(t),
             pc' = [pc EXCEPT ![t] = l], UNCHANGED <<net, wfd, remaining>>
      PROVE  StreamInv'
  <2>1. OthersSame(t) /\ ~Writing(t)' /\ pc'[t] # "new"
    BY <1>0, <1>3 DEF OthersSame, Writing
  <2> QED BY <1>3, <2>1, QuietStep
<1>4. CASE RejectLogin(t)
  BY <1>2, <1>4 DEF RejectLogin
<1>5. ASSUME NEW u \in Users, client_manager_add(t, u) PROVE StreamInv'
  <2>1. pc[t] = "login" /\ UNCHANGED <<net, remaining>>
    BY <1>5 DEF client_manager_add
  <2>2. \/ \E k : Reject(t, k)
        \/ pc' = [pc EXCEPT ![t] = "find"] /\ wfd' = wfd
    BY <1>5 DEF client_manager_add
  <2> QED BY <1>2, <1>3, <2>1, <2>2 DEF Writing
<1>6. CASE \/ HandleChat(t) \/ HandleReply(t) \/ HandleFile(t) \/ HandleQuit(t)
           \/ \E u \in Users : HandlePrivate(t, u)
           \/ \E n \in 0 .. MaxBlocks : HandleDownload(t, n)
  <2>1. pc[t] = "idle" /\ UNCHANGED <<net, wfd, remaining>>
    BY <1>6 DEF HandleChat, HandleReply, HandleFile, HandleQuit, HandlePrivate,
                HandleDownload, Receive
  <2>2. \E l \in {"find", "target"} : pc' = [pc EXCEPT ![t] = l]
    BY <1>6 DEF HandleChat, HandleReply, HandleFile, HandleQuit, HandlePrivate,
                HandleDownload, Reply
  <2> QED BY <1>3, <2>1, <2>2 DEF Writing
<1>7. CASE ReceiveFails(t)
  <2>1. \E l \in {"remove", "close"} : pc' = [pc EXCEPT ![t] = l]
    BY <1>7 DEF ReceiveFails
  <2> QED BY <1>3, <1>7, <2>1 DEF ReceiveFails, Writing
<1>8. CASE PeerLeaves(t) \/ PeerStalls(t) \/ PeerResumes(t)
  <2>1. /\ UNCHANGED <<sock, expect, pc, wfd, remaining>>
        /\ \A c \in Conns : link'[c] # "broken" => link[c] # "broken"
        /\ \A c \in Conns : pc[c] = "new" => link'[c] = "up"
    BY <1>0, <1>8 DEF PeerLeaves, PeerStalls, PeerResumes, SetLink, StreamInv
  <2>2. \A d, c \in Conns : (WritesTo(d, c)' <=> WritesTo(d, c)) /\ Expected(d)' = Expected(d)
    BY <2>1 DEF WritesTo, Writing, Expected
  <2> QED BY <2>1, <2>2 DEF StreamInv, FramesWhole
<1> QED
  BY <1>1, <1>4, <1>5, <1>6, <1>7, <1>8 DEF Environment

\* The steps of a thread keep the streams whole, if reading a file never fails
\* in the middle.
LEMMA StreamThread ==
    ASSUME ~ReadErrors, TypeInv, RegistryInv, StreamInv, TypeInv', RegistryInv',
           NEW t \in Conns, Thread(t)
    PROVE  StreamInv'
<1> USE DEF registry, mutexes, net, ident, delivery
<1> DEFINE p == sock[wfd[t]]
<1>0. /\ pc \in [Conns -> Pcs] /\ wfd \in [Conns -> Fds \union {None}]
      /\ remaining \in [Conns -> Nat] /\ expect \in [Conns -> ParserStates]
      /\ link \in [Conns -> {"up", "stalled", "gone", "broken"}]
      /\ msg[t] \in Frames
  BY DEF TypeInv, TypeOK, CallType, NetType
<1>1. ASSUME NEW l \in Pcs \ {"new", "hdr", "pay", "raw"}, ~Writing(t),
             pc' = [pc EXCEPT ![t] = l], UNCHANGED <<sock, link, expect, wfd, remaining>>
      PROVE  StreamInv'
  <2>1. OthersSame(t) /\ ~Writing(t)' /\ pc'[t] # "new"
    BY <1>0, <1>1 DEF OthersSame, Writing
  <2> QED BY <1>1, <2>1, QuietStep
<1>2. ASSUME NEW r \in {0, 1, -1}, SendReturns(t, r)
      PROVE  \E l \in Pcs \ {"new", "hdr", "pay", "raw"} : pc' = [pc EXCEPT ![t] = l]
  BY <1>2, SendReturnsShape DEF TypeInv, ReturnsTo, Pcs
<1>3. CASE \E r \in {1, -1} : pc[t] = "find" /\ SendToSelf(t, r)
  <2>1. \E l \in Pcs \ {"new", "hdr", "pay", "raw"} : pc' = [pc EXCEPT ![t] = l]
    BY <1>2, <1>3 DEF SendToSelf, Pcs
  <2> QED BY <1>1, <1>3, <2>1 DEF SendToSelf, Writing
<1>4. CASE send_to_target(t)
  <2>1. \E l \in Pcs \ {"new", "hdr", "pay", "raw"} : pc' = [pc EXCEPT ![t] = l]
    BY <1>2, <1>4 DEF send_to_target, Pcs
  <2> QED BY <1>1, <1>4, <2>1 DEF send_to_target, Writing
<1>5. CASE LockSend(t)
  <2>1. OthersSame(t) /\ ~Writing(t) /\ pc'[t] = "hdr"
    BY <1>0, <1>5 DEF LockSend, OthersSame, Writing
  <2> QED BY <1>5, <2>1, StartStep DEF LockSend
<1>6. ASSUME Writing(t), Accepts(t)
      PROVE  /\ p \in Conns /\ link[p] # "broken" /\ expect[p] = Expected(t)
             /\ expect[p] \in ParserStates
  BY <1>0, <1>6, SoleWriter DEF OneWriter, Accepts, StreamInv, WritesTo
<1>7. CASE WriteHeader(t)
  <2>1. p \in Conns /\ expect[p] = AtHeader
    BY <1>6, <1>7 DEF WriteHeader, Writing, Expected
  <2>2. OthersSame(t) /\ Writing(t) /\ Writing(t)' /\ pc'[t] = "pay"
    BY <1>0, <1>7 DEF WriteHeader, OthersSame, Writing
  <2>3. Expected(t)' = [at |-> "payload", left |-> 0]
    BY <2>2 DEF Expected
  <2>4. expect'[p] = [at |-> "payload", left |-> 0]
    BY <1>0, <1>7, <2>1 DEF WriteHeader, AfterHeader, AtHeader
  <2>5. \A c \in Conns \ {p} : expect'[c] = expect[c]
    BY <1>0, <1>7 DEF WriteHeader
  <2> QED BY <1>7, <2>2, <2>3, <2>4, <2>5, ContinueStep DEF WriteHeader
<1>8. CASE WritePayload(t)
  <2>1. p \in Conns /\ expect[p] = [at |-> "payload", left |-> 0]
    BY <1>6, <1>8 DEF WritePayload, Writing, Expected
  <2>2. \A c \in Conns \ {p} : expect'[c] = expect[c]
    BY <1>0, <1>8 DEF WritePayload
  <2>3. Writing(t) /\ UNCHANGED <<sock, link>>
    BY <1>8 DEF WritePayload, Writing
  <2>4. CASE msg[t].type = "DOWNLOAD_READY" /\ msg[t].arg > 0
    <3>1. expect'[p] = [at |-> "raw", left |-> msg[t].arg]
      BY <1>0, <1>8, <2>1, <2>4 DEF WritePayload, AfterPayload
    <3>2. /\ pc' = [pc EXCEPT ![t] = "raw"] /\ wfd' = wfd
          /\ remaining' = [remaining EXCEPT ![t] = msg[t].arg]
      BY <1>8, <2>4 DEF WritePayload
    <3>3. OthersSame(t) /\ Writing(t)' /\ pc'[t] = "raw" /\ remaining'[t] = msg[t].arg
      BY <1>0, <3>2 DEF OthersSame, Writing
    <3>4. Expected(t)' = [at |-> "raw", left |-> msg[t].arg]
      BY <3>3 DEF Expected
    <3> QED BY <2>2, <2>3, <2>4, <3>1, <3>2, <3>3, <3>4, ContinueStep
  <2>5. CASE ~(msg[t].type = "DOWNLOAD_READY" /\ msg[t].arg > 0)
    <3>1. expect'[p] = AtHeader
      BY <1>0, <1>8, <2>1, <2>5 DEF WritePayload, AfterPayload
    <3>2. FinishSend(t, 0) /\ remaining' = remaining
      BY <1>8, <2>5 DEF WritePayload
    <3>3. PICK l \in Pcs \ {"new", "hdr", "pay", "raw"} : pc' = [pc EXCEPT ![t] = l]
      BY <1>2, <3>2 DEF FinishSend
    <3>4. OthersSame(t) /\ ~Writing(t)' /\ pc'[t] # "new"
      BY <1>0, <3>2, <3>3 DEF FinishSend, OthersSame, Writing
    <3> QED BY <2>2, <2>3, <3>1, <3>4, StopStep
  <2> QED BY <2>4, <2>5
<1>9. CASE WriteRaw(t)
  <2>1. p \in Conns /\ expect[p] = [at |-> "raw", left |-> remaining[t]]
    BY <1>6, <1>9 DEF WriteRaw, Writing, Expected
  <2>2. \A c \in Conns \ {p} : expect'[c] = expect[c]
    BY <1>0, <1>9 DEF WriteRaw
  <2>3. /\ Writing(t) /\ UNCHANGED <<sock, link>>
        /\ remaining[t] \in Nat /\ remaining' = [remaining EXCEPT ![t] = @ - 1]
    BY <1>0, <1>9 DEF WriteRaw, Writing
  <2>4. CASE remaining[t] > 1
    <3>1. expect'[p] = [at |-> "raw", left |-> remaining[t] - 1]
      BY <1>0, <1>9, <2>1, <2>3, <2>4 DEF WriteRaw, AfterRaw
    <3>2. UNCHANGED <<pc, wfd>>
      BY <1>9, <2>3, <2>4 DEF WriteRaw
    <3>3. /\ OthersSame(t) /\ Writing(t)' /\ pc'[t] = "raw"
          /\ remaining'[t] = remaining[t] - 1 /\ remaining'[t] > 0
      BY <1>0, <1>9, <2>3, <2>4, <3>2 DEF WriteRaw, OthersSame, Writing
    <3>4. Expected(t)' = [at |-> "raw", left |-> remaining[t] - 1]
      BY <3>3 DEF Expected
    <3> QED BY <2>2, <2>3, <3>1, <3>2, <3>3, <3>4, ContinueStep
  <2>5. CASE remaining[t] = 1 /\ FinishSend(t, 0)
    <3>1. expect'[p] = AtHeader
      BY <1>0, <1>9, <2>1, <2>5 DEF WriteRaw, AfterRaw
    <3>2. PICK l \in Pcs \ {"new", "hdr", "pay", "raw"} : pc' = [pc EXCEPT ![t] = l]
      BY <1>2, <2>5 DEF FinishSend
    <3>3. OthersSame(t) /\ ~Writing(t)' /\ pc'[t] # "new"
      BY <1>0, <2>3, <2>5, <3>2 DEF FinishSend, OthersSame, Writing
    <3> QED BY <2>2, <2>3, <3>1, <3>3, StopStep
  <2> QED BY <1>9, <2>4, <2>5 DEF WriteRaw
<1>10. CASE WriteFail(t)
  <2>1. p \in Conns
    BY <1>10, SoleWriter DEF WriteFail, OneWriter
  <2>2. PICK l \in Pcs \ {"new", "hdr", "pay", "raw"} : pc' = [pc EXCEPT ![t] = l]
    BY <1>2, <1>10 DEF WriteFail, FinishSend
  <2>3. OthersSame(t) /\ ~Writing(t)' /\ pc'[t] # "new"
    BY <1>0, <1>10, <2>2 DEF WriteFail, FinishSend, OthersSame, Writing
  <2>4. link'[p] = "broken" /\ \A c \in Conns \ {p} : link'[c] = link[c]
    BY <1>10, <2>1 DEF WriteFail
  <2> QED BY <1>10, <2>3, <2>4, StopStep DEF WriteFail
<1>11. CASE ReadFail(t)
  BY <1>11 DEF ReadFail
<1>12. CASE client_manager_remove(t) \/ RemoveClear(t) \/ RemoveUnlock(t)
  <2>1. \E l \in Pcs \ {"new", "hdr", "pay", "raw"} : pc' = [pc EXCEPT ![t] = l]
    BY <1>12 DEF client_manager_remove, RemoveClear, RemoveUnlock, Pcs
  <2> QED BY <1>1, <1>12, <2>1 DEF client_manager_remove, RemoveClear, RemoveUnlock, Writing
<1>13. CASE Close(t)
  <2>1. /\ UNCHANGED <<link, expect, wfd, remaining>>
        /\ pc' = [pc EXCEPT ![t] = "done"] /\ pc[t] = "close"
        /\ sock' = [sock EXCEPT ![fd[t]] = None]
    BY <1>13 DEF Close
  <2>2. OthersSame(t) /\ ~Writing(t) /\ ~Writing(t)'
    BY <1>0, <2>1 DEF OthersSame, Writing
  <2>3. \A d \in Conns : Writing(d) => sock'[wfd[d]] = sock[wfd[d]]
    <3>1. \A d \in Conns : Writing(d) => sock'[wfd[d]] \in Conns
      BY <2>1, <2>2, SoleWriterNext DEF OneWriter, OthersSame, Writing
    <3>2. None \notin Conns
      OBVIOUS
    <3> QED BY <1>0, <2>1, <3>1, <3>2 DEF TypeInv, TypeOK, NetType, Writing
  <2>4. \A d, c \in Conns : WritesTo(d, c)' <=> WritesTo(d, c)
    BY <2>1, <2>2, <2>3 DEF WritesTo, OthersSame, Writing
  <2>5. \A d, c \in Conns : WritesTo(d, c) => Expected(d)' = Expected(d)
    BY <2>2 DEF OthersSame, WritesTo, Writing, Expected
  <2> QED BY <1>0, <2>1, <2>2, <2>4, <2>5 DEF StreamInv, FramesWhole, OthersSame, Writing
<1> QED
  BY <1>3, <1>4, <1>5, <1>7, <1>8, <1>9, <1>10, <1>11, <1>12, <1>13
     DEF Thread, client_manager_send, client_manager_send_file_stream

\* Every step keeps the streams whole.
LEMMA StreamStep ==
    ASSUME NoOverflow, ~ReadErrors
    PROVE  TypeInv /\ RegistryInv /\ StreamInv /\ [Next]_vars => StreamInv'
<1>1. StreamInv /\ UNCHANGED vars => StreamInv'
  BY DEF vars, net, StreamInv, FramesWhole, WritesTo, Writing, Expected
<1> QED
  BY <1>1, TypeStep, RegistryStep, StreamEnvironment, StreamThread DEF Next, Finished

\* Below 2^31 logins, and if no read() of a shared file fails during its
\* download, a client always finds whole frames and whole files: broadcasts,
\* private messages and replies are never inserted into one another or into
\* the raw data that follows DOWNLOAD_READY.
THEOREM StreamsStayWhole ==
    ASSUME NoOverflow, ~ReadErrors PROVE Spec => []FramesWhole
<1>1. TypeInv /\ RegistryInv /\ StreamInv /\ [Next]_vars
        => TypeInv' /\ RegistryInv' /\ StreamInv'
  BY TypeStep, RegistryStep, StreamStep
<1>2. StreamInv => FramesWhole
  BY DEF StreamInv
<1> QED
  BY <1>1, <1>2, TypeInit, RegistryInit, StreamInit, PTL DEF Spec
=============================================================================
