-------------------------- MODULE ChatClientProofs --------------------------
EXTENDS ChatClientInv, TLAPS

(***************************************************************************)
(* Proofs about the client: its local files, its two streams and what its  *)
(* uploads report, for any number of names, blocks, commands, failing      *)
(* calls and steps of others.                                              *)
(***************************************************************************)

-----------------------------------------------------------------------------
(* Sequences.                                                              *)

LEMMA AppendElements ==
  ASSUME NEW T, NEW q \in Seq(T), NEW m \in T
  PROVE  /\ Append(q, m) \in Seq(T)
         /\ Len(Append(q, m)) = Len(q) + 1
         /\ \A i \in 1 .. Len(q) : Append(q, m)[i] = q[i]
         /\ Append(q, m)[Len(q) + 1] = m
         /\ Elements(Append(q, m)) = Elements(q) \union {m}
<1>1. /\ Append(q, m) \in Seq(T)
      /\ Len(Append(q, m)) = Len(q) + 1
      /\ \A i \in 1 .. Len(q) : Append(q, m)[i] = q[i]
      /\ Append(q, m)[Len(q) + 1] = m
  OBVIOUS
<1>2. Len(q) \in Nat
  OBVIOUS
<1>3. 1 .. Len(q) + 1 = (1 .. Len(q)) \union {Len(q) + 1}
  BY <1>2
<1>4. Elements(Append(q, m)) = Elements(q) \union {m}
  BY <1>1, <1>3 DEF Elements
<1> QED BY <1>1, <1>4

LEMMA TailElements ==
  ASSUME NEW T, NEW q \in Seq(T), q # <<>>
  PROVE  /\ Len(q) \in Nat \ {0}
         /\ Head(q) = q[1] /\ Head(q) \in T /\ Head(q) \in Elements(q)
         /\ Tail(q) \in Seq(T)
         /\ Len(Tail(q)) = Len(q) - 1
         /\ \A i \in 1 .. Len(Tail(q)) : Tail(q)[i] = q[i + 1]
         /\ Elements(Tail(q)) \subseteq Elements(q)
         /\ \A m \in Elements(Tail(q)) :
               \E i \in 2 .. Len(q) : q[i] = m
<1>1. /\ Len(q) \in Nat \ {0}
      /\ Head(q) = q[1] /\ Head(q) \in T
      /\ Tail(q) \in Seq(T)
      /\ Len(Tail(q)) = Len(q) - 1
      /\ \A i \in 1 .. Len(Tail(q)) : Tail(q)[i] = q[i + 1]
  OBVIOUS
<1>2. \A m \in Elements(Tail(q)) : \E i \in 2 .. Len(q) : q[i] = m
  <2> TAKE m \in Elements(Tail(q))
  <2>1. PICK i \in 1 .. Len(Tail(q)) : Tail(q)[i] = m
    BY DEF Elements
  <2>2. i + 1 \in 2 .. Len(q) /\ q[i + 1] = m
    BY <1>1, <2>1
  <2> QED BY <2>2
<1>3. Head(q) \in Elements(q)
  BY <1>1 DEF Elements
<1>4. Elements(Tail(q)) \subseteq Elements(q)
  <2>1. \A i \in 2 .. Len(q) : i \in 1 .. Len(q)
    BY <1>1
  <2> QED BY <1>2, <2>1 DEF Elements
<1> QED BY <1>1, <1>2, <1>3, <1>4

LEMMA EmptyElements == Elements(<<>>) = {} /\ Len(<<>>) = 0
  BY DEF Elements

LEMMA ConcatElements ==
  ASSUME NEW T, NEW q \in Seq(T), NEW r \in Seq(T)
  PROVE  /\ q \o r \in Seq(T)
         /\ Len(q \o r) = Len(q) + Len(r)
         /\ \A i \in 1 .. Len(q) : (q \o r)[i] = q[i]
         /\ \A i \in 1 .. Len(r) : (q \o r)[Len(q) + i] = r[i]
         /\ \A i \in Len(q) + 1 .. Len(q) + Len(r) : (q \o r)[i] = r[i - Len(q)]
         /\ Elements(q \o r) = Elements(q) \union Elements(r)
<1>1. /\ q \o r \in Seq(T)
      /\ Len(q) \in Nat /\ Len(r) \in Nat
      /\ Len(q \o r) = Len(q) + Len(r)
  OBVIOUS
<1>2. \A i \in 1 .. Len(q) + Len(r) :
          (q \o r)[i] = IF i <= Len(q) THEN q[i] ELSE r[i - Len(q)]
  OBVIOUS
<1>3. /\ \A i \in 1 .. Len(q) : (q \o r)[i] = q[i]
      /\ \A i \in 1 .. Len(r) : (q \o r)[Len(q) + i] = r[i]
      /\ \A i \in Len(q) + 1 .. Len(q) + Len(r) : (q \o r)[i] = r[i - Len(q)]
  BY <1>1, <1>2
<1>4. \A i \in 1 .. Len(q) + Len(r) :
          i \in 1 .. Len(q) \/ i - Len(q) \in 1 .. Len(r)
  BY <1>1
<1>5. Elements(q \o r) \subseteq Elements(q) \union Elements(r)
  <2> SUFFICES ASSUME NEW m \in Elements(q \o r)
               PROVE  m \in Elements(q) \union Elements(r)
    OBVIOUS
  <2>1. PICK i \in 1 .. Len(q) + Len(r) : (q \o r)[i] = m
    BY <1>1 DEF Elements
  <2> QED BY <1>2, <1>3, <1>4, <2>1 DEF Elements
<1>6. Elements(q) \union Elements(r) \subseteq Elements(q \o r)
  <2>1. \A i \in 1 .. Len(q) : i \in 1 .. Len(q \o r)
    BY <1>1
  <2>2. \A i \in 1 .. Len(r) : Len(q) + i \in 1 .. Len(q \o r)
    BY <1>1
  <2> QED BY <1>3, <2>1, <2>2 DEF Elements
<1> QED BY <1>1, <1>3, <1>5, <1>6

-----------------------------------------------------------------------------
(* Types.                                                                  *)

LEMMA Constants ==
  /\ MaxSize \in Nat /\ MaxCommands \in Nat /\ MaxOthers \in Nat /\ MaxFaults \in Nat
  /\ None \notin Names /\ None \notin Nat
  /\ 0 \in Sizes /\ 0 \in Requests
  /\ Sizes \subseteq Nat /\ Requests \subseteq Nat
  BY ChatClientAssumption DEF Sizes, Requests

LEMMA ConstantSets ==
  /\ Documents \subseteq Names /\ FileSizes \subseteq Sizes
  /\ Requests \subseteq LocalFiles /\ LocalFiles \subseteq Nat
  /\ 0 \in LocalFiles /\ None \notin LocalFiles
  /\ \A k \in 1 .. MaxOthers : MaxCommands + k \in LocalFiles \ Requests
  /\ \A f \in LocalFiles \ Requests : f \notin 1 .. MaxCommands
<1>1. FileSizes \subseteq Sizes
  BY ChatClientAssumption DEF Sizes
<1>2. Requests \subseteq LocalFiles /\ LocalFiles \subseteq Nat /\ 0 \in LocalFiles
      /\ None \notin LocalFiles
  BY ChatClientAssumption DEF Requests, LocalFiles
<1>3. \A k \in 1 .. MaxOthers : MaxCommands + k \in LocalFiles \ Requests
  BY ChatClientAssumption DEF Requests, LocalFiles
<1>4. \A f \in LocalFiles \ Requests : f \notin 1 .. MaxCommands
  BY ChatClientAssumption DEF Requests, LocalFiles
<1> QED BY <1>1, <1>2, <1>3, <1>4, ChatClientAssumption

LEMMA ItemTypes ==
  ASSUME NEW T, NEW t \in T, NEW k \in Requests, NEW n \in Names \union {None},
         NEW s \in Sizes
  PROVE  /\ Item(t, k, n, s) \in Items(T)
         /\ Item(t, k, n, s).type = t /\ Item(t, k, n, s).num = k
         /\ Item(t, k, n, s).name = n /\ Item(t, k, n, s).size = s
  BY DEF Item, Items

LEMMA FileTypes ==
  ASSUME NEW k \in Requests, NEW n \in Names \union {None}, NEW s \in Sizes
  PROVE  /\ File(k, n, s) \in Files
         /\ File(k, n, s).num = k /\ File(k, n, s).name = n /\ File(k, n, s).size = s
  BY DEF File, Files

\* What an item goes through on the way.
LEMMA Sent ==
  ASSUME TypeOK, NEW m \in Items(ToServer), SendDone(m)
  PROVE  /\ to_server' \in Seq(Items(ToServer))
         /\ \/ to_server' = to_server /\ srv = "closed"
            \/ to_server' = Append(to_server, m) /\ srv # "closed"
         /\ ~shut
         /\ Elements(to_server') \subseteq Elements(to_server) \union {m}
  BY AppendElements DEF SendDone, TypeOK

LEMMA Consumed ==
  ASSUME TypeOK, to_client # <<>>, Consume
  PROVE  /\ to_client' \in Seq(Items(ToClient))
         /\ Head(to_client) \in Items(ToClient)
         /\ Head(to_client) \in Elements(to_client)
         /\ Elements(to_client') \subseteq Elements(to_client)
  BY TailElements DEF Consume, TypeOK

LEMMA FaultTypes ==
  ASSUME TypeOK
  PROVE  Fault \/ NoFault => faults' \in 0 .. MaxFaults
  BY Constants DEF TypeOK, Fault, NoFault

\* The types in groups of variables.
ThreadTypes ==
    /\ mpc \in MainPcs /\ rpc \in ReceiverPcs
    /\ client_running \in BOOLEAN /\ shut \in BOOLEAN
SessionTypes ==
    /\ upload_state \in {"IDLE", "WAIT_READY", "WAIT_RESULT"}
    /\ response_available \in BOOLEAN /\ connection_closed \in BOOLEAN
    /\ response \in Items(ToClient)
SendingTypes ==
    /\ answer \in Items(ToClient)
    /\ upload \in Files /\ unsent \in Sizes
    /\ outcome \subseteq [num : Requests, name : Names \union {None},
                          size : Sizes, result : {0, 1, -1}, by : Requests]
ReceivingTypes ==
    /\ download \in [num : Requests, name : Names \union {None}, size : Sizes,
                     left : Sizes, failed : BOOLEAN]
    /\ local \in [Names -> LocalFiles \union {None}]
    /\ temp \in Requests \union {None}
    /\ content \in [LocalFiles -> [size : Sizes, len : Sizes]]
    /\ saved \subseteq Files
StreamTypes ==
    to_server \in Seq(Items(ToServer)) /\ to_client \in Seq(Items(ToClient))
ServerTypes ==
    /\ srv \in {"new", "login", "registered", "idle", "data", "closed"}
    /\ srv_upload \in Files /\ srv_left \in Sizes
    /\ shared \in [Names -> Files \union {None}]
CountTypes ==
    ncmd \in Requests /\ nothers \in 0 .. MaxOthers /\ faults \in 0 .. MaxFaults

LEMMA TypeParts ==
  TypeOK <=> /\ ThreadTypes /\ SessionTypes /\ SendingTypes /\ ReceivingTypes
             /\ StreamTypes /\ ServerTypes /\ CountTypes
  BY DEF TypeOK, ThreadTypes, SessionTypes, SendingTypes, ReceivingTypes,
         StreamTypes, ServerTypes, CountTypes

LEMMA TypePartsPrime ==
  TypeOK' <=> /\ ThreadTypes' /\ SessionTypes' /\ SendingTypes' /\ ReceivingTypes'
              /\ StreamTypes' /\ ServerTypes' /\ CountTypes'
  BY DEF TypeOK, ThreadTypes, SessionTypes, SendingTypes, ReceivingTypes,
         StreamTypes, ServerTypes, CountTypes

\* The upload returns.
LEMMA ReturnTypes ==
  ASSUME TypeOK, NEW r \in {0, 1, -1}, NEW k \in Requests, Returned(r, k)
  PROVE  outcome' \subseteq [num : Requests, name : Names \union {None},
                             size : Sizes, result : {0, 1, -1}, by : Requests]
<1>1. upload \in Files
  BY DEF TypeOK
<1>2. upload.num \in Requests /\ upload.name \in Names \union {None}
      /\ upload.size \in Sizes
  BY <1>1 DEF Files
<1> QED BY <1>2 DEF TypeOK, Returned

\* A line is typed.
LEMMA TypeTypes ==
  ASSUME TypeOK, NEW cmd, Type(cmd)
  PROVE  ncmd' \in Requests /\ ncmd' = ncmd + 1 /\ ncmd' > 0
  BY Constants DEF TypeOK, Type, Requests

LEMMA LoginTypes ==
  ASSUME TypeOK,
         connect_to_server \/ ReceiveGreeting \/ EnterUsername \/ ReceiveLoginResult
  PROVE  TypeOK'
<1> USE DEF session, sending, receiving, disk, streams, server
<1>0. /\ ThreadTypes /\ SessionTypes /\ SendingTypes /\ ReceivingTypes
      /\ StreamTypes /\ ServerTypes /\ CountTypes
  BY TypeParts
<1>1. CASE connect_to_server
  BY <1>1, TypeParts, TypePartsPrime
     DEF connect_to_server, ExitFailure, ThreadTypes, MainPcs,
         SessionTypes, SendingTypes, ReceivingTypes, StreamTypes, ServerTypes, CountTypes
<1>2. CASE ReceiveGreeting
  <2>1. StreamTypes'
    BY <1>0, <1>2, Consumed DEF ReceiveGreeting, Arrived, StreamTypes
  <2>2. ThreadTypes'
    BY <1>0, <1>2 DEF ReceiveGreeting, ExitFailure, ThreadTypes, MainPcs
  <2> QED BY <1>0, <1>2, <2>1, <2>2, TypePartsPrime
          DEF ReceiveGreeting, SessionTypes, SendingTypes, ReceivingTypes,
              ServerTypes, CountTypes
<1>3. CASE EnterUsername
  <2>1. Item("LOGIN", 0, None, 0) \in Items(ToServer)
    BY Constants, ItemTypes DEF ToServer
  <2>2. StreamTypes'
    BY <1>0, <1>3, <2>1, Sent DEF EnterUsername, StreamTypes
  <2>3. ThreadTypes'
    BY <1>0, <1>3 DEF EnterUsername, ExitFailure, ThreadTypes, MainPcs
  <2> QED BY <1>0, <1>3, <2>2, <2>3, TypePartsPrime
          DEF EnterUsername, SessionTypes, SendingTypes, ReceivingTypes,
              ServerTypes, CountTypes
<1>4. CASE ReceiveLoginResult
  <2>1. StreamTypes'
    BY <1>0, <1>4, Consumed DEF ReceiveLoginResult, Arrived, StreamTypes
  <2>2. ThreadTypes'
    BY <1>0, <1>4 DEF ReceiveLoginResult, ExitFailure, ThreadTypes, MainPcs, ReceiverPcs
  <2>3. CountTypes'
    BY <1>0, <1>4, FaultTypes DEF ReceiveLoginResult, CountTypes
  <2> QED BY <1>0, <1>4, <2>1, <2>2, <2>3, TypePartsPrime
          DEF ReceiveLoginResult, SessionTypes, SendingTypes, ReceivingTypes, ServerTypes
<1> QED BY <1>1, <1>2, <1>3, <1>4

LEMMA InputTypes ==
  ASSUME TypeOK,
         \/ Ask \/ (\E n \in Names : Download(n)) \/ Quit \/ InputEnds
         \/ TypeTooLate \/ InputLoop \/ Join
  PROVE  TypeOK'
<1> USE DEF session, sending, receiving, disk, streams, server
<1>0. /\ ThreadTypes /\ SessionTypes /\ SendingTypes /\ ReceivingTypes
      /\ StreamTypes /\ ServerTypes /\ CountTypes
  BY TypeParts
<1>1. ASSUME NEW m \in Items(ToServer), SendRequest(m), ncmd' \in Requests
      PROVE  TypeOK'
  <2>1. StreamTypes'
    BY <1>0, <1>1, Sent DEF SendRequest, StreamTypes
  <2>2. ThreadTypes'
    BY <1>0, <1>1 DEF SendRequest, GiveUp, ThreadTypes, MainPcs
  <2> QED BY <1>0, <1>1, <2>1, <2>2, TypePartsPrime
          DEF SendRequest, SessionTypes, SendingTypes, ReceivingTypes, ServerTypes,
              CountTypes
<1>2. CASE Ask
  <2>1. ncmd' \in Requests /\ Item("ask", ncmd', None, 0) \in Items(ToServer)
    BY <1>2, TypeTypes, Constants, ItemTypes DEF Ask, ToServer, CommandKinds
  <2> QED BY <1>1, <1>2, <2>1 DEF Ask
<1>3. ASSUME NEW n \in Names, Download(n) PROVE TypeOK'
  <2>1. ncmd' \in Requests /\ Item("download", ncmd', n, 0) \in Items(ToServer)
    BY <1>3, TypeTypes, Constants, ItemTypes DEF Download, ToServer, CommandKinds
  <2> QED BY <1>1, <1>3, <2>1 DEF Download
<1>4. CASE Quit
  <2>1. ncmd' \in Requests /\ Item("quit", ncmd', None, 0) \in Items(ToServer)
    BY <1>4, TypeTypes, Constants, ItemTypes DEF Quit, ToServer, CommandKinds
  <2>2. StreamTypes'
    BY <1>0, <1>4, <2>1, Sent DEF Quit, StreamTypes
  <2>3. ThreadTypes'
    BY <1>0, <1>4 DEF Quit, ThreadTypes, MainPcs
  <2> QED BY <1>0, <1>4, <2>1, <2>2, <2>3, TypePartsPrime
          DEF Quit, SessionTypes, SendingTypes, ReceivingTypes, ServerTypes, CountTypes
<1>5. CASE InputEnds
  <2>1. Item("quit", 0, None, 0) \in Items(ToServer)
    BY Constants, ItemTypes DEF ToServer, CommandKinds
  <2>2. StreamTypes'
    BY <1>0, <1>5, <2>1, Sent DEF InputEnds, StreamTypes
  <2>3. ThreadTypes'
    BY <1>0, <1>5 DEF InputEnds, ThreadTypes, MainPcs
  <2> QED BY <1>0, <1>5, <2>2, <2>3, TypePartsPrime
          DEF InputEnds, SessionTypes, SendingTypes, ReceivingTypes, ServerTypes,
              CountTypes
<1>6. CASE TypeTooLate \/ InputLoop \/ Join
  <2>1. ThreadTypes'
    BY <1>0, <1>6 DEF TypeTooLate, InputLoop, Join, ThreadTypes, MainPcs
  <2> QED BY <1>0, <1>6, <2>1, TypePartsPrime
          DEF TypeTooLate, InputLoop, Join, SessionTypes, SendingTypes, ReceivingTypes,
              StreamTypes, ServerTypes, CountTypes
<1> QED BY <1>2, <1>3, <1>4, <1>5, <1>6

LEMMA UploadTypes ==
  ASSUME TypeOK,
         \/ \E n \in Names, k \in Sizes : Upload(n, k)
         \/ UploadLock \/ UploadSendMetadata \/ UploadWaitReady \/ UploadRefused
         \/ UploadStart \/ UploadBlock \/ UploadSent \/ UploadWaitResult
         \/ UploadReturn
  PROVE  TypeOK'
<1> USE DEF session, sending, receiving, disk, streams, server
<1>0. /\ ThreadTypes /\ SessionTypes /\ SendingTypes /\ ReceivingTypes
      /\ StreamTypes /\ ServerTypes /\ CountTypes
  BY TypeParts
<1>a. upload.num \in Requests /\ upload.name \in Names \union {None}
      /\ upload.size \in Sizes
  BY <1>0 DEF SendingTypes, Files
<1>b. answer.num \in Requests /\ response.num \in Requests
  BY <1>0 DEF SendingTypes, SessionTypes, Items
<1>1. ASSUME NEW n \in Names, NEW k \in Sizes, Upload(n, k) PROVE TypeOK'
  <2>1. ncmd' \in Requests /\ File(ncmd', n, k) \in Files
    BY <1>1, TypeTypes, FileTypes DEF Upload
  <2>2. CountTypes'
    BY <1>0, <1>1, <2>1, FaultTypes DEF Upload, CountTypes
  <2>3. ThreadTypes' /\ SendingTypes'
    BY <1>0, <1>1, <2>1 DEF Upload, ThreadTypes, SendingTypes, MainPcs
  <2> QED BY <1>0, <1>1, <2>2, <2>3, TypePartsPrime
          DEF Upload, SessionTypes, ReceivingTypes, StreamTypes, ServerTypes
<1>2. CASE UploadLock \/ UploadSent
  <2>1. ThreadTypes' /\ SessionTypes'
    BY <1>0, <1>2 DEF UploadLock, UploadSent, ThreadTypes, SessionTypes, MainPcs
  <2> QED BY <1>0, <1>2, <2>1, TypePartsPrime
          DEF UploadLock, UploadSent, SendingTypes, ReceivingTypes, StreamTypes,
              ServerTypes, CountTypes
<1>3. CASE UploadSendMetadata
  <2>1. Item("upload", upload.num, upload.name, upload.size) \in Items(ToServer)
    BY <1>a, ItemTypes DEF ToServer, CommandKinds
  <2>2. StreamTypes'
    BY <1>0, <1>3, <2>1, Sent DEF UploadSendMetadata, StreamTypes
  <2>3. ThreadTypes'
    BY <1>0, <1>3 DEF UploadSendMetadata, UploadLost, GiveUp, ThreadTypes, MainPcs
  <2>4. SendingTypes'
    BY <1>0, <1>3, <1>a, ReturnTypes DEF UploadSendMetadata, UploadLost, SendingTypes
  <2> QED BY <1>0, <1>3, <2>2, <2>3, <2>4, TypePartsPrime
          DEF UploadSendMetadata, SessionTypes, ReceivingTypes, ServerTypes, CountTypes
<1>4. CASE UploadWaitReady \/ UploadWaitResult
  <2>1. SessionTypes'
    BY <1>0, <1>4 DEF UploadWaitReady, UploadWaitResult, ResponseTaken, SessionTypes
  <2>2. ThreadTypes'
    BY <1>0, <1>4 DEF UploadWaitReady, UploadWaitResult, UploadLost, GiveUp,
       ThreadTypes, MainPcs
  <2>3. SendingTypes'
    BY <1>0, <1>4, <1>a, ReturnTypes
       DEF UploadWaitReady, UploadWaitResult, ResponseTaken, UploadLost, SendingTypes,
           SessionTypes
  <2> QED BY <1>0, <1>4, <2>1, <2>2, <2>3, TypePartsPrime
          DEF UploadWaitReady, UploadWaitResult, StreamTypes, ReceivingTypes,
              ServerTypes, CountTypes
<1>5. CASE UploadRefused \/ UploadReturn
  <2>1. SessionTypes' /\ ThreadTypes'
    BY <1>0, <1>5 DEF UploadRefused, UploadReturn, SessionTypes, ThreadTypes, MainPcs
  <2>2. SendingTypes'
    <3>1. Status(answer) \in {0, 1, -1}
      BY DEF Status
    <3> QED BY <1>0, <1>5, <1>b, <3>1, ReturnTypes
            DEF UploadRefused, UploadReturn, SendingTypes
  <2> QED BY <1>0, <1>5, <2>1, <2>2, TypePartsPrime
          DEF UploadRefused, UploadReturn, StreamTypes, ReceivingTypes, ServerTypes,
              CountTypes
<1>6. CASE UploadStart
  <2>1. SessionTypes' /\ ThreadTypes' /\ SendingTypes'
    BY <1>0, <1>6, <1>a DEF UploadStart, SessionTypes, ThreadTypes, SendingTypes, MainPcs
  <2> QED BY <1>0, <1>6, <2>1, TypePartsPrime
          DEF UploadStart, StreamTypes, ReceivingTypes, ServerTypes, CountTypes
<1>7. CASE UploadBlock
  <2>1. Raw(upload.num) \in Items(ToServer)
    BY <1>a, Constants, ItemTypes DEF Raw, ToServer
  <2>2. StreamTypes'
    BY <1>0, <1>7, <2>1, Sent DEF UploadBlock, StreamTypes
  <2>3. ThreadTypes'
    BY <1>0, <1>7 DEF UploadBlock, UploadLost, GiveUp, ThreadTypes, MainPcs
  <2>4. unsent' \in Sizes
    BY <1>0, <1>7, Constants DEF UploadBlock, SendingTypes, Sizes
  <2>5. SendingTypes'
    BY <1>0, <1>7, <1>a, <2>4, ReturnTypes DEF UploadBlock, UploadLost, SendingTypes
  <2>6. CountTypes'
    BY <1>0, <1>7, FaultTypes DEF UploadBlock, CountTypes
  <2> QED BY <1>0, <1>7, <2>2, <2>3, <2>5, <2>6, TypePartsPrime
          DEF UploadBlock, SessionTypes, ReceivingTypes, ServerTypes
<1> QED BY <1>1, <1>2, <1>3, <1>4, <1>5, <1>6, <1>7

LEMMA ReceiverTypes ==
  ASSUME TypeOK,
         \/ ReceiverLoop \/ ReceiveUploadAnswer \/ ReceiveMessage \/ ConnectionLost
         \/ ReceiverStop
  PROVE  TypeOK'
<1> USE DEF session, sending, receiving, disk, streams, server
<1>0. /\ ThreadTypes /\ SessionTypes /\ SendingTypes /\ ReceivingTypes
      /\ StreamTypes /\ ServerTypes /\ CountTypes
  BY TypeParts
<1>1. CASE ReceiverLoop \/ ConnectionLost \/ ReceiverStop
  <2>1. ThreadTypes' /\ SessionTypes'
    BY <1>0, <1>1 DEF ReceiverLoop, ConnectionLost, ReceiverStop, ThreadTypes,
       SessionTypes, ReceiverPcs
  <2> QED BY <1>0, <1>1, <2>1, TypePartsPrime
          DEF ReceiverLoop, ConnectionLost, ReceiverStop, SendingTypes, ReceivingTypes,
              StreamTypes, ServerTypes, CountTypes
<1>2. CASE ReceiveUploadAnswer
  <2>1. StreamTypes'
    BY <1>0, <1>2, Consumed DEF ReceiveUploadAnswer, Arrived, StreamTypes
  <2>2. ThreadTypes' /\ SessionTypes'
    BY <1>0, <1>2 DEF ReceiveUploadAnswer, ThreadTypes, SessionTypes, ReceiverPcs, Items
  <2> QED BY <1>0, <1>2, <2>1, <2>2, TypePartsPrime
          DEF ReceiveUploadAnswer, SendingTypes, ReceivingTypes, ServerTypes, CountTypes
<1>3. CASE ReceiveMessage
  <2>1. StreamTypes'
    BY <1>0, <1>3, Consumed DEF ReceiveMessage, Arrived, StreamTypes
  <2>2. client_running' \in BOOLEAN
    BY <1>0, <1>3 DEF ReceiveMessage, ThreadTypes
  <2>3. ThreadTypes'
    BY <1>0, <1>3, <2>2 DEF ReceiveMessage, ThreadTypes, ReceiverPcs
  <2> QED BY <1>0, <1>3, <2>1, <2>3, TypePartsPrime
          DEF ReceiveMessage, SessionTypes, SendingTypes, ReceivingTypes, ServerTypes,
              CountTypes
<1> QED BY <1>1, <1>2, <1>3

LEMMA DownloadFields ==
  ASSUME TypeOK
  PROVE  /\ download.num \in Requests /\ download.name \in Names \union {None}
         /\ download.size \in Sizes /\ download.left \in Sizes
         /\ download.failed \in BOOLEAN
         /\ content[download.num] \in [size : Sizes, len : Sizes]
         /\ NoDownload \in [num : Requests, name : Names \union {None}, size : Sizes,
                            left : Sizes, failed : BOOLEAN]
<1>1. download \in [num : Requests, name : Names \union {None}, size : Sizes,
                    left : Sizes, failed : BOOLEAN]
  BY DEF TypeOK
<1>2. content[download.num] \in [size : Sizes, len : Sizes]
  BY <1>1, ConstantSets DEF TypeOK
<1> QED BY <1>1, <1>2, Constants DEF NoDownload

LEMMA DownloadTypes ==
  ASSUME TypeOK, NameInv, WriteInv,
         \/ ReceiveDownloadReady \/ DownloadOpen \/ DownloadBlock \/ DownloadLost
         \/ DownloadClose \/ DownloadLink \/ DownloadReturn
  PROVE  TypeOK'
<1> USE DEF session, sending, receiving, disk, streams, server
<1>0. /\ ThreadTypes /\ SessionTypes /\ SendingTypes /\ ReceivingTypes
      /\ StreamTypes /\ ServerTypes /\ CountTypes
  BY TypeParts
<1>1. CASE ReceiveDownloadReady
  <2>1. StreamTypes'
    BY <1>0, <1>1, Consumed DEF ReceiveDownloadReady, Arrived, StreamTypes
  <2>2. ThreadTypes' /\ ReceivingTypes'
    BY <1>0, <1>1 DEF ReceiveDownloadReady, ThreadTypes, ReceiverPcs, ReceivingTypes,
       Items
  <2> QED BY <1>0, <1>1, <2>1, <2>2, TypePartsPrime
          DEF ReceiveDownloadReady, SessionTypes, SendingTypes, ServerTypes, CountTypes
<1>2. CASE DownloadOpen
  <2>1. content' \in [LocalFiles -> [size : Sizes, len : Sizes]]
        /\ temp' \in Requests \union {None}
    BY <1>0, <1>2, DownloadFields, Constants
       DEF DownloadOpen, OpenTemp, OpenFails, ReceivingTypes
  <2>2. ReceivingTypes'
    BY <1>0, <1>2, <2>1, DownloadFields
       DEF DownloadOpen, OpenTemp, OpenFails, ReceivingTypes
  <2>3. ThreadTypes'
    BY <1>0, <1>2 DEF DownloadOpen, ThreadTypes, ReceiverPcs
  <2>4. CountTypes'
    BY <1>0, <1>2, FaultTypes DEF DownloadOpen, OpenTemp, OpenFails, CountTypes
  <2> QED BY <1>0, <1>2, <2>2, <2>3, <2>4, TypePartsPrime
          DEF DownloadOpen, SessionTypes, SendingTypes, StreamTypes, ServerTypes
<1>3. CASE DownloadBlock
  <2>1. StreamTypes'
    BY <1>0, <1>3, Consumed DEF DownloadBlock, StreamTypes
  <2>2. download.left - 1 \in Sizes
    BY <1>3, DownloadFields, Constants DEF DownloadBlock, Sizes
  <2>3. \A f \in BOOLEAN :
          AfterBlock(download, f) \in [num : Requests, name : Names \union {None},
                                       size : Sizes, left : Sizes, failed : BOOLEAN]
    BY <1>0, <2>2 DEF AfterBlock, ReceivingTypes
  <2>4. content' \in [LocalFiles -> [size : Sizes, len : Sizes]]
    <3>1. CASE content' = content
      BY <1>0, <3>1 DEF ReceivingTypes
    <3>2. CASE ~download.failed
               /\ content' = [content EXCEPT ![download.num].len = @ + 1]
      <4>1. content[download.num].len + 1 \in Sizes
        <5>1. content[download.num].len = download.size - download.left
          BY <1>3, <3>2 DEF DownloadBlock, WriteInv
        <5>2. download.left > 0
          BY <1>3 DEF DownloadBlock
        <5>3. download.size \in 0 .. MaxSize /\ download.left \in 0 .. MaxSize
              /\ download.left <= download.size
          BY DownloadFields DEF Sizes, WriteInv
        <5> QED BY <5>1, <5>2, <5>3, Constants DEF Sizes
      <4> QED BY <1>0, <3>2, <4>1 DEF ReceivingTypes
    <3> QED BY <1>3, <3>1, <3>2 DEF DownloadBlock
  <2>5. ReceivingTypes'
    BY <1>0, <1>3, <2>3, <2>4 DEF DownloadBlock, ReceivingTypes
  <2>6. CountTypes'
    BY <1>0, <1>3, FaultTypes DEF DownloadBlock, CountTypes
  <2> QED BY <1>0, <1>3, <2>1, <2>5, <2>6, TypePartsPrime
          DEF DownloadBlock, ThreadTypes, SessionTypes, SendingTypes, ServerTypes
<1>4. CASE DownloadLost
  <2>1. CountTypes' /\ ReceivingTypes'
    BY <1>0, <1>4, FaultTypes, DownloadFields
       DEF DownloadLost, UnlinkTemp, CountTypes, ReceivingTypes
  <2>2. ThreadTypes' /\ SessionTypes'
    BY <1>0, <1>4 DEF DownloadLost, ThreadTypes, SessionTypes, ReceiverPcs
  <2> QED BY <1>0, <1>4, <2>1, <2>2, TypePartsPrime
          DEF DownloadLost, SendingTypes, StreamTypes, ServerTypes
<1>5. CASE DownloadClose \/ DownloadLink
  <2>1. CountTypes'
    BY <1>0, <1>5, FaultTypes
       DEF DownloadClose, DownloadLink, DownloadFailed, UnlinkTemp, CountTypes
  <2>2. temp' \in Requests \union {None} /\ download' \in {download, NoDownload}
    BY <1>0, <1>5
       DEF DownloadClose, DownloadLink, DownloadFailed, UnlinkTemp, ReceivingTypes
  <2>3. local' \in [Names -> LocalFiles \union {None}]
    BY <1>0, <1>5, ConstantSets DEF DownloadClose, DownloadLink, ReceivingTypes
  <2>4. ReceivingTypes'
    BY <1>0, <1>5, <2>2, <2>3, DownloadFields
       DEF DownloadClose, DownloadLink, ReceivingTypes
  <2>5. ThreadTypes'
    BY <1>0, <1>5 DEF DownloadClose, DownloadLink, DownloadFailed, ThreadTypes, ReceiverPcs
  <2> QED BY <1>0, <1>5, <2>1, <2>4, <2>5, TypePartsPrime
          DEF DownloadClose, DownloadLink, SessionTypes, SendingTypes, StreamTypes,
              ServerTypes
<1>6. CASE DownloadReturn
  <2>1. CountTypes'
    BY <1>0, <1>6, FaultTypes DEF DownloadReturn, UnlinkTemp, CountTypes
  <2>2. File(download.num, download.name, download.size) \in Files
    BY DownloadFields, FileTypes
  <2>3. ReceivingTypes'
    BY <1>0, <1>6, <2>2, DownloadFields DEF DownloadReturn, UnlinkTemp, ReceivingTypes
  <2>4. ThreadTypes'
    BY <1>0, <1>6 DEF DownloadReturn, ThreadTypes, ReceiverPcs
  <2> QED BY <1>0, <1>6, <2>1, <2>3, <2>4, TypePartsPrime
          DEF DownloadReturn, SessionTypes, SendingTypes, StreamTypes, ServerTypes
<1> QED BY <1>1, <1>2, <1>3, <1>4, <1>5, <1>6

\* The server takes the next item of the client's stream.
LEMMA Received ==
  ASSUME TypeOK, to_server # <<>>, to_server' = Tail(to_server)
  PROVE  /\ to_server' \in Seq(Items(ToServer))
         /\ Head(to_server) \in Items(ToServer)
         /\ Head(to_server) \in Elements(to_server)
         /\ Elements(to_server') \subseteq Elements(to_server)
  BY TailElements DEF TypeOK

\* The server answers.
LEMMA Answered ==
  ASSUME TypeOK, NEW m \in Items(ToClient), Answer(m)
  PROVE  /\ to_client' = Append(to_client, m)
         /\ to_client' \in Seq(Items(ToClient))
         /\ Elements(to_client') = Elements(to_client) \union {m}
  BY AppendElements DEF Answer, TypeOK

\* DOWNLOAD_READY with its data.
FileFrames(k, n, s) == <<Item("DOWNLOAD_READY", k, n, s)>> \o [i \in 1 .. s |-> Raw(k)]

LEMMA FileItems ==
  ASSUME NEW k \in Requests, NEW n \in Names, NEW s \in Sizes
  PROVE  /\ FileFrames(k, n, s) \in Seq(Items(ToClient))
         /\ Len(FileFrames(k, n, s)) = s + 1
         /\ FileFrames(k, n, s)[1] = Item("DOWNLOAD_READY", k, n, s)
         /\ \A i \in 2 .. s + 1 : FileFrames(k, n, s)[i] = Raw(k)
         /\ \A m \in Elements(FileFrames(k, n, s)) :
               m = Item("DOWNLOAD_READY", k, n, s) \/ m = Raw(k)
<1>1. Item("DOWNLOAD_READY", k, n, s) \in Items(ToClient) /\ Raw(k) \in Items(ToClient)
  BY Constants, ItemTypes DEF Raw, ToClient
<1>2. s \in Nat
  BY Constants
<1>3. [i \in 1 .. s |-> Raw(k)] \in Seq(Items(ToClient))
      /\ Len([i \in 1 .. s |-> Raw(k)]) = s
  BY <1>1, <1>2
<1>4. <<Item("DOWNLOAD_READY", k, n, s)>> \in Seq(Items(ToClient))
      /\ Len(<<Item("DOWNLOAD_READY", k, n, s)>>) = 1
      /\ <<Item("DOWNLOAD_READY", k, n, s)>>[1] = Item("DOWNLOAD_READY", k, n, s)
  BY <1>1
<1> DEFINE q == FileFrames(k, n, s)
           a == <<Item("DOWNLOAD_READY", k, n, s)>>
           b == [i \in 1 .. s |-> Raw(k)]
<1>5. \A i \in 1 .. s : b[i] = Raw(k)
  OBVIOUS
<1>a. q = a \o b
  BY DEF FileFrames
<1> HIDE DEF a, b, q
<1>6. /\ q \in Seq(Items(ToClient))
      /\ Len(q) = 1 + s
      /\ q[1] = a[1]
      /\ \A i \in 1 + 1 .. 1 + s : q[i] = b[i - 1]
  BY <1>2, <1>3, <1>4, <1>a, ConcatElements DEF a, b
<1>7. \A i \in 2 .. s + 1 : q[i] = Raw(k)
  BY <1>2, <1>5, <1>6
<1>8. q[1] = Item("DOWNLOAD_READY", k, n, s)
  BY <1>4, <1>6 DEF a
<1>9. \A i \in 1 .. s + 1 : i = 1 \/ i \in 2 .. s + 1
  BY <1>2
<1>10. \A m \in Elements(q) : m = Item("DOWNLOAD_READY", k, n, s) \/ m = Raw(k)
  BY <1>2, <1>6, <1>7, <1>8, <1>9 DEF Elements
<1> QED BY <1>2, <1>6, <1>7, <1>8, <1>10 DEF q

LEMMA ServerStepTypes ==
  ASSUME TypeOK, NameInv, Server \/ ServerCloses \/ Others
  PROVE  TypeOK'
<1> USE DEF session, sending, receiving, disk, streams, server
<1>0. /\ ThreadTypes /\ SessionTypes /\ SendingTypes /\ ReceivingTypes
      /\ StreamTypes /\ ServerTypes /\ CountTypes
  BY TypeParts
<1>a. ClientUnchanged => /\ ThreadTypes' /\ SessionTypes' /\ SendingTypes'
                         /\ ReceivingTypes' /\ UNCHANGED <<ncmd, faults>>
  BY <1>0 DEF ClientUnchanged, ThreadTypes, SessionTypes, SendingTypes, ReceivingTypes
<1>b. \A t \in ToClient, k \in Requests : Item(t, k, None, 0) \in Items(ToClient)
  BY Constants, ItemTypes
<1>1. CASE ServerLogin
  <2>1. StreamTypes'
    <3>1. /\ Item("USERNAME_REQUIRED", 0, None, 0) \in Items(ToClient)
          /\ Item("ERROR", 0, None, 0) \in Items(ToClient)
          /\ Item("LOGIN_SUCCESS", 0, None, 0) \in Items(ToClient)
      BY <1>b, Constants DEF ToClient
    <3>2. to_client' \in Seq(Items(ToClient))
      BY <1>0, <1>1, <3>1, Answered DEF ServerLogin, StreamTypes
    <3>3. \/ to_server' = to_server \/ to_server' = <<>>
          \/ to_server # <<>> /\ to_server' = Tail(to_server)
      BY <1>1 DEF ServerLogin
    <3>4. <<>> \in Seq(Items(ToServer))
      OBVIOUS
    <3> QED BY <1>0, <3>2, <3>3, <3>4, Received DEF StreamTypes
  <2> QED BY <1>0, <1>1, <1>a, <2>1, TypePartsPrime
          DEF ServerLogin, ServerTypes, CountTypes
<1>2. CASE ServerAnswers
  <2>1. PICK m \in Items({"ask", "upload", "download"}) :
               /\ ServerReceives(m)
               /\ \/ Answer(Item("ERROR", m.num, None, 0))
                  \/ Answer(Item("RESPONSE", m.num, None, 0))
    BY <1>2 DEF ServerAnswers
  <2>2. m.num \in Requests
    BY DEF Items
  <2>3. Item("ERROR", m.num, None, 0) \in Items(ToClient)
        /\ Item("RESPONSE", m.num, None, 0) \in Items(ToClient)
    BY <1>b, <2>2 DEF ToClient
  <2>4. StreamTypes'
    BY <1>0, <2>1, <2>3, Received, Answered DEF ServerReceives, StreamTypes
  <2> QED BY <1>0, <1>2, <1>a, <2>4, TypePartsPrime
          DEF ServerAnswers, ServerTypes, CountTypes
<1>3. CASE ServerStreamsFile
  <2>1. PICK m \in Items({"download"}) :
               /\ ServerReceives(m)
               /\ shared[m.name] # None
               /\ AnswerAll(FileFrames(m.num, m.name, shared[m.name].size))
    BY <1>3 DEF ServerStreamsFile, FileFrames
  <2>2. m \in Elements(to_server) /\ m.type = "download"
    BY <2>1, Received DEF ServerReceives, Items
  <2>3. m.num \in Requests /\ m.name \in Names
    BY <2>2 DEF Items, NameInv
  <2>4. shared[m.name].size \in Sizes
    BY <1>0, <2>1, <2>3 DEF ServerTypes, Files
  <2>5. StreamTypes'
    BY <1>0, <2>1, <2>3, <2>4, Received, FileItems, ConcatElements
       DEF ServerReceives, AnswerAll, StreamTypes
  <2> QED BY <1>0, <1>3, <1>a, <2>5, TypePartsPrime
          DEF ServerStreamsFile, ServerTypes, CountTypes
<1>4. CASE ServerReady
  <2>1. PICK m \in Items({"upload"}) :
               /\ ServerReceives(m)
               /\ Answer(Item("UPLOAD_READY", m.num, None, 0))
               /\ srv_upload' = File(m.num, m.name, m.size)
               /\ srv_left' = m.size
    BY <1>4 DEF ServerReady
  <2>2. m.num \in Requests /\ m.name \in Names \union {None} /\ m.size \in Sizes
    BY DEF Items
  <2>3. Item("UPLOAD_READY", m.num, None, 0) \in Items(ToClient)
        /\ File(m.num, m.name, m.size) \in Files
    BY <1>b, <2>2, FileTypes DEF ToClient
  <2>4. StreamTypes'
    BY <1>0, <2>1, <2>3, Received, Answered DEF ServerReceives, StreamTypes
  <2>5. ServerTypes'
    BY <1>0, <1>4, <2>1, <2>2, <2>3 DEF ServerReady, ServerTypes
  <2> QED BY <1>0, <1>4, <1>a, <2>4, <2>5, TypePartsPrime DEF ServerReady, CountTypes
<1>5. CASE ServerBlock
  <2>1. StreamTypes'
    BY <1>0, <1>5, Received DEF ServerBlock, StreamTypes
  <2>2. ServerTypes'
    BY <1>0, <1>5, Constants DEF ServerBlock, ServerTypes, Sizes
  <2> QED BY <1>0, <1>5, <1>a, <2>1, <2>2, TypePartsPrime DEF ServerBlock, CountTypes
<1>6. CASE ServerUploadEnds
  <2>1. srv_upload.num \in Requests
    BY <1>0 DEF ServerTypes, Files
  <2>2. Item("UPLOAD_SUCCESS", srv_upload.num, None, 0) \in Items(ToClient)
        /\ Item("ERROR", srv_upload.num, None, 0) \in Items(ToClient)
    BY <1>b, <2>1 DEF ToClient
  <2>3. StreamTypes'
    BY <1>0, <1>6, <2>2, Answered DEF ServerUploadEnds, StreamTypes
  <2>4. NoFile \in Files
    BY Constants, FileTypes DEF NoFile
  <2>5. ServerTypes'
    BY <1>0, <1>6, <2>4 DEF ServerUploadEnds, ServerTypes
  <2> QED BY <1>0, <1>6, <1>a, <2>3, <2>5, TypePartsPrime
          DEF ServerUploadEnds, CountTypes
<1>7. CASE ServerGoodbye
  <2>1. Item("GOODBYE", 0, None, 0) \in Items(ToClient)
    BY <1>b, Constants DEF ToClient
  <2>2. StreamTypes'
    BY <1>0, <1>7, <2>1, Received, Answered
       DEF ServerGoodbye, ServerReceives, StreamTypes
  <2> QED BY <1>0, <1>7, <1>a, <2>2, TypePartsPrime
          DEF ServerGoodbye, ServerTypes, CountTypes
<1>8. CASE ServerCloses
  <2>1. <<>> \in Seq(Items(ToServer))
    OBVIOUS
  <2> QED BY <1>0, <1>8, <1>a, <2>1, TypePartsPrime
          DEF ServerCloses, StreamTypes, ServerTypes, CountTypes
<1>9. CASE OtherClient
  <2>1. Item("BROADCAST", 0, None, 0) \in Items(ToClient)
    BY <1>b, Constants DEF ToClient
  <2>2. StreamTypes'
    BY <1>0, <1>9, <2>1, Answered DEF OtherClient, StreamTypes
  <2>3. \A n \in Names, k \in Sizes : File(0, n, k) \in Files
    BY Constants, FileTypes
  <2>4. ServerTypes'
    BY <1>0, <1>9, <2>3, ConstantSets DEF OtherClient, ServerTypes
  <2>5. nothers' \in 0 .. MaxOthers
    BY <1>0, <1>9, Constants DEF OtherClient, CountTypes
  <2> QED BY <1>0, <1>9, <1>a, <2>2, <2>4, <2>5, TypePartsPrime
          DEF OtherClient, CountTypes
<1>10. ASSUME NEW n \in Names, OtherProgram(n) PROVE TypeOK'
  <2>1. nothers' \in 1 .. MaxOthers
    BY <1>0, <1>10, Constants DEF OtherProgram, CountTypes
  <2>2. ReceivingTypes'
    <3>1. MaxCommands + nothers' \in LocalFiles
      BY <2>1, ConstantSets
    <3> QED BY <1>0, <1>10, <3>1 DEF OtherProgram, ReceivingTypes
  <2> QED BY <1>0, <1>10, <2>1, <2>2, TypePartsPrime
          DEF OtherProgram, ThreadTypes, SessionTypes, SendingTypes, StreamTypes,
              ServerTypes, CountTypes
<1> QED BY <1>1, <1>2, <1>3, <1>4, <1>5, <1>6, <1>7, <1>8, <1>9, <1>10
        DEF Server, Others

-----------------------------------------------------------------------------
(* Phases, names and numbers.                                              *)

LEMMA PhaseStep ==
  ASSUME TypeOK, PhaseInv, Next
  PROVE  PhaseInv'
<1> USE DEF PhaseInv
<1>1. CASE User
  BY <1>1 DEF User, Ask, Download, Upload, Quit, InputEnds, TypeTooLate, EnterUsername,
     SendRequest, Type, GiveUp, ExitFailure
<1>2. CASE Main
  BY <1>2 DEF Main, connect_to_server, ReceiveGreeting, ReceiveLoginResult, InputLoop,
     UploadLock, UploadSendMetadata, UploadWaitReady, UploadRefused, UploadStart,
     UploadBlock, UploadSent, UploadWaitResult, UploadReturn, Join, UploadLost, GiveUp,
     ExitFailure
<1>3. CASE Receiver
  BY <1>3 DEF Receiver, ReceiverLoop, ReceiveUploadAnswer, ReceiveMessage,
     ReceiveDownloadReady, ConnectionLost, ReceiverStop, DownloadOpen, DownloadBlock,
     DownloadLost, DownloadClose, DownloadLink, DownloadReturn, DownloadFailed
<1>4. CASE Server \/ ServerCloses \/ OtherClient
  BY <1>4 DEF Server, ServerLogin, ServerAnswers, ServerStreamsFile, ServerReady,
     ServerBlock, ServerUploadEnds, ServerGoodbye, ServerCloses, OtherClient,
     ClientUnchanged
<1>5. CASE (\E n \in Names : OtherProgram(n)) \/ Finished
  BY <1>5 DEF OtherProgram, Finished, vars
<1> QED BY <1>1, <1>2, <1>3, <1>4, <1>5 DEF Next, Others

\* What the input thread leaves alone, and what it takes from the server's
\* stream: the frames of the login.
LEMMA MainTakes ==
  ASSUME TypeOK, User \/ Main
  PROVE  /\ UNCHANGED <<download, local, temp, content, saved>>
         /\ UNCHANGED <<srv, srv_upload, srv_left, shared>>
         /\ rpc' = rpc \/ (rpc' = "loop" /\ mpc = "result")
         /\ \/ to_client' = to_client
            \/ /\ to_client # <<>> /\ to_client' = Tail(to_client)
               /\ mpc \in {"greet", "result"}
               /\ Head(to_client).type \notin {"RAW", "DOWNLOAD_READY"}
         /\ mpc = "result" => mpc' \in {"loop", "exit"}
<1> USE DEF session, sending, receiving, disk, streams, server
<1>1. CASE User
  BY <1>1 DEF User, Ask, Download, Upload, Quit, InputEnds, TypeTooLate, EnterUsername,
     SendRequest, Type
<1>2. CASE ReceiveGreeting
  BY <1>2 DEF ReceiveGreeting, Arrived, Consume, Item
<1>3. CASE ReceiveLoginResult
  <2>1. \A m \in Items({"ERROR", "BROADCAST"}) : m.type \in {"ERROR", "BROADCAST"}
    BY DEF Items
  <2> QED BY <1>3, <2>1 DEF ReceiveLoginResult, Arrived, Consume, Item, ExitFailure
<1>4. CASE Main /\ ~ReceiveGreeting /\ ~ReceiveLoginResult
  BY <1>4 DEF Main, connect_to_server, InputLoop,
     UploadLock, UploadSendMetadata, UploadWaitReady, UploadRefused, UploadStart,
     UploadBlock, UploadSent, UploadWaitResult, UploadReturn, Join
<1> QED BY <1>1, <1>2, <1>3, <1>4 DEF Main

\* What the input thread sends: nothing, or one item, a request with a number
\* of its own.
LEMMA MainSends ==
  ASSUME TypeOK, NameInv, OrderInv, User \/ Main
  PROVE  /\ Issued' >= Issued /\ Issued \in Int /\ Issued' \in Int
         /\ mpc' \in {"up_lock", "up_meta"} => upload'.num = ncmd' /\ ncmd' > 0
         /\ \/ to_server' = to_server
            \/ \E m \in Items(ToServer) :
                  /\ to_server' = Append(to_server, m)
                  /\ ~shut /\ srv # "closed"
                  /\ Request(m) => m.num = Issued + 1 /\ Issued' = m.num
                  /\ m.type \in {"upload", "download"} => m.name \in Names
                  /\ m.type = "upload" =>
                        /\ mpc = "up_meta" /\ mpc' = "up_wait"
                        /\ m = Item("upload", upload.num, upload.name, upload.size)
                  /\ m.type = "RAW" => mpc = "up_data" /\ mpc' = "up_data"
                  /\ mpc \in {"user", "input", "up_meta", "up_data"}
<1> DEFINE Sends(m) ==
                  /\ to_server' = Append(to_server, m)
                  /\ ~shut /\ srv # "closed"
                  /\ Request(m) => m.num = Issued + 1 /\ Issued' = m.num
                  /\ m.type \in {"upload", "download"} => m.name \in Names
                  /\ m.type = "upload" =>
                        /\ mpc = "up_meta" /\ mpc' = "up_wait"
                        /\ m = Item("upload", upload.num, upload.name, upload.size)
                  /\ m.type = "RAW" => mpc = "up_data" /\ mpc' = "up_data"
                  /\ mpc \in {"user", "input", "up_meta", "up_data"}
           Kept == to_server' = to_server
           Grows == /\ Issued' >= Issued /\ Issued \in Int /\ Issued' \in Int
                    /\ mpc' \in {"up_lock", "up_meta"} => upload'.num = ncmd' /\ ncmd' > 0
<1> USE DEF session, sending, receiving, disk, streams, server
<1>0. ncmd \in Nat /\ (mpc \in {"up_lock", "up_meta"} => upload.num = ncmd /\ ncmd > 0)
  BY Constants DEF TypeOK, OrderInv
<1>a. ASSUME NEW cmd, Type(cmd) PROVE ncmd' = ncmd + 1 /\ ncmd' \in Requests /\ mpc = "input"
  BY <1>a, TypeTypes DEF Type
<1>1. CASE Ask
  <2>1. ncmd' = ncmd + 1 /\ ncmd' \in Requests /\ mpc = "input"
    BY <1>1, <1>a DEF Ask
  <2> DEFINE m == Item("ask", ncmd', None, 0)
  <2>2. m \in Items(ToServer) /\ m.type = "ask" /\ m.num = ncmd'
    BY <2>1, Constants DEF Item, Items, ToServer, CommandKinds
  <2> HIDE DEF m
  <2>3. SendRequest(m)
    BY <1>1 DEF Ask, m
  <2>4. Grows /\ Issued = ncmd /\ Issued' = ncmd'
    BY <1>0, <2>1, <2>3 DEF SendRequest, GiveUp, Issued
  <2>5. CASE Kept
    BY <2>4, <2>5
  <2>6. CASE ~Kept
    <3>1. SendDone(m)
      BY <2>3, <2>6 DEF SendRequest
    <3>2. Sends(m)
      BY <2>1, <2>2, <2>4, <2>6, <3>1 DEF SendDone
    <3> QED BY <2>2, <2>4, <3>2
  <2> QED BY <2>5, <2>6
<1>2. ASSUME NEW n \in Names, Download(n) PROVE Grows /\ (Kept \/ \E m \in Items(ToServer) : Sends(m))
  <2>1. ncmd' = ncmd + 1 /\ ncmd' \in Requests /\ mpc = "input"
    BY <1>2, <1>a DEF Download
  <2> DEFINE m == Item("download", ncmd', n, 0)
  <2>2. m \in Items(ToServer) /\ m.type = "download" /\ m.num = ncmd' /\ m.name = n
    BY <2>1, Constants DEF Item, Items, ToServer, CommandKinds
  <2> HIDE DEF m
  <2>3. SendRequest(m)
    BY <1>2 DEF Download, m
  <2>4. Grows /\ Issued = ncmd /\ Issued' = ncmd'
    BY <1>0, <2>1, <2>3 DEF SendRequest, GiveUp, Issued
  <2>5. CASE Kept
    BY <2>4, <2>5
  <2>6. CASE ~Kept
    <3>1. SendDone(m)
      BY <2>3, <2>6 DEF SendRequest
    <3>2. Sends(m)
      BY <2>1, <2>2, <2>4, <2>6, <3>1 DEF SendDone
    <3> QED BY <2>2, <2>4, <3>2
  <2> QED BY <2>5, <2>6
<1>3. ASSUME NEW n \in Names, NEW k \in Sizes, Upload(n, k) PROVE Grows /\ Kept
  <2>1. ncmd' = ncmd + 1 /\ ncmd' \in Requests /\ mpc = "input"
    BY <1>3, <1>a DEF Upload
  <2>2. Kept /\ mpc' \in {"up_lock", "loop"} /\ (mpc' = "up_lock" => upload'.num = ncmd')
    BY <1>3, FileTypes DEF Upload, File
  <2> QED BY <1>0, <2>1, <2>2 DEF Issued
<1>4. CASE Quit
  <2>1. ncmd' = ncmd + 1 /\ ncmd' \in Requests /\ mpc = "input"
    BY <1>4, <1>a DEF Quit
  <2> DEFINE m == Item("quit", ncmd', None, 0)
  <2>2. m \in Items(ToServer) /\ m.type = "quit"
    BY <2>1, Constants DEF Item, Items, ToServer, CommandKinds
  <2> HIDE DEF m
  <2>3. Kept \/ SendDone(m)
    BY <1>4 DEF Quit, m
  <2>4. Grows
    BY <1>0, <1>4, <2>1 DEF Quit, Issued
  <2>5. CASE Kept
    BY <2>4, <2>5
  <2>6. CASE ~Kept
    <3>1. Sends(m)
      BY <2>1, <2>2, <2>3, <2>6 DEF SendDone, Request
    <3> QED BY <2>2, <2>4, <3>1
  <2> QED BY <2>5, <2>6
<1>5. CASE InputEnds
  <2> DEFINE m == Item("quit", 0, None, 0)
  <2>2. m \in Items(ToServer) /\ m.type = "quit"
    BY ItemTypes, Constants DEF ToServer, CommandKinds
  <2> HIDE DEF m
  <2>3. Kept \/ SendDone(m)
    BY <1>5 DEF InputEnds, m
  <2>4. Grows /\ mpc = "input"
    BY <1>0, <1>5 DEF InputEnds, Issued
  <2>5. CASE Kept
    BY <2>4, <2>5
  <2>6. CASE ~Kept
    <3>1. Sends(m)
      BY <2>2, <2>3, <2>4, <2>6 DEF SendDone, Request
    <3> QED BY <2>2, <2>4, <3>1
  <2> QED BY <2>5, <2>6
<1>6. CASE EnterUsername
  <2> DEFINE m == Item("LOGIN", 0, None, 0)
  <2>2. m \in Items(ToServer) /\ m.type = "LOGIN"
    BY ItemTypes, Constants DEF ToServer, CommandKinds
  <2> HIDE DEF m
  <2>3. Kept \/ SendDone(m)
    BY <1>6 DEF EnterUsername, m
  <2>4. Grows /\ mpc = "user"
    BY <1>0, <1>6 DEF EnterUsername, Issued, ExitFailure
  <2>5. CASE Kept
    BY <2>4, <2>5
  <2>6. CASE ~Kept
    <3>1. Sends(m)
      BY <2>2, <2>3, <2>4, <2>6 DEF SendDone, Request
    <3> QED BY <2>2, <2>4, <3>1
  <2> QED BY <2>5, <2>6
<1>7. CASE UploadSendMetadata
  <2>1. upload.num \in Requests /\ upload.name \in Names /\ upload.size \in Sizes
    BY <1>7 DEF TypeOK, Files, NameInv, UploadSendMetadata, Uploading
  <2> DEFINE m == Item("upload", upload.num, upload.name, upload.size)
  <2>2. m \in Items(ToServer) /\ m.type = "upload" /\ m.num = upload.num /\ m.name \in Names
    BY <2>1, Constants DEF Item, Items, ToServer, CommandKinds
  <2>a. m = Item("upload", upload.num, upload.name, upload.size)
    OBVIOUS
  <2> HIDE DEF m
  <2>3. Kept \/ (SendDone(m) /\ mpc' = "up_wait")
    BY <1>7 DEF UploadSendMetadata, m
  <2>4. Grows /\ mpc = "up_meta" /\ Issued = ncmd - 1 /\ Issued' = ncmd
    BY <1>0, <1>7 DEF UploadSendMetadata, Issued, UploadLost, GiveUp
  <2>5. CASE Kept
    BY <2>4, <2>5
  <2>6. CASE ~Kept
    <3>1. SendDone(m) /\ mpc' = "up_wait"
      BY <2>3, <2>6
    <3>2. Sends(m)
      BY <1>0, <2>a, <2>2, <2>4, <2>6, <3>1 DEF SendDone, Request
    <3> QED BY <2>2, <2>4, <3>2
  <2> QED BY <2>5, <2>6
<1>8. CASE UploadBlock
  <2>1. upload.num \in Requests
    BY <1>8 DEF TypeOK, Files
  <2> DEFINE m == Raw(upload.num)
  <2>2. m \in Items(ToServer) /\ m.type = "RAW"
    BY <2>1, Constants DEF Item, Items, ToServer, CommandKinds, Raw
  <2> HIDE DEF m
  <2>3. Kept \/ (SendDone(m) /\ mpc' = mpc)
    BY <1>8 DEF UploadBlock, m
  <2>4. Grows /\ mpc = "up_data"
    BY <1>0, <1>8 DEF UploadBlock, Issued, UploadLost, GiveUp
  <2>5. CASE Kept
    BY <2>4, <2>5
  <2>6. CASE ~Kept
    <3>1. Sends(m)
      BY <2>2, <2>3, <2>4, <2>6 DEF SendDone, Request
    <3> QED BY <2>2, <2>4, <3>1
  <2> QED BY <2>5, <2>6
<1>9. CASE \/ TypeTooLate \/ connect_to_server \/ ReceiveGreeting \/ ReceiveLoginResult
           \/ InputLoop \/ UploadLock \/ Join
  <2>1. Kept /\ ncmd' = ncmd /\ upload' = upload
    BY <1>9 DEF TypeTooLate, connect_to_server, ReceiveGreeting, ReceiveLoginResult,
       InputLoop, UploadLock, Join
  <2>2. \/ mpc \notin {"up_lock", "up_meta"} /\ mpc' \notin {"up_lock", "up_meta"}
        \/ mpc = "up_lock" /\ mpc' = "up_meta"
    BY <1>9 DEF TypeTooLate, connect_to_server, ReceiveGreeting, ReceiveLoginResult,
       InputLoop, UploadLock, Join, ExitFailure
  <2> QED BY <1>0, <2>1, <2>2 DEF Issued
<1>10. CASE \/ UploadWaitReady \/ UploadRefused \/ UploadStart \/ UploadSent
            \/ UploadWaitResult \/ UploadReturn
  <2>1. Kept /\ ncmd' = ncmd /\ upload' = upload
    BY <1>10 DEF UploadWaitReady, UploadRefused, UploadStart, UploadSent,
       UploadWaitResult, UploadReturn
  <2>2. mpc \notin {"up_lock", "up_meta"} /\ mpc' \notin {"up_lock", "up_meta"}
    BY <1>10 DEF UploadWaitReady, UploadRefused, UploadStart, UploadSent,
       UploadWaitResult, UploadReturn, UploadLost, GiveUp
  <2> QED BY <1>0, <2>1, <2>2 DEF Issued
<1> QED BY <1>1, <1>2, <1>3, <1>4, <1>5, <1>6, <1>7, <1>8, <1>9, <1>10,
           ConstantSets DEF User, Main

\* The receiver takes items from the server's stream, and leaves the input
\* thread and the server alone.
LEMMA ReceiverTakes ==
  ASSUME TypeOK, Receiver
  PROVE  /\ UNCHANGED <<mpc, ncmd, upload, unsent, answer, outcome, upload_state>>
         /\ UNCHANGED <<to_server, srv, srv_upload, srv_left, shared>>
         /\ \/ to_client' = to_client
            \/ to_client # <<>> /\ to_client' = Tail(to_client)
         /\ \/ UNCHANGED <<response_available, response>>
            \/ /\ response' = Head(to_client) /\ response_available' = TRUE
               /\ to_client # <<>> /\ to_client' = Tail(to_client)
               /\ response'.type \in {"ERROR", "UPLOAD_READY", "UPLOAD_SUCCESS"}
               /\ rpc = "recv"
<1> USE DEF session, sending, receiving, disk, streams, server
<1>1. CASE ReceiveUploadAnswer
  BY <1>1 DEF ReceiveUploadAnswer, Arrived, Consume, TakesForUpload
<1>2. CASE ReceiveMessage
  BY <1>2 DEF ReceiveMessage, Arrived, Consume
<1>3. CASE ReceiveDownloadReady \/ DownloadBlock
  BY <1>3 DEF ReceiveDownloadReady, DownloadBlock, Arrived, Consume
<1>4. CASE \/ ReceiverLoop \/ ConnectionLost \/ ReceiverStop \/ DownloadOpen
           \/ DownloadLost \/ DownloadClose \/ DownloadLink \/ DownloadReturn
  BY <1>4 DEF ReceiverLoop, ConnectionLost, ReceiverStop, DownloadOpen, DownloadLost,
     DownloadClose, DownloadLink, DownloadReturn
<1> QED BY <1>1, <1>2, <1>3, <1>4 DEF Receiver

\* What the server and others leave alone, and what becomes of the client's
\* stream.
LEMMA ServerTakes ==
  ASSUME TypeOK, Server \/ ServerCloses \/ Others
  PROVE  /\ UNCHANGED <<mpc, rpc, client_running, shut, ncmd>>
         /\ UNCHANGED <<upload_state, response_available, response, connection_closed>>
         /\ UNCHANGED <<upload, unsent, answer, outcome>>
         /\ UNCHANGED <<download, temp, content, saved>>
         /\ \/ local' = local
            \/ \E n \in Names, f \in LocalFiles \ Requests :
                   local[n] = None /\ local' = [local EXCEPT ![n] = f]
         /\ \/ to_server' = to_server
            \/ to_server' = <<>>
            \/ to_server # <<>> /\ to_server' = Tail(to_server)
<1> USE DEF session, sending, receiving, disk, streams, server
<1>1. CASE Server \/ ServerCloses \/ OtherClient
  BY <1>1 DEF Server, ServerLogin, ServerAnswers, ServerStreamsFile, ServerReady,
     ServerBlock, ServerUploadEnds, ServerGoodbye, ServerCloses, OtherClient,
     ClientUnchanged, ServerReceives
<1>2. ASSUME NEW n \in Names, OtherProgram(n)
      PROVE  \E f \in LocalFiles \ Requests :
                local[n] = None /\ local' = [local EXCEPT ![n] = f]
  <2>1. nothers' \in 1 .. MaxOthers
    BY <1>2, Constants DEF OtherProgram, TypeOK
  <2> QED BY <1>2, <2>1, ConstantSets DEF OtherProgram
<1>3. CASE \E n \in Names : OtherProgram(n)
  <2>1. UNCHANGED <<mpc, rpc, client_running, shut, upload_state, response_available,
                    response, connection_closed, upload, unsent, answer, outcome,
                    download, temp, content, saved, to_server, to_client, srv,
                    srv_upload, srv_left, shared, ncmd>>
    BY <1>3 DEF OtherProgram
  <2> QED BY <1>2, <1>3, <2>1
<1> QED BY <1>1, <1>3 DEF Others

\* What the server and others do, apart from the login and the end: they
\* answer the request at the head of the client's stream, go on with an
\* upload, or do something that no request asked for.
LEMMA ServerCases ==
  ASSUME TypeOK, NameInv, Server \/ ServerCloses \/ Others
  PROVE  \/ /\ to_client' = to_client
            /\ UNCHANGED <<srv_upload, shared>>
            /\ srv' = srv \/ srv' \in {"registered", "closed"}
            /\ srv' # "closed" => \/ to_server' = to_server /\ UNCHANGED <<srv, srv_left>>
                                  \/ srv = "login" /\ UNCHANGED srv_left
                                  \/ /\ srv = "data" /\ srv_left > 0
                                     /\ srv_left' = srv_left - 1
                                     /\ to_server # <<>> /\ to_server' = Tail(to_server)
         \/ /\ \E t \in {"USERNAME_REQUIRED", "LOGIN_SUCCESS", "BROADCAST", "GOODBYE", "ERROR"} :
                  to_client' = Append(to_client, Item(t, 0, None, 0))
            /\ UNCHANGED <<srv_upload, srv_left, shared>>
            /\ srv = "data" => UNCHANGED <<srv, to_server>>
            /\ srv' = "data" => srv = "data"
         \/ /\ to_client' = to_client
            /\ UNCHANGED <<srv, srv_upload, srv_left, to_server>>
            /\ \E n \in Names, k \in Sizes :
                  /\ shared[n] = None
                  /\ ~(srv = "data" /\ srv_upload.name = n)
                  /\ shared' = [shared EXCEPT ![n] = File(0, n, k)]
         \/ /\ srv = "idle" /\ to_server # <<>> /\ to_server' = Tail(to_server)
            /\ Request(Head(to_server))
            /\ UNCHANGED <<srv, srv_upload, srv_left, shared>>
            /\ \E t \in {"ERROR", "RESPONSE"} :
                  to_client' = Append(to_client, Item(t, Head(to_server).num, None, 0))
         \/ /\ srv = "idle" /\ to_server # <<>> /\ to_server' = Tail(to_server)
            /\ Head(to_server).type = "download" /\ Head(to_server).name \in Names
            /\ UNCHANGED <<srv, srv_upload, srv_left, shared>>
            /\ \E k \in Sizes :
                  to_client' = to_client \o FileFrames(Head(to_server).num, Head(to_server).name, k)
         \/ /\ srv = "idle" /\ to_server # <<>> /\ to_server' = Tail(to_server)
            /\ Head(to_server).type = "upload" /\ Head(to_server).name \in Names
            /\ srv' = "data" /\ shared' = shared
            /\ srv_upload' = File(Head(to_server).num, Head(to_server).name,
                                  Head(to_server).size)
            /\ srv_left' = Head(to_server).size
            /\ to_client' = Append(to_client, Item("UPLOAD_READY", Head(to_server).num, None, 0))
         \/ /\ srv = "data" /\ srv_left = 0 /\ srv' = "idle"
            /\ UNCHANGED <<to_server, srv_left>>
            /\ srv_upload' = NoFile
            /\ \/ /\ shared[srv_upload.name] = None
                  /\ shared' = [shared EXCEPT ![srv_upload.name] = srv_upload]
                  /\ to_client' = Append(to_client, Item("UPLOAD_SUCCESS", srv_upload.num, None, 0))
               \/ /\ shared' = shared
                  /\ to_client' = Append(to_client, Item("ERROR", srv_upload.num, None, 0))
<1> USE DEF session, sending, receiving, disk, streams, server
<1>1. CASE ServerLogin
  BY <1>1 DEF ServerLogin, Answer
<1>2. CASE ServerAnswers
  BY <1>2 DEF ServerAnswers, Answer, ServerReceives, Items, Request
<1>3. CASE ServerStreamsFile
  <2>1. PICK m \in Items({"download"}) :
               /\ ServerReceives(m)
               /\ shared[m.name] # None
               /\ AnswerAll(FileFrames(m.num, m.name, shared[m.name].size))
    BY <1>3 DEF ServerStreamsFile, FileFrames
  <2>2. m \in Elements(to_server) /\ m.type = "download" /\ m = Head(to_server)
    BY <2>1, Received DEF ServerReceives, Items
  <2>3. m.name \in Names
    BY <2>2 DEF NameInv
  <2>4. shared[m.name].size \in Sizes
    BY <2>1, <2>3 DEF TypeOK, Files
  <2> QED BY <1>3, <2>1, <2>2, <2>3, <2>4 DEF ServerStreamsFile, ServerReceives, AnswerAll
<1>4. CASE ServerReady
  <2>1. PICK m \in Items({"upload"}) :
               /\ ServerReceives(m)
               /\ Answer(Item("UPLOAD_READY", m.num, None, 0))
               /\ srv_upload' = File(m.num, m.name, m.size)
               /\ srv_left' = m.size
    BY <1>4 DEF ServerReady
  <2>2. m \in Elements(to_server) /\ m.type = "upload" /\ m = Head(to_server)
    BY <2>1, Received DEF ServerReceives, Items
  <2>3. m.name \in Names
    BY <2>2 DEF NameInv
  <2> QED BY <1>4, <2>1, <2>2, <2>3 DEF ServerReady, ServerReceives, Answer
<1>5. CASE ServerBlock
  BY <1>5 DEF ServerBlock
<1>6. CASE ServerUploadEnds
  BY <1>6 DEF ServerUploadEnds, Answer
<1>7. CASE ServerGoodbye
  BY <1>7 DEF ServerGoodbye, Answer, ServerReceives
<1>8. CASE ServerCloses
  BY <1>8 DEF ServerCloses
<1>9. CASE OtherClient
  BY <1>9, ConstantSets DEF OtherClient, Answer
<1>10. CASE \E n \in Names : OtherProgram(n)
  BY <1>10 DEF OtherProgram
<1> QED BY <1>1, <1>2, <1>3, <1>4, <1>5, <1>6, <1>7, <1>8, <1>9, <1>10 DEF Server, Others

\* The frames that a step of the server adds to its stream.
LEMMA ServerAdds ==
  ASSUME TypeOK, NameInv, Server \/ ServerCloses \/ Others,
         NEW m \in Elements(to_client')
  PROVE  \/ m \in Elements(to_client)
         \/ m.num = 0
            /\ m.type \in {"USERNAME_REQUIRED", "LOGIN_SUCCESS", "BROADCAST", "GOODBYE",
                           "ERROR"}
         \/ /\ srv = "idle" /\ to_server # <<>> /\ to_server' = Tail(to_server)
            /\ Request(Head(to_server)) /\ m.num = Head(to_server).num
            /\ \/ m.type \in {"ERROR", "RESPONSE"} /\ srv' = "idle"
               \/ /\ m.type \in {"DOWNLOAD_READY", "RAW"} /\ srv' = "idle"
                  /\ Head(to_server).type = "download"
                  /\ m.type = "DOWNLOAD_READY" => m.name \in Names
               \/ /\ m.type = "UPLOAD_READY" /\ srv' = "data"
                  /\ Head(to_server).type = "upload"
         \/ /\ srv = "data" /\ srv_left = 0 /\ srv' = "idle" /\ m.num = srv_upload.num
            /\ \/ m.type = "ERROR" /\ shared' = shared
               \/ /\ m.type = "UPLOAD_SUCCESS" /\ shared[srv_upload.name] = None
                  /\ shared' = [shared EXCEPT ![srv_upload.name] = srv_upload]
<1>0. \A t \in ToClient, k \in Requests :
         /\ Item(t, k, None, 0) \in Items(ToClient)
         /\ Item(t, k, None, 0).type = t /\ Item(t, k, None, 0).num = k
  BY Constants DEF Item, Items
<1>1. ASSUME NEW t \in ToClient, NEW k \in Requests,
             to_client' = Append(to_client, Item(t, k, None, 0))
      PROVE  m \in Elements(to_client) \/ (m.type = t /\ m.num = k)
  <2>1. Item(t, k, None, 0) \in Items(ToClient) /\ to_client \in Seq(Items(ToClient))
    BY <1>0 DEF TypeOK
  <2>2. Elements(to_client') = Elements(to_client) \union {Item(t, k, None, 0)}
    BY <1>1, <2>1, AppendElements
  <2> QED BY <1>0, <2>2
<1>2. to_server # <<>> => /\ Head(to_server) \in Items(ToServer)
                          /\ Head(to_server).num \in Requests
  <2>1. to_server # <<>> => Head(to_server) \in Items(ToServer)
    BY TailElements DEF TypeOK
  <2> QED BY <2>1 DEF Items
<1>3. srv_upload.num \in Requests /\ 0 \in Requests
  BY Constants DEF TypeOK, Files
<1>4. ASSUME NEW k \in Sizes, to_server # <<>>, Head(to_server).name \in Names,
             to_client' = to_client \o FileFrames(Head(to_server).num, Head(to_server).name, k)
      PROVE  \/ m \in Elements(to_client)
             \/ /\ m.num = Head(to_server).num
                /\ m.type \in {"DOWNLOAD_READY", "RAW"}
                /\ m.type = "DOWNLOAD_READY" => m.name \in Names
  <2> DEFINE num == Head(to_server).num
             name == Head(to_server).name
             q == FileFrames(num, name, k)
  <2>1. /\ q \in Seq(Items(ToClient))
        /\ \A x \in Elements(q) : x = Item("DOWNLOAD_READY", num, name, k) \/ x = Raw(num)
    BY <1>2, <1>4, FileItems
  <2>a. to_client' = to_client \o q
    BY <1>4
  <2> HIDE DEF q
  <2>b. to_client \in Seq(Items(ToClient))
    BY DEF TypeOK
  <2>2. Elements(to_client') = Elements(to_client) \union Elements(q)
    BY <2>a, <2>b, <2>1, ConcatElements
  <2>3. CASE m \in Elements(q)
    BY <1>4, <2>1, <2>3 DEF Item, Raw
  <2> QED BY <2>2, <2>3
<1>5. {"USERNAME_REQUIRED", "LOGIN_SUCCESS", "BROADCAST", "GOODBYE", "ERROR", "RESPONSE",
       "UPLOAD_READY", "UPLOAD_SUCCESS"} \subseteq ToClient
  BY DEF ToClient
<1>6. CASE \E t \in {"USERNAME_REQUIRED", "LOGIN_SUCCESS", "BROADCAST", "GOODBYE", "ERROR"} :
                  to_client' = Append(to_client, Item(t, 0, None, 0))
  BY <1>1, <1>3, <1>5, <1>6
<1>7. CASE to_client' = to_client
  BY <1>7
<1>8. CASE /\ srv = "idle" /\ to_server # <<>> /\ to_server' = Tail(to_server)
           /\ Request(Head(to_server))
           /\ UNCHANGED <<srv, srv_upload, srv_left, shared>>
           /\ \E t \in {"ERROR", "RESPONSE"} :
                  to_client' = Append(to_client, Item(t, Head(to_server).num, None, 0))
  BY <1>1, <1>2, <1>5, <1>8
<1>9. CASE /\ srv = "idle" /\ to_server # <<>> /\ to_server' = Tail(to_server)
           /\ Head(to_server).type = "download" /\ Head(to_server).name \in Names
           /\ UNCHANGED <<srv, srv_upload, srv_left, shared>>
           /\ \E k \in Sizes :
                  to_client' = to_client \o FileFrames(Head(to_server).num, Head(to_server).name, k)
  BY <1>4, <1>9 DEF Request
<1>10. CASE /\ srv = "idle" /\ to_server # <<>> /\ to_server' = Tail(to_server)
            /\ Head(to_server).type = "upload" /\ srv' = "data"
            /\ to_client' = Append(to_client, Item("UPLOAD_READY", Head(to_server).num, None, 0))
  BY <1>1, <1>2, <1>5, <1>10 DEF Request
<1>11. CASE /\ srv = "data" /\ srv_left = 0 /\ srv' = "idle"
            /\ \/ /\ shared[srv_upload.name] = None
                  /\ shared' = [shared EXCEPT ![srv_upload.name] = srv_upload]
                  /\ to_client' = Append(to_client, Item("UPLOAD_SUCCESS", srv_upload.num, None, 0))
               \/ /\ shared' = shared
                  /\ to_client' = Append(to_client, Item("ERROR", srv_upload.num, None, 0))
  BY <1>1, <1>3, <1>5, <1>11
<1> QED BY ServerCases, <1>6, <1>7, <1>8, <1>9, <1>10, <1>11

\* Elements of the client's stream come from the input thread only.
LEMMA ServerStream ==
  ASSUME TypeOK, Server \/ ServerCloses \/ Others
  PROVE  to_server' \in Seq(Items(ToServer)) /\ Elements(to_server') \subseteq Elements(to_server)
<1>1. to_server \in Seq(Items(ToServer)) /\ <<>> \in Seq(Items(ToServer))
  BY DEF TypeOK
<1>2. CASE to_server' = to_server
  BY <1>1, <1>2
<1>3. CASE to_server' = <<>>
  BY <1>1, <1>3, EmptyElements
<1>4. CASE to_server # <<>> /\ to_server' = Tail(to_server)
  BY <1>4, Received
<1> QED BY <1>2, <1>3, <1>4, ServerTakes

LEMMA ClientStream ==
  ASSUME TypeOK, User \/ Main \/ Receiver
  PROVE  /\ to_client' \in Seq(Items(ToClient))
         /\ Elements(to_client') \subseteq Elements(to_client)
<1>1. to_client \in Seq(Items(ToClient))
  BY DEF TypeOK
<1>2. CASE to_client' = to_client
  BY <1>1, <1>2
<1>3. CASE to_client # <<>> /\ to_client' = Tail(to_client)
  BY <1>3, Consumed DEF Consume
<1> QED BY <1>2, <1>3, MainTakes, ReceiverTakes

LEMMA NameStep ==
  ASSUME TypeOK, NameInv, OrderInv, Next
  PROVE  NameInv'
<1> USE DEF session, sending, receiving, disk, streams, server
<1>1. CASE User \/ Main
  <2>1. /\ \A m \in Elements(to_client') :
              m.type = "DOWNLOAD_READY" => m.name \in Names
        /\ rpc' \in DownloadPcs => download'.name \in Names
        /\ \A f \in saved' : f.name \in Names
        /\ srv' = "data" => srv_upload'.name \in Names
    BY <1>1, MainTakes, ClientStream DEF NameInv, DownloadPcs
  <2>2. \A m \in Elements(to_server') :
              m.type \in {"upload", "download"} => m.name \in Names
    <3>1. CASE to_server' = to_server
      BY <3>1 DEF NameInv
    <3>2. ASSUME NEW m \in Items(ToServer), to_server' = Append(to_server, m),
                 m.type \in {"upload", "download"} => m.name \in Names
          PROVE  \A x \in Elements(to_server') :
                    x.type \in {"upload", "download"} => x.name \in Names
      <4>1. Elements(to_server') = Elements(to_server) \union {m}
        BY <3>2, AppendElements DEF TypeOK
      <4> QED BY <3>2, <4>1 DEF NameInv
    <3> QED BY <1>1, <3>1, <3>2, MainSends
  <2>3. mpc' = "up_lock" \/ Uploading' => upload'.name \in Names
    <3>1. CASE User
      <4>1. \A n \in Documents, k \in FileSizes :
               File(ncmd', n, k).name = n /\ n \in Names
        BY ConstantSets DEF File
      <4> QED BY <3>1, <4>1 DEF User, Ask, Download, Upload, Quit, InputEnds, TypeTooLate,
              EnterUsername, SendRequest, Type, GiveUp, ExitFailure, Uploading
    <3>2. CASE Main
      <4>1. upload' = upload
        BY <3>2 DEF Main, connect_to_server, ReceiveGreeting, ReceiveLoginResult, InputLoop,
           UploadLock, UploadSendMetadata, UploadWaitReady, UploadRefused, UploadStart,
           UploadBlock, UploadSent, UploadWaitResult, UploadReturn, Join
      <4>2. mpc' = "up_lock" \/ Uploading' => mpc = "up_lock" \/ Uploading
        BY <3>2 DEF Main, connect_to_server, ReceiveGreeting, ReceiveLoginResult, InputLoop,
           UploadLock, UploadSendMetadata, UploadWaitReady, UploadRefused, UploadStart,
           UploadBlock, UploadSent, UploadWaitResult, UploadReturn, Join, UploadLost,
           GiveUp, ExitFailure, Uploading
      <4> QED BY <4>1, <4>2 DEF NameInv
    <3> QED BY <1>1, <3>1, <3>2
  <2> QED BY <2>1, <2>2, <2>3 DEF NameInv
<1>2. CASE Receiver
  <2>1. rpc' \in DownloadPcs => download'.name \in Names
    <3>1. CASE ReceiveDownloadReady
      <4>1. to_client # <<>> /\ Head(to_client).type = "DOWNLOAD_READY"
            /\ download'.name = Head(to_client).name
        BY <3>1 DEF ReceiveDownloadReady, Arrived, Items
      <4>2. Head(to_client) \in Elements(to_client)
        BY <4>1, TailElements DEF TypeOK
      <4> QED BY <4>1, <4>2 DEF NameInv
    <3>2. CASE DownloadOpen \/ DownloadBlock
      <4>1. download'.name = download.name /\ rpc \in DownloadPcs
        BY <3>2 DEF DownloadOpen, DownloadBlock, OpenTemp, OpenFails, AfterBlock, TypeOK,
           DownloadPcs
      <4> QED BY <4>1 DEF NameInv
    <3>3. CASE DownloadClose \/ DownloadLink
      BY <3>3 DEF DownloadClose, DownloadLink, DownloadFailed, DownloadPcs, NameInv
    <3>4. CASE \/ DownloadReturn \/ DownloadLost \/ ReceiverLoop \/ ReceiveUploadAnswer
               \/ ReceiveMessage \/ ConnectionLost \/ ReceiverStop
      BY <3>4 DEF DownloadReturn, DownloadLost, ReceiverLoop, ReceiveUploadAnswer,
         ReceiveMessage, ConnectionLost, ReceiverStop, DownloadPcs
    <3> QED BY <1>2, <3>1, <3>2, <3>3, <3>4 DEF Receiver
  <2>2. /\ \A m \in Elements(to_client') :
              m.type = "DOWNLOAD_READY" => m.name \in Names
        /\ \A m \in Elements(to_server') :
              m.type \in {"upload", "download"} => m.name \in Names
        /\ srv' = "data" => srv_upload'.name \in Names
        /\ mpc' = "up_lock" \/ Uploading' => upload'.name \in Names
    BY <1>2, ReceiverTakes, ClientStream DEF NameInv, Uploading
  <2>3. \A f \in saved' : f.name \in Names
    <3>1. CASE DownloadReturn
      <4>1. download.name \in Names
        BY <3>1 DEF DownloadReturn, DownloadPcs, NameInv
      <4>2. File(download.num, download.name, download.size).name = download.name
        BY DEF File
      <4> QED BY <3>1, <4>1, <4>2 DEF DownloadReturn, NameInv
    <3>2. CASE ~DownloadReturn
      <4>1. saved' = saved
        BY <1>2, <3>2 DEF Receiver, ReceiverLoop, ReceiveUploadAnswer, ReceiveMessage,
           ReceiveDownloadReady, ConnectionLost, ReceiverStop, DownloadOpen, DownloadBlock,
           DownloadLost, DownloadClose, DownloadLink
      <4> QED BY <4>1 DEF NameInv
    <3> QED BY <3>1, <3>2
  <2> QED BY <2>1, <2>2, <2>3 DEF NameInv
<1>3. CASE Server \/ ServerCloses \/ Others
  <2>1. \A m \in Elements(to_client') : m.type = "DOWNLOAD_READY" => m.name \in Names
    <3>1. \A m \in Elements(to_client') :
             m \in Elements(to_client) \/ (m.type = "DOWNLOAD_READY" => m.name \in Names)
      BY <1>3, ServerAdds
    <3> QED BY <3>1 DEF NameInv
  <2>2. /\ \A m \in Elements(to_server') :
              m.type \in {"upload", "download"} => m.name \in Names
        /\ rpc' \in DownloadPcs => download'.name \in Names
        /\ \A f \in saved' : f.name \in Names
        /\ mpc' = "up_lock" \/ Uploading' => upload'.name \in Names
    BY <1>3, ServerTakes, ServerStream DEF NameInv, Uploading
  <2>3. srv' = "data" => srv_upload'.name \in Names
    <3>1. \/ srv' = "data" => srv = "data" /\ srv_upload' = srv_upload
          \/ srv_upload' = File(Head(to_server).num, Head(to_server).name,
                                  Head(to_server).size) /\ Head(to_server).name \in Names
      BY <1>3, ServerCases
    <3> QED BY <3>1 DEF NameInv, File
  <2> QED BY <2>1, <2>2, <2>3 DEF NameInv
<1>4. CASE Finished
  BY <1>4 DEF Finished, vars, NameInv, Uploading
<1> QED BY <1>1, <1>2, <1>3, <1>4 DEF Next

-----------------------------------------------------------------------------
(* Numbers of requests.                                                    *)

\* The server reads a request with the number k.
ReadsRequest(k) ==
    /\ srv = "idle" /\ to_server # <<>> /\ to_server' = Tail(to_server)
    /\ Request(Head(to_server)) /\ k = Head(to_server).num

LEMMA PastParts ==
  ASSUME NEW k
  PROVE  k \in Past <=>
            \/ \E m \in Elements(to_client) : k = m.num
            \/ k \in {response.num, answer.num, srv_upload.num, download.num}
            \/ \E n \in Names : shared[n] # None /\ k = shared[n].num
            \/ \E n \in Names : local[n] \in Requests /\ k = local[n]
            \/ \E o \in outcome : o.result # -1 /\ k = o.by
  BY DEF Past

LEMMA PastPartsPrime ==
  ASSUME NEW k
  PROVE  k \in Past' <=>
            \/ \E m \in Elements(to_client') : k = m.num
            \/ k \in {response'.num, answer'.num, srv_upload'.num, download'.num}
            \/ \E n \in Names : shared'[n] # None /\ k = shared'[n].num
            \/ \E n \in Names : local'[n] \in Requests /\ k = local'[n]
            \/ \E o \in outcome' : o.result # -1 /\ k = o.by
  BY DEF Past

LEMMA PastNat ==
  ASSUME TypeOK
  PROVE  Past \subseteq Nat
<1> SUFFICES ASSUME NEW k \in Past PROVE k \in Nat
  OBVIOUS
<1>1. Elements(to_client) \subseteq Items(ToClient)
  BY DEF TypeOK, Elements
<1>2. \A m \in Items(ToClient) : m.num \in Requests
  BY DEF Items
<1>3. \A f \in Files : f.num \in Requests
  BY DEF Files
<1>4. response.num \in Requests /\ answer.num \in Requests /\ srv_upload.num \in Requests
      /\ download.num \in Requests
  BY <1>2, <1>3 DEF TypeOK
<1>5. \A n \in Names : shared[n] # None => shared[n].num \in Requests
  BY <1>3 DEF TypeOK
<1>7. \A o \in outcome : o.by \in Requests
  BY DEF TypeOK
<1>8. k \in Requests
  BY <1>1, <1>2, <1>4, <1>5, <1>7, PastParts
<1> QED BY <1>8, Constants

\* The input thread passes numbers on, and gives none out.
LEMMA MainPast ==
  ASSUME TypeOK, User \/ Main, NEW k \in Past'
  PROVE  k \in Past
<1> USE DEF session, sending, receiving, disk, streams, server
<1>1. answer' = answer \/ answer' = response
  BY DEF User, Ask, Download, Upload, Quit, InputEnds, TypeTooLate, EnterUsername,
     SendRequest, Main, connect_to_server, ReceiveGreeting, ReceiveLoginResult, InputLoop,
     UploadLock, UploadSendMetadata, UploadWaitReady, UploadRefused, UploadStart,
     UploadBlock, UploadSent, UploadWaitResult, UploadReturn, Join, ResponseTaken
<1>2. response' = response
  BY DEF User, Ask, Download, Upload, Quit, InputEnds, TypeTooLate, EnterUsername,
     SendRequest, Main, connect_to_server, ReceiveGreeting, ReceiveLoginResult, InputLoop,
     UploadLock, UploadSendMetadata, UploadWaitReady, UploadRefused, UploadStart,
     UploadBlock, UploadSent, UploadWaitResult, UploadReturn, Join
<1>3. \A o \in outcome' : o \in outcome \/ o.result = -1 \/ o.by = answer.num
  <2>1. CASE outcome' = outcome
    BY <2>1
  <2>2. CASE Returned(-1, upload.num)
    BY <2>2 DEF Returned
  <2>3. CASE \E r \in {0, 1} : Returned(r, answer.num)
    BY <2>3 DEF Returned
  <2>4. outcome' = outcome \/ Returned(-1, upload.num) \/ \E r \in {0, 1} : Returned(r, answer.num)
    BY DEF User, Ask, Download, Upload, Quit, InputEnds, TypeTooLate, EnterUsername,
     SendRequest, Main, connect_to_server, ReceiveGreeting, ReceiveLoginResult, InputLoop,
     UploadLock, UploadSendMetadata, UploadWaitReady, UploadRefused, UploadStart,
     UploadBlock, UploadSent, UploadWaitResult, UploadReturn, Join, UploadLost, Status
  <2> QED BY <2>1, <2>2, <2>3, <2>4
<1>4. /\ UNCHANGED <<srv_upload, download, shared, local>>
      /\ Elements(to_client') \subseteq Elements(to_client)
  BY MainTakes, ClientStream
<1> QED BY <1>1, <1>2, <1>3, <1>4, PastParts, PastPartsPrime

\* A download takes its number from its frame, and gives it to its file.
LEMMA ReceiverPast ==
  ASSUME TypeOK, NameInv, WriteInv, Receiver, NEW k \in Past'
  PROVE  k \in Past \/ k = 0
<1> USE DEF session, sending, receiving, disk, streams, server
<1>1. /\ UNCHANGED <<answer, srv_upload, shared, outcome>>
      /\ Elements(to_client') \subseteq Elements(to_client)
      /\ response' = response \/ response' \in Elements(to_client)
  BY ReceiverTakes, ClientStream, Consumed DEF Consume
<1>2. download'.num \in Past \/ download'.num = 0
  <2>1. CASE ReceiveDownloadReady
    <3>1. to_client # <<>> /\ download'.num = Head(to_client).num
      BY <2>1 DEF ReceiveDownloadReady, Arrived
    <3>2. Head(to_client) \in Elements(to_client)
      BY <3>1, TailElements DEF TypeOK
    <3> QED BY <3>1, <3>2, PastParts
  <2>2. CASE ~ReceiveDownloadReady
    <3>a. download \in [num : Requests, name : Names \union {None}, size : Sizes,
                        left : Sizes, failed : BOOLEAN]
      BY DEF TypeOK
    <3>b. ASSUME DownloadOpen \/ DownloadBlock PROVE download'.num = download.num
      <4>1. \/ download' = download
            \/ download' = [download EXCEPT !.failed = TRUE]
            \/ \E f \in BOOLEAN : download' = AfterBlock(download, f)
        BY <3>b DEF DownloadOpen, DownloadBlock, OpenTemp, OpenFails
      <4> QED BY <3>a, <4>1 DEF AfterBlock
    <3>c. ASSUME ~(DownloadOpen \/ DownloadBlock)
          PROVE  download'.num = download.num \/ download'.num = 0
      BY <2>2, <3>c DEF Receiver, ReceiverLoop, ReceiveUploadAnswer, ReceiveMessage,
         ConnectionLost, ReceiverStop, DownloadLost, DownloadClose, DownloadLink,
         DownloadReturn, DownloadFailed, NoDownload
    <3>1. download'.num = download.num \/ download'.num = 0
      BY <3>b, <3>c
    <3> QED BY <3>1, PastParts
  <2> QED BY <2>1, <2>2
<1>3. \A n \in Names : local'[n] # None => local'[n] = local[n] \/ local'[n] = download.num
  <2>1. CASE DownloadLink /\ local' # local
    <3>1. temp = download.num /\ local' = [local EXCEPT ![download.name] = temp]
      BY <2>1 DEF DownloadLink, WriteInv
    <3> QED BY <3>1 DEF TypeOK
  <2>2. CASE local' = local
    BY <2>2
  <2>3. local' = local \/ DownloadLink
      BY DEF Receiver, ReceiverLoop, ReceiveUploadAnswer, ReceiveMessage,
         ReceiveDownloadReady, ConnectionLost, ReceiverStop, DownloadOpen, DownloadBlock,
         DownloadLost, DownloadClose, DownloadReturn
  <2> QED BY <2>1, <2>2, <2>3
<1>4. \A n \in Names : local'[n] \in Requests => local'[n] \in Past
  <2>1. download.num \in Past
    BY PastParts
  <2>2. \A n \in Names : local[n] \in Requests => local[n] \in Past
    BY PastParts
  <2>3. None \notin Requests
    BY Constants
  <2> QED BY <1>3, <2>1, <2>2, <2>3
<1>5. CASE \E n \in Names : local'[n] \in Requests /\ k = local'[n]
  BY <1>4, <1>5
<1>6. CASE k = download'.num
  BY <1>2, <1>6
<1>7. CASE ~(\E n \in Names : local'[n] \in Requests /\ k = local'[n]) /\ k # download'.num
  <2>1. \/ \E m \in Elements(to_client') : k = m.num
        \/ k \in {response'.num, answer'.num, srv_upload'.num}
        \/ \E n \in Names : shared'[n] # None /\ k = shared'[n].num
        \/ \E o \in outcome' : o.result # -1 /\ k = o.by
    BY <1>7, PastPartsPrime
  <2> QED BY <1>1, <2>1, PastParts
<1> QED BY <1>5, <1>6, <1>7

\* The server gives out numbers only for the requests it reads.
LEMMA ServerPast ==
  ASSUME TypeOK, NameInv, Server \/ ServerCloses \/ Others, NEW k \in Past'
  PROVE  k \in Past \/ k = 0 \/ ReadsRequest(k)
<1>1. /\ UNCHANGED <<answer, response, download, outcome>>
      /\ \/ local' = local
         \/ \E n \in Names, f \in LocalFiles \ Requests :
                   local[n] = None /\ local' = [local EXCEPT ![n] = f]
  BY ServerTakes
<1>2. \A n \in Names : local'[n] \in Requests => local'[n] = local[n]
  BY <1>1 DEF TypeOK
<1>3. \A m \in Elements(to_client') :
         m \in Elements(to_client) \/ m.num = 0 \/ ReadsRequest(m.num)
         \/ m.num = srv_upload.num
  BY ServerAdds DEF ReadsRequest
<1>4. srv_upload'.num = srv_upload.num \/ srv_upload'.num = 0 \/ ReadsRequest(srv_upload'.num)
  BY ServerCases DEF ReadsRequest, File, NoFile, Request
<1>5. \A n \in Names : shared'[n] # None =>
         shared'[n] = shared[n] \/ shared'[n].num = 0 \/ shared'[n] = srv_upload
  <2>1. \/ shared' = shared
        \/ \E n \in Names, s \in Sizes : shared' = [shared EXCEPT ![n] = File(0, n, s)]
        \/ shared' = [shared EXCEPT ![srv_upload.name] = srv_upload]
    BY ServerCases
  <2> QED BY <2>1 DEF TypeOK, File
<1>6. srv_upload.num \in Past
  BY PastParts
<1>7. CASE \E m \in Elements(to_client') : k = m.num
  BY <1>3, <1>6, <1>7, PastParts
<1>8. CASE k \in {response'.num, answer'.num, srv_upload'.num, download'.num}
  BY <1>1, <1>4, <1>8, PastParts
<1>9. CASE \E n \in Names : shared'[n] # None /\ k = shared'[n].num
  BY <1>5, <1>6, <1>9, PastParts
<1>10. CASE \E n \in Names : local'[n] \in Requests /\ k = local'[n]
  BY <1>2, <1>10, PastParts
<1>11. CASE \E o \in outcome' : o.result # -1 /\ k = o.by
  BY <1>1, <1>11, PastParts
<1> QED BY <1>7, <1>8, <1>9, <1>10, <1>11, PastPartsPrime

LEMMA IncreasingTail ==
  ASSUME NEW q \in Seq(Items(ToServer)), q # <<>>, Increasing(q)
  PROVE  /\ Increasing(Tail(q))
         /\ Request(Head(q)) =>
               \A m \in Elements(Tail(q)) : Request(m) => Head(q).num < m.num
<1>1. /\ Len(q) \in Nat \ {0} /\ Head(q) = q[1]
      /\ Len(Tail(q)) = Len(q) - 1
      /\ \A i \in 1 .. Len(Tail(q)) : Tail(q)[i] = q[i + 1]
      /\ \A m \in Elements(Tail(q)) : \E i \in 2 .. Len(q) : q[i] = m
  BY TailElements
<1>2. Increasing(Tail(q))
  <2> SUFFICES ASSUME NEW i \in 1 .. Len(Tail(q)), NEW j \in 1 .. Len(Tail(q)),
                      i < j, Request(Tail(q)[i]), Request(Tail(q)[j])
               PROVE  Tail(q)[i].num < Tail(q)[j].num
    BY DEF Increasing
  <2>1. /\ i + 1 \in 1 .. Len(q) /\ j + 1 \in 1 .. Len(q) /\ i + 1 < j + 1
        /\ Tail(q)[i] = q[i + 1] /\ Tail(q)[j] = q[j + 1]
    BY <1>1
  <2> QED BY <2>1 DEF Increasing
<1>3. ASSUME Request(Head(q)), NEW m \in Elements(Tail(q)), Request(m)
      PROVE  Head(q).num < m.num
  <2>1. PICK i \in 2 .. Len(q) : q[i] = m
    BY <1>1
  <2>2. 1 \in 1 .. Len(q) /\ i \in 1 .. Len(q) /\ 1 < i
    BY <1>1
  <2> QED BY <1>1, <1>3, <2>1, <2>2 DEF Increasing
<1> QED BY <1>2, <1>3

LEMMA IncreasingAppend ==
  ASSUME NEW q \in Seq(Items(ToServer)), NEW x \in Items(ToServer), Increasing(q),
         Request(x) => \A m \in Elements(q) : Request(m) => m.num < x.num
  PROVE  Increasing(Append(q, x))
<1>1. /\ Len(q) \in Nat
      /\ Len(Append(q, x)) = Len(q) + 1
      /\ \A i \in 1 .. Len(q) : Append(q, x)[i] = q[i]
      /\ Append(q, x)[Len(q) + 1] = x
  BY AppendElements
<1> SUFFICES ASSUME NEW i \in 1 .. Len(q) + 1, NEW j \in 1 .. Len(q) + 1,
                    i < j, Request(Append(q, x)[i]), Request(Append(q, x)[j])
             PROVE  Append(q, x)[i].num < Append(q, x)[j].num
  BY <1>1 DEF Increasing
<1>2. i \in 1 .. Len(q) /\ Append(q, x)[i] = q[i] /\ q[i] \in Elements(q)
  BY <1>1 DEF Elements
<1>3. CASE j \in 1 .. Len(q)
  BY <1>1, <1>2, <1>3 DEF Increasing
<1>4. CASE j = Len(q) + 1
  BY <1>1, <1>2, <1>4
<1> QED BY <1>1, <1>3, <1>4

LEMMA OrderStep ==
  ASSUME TypeOK, NameInv, WriteInv, OrderInv, Next
  PROVE  OrderInv'
<1>0. /\ to_server \in Seq(Items(ToServer)) /\ Past \subseteq Nat
      /\ \A m \in Elements(to_server) : m \in Items(ToServer)
  BY PastNat DEF TypeOK, Elements
<1>a. \A m \in Items(ToServer) : m.num \in Nat
  BY Constants DEF Items
<1>b. /\ Issued \in Nat
      /\ Increasing(to_server)
      /\ \A k \in Past : k <= Issued
      /\ \A m \in Elements(to_server) : Request(m) =>
            0 < m.num /\ m.num <= Issued /\ \A k \in Past : k <= m.num - 1
  BY Constants DEF OrderInv, PastUpTo, Issued, TypeOK
<1> SUFFICES /\ mpc' \in {"up_lock", "up_meta"} => upload'.num = ncmd' /\ ncmd' > 0
             /\ Increasing(to_server')
             /\ \A k \in Past' : k <= Issued'
             /\ \A m \in Elements(to_server') : Request(m) =>
                   0 < m.num /\ m.num <= Issued' /\ \A k \in Past' : k <= m.num - 1
  BY DEF OrderInv, PastUpTo
<1>1. CASE User \/ Main
  <2>1. /\ Issued' >= Issued /\ Issued' \in Int
        /\ mpc' \in {"up_lock", "up_meta"} => upload'.num = ncmd' /\ ncmd' > 0
    BY <1>1, MainSends
  <2>2. Past' \subseteq Past
    BY <1>1, MainPast
  <2>3. \A k \in Past' : k <= Issued'
    BY <1>0, <1>b, <2>1, <2>2
  <2>4. \A m \in Elements(to_server) : Request(m) =>
            0 < m.num /\ m.num <= Issued' /\ \A k \in Past' : k <= m.num - 1
    BY <1>0, <1>a, <1>b, <2>1, <2>2
  <2>5. CASE to_server' = to_server
    BY <1>b, <2>1, <2>3, <2>4, <2>5
  <2>6. ASSUME NEW x \in Items(ToServer), to_server' = Append(to_server, x),
               Request(x) => x.num = Issued + 1 /\ Issued' = x.num
        PROVE  /\ Increasing(to_server')
               /\ \A m \in Elements(to_server') : Request(m) =>
                   0 < m.num /\ m.num <= Issued' /\ \A k \in Past' : k <= m.num - 1
    <3>1. Elements(to_server') = Elements(to_server) \union {x}
      BY <1>0, <2>6, AppendElements
    <3>2. Request(x) => \A m \in Elements(to_server) : Request(m) => m.num < x.num
      BY <1>0, <1>a, <1>b, <2>6
    <3>3. Increasing(to_server')
      BY <1>0, <1>b, <2>6, <3>2, IncreasingAppend
    <3>4. Request(x) => 0 < x.num /\ x.num <= Issued' /\ \A k \in Past' : k <= x.num - 1
      BY <1>0, <1>a, <1>b, <2>2, <2>6
    <3> QED BY <2>4, <3>1, <3>3, <3>4
  <2> QED BY <1>1, <2>1, <2>3, <2>5, <2>6, MainSends
<1>2. CASE Receiver
  <2>1. UNCHANGED <<mpc, ncmd, upload, to_server>>
    BY <1>2, ReceiverTakes
  <2>2. \A k \in Past' : k \in Past \/ k = 0
    BY <1>2, ReceiverPast
  <2>3. Issued' = Issued
    BY <2>1 DEF Issued
  <2>4. \A k \in Past' : k <= Issued'
    BY <1>b, <2>2, <2>3
  <2>5. \A m \in Elements(to_server') : Request(m) =>
            0 < m.num /\ m.num <= Issued' /\ \A k \in Past' : k <= m.num - 1
    <3> SUFFICES ASSUME NEW m \in Elements(to_server'), Request(m)
                 PROVE  0 < m.num /\ m.num <= Issued' /\ \A k \in Past' : k <= m.num - 1
      OBVIOUS
    <3>0. m \in Elements(to_server)
      BY <2>1
    <3>1. m.num \in Nat /\ 0 < m.num /\ m.num <= Issued' /\ \A k \in Past : k <= m.num - 1
      BY <1>0, <1>a, <1>b, <2>3, <3>0
    <3>2. \A k \in Past' : k <= m.num - 1
      BY <2>2, <3>1
    <3> QED BY <3>1, <3>2
  <2> QED BY <1>b, <2>1, <2>4, <2>5 DEF OrderInv
<1>3. CASE Server \/ ServerCloses \/ Others
  <2>1. UNCHANGED <<mpc, ncmd, upload>> /\ Issued' = Issued
    BY <1>3, ServerTakes DEF Issued
  <2>2. \A k \in Past' : k \in Past \/ k = 0 \/ ReadsRequest(k)
    BY <1>3, ServerPast
  <2>3. \A k : ReadsRequest(k) => k \in Nat /\ 0 < k /\ k <= Issued
    BY <1>0, <1>a, <1>b, Received DEF ReadsRequest
  <2>4. \A k \in Past' : k <= Issued'
    BY <1>b, <2>1, <2>2, <2>3
  <2>5. \A k : ReadsRequest(k) =>
           \A m \in Elements(to_server') : Request(m) => k < m.num
    BY <1>0, <1>b, IncreasingTail DEF ReadsRequest
  <2>6. Elements(to_server') \subseteq Elements(to_server)
    BY <1>3, ServerStream
  <2>7. \A m \in Elements(to_server') : Request(m) =>
            0 < m.num /\ m.num <= Issued' /\ \A k \in Past' : k <= m.num - 1
    <3> SUFFICES ASSUME NEW m \in Elements(to_server'), Request(m)
                 PROVE  0 < m.num /\ m.num <= Issued' /\ \A k \in Past' : k <= m.num - 1
      OBVIOUS
    <3>1. m.num \in Nat /\ 0 < m.num /\ m.num <= Issued' /\ \A k \in Past : k <= m.num - 1
      BY <1>0, <1>a, <1>b, <2>1, <2>6
    <3>2. \A k \in Past' : k <= m.num - 1
      BY <2>2, <2>3, <2>5, <3>1
    <3> QED BY <3>1, <3>2
  <2>8. Increasing(to_server')
    <3>1. Increasing(<<>>)
      BY DEF Increasing
    <3> QED BY <1>0, <1>3, <1>b, <3>1, IncreasingTail, ServerTakes
  <2> QED BY <2>1, <2>4, <2>7, <2>8 DEF OrderInv
<1>4. CASE Finished
  <2>1. UNCHANGED <<mpc, ncmd, upload, to_server>> /\ Past' = Past /\ Issued' = Issued
    BY <1>4 DEF Finished, vars, session, sending, receiving, disk, streams, server, Past,
       Issued
  <2> QED BY <1>b, <2>1 DEF OrderInv
<1> QED BY <1>1, <1>2, <1>3, <1>4 DEF Next

-----------------------------------------------------------------------------
(* The server's stream: downloads and their data.                          *)

LEMMA ClientItems ==
  ASSUME NEW q \in Seq(Items(ToClient))
  PROVE  /\ Len(q) \in Nat
         /\ \A i \in 1 .. Len(q) : q[i] \in Items(ToClient) /\ q[i].size \in Nat /\ q[i].num \in Nat
         /\ \A m \in Elements(q) : m \in Items(ToClient) /\ m.size \in Nat /\ m.num \in Nat
<1>1. Len(q) \in Nat /\ \A i \in 1 .. Len(q) : q[i] \in Items(ToClient)
  OBVIOUS
<1>2. \A m \in Items(ToClient) : m.size \in Nat /\ m.num \in Nat
  BY Constants DEF Items
<1> QED BY <1>1, <1>2 DEF Elements

\* An announcement, seen from the rest of the stream.
LEMMA AnnouncedTail ==
  ASSUME NEW q \in Seq(Items(ToClient)), q # <<>>, NEW i \in 1 .. Len(Tail(q))
  PROVE  Announced(q, i + 1) <=>
            \/ Announced(Tail(q), i)
            \/ Head(q).type = "DOWNLOAD_READY" /\ i <= Head(q).size
<1>1. /\ Len(q) \in Nat \ {0} /\ Head(q) = q[1] /\ Len(Tail(q)) = Len(q) - 1
      /\ \A x \in 1 .. Len(Tail(q)) : Tail(q)[x] = q[x + 1]
  BY TailElements
<1>2. \A x \in 1 .. Len(q) : q[x].size \in Nat
  BY ClientItems
<1>3. ASSUME Announced(q, i + 1)
      PROVE  Announced(Tail(q), i) \/ (Head(q).type = "DOWNLOAD_READY" /\ i <= Head(q).size)
  <2>1. PICK j \in 1 .. Len(q) :
           q[j].type = "DOWNLOAD_READY" /\ j < i + 1 /\ i + 1 <= j + q[j].size
    BY <1>3 DEF Announced
  <2>2. CASE j = 1
    BY <1>1, <1>2, <2>1, <2>2
  <2>3. CASE j # 1
    <3>1. j - 1 \in 1 .. Len(Tail(q)) /\ Tail(q)[j - 1] = q[j]
      BY <1>1, <2>1, <2>3
    <3>2. j - 1 < i /\ i <= (j - 1) + q[j].size
      BY <1>1, <1>2, <2>1
    <3> QED BY <2>1, <3>1, <3>2 DEF Announced
  <2> QED BY <2>2, <2>3
<1>4. ASSUME Announced(Tail(q), i) PROVE Announced(q, i + 1)
  <2>1. PICK j \in 1 .. Len(Tail(q)) :
           Tail(q)[j].type = "DOWNLOAD_READY" /\ j < i /\ i <= j + Tail(q)[j].size
    BY <1>4 DEF Announced
  <2>2. j + 1 \in 1 .. Len(q) /\ q[j + 1] = Tail(q)[j]
    BY <1>1, <2>1
  <2>3. j + 1 < i + 1 /\ i + 1 <= (j + 1) + q[j + 1].size
    BY <1>1, <1>2, <2>1, <2>2
  <2> QED BY <2>1, <2>2, <2>3 DEF Announced
<1>5. ASSUME Head(q).type = "DOWNLOAD_READY", i <= Head(q).size PROVE Announced(q, i + 1)
  <2>1. 1 \in 1 .. Len(q) /\ 1 < i + 1 /\ i + 1 <= 1 + q[1].size
    BY <1>1, <1>2, <1>5
  <2> QED BY <1>1, <1>5, <2>1 DEF Announced
<1> QED BY <1>3, <1>4, <1>5

LEMMA FramedTail ==
  ASSUME NEW q \in Seq(Items(ToClient)), q # <<>>, NEW k \in Nat, Framed(q, k)
  PROVE  /\ k > 0 => Head(q).type = "RAW" /\ Framed(Tail(q), k - 1)
         /\ k = 0 /\ Head(q).type = "DOWNLOAD_READY" => Framed(Tail(q), Head(q).size)
         /\ k = 0 /\ Head(q).type # "DOWNLOAD_READY" => Framed(Tail(q), 0)
         /\ k = 0 => Head(q).type # "RAW"
<1>1. /\ Len(q) \in Nat \ {0} /\ Head(q) = q[1] /\ Len(Tail(q)) = Len(q) - 1
      /\ Tail(q) \in Seq(Items(ToClient))
      /\ \A x \in 1 .. Len(Tail(q)) : Tail(q)[x] = q[x + 1]
  BY TailElements
<1>2. \A x \in 1 .. Len(q) : q[x].size \in Nat
  BY ClientItems
<1>3. \A i \in 1 .. Len(Tail(q)) :
         Tail(q)[i].type = "DOWNLOAD_READY" => i + Tail(q)[i].size <= Len(Tail(q))
  <2> SUFFICES ASSUME NEW i \in 1 .. Len(Tail(q)), Tail(q)[i].type = "DOWNLOAD_READY"
               PROVE  i + Tail(q)[i].size <= Len(Tail(q))
    OBVIOUS
  <2>1. i + 1 \in 1 .. Len(q) /\ Tail(q)[i] = q[i + 1]
    BY <1>1
  <2>2. (i + 1) + q[i + 1].size <= Len(q)
    BY <2>1 DEF Framed
  <2> QED BY <1>1, <1>2, <2>1, <2>2
<1>4. ~Announced(q, 1)
  <2>1. \A j \in 1 .. Len(q) : ~(j < 1)
    BY <1>1
  <2> QED BY <2>1 DEF Announced
<1>5. Head(q).type = "RAW" <=> 1 <= k
  BY <1>1, <1>4 DEF Framed
<1>6. \A i \in 1 .. Len(Tail(q)) :
         Tail(q)[i].type = "RAW" <=>
            \/ i + 1 <= k
            \/ Announced(Tail(q), i)
            \/ Head(q).type = "DOWNLOAD_READY" /\ i <= Head(q).size
  <2> TAKE i \in 1 .. Len(Tail(q))
  <2>1. i + 1 \in 1 .. Len(q) /\ Tail(q)[i] = q[i + 1]
    BY <1>1
  <2>2. q[i + 1].type = "RAW" <=> i + 1 <= k \/ Announced(q, i + 1)
    BY <2>1 DEF Framed
  <2> QED BY <2>1, <2>2, AnnouncedTail
<1>7. CASE k > 0
  <2>1. Head(q).type = "RAW"
    BY <1>5, <1>7
  <2>2. \A i \in 1 .. Len(Tail(q)) : i + 1 <= k <=> i <= k - 1
    BY <1>1
  <2>3. k - 1 <= Len(Tail(q))
    BY <1>1 DEF Framed
  <2>4. Framed(Tail(q), k - 1)
    BY <1>3, <1>6, <2>1, <2>2, <2>3 DEF Framed
  <2> QED BY <1>7, <2>1, <2>4
<1>8. CASE k = 0
  <2>1. \A i \in 1 .. Len(Tail(q)) : ~(i + 1 <= k) /\ ~(i <= 0)
    BY <1>1, <1>8
  <2>2. Head(q).type # "RAW"
    BY <1>5, <1>8
  <2>3. CASE Head(q).type = "DOWNLOAD_READY"
    <3>1. Head(q).size <= Len(Tail(q))
      <4>1. 1 + q[1].size <= Len(q)
        BY <1>1, <2>3 DEF Framed
      <4> QED BY <1>1, <1>2, <4>1
    <3>2. Framed(Tail(q), Head(q).size)
      BY <1>3, <1>6, <2>1, <2>3, <3>1 DEF Framed
    <3> QED BY <1>8, <2>2, <2>3, <3>2
  <2>4. CASE Head(q).type # "DOWNLOAD_READY"
    <3>1. 0 <= Len(Tail(q))
      BY <1>1
    <3>2. Framed(Tail(q), 0)
      BY <1>3, <1>6, <2>1, <2>4, <3>1 DEF Framed
    <3> QED BY <1>8, <2>2, <2>4, <3>2
  <2> QED BY <2>3, <2>4
<1> QED BY <1>7, <1>8

LEMMA FramedAppend ==
  ASSUME NEW q \in Seq(Items(ToClient)), NEW k \in Nat, Framed(q, k),
         NEW x \in Items(ToClient), x.type \notin {"RAW", "DOWNLOAD_READY"}
  PROVE  Framed(Append(q, x), k)
<1> DEFINE r == Append(q, x)
<1>1. /\ Len(q) \in Nat /\ Len(r) = Len(q) + 1
      /\ \A i \in 1 .. Len(q) : r[i] = q[i]
      /\ r[Len(q) + 1] = x
  BY AppendElements
<1>2. \A i \in 1 .. Len(q) : q[i].size \in Nat
  BY ClientItems
<1> HIDE DEF r
<1>3. \A i \in 1 .. Len(r) : i \in 1 .. Len(q) \/ i = Len(q) + 1
  BY <1>1
<1>4. \A i \in 1 .. Len(r) :
         r[i].type = "DOWNLOAD_READY" => i \in 1 .. Len(q) /\ i + q[i].size <= Len(q)
  BY <1>1, <1>3 DEF Framed
<1>5. \A i \in 1 .. Len(r) :
         r[i].type = "DOWNLOAD_READY" => i + r[i].size <= Len(r)
  BY <1>1, <1>2, <1>4
<1>6. \A i \in 1 .. Len(r) : Announced(r, i) <=> i <= Len(q) /\ Announced(q, i)
  <2> TAKE i \in 1 .. Len(r)
  <2>1. ASSUME Announced(r, i) PROVE i <= Len(q) /\ Announced(q, i)
    <3>1. PICK j \in 1 .. Len(r) :
             r[j].type = "DOWNLOAD_READY" /\ j < i /\ i <= j + r[j].size
      BY <2>1 DEF Announced
    <3>2. j \in 1 .. Len(q) /\ r[j] = q[j] /\ j + q[j].size <= Len(q)
      BY <1>1, <1>4, <3>1
    <3>3. i <= Len(q)
      BY <1>1, <1>2, <3>1, <3>2
    <3> QED BY <3>1, <3>2, <3>3 DEF Announced
  <2>2. ASSUME Announced(q, i) PROVE Announced(r, i)
    <3>1. PICK j \in 1 .. Len(q) :
             q[j].type = "DOWNLOAD_READY" /\ j < i /\ i <= j + q[j].size
      BY <2>2 DEF Announced
    <3>2. j \in 1 .. Len(r) /\ r[j] = q[j]
      BY <1>1, <3>1
    <3> QED BY <3>1, <3>2 DEF Announced
  <2> QED BY <2>1, <2>2
<1>7. \A i \in 1 .. Len(r) : r[i].type = "RAW" <=> i <= k \/ Announced(r, i)
  <2> TAKE i \in 1 .. Len(r)
  <2>1. CASE i \in 1 .. Len(q)
    BY <1>1, <1>6, <2>1 DEF Framed
  <2>2. CASE i = Len(q) + 1
    <3>1. ~(i <= k) /\ ~(i <= Len(q))
      BY <1>1, <2>2 DEF Framed
    <3> QED BY <1>1, <1>6, <2>2, <3>1
  <2> QED BY <1>3, <2>1, <2>2
<1>8. k <= Len(r)
  BY <1>1 DEF Framed
<1>9. Framed(r, k)
  BY <1>5, <1>7, <1>8 DEF Framed
<1> QED BY <1>9 DEF r

LEMMA FramedFile ==
  ASSUME NEW q \in Seq(Items(ToClient)), NEW k \in Nat, Framed(q, k),
         NEW f \in Seq(Items(ToClient)), NEW s \in Nat,
         Len(f) = s + 1, f[1].type = "DOWNLOAD_READY", f[1].size = s,
         \A i \in 2 .. s + 1 : f[i].type = "RAW"
  PROVE  Framed(q \o f, k)
<1>0. /\ Len(q) \in Nat /\ Len(q \o f) = Len(q) + Len(f)
      /\ \A i \in 1 .. Len(q) : (q \o f)[i] = q[i]
      /\ \A i \in 1 .. Len(f) : (q \o f)[Len(q) + i] = f[i]
      /\ \A i \in Len(q) + 1 .. Len(q) + Len(f) : (q \o f)[i] = f[i - Len(q)]
  <2>a. Len(q) \in Nat
    OBVIOUS
  <2>b. Len(q \o f) = Len(q) + Len(f)
    OBVIOUS
  <2>1. Len(q) \in Nat /\ Len(q \o f) = Len(q) + Len(f)
    BY <2>a, <2>b
  <2>2. \A i \in 1 .. Len(q) : (q \o f)[i] = q[i]
    BY ConcatElements
  <2>3. \A i \in 1 .. Len(f) : (q \o f)[Len(q) + i] = f[i]
    BY ConcatElements
  <2>4. \A i \in Len(q) + 1 .. Len(q) + Len(f) : (q \o f)[i] = f[i - Len(q)]
    BY ConcatElements
  <2> QED BY <2>1, <2>2, <2>3, <2>4
<1> DEFINE r == q \o f
           n == Len(q)
<1>1. /\ n \in Nat /\ Len(r) = n + s + 1
      /\ \A i \in 1 .. n : r[i] = q[i]
      /\ r[n + 1] = f[1]
      /\ \A i \in n + 2 .. n + s + 1 : r[i].type = "RAW"
  <2>1. /\ n \in Nat /\ Len(r) = n + Len(f)
        /\ \A i \in 1 .. n : r[i] = q[i]
        /\ \A i \in 1 .. Len(f) : r[n + i] = f[i]
        /\ \A i \in n + 1 .. n + Len(f) : r[i] = f[i - n]
    BY <1>0
  <2> HIDE DEF r, n
  <2>2. \A i \in n + 2 .. n + s + 1 :
           i \in n + 1 .. n + Len(f) /\ i - n \in 2 .. s + 1
    BY <2>1
  <2>3. \A i \in n + 2 .. n + s + 1 : r[i] = f[i - n]
    BY <2>1, <2>2
  <2>4. \A i \in n + 2 .. n + s + 1 : r[i].type = "RAW"
    BY <2>2, <2>3
  <2>5. Len(r) = n + s + 1
    BY <2>1
  <2>6. 1 \in 1 .. Len(f)
    OBVIOUS
  <2>7. r[n + 1] = f[1]
    BY <2>1, <2>6
  <2> QED BY <2>1, <2>4, <2>5, <2>7
<1>2. \A i \in 1 .. n : q[i].size \in Nat
  BY ClientItems
<1>3. /\ k <= n
      /\ \A i \in 1 .. n : q[i].type = "DOWNLOAD_READY" => i + q[i].size <= n
      /\ \A i \in 1 .. n : q[i].type = "RAW" <=> i <= k \/ Announced(q, i)
  BY DEF Framed
<1>a. \A i : Announced(q, i) <=> \E j \in 1 .. n :
                q[j].type = "DOWNLOAD_READY" /\ j < i /\ i <= j + q[j].size
  BY DEF Announced
<1> HIDE DEF r, n
<1>4. \A i \in 1 .. Len(r) : i \in 1 .. n \/ i = n + 1 \/ i \in n + 2 .. n + s + 1
  BY <1>1
<1>5. \A i \in 1 .. Len(r) :
         r[i].type = "DOWNLOAD_READY" =>
            \/ i \in 1 .. n /\ r[i] = q[i] /\ i + q[i].size <= n
            \/ i = n + 1 /\ r[i].size = s
  <2> TAKE i \in 1 .. Len(r)
  <2>1. CASE i \in 1 .. n
    BY <1>1, <1>3, <2>1
  <2>2. CASE i = n + 1
    BY <1>1, <2>2
  <2>3. CASE i \in n + 2 .. n + s + 1
    BY <1>1, <2>3
  <2> QED BY <1>4, <2>1, <2>2, <2>3
<1>6. \A i \in 1 .. Len(r) : r[i].type = "DOWNLOAD_READY" => i + r[i].size <= Len(r)
  <2> SUFFICES ASSUME NEW i \in 1 .. Len(r), r[i].type = "DOWNLOAD_READY"
               PROVE  i + r[i].size <= Len(r)
    OBVIOUS
  <2>1. CASE i \in 1 .. n /\ r[i] = q[i] /\ i + q[i].size <= n
    BY <1>1, <1>2, <2>1
  <2>2. CASE i = n + 1 /\ r[i].size = s
    BY <1>1, <2>2
  <2> QED BY <1>5, <2>1, <2>2
<1>7. \A i \in 1 .. n : Announced(r, i) <=> Announced(q, i)
  <2> TAKE i \in 1 .. n
  <2>1. ASSUME Announced(r, i) PROVE Announced(q, i)
    <3>1. PICK j \in 1 .. Len(r) :
             r[j].type = "DOWNLOAD_READY" /\ j < i /\ i <= j + r[j].size
      BY <2>1 DEF Announced
    <3>2. j \in 1 .. n /\ r[j] = q[j]
      BY <1>1, <3>1
    <3> QED BY <1>a, <3>1, <3>2
  <2>2. ASSUME Announced(q, i) PROVE Announced(r, i)
    <3>1. PICK j \in 1 .. n :
             q[j].type = "DOWNLOAD_READY" /\ j < i /\ i <= j + q[j].size
      BY <1>a, <2>2
    <3>2. j \in 1 .. Len(r) /\ r[j] = q[j]
      BY <1>1, <3>1
    <3> QED BY <3>1, <3>2 DEF Announced
  <2> QED BY <2>1, <2>2
<1>8. ~Announced(r, n + 1)
  <2> SUFFICES ASSUME NEW j \in 1 .. Len(r), r[j].type = "DOWNLOAD_READY", j < n + 1,
                      n + 1 <= j + r[j].size
               PROVE  FALSE
    BY DEF Announced
  <2> QED BY <1>1, <1>2, <1>5
<1>9. \A i \in n + 2 .. n + s + 1 : Announced(r, i)
  <2> TAKE i \in n + 2 .. n + s + 1
  <2>1. n + 1 \in 1 .. Len(r) /\ n + 1 < i /\ i <= (n + 1) + r[n + 1].size
    BY <1>1
  <2> QED BY <1>1, <2>1 DEF Announced
<1>10. \A i \in 1 .. Len(r) : r[i].type = "RAW" <=> i <= k \/ Announced(r, i)
  <2> TAKE i \in 1 .. Len(r)
  <2>1. CASE i \in 1 .. n
    BY <1>1, <1>3, <1>7, <2>1
  <2>2. CASE i = n + 1
    BY <1>1, <1>3, <1>8, <2>2
  <2>3. CASE i \in n + 2 .. n + s + 1
    BY <1>1, <1>9, <2>3
  <2> QED BY <1>4, <2>1, <2>2, <2>3
<1>11. k <= Len(r)
  BY <1>1, <1>3
<1>12. Framed(r, k)
  BY <1>6, <1>10, <1>11 DEF Framed
<1> QED BY <1>12 DEF r

\* What the server appends to its stream: a frame, or a file with its data.
LEMMA ServerAppends ==
  ASSUME TypeOK, NameInv, Server \/ ServerCloses \/ Others
  PROVE  \/ to_client' = to_client
         \/ \E x \in Items(ToClient) :
               /\ x.type \notin {"RAW", "DOWNLOAD_READY"} /\ to_client' = Append(to_client, x)
               /\ x.type = "UPLOAD_READY" =>
                     to_server # <<>> /\ Head(to_server).type = "upload"
         \/ \E f \in Seq(Items(ToClient)), s \in Nat :
               /\ Len(f) = s + 1 /\ f[1].type = "DOWNLOAD_READY" /\ f[1].size = s
               /\ \A i \in 2 .. s + 1 : f[i].type = "RAW"
               /\ ReadsRequest(f[1].num)
               /\ to_client' = to_client \o f
<1>0. \A t \in ToClient, k \in Requests :
         /\ Item(t, k, None, 0) \in Items(ToClient)
         /\ Item(t, k, None, 0).type = t
  BY Constants DEF Item, Items
<1>1. to_server # <<>> => Head(to_server).num \in Requests
  <2>1. to_server # <<>> => Head(to_server) \in Items(ToServer)
    BY TailElements DEF TypeOK
  <2> QED BY <2>1 DEF Items
<1>2. srv_upload.num \in Requests /\ 0 \in Requests
  BY Constants DEF TypeOK, Files
<1>3. ASSUME NEW t \in {"USERNAME_REQUIRED", "LOGIN_SUCCESS", "BROADCAST", "GOODBYE",
                        "ERROR", "RESPONSE", "UPLOAD_READY", "UPLOAD_SUCCESS"},
             NEW k \in Requests, to_client' = Append(to_client, Item(t, k, None, 0)),
             t = "UPLOAD_READY" => to_server # <<>> /\ Head(to_server).type = "upload"
      PROVE  \E x \in Items(ToClient) :
               /\ x.type \notin {"RAW", "DOWNLOAD_READY"} /\ to_client' = Append(to_client, x)
               /\ x.type = "UPLOAD_READY" =>
                     to_server # <<>> /\ Head(to_server).type = "upload"
  <2>1. t \in ToClient /\ t \notin {"RAW", "DOWNLOAD_READY"}
    BY <1>3 DEF ToClient
  <2> QED BY <1>0, <1>3, <2>1
<1>4. ASSUME NEW k \in Sizes, srv = "idle", to_server # <<>>, to_server' = Tail(to_server),
             Head(to_server).type = "download", Head(to_server).name \in Names,
             to_client' = to_client \o FileFrames(Head(to_server).num, Head(to_server).name, k)
      PROVE  \E f \in Seq(Items(ToClient)), s \in Nat :
               /\ Len(f) = s + 1 /\ f[1].type = "DOWNLOAD_READY" /\ f[1].size = s
               /\ \A i \in 2 .. s + 1 : f[i].type = "RAW"
               /\ ReadsRequest(f[1].num)
               /\ to_client' = to_client \o f
  <2> DEFINE num == Head(to_server).num
             name == Head(to_server).name
  <2>0. num \in Requests /\ name \in Names
    BY <1>1, <1>4
  <2> DEFINE f == FileFrames(num, name, k)
  <2>1. /\ f \in Seq(Items(ToClient)) /\ Len(f) = k + 1
        /\ f[1] = Item("DOWNLOAD_READY", num, name, k)
        /\ \A i \in 2 .. k + 1 : f[i] = Raw(num)
    BY <1>4, <2>0, FileItems
  <2>2. to_client' = to_client \o f
    BY <1>4
  <2> HIDE DEF f
  <2>3. f[1].type = "DOWNLOAD_READY" /\ f[1].size = k /\ f[1].num = Head(to_server).num
    BY <2>1 DEF Item
  <2>4. \A i \in 2 .. k + 1 : f[i].type = "RAW"
    BY <2>1 DEF Raw, Item
  <2>5. ReadsRequest(f[1].num)
    BY <1>4, <2>3 DEF ReadsRequest, Request
  <2>6. k \in Nat
    BY <1>4, Constants
  <2> QED BY <2>1, <2>2, <2>3, <2>4, <2>5, <2>6
<1>5. CASE to_client' = to_client
  BY <1>5
<1>6. CASE \E t \in {"USERNAME_REQUIRED", "LOGIN_SUCCESS", "BROADCAST", "GOODBYE", "ERROR"} :
                  to_client' = Append(to_client, Item(t, 0, None, 0))
  BY <1>2, <1>3, <1>6
<1>7. CASE /\ to_server # <<>>
           /\ \E t \in {"ERROR", "RESPONSE", "UPLOAD_READY"} :
                  /\ to_client' = Append(to_client, Item(t, Head(to_server).num, None, 0))
                  /\ t = "UPLOAD_READY" => Head(to_server).type = "upload"
  BY <1>1, <1>3, <1>7
<1>8. CASE \/ to_client' = Append(to_client, Item("UPLOAD_SUCCESS", srv_upload.num, None, 0))
           \/ to_client' = Append(to_client, Item("ERROR", srv_upload.num, None, 0))
  BY <1>2, <1>3, <1>8
<1> QED BY ServerCases, <1>4, <1>5, <1>6, <1>7, <1>8

LEMMA ReadyTail ==
  ASSUME NEW q \in Seq(Items(ToClient)), q # <<>>, ReadyIncreasing(q)
  PROVE  /\ ReadyIncreasing(Tail(q))
         /\ Head(q).type = "DOWNLOAD_READY" =>
               \A m \in Elements(Tail(q)) :
                   m.type = "DOWNLOAD_READY" => Head(q).num < m.num
<1>1. /\ Len(q) \in Nat \ {0} /\ Head(q) = q[1]
      /\ Len(Tail(q)) = Len(q) - 1
      /\ \A i \in 1 .. Len(Tail(q)) : Tail(q)[i] = q[i + 1]
      /\ \A m \in Elements(Tail(q)) : \E i \in 2 .. Len(q) : q[i] = m
  BY TailElements
<1>2. ReadyIncreasing(Tail(q))
  <2> SUFFICES ASSUME NEW i \in 1 .. Len(Tail(q)), NEW j \in 1 .. Len(Tail(q)),
                      i < j, Tail(q)[i].type = "DOWNLOAD_READY",
                      Tail(q)[j].type = "DOWNLOAD_READY"
               PROVE  Tail(q)[i].num < Tail(q)[j].num
    BY DEF ReadyIncreasing
  <2>1. /\ i + 1 \in 1 .. Len(q) /\ j + 1 \in 1 .. Len(q) /\ i + 1 < j + 1
        /\ Tail(q)[i] = q[i + 1] /\ Tail(q)[j] = q[j + 1]
    BY <1>1
  <2> QED BY <2>1 DEF ReadyIncreasing
<1>3. ASSUME Head(q).type = "DOWNLOAD_READY", NEW m \in Elements(Tail(q)),
             m.type = "DOWNLOAD_READY"
      PROVE  Head(q).num < m.num
  <2>1. PICK i \in 2 .. Len(q) : q[i] = m
    BY <1>1
  <2>2. 1 \in 1 .. Len(q) /\ i \in 1 .. Len(q) /\ 1 < i
    BY <1>1
  <2> QED BY <1>1, <1>3, <2>1, <2>2 DEF ReadyIncreasing
<1> QED BY <1>2, <1>3

\* The same for what is appended, a frame or a file.
LEMMA ReadyConcat ==
  ASSUME NEW q \in Seq(Items(ToClient)), ReadyIncreasing(q), NEW f \in Seq(Items(ToClient)),
         \A i \in 2 .. Len(f) : f[i].type # "DOWNLOAD_READY",
         Len(f) > 0 /\ f[1].type = "DOWNLOAD_READY" =>
            \A m \in Elements(q) : m.type = "DOWNLOAD_READY" => m.num < f[1].num
  PROVE  ReadyIncreasing(q \o f)
<1>0. Len(q) \in Nat /\ Len(f) \in Nat
  OBVIOUS
<1>1. Len(q \o f) = Len(q) + Len(f)
  OBVIOUS
<1>2. /\ \A i \in 1 .. Len(q) : (q \o f)[i] = q[i]
      /\ \A i \in Len(q) + 1 .. Len(q) + Len(f) : (q \o f)[i] = f[i - Len(q)]
  BY ConcatElements
<1> SUFFICES ASSUME NEW i \in 1 .. Len(q \o f), NEW j \in 1 .. Len(q \o f), i < j,
                    (q \o f)[i].type = "DOWNLOAD_READY",
                    (q \o f)[j].type = "DOWNLOAD_READY"
             PROVE  (q \o f)[i].num < (q \o f)[j].num
  BY DEF ReadyIncreasing
<1>3. ASSUME NEW x \in Len(q) + 1 .. Len(q) + Len(f), (q \o f)[x].type = "DOWNLOAD_READY"
      PROVE  x = Len(q) + 1 /\ Len(f) > 0 /\ (q \o f)[x] = f[1]
  <2>1. x - Len(q) \in 1 .. Len(f) /\ (q \o f)[x] = f[x - Len(q)]
    BY <1>0, <1>2, <1>3
  <2>2. x - Len(q) \notin 2 .. Len(f)
    BY <1>3, <2>1
  <2>a. \A y \in 1 .. Len(f) : y \in 2 .. Len(f) \/ (y = 1 /\ Len(f) > 0)
    BY <1>0
  <2>3. x - Len(q) = 1 /\ Len(f) > 0
    BY <2>1, <2>2, <2>a
  <2>4. x = Len(q) + 1
    BY <1>0, <1>3, <2>3
  <2> QED BY <2>1, <2>3, <2>4
<1>4. \A x \in 1 .. Len(q \o f) : x \in 1 .. Len(q) \/ x \in Len(q) + 1 .. Len(q) + Len(f)
  BY <1>0, <1>1
<1>5. CASE j \in 1 .. Len(q)
  <2>1. i \in 1 .. Len(q)
    BY <1>0, <1>1, <1>5
  <2> QED BY <1>2, <1>5, <2>1 DEF ReadyIncreasing
<1>6. CASE j \in Len(q) + 1 .. Len(q) + Len(f)
  <2>1. j = Len(q) + 1 /\ Len(f) > 0 /\ (q \o f)[j] = f[1]
    BY <1>3, <1>6
  <2>2. i \in 1 .. Len(q)
    BY <1>0, <1>1, <2>1
  <2>3. q[i] \in Elements(q) /\ (q \o f)[i] = q[i]
    BY <1>2, <2>2 DEF Elements
  <2> QED BY <2>1, <2>3
<1> QED BY <1>4, <1>5, <1>6

LEMMA AppendConcat ==
  ASSUME NEW T, NEW q \in Seq(T), NEW x \in T
  PROVE  /\ Append(q, x) = q \o <<x>> /\ <<x>> \in Seq(T)
         /\ Len(<<x>>) = 1 /\ <<x>>[1] = x
  OBVIOUS

-----------------------------------------------------------------------------
(* Downloads.                                                              *)

\* A request is younger than everything that the server has read before.
LEMMA ReadPast ==
  ASSUME TypeOK, OrderInv, NEW k, ReadsRequest(k)
  PROVE  k \in Nat /\ 0 < k /\ \A x \in Past : x \in Nat /\ x < k
<1>1. Head(to_server) \in Elements(to_server) /\ Head(to_server) \in Items(ToServer)
  BY TailElements DEF ReadsRequest, TypeOK
<1>2. k \in Nat
  BY <1>1, Constants DEF ReadsRequest, Items
<1>3. 0 < k /\ \A x \in Past : x <= k - 1
  BY <1>1 DEF ReadsRequest, OrderInv, PastUpTo
<1> QED BY <1>2, <1>3, PastNat

\* What the receiver does about a download.
LEMMA DownloadCases ==
  ASSUME TypeOK, Receiver
  PROVE  \/ /\ rpc = "recv" /\ rpc' = "dl_open"
            /\ to_client # <<>> /\ to_client' = Tail(to_client)
            /\ Head(to_client).type = "DOWNLOAD_READY"
            /\ download' = [num |-> Head(to_client).num, name |-> Head(to_client).name,
                            size |-> Head(to_client).size, left |-> Head(to_client).size,
                            failed |-> FALSE]
            /\ UNCHANGED <<local, temp, content, saved>>
         \/ DownloadOpen
         \/ DownloadBlock
         \/ /\ rpc = "dl_recv" /\ rpc' = "dl_link"
            /\ download.left = 0 /\ ~download.failed
            /\ UNCHANGED <<download, local, temp, content, saved, to_client>>
         \/ /\ rpc = "dl_link" /\ rpc' = "dl_unlink"
            /\ local[download.name] = None
            /\ local' = [local EXCEPT ![download.name] = temp]
            /\ UNCHANGED <<download, temp, content, saved, to_client>>
         \/ /\ rpc = "dl_unlink" /\ rpc' = "loop"
            /\ saved' = saved \union {File(download.num, download.name, download.size)}
            /\ download' = NoDownload
            /\ UNCHANGED <<local, content, to_client>>
         \/ /\ rpc \in {"dl_recv", "dl_link"} /\ rpc' \in {"loop", "dl_stop"}
            /\ rpc' = "loop" /\ rpc = "dl_recv" => download.left = 0
            /\ download' = NoDownload
            /\ UNCHANGED <<local, content, saved, to_client>>
         \/ /\ rpc = "recv" /\ rpc' \in {"loop", "ended"}
            /\ to_client # <<>> /\ to_client' = Tail(to_client)
            /\ Head(to_client).type \notin {"RAW", "DOWNLOAD_READY"}
            /\ UNCHANGED <<download, local, temp, content, saved>>
         \/ /\ rpc \in {"loop", "recv", "stop", "dl_stop"}
            /\ rpc' \in {"recv", "stop", "ended"}
            /\ UNCHANGED <<download, local, temp, content, saved, to_client>>
<1> USE DEF session, sending, receiving, disk, streams, server
<1>1. CASE ReceiveDownloadReady
  BY <1>1 DEF ReceiveDownloadReady, Arrived, Consume, Items
<1>2. CASE ReceiveUploadAnswer
  BY <1>2 DEF ReceiveUploadAnswer, Arrived, Consume, Items, TakesForUpload
<1>3. CASE ReceiveMessage
  BY <1>3 DEF ReceiveMessage, Arrived, Consume, Items
<1>4. CASE ReceiverLoop \/ ConnectionLost \/ ReceiverStop
  BY <1>4 DEF ReceiverLoop, ConnectionLost, ReceiverStop
<1>5. CASE DownloadLost
  BY <1>5 DEF DownloadLost
<1>6. CASE DownloadClose
  BY <1>6 DEF DownloadClose, DownloadFailed
<1>7. CASE DownloadLink
  BY <1>7 DEF DownloadLink, DownloadFailed
<1>8. CASE DownloadReturn
  BY <1>8 DEF DownloadReturn
<1>9. CASE DownloadOpen \/ DownloadBlock
  BY <1>9
<1> QED BY <1>1, <1>2, <1>3, <1>4, <1>5, <1>6, <1>7, <1>8, <1>9 DEF Receiver

\* A download under way keeps its number and its name.
LEMMA DownloadGoesOn ==
  ASSUME TypeOK, DownloadOpen \/ DownloadBlock
  PROVE  /\ download'.num = download.num /\ download'.name = download.name
         /\ download'.size = download.size
         /\ rpc \in {"dl_open", "dl_recv"} /\ rpc' = "dl_recv"
         /\ UNCHANGED <<local, saved>>
         /\ DownloadOpen => download'.left = download.left /\ to_client' = to_client
         /\ DownloadBlock => download'.left = download.left - 1 /\ download.left > 0
                             /\ to_client # <<>> /\ to_client' = Tail(to_client)
<1> USE DEF session, sending, receiving, disk, streams, server
<1>1. download \in [num : Requests, name : Names \union {None}, size : Sizes,
                    left : Sizes, failed : BOOLEAN]
  BY DEF TypeOK
<1>2. CASE DownloadOpen
  <2>1. download' = download \/ download' = [download EXCEPT !.failed = TRUE]
    BY <1>2 DEF DownloadOpen, OpenTemp, OpenFails
  <2>2. download'.num = download.num /\ download'.name = download.name
        /\ download'.size = download.size /\ download'.left = download.left
    BY <1>1, <2>1
  <2>3. ~DownloadBlock
    BY <1>2 DEF DownloadOpen, DownloadBlock
  <2> QED BY <1>2, <2>2, <2>3 DEF DownloadOpen
<1>3. CASE DownloadBlock
  <2>1. \E f \in BOOLEAN : download' = AfterBlock(download, f)
    BY <1>3 DEF DownloadBlock
  <2>2. download'.num = download.num /\ download'.name = download.name
        /\ download'.size = download.size /\ download'.left = download.left - 1
    BY <1>1, <2>1 DEF AfterBlock
  <2>3. ~DownloadOpen
    BY <1>3 DEF DownloadOpen, DownloadBlock
  <2> QED BY <1>3, <2>2, <2>3 DEF DownloadBlock, Consume
<1> QED BY <1>2, <1>3

LEMMA FreshStep ==
  ASSUME TypeOK, NameInv, OrderInv, WriteInv, FreshInv, Next
  PROVE  FreshInv'
<1>0. to_client \in Seq(Items(ToClient))
  BY DEF TypeOK
<1>a. ASSUME to_client # <<>>, to_client' = Tail(to_client)
      PROVE  /\ ReadyIncreasing(to_client')
             /\ Head(to_client) \in Elements(to_client)
             /\ Elements(to_client') \subseteq Elements(to_client)
             /\ Head(to_client).type = "DOWNLOAD_READY" =>
                  \A m \in Elements(to_client') :
                     m.type = "DOWNLOAD_READY" => Head(to_client).num < m.num
  BY <1>0, <1>a, ReadyTail, TailElements DEF FreshInv
<1>b. /\ ReadyIncreasing(to_client)
      /\ \A m \in Elements(to_client) : m.type = "DOWNLOAD_READY" =>
          /\ 0 < m.num
          /\ \A n \in Names : local[n] \in Requests => local[n] < m.num
          /\ rpc \in DownloadPcs => download.num < m.num
      /\ rpc \in DownloadPcs => 0 < download.num
      /\ rpc \in {"dl_open", "dl_recv", "dl_link"} =>
          \A n \in Names : local[n] \in Requests => local[n] < download.num
  BY DEF FreshInv
<1> SUFFICES /\ ReadyIncreasing(to_client')
             /\ \A m \in Elements(to_client') : m.type = "DOWNLOAD_READY" =>
                 /\ 0 < m.num
                 /\ \A n \in Names : local'[n] \in Requests => local'[n] < m.num
                 /\ rpc' \in DownloadPcs => download'.num < m.num
             /\ rpc' \in DownloadPcs => 0 < download'.num
             /\ rpc' \in {"dl_open", "dl_recv", "dl_link"} =>
                 \A n \in Names : local'[n] \in Requests => local'[n] < download'.num
  BY DEF FreshInv
<1>1. CASE User \/ Main
  <2>1. UNCHANGED <<download, local>> /\ (rpc' = rpc \/ rpc' = "loop")
    BY <1>1, MainTakes
  <2>2. ReadyIncreasing(to_client') /\ Elements(to_client') \subseteq Elements(to_client)
    BY <1>1, <1>a, <1>b, MainTakes
  <2> QED BY <1>b, <2>1, <2>2 DEF DownloadPcs
<1>2. CASE Receiver
  <2>0. ReadyIncreasing(to_client') /\ Elements(to_client') \subseteq Elements(to_client)
    BY <1>2, <1>a, <1>b, ReceiverTakes
  <2>1. CASE /\ rpc' = "dl_open" /\ to_client # <<>> /\ to_client' = Tail(to_client)
             /\ Head(to_client).type = "DOWNLOAD_READY"
             /\ download' = [num |-> Head(to_client).num, name |-> Head(to_client).name,
                             size |-> Head(to_client).size, left |-> Head(to_client).size,
                             failed |-> FALSE]
             /\ UNCHANGED <<local, temp, content, saved>>
    <3>1. download'.num = Head(to_client).num
      BY <2>1
    <3> QED BY <1>a, <1>b, <2>0, <2>1, <3>1
  <2>2. CASE DownloadOpen \/ DownloadBlock
    BY <1>b, <2>0, <2>2, DownloadGoesOn DEF DownloadPcs
  <2>3. CASE rpc = "dl_recv" /\ rpc' = "dl_link" /\ UNCHANGED <<download, local>>
    BY <1>b, <2>0, <2>3 DEF DownloadPcs
  <2>4. CASE /\ rpc = "dl_link" /\ rpc' = "dl_unlink"
             /\ local[download.name] = None
             /\ local' = [local EXCEPT ![download.name] = temp]
             /\ UNCHANGED <<download, temp, content, saved, to_client>>
    <3>1. temp = download.num
      BY <2>4 DEF WriteInv
    <3>2. \A n \in Names : local'[n] = local[n] \/ local'[n] = download.num
      BY <2>4, <3>1 DEF TypeOK
    <3> QED BY <1>b, <2>0, <2>4, <3>2 DEF DownloadPcs
  <2>5. CASE rpc' \notin DownloadPcs /\ local' = local
    BY <1>b, <2>0, <2>5 DEF DownloadPcs
  <2>6. \/ rpc' \notin DownloadPcs /\ local' = local
        \/ /\ rpc = "recv" /\ rpc' = "dl_open"
            /\ to_client # <<>> /\ to_client' = Tail(to_client)
            /\ Head(to_client).type = "DOWNLOAD_READY"
            /\ download' = [num |-> Head(to_client).num, name |-> Head(to_client).name,
                            size |-> Head(to_client).size, left |-> Head(to_client).size,
                            failed |-> FALSE]
            /\ UNCHANGED <<local, temp, content, saved>>
         \/ DownloadOpen
         \/ DownloadBlock
         \/ /\ rpc = "dl_recv" /\ rpc' = "dl_link" /\ UNCHANGED <<download, local>>
         \/ /\ rpc = "dl_link" /\ rpc' = "dl_unlink"
            /\ local[download.name] = None
            /\ local' = [local EXCEPT ![download.name] = temp]
            /\ UNCHANGED <<download, temp, content, saved, to_client>>
    BY <1>2, DownloadCases DEF DownloadPcs
  <2> QED BY <2>1, <2>2, <2>3, <2>4, <2>5, <2>6
<1>3. CASE Server \/ ServerCloses \/ Others
  <2>1. /\ UNCHANGED <<rpc, download>>
        /\ \A n \in Names : local'[n] \in Requests => local'[n] = local[n]
    BY <1>3, ServerTakes DEF TypeOK
  <2>2. rpc' \in {"dl_open", "dl_recv", "dl_link"} =>
           \A n \in Names : local'[n] \in Requests => local'[n] < download'.num
    BY <1>b, <2>1 DEF DownloadPcs
  <2>3. ASSUME NEW m \in Elements(to_client'), m.type = "DOWNLOAD_READY"
        PROVE  /\ 0 < m.num
               /\ \A n \in Names : local'[n] \in Requests => local'[n] < m.num
               /\ rpc' \in DownloadPcs => download'.num < m.num
    <3>1. CASE m \in Elements(to_client)
      BY <1>b, <2>1, <2>3, <3>1
    <3>2. CASE ReadsRequest(m.num)
      <4>1. 0 < m.num /\ \A x \in Past : x < m.num
        BY <3>2, ReadPast
      <4>2. download.num \in Past /\ \A n \in Names : local[n] \in Requests => local[n] \in Past
        BY PastParts
      <4> QED BY <2>1, <4>1, <4>2
    <3>3. m \in Elements(to_client) \/ ReadsRequest(m.num)
      BY <1>3, <2>3, ServerAdds DEF ReadsRequest
    <3> QED BY <3>1, <3>2, <3>3
  <2>4. ReadyIncreasing(to_client')
    <3>1. CASE to_client' = to_client
      BY <1>b, <3>1
    <3>2. ASSUME NEW x \in Items(ToClient), x.type \notin {"RAW", "DOWNLOAD_READY"},
                 to_client' = Append(to_client, x)
          PROVE  ReadyIncreasing(to_client')
      <4> DEFINE f == <<x>>
      <4>1. /\ to_client' = to_client \o f /\ f \in Seq(Items(ToClient))
            /\ Len(f) = 1 /\ f[1] = x
        BY <1>0, <3>2, AppendConcat
      <4> HIDE DEF f
      <4>2. \A i \in 2 .. Len(f) : f[i].type # "DOWNLOAD_READY"
        BY <4>1
      <4>3. f[1].type # "DOWNLOAD_READY"
        BY <3>2, <4>1
      <4> QED BY <1>0, <1>b, <4>1, <4>2, <4>3, ReadyConcat
    <3>3. ASSUME NEW f \in Seq(Items(ToClient)), NEW s \in Nat,
                 Len(f) = s + 1, f[1].type = "DOWNLOAD_READY", f[1].size = s,
                 \A i \in 2 .. s + 1 : f[i].type = "RAW",
                 ReadsRequest(f[1].num),
                 to_client' = to_client \o f
          PROVE  ReadyIncreasing(to_client')
      <4>1. \A i \in 2 .. Len(f) : f[i].type # "DOWNLOAD_READY"
        BY <3>3
      <4>2. \A m \in Elements(to_client) : m.num < f[1].num
        BY <3>3, ReadPast, PastParts
      <4> QED BY <1>0, <1>b, <3>3, <4>1, <4>2, ReadyConcat
    <3> QED BY <1>3, <3>1, <3>2, <3>3, ServerAppends
  <2> QED BY <1>b, <2>1, <2>2, <2>3, <2>4
<1>4. CASE Finished
  <2>1. UNCHANGED <<rpc, download, local, to_client>>
    BY <1>4 DEF Finished, vars, session, sending, receiving, disk, streams, server
  <2> QED BY <1>b, <2>1
<1> QED BY <1>1, <1>2, <1>3, <1>4 DEF Next

\* How far the data of the current download are from the head of the stream.
LEMMA FramedStep ==
  ASSUME TypeOK, NameInv, PhaseInv, WriteInv, FramedInv, Next
  PROVE  FramedInv'
<1>0. /\ to_client \in Seq(Items(ToClient)) /\ download.left \in Nat
      /\ NoDownload.left = 0
  BY DownloadFields, Constants DEF TypeOK, NoDownload
<1> SUFFICES ASSUME rpc' \notin {"stop", "dl_stop", "ended"}
             PROVE  Framed(to_client', download'.left)
  BY DEF FramedInv
<1>1. CASE User \/ Main
  <2>1. download' = download /\ rpc \notin {"stop", "dl_stop", "ended"}
    BY <1>1, MainTakes DEF PhaseInv
  <2>2. Framed(to_client, download.left)
    BY <2>1 DEF FramedInv
  <2>3. CASE to_client' = to_client
    BY <2>1, <2>2, <2>3
  <2>4. CASE /\ to_client # <<>> /\ to_client' = Tail(to_client)
             /\ mpc \in {"greet", "result"}
             /\ Head(to_client).type \notin {"RAW", "DOWNLOAD_READY"}
    <3>1. download.left = 0
      BY <2>4 DEF PhaseInv, WriteInv
    <3> QED BY <1>0, <2>1, <2>2, <2>4, <3>1, FramedTail
  <2> QED BY <1>1, <2>3, <2>4, MainTakes
<1>2. CASE Receiver
  <2>0. rpc \notin {"stop", "dl_stop", "ended"} => Framed(to_client, download.left)
    BY DEF FramedInv
  <2>1. CASE /\ rpc = "recv" /\ rpc' = "dl_open"
             /\ to_client # <<>> /\ to_client' = Tail(to_client)
             /\ Head(to_client).type = "DOWNLOAD_READY"
             /\ download' = [num |-> Head(to_client).num, name |-> Head(to_client).name,
                             size |-> Head(to_client).size, left |-> Head(to_client).size,
                             failed |-> FALSE]
    <3>1. download.left = 0 /\ download'.left = Head(to_client).size
      BY <2>1 DEF WriteInv
    <3> QED BY <1>0, <2>0, <2>1, <3>1, FramedTail
  <2>2. CASE DownloadOpen
    BY <2>0, <2>2, DownloadGoesOn
  <2>3. CASE DownloadBlock
    <3>1. /\ download'.left = download.left - 1 /\ download.left > 0
          /\ to_client # <<>> /\ to_client' = Tail(to_client) /\ rpc = "dl_recv"
      BY <2>3, DownloadGoesOn DEF DownloadBlock
    <3>2. Framed(to_client, download.left)
      BY <2>0, <3>1
    <3>3. Framed(Tail(to_client), download.left - 1)
      BY <1>0, <3>1, <3>2, FramedTail
    <3> QED BY <3>1, <3>3
  <2>4. CASE /\ rpc \in {"dl_recv", "dl_link"}
             /\ UNCHANGED <<download, to_client>>
    BY <2>0, <2>4
  <2>5. CASE /\ rpc \in {"dl_recv", "dl_link", "dl_unlink"} /\ download' = NoDownload
             /\ rpc = "dl_recv" => download.left = 0
             /\ UNCHANGED to_client
    <3>1. download.left = 0
      BY <2>5 DEF WriteInv
    <3> QED BY <1>0, <2>0, <2>5, <3>1
  <2>6. CASE /\ rpc = "recv"
             /\ to_client # <<>> /\ to_client' = Tail(to_client)
             /\ Head(to_client).type \notin {"RAW", "DOWNLOAD_READY"}
             /\ UNCHANGED download
    <3>1. download.left = 0
      BY <2>6 DEF WriteInv
    <3> QED BY <1>0, <2>0, <2>6, <3>1, FramedTail
  <2>7. CASE rpc \in {"loop", "recv"} /\ UNCHANGED <<download, to_client>>
    BY <2>0, <2>7
  <2>8. CASE rpc \in {"stop", "dl_stop"}
    BY <1>2, <2>8 DEF Receiver, ReceiverLoop, ReceiveUploadAnswer, ReceiveMessage,
       ReceiveDownloadReady, ConnectionLost, ReceiverStop, DownloadOpen, DownloadBlock,
       DownloadLost, DownloadClose, DownloadLink, DownloadReturn
  <2>9. \/ /\ rpc = "recv" /\ rpc' = "dl_open"
            /\ to_client # <<>> /\ to_client' = Tail(to_client)
            /\ Head(to_client).type = "DOWNLOAD_READY"
            /\ download' = [num |-> Head(to_client).num, name |-> Head(to_client).name,
                            size |-> Head(to_client).size, left |-> Head(to_client).size,
                            failed |-> FALSE]
        \/ DownloadOpen
        \/ DownloadBlock
        \/ rpc \in {"dl_recv", "dl_link"} /\ UNCHANGED <<download, to_client>>
        \/ /\ rpc \in {"dl_recv", "dl_link", "dl_unlink"} /\ download' = NoDownload
           /\ rpc = "dl_recv" => download.left = 0
           /\ UNCHANGED to_client
        \/ /\ rpc = "recv"
           /\ to_client # <<>> /\ to_client' = Tail(to_client)
           /\ Head(to_client).type \notin {"RAW", "DOWNLOAD_READY"}
           /\ UNCHANGED download
        \/ rpc \in {"loop", "recv"} /\ UNCHANGED <<download, to_client>>
        \/ rpc \in {"stop", "dl_stop"}
    BY <1>2, DownloadCases
  <2> QED BY <2>1, <2>2, <2>3, <2>4, <2>5, <2>6, <2>7, <2>8, <2>9
<1>3. CASE Server \/ ServerCloses \/ Others
  <2>1. UNCHANGED <<rpc, download>>
    BY <1>3, ServerTakes
  <2>2. Framed(to_client, download.left)
    BY <2>1 DEF FramedInv
  <2>3. CASE to_client' = to_client
    BY <2>1, <2>2, <2>3
  <2>4. ASSUME NEW x \in Items(ToClient), x.type \notin {"RAW", "DOWNLOAD_READY"},
               to_client' = Append(to_client, x)
        PROVE  Framed(to_client', download'.left)
    BY <1>0, <2>1, <2>2, <2>4, FramedAppend
  <2>5. ASSUME NEW f \in Seq(Items(ToClient)), NEW s \in Nat,
               Len(f) = s + 1, f[1].type = "DOWNLOAD_READY", f[1].size = s,
               \A i \in 2 .. s + 1 : f[i].type = "RAW",
               to_client' = to_client \o f
        PROVE  Framed(to_client', download'.left)
    BY <1>0, <2>1, <2>2, <2>5, FramedFile
  <2> QED BY <1>3, <2>3, <2>4, <2>5, ServerAppends
<1>4. CASE Finished
  BY <1>4 DEF Finished, vars, receiving, disk, streams, FramedInv
<1> QED BY <1>1, <1>2, <1>3, <1>4 DEF Next

\* A file is written only while its download is under way.
LEMMA ContentChanges ==
  ASSUME TypeOK, Next
  PROVE  /\ content' = content \/ rpc \in {"dl_open", "dl_recv"}
         /\ \A k \in LocalFiles : k # download.num => content'[k] = content[k]
<1> USE DEF session, sending, receiving, disk, streams, server
<1>1. CASE User \/ Main
  BY <1>1, MainTakes
<1>2. CASE Server \/ ServerCloses \/ Others
  BY <1>2, ServerTakes
<1>3. CASE Finished
  BY <1>3 DEF Finished, vars
<1>4. CASE Receiver
  <2>1. \/ content' = content
        \/ /\ rpc \in {"dl_open", "dl_recv"}
           /\ \/ content' = [content EXCEPT ![download.num] = [size |-> download.size, len |-> 0]]
              \/ content' = [content EXCEPT ![download.num].len = @ + 1]
    BY <1>4, DownloadCases DEF DownloadOpen, DownloadBlock, OpenTemp, OpenFails
  <2>2. \A k \in LocalFiles : k # download.num => content'[k] = content[k]
    BY <2>1 DEF TypeOK
  <2> QED BY <2>1, <2>2
<1> QED BY <1>1, <1>2, <1>3, <1>4 DEF Next

\* A write of the open download.
LEMMA BlockWritten ==
  ASSUME TypeOK, WriteInv, DownloadBlock, ~download'.failed
  PROVE  /\ temp' = temp /\ temp = download.num
         /\ content'[download.num] =
               [size |-> download.size, len |-> download.size - (download.left - 1)]
<1>1. download \in [num : Requests, name : Names \union {None}, size : Sizes,
                    left : Sizes, failed : BOOLEAN]
      /\ content \in [LocalFiles -> [size : Sizes, len : Sizes]]
  BY DEF TypeOK
<1>2. AfterBlock(download, TRUE).failed = TRUE
  BY <1>1 DEF AfterBlock
<1>a. download' # AfterBlock(download, TRUE)
  BY <1>2
<1>3. /\ ~download.failed /\ temp' = temp /\ rpc = "dl_recv"
      /\ content' = [content EXCEPT ![download.num].len = @ + 1]
  <2>1. ~download.failed /\ content' = [content EXCEPT ![download.num].len = @ + 1]
    BY <1>a, Zenon DEF DownloadBlock
  <2>2. temp' = temp /\ rpc = "dl_recv"
    BY DEF DownloadBlock
  <2> QED BY <2>1, <2>2
<1>4. temp = download.num
      /\ content[download.num] =
            [size |-> download.size, len |-> download.size - download.left]
  BY <1>3 DEF WriteInv
<1>5. download.num \in Requests /\ download.size \in Nat /\ download.left \in Nat
  BY <1>1, Constants
<1>6. content'[download.num] = [content[download.num] EXCEPT !.len = @ + 1]
  BY <1>1, <1>3, <1>5, ConstantSets
<1>7. (download.size - download.left) + 1 = download.size - (download.left - 1)
  BY <1>5
<1>8. content'[download.num] =
          [size |-> download.size, len |-> (download.size - download.left) + 1]
  BY <1>4, <1>6
<1> QED BY <1>3, <1>4, <1>7, <1>8

LEMMA WriteStep ==
  ASSUME TypeOK, PhaseInv, NameInv, WriteInv, FreshInv, Next
  PROVE  WriteInv'
<1>0. /\ content \in [LocalFiles -> [size : Sizes, len : Sizes]]
      /\ local \in [Names -> LocalFiles \union {None}]
      /\ download \in [num : Requests, name : Names \union {None}, size : Sizes,
                       left : Sizes, failed : BOOLEAN]
      /\ download.num \in Requests /\ download.size \in Nat /\ download.left \in Nat
  BY DownloadFields, Constants DEF TypeOK
<1>w. /\ \A k \in LocalFiles : k \notin 1 .. MaxCommands =>
            content[k].len = content[k].size
      /\ download.left <= download.size
      /\ rpc \notin {"dl_open", "dl_recv"} => download.left = 0
      /\ rpc = "dl_open" => download.left = download.size
      /\ rpc = "dl_link" => ~download.failed
      /\ rpc \in {"dl_recv", "dl_link"} /\ ~download.failed =>
           /\ temp = download.num
           /\ content[download.num] =
                 [size |-> download.size, len |-> download.size - download.left]
      /\ rpc = "dl_unlink" =>
           /\ local[download.name] = download.num
           /\ content[download.num] = [size |-> download.size, len |-> download.size]
  BY DEF WriteInv
<1>a. \A k \in LocalFiles : k \notin 1 .. MaxCommands =>
          content'[k].len = content'[k].size
  <2>1. CASE content' = content
    BY <1>w, <2>1
  <2>2. CASE rpc \in {"dl_open", "dl_recv"}
    <3>1. download.num \in 1 .. MaxCommands
      BY <1>0, <2>2, Constants DEF FreshInv, DownloadPcs, Requests
    <3> QED BY <1>w, <3>1, ContentChanges
  <2> QED BY <2>1, <2>2, ContentChanges
<1>b. /\ NoDownload.left = 0 /\ NoDownload.size = 0
  BY DEF NoDownload
<1> SUFFICES
      /\ download'.left <= download'.size
      /\ rpc' \notin {"dl_open", "dl_recv"} => download'.left = 0
      /\ rpc' = "dl_open" => download'.left = download'.size
      /\ rpc' = "dl_link" => ~download'.failed
      /\ rpc' \in {"dl_recv", "dl_link"} /\ ~download'.failed =>
           /\ temp' = download'.num
           /\ content'[download'.num] =
                 [size |-> download'.size, len |-> download'.size - download'.left]
      /\ rpc' = "dl_unlink" =>
           /\ local'[download'.name] = download'.num
           /\ content'[download'.num] = [size |-> download'.size, len |-> download'.size]
  BY <1>a DEF WriteInv
<1>1. CASE User \/ Main
  <2>1. UNCHANGED <<download, local, temp, content>>
    BY <1>1, MainTakes
  <2>2. CASE rpc' = rpc
    BY <1>w, <2>1, <2>2
  <2>3. CASE rpc' = "loop" /\ mpc = "result"
    <3>1. download.left = 0
      BY <1>w, <2>3 DEF PhaseInv
    <3> QED BY <1>w, <2>1, <2>3, <3>1
  <2> QED BY <1>1, <2>2, <2>3, MainTakes
<1>2. CASE Receiver
  <2>1. CASE /\ rpc' = "dl_open"
             /\ download' = [num |-> Head(to_client).num, name |-> Head(to_client).name,
                             size |-> Head(to_client).size, left |-> Head(to_client).size,
                             failed |-> FALSE]
             /\ to_client # <<>>
    <3>1. download'.left = download'.size /\ download'.size = Head(to_client).size
      BY <2>1
    <3>2. Head(to_client).size \in Nat
      <4>1. Head(to_client) \in Items(ToClient)
        BY <2>1, TailElements DEF TypeOK
      <4> QED BY <4>1, Constants DEF Items
    <3> QED BY <2>1, <3>1, <3>2
  <2>2. CASE DownloadOpen
    <3>1. /\ download'.num = download.num /\ download'.size = download.size
          /\ download'.left = download.left /\ rpc = "dl_open" /\ rpc' = "dl_recv"
      BY <2>2, DownloadGoesOn DEF DownloadOpen
    <3>2. ASSUME ~download'.failed
          PROVE  /\ temp' = download.num
                 /\ content'[download.num] = [size |-> download.size, len |-> 0]
      <4>1. [download EXCEPT !.failed = TRUE].failed = TRUE
        BY <1>0
      <4>2. download' # [download EXCEPT !.failed = TRUE]
        BY <3>2, <4>1
      <4>3. OpenTemp
        BY <2>2, <4>2 DEF DownloadOpen, OpenFails
      <4> QED BY <1>0, <4>3, ConstantSets DEF OpenTemp
    <3>3. download.left = download.size /\ download.size - download.left = 0
      BY <1>0, <1>w, <3>1
    <3> QED BY <1>w, <3>1, <3>2, <3>3
  <2>3. CASE DownloadBlock
    <3>1. /\ download'.num = download.num /\ download'.size = download.size
          /\ download'.left = download.left - 1 /\ rpc' = "dl_recv" /\ download.left > 0
      BY <2>3, DownloadGoesOn
    <3>2. download'.left <= download'.size
      BY <1>0, <1>w, <3>1
    <3>3. ~download'.failed =>
             /\ temp' = download.num
             /\ content'[download.num] =
                  [size |-> download.size, len |-> download.size - (download.left - 1)]
      BY <2>3, BlockWritten
    <3> QED BY <3>1, <3>2, <3>3
  <2>4. CASE /\ rpc = "dl_recv" /\ rpc' = "dl_link"
             /\ download.left = 0 /\ ~download.failed
             /\ UNCHANGED <<download, local, temp, content, saved, to_client>>
    BY <1>w, <2>4
  <2>5. CASE /\ rpc = "dl_link" /\ rpc' = "dl_unlink"
             /\ local[download.name] = None
             /\ local' = [local EXCEPT ![download.name] = temp]
             /\ UNCHANGED <<download, temp, content, saved, to_client>>
    <3>1. download.left = 0 /\ download.size - download.left = download.size
      BY <1>0, <1>w, <2>5
    <3>2. /\ temp = download.num
          /\ content[download.num] =
                [size |-> download.size, len |-> download.size - download.left]
      BY <1>w, <2>5
    <3>3. download.name \in Names
      BY <2>5 DEF NameInv, DownloadPcs
    <3>4. local'[download.name] = download.num
      BY <1>0, <2>5, <3>2, <3>3
    <3> QED BY <1>w, <2>5, <3>1, <3>2, <3>4
  <2>6. CASE rpc' \in {"loop", "dl_stop"} /\ download' = NoDownload
    BY <1>b, <2>6
  <2>7. CASE /\ rpc \in {"recv", "loop", "stop", "dl_stop"}
             /\ rpc' \in {"loop", "ended", "recv", "stop"}
             /\ UNCHANGED <<download, local, temp, content, saved>>
    BY <1>w, <2>7
  <2>8. CASE /\ rpc = "dl_unlink" /\ rpc' = "loop" /\ download' = NoDownload
    BY <1>b, <2>8
  <2> QED BY <1>2, <2>1, <2>2, <2>3, <2>4, <2>5, <2>6, <2>7, <2>8, DownloadCases
<1>3. CASE Server \/ ServerCloses \/ Others
  <2>1. /\ UNCHANGED <<rpc, download, temp, content>>
        /\ \/ local' = local
           \/ \E n \in Names, f \in LocalFiles \ Requests :
                   local[n] = None /\ local' = [local EXCEPT ![n] = f]
    BY <1>3, ServerTakes
  <2>2. rpc = "dl_unlink" => local'[download.name] = local[download.name]
    <3> SUFFICES ASSUME rpc = "dl_unlink" PROVE local'[download.name] = local[download.name]
      OBVIOUS
    <3>1. local[download.name] # None /\ download.name \in Names
      BY <1>0, <1>w, Constants DEF NameInv, DownloadPcs
    <3> QED BY <1>0, <2>1, <3>1
  <2> QED BY <1>w, <2>1, <2>2
<1>4. CASE Finished
  <2>1. UNCHANGED <<rpc, download, temp, content, local>>
    BY <1>4 DEF Finished, vars, receiving, disk
  <2> QED BY <1>w, <2>1
<1> QED BY <1>1, <1>2, <1>3, <1>4 DEF Next

\* What is in the download directory stays as it is.
LEMMA LocalKeptStep ==
  ASSUME TypeOK, NameInv, WriteInv, FreshInv, Next, NEW n \in Names, local[n] # None
  PROVE  local'[n] = local[n] /\ content'[local[n]] = content[local[n]]
<1>0. local \in [Names -> LocalFiles \union {None}] /\ local[n] \in LocalFiles
  BY DEF TypeOK
<1>1. \/ local' = local
      \/ \E x \in Names, f \in LocalFiles \ Requests :
             local[x] = None /\ local' = [local EXCEPT ![x] = f]
      \/ local[download.name] = None /\ local' = [local EXCEPT ![download.name] = temp]
  <2>1. CASE User \/ Main
    BY <2>1, MainTakes
  <2>2. CASE Receiver
    BY <2>2, DownloadCases, DownloadGoesOn
  <2>3. CASE Server \/ ServerCloses \/ Others
    BY <2>3, ServerTakes
  <2>4. CASE Finished
    BY <2>4 DEF Finished, vars, receiving, disk
  <2> QED BY <2>1, <2>2, <2>3, <2>4 DEF Next
<1>2. local'[n] = local[n]
  BY <1>0, <1>1
<1>3. CASE content' = content
  BY <1>2, <1>3
<1>4. CASE rpc \in {"dl_open", "dl_recv"}
  <2>1. local[n] \in Requests => local[n] < download.num
    BY <1>4 DEF FreshInv
  <2>2. local[n] # download.num
    <3>1. local[n] \in Nat /\ download.num \in Nat /\ download.num \in Requests
      BY <1>0, DownloadFields, ConstantSets
    <3> QED BY <2>1, <3>1
  <2> QED BY <1>0, <1>2, <2>2, ContentChanges
<1> QED BY <1>3, <1>4, ContentChanges

\* What is new in the download directory is complete.
LEMMA LocalNew ==
  ASSUME TypeOK, NameInv, WriteInv, WriteInv', Next,
         NEW n \in Names, local[n] = None, local'[n] # None
  PROVE  content'[local'[n]].len = content'[local'[n]].size
<1>0. local \in [Names -> LocalFiles \union {None}]
  BY DEF TypeOK
<1>1. CASE User \/ Main \/ Finished
  BY <1>1, MainTakes DEF Finished, vars, receiving, disk
<1>2. CASE Receiver
  <2>1. CASE local' = local
    BY <2>1
  <2>2. CASE /\ rpc = "dl_link" /\ rpc' = "dl_unlink"
             /\ local' = [local EXCEPT ![download.name] = temp]
             /\ UNCHANGED download
    <3>1. local'[n] = temp /\ temp = download.num
      BY <1>0, <2>2 DEF WriteInv
    <3>2. content'[download.num] = [size |-> download.size, len |-> download.size]
      BY <2>2 DEF WriteInv
    <3> QED BY <3>1, <3>2
  <2> QED BY <1>2, <2>1, <2>2, DownloadCases, DownloadGoesOn
<1>3. CASE Server \/ ServerCloses \/ Others
  <2>1. local'[n] \in LocalFiles \ Requests
    BY <1>0, <1>3, ServerTakes
  <2> QED BY <2>1, ConstantSets DEF WriteInv
<1> QED BY <1>1, <1>2, <1>3 DEF Next

LEMMA LocalStep ==
  ASSUME TypeOK, NameInv, WriteInv, WriteInv', FreshInv, LocalComplete, DownloadTruth, Next
  PROVE  LocalComplete' /\ DownloadTruth'
<1>1. LocalComplete'
  <2> SUFFICES ASSUME NEW n \in Names, local'[n] # None
               PROVE  content'[local'[n]].len = content'[local'[n]].size
    BY DEF LocalComplete
  <2>1. CASE local[n] = None
    BY <2>1, LocalNew
  <2>2. CASE local[n] # None
    BY <2>2, LocalKeptStep DEF LocalComplete
  <2> QED BY <2>1, <2>2
<1>2. DownloadTruth'
  <2> SUFFICES ASSUME NEW f \in saved'
               PROVE  local'[f.name] = f.num
                      /\ content'[f.num] = [size |-> f.size, len |-> f.size]
    BY DEF DownloadTruth
  <2>1. CASE f \in saved
    <3>1. f.name \in Names /\ f.num \in Requests
      BY <2>1 DEF NameInv, TypeOK, Files
    <3>2. local[f.name] = f.num /\ content[f.num] = [size |-> f.size, len |-> f.size]
      BY <2>1 DEF DownloadTruth
    <3>3. local[f.name] # None
      BY <3>1, <3>2, Constants
    <3> QED BY <3>1, <3>2, <3>3, LocalKeptStep
  <2>2. CASE f \notin saved
    <3>1. /\ rpc = "dl_unlink" /\ f = File(download.num, download.name, download.size)
          /\ UNCHANGED <<local, content>>
      <4>1. CASE User \/ Main \/ Finished
        BY <2>2, <4>1, MainTakes DEF Finished, vars, receiving
      <4>2. CASE Server \/ ServerCloses \/ Others
        BY <2>2, <4>2, ServerTakes
      <4>3. CASE Receiver
        BY <2>2, <4>3, DownloadCases, DownloadGoesOn
      <4> QED BY <4>1, <4>2, <4>3 DEF Next
    <3>2. f.num = download.num /\ f.name = download.name /\ f.size = download.size
      BY <3>1 DEF File
    <3> QED BY <3>1, <3>2 DEF WriteInv
  <2> QED BY <2>1, <2>2
<1> QED BY <1>1, <1>2

-----------------------------------------------------------------------------
(* The invariant of downloads.                                             *)

LEMMA InitHolds ==
  ASSUME Init
  PROVE  TypeOK /\ DownloadInv
<1>0. /\ to_client = <<>> /\ to_server = <<>>
      /\ Elements(to_client) = {} /\ Elements(to_server) = {}
      /\ Len(to_client) = 0 /\ Len(to_server) = 0
  BY EmptyElements DEF Init
<1>a. NoItem \in Items(ToClient) /\ NoItem.num = 0
  BY Constants DEF NoItem, Item, Items, ToClient
<1>b. NoFile \in Files /\ NoFile.num = 0
  BY Constants DEF NoFile, File, Files
<1>c. NoDownload \in [num : Requests, name : Names \union {None}, size : Sizes,
                      left : Sizes, failed : BOOLEAN]
      /\ NoDownload.num = 0 /\ NoDownload.left = 0 /\ NoDownload.size = 0
  BY Constants DEF NoDownload
<1>d. \A n \in Names : /\ local[n] = None \/ local[n] = 0
                       /\ shared[n] = None \/ shared[n].num = 0
  BY DEF Init, File
<1>1. TypeOK
  <2>1. ThreadTypes /\ SessionTypes /\ SendingTypes /\ CountTypes
    <3>1. ThreadTypes
      BY DEF Init, ThreadTypes, MainPcs, ReceiverPcs
    <3>2. SessionTypes
      BY <1>a DEF Init, SessionTypes
    <3>3. SendingTypes
      BY <1>a, <1>b, Constants DEF Init, SendingTypes
    <3>4. CountTypes
      BY Constants DEF Init, CountTypes
    <3> QED BY <3>1, <3>2, <3>3, <3>4
  <2>2. StreamTypes
    BY <1>0 DEF StreamTypes
  <2>3. ReceivingTypes
    <3>1. local \in [Names -> LocalFiles \union {None}]
      BY ConstantSets DEF Init
    <3>2. content \in [LocalFiles -> [size : Sizes, len : Sizes]]
      BY Constants DEF Init
    <3>3. temp \in Requests \union {None} /\ saved \subseteq Files
      BY Constants DEF Init
    <3> QED BY <1>c, <3>1, <3>2, <3>3 DEF Init, ReceivingTypes
  <2>4. ServerTypes
    <3>1. \A n \in Names, k \in Sizes : File(0, n, k) \in Files
      BY Constants, FileTypes
    <3>2. shared \in [Names -> Files \union {None}]
      BY <3>1, Constants DEF Init, Sizes
    <3> QED BY <1>b, <3>2, Constants DEF Init, ServerTypes
  <2> QED BY <2>1, <2>2, <2>3, <2>4, TypeParts
<1>2. PhaseInv /\ NameInv
  BY <1>0 DEF Init, PhaseInv, NameInv, DownloadPcs, Uploading
<1>3. OrderInv
  <2>1. \A k \in Past : k = 0
    <3>1. response.num = 0 /\ answer.num = 0 /\ srv_upload.num = 0
          /\ download.num = 0 /\ outcome = {}
      BY <1>a, <1>b, <1>c DEF Init
    <3>2. \A n \in Names : local[n] \in Requests => local[n] = 0
      BY <1>d, Constants
    <3> QED BY <1>0, <1>d, <3>1, <3>2, PastParts
  <2>2. Issued = 0 /\ mpc \notin {"up_lock", "up_meta"}
    BY DEF Init, Issued
  <2>3. Increasing(to_server)
    BY <1>0 DEF Increasing
  <2> QED BY <1>0, <2>1, <2>2, <2>3 DEF OrderInv, PastUpTo
<1>4. FreshInv
  <2>1. ReadyIncreasing(to_client)
    BY <1>0 DEF ReadyIncreasing
  <2> QED BY <1>0, <2>1 DEF Init, FreshInv, DownloadPcs
<1>5. WriteInv
  BY <1>c, Constants DEF Init, WriteInv
<1>6. FramedInv
  BY <1>0, <1>c DEF Init, FramedInv, Framed
<1>7. LocalComplete
  <2>1. content[0].len = content[0].size
    BY ConstantSets DEF Init
  <2> QED BY <1>d, <2>1 DEF LocalComplete
<1>8. DownloadTruth
  BY DEF Init, DownloadTruth
<1> QED BY <1>1, <1>2, <1>3, <1>4, <1>5, <1>6, <1>7, <1>8 DEF DownloadInv

LEMMA TypeStep ==
  ASSUME TypeOK, NameInv, WriteInv, Next
  PROVE  TypeOK'
<1>1. CASE User \/ Main
  BY <1>1, LoginTypes, InputTypes, UploadTypes, ConstantSets DEF User, Main
<1>2. CASE Receiver
  BY <1>2, ReceiverTypes, DownloadTypes DEF Receiver
<1>3. CASE Server \/ ServerCloses \/ Others
  BY <1>3, ServerStepTypes
<1>4. CASE Finished
  <2>1. UNCHANGED vars
    BY <1>4 DEF Finished
  <2> QED BY <2>1 DEF vars, session, sending, receiving, disk, streams, server, TypeOK
<1> QED BY <1>1, <1>2, <1>3, <1>4 DEF Next

LEMMA DownloadStep ==
  ASSUME TypeOK, DownloadInv, [Next]_vars
  PROVE  TypeOK' /\ DownloadInv'
<1> USE DEF DownloadInv
<1>1. CASE Next
  <2>1. TypeOK' /\ PhaseInv' /\ NameInv' /\ OrderInv'
    BY <1>1, TypeStep, PhaseStep, NameStep, OrderStep
  <2>2. FreshInv' /\ WriteInv' /\ FramedInv'
    BY <1>1, FreshStep, WriteStep, FramedStep
  <2>3. LocalComplete' /\ DownloadTruth'
    BY <1>1, <2>2, LocalStep
  <2> QED BY <2>1, <2>2, <2>3
<1>2. CASE UNCHANGED vars
  <2>1. TypeOK'
    BY <1>2 DEF vars, session, sending, receiving, disk, streams, server, TypeOK
  <2>2. PhaseInv' /\ NameInv' /\ OrderInv'
    BY <1>2 DEF vars, session, sending, receiving, disk, streams, server, PhaseInv,
       NameInv, Uploading, OrderInv, PastUpTo, Past, Issued
  <2>3. FreshInv' /\ WriteInv' /\ FramedInv' /\ LocalComplete' /\ DownloadTruth'
    BY <1>2 DEF vars, session, sending, receiving, disk, streams, server, FreshInv,
       WriteInv, FramedInv, LocalComplete, DownloadTruth
  <2> QED BY <2>1, <2>2, <2>3
<1> QED BY <1>1, <1>2

\* The inductive invariant of the two streams, the numbers of requests and
\* the download directory.
THEOREM DownloadInvariant == Spec => [](TypeOK /\ DownloadInv)
  BY InitHolds, DownloadStep, PTL DEF Spec

\* Every variable of the client keeps its type: no download counts below zero
\* or writes more blocks than DOWNLOAD_READY announced.
THEOREM ClientTypes == Spec => []TypeOK
  BY DownloadInvariant, PTL

\* Every file under a name of the download directory is complete:
\* download_client_handle_server_message links only what it has written to the
\* last block.
THEOREM LocalFilesComplete == Spec => []LocalComplete
<1>1. DownloadInv => LocalComplete
  BY DEF DownloadInv
<1> QED BY <1>1, DownloadInvariant, PTL

\* A download that is reported as saved is in the directory under its name
\* with the announced size.
THEOREM DownloadsTrue == Spec => []DownloadTruth
<1>1. DownloadInv => DownloadTruth
  BY DEF DownloadInv
<1> QED BY <1>1, DownloadInvariant, PTL

\* The receiver reads frames where the server sends frames and data where it
\* sends data, whatever fails on the local disk.
THEOREM DownloadStreamAgreed == Spec => []DownloadsInStep
<1>1. TypeOK /\ DownloadInv => DownloadsInStep
  <2> SUFFICES ASSUME TypeOK, DownloadInv, to_client # <<>>
               PROVE  /\ rpc \in {"loop", "recv"} => Head(to_client).type # "RAW"
                      /\ rpc = "dl_recv" /\ download.left > 0 =>
                            Head(to_client).type = "RAW"
    BY DEF DownloadsInStep
  <2>1. to_client \in Seq(Items(ToClient)) /\ download.left \in Nat
    BY DownloadFields, Constants DEF TypeOK
  <2>2. CASE rpc \in {"loop", "recv"}
    <3>1. Framed(to_client, 0)
      BY <2>2 DEF DownloadInv, FramedInv, WriteInv
    <3> QED BY <2>1, <2>2, <3>1, FramedTail
  <2>3. CASE rpc = "dl_recv" /\ download.left > 0
    <3>1. Framed(to_client, download.left)
      BY <2>3 DEF DownloadInv, FramedInv
    <3> QED BY <2>1, <2>3, <3>1, FramedTail
  <2> QED BY <2>2, <2>3
<1> QED BY <1>1, DownloadInvariant, PTL

\* No download replaces a file of the download directory or writes into it,
\* not even through the temporary name.
THEOREM LocalFilesKept == Spec => LocalKept
<1>1. TypeOK /\ DownloadInv /\ [Next]_vars =>
        [\A n \in Names : local[n] # None =>
           local'[n] = local[n] /\ content'[local[n]] = content[local[n]]]_vars
  BY LocalKeptStep DEF DownloadInv
<1> QED BY <1>1, DownloadInvariant, PTL DEF Spec, LocalKept
=============================================================================
