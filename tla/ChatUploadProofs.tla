--------------------------- MODULE ChatUploadProofs ---------------------------
EXTENDS ChatClientProofs

(***************************************************************************)
(* Proofs about uploads: what an upload reports is what the server did,    *)
(* and both ends agree on where the frames and where the data are, as      *)
(* long as no upload takes the answer to another request for its own.      *)
(***************************************************************************)

-----------------------------------------------------------------------------
(* The steps of the input thread, from the side of the upload.             *)

\* The input thread does something that is not about an upload.
Elsewhere ==
    /\ mpc \notin {"up_lock", "up_meta", "up_wait", "up_refused", "up_start",
                   "up_data", "up_final", "up_idle"}
    /\ mpc' \notin {"up_lock", "up_meta", "up_wait", "up_refused", "up_start",
                    "up_data", "up_final", "up_idle"}
    /\ UNCHANGED <<upload, unsent, answer, outcome>>
    /\ UNCHANGED <<response_available, response>>

\* The upload returns -1.
GivesUp ==
    /\ mpc \in {"up_meta", "up_wait", "up_data", "up_final"}
    /\ UploadLost
    /\ UNCHANGED <<upload, unsent, answer, response_available, response, to_server>>

\* The upload takes the answer in the response slot.
TakesAnswer ==
    /\ response_available /\ response_available' = FALSE
    /\ answer' = response
    /\ UNCHANGED <<upload, unsent, outcome, response, to_server>>

LEMMA UploadCases ==
  ASSUME TypeOK, User \/ Main
  PROVE  \/ Elsewhere
         \/ /\ mpc = "input" /\ mpc' = "up_lock" /\ ncmd' = ncmd + 1
            /\ \E n \in Names, k \in Sizes : upload' = File(ncmd', n, k)
            /\ UNCHANGED <<unsent, answer, outcome, response_available, response, to_server>>
         \/ /\ mpc = "up_lock" /\ mpc' = "up_meta" /\ response_available' = FALSE
            /\ UNCHANGED <<upload, unsent, answer, outcome, response, to_server>>
         \/ /\ mpc = "up_meta" /\ mpc' = "up_wait"
            /\ SendDone(Item("upload", upload.num, upload.name, upload.size))
            /\ UNCHANGED <<upload, unsent, answer, outcome, response_available, response>>
         \/ GivesUp
         \/ mpc = "up_wait" /\ mpc' = "up_start" /\ TakesAnswer /\ IsReady(response)
         \/ mpc = "up_wait" /\ mpc' = "up_refused" /\ TakesAnswer /\ ~IsReady(response)
         \/ /\ mpc = "up_refused" /\ mpc' = "loop" /\ Returned(1, answer.num)
            /\ UNCHANGED <<upload, unsent, answer, response_available, response, to_server>>
         \/ /\ mpc = "up_start" /\ mpc' = "up_data" /\ unsent' = upload.size
            /\ response_available' = FALSE
            /\ UNCHANGED <<upload, answer, outcome, response, to_server>>
         \/ /\ mpc = "up_data" /\ mpc' = "up_data" /\ unsent > 0 /\ unsent' = unsent - 1
            /\ SendDone(Raw(upload.num))
            /\ UNCHANGED <<upload, answer, outcome, response_available, response>>
         \/ /\ mpc = "up_data" /\ mpc' = "up_final" /\ unsent = 0
            /\ UNCHANGED <<upload, unsent, answer, outcome, response_available, response,
                           to_server>>
         \/ mpc = "up_final" /\ mpc' = "up_idle" /\ TakesAnswer
         \/ /\ mpc = "up_idle" /\ mpc' = "loop" /\ Returned(Status(answer), answer.num)
            /\ UNCHANGED <<upload, unsent, answer, response_available, response, to_server>>
<1> USE DEF session, sending, receiving, disk, streams, server
<1>1. CASE User
  <2>1. CASE \E n \in Names, k \in Sizes : Upload(n, k)
    BY <2>1 DEF Upload, Type, Elsewhere
  <2>2. CASE ~\E n \in Names, k \in Sizes : Upload(n, k)
    BY <1>1, <2>2, ConstantSets DEF User, Ask, Download, Quit, InputEnds, TypeTooLate, EnterUsername,
       SendRequest, Type, GiveUp, ExitFailure, Elsewhere
  <2> QED BY <2>1, <2>2
<1>2. CASE connect_to_server \/ ReceiveGreeting \/ ReceiveLoginResult \/ InputLoop \/ Join
  BY <1>2 DEF connect_to_server, ReceiveGreeting, ReceiveLoginResult, InputLoop, Join,
     ExitFailure, Elsewhere
<1>3. CASE UploadLock
  BY <1>3 DEF UploadLock
<1>4. CASE UploadSendMetadata
  BY <1>4 DEF UploadSendMetadata, GivesUp
<1>5. CASE UploadWaitReady
  BY <1>5 DEF UploadWaitReady, GivesUp, TakesAnswer, ResponseTaken
<1>6. CASE UploadRefused
  BY <1>6 DEF UploadRefused
<1>7. CASE UploadStart
  BY <1>7 DEF UploadStart
<1>8. CASE UploadBlock
  BY <1>8 DEF UploadBlock, GivesUp
<1>9. CASE UploadSent
  BY <1>9 DEF UploadSent
<1>10. CASE UploadWaitResult
  BY <1>10 DEF UploadWaitResult, GivesUp, TakesAnswer, ResponseTaken
<1>11. CASE UploadReturn
  BY <1>11 DEF UploadReturn
<1> QED BY <1>1, <1>2, <1>3, <1>4, <1>5, <1>6, <1>7, <1>8, <1>9, <1>10, <1>11 DEF Main

LEMMA FileParts ==
  ASSUME NEW f \in Files
  PROVE  /\ f.num \in Nat /\ f.size \in Nat /\ f.name \in Names \union {None}
         /\ f = File(f.num, f.name, f.size)
  BY Constants DEF Files, File

LEMMA UploadShapes ==
  ASSUME TypeOK
  PROVE  /\ upload \in Files /\ srv_upload \in Files
         /\ upload.num \in Nat /\ srv_upload.num \in Nat
         /\ upload.size \in Nat /\ srv_left \in Nat /\ unsent \in Nat
         /\ response.num \in Nat /\ answer.num \in Nat
         /\ to_client \in Seq(Items(ToClient)) /\ to_server \in Seq(Items(ToServer))
         /\ \A m \in Elements(to_client) : m.num \in Nat
         /\ \A m \in Elements(to_server) : m.num \in Nat
<1>1. /\ upload \in Files /\ srv_upload \in Files /\ srv_left \in Nat /\ unsent \in Nat
      /\ response \in Items(ToClient) /\ answer \in Items(ToClient)
      /\ to_client \in Seq(Items(ToClient)) /\ to_server \in Seq(Items(ToServer))
  BY Constants DEF TypeOK
<1>2. response.num \in Nat /\ answer.num \in Nat
  BY <1>1, Constants DEF Items
<1>3. \A m \in Elements(to_client) : m.num \in Nat
  BY <1>1, ClientItems
<1>4. \A m \in Elements(to_server) : m.num \in Nat
  <2>1. \A m \in Elements(to_server) : m \in Items(ToServer)
    BY <1>1 DEF Elements
  <2> QED BY <2>1, Constants DEF Items
<1> QED BY <1>1, <1>2, <1>3, <1>4, FileParts

\* The number of a new request is greater than all that are known.
LEMMA NewNumber ==
  ASSUME TypeOK, OrderInv
  PROVE  /\ mpc = "input" =>
              /\ \A k \in Past : k < ncmd + 1
              /\ \A m \in Elements(to_server) : Request(m) => m.num < ncmd + 1
         /\ mpc = "up_meta" =>
              /\ \A k \in Past : k < upload.num
              /\ \A m \in Elements(to_server) : Request(m) => m.num < upload.num
<1>1. ncmd \in Nat /\ Past \subseteq Nat
  BY PastNat, Constants DEF TypeOK
<1>2. /\ \A k \in Past : k <= Issued
      /\ \A m \in Elements(to_server) : Request(m) => m.num <= Issued
      /\ mpc = "up_meta" => upload.num = ncmd
  BY DEF OrderInv, PastUpTo
<1>3. /\ mpc = "input" => Issued = ncmd
      /\ mpc = "up_meta" => Issued = ncmd - 1
  BY DEF Issued
<1>4. \A m \in Elements(to_server) : m.num \in Nat
  BY UploadShapes
<1>5. CASE mpc = "input"
  BY <1>1, <1>2, <1>3, <1>4, <1>5
<1>6. CASE mpc = "up_meta"
  BY <1>1, <1>2, <1>3, <1>4, <1>6
<1> QED BY <1>5, <1>6

\* A request in the client's stream is younger than every answer.
LEMMA WaitingNumber ==
  ASSUME TypeOK, OrderInv, NEW m \in Elements(to_server), Request(m)
  PROVE  m.num \in Nat /\ 0 < m.num /\ \A k \in Past : k < m.num
<1>1. m.num \in Nat
  BY UploadShapes
<1>2. 0 < m.num /\ \A k \in Past : k <= m.num - 1
  BY DEF OrderInv, PastUpTo
<1> QED BY <1>1, <1>2, PastNat

\* A file that is shared stays; a new one comes from another client, or is
\* the upload that the server has received.
LEMMA SharedChanges ==
  ASSUME TypeOK, NameInv, Server \/ ServerCloses \/ Others, NEW n \in Names
  PROVE  /\ shared[n] # None => shared'[n] = shared[n]
         /\ shared'[n] # None =>
               \/ shared'[n] = shared[n]
               \/ shared'[n].num = 0
               \/ /\ srv = "data" /\ srv_left = 0 /\ srv' = "idle"
                  /\ shared'[n] = srv_upload
<1>1. shared \in [Names -> Files \union {None}]
  BY DEF TypeOK
<1>2. \/ shared' = shared
      \/ \E x \in Names, k \in Sizes :
            shared[x] = None /\ shared' = [shared EXCEPT ![x] = File(0, x, k)]
      \/ /\ srv = "data" /\ srv_left = 0 /\ srv' = "idle"
         /\ shared[srv_upload.name] = None
         /\ shared' = [shared EXCEPT ![srv_upload.name] = srv_upload]
  BY ServerCases
<1>3. CASE shared' = shared
  BY <1>3
<1>4. ASSUME NEW x \in Names, NEW k \in Sizes, shared[x] = None,
             shared' = [shared EXCEPT ![x] = File(0, x, k)]
      PROVE  /\ shared[n] # None => shared'[n] = shared[n]
             /\ shared'[n] = shared[n] \/ shared'[n].num = 0
  BY <1>1, <1>4 DEF File
<1>5. CASE /\ srv = "data" /\ srv_left = 0 /\ srv' = "idle"
           /\ shared[srv_upload.name] = None
           /\ shared' = [shared EXCEPT ![srv_upload.name] = srv_upload]
  <2>1. shared'[n] = IF n = srv_upload.name THEN srv_upload ELSE shared[n]
    BY <1>1, <1>5
  <2> QED BY <1>5, <2>1
<1> QED BY <1>2, <1>3, <1>4, <1>5

\* What the server receives: a new upload only when it reads its metadata.
LEMMA ReceivingChanges ==
  ASSUME TypeOK, NameInv, Server \/ ServerCloses \/ Others, srv' = "data"
  PROVE  \/ srv = "data" /\ srv_upload' = srv_upload
         \/ /\ srv = "idle" /\ to_server # <<>> /\ to_server' = Tail(to_server)
            /\ Head(to_server).type = "upload" /\ Head(to_server).name \in Names
            /\ srv_upload' = File(Head(to_server).num, Head(to_server).name,
                                  Head(to_server).size)
            /\ srv_left' = Head(to_server).size
            /\ shared' = shared
            /\ to_client' = Append(to_client, Item("UPLOAD_READY", Head(to_server).num, None, 0))
  BY ServerCases

LEMMA ShutStays ==
  ASSUME TypeOK, Next
  PROVE  shut => shut'
<1> USE DEF session, sending, receiving, disk, streams, server
<1>0. shut \in BOOLEAN
  BY DEF TypeOK
<1>1. CASE User \/ Main
  <2>1. shut' = shut \/ shut' = TRUE
    BY <1>1 DEF User, Ask, Download, Upload, Quit, InputEnds, TypeTooLate, EnterUsername,
     SendRequest, Main, connect_to_server, ReceiveGreeting, ReceiveLoginResult, InputLoop,
     UploadLock, UploadSendMetadata, UploadWaitReady, UploadRefused, UploadStart,
     UploadBlock, UploadSent, UploadWaitResult, UploadReturn, Join, UploadLost, GiveUp,
     ExitFailure
  <2> QED BY <1>0, <2>1
<1>2. CASE Receiver
  <2>1. shut' = shut \/ shut' = (shut \/ rpc = "dl_stop")
    BY <1>2 DEF Receiver, ReceiverLoop, ReceiveUploadAnswer, ReceiveMessage,
       ReceiveDownloadReady, ConnectionLost, ReceiverStop, DownloadOpen, DownloadBlock,
       DownloadLost, DownloadClose, DownloadLink, DownloadReturn
  <2> QED BY <1>0, <2>1
<1>3. CASE Server \/ ServerCloses \/ Others
  <2>1. shut' = shut
    BY <1>3, ServerTakes
  <2> QED BY <2>1
<1>4. CASE Finished
  <2>1. shut' = shut
    BY <1>4 DEF Finished, vars
  <2> QED BY <2>1
<1> QED BY <1>1, <1>2, <1>3, <1>4 DEF Next

\* An upload that has given up stays so.
LEMMA LostStays ==
  ASSUME TypeOK, Next, Lost
  PROVE  Lost'
<1>1. shut'
  BY ShutStays DEF Lost
<1>2. mpc' \in {"join", "done"}
  <2>1. CASE User \/ Main
    BY <2>1 DEF Lost, User, Ask, Download, Upload, Quit, InputEnds, TypeTooLate,
     EnterUsername, Type, Main, connect_to_server, ReceiveGreeting, ReceiveLoginResult,
     InputLoop, UploadLock, UploadSendMetadata, UploadWaitReady, UploadRefused, UploadStart,
     UploadBlock, UploadSent, UploadWaitResult, UploadReturn, Join
  <2>2. CASE Receiver
    BY <2>2, ReceiverTakes DEF Lost
  <2>3. CASE Server \/ ServerCloses \/ Others
    BY <2>3, ServerTakes DEF Lost
  <2>4. CASE Finished
    BY <2>4 DEF Finished, vars, Lost
  <2> QED BY <2>1, <2>2, <2>3, <2>4 DEF Next
<1> QED BY <1>1, <1>2 DEF Lost

-----------------------------------------------------------------------------
(* What the server knows of the current upload.                            *)

LEMMA PastMembers ==
  /\ response.num \in Past /\ answer.num \in Past /\ srv_upload.num \in Past
  /\ \A m \in Elements(to_client) \union {response, answer} : m.num \in Past
  /\ \A o \in outcome : o.result # -1 => o.by \in Past
<1>1. response.num \in Past /\ answer.num \in Past /\ srv_upload.num \in Past
  BY PastParts
<1>2. \A m \in Elements(to_client) : m.num \in Past
  BY PastParts
<1>3. \A o \in outcome : o.result # -1 => o.by \in Past
  BY PastParts
<1> QED BY <1>1, <1>2, <1>3

LEMMA SharedPast ==
  ASSUME NEW n \in Names, shared[n] # None
  PROVE  shared[n].num \in Past
  BY PastParts

\* The server's next request, when it begins to receive.
LEMMA HeadWaits ==
  ASSUME TypeOK, OrderInv, to_server # <<>>, Request(Head(to_server))
  PROVE  /\ Head(to_server) \in Items(ToServer) /\ Head(to_server) \in Elements(to_server)
         /\ Head(to_server).num \in Nat /\ 0 < Head(to_server).num
         /\ \A k \in Past : k < Head(to_server).num
<1>1. Head(to_server) \in Items(ToServer) /\ Head(to_server) \in Elements(to_server)
  BY TailElements, UploadShapes
<1> QED BY <1>1, WaitingNumber

LEMMA MatchStep ==
  ASSUME TypeOK, NameInv, OrderInv, MatchInv, Next
  PROVE  MatchInv'
<1> USE DEF session, sending, receiving, disk, streams, server
<1>0. /\ upload \in Files /\ srv_upload \in Files /\ upload.num \in Nat
      /\ srv_upload.num \in Nat
      /\ to_client \in Seq(Items(ToClient)) /\ to_server \in Seq(Items(ToServer))
      /\ \A m \in Elements(to_server) : m.num \in Nat
  BY UploadShapes
<1>1. CASE User \/ Main
  <2>0. UNCHANGED <<srv, srv_upload, shared>>
    BY <1>1, MainTakes
  <2>1. CASE upload' = upload
    <3>1. \A m \in Elements(to_server') :
             \/ m \in Elements(to_server)
             \/ m.type = "upload" => m.name = upload.name /\ m.size = upload.size
      <4>1. CASE to_server' = to_server
        BY <4>1
      <4>2. ASSUME NEW x \in Items(ToServer), to_server' = Append(to_server, x),
                   x.type = "upload" => x = Item("upload", upload.num, upload.name, upload.size)
            PROVE  \A m \in Elements(to_server') :
                     \/ m \in Elements(to_server)
                     \/ m.type = "upload" => m.name = upload.name /\ m.size = upload.size
        <5>1. Elements(to_server') = Elements(to_server) \union {x}
          BY <1>0, <4>2, AppendElements
        <5> QED BY <4>2, <5>1 DEF Item
      <4> QED BY <1>1, <4>1, <4>2, MainSends
    <3> QED BY <2>0, <2>1, <3>1 DEF MatchInv
  <2>2. CASE upload' # upload
    <3>1. /\ mpc = "input" /\ ncmd' = ncmd + 1 /\ to_server' = to_server
          /\ \E n \in Names, k \in Sizes : upload' = File(ncmd', n, k)
      BY <1>1, <2>2, UploadCases DEF Elsewhere, GivesUp, TakesAnswer
    <3>2. upload'.num = ncmd + 1
      BY <3>1 DEF File
    <3>3. /\ \A k \in Past : k < ncmd + 1
          /\ \A m \in Elements(to_server) : Request(m) => m.num < ncmd + 1
      BY <3>1, NewNumber
    <3>4. \A m \in Elements(to_server) : m.type = "upload" => m.num # upload'.num
      BY <1>0, <3>2, <3>3 DEF Request
    <3>5. srv_upload.num # upload'.num
      BY <1>0, <3>2, <3>3, PastMembers, Constants DEF TypeOK
    <3> QED BY <2>0, <3>1, <3>4, <3>5 DEF MatchInv
  <2> QED BY <2>1, <2>2
<1>2. CASE Receiver
  BY <1>2, ReceiverTakes DEF MatchInv
<1>3. CASE Server \/ ServerCloses \/ Others
  <2>0. upload' = upload /\ Elements(to_server') \subseteq Elements(to_server)
    BY <1>3, ServerTakes, ServerStream
  <2> SUFFICES ASSUME srv' = "data"
               PROVE  /\ srv_upload'.num > 0
                      /\ srv_upload'.num = upload.num => srv_upload' = upload
                      /\ \A n \in Names : shared'[n] # None => shared'[n].num # srv_upload'.num
    BY <2>0 DEF MatchInv
  <2>1. CASE srv = "data" /\ srv_upload' = srv_upload
    <3>1. ASSUME NEW n \in Names, shared'[n] # None
          PROVE  shared'[n].num # srv_upload.num
      <4>1. shared'[n] = shared[n] \/ shared'[n].num = 0
        BY <1>3, <3>1, SharedChanges
      <4> QED BY <1>0, <2>1, <3>1, <4>1 DEF MatchInv
    <3> QED BY <2>1, <3>1 DEF MatchInv
  <2>2. CASE /\ srv = "idle" /\ to_server # <<>>
             /\ Head(to_server).type = "upload"
             /\ srv_upload' = File(Head(to_server).num, Head(to_server).name,
                                   Head(to_server).size)
             /\ shared' = shared
    <3>1. /\ Head(to_server).num \in Nat /\ 0 < Head(to_server).num
          /\ Head(to_server) \in Elements(to_server)
          /\ \A k \in Past : k < Head(to_server).num
      BY <2>2, HeadWaits DEF Request
    <3>2. srv_upload'.num = Head(to_server).num
      BY <2>2 DEF File
    <3>3. srv_upload'.num = upload.num => srv_upload' = upload
      BY <1>0, <2>2, <3>1, <3>2, FileParts DEF MatchInv
    <3>4. ASSUME NEW n \in Names, shared[n] # None
          PROVE  shared[n].num # Head(to_server).num
      BY <3>1, <3>4, SharedPast
    <3> QED BY <2>2, <3>1, <3>2, <3>3, <3>4
  <2> QED BY <1>3, <2>1, <2>2, ReceivingChanges
<1>4. CASE Finished
  BY <1>4 DEF Finished, vars, MatchInv
<1> QED BY <1>1, <1>2, <1>3, <1>4 DEF Next

\* Answers that the client knows come out of the server's stream.
LEMMA AnswersKept ==
  ASSUME TypeOK, User \/ Main \/ Receiver,
         NEW m \in Elements(to_client') \union {response', answer'}
  PROVE  m \in Elements(to_client) \union {response, answer}
<1>1. Elements(to_client') \subseteq Elements(to_client)
  BY ClientStream
<1>2. response' = response \/ response' \in Elements(to_client)
  <2>1. CASE User \/ Main
    BY <2>1, UploadCases DEF Elsewhere, GivesUp, TakesAnswer
  <2>2. CASE Receiver
    BY <2>2, ReceiverTakes, TailElements, UploadShapes
  <2> QED BY <2>1, <2>2
<1>3. answer' = answer \/ answer' = response
  <2>1. CASE User \/ Main
    BY <2>1, UploadCases DEF Elsewhere, GivesUp, TakesAnswer
  <2>2. CASE Receiver
    BY <2>2, ReceiverTakes
  <2> QED BY <2>1, <2>2
<1> QED BY <1>1, <1>2, <1>3

LEMMA AnsweredStep ==
  ASSUME TypeOK, NameInv, OrderInv, MatchInv, AnsweredInv, Next
  PROVE  AnsweredInv'
<1> USE DEF session, sending, receiving, disk, streams, server
<1>0. /\ upload \in Files /\ srv_upload \in Files /\ upload.num \in Nat
      /\ srv_upload.num \in Nat /\ Past \subseteq Nat /\ ncmd \in Nat
      /\ to_client \in Seq(Items(ToClient)) /\ to_server \in Seq(Items(ToServer))
      /\ \A m \in Elements(to_server) : m.num \in Nat
      /\ upload # None
  BY UploadShapes, PastNat, Constants, NoneIsNoFile DEF TypeOK
<1>1. CASE User \/ Main
  <2>0. UNCHANGED <<srv, srv_upload, shared>>
    BY <1>1, MainTakes
  <2>1. \A m \in Elements(to_client') \union {response', answer'} :
           m \in Elements(to_client) \union {response, answer}
    BY <1>1, AnswersKept
  <2>2. CASE upload' = upload
    BY <2>0, <2>1, <2>2 DEF AnsweredInv
  <2>3. CASE upload' # upload
    <3>1. /\ mpc = "input" /\ ncmd' = ncmd + 1
          /\ \E n \in Names, k \in Sizes : upload' = File(ncmd', n, k)
      BY <1>1, <2>3, UploadCases DEF Elsewhere, GivesUp, TakesAnswer
    <3>2. upload'.num = ncmd + 1
      BY <3>1 DEF File
    <3>3. \A k \in Past : k < ncmd + 1
      BY <3>1, NewNumber
    <3>4. \A m \in Elements(to_client') \union {response', answer'} : m.num # upload'.num
      BY <1>0, <2>1, <3>2, <3>3, PastMembers
    <3> QED BY <3>4 DEF AnsweredInv
  <2> QED BY <2>2, <2>3
<1>2. CASE Receiver
  <2>1. \A m \in Elements(to_client') \union {response', answer'} :
           m \in Elements(to_client) \union {response, answer}
    BY <1>2, AnswersKept
  <2> QED BY <1>2, <2>1, ReceiverTakes DEF AnsweredInv
<1>3. CASE Server \/ ServerCloses \/ Others
  <2>0. upload' = upload /\ response' = response /\ answer' = answer
    BY <1>3, ServerTakes
  <2> SUFFICES ASSUME NEW m \in Elements(to_client') \union {response, answer},
                      m.num = upload.num
               PROVE  /\ m.type = "UPLOAD_SUCCESS" =>
                           upload.name \in Names /\ shared'[upload.name] = upload
                      /\ m.type = "ERROR" /\ upload.num > 0 =>
                           /\ ~(srv' = "data" /\ srv_upload'.num = upload.num)
                           /\ \A n \in Names : shared'[n] # None => shared'[n].num # upload.num
    BY <2>0 DEF AnsweredInv
  <2>1. CASE m \in Elements(to_client) \union {response, answer}
    <3>1. CASE m.type = "UPLOAD_SUCCESS"
      <4>1. upload.name \in Names /\ shared[upload.name] = upload
        BY <2>1, <3>1 DEF AnsweredInv
      <4>2. shared'[upload.name] = upload
        BY <1>0, <1>3, <4>1, SharedChanges
      <4> QED BY <3>1, <4>1, <4>2
    <3>2. CASE m.type = "ERROR" /\ upload.num > 0
      <4>1. /\ ~(srv = "data" /\ srv_upload.num = upload.num)
            /\ \A n \in Names : shared[n] # None => shared[n].num # upload.num
        BY <2>1, <3>2 DEF AnsweredInv
      <4>2. ~(srv' = "data" /\ srv_upload'.num = upload.num)
        <5> SUFFICES ASSUME srv' = "data", srv_upload'.num = upload.num
                     PROVE  FALSE
          OBVIOUS
        <5>1. CASE srv = "data" /\ srv_upload' = srv_upload
          BY <4>1, <5>1
        <5>2. CASE /\ to_server # <<>> /\ Head(to_server).type = "upload"
                   /\ srv_upload' = File(Head(to_server).num, Head(to_server).name,
                                         Head(to_server).size)
          <6>1. \A k \in Past : k < Head(to_server).num
            BY <5>2, HeadWaits DEF Request
          <6>2. m.num \in Past
            BY <2>1, PastMembers
          <6>3. srv_upload'.num = Head(to_server).num
            BY <5>2 DEF File
          <6> QED BY <1>0, <6>1, <6>2, <6>3
        <5> QED BY <1>3, <5>1, <5>2, ReceivingChanges
      <4>3. ASSUME NEW n \in Names, shared'[n] # None
            PROVE  shared'[n].num # upload.num
        BY <1>0, <1>3, <3>2, <4>1, <4>3, SharedChanges
      <4> QED BY <3>2, <4>2, <4>3
    <3> QED BY <3>1, <3>2
  <2>2. CASE m \in Elements(to_client') /\ m \notin Elements(to_client)
    <3>1. CASE m.num = 0 /\ m.type # "UPLOAD_SUCCESS"
      BY <3>1
    <3>2. CASE /\ srv = "idle" /\ to_server # <<>> /\ Request(Head(to_server))
               /\ m.num = Head(to_server).num /\ m.type # "UPLOAD_SUCCESS"
               /\ m.type = "ERROR" => srv' = "idle"
      <4>1. \A k \in Past : k < upload.num
        BY <3>2, HeadWaits
      <4>2. ASSUME NEW n \in Names, shared'[n] # None, upload.num > 0
            PROVE  shared'[n].num # upload.num
        <5>1. shared'[n] = shared[n] \/ shared'[n].num = 0
          BY <1>3, <3>2, <4>2, SharedChanges
        <5>2. shared[n] # None => shared[n].num # upload.num
          BY <1>0, <4>1, SharedPast
        <5> QED BY <1>0, <4>2, <5>1, <5>2
      <4> QED BY <3>2, <4>2
    <3>3. CASE /\ srv = "data" /\ srv' = "idle" /\ m.num = srv_upload.num
               /\ m.type = "ERROR" /\ shared' = shared
      BY <3>3 DEF MatchInv
    <3>4. CASE /\ srv = "data" /\ srv' = "idle" /\ m.num = srv_upload.num
               /\ m.type = "UPLOAD_SUCCESS"
               /\ shared' = [shared EXCEPT ![srv_upload.name] = srv_upload]
      <4>1. srv_upload = upload /\ srv_upload.name \in Names
        BY <3>4 DEF MatchInv, NameInv
      <4>2. shared \in [Names -> Files \union {None}]
        BY DEF TypeOK
      <4> QED BY <3>4, <4>1, <4>2
    <3> QED BY <1>3, <2>2, <3>1, <3>2, <3>3, <3>4, ServerAdds
  <2> QED BY <2>1, <2>2
<1>4. CASE Finished
  BY <1>4 DEF Finished, vars, AnsweredInv
<1> QED BY <1>1, <1>2, <1>3, <1>4 DEF Next

LEMMA SlotStep ==
  ASSUME TypeOK, OrderInv, SlotInv, Next
  PROVE  SlotInv'
<1> USE DEF session, sending, receiving, disk, streams, server
<1>1. CASE User \/ Main
  <2>1. response_available' => response_available /\ response' = response
    BY <1>1, UploadCases DEF Elsewhere, GivesUp, TakesAnswer
  <2>2. mpc' \in {"up_refused", "up_idle"} =>
           /\ answer'.type \in {"ERROR", "UPLOAD_READY", "UPLOAD_SUCCESS"}
           /\ mpc' = "up_refused" => answer'.type # "UPLOAD_READY"
    BY <1>1, UploadCases DEF Elsewhere, GivesUp, UploadLost, GiveUp, TakesAnswer, SlotInv, IsReady
  <2>3. mpc' \in {"up_lock", "up_meta", "up_wait", "up_refused", "up_start", "up_data",
                  "up_final", "up_idle"} => upload'.num > 0
    <3>1. CASE /\ mpc' = "up_lock" /\ ncmd' = ncmd + 1
               /\ \E n \in Names, k \in Sizes : upload' = File(ncmd', n, k)
      <4>1. upload'.num = ncmd + 1 /\ ncmd \in Nat
        BY <3>1, Constants DEF File, TypeOK
      <4> QED BY <4>1
    <3>2. CASE /\ mpc \in {"up_lock", "up_meta", "up_wait", "up_refused", "up_start",
                           "up_data", "up_final", "up_idle"}
               /\ upload' = upload
      BY <3>2 DEF SlotInv, Uploading
    <3>3. CASE mpc' \notin {"up_lock", "up_meta", "up_wait", "up_refused", "up_start",
                            "up_data", "up_final", "up_idle"}
      BY <3>3
    <3> QED BY <1>1, <3>1, <3>2, <3>3, UploadCases
            DEF Elsewhere, GivesUp, UploadLost, GiveUp, TakesAnswer
  <2> QED BY <2>1, <2>2, <2>3 DEF SlotInv, Uploading
<1>2. CASE Receiver
  <2>1. UNCHANGED <<mpc, upload, answer>>
    BY <1>2, ReceiverTakes
  <2>2. \/ response_available' = response_available /\ response' = response
        \/ response'.type \in {"ERROR", "UPLOAD_READY", "UPLOAD_SUCCESS"}
    BY <1>2, ReceiverTakes
  <2>3. response_available' => response'.type \in {"ERROR", "UPLOAD_READY", "UPLOAD_SUCCESS"}
    BY <2>2 DEF SlotInv
  <2> QED BY <2>1, <2>3 DEF SlotInv, Uploading
<1>3. CASE Server \/ ServerCloses \/ Others
  BY <1>3, ServerTakes DEF SlotInv, Uploading
<1>4. CASE Finished
  BY <1>4 DEF Finished, vars, SlotInv, Uploading
<1> QED BY <1>1, <1>2, <1>3, <1>4 DEF Next

LEMMA PublishStep ==
  ASSUME TypeOK, NameInv, OrderInv, PublishInv, Next
  PROVE  PublishInv'
  BY MatchStep, AnsweredStep, SlotStep DEF PublishInv

-----------------------------------------------------------------------------
(* As long as every upload takes its own answers.                          *)

\* Only the input thread changes what an upload is about.
LEMMA InputOnly ==
  ASSUME TypeOK, Receiver \/ Server \/ ServerCloses \/ Others \/ Finished
  PROVE  UNCHANGED <<mpc, upload, unsent, answer, outcome>>
<1> USE DEF session, sending, receiving, disk, streams, server
<1>1. CASE Receiver
  BY <1>1, ReceiverTakes
<1>2. CASE Server \/ ServerCloses \/ Others
  BY <1>2, ServerTakes
<1>3. CASE Finished
  BY <1>3 DEF Finished, vars
<1> QED BY <1>1, <1>2, <1>3

\* What an upload returns, and for which answer.
LEMMA OutcomeAdds ==
  ASSUME TypeOK, User \/ Main
  PROVE  /\ outcome \subseteq outcome'
         /\ \A o \in outcome' :
              \/ o \in outcome
              \/ o.result = -1
              \/ /\ mpc \in {"up_refused", "up_idle"}
                 /\ o.num = upload.num /\ o.name = upload.name /\ o.size = upload.size
                 /\ o.by = answer.num
                 /\ o.result = IF mpc = "up_refused" THEN 1 ELSE Status(answer)
         /\ mpc \in {"up_refused", "up_idle"} =>
              \E o \in outcome' : o.num = upload.num /\ o.by = answer.num
<1>1. CASE outcome' = outcome /\ mpc \notin {"up_refused", "up_idle"}
  BY <1>1
<1>2. CASE Returned(-1, upload.num) /\ mpc \notin {"up_refused", "up_idle"}
  BY <1>2 DEF Returned
<1>3. CASE mpc = "up_refused" /\ Returned(1, answer.num)
  <2> DEFINE r == [num |-> upload.num, name |-> upload.name, size |-> upload.size,
                   result |-> 1, by |-> answer.num]
  <2>1. outcome' = outcome \union {r}
    BY <1>3 DEF Returned
  <2>2. /\ r.num = upload.num /\ r.name = upload.name /\ r.size = upload.size
        /\ r.by = answer.num /\ r.result = 1
    OBVIOUS
  <2> HIDE DEF r
  <2> QED BY <1>3, <2>1, <2>2
<1>4. CASE mpc = "up_idle" /\ Returned(Status(answer), answer.num)
  <2> DEFINE r == [num |-> upload.num, name |-> upload.name, size |-> upload.size,
                   result |-> Status(answer), by |-> answer.num]
  <2>1. outcome' = outcome \union {r}
    BY <1>4 DEF Returned
  <2>2. /\ r.num = upload.num /\ r.name = upload.name /\ r.size = upload.size
        /\ r.by = answer.num /\ r.result = Status(answer)
    OBVIOUS
  <2> HIDE DEF r
  <2> QED BY <1>4, <2>1, <2>2
<1>5. \/ outcome' = outcome /\ mpc \notin {"up_refused", "up_idle"}
      \/ Returned(-1, upload.num) /\ mpc \notin {"up_refused", "up_idle"}
      \/ mpc = "up_refused" /\ Returned(1, answer.num)
      \/ mpc = "up_idle" /\ Returned(Status(answer), answer.num)
  BY UploadCases DEF Elsewhere, GivesUp, UploadLost, TakesAnswer
<1> QED BY <1>1, <1>2, <1>3, <1>4, <1>5

\* An upload that was misled, or is about to be, stays so.
LEMMA OwnKept ==
  ASSUME TypeOK, Next
  PROVE  /\ AnswersOwn' => AnswersOwn
         /\ AnswersOwn' /\ (User \/ Main) => Own
         /\ Own' => Own
<1>1. CASE User \/ Main
  <2>1. AnswersOwn' => AnswersOwn
    BY <1>1, OutcomeAdds DEF AnswersOwn
  <2>2. AnswersOwn' /\ mpc \in {"up_refused", "up_idle"} => answer.num = upload.num
    BY <1>1, OutcomeAdds DEF AnswersOwn
  <2> QED BY <2>1, <2>2 DEF Own
<1>2. CASE ~(User \/ Main)
  <2>1. UNCHANGED <<mpc, upload, unsent, answer, outcome>>
    BY <1>2, InputOnly DEF Next
  <2> QED BY <1>2, <2>1 DEF Own, AnswersOwn
<1> QED BY <1>1, <1>2

LEMMA UploadLastRest ==
  ASSUME NEW q, NEW t, NEW n \in Nat, Len(t) = n, Len(q) = n + 1,
         \A i \in 1 .. n : t[i] = q[i + 1], UploadLast(q)
  PROVE  /\ UploadLast(t)
         /\ q[1].type = "upload" => n = 0
<1>1. ASSUME NEW i \in 1 .. n, t[i].type = "upload"
      PROVE  i = n
  <2>1. i + 1 \in 1 .. n + 1 /\ q[i + 1].type = "upload"
    BY <1>1
  <2>2. i + 1 = n + 1
    BY <2>1 DEF UploadLast
  <2> QED BY <2>2
<1>2. ASSUME q[1].type = "upload" PROVE n = 0
  <2>1. 1 \in 1 .. n + 1
    OBVIOUS
  <2>2. 1 = n + 1
    BY <1>2, <2>1 DEF UploadLast
  <2> QED BY <2>2
<1> QED BY <1>1, <1>2 DEF UploadLast

LEMMA UploadLastTail ==
  ASSUME NEW q \in Seq(Items(ToServer)), q # <<>>, UploadLast(q)
  PROVE  /\ UploadLast(Tail(q))
         /\ Head(q).type = "upload" => Tail(q) = <<>>
<1>1. /\ Len(q) \in Nat \ {0} /\ Head(q) = q[1] /\ Tail(q) \in Seq(Items(ToServer))
      /\ Len(Tail(q)) = Len(q) - 1
      /\ \A i \in 1 .. Len(Tail(q)) : Tail(q)[i] = q[i + 1]
  BY TailElements
<1>2. PICK n \in Nat : n = Len(Tail(q)) /\ Len(q) = n + 1
  <2>1. Len(q) - 1 \in Nat /\ Len(q) = (Len(q) - 1) + 1
    BY <1>1
  <2> QED BY <1>1, <2>1, Zenon
<1>3. UploadLast(Tail(q)) /\ (Head(q).type = "upload" => Len(Tail(q)) = 0)
  BY <1>1, <1>2, UploadLastRest
<1>4. Len(Tail(q)) = 0 => Tail(q) = <<>>
  BY <1>1, TailElements
<1> QED BY <1>3, <1>4

LEMMA UploadLastAppend ==
  ASSUME NEW q \in Seq(Items(ToServer)), NEW m \in Items(ToServer),
         \A x \in Elements(q) : x.type # "upload"
  PROVE  UploadLast(Append(q, m))
<1>1. /\ Len(q) \in Nat /\ Len(Append(q, m)) = Len(q) + 1
      /\ \A i \in 1 .. Len(q) : Append(q, m)[i] = q[i]
  BY AppendElements
<1>2. ASSUME NEW i \in 1 .. Len(q) + 1, Append(q, m)[i].type = "upload"
      PROVE  i = Len(q) + 1
  <2>1. CASE i \in 1 .. Len(q)
    BY <1>1, <1>2, <2>1 DEF Elements
  <2>2. CASE i \notin 1 .. Len(q)
    BY <1>1, <2>2
  <2> QED BY <2>1, <2>2
<1> QED BY <1>1, <1>2 DEF UploadLast

\* The server goes on receiving.
LEMMA DataGoesOn ==
  ASSUME TypeOK, NameInv, Server \/ ServerCloses \/ Others, srv = "data"
  PROVE  \/ srv' = "closed"
         \/ /\ srv' = "data" /\ srv_upload' = srv_upload
            /\ UNCHANGED <<to_server, srv_left>>
         \/ /\ srv' = "data" /\ srv_upload' = srv_upload
            /\ srv_left > 0 /\ srv_left' = srv_left - 1
            /\ to_server # <<>> /\ to_server' = Tail(to_server)
         \/ srv' = "idle" /\ srv_left = 0 /\ to_server' = to_server
<1> USE DEF session, sending, receiving, disk, streams, server
<1>1. CASE Server
  BY <1>1 DEF Server, ServerLogin, ServerAnswers, ServerStreamsFile, ServerReady,
     ServerBlock, ServerUploadEnds, ServerGoodbye, ServerReceives
<1>2. CASE ServerCloses \/ Others
  BY <1>2 DEF ServerCloses, Others, OtherClient, OtherProgram
<1> QED BY <1>1, <1>2

LEMMA ClosedStays ==
  ASSUME TypeOK, Server \/ ServerCloses \/ Others, srv = "closed"
  PROVE  srv' = "closed"
<1> USE DEF session, sending, receiving, disk, streams, server
<1>1. CASE Server
  BY <1>1 DEF Server, ServerLogin, ServerAnswers, ServerStreamsFile, ServerReady,
     ServerBlock, ServerUploadEnds, ServerGoodbye, ServerReceives
<1>2. CASE ServerCloses \/ Others
  BY <1>2 DEF ServerCloses, Others, OtherClient, OtherProgram
<1> QED BY <1>1, <1>2

\* No metadata are in the client's stream when it sends something.
LEMMA NoMetadata ==
  ASSUME MetadataInv, mpc # "up_wait", ~Lost
  PROVE  \A x \in Elements(to_server) : x.type # "upload"
  BY DEF MetadataInv

\* What the input thread sends.
LEMMA SendsWhat ==
  ASSUME TypeOK, NameInv, OrderInv, User \/ Main, to_server' # to_server
  PROVE  \E m \in Items(ToServer) :
            /\ to_server' = Append(to_server, m)
            /\ srv # "closed"
            /\ mpc \in {"user", "input", "up_meta", "up_data"}
            /\ m.type = "upload" =>
                  mpc = "up_meta" /\ mpc' = "up_wait" /\ m.num = upload.num /\ upload' = upload
            /\ mpc = "up_data" => m.type = "RAW" /\ unsent > 0
            /\ m.type = "RAW" => mpc = "up_data"
<1>1. PICK m \in Items(ToServer) :
         /\ to_server' = Append(to_server, m)
         /\ srv # "closed"
         /\ m.type = "upload" =>
               /\ mpc = "up_meta" /\ mpc' = "up_wait"
               /\ m = Item("upload", upload.num, upload.name, upload.size)
         /\ m.type = "RAW" => mpc = "up_data" /\ mpc' = "up_data"
         /\ mpc \in {"user", "input", "up_meta", "up_data"}
  BY MainSends
<1>2. m.type = "upload" => m.num = upload.num
  BY <1>1 DEF Item
<1>3. mpc = "up_meta" => upload' = upload
  BY UploadCases DEF Elsewhere, GivesUp, TakesAnswer
<1>4. mpc = "up_data" => unsent > 0 /\ SendDone(Raw(upload.num))
  BY UploadCases DEF Elsewhere, GivesUp, TakesAnswer
<1>5. SendDone(Raw(upload.num)) => m.type = "RAW"
  <2> SUFFICES ASSUME SendDone(Raw(upload.num)) PROVE m.type = "RAW"
    OBVIOUS
  <2>1. upload.num \in Requests /\ Raw(upload.num) \in Items(ToServer)
    <3>1. upload.num \in Requests
      BY UploadShapes DEF Files
    <3> QED BY <3>1, Constants, ItemTypes DEF Raw, ToServer
  <2>2. to_server' = Append(to_server, Raw(upload.num))
    BY <1>1 DEF SendDone
  <2>3. to_server'[Len(to_server) + 1] = m
    BY <1>1, UploadShapes, AppendElements
  <2>4. to_server'[Len(to_server) + 1] = Raw(upload.num)
    BY <2>1, <2>2, UploadShapes, AppendElements
  <2> QED BY <2>3, <2>4 DEF Raw, Item
<1> QED BY <1>1, <1>2, <1>3, <1>4, <1>5

LEMMA StreamStep ==
  ASSUME TypeOK, NameInv, OrderInv, OwnInv, Next, AnswersOwn'
  PROVE  StreamInv'
<1> USE DEF session, sending, receiving, disk, streams, server
<1>0. AnswersOwn /\ StreamInv
  BY OwnKept DEF OwnInv
<1>a. to_server \in Seq(Items(ToServer)) /\ srv_left \in Nat /\ unsent \in Nat
  BY UploadShapes
<1>1. CASE User \/ Main
  <2>0. UNCHANGED <<srv, srv_left>>
    BY <1>1, MainTakes
  <2>1. CASE to_server' = to_server
    BY <1>0, <2>0, <2>1 DEF StreamInv
  <2>2. CASE to_server' # to_server
    <3>1. MetadataInv /\ DataInv /\ FrameInv
      BY <1>1, OwnKept DEF OwnInv
    <3>2. PICK m \in Items(ToServer) :
            /\ to_server' = Append(to_server, m)
            /\ srv # "closed"
            /\ mpc \in {"user", "input", "up_meta", "up_data"}
            /\ mpc = "up_data" => m.type = "RAW" /\ unsent > 0
            /\ m.type = "RAW" => mpc = "up_data"
      BY <1>1, <2>2, SendsWhat
    <3>3. \A x \in Elements(to_server) : x.type # "upload"
      BY <3>1, <3>2, NoMetadata DEF Lost
    <3>4. UploadLast(to_server')
      BY <1>a, <3>2, <3>3, UploadLastAppend
    <3>5. /\ Len(to_server') = Len(to_server) + 1
          /\ Elements(to_server') = Elements(to_server) \union {m}
      BY <1>a, <3>2, AppendElements
    <3>6. CASE srv = "data"
      <4>1. mpc = "up_data" /\ srv_left = Len(to_server) + unsent
        BY <3>1, <3>2, <3>6 DEF DataInv, Lost
      <4>2. Len(to_server) \in Nat
        BY <1>a
      <4>3. Len(to_server') <= srv_left
        BY <1>a, <3>2, <3>5, <4>1, <4>2
      <4> QED BY <1>0, <2>0, <3>2, <3>4, <3>5, <3>6, <4>1, <4>3 DEF StreamInv
    <3>7. CASE srv # "data"
      <4>1. m.type # "RAW"
        BY <3>1, <3>2, <3>7 DEF FrameInv
      <4> QED BY <1>0, <2>0, <3>2, <3>4, <3>5, <3>7, <4>1 DEF StreamInv
    <3> QED BY <3>6, <3>7
  <2> QED BY <2>1, <2>2
<1>2. CASE Receiver
  BY <1>0, <1>2, ReceiverTakes DEF StreamInv
<1>3. CASE Server \/ ServerCloses \/ Others
  <2>1. Elements(to_server') \subseteq Elements(to_server)
    BY <1>3, ServerStream
  <2>2. UploadLast(to_server')
    <3>1. UploadLast(<<>>)
      BY DEF UploadLast
    <3> QED BY <1>0, <1>a, <1>3, <3>1, ServerTakes, UploadLastTail DEF StreamInv
  <2>3. ASSUME srv' = "data"
        PROVE  /\ \A m \in Elements(to_server') : m.type = "RAW"
               /\ Len(to_server') <= srv_left'
    <3>1. CASE srv = "data"
      <4>1. \A m \in Elements(to_server') : m.type = "RAW"
        BY <1>0, <2>1, <3>1 DEF StreamInv
      <4>2. Len(to_server) <= srv_left
        BY <1>0, <3>1 DEF StreamInv
      <4>3. CASE UNCHANGED <<to_server, srv_left>>
        BY <4>1, <4>2, <4>3
      <4>4. CASE /\ srv_left > 0 /\ srv_left' = srv_left - 1
                 /\ to_server # <<>> /\ to_server' = Tail(to_server)
        <5>1. Len(to_server) \in Nat /\ Len(to_server') = Len(to_server) - 1
          BY <1>a, <4>4, TailElements
        <5> QED BY <1>a, <4>1, <4>2, <4>4, <5>1
      <4> QED BY <1>3, <2>3, <3>1, <4>3, <4>4, DataGoesOn
    <3>2. CASE srv # "data"
      <4>1. /\ to_server # <<>> /\ to_server' = Tail(to_server)
            /\ Head(to_server).type = "upload" /\ srv_left' = Head(to_server).size
        BY <1>3, <2>3, <3>2, ReceivingChanges
      <4>2. to_server' = <<>>
        BY <1>0, <1>a, <4>1, UploadLastTail DEF StreamInv
      <4>3. Head(to_server) \in Items(ToServer)
        BY <1>a, <4>1, TailElements
      <4>4. srv_left' \in Nat
        BY <4>1, <4>3, Constants DEF Items
      <4> QED BY <4>2, <4>4, EmptyElements
    <3> QED BY <3>1, <3>2
  <2>4. ASSUME srv' \notin {"data", "closed"}
        PROVE  \A m \in Elements(to_server') : m.type # "RAW"
    <3>1. CASE srv = "data"
      <4>1. srv_left = 0 /\ to_server' = to_server
        BY <1>3, <2>4, <3>1, DataGoesOn
      <4>2. to_server = <<>>
        BY <1>0, <1>a, <3>1, <4>1, TailElements DEF StreamInv
      <4> QED BY <4>1, <4>2, EmptyElements
    <3>2. CASE srv # "data"
      BY <1>0, <1>3, <2>1, <2>4, <3>2, ClosedStays DEF StreamInv
    <3> QED BY <3>1, <3>2
  <2> QED BY <2>2, <2>3, <2>4 DEF StreamInv
<1>4. CASE Finished
  BY <1>0, <1>4 DEF Finished, vars, StreamInv
<1> QED BY <1>1, <1>2, <1>3, <1>4 DEF Next

\* An upload that has ended with its own answer: what the answer says.
LEMMA OwnAnswer ==
  ASSUME TypeOK, PublishInv, DataInv, AnswerInv, Own', TakesAnswer,
         \/ mpc = "up_wait" /\ mpc' = "up_refused" /\ ~IsReady(response)
         \/ mpc = "up_final" /\ mpc' = "up_idle"
  PROVE  /\ response.num = upload.num /\ response \in Coming
         /\ response.type \in {"ERROR", "UPLOAD_SUCCESS"}
         /\ srv # "data"
         /\ mpc = "up_wait" /\ upload.size > 0 => response.type = "ERROR"
<1>1. response.num = upload.num
  BY DEF Own, TakesAnswer
<1>2. response \in Coming /\ upload.num > 0
      /\ response.type \in {"ERROR", "UPLOAD_READY", "UPLOAD_SUCCESS"}
  BY DEF Coming, TakesAnswer, PublishInv, SlotInv, Uploading
<1>3. response.type # "UPLOAD_READY"
  BY <1>2 DEF AnswerInv, IsReady, Lost
<1>4. CASE response.type = "ERROR"
  <2>1. ~(srv = "data" /\ srv_upload.num = upload.num)
    BY <1>1, <1>2, <1>4 DEF PublishInv, AnsweredInv
  <2> QED BY <1>1, <1>2, <1>4, <2>1 DEF DataInv
<1>5. CASE response.type = "UPLOAD_SUCCESS"
  <2>1. srv # "data" /\ (mpc = "up_wait" => upload.size = 0)
    BY <1>1, <1>2, <1>5 DEF AnswerInv
  <2> QED BY <1>1, <1>2, <1>5, <2>1, UploadShapes
<1> QED BY <1>2, <1>3, <1>4, <1>5

\* An upload that has given up does not start again.
LEMMA LostElsewhere ==
  ASSUME TypeOK, User \/ Main, Lost
  PROVE  Elsewhere
  BY UploadCases DEF Lost, GivesUp

\* An upload that leaves the wait for UPLOAD_READY has been answered: its
\* metadata are no longer in the client's stream.
LEMMA AnsweredRead ==
  ASSUME TypeOK, OrderInv, Own', AnswerInv, TakesAnswer, mpc = "up_wait",
         \/ mpc' = "up_start" /\ IsReady(response)
         \/ mpc' = "up_refused" /\ ~IsReady(response),
         NEW m \in Elements(to_server), m.type = "upload", m.num = upload.num
  PROVE  FALSE
<1>1. response.num = upload.num
  <2>1. CASE mpc' = "up_start" /\ IsReady(response)
    BY <2>1 DEF AnswerInv, Coming, IsReady, TakesAnswer
  <2>2. CASE mpc' = "up_refused"
    BY <2>2 DEF Own, TakesAnswer
  <2> QED BY <2>1, <2>2
<1>2. \A k \in Past : k < m.num
  BY WaitingNumber DEF Request
<1> QED BY <1>1, <1>2, PastMembers, UploadShapes

LEMMA MetadataStep ==
  ASSUME TypeOK, NameInv, OrderInv, OwnInv, Next, Own'
  PROVE  MetadataInv'
<1> USE DEF session, sending, receiving, disk, streams, server
<1>0. Own /\ MetadataInv /\ AnswerInv
  BY OwnKept DEF OwnInv
<1>a. to_server \in Seq(Items(ToServer))
  BY UploadShapes
<1>1. CASE User \/ Main
  <2>1. CASE to_server' = to_server
    <3> SUFFICES ASSUME NEW m \in Elements(to_server), m.type = "upload"
                 PROVE  m.num = upload'.num /\ (mpc' = "up_wait" \/ Lost')
      BY <2>1 DEF MetadataInv
    <3>1. m.num = upload.num /\ (mpc = "up_wait" \/ Lost)
      BY <1>0 DEF MetadataInv
    <3>2. CASE Lost
      BY <1>1, <3>1, <3>2, LostElsewhere, LostStays DEF Elsewhere
    <3>3. CASE mpc = "up_wait"
      <4>1. CASE GivesUp
        BY <3>1, <4>1 DEF GivesUp, UploadLost, GiveUp, Lost
      <4>2. CASE TakesAnswer /\ (\/ mpc' = "up_start" /\ IsReady(response)
                                 \/ mpc' = "up_refused" /\ ~IsReady(response))
        BY <1>0, <3>1, <3>3, <4>2, AnsweredRead
      <4> QED BY <1>1, <3>3, <4>1, <4>2, UploadCases DEF Elsewhere
    <3> QED BY <3>1, <3>2, <3>3
  <2>2. CASE to_server' # to_server
    <3>1. PICK m \in Items(ToServer) :
            /\ to_server' = Append(to_server, m)
            /\ mpc \in {"user", "input", "up_meta", "up_data"}
            /\ m.type = "upload" =>
                  mpc = "up_meta" /\ mpc' = "up_wait" /\ m.num = upload.num /\ upload' = upload
      BY <1>1, <2>2, SendsWhat
    <3>2. \A x \in Elements(to_server) : x.type # "upload"
      BY <1>0, <3>1, NoMetadata DEF Lost
    <3>3. Elements(to_server') = Elements(to_server) \union {m}
      BY <1>a, <3>1, AppendElements
    <3> QED BY <3>1, <3>2, <3>3 DEF MetadataInv
  <2> QED BY <2>1, <2>2
<1>2. CASE ~(User \/ Main)
  <2>1. UNCHANGED <<mpc, upload>>
    BY <1>2, InputOnly DEF Next
  <2>2. Elements(to_server') \subseteq Elements(to_server)
    BY <1>2, ReceiverTakes, ServerStream DEF Next, Finished, vars
  <2>3. Lost => Lost'
    BY LostStays
  <2> QED BY <1>0, <2>1, <2>2, <2>3 DEF MetadataInv
<1> QED BY <1>1, <1>2

LEMMA DataStep ==
  ASSUME TypeOK, NameInv, OrderInv, PublishInv, OwnInv, Next, Own'
  PROVE  DataInv'
<1> USE DEF session, sending, receiving, disk, streams, server
<1>0. Own /\ StreamInv /\ MetadataInv /\ DataInv /\ FrameInv /\ AnswerInv
  BY OwnKept DEF OwnInv, Own
<1>a. /\ to_server \in Seq(Items(ToServer)) /\ Len(to_server) \in Nat
      /\ srv_left \in Nat /\ unsent \in Nat /\ upload.size \in Nat
  BY UploadShapes
<1>b. Lost => Lost'
  BY LostStays
<1>1. CASE User \/ Main
  <2>0. UNCHANGED <<srv, srv_upload, srv_left>>
    BY <1>1, MainTakes
  <2> SUFFICES ASSUME srv = "data"
               PROVE  DataInv'
    BY <2>0 DEF DataInv
  <2>1. CASE Lost
    BY <1>0, <1>1, <1>b, <2>0, <2>1, LostElsewhere DEF DataInv, Elsewhere
  <2>2. CASE GivesUp
    BY <1>0, <2>0, <2>2 DEF GivesUp, UploadLost, GiveUp, Lost, DataInv
  <2>3. CASE mpc = "up_wait" /\ mpc' = "up_start" /\ TakesAnswer
    BY <1>0, <2>0, <2>3 DEF DataInv, TakesAnswer, Lost
  <2>4. CASE \/ mpc = "up_wait" /\ mpc' = "up_refused" /\ TakesAnswer /\ ~IsReady(response)
             \/ mpc = "up_final" /\ mpc' = "up_idle" /\ TakesAnswer
    BY <1>0, <2>4, OwnAnswer
  <2>5. CASE /\ mpc = "up_start" /\ mpc' = "up_data" /\ unsent' = upload.size
             /\ upload' = upload /\ to_server' = to_server
    <3>1. to_server = <<>> /\ srv_left = upload.size /\ srv_upload.num = upload.num
      BY <1>0, <2>5 DEF DataInv, Lost
    <3> QED BY <1>a, <2>0, <2>5, <3>1, EmptyElements DEF DataInv
  <2>6. CASE /\ mpc = "up_data" /\ mpc' = "up_data" /\ unsent > 0 /\ unsent' = unsent - 1
             /\ SendDone(Raw(upload.num)) /\ upload' = upload
    <3>1. srv_left = Len(to_server) + unsent /\ srv_upload.num = upload.num
      BY <1>0, <2>6 DEF DataInv, Lost
    <3>2. upload.num \in Requests
      BY UploadShapes DEF Files
    <3>3. Raw(upload.num) \in Items(ToServer)
      BY <3>2, Constants, ItemTypes DEF Raw, ToServer
    <3>4. to_server' = Append(to_server, Raw(upload.num))
      BY <2>6 DEF SendDone
    <3>5. Len(to_server') = Len(to_server) + 1
      BY <1>a, <3>3, <3>4, AppendElements
    <3>6. srv_left = Len(to_server') + unsent'
      BY <1>a, <2>6, <3>1, <3>5
    <3> QED BY <2>0, <2>6, <3>1, <3>6 DEF DataInv
  <2>7. CASE /\ mpc = "up_data" /\ mpc' = "up_final" /\ unsent = 0
             /\ UNCHANGED <<upload, unsent, to_server>>
    BY <1>0, <2>0, <2>7 DEF DataInv, Lost
  <2> QED BY <1>0, <1>1, <2>1, <2>2, <2>3, <2>4, <2>5, <2>6, <2>7, UploadCases
          DEF DataInv, Elsewhere
<1>2. CASE Receiver
  <2>1. UNCHANGED <<mpc, upload, unsent, to_server, srv, srv_upload, srv_left>>
    BY <1>2, ReceiverTakes
  <2> QED BY <1>0, <1>b, <2>1 DEF DataInv
<1>3. CASE Server \/ ServerCloses \/ Others
  <2>0. UNCHANGED <<mpc, upload, unsent>>
    BY <1>3, ServerTakes
  <2> SUFFICES ASSUME srv' = "data"
               PROVE  DataInv'
    BY DEF DataInv
  <2>1. CASE srv = "data"
    <3>1. CASE srv_upload' = srv_upload /\ UNCHANGED <<to_server, srv_left>>
      BY <1>0, <1>b, <2>0, <2>1, <3>1 DEF DataInv
    <3>2. CASE /\ srv_upload' = srv_upload
               /\ srv_left > 0 /\ srv_left' = srv_left - 1
               /\ to_server # <<>> /\ to_server' = Tail(to_server)
      <4>1. Len(to_server') = Len(to_server) - 1
        BY <1>a, <3>2, TailElements
      <4>2. srv_left = Len(to_server) + unsent => srv_left' = Len(to_server') + unsent
        BY <1>a, <3>2, <4>1
      <4> QED BY <1>0, <1>b, <2>0, <2>1, <3>2, <4>2 DEF DataInv
    <3> QED BY <1>3, <2>1, <3>1, <3>2, DataGoesOn
  <2>2. CASE srv # "data"
    <3>1. /\ to_server # <<>> /\ to_server' = Tail(to_server)
          /\ Head(to_server).type = "upload" /\ srv_left' = Head(to_server).size
          /\ srv_upload' = File(Head(to_server).num, Head(to_server).name,
                                Head(to_server).size)
      BY <1>3, <2>2, ReceivingChanges
    <3>2. to_server' = <<>>
      BY <1>0, <1>a, <3>1, UploadLastTail DEF StreamInv
    <3>3. Head(to_server) \in Elements(to_server)
      BY <1>a, <3>1, TailElements
    <3>4. Head(to_server).num = upload.num /\ (mpc = "up_wait" \/ Lost)
      BY <1>0, <3>1, <3>3 DEF MetadataInv
    <3>5. Head(to_server).size = upload.size
      BY <3>1, <3>3, <3>4 DEF PublishInv, MatchInv
    <3>6. srv_upload'.num = upload.num
      BY <3>1, <3>4 DEF File
    <3> QED BY <1>b, <2>0, <3>1, <3>2, <3>4, <3>5, <3>6 DEF DataInv
  <2> QED BY <2>1, <2>2
<1>4. CASE Finished
  BY <1>0, <1>4 DEF Finished, vars, DataInv, Lost
<1> QED BY <1>1, <1>2, <1>3, <1>4 DEF Next

LEMMA FrameStep ==
  ASSUME TypeOK, NameInv, OrderInv, OwnInv, Next, Own'
  PROVE  FrameInv'
<1> USE DEF session, sending, receiving, disk, streams, server
<1>0. Own /\ DataInv /\ FrameInv /\ AnswerInv
  BY OwnKept DEF OwnInv
<1>a. /\ to_server \in Seq(Items(ToServer)) /\ Len(to_server) \in Nat
      /\ srv_left \in Nat /\ unsent \in Nat /\ upload.size \in Nat
  BY UploadShapes
<1>1. CASE User \/ Main
  <2>0. srv' = srv
    BY <1>1, MainTakes
  <2>1. ASSUME srv # "closed", mpc' = "up_start", upload'.size > 0
        PROVE  srv = "data"
    <3>1. mpc = "up_wait" /\ TakesAnswer /\ IsReady(response)
      BY <1>1, <2>1, UploadCases DEF Elsewhere, GivesUp, UploadLost, GiveUp
    <3>2. response \in Coming /\ response.type = "UPLOAD_READY" /\ upload' = upload
      BY <3>1 DEF Coming, TakesAnswer, IsReady
    <3> QED BY <1>0, <2>1, <3>1, <3>2 DEF AnswerInv
  <2>2. ASSUME srv # "closed", mpc' = "up_data", unsent' > 0
        PROVE  srv = "data"
    <3>1. \/ mpc = "up_start" /\ unsent' = upload.size
          \/ mpc = "up_data" /\ unsent > 0
      BY <1>1, <2>2, UploadCases DEF Elsewhere, GivesUp, UploadLost, GiveUp
    <3> QED BY <1>0, <2>2, <3>1 DEF FrameInv
  <2> QED BY <2>0, <2>1, <2>2 DEF FrameInv
<1>2. CASE Receiver
  <2>1. UNCHANGED <<mpc, upload, unsent, srv>>
    BY <1>2, ReceiverTakes
  <2> QED BY <1>0, <2>1 DEF FrameInv
<1>3. CASE Server \/ ServerCloses \/ Others
  <2>0. UNCHANGED <<mpc, upload, unsent>>
    BY <1>3, ServerTakes
  <2>1. ASSUME srv' # "closed", mpc = "up_start", upload.size > 0
        PROVE  srv' = "data"
    <3>1. srv = "data"
      BY <1>0, <1>3, <2>1, ClosedStays DEF FrameInv
    <3>2. srv_left = upload.size
      BY <1>0, <2>1, <3>1 DEF DataInv, Lost
    <3> QED BY <1>3, <2>1, <3>1, <3>2, DataGoesOn
  <2>2. ASSUME srv' # "closed", mpc = "up_data", unsent > 0
        PROVE  srv' = "data"
    <3>1. srv = "data"
      BY <1>0, <1>3, <2>2, ClosedStays DEF FrameInv
    <3>2. srv_left = Len(to_server) + unsent
      BY <1>0, <2>2, <3>1 DEF DataInv, Lost
    <3>3. srv_left # 0
      BY <1>a, <2>2, <3>2
    <3> QED BY <1>3, <2>2, <3>1, <3>3, DataGoesOn
  <2> QED BY <2>0, <2>1, <2>2 DEF FrameInv
<1>4. CASE Finished
  BY <1>0, <1>4 DEF Finished, vars, FrameInv
<1> QED BY <1>1, <1>2, <1>3, <1>4 DEF Next

-----------------------------------------------------------------------------
(* The answers to the current upload.                                      *)

\* No READY after an answer to the current upload.
ReadyFirst(q, k) ==
    \A i, j \in 1 .. Len(q) : i < j /\ q[j].type = "UPLOAD_READY" => q[i].num # k

LEMMA ReadyFirstTail ==
  ASSUME NEW q \in Seq(Items(ToClient)), q # <<>>, NEW k, ReadyFirst(q, k)
  PROVE  /\ ReadyFirst(Tail(q), k)
         /\ Head(q).num = k => \A m \in Elements(Tail(q)) : m.type # "UPLOAD_READY"
<1>1. /\ Len(q) \in Nat \ {0} /\ Head(q) = q[1]
      /\ Len(Tail(q)) = Len(q) - 1
      /\ \A i \in 1 .. Len(Tail(q)) : Tail(q)[i] = q[i + 1]
      /\ \A m \in Elements(Tail(q)) : \E i \in 2 .. Len(q) : q[i] = m
  BY TailElements
<1>2. PICK n \in Nat : n = Len(Tail(q)) /\ Len(q) = n + 1
  <2>1. Len(q) - 1 \in Nat /\ Len(q) = (Len(q) - 1) + 1
    BY <1>1
  <2> QED BY <1>1, <2>1, Zenon
<1>3. ASSUME NEW i \in 1 .. n, NEW j \in 1 .. n, i < j, Tail(q)[j].type = "UPLOAD_READY"
      PROVE  Tail(q)[i].num # k
  <2>1. Tail(q)[i] = q[i + 1] /\ Tail(q)[j] = q[j + 1]
    BY <1>1, <1>2
  <2>2. i + 1 \in 1 .. n + 1 /\ j + 1 \in 1 .. n + 1 /\ i + 1 < j + 1
    BY <1>3
  <2> QED BY <1>2, <1>3, <2>1, <2>2 DEF ReadyFirst
<1>4. ASSUME Head(q).num = k, NEW m \in Elements(Tail(q)), m.type = "UPLOAD_READY"
      PROVE  FALSE
  <2>1. PICK i \in 2 .. n + 1 : q[i] = m
    BY <1>1, <1>2
  <2>2. 1 \in 1 .. n + 1 /\ i \in 1 .. n + 1 /\ 1 < i
    OBVIOUS
  <2> QED BY <1>1, <1>2, <1>4, <2>1, <2>2 DEF ReadyFirst
<1> QED BY <1>2, <1>3, <1>4 DEF ReadyFirst

\* The server's stream grows at its end, and UPLOAD_READY answers the
\* metadata that the server has read.
LEMMA ServerGrows ==
  ASSUME TypeOK, NameInv, Server \/ ServerCloses \/ Others
  PROVE  /\ Len(to_client) \in Nat /\ Len(to_client') \in Nat
         /\ Len(to_client) <= Len(to_client')
         /\ \A i \in 1 .. Len(to_client) : to_client'[i] = to_client[i]
         /\ \A j \in 1 .. Len(to_client') :
               j > Len(to_client) /\ to_client'[j].type = "UPLOAD_READY" =>
                  /\ j = Len(to_client) + 1
                  /\ to_server # <<>> /\ Head(to_server).type = "upload"
<1>0. to_client \in Seq(Items(ToClient)) /\ Len(to_client) \in Nat
  BY UploadShapes
<1>1. CASE to_client' = to_client
  BY <1>0, <1>1
<1>2. ASSUME NEW x \in Items(ToClient), to_client' = Append(to_client, x),
             x.type = "UPLOAD_READY" => to_server # <<>> /\ Head(to_server).type = "upload"
      PROVE  /\ Len(to_client') = Len(to_client) + 1
             /\ \A i \in 1 .. Len(to_client) : to_client'[i] = to_client[i]
             /\ to_client'[Len(to_client) + 1].type = "UPLOAD_READY" =>
                   to_server # <<>> /\ Head(to_server).type = "upload"
  <2>1. /\ Len(to_client') = Len(to_client) + 1
        /\ \A i \in 1 .. Len(to_client) : to_client'[i] = to_client[i]
        /\ to_client'[Len(to_client) + 1] = x
    BY <1>0, <1>2, AppendElements
  <2> QED BY <1>2, <2>1
<1>3. ASSUME NEW f \in Seq(Items(ToClient)), NEW s \in Nat,
             Len(f) = s + 1, f[1].type = "DOWNLOAD_READY",
             \A i \in 2 .. s + 1 : f[i].type = "RAW", to_client' = to_client \o f
      PROVE  /\ Len(to_client') = Len(to_client) + s + 1
             /\ \A i \in 1 .. Len(to_client) : to_client'[i] = to_client[i]
             /\ \A j \in 1 .. Len(to_client') :
                   j > Len(to_client) => to_client'[j].type # "UPLOAD_READY"
  <2>1. /\ Len(to_client') = Len(to_client) + (s + 1)
        /\ \A i \in 1 .. Len(to_client) : to_client'[i] = to_client[i]
        /\ \A i \in Len(to_client) + 1 .. Len(to_client) + (s + 1) :
              to_client'[i] = f[i - Len(to_client)]
    <3>1. /\ Len(to_client') = Len(to_client) + Len(f)
          /\ \A i \in 1 .. Len(to_client) : to_client'[i] = to_client[i]
          /\ \A i \in Len(to_client) + 1 .. Len(to_client) + Len(f) :
                to_client'[i] = f[i - Len(to_client)]
      <4>1. /\ Len(to_client \o f) = Len(to_client) + Len(f)
            /\ \A i \in 1 .. Len(to_client) : (to_client \o f)[i] = to_client[i]
            /\ \A i \in Len(to_client) + 1 .. Len(to_client) + Len(f) :
                  (to_client \o f)[i] = f[i - Len(to_client)]
        BY <1>0, ConcatElements, Zenon
      <4> QED BY <1>3, <4>1, Zenon
    <3> QED BY <1>3, <3>1
  <2>2. ASSUME NEW j \in 1 .. Len(to_client'), j > Len(to_client)
        PROVE  to_client'[j].type # "UPLOAD_READY"
    <3>1. j \in Len(to_client) + 1 .. Len(to_client) + (s + 1)
      BY <1>0, <2>1, <2>2
    <3>2. j - Len(to_client) \in 1 .. s + 1
      BY <1>0, <3>1
    <3>3. f[j - Len(to_client)].type # "UPLOAD_READY"
      BY <1>3, <3>2
    <3> QED BY <2>1, <3>1, <3>3
  <2>3. Len(to_client') = Len(to_client) + s + 1
    BY <1>0, <2>1
  <2> QED BY <2>1, <2>2, <2>3
<1>4. CASE \E x \in Items(ToClient) :
              /\ to_client' = Append(to_client, x)
              /\ x.type = "UPLOAD_READY" =>
                    to_server # <<>> /\ Head(to_server).type = "upload"
  <2>1. /\ Len(to_client') = Len(to_client) + 1
        /\ \A i \in 1 .. Len(to_client) : to_client'[i] = to_client[i]
        /\ to_client'[Len(to_client) + 1].type = "UPLOAD_READY" =>
              to_server # <<>> /\ Head(to_server).type = "upload"
    BY <1>2, <1>4
  <2> QED BY <1>0, <2>1
<1>5. CASE \E f \in Seq(Items(ToClient)), s \in Nat :
               /\ Len(f) = s + 1 /\ f[1].type = "DOWNLOAD_READY"
               /\ \A i \in 2 .. s + 1 : f[i].type = "RAW"
               /\ to_client' = to_client \o f
  <2>1. PICK s \in Nat :
           /\ Len(to_client') = Len(to_client) + s + 1
           /\ \A i \in 1 .. Len(to_client) : to_client'[i] = to_client[i]
           /\ \A j \in 1 .. Len(to_client') :
                 j > Len(to_client) => to_client'[j].type # "UPLOAD_READY"
    BY <1>3, <1>5
  <2> QED BY <1>0, <2>1
<1> QED BY <1>1, <1>4, <1>5, ServerAppends

\* What the client still gets to see comes from what it had to see before.
LEMMA ComingShrinks ==
  ASSUME TypeOK, User \/ Main \/ Receiver, NEW m \in Coming'
  PROVE  m \in Coming
<1>1. Elements(to_client') \subseteq Elements(to_client)
  BY ClientStream
<1>2. ASSUME response_available', m = response'
      PROVE  m \in Coming
  <2>1. CASE User \/ Main
    BY <1>2, <2>1, UploadCases DEF Elsewhere, GivesUp, TakesAnswer, Coming
  <2>2. CASE Receiver /\ response_available' = response_available /\ response' = response
    BY <1>2, <2>2 DEF Coming
  <2>3. CASE Receiver /\ to_client # <<>> /\ response' = Head(to_client)
    BY <1>2, <2>3, TailElements, UploadShapes DEF Coming
  <2> QED BY <2>1, <2>2, <2>3, ReceiverTakes
<1> QED BY <1>1, <1>2 DEF Coming

LEMMA ComingPast ==
  ASSUME NEW m \in Coming
  PROVE  m.num \in Past
  BY PastMembers DEF Coming

\* The numbers of uploads grow.
LEMMA UploadNew ==
  ASSUME TypeOK, OrderInv, User \/ Main, upload' # upload
  PROVE  /\ mpc = "input" /\ mpc' = "up_lock"
         /\ upload'.num \in Nat /\ \A k \in Past : k \in Nat /\ k < upload'.num
<1>1. /\ mpc = "input" /\ mpc' = "up_lock" /\ ncmd' = ncmd + 1
      /\ \E n \in Names, k \in Sizes : upload' = File(ncmd', n, k)
  BY UploadCases DEF Elsewhere, GivesUp, TakesAnswer
<1>2. upload'.num = ncmd + 1 /\ ncmd \in Nat
  BY <1>1, Constants DEF File, TypeOK
<1> QED BY <1>1, <1>2, NewNumber, PastNat

\* The first two parts of AnswerInv.
LEMMA ReadyFirstStep ==
  ASSUME TypeOK, NameInv, OrderInv, MetadataInv, AnswerInv, Next
  PROVE  /\ ReadyFirst(to_client', upload'.num)
         /\ response_available' /\ response'.num = upload'.num =>
              \A m \in Elements(to_client') : m.type # "UPLOAD_READY"
<1> USE DEF session, sending, receiving, disk, streams, server
<1>0. /\ ReadyFirst(to_client, upload.num)
      /\ response_available /\ response.num = upload.num =>
            \A m \in Elements(to_client) : m.type # "UPLOAD_READY"
  BY DEF AnswerInv, ReadyFirst
<1>a. to_client \in Seq(Items(ToClient)) /\ Len(to_client) \in Nat
  BY UploadShapes
<1>1. CASE User \/ Main
  <2>0. response_available' => response_available /\ response' = response
    BY <1>1, UploadCases DEF Elsewhere, GivesUp, TakesAnswer
  <2>1. Elements(to_client') \subseteq Elements(to_client)
    BY <1>1, ClientStream
  <2>2. to_client' \in Seq(Items(ToClient))
    BY <1>1, ClientStream
  <2>3. CASE upload' = upload
    <3>1. ReadyFirst(to_client', upload.num)
      BY <1>0, <1>1, <1>a, MainTakes, ReadyFirstTail
    <3>2. response_available' /\ response'.num = upload.num =>
              \A m \in Elements(to_client') : m.type # "UPLOAD_READY"
      BY <1>0, <2>0, <2>1
    <3> QED BY <2>3, <3>1, <3>2
  <2>4. CASE upload' # upload
    <3>1. upload'.num \in Nat /\ \A k \in Past : k \in Nat /\ k < upload'.num
      BY <1>1, <2>4, UploadNew
    <3>2. \A m \in Elements(to_client') : m.num # upload'.num
      BY <2>1, <3>1, PastMembers
    <3>3. ReadyFirst(to_client', upload'.num)
      BY <3>2 DEF ReadyFirst, Elements
    <3>4. response.num # upload'.num
      BY <3>1, PastMembers
    <3> QED BY <2>0, <3>3, <3>4
  <2> QED BY <2>3, <2>4
<1>2. CASE Receiver
  <2>1. upload' = upload
    BY <1>2, ReceiverTakes
  <2>2. CASE to_client' = to_client /\ UNCHANGED <<response_available, response>>
    BY <1>0, <2>1, <2>2
  <2>3. CASE to_client # <<>> /\ to_client' = Tail(to_client)
             /\ UNCHANGED <<response_available, response>>
    <3>1. Elements(to_client') \subseteq Elements(to_client)
      BY <1>a, <2>3, TailElements
    <3>2. ReadyFirst(to_client', upload.num)
      BY <1>0, <1>a, <2>3, ReadyFirstTail
    <3> QED BY <1>0, <2>1, <2>3, <3>1, <3>2
  <2>4. CASE to_client # <<>> /\ to_client' = Tail(to_client) /\ response' = Head(to_client)
    BY <1>0, <1>a, <2>1, <2>4, ReadyFirstTail
  <2> QED BY <1>2, <2>2, <2>3, <2>4, ReceiverTakes
<1>3. CASE Server \/ ServerCloses \/ Others
  <2>0. upload' = upload /\ response_available' = response_available /\ response' = response
    BY <1>3, ServerTakes
  <2>1. ASSUME to_server # <<>>, Head(to_server).type = "upload"
        PROVE  \A m \in Elements(to_client) \union {response, answer} : m.num # upload.num
    <3>1. Head(to_server) \in Elements(to_server) /\ \A k \in Past : k < Head(to_server).num
      BY <2>1, HeadWaits DEF Request
    <3>2. Head(to_server).num = upload.num
      BY <2>1, <3>1 DEF MetadataInv
    <3> QED BY <3>1, <3>2, PastMembers, UploadShapes
  <2>2. /\ Len(to_client) \in Nat /\ Len(to_client') \in Nat
        /\ Len(to_client) <= Len(to_client')
        /\ \A i \in 1 .. Len(to_client) : to_client'[i] = to_client[i]
        /\ \A j \in 1 .. Len(to_client') :
              j > Len(to_client) /\ to_client'[j].type = "UPLOAD_READY" =>
                 /\ j = Len(to_client) + 1
                 /\ to_server # <<>> /\ Head(to_server).type = "upload"
    BY <1>3, ServerGrows
  <2>3. ASSUME NEW i \in 1 .. Len(to_client'), NEW j \in 1 .. Len(to_client'), i < j,
               to_client'[j].type = "UPLOAD_READY"
        PROVE  to_client'[i].num # upload.num
    <3>1. CASE j <= Len(to_client)
      <4>1. i \in 1 .. Len(to_client) /\ j \in 1 .. Len(to_client)
        BY <2>2, <2>3, <3>1
      <4> QED BY <1>0, <2>2, <2>3, <4>1 DEF ReadyFirst
    <3>2. CASE j > Len(to_client)
      <4>1. j = Len(to_client) + 1 /\ to_server # <<>> /\ Head(to_server).type = "upload"
        BY <2>2, <2>3, <3>2
      <4>2. i \in 1 .. Len(to_client)
        BY <2>2, <2>3, <4>1
      <4>3. to_client'[i] \in Elements(to_client)
        BY <2>2, <4>2 DEF Elements
      <4> QED BY <2>1, <4>1, <4>3
    <3> QED BY <2>2, <3>1, <3>2
  <2>4. ASSUME response_available, response.num = upload.num,
               NEW m \in Elements(to_client'), m.type = "UPLOAD_READY"
        PROVE  FALSE
    <3>1. PICK j \in 1 .. Len(to_client') : to_client'[j] = m
      BY DEF Elements
    <3>2. CASE j <= Len(to_client)
      <4>1. j \in 1 .. Len(to_client)
        BY <2>2, <3>1, <3>2
      <4>2. m \in Elements(to_client)
        BY <2>2, <3>1, <4>1 DEF Elements
      <4> QED BY <1>0, <2>4, <4>2
    <3>3. CASE j > Len(to_client)
      BY <2>1, <2>2, <2>4, <3>1, <3>3
    <3> QED BY <2>2, <3>1, <3>2, <3>3
  <2> QED BY <2>0, <2>3, <2>4 DEF ReadyFirst
<1>4. CASE Finished
  <2>1. UNCHANGED <<to_client, upload, response_available, response>>
    BY <1>4 DEF Finished, vars
  <2> QED BY <1>0, <2>1
<1> QED BY <1>1, <1>2, <1>3, <1>4 DEF Next

\* The server begins to receive an upload only while that one waits.
LEMMA BeginsToReceive ==
  ASSUME TypeOK, NameInv, OrderInv, MetadataInv, Server \/ ServerCloses \/ Others,
         srv # "data", srv' = "data"
  PROVE  /\ mpc = "up_wait" \/ Lost
         /\ \A k \in Past : k \in Nat /\ k < upload.num
<1>1. to_server # <<>> /\ Head(to_server).type = "upload"
  BY ReceivingChanges
<1>2. Head(to_server) \in Elements(to_server) /\ \A k \in Past : k < Head(to_server).num
  BY <1>1, HeadWaits DEF Request
<1>3. Head(to_server).num = upload.num /\ (mpc = "up_wait" \/ Lost)
  BY <1>1, <1>2 DEF MetadataInv
<1> QED BY <1>2, <1>3, PastNat

\* What UPLOAD_READY says, as long as it has not been taken.
LEMMA ReadyStep ==
  ASSUME TypeOK, NameInv, OrderInv, PublishInv, OwnInv, Next, Own',
         NEW m \in Coming', m.type = "UPLOAD_READY"
  PROVE  /\ m.num = upload'.num
         /\ mpc' = "up_wait" \/ Lost'
         /\ mpc' = "up_wait" /\ upload'.size > 0 /\ srv' # "closed" => srv' = "data"
<1> USE DEF session, sending, receiving, disk, streams, server
<1>0. Own /\ MetadataInv /\ DataInv /\ AnswerInv
  BY OwnKept DEF OwnInv
<1>1. CASE m \in Coming
  <2>0. /\ m.num = upload.num
        /\ mpc = "up_wait" \/ Lost
        /\ mpc = "up_wait" /\ upload.size > 0 /\ srv # "closed" => srv = "data"
    BY <1>0, <1>1 DEF AnswerInv
  <2>1. CASE User \/ Main
    <3>1. CASE Lost
      <4>1. Lost' /\ upload' = upload
        BY <2>1, <3>1, LostStays, LostElsewhere DEF Elsewhere
      <4> QED BY <2>0, <4>1 DEF Lost
    <3>2. CASE GivesUp
      BY <2>0, <3>2 DEF GivesUp, UploadLost, GiveUp, Lost
    <3>3. CASE mpc = "up_wait" /\ TakesAnswer /\ (\/ mpc' = "up_start" /\ IsReady(response)
                                                 \/ mpc' = "up_refused")
      <4>1. response.num = upload.num
        <5>1. CASE IsReady(response)
          BY <1>0, <3>3, <5>1 DEF AnswerInv, Coming, IsReady, TakesAnswer
        <5>2. CASE mpc' = "up_refused"
          BY <3>3, <5>2 DEF Own, TakesAnswer
        <5> QED BY <3>3, <5>1, <5>2
      <4>2. \A x \in Elements(to_client) : x.type # "UPLOAD_READY"
        BY <1>0, <3>3, <4>1 DEF AnswerInv, TakesAnswer
      <4>3. m \in Elements(to_client)
        BY <2>1, <3>3, ClientStream DEF Coming, TakesAnswer
      <4> QED BY <4>2, <4>3
    <3> QED BY <2>0, <2>1, <3>1, <3>2, <3>3, UploadCases DEF Elsewhere
  <2>2. CASE Receiver \/ Finished
    <3>1. UNCHANGED <<mpc, upload, srv>>
      BY <2>2, ReceiverTakes DEF Finished, vars
    <3> QED BY <2>0, <3>1, LostStays
  <2>3. CASE Server \/ ServerCloses \/ Others
    <3>1. UNCHANGED <<mpc, upload>>
      BY <2>3, ServerTakes
    <3>2. ASSUME mpc = "up_wait", upload.size > 0, srv' # "closed"
          PROVE  srv' = "data"
      <4>1. srv = "data"
        BY <2>0, <2>3, <3>2, ClosedStays
      <4>2. srv_left = upload.size
        BY <1>0, <3>2, <4>1 DEF DataInv, Lost
      <4> QED BY <2>3, <3>2, <4>1, <4>2, DataGoesOn
    <3> QED BY <2>0, <3>1, <3>2, LostStays
  <2> QED BY <2>1, <2>2, <2>3 DEF Next
<1>2. CASE m \notin Coming
  <2>1. Server \/ ServerCloses \/ Others
    <3>1. CASE User \/ Main \/ Receiver
      BY <1>2, <3>1, ComingShrinks
    <3>2. CASE Finished
      BY <1>2, <3>2 DEF Finished, vars, Coming
    <3> QED BY <3>1, <3>2 DEF Next
  <2>2. UNCHANGED <<mpc, upload, response_available, response>>
    BY <2>1, ServerTakes
  <2>3. m \in Elements(to_client') /\ m \notin Elements(to_client)
    BY <1>2, <2>2 DEF Coming
  <2>4. /\ to_server # <<>> /\ Request(Head(to_server)) /\ m.num = Head(to_server).num
        /\ srv' = "data" /\ Head(to_server).type = "upload"
    BY <2>1, <2>3, ServerAdds
  <2>5. Head(to_server) \in Elements(to_server)
    BY <2>4, HeadWaits
  <2>6. Head(to_server).num = upload.num /\ (mpc = "up_wait" \/ Lost)
    BY <1>0, <2>4, <2>5 DEF MetadataInv
  <2> QED BY <2>2, <2>4, <2>6, LostStays
<1> QED BY <1>1, <1>2

\* What UPLOAD_SUCCESS says, as long as it has not been taken.
LEMMA SuccessStep ==
  ASSUME TypeOK, NameInv, OrderInv, PublishInv, OwnInv, Next, Own',
         NEW m \in Coming', m.num = upload'.num, m.type = "UPLOAD_SUCCESS"
  PROVE  srv' # "data" /\ (mpc' = "up_wait" => upload'.size = 0)
<1> USE DEF session, sending, receiving, disk, streams, server
<1>0. Own /\ MetadataInv /\ DataInv /\ AnswerInv
  BY OwnKept DEF OwnInv
<1>1. CASE m \in Coming
  <2>0. m.num = upload.num => srv # "data" /\ (mpc = "up_wait" => upload.size = 0)
    BY <1>0, <1>1 DEF AnswerInv
  <2>a. m.num \in Past
    BY <1>1, ComingPast
  <2>1. CASE User \/ Main
    <3>1. upload' = upload
      BY <2>1, <2>a, UploadNew
    <3>2. mpc' = "up_wait" => mpc = "up_wait" \/ mpc = "up_meta"
      BY <2>1, UploadCases DEF Elsewhere, GivesUp, UploadLost, GiveUp
    <3>3. mpc # "up_meta"
      BY <2>a, <3>1, NewNumber, UploadShapes
    <3> QED BY <2>0, <2>1, <3>1, <3>2, <3>3, MainTakes
  <2>2. CASE Receiver \/ Finished
    <3>1. UNCHANGED <<mpc, upload, srv>>
      BY <2>2, ReceiverTakes DEF Finished, vars
    <3> QED BY <2>0, <3>1
  <2>3. CASE Server \/ ServerCloses \/ Others
    <3>1. UNCHANGED <<mpc, upload>>
      BY <2>3, ServerTakes
    <3>2. srv' # "data"
      BY <1>0, <2>0, <2>3, <2>a, <3>1, BeginsToReceive
    <3> QED BY <2>0, <3>1, <3>2
  <2> QED BY <2>1, <2>2, <2>3 DEF Next
<1>2. CASE m \notin Coming
  <2>1. Server \/ ServerCloses \/ Others
    <3>1. CASE User \/ Main \/ Receiver
      BY <1>2, <3>1, ComingShrinks
    <3>2. CASE Finished
      BY <1>2, <3>2 DEF Finished, vars, Coming
    <3> QED BY <3>1, <3>2 DEF Next
  <2>2. UNCHANGED <<mpc, upload, response_available, response>>
    BY <2>1, ServerTakes
  <2>3. m \in Elements(to_client') /\ m \notin Elements(to_client)
    BY <1>2, <2>2 DEF Coming
  <2>4. srv = "data" /\ srv_left = 0 /\ srv' = "idle"
    BY <2>1, <2>3, ServerAdds
  <2>5. mpc = "up_wait" => upload.size = 0
    BY <1>0, <2>4 DEF DataInv, Lost
  <2> QED BY <2>2, <2>4, <2>5
<1> QED BY <1>1, <1>2

\* What the answer says that an upload has taken.
LEMMA TakenStep ==
  ASSUME TypeOK, NameInv, OrderInv, PublishInv, OwnInv, Next, Own',
         mpc' \in {"up_refused", "up_idle"}
  PROVE  /\ srv' # "data"
         /\ answer'.type \in {"ERROR", "UPLOAD_SUCCESS"}
         /\ mpc' = "up_refused" /\ upload'.size > 0 => answer'.type = "ERROR"
<1> USE DEF session, sending, receiving, disk, streams, server
<1>0. Own /\ MetadataInv /\ DataInv /\ AnswerInv
  BY OwnKept DEF OwnInv
<1>1. CASE User \/ Main
  <2>1. /\ TakesAnswer
        /\ \/ mpc = "up_wait" /\ mpc' = "up_refused" /\ ~IsReady(response)
           \/ mpc = "up_final" /\ mpc' = "up_idle"
    BY <1>1, UploadCases DEF Elsewhere, GivesUp, UploadLost, GiveUp
  <2>2. /\ response.type \in {"ERROR", "UPLOAD_SUCCESS"}
        /\ srv # "data"
        /\ mpc = "up_wait" /\ upload.size > 0 => response.type = "ERROR"
    BY <1>0, <2>1, OwnAnswer
  <2>3. answer' = response /\ upload' = upload /\ srv' = srv
    BY <1>1, <2>1, MainTakes DEF TakesAnswer
  <2> QED BY <2>1, <2>2, <2>3
<1>2. CASE ~(User \/ Main)
  <2>1. UNCHANGED <<mpc, upload, answer>>
    BY <1>2, InputOnly DEF Next
  <2>2. srv # "data"
    BY <1>0, <2>1 DEF AnswerInv
  <2>3. srv' # "data"
    <3>1. CASE Receiver \/ Finished
      BY <2>2, <3>1, ReceiverTakes DEF Finished, vars
    <3>2. CASE Server \/ ServerCloses \/ Others
      BY <1>0, <2>1, <2>2, <3>2, BeginsToReceive DEF Lost
    <3> QED BY <1>2, <3>1, <3>2 DEF Next
  <2> QED BY <1>0, <2>1, <2>3 DEF AnswerInv
<1> QED BY <1>1, <1>2

LEMMA AnswerStep ==
  ASSUME TypeOK, NameInv, OrderInv, PublishInv, OwnInv, Next, Own'
  PROVE  AnswerInv'
<1>0. Own /\ MetadataInv /\ AnswerInv
  BY OwnKept DEF OwnInv
<1>1. /\ ReadyFirst(to_client', upload'.num)
      /\ response_available' /\ response'.num = upload'.num =>
           \A m \in Elements(to_client') : m.type # "UPLOAD_READY"
  BY <1>0, ReadyFirstStep
<1>2. \A m \in Coming' : m.type = "UPLOAD_READY" =>
         /\ m.num = upload'.num
         /\ mpc' = "up_wait" \/ Lost'
         /\ mpc' = "up_wait" /\ upload'.size > 0 /\ srv' # "closed" => srv' = "data"
  BY ReadyStep
<1>3. \A m \in Coming' : m.num = upload'.num /\ m.type = "UPLOAD_SUCCESS" =>
         srv' # "data" /\ (mpc' = "up_wait" => upload'.size = 0)
  BY SuccessStep
<1>4. mpc' \in {"up_refused", "up_idle"} =>
         /\ srv' # "data"
         /\ answer'.type \in {"ERROR", "UPLOAD_SUCCESS"}
         /\ mpc' = "up_refused" /\ upload'.size > 0 => answer'.type = "ERROR"
  BY TakenStep
<1> QED BY <1>1, <1>2, <1>3, <1>4 DEF AnswerInv, ReadyFirst

-----------------------------------------------------------------------------
(* What uploads return.                                                    *)

LEMMA OutcomeTypes ==
  ASSUME TypeOK, NEW o \in outcome
  PROVE  /\ o.num \in Nat /\ o.by \in Nat /\ o.result \in {0, 1, -1}
         /\ File(o.num, o.name, o.size) \in Files
<1>1. o \in [num : Requests, name : Names \union {None}, size : Sizes,
             result : {0, 1, -1}, by : Requests]
  BY DEF TypeOK
<1>2. o.num \in Requests /\ o.name \in Names \union {None} /\ o.size \in Sizes
      /\ o.by \in Requests /\ o.result \in {0, 1, -1}
  BY <1>1
<1> QED BY <1>2, FileTypes, Constants

LEMMA RefusedStep ==
  ASSUME TypeOK, NameInv, OrderInv, PublishInv, OwnInv, Next, AnswersOwn'
  PROVE  RefusedInv'
<1> USE DEF session, sending, receiving, disk, streams, server
<1>0. AnswersOwn /\ RefusedInv
  BY OwnKept DEF OwnInv
<1>1. CASE User \/ Main
  <2>0. UNCHANGED <<srv, srv_upload, shared>>
    BY <1>1, MainTakes
  <2>1. Own /\ AnswerInv
    BY <1>1, OwnKept DEF OwnInv
  <2> SUFFICES ASSUME NEW o \in outcome', o.result = 1, o.size > 0
               PROVE  /\ o.num > 0
                      /\ ~(srv = "data" /\ srv_upload.num = o.num)
                      /\ \A n \in Names : shared[n] # None => shared[n].num # o.num
    BY <2>0 DEF RefusedInv
  <2>2. CASE o \in outcome
    BY <1>0, <2>2 DEF RefusedInv
  <2>3. CASE /\ mpc \in {"up_refused", "up_idle"}
             /\ o.num = upload.num /\ o.size = upload.size /\ o.by = answer.num
             /\ o.result = IF mpc = "up_refused" THEN 1 ELSE Status(answer)
    <3>1. answer.num = upload.num
      BY <2>1, <2>3 DEF Own
    <3>2. answer.type = "ERROR"
      BY <2>1, <2>3 DEF AnswerInv, Status
    <3>3. upload.num > 0
      BY <2>3 DEF PublishInv, SlotInv, Uploading
    <3> QED BY <2>3, <3>1, <3>2, <3>3 DEF PublishInv, AnsweredInv
  <2> QED BY <1>1, <2>2, <2>3, OutcomeAdds
<1>2. CASE Receiver \/ Finished
  <2>1. UNCHANGED <<outcome, srv, srv_upload, shared>>
    BY <1>2, ReceiverTakes DEF Finished, vars
  <2> QED BY <1>0, <2>1 DEF RefusedInv
<1>3. CASE Server \/ ServerCloses \/ Others
  <2>0. outcome' = outcome
    BY <1>3, ServerTakes
  <2> SUFFICES ASSUME NEW o \in outcome, o.result = 1, o.size > 0
               PROVE  /\ o.num > 0
                      /\ ~(srv' = "data" /\ srv_upload'.num = o.num)
                      /\ \A n \in Names : shared'[n] # None => shared'[n].num # o.num
    BY <2>0 DEF RefusedInv
  <2>1. /\ o.num > 0 /\ o.num \in Nat
        /\ ~(srv = "data" /\ srv_upload.num = o.num)
        /\ \A n \in Names : shared[n] # None => shared[n].num # o.num
    BY <1>0, OutcomeTypes DEF RefusedInv
  <2>2. o.num \in Past
    BY <1>0, PastMembers DEF AnswersOwn
  <2>3. ASSUME srv' = "data", srv_upload'.num = o.num
        PROVE  FALSE
    <3>1. CASE srv = "data" /\ srv_upload' = srv_upload
      BY <2>1, <2>3, <3>1
    <3>2. CASE /\ to_server # <<>> /\ Head(to_server).type = "upload"
               /\ srv_upload' = File(Head(to_server).num, Head(to_server).name,
                                     Head(to_server).size)
      <4>1. \A k \in Past : k < Head(to_server).num
        BY <3>2, HeadWaits DEF Request
      <4>2. srv_upload'.num = Head(to_server).num
        BY <3>2 DEF File
      <4> QED BY <2>1, <2>2, <2>3, <4>1, <4>2
    <3> QED BY <1>3, <2>3, <3>1, <3>2, ReceivingChanges
  <2>4. ASSUME NEW n \in Names, shared'[n] # None
        PROVE  shared'[n].num # o.num
    BY <1>3, <2>1, <2>4, SharedChanges
  <2> QED BY <2>1, <2>3, <2>4
<1> QED BY <1>1, <1>2, <1>3 DEF Next

LEMMA SharedStep ==
  ASSUME TypeOK, NameInv, PublishInv, SharedInv, Next
  PROVE  SharedInv'
<1> USE DEF session, sending, receiving, disk, streams, server
<1>1. CASE User \/ Main
  <2>0. shared' = shared
    BY <1>1, MainTakes
  <2> SUFFICES ASSUME NEW o \in outcome', o.result = 0, o.by = o.num
               PROVE  o.name \in Names /\ shared[o.name] = File(o.num, o.name, o.size)
    BY <2>0 DEF SharedInv
  <2>1. CASE o \in outcome
    BY <2>1 DEF SharedInv
  <2>2. CASE /\ mpc \in {"up_refused", "up_idle"}
             /\ o.num = upload.num /\ o.name = upload.name /\ o.size = upload.size
             /\ o.by = answer.num
             /\ o.result = IF mpc = "up_refused" THEN 1 ELSE Status(answer)
    <3>1. answer.type = "UPLOAD_SUCCESS" /\ answer.num = upload.num
      BY <2>2 DEF Status
    <3>2. upload.name \in Names /\ shared[upload.name] = upload
      BY <3>1 DEF PublishInv, AnsweredInv
    <3> QED BY <2>2, <3>2, UploadShapes, FileParts
  <2> QED BY <1>1, <2>1, <2>2, OutcomeAdds
<1>2. CASE Receiver \/ Finished
  <2>1. UNCHANGED <<outcome, shared>>
    BY <1>2, ReceiverTakes DEF Finished, vars
  <2> QED BY <2>1 DEF SharedInv
<1>3. CASE Server \/ ServerCloses \/ Others
  <2>0. outcome' = outcome
    BY <1>3, ServerTakes
  <2> SUFFICES ASSUME NEW o \in outcome, o.result = 0, o.by = o.num
               PROVE  o.name \in Names /\ shared'[o.name] = File(o.num, o.name, o.size)
    BY <2>0 DEF SharedInv
  <2>1. o.name \in Names /\ shared[o.name] = File(o.num, o.name, o.size)
    BY DEF SharedInv
  <2>2. shared[o.name] # None
    BY <2>1, OutcomeTypes, NoneIsNoFile
  <2> QED BY <1>3, <2>1, <2>2, SharedChanges
<1> QED BY <1>1, <1>2, <1>3 DEF Next

-----------------------------------------------------------------------------
(* The invariant and its consequences.                                     *)

LEMMA UploadInit ==
  ASSUME Init
  PROVE  UploadInv
<1>0. /\ Elements(to_server) = {} /\ Elements(to_client) = {}
      /\ Len(to_server) = 0 /\ Len(to_client) = 0
  BY EmptyElements DEF Init
<1>1. MatchInv
  BY <1>0 DEF Init, MatchInv
<1>2. AnsweredInv
  BY <1>0 DEF Init, AnsweredInv, NoItem, Item, NoFile, File
<1>3. SlotInv
  BY DEF Init, SlotInv, Uploading
<1>4. StreamInv
  BY <1>0 DEF Init, StreamInv, UploadLast
<1>5. MetadataInv /\ DataInv /\ FrameInv
  BY <1>0 DEF Init, MetadataInv, DataInv, FrameInv
<1>6. AnswerInv
  BY <1>0 DEF Init, AnswerInv, Coming
<1>7. RefusedInv /\ SharedInv
  BY DEF Init, RefusedInv, SharedInv
<1> QED BY <1>1, <1>2, <1>3, <1>4, <1>5, <1>6, <1>7 DEF UploadInv, PublishInv, OwnInv

LEMMA UploadStep ==
  ASSUME TypeOK, DownloadInv, UploadInv, [Next]_vars
  PROVE  UploadInv'
<1>0. NameInv /\ OrderInv /\ PublishInv /\ OwnInv /\ SharedInv
  BY DEF DownloadInv, UploadInv
<1>1. CASE Next
  <2>1. PublishInv' /\ SharedInv'
    BY <1>0, <1>1, PublishStep, SharedStep
  <2>2. AnswersOwn' => StreamInv' /\ RefusedInv'
    BY <1>0, <1>1, StreamStep, RefusedStep
  <2>3. Own' => MetadataInv' /\ DataInv' /\ FrameInv' /\ AnswerInv'
    BY <1>0, <1>1, MetadataStep, DataStep, FrameStep, AnswerStep
  <2> QED BY <2>1, <2>2, <2>3 DEF UploadInv, OwnInv
<1>2. CASE UNCHANGED vars
  <2> USE <1>2 DEF vars, session, sending, receiving, disk, streams, server
  <2>1. MatchInv' /\ AnsweredInv' /\ SlotInv' /\ SharedInv'
    BY <1>0 DEF PublishInv, MatchInv, AnsweredInv, SlotInv, SharedInv, Uploading
  <2>2. AnswersOwn' => StreamInv' /\ RefusedInv'
    BY <1>0 DEF OwnInv, AnswersOwn, StreamInv, RefusedInv
  <2>3. Own' => MetadataInv' /\ DataInv' /\ FrameInv' /\ AnswerInv'
    BY <1>0 DEF OwnInv, Own, AnswersOwn, MetadataInv, DataInv, FrameInv, AnswerInv, Lost,
       Coming
  <2> QED BY <2>1, <2>2, <2>3 DEF UploadInv, PublishInv, OwnInv
<1> QED BY <1>1, <1>2

\* The inductive invariant of the client: the numbers of requests, the download
\* directory, both streams and what is known of the current upload.
THEOREM ClientInvariant == Spec => [](TypeOK /\ ClientInv)
<1>1. Init => TypeOK /\ ClientInv
  BY InitHolds, UploadInit DEF ClientInv
<1>2. TypeOK /\ ClientInv /\ [Next]_vars => (TypeOK /\ ClientInv)'
  BY DownloadStep, UploadStep DEF ClientInv
<1> QED BY <1>1, <1>2, PTL DEF Spec

\* As long as every upload takes its own answers, the server reads frames where
\* the client sends frames and blocks where it sends blocks: the input thread
\* sends the data of an upload (upload_client_upload) only after UPLOAD_READY,
\* exactly as many blocks as the metadata promised, and nothing in between.
THEOREM UploadStreamAgreed == Spec => []UploadsInStep
<1>1. TypeOK /\ ClientInv => UploadsInStep
  <2> SUFFICES ASSUME TypeOK, ClientInv, AnswersOwn, to_server # <<>>
               PROVE  /\ srv = "idle" => Head(to_server).type # "RAW"
                      /\ srv = "data" /\ srv_left > 0 => Head(to_server).type = "RAW"
    BY DEF UploadsInStep, StreamAgreed
  <2>1. Head(to_server) \in Elements(to_server)
    BY UploadShapes, TailElements
  <2> QED BY <2>1 DEF ClientInv, UploadInv, OwnInv, StreamInv
<1> QED BY <1>1, ClientInvariant, PTL

\* What an upload returns is what the server did: 0 on its own answer means
\* published under its name with its size, and 1, as long as no upload was
\* misled, means not published now or later, unless the file is empty.
THEOREM UploadsTrue == Spec => []UploadTruth
<1>1. ClientInv => UploadTruth
  BY DEF ClientInv, UploadInv, SharedInv, OwnInv, RefusedInv, UploadTruth
<1> QED BY <1>1, ClientInvariant, PTL
=============================================================================
