-------------------------- MODULE FileOutcomeProofs --------------------------
EXTENDS FileManagerProofs

(***************************************************************************)
(* Proofs about what file requests report to their clients and what they   *)
(* leave behind in the storage directory: ReportsInv is preserved, on top  *)
(* of FileInv.                                                             *)
(***************************************************************************)

\* The functions that the reports are about.
LEMMA ReportShapes ==
  ASSUME TypeOK
  PROVE  /\ list \in [Threads -> Listings]
         /\ reply \in [Threads -> Replies \union {None}]
         /\ temp_created \in [Threads -> BOOLEAN]
         /\ faults \in Nat /\ exits \in Nat /\ removals \in Nat /\ nreq \in Nat
         /\ None \notin Replies
<1>1. list \in [Threads -> Listings] /\ reply \in [Threads -> Replies \union {None}]
  BY DEF TypeOK, CallType
<1>2. temp_created \in [Threads -> BOOLEAN]
  BY DEF TypeOK, TransferType
<1>3. faults \in Nat /\ exits \in Nat /\ removals \in Nat /\ nreq \in Nat
  BY FileManagerAssumption DEF TypeOK, CounterType
<1> QED BY <1>1, <1>2, <1>3, NoneIsNoReply

\* A thread leaves the requests of the others alone.
LEMMA ArriveAlone ==
  ASSUME TypeOK, NEW t \in Threads, Arrive(t), NEW u \in Threads, u # t
  PROVE  /\ pc'[u] = pc[u] /\ req'[u] = req[u] /\ reply'[u] = reply[u]
         /\ list'[u] = list[u] /\ temp'[u] = temp[u]
         /\ temp_created'[u] = temp_created[u]
  BY Shapes, ReportShapes
  DEF Arrive, Upload, Download, List, Refuse, Receive, SendError, Send, Goto,
      disk, transfer

LEMMA SendAlone ==
  ASSUME TypeOK, NEW t \in Threads, NEW u \in Threads, u # t, NEW frame,
         NEW l, SendError(t, frame, l) \/ Abort(t, l)
  PROVE  pc'[u] = pc[u] /\ reply'[u] = reply[u]
  BY Shapes, ReportShapes DEF SendError, Send, Abort, Goto

LEMMA ServeAlone ==
  ASSUME TypeOK, NEW t \in Threads, Serve(t), NEW u \in Threads, u # t
  PROVE  /\ pc'[u] = pc[u] /\ req'[u] = req[u] /\ reply'[u] = reply[u]
         /\ list'[u] = list[u] /\ temp'[u] = temp[u]
         /\ temp_created'[u] = temp_created[u]
<1>1. CASE file_lock_acquire(t) \/ CheckDestination(t)
  BY <1>1, SendAlone, Shapes DEF file_lock_acquire, CheckDestination, Goto, answer,
     disk, transfer
<1>2. CASE ClearTemp(t) \/ CreateTemp(t)
  BY <1>2, SendAlone, Shapes, ReportShapes DEF ClearTemp, CreateTemp, Goto, answer,
     disk, transfer
<1>3. CASE SendReady(t) \/ ReceiveBlock(t) \/ ReceiveFails(t)
  BY <1>3, SendAlone, Shapes, ReportShapes DEF SendReady, ReceiveBlock, ReceiveFails, Send, Goto,
     answer, disk, transfer
<1>4. CASE CloseTemp(t) \/ Publish(t)
  BY <1>4, SendAlone, Shapes DEF CloseTemp, Publish, Goto, answer, disk, transfer
<1>5. CASE RemoveTemp(t) \/ SendSuccess(t) \/ Cleanup(t)
  BY <1>5, Shapes, ReportShapes DEF RemoveTemp, SendSuccess, Cleanup, Send, Goto,
     answer, disk, transfer
<1>6. CASE OpenFile(t) \/ StreamBlock(t) \/ StreamFails(t) \/ StreamEnds(t)
  BY <1>6, SendAlone, Shapes, ReportShapes
     DEF OpenFile, StreamBlock, StreamFails, StreamEnds, Send, Goto, answer, disk, transfer
<1>7. CASE BeginList(t) \/ ReadEntry(t)
  BY <1>7, SendAlone, Shapes, ReportShapes DEF BeginList, ReadEntry, Send, Goto, answer,
     disk, transfer
<1>8. CASE EndList(t) \/ file_lock_release(t) \/ ConnectionEnd(t)
  BY <1>8, SendAlone, Shapes, ReportShapes DEF EndList, file_lock_release, ConnectionEnd, Send,
     Goto, answer, disk, transfer
<1> QED BY <1>1, <1>2, <1>3, <1>4, <1>5, <1>6, <1>7, <1>8 DEF Serve

\* Failed calls, exits and removals are only counted up, and a step of a
\* thread is neither an exit nor a removal.
LEMMA ServeCounts ==
  ASSUME TypeOK, NEW t \in Threads, Arrive(t) \/ Serve(t)
  PROVE  /\ exits' = exits /\ removals' = removals
         /\ faults' = faults \/ faults' = faults + 1
<1>1. CASE Arrive(t)
  BY <1>1 DEF Arrive, Upload, Download, List, Refuse, Receive
<1>2. CASE Serve(t)
  BY <1>2 DEF Serve, file_lock_acquire, CheckDestination, ClearTemp, CreateTemp,
     SendReady, ReceiveBlock, ReceiveFails, CloseTemp, Publish, RemoveTemp,
     SendSuccess, Cleanup, OpenFile, StreamBlock, StreamFails, StreamEnds,
     BeginList, ReadEntry, EndList, file_lock_release, ConnectionEnd, Fault,
     NoFault, counters
<1> QED BY <1>1, <1>2

\* Where an answer leaves the thread that sends it.
LEMMA SendOwn ==
  ASSUME TypeOK, NEW t \in Threads, NEW frame, NEW l
  PROVE  /\ SendError(t, frame, l) => pc'[t] = l /\ reply'[t] \in {reply[t], frame}
         /\ Abort(t, l) => pc'[t] = l /\ reply'[t] = reply[t]
         /\ Goto(t, l) => pc'[t] = l
         /\ \A r \in {0, -1} : Send(t, frame, r) => reply'[t] \in {reply[t], frame}
         /\ Send(t, frame, 0) => reply'[t] = frame
  BY Shapes, ReportShapes DEF SendError, Send, Abort, Goto

-----------------------------------------------------------------------------
(* Where a thread is tells which request it serves.                        *)

\* An answer ends the request, as far as OpInv is concerned.
LEMMA OpRest ==
  ASSUME TypeOK, OpInv, NEW t \in Threads, Arrive(t) \/ Serve(t),
         \/ pc'[t] \in {"idle", "cleanup", "release"}
         \/ /\ pc'[t] = "lock" => req'[t].op \in {"upload", "download"}
            /\ pc'[t] \in Uploading \union {"unlink", "success"} =>
                  req'[t].op = "upload"
            /\ pc'[t] \in {"open", "stream"} => req'[t].op = "download"
            /\ pc'[t] \in {"begin", "readdir"} => req'[t].op = "list"
            /\ reply'[t] \in {None, "UPLOAD_READY", "FILE_LIST_BEGIN"}
  PROVE  OpInv'
<1> SUFFICES ASSUME NEW u \in Threads
             PROVE  /\ pc'[u] = "lock" => req'[u].op \in {"upload", "download"}
                    /\ pc'[u] \in Uploading \union {"unlink", "success"} =>
                          req'[u].op = "upload"
                    /\ pc'[u] \in {"open", "stream"} => req'[u].op = "download"
                    /\ pc'[u] \in {"begin", "readdir"} => req'[u].op = "list"
                    /\ pc'[u] \notin {"idle", "cleanup", "release"} =>
                          reply'[u] \in {None, "UPLOAD_READY", "FILE_LIST_BEGIN"}
  BY DEF OpInv
<1>1. CASE u = t
  BY <1>1 DEF Uploading
<1>2. CASE u # t
  BY <1>2, ArriveAlone, ServeAlone DEF OpInv
<1> QED BY <1>1, <1>2

LEMMA OpStep ==
  ASSUME TypeOK, OpInv, NEW t \in Threads, Arrive(t) \/ Serve(t)
  PROVE  OpInv'
<1> DEFINE Ended == pc'[t] \in {"idle", "cleanup", "release"}
           Silent == reply[t] \in {None, "UPLOAD_READY", "FILE_LIST_BEGIN"}
<1>1. CASE Arrive(t)
  <2>1. CASE Refuse(t)
    BY <2>1, <1>1, SendOwn, OpRest DEF Refuse
  <2>2. CASE \E n \in Names, k \in Sizes : Upload(t, n, k)
    <3>1. pc'[t] = "lock" /\ req'[t].op = "upload" /\ reply'[t] = None
      BY <2>2, Shapes, ReportShapes DEF Upload, Receive, Goto, Request
    <3> QED BY <1>1, <3>1, OpRest DEF Uploading
  <2>3. CASE \E n \in Names : Download(t, n)
    <3>1. pc'[t] = "lock" /\ req'[t].op = "download" /\ reply'[t] = None
      BY <2>3, Shapes, ReportShapes DEF Download, Receive, Goto, Request
    <3> QED BY <1>1, <3>1, OpRest DEF Uploading
  <2>4. CASE List(t)
    <3>1. pc'[t] = "begin" /\ req'[t].op = "list" /\ reply'[t] = None
      BY <2>4, Shapes, ReportShapes DEF List, Receive, Goto, Request
    <3> QED BY <1>1, <3>1, OpRest DEF Uploading
  <2> QED BY <1>1, <2>1, <2>2, <2>3, <2>4 DEF Arrive
<1>2. CASE Serve(t)
  <2>1. CASE file_lock_acquire(t)
    <3>1. req'[t] = req[t] /\ req[t].op \in {"upload", "download"} /\ Silent
      BY <2>1 DEF file_lock_acquire, OpInv
    <3>2. CASE Goto(t, IF req[t].op = "upload" THEN "stat" ELSE "open") /\ UNCHANGED answer
      <4>1. reply'[t] = reply[t]
        BY <3>2 DEF answer
      <4>2. pc'[t] = IF req[t].op = "upload" THEN "stat" ELSE "open"
        BY <3>2, SendOwn
      <4> QED BY <1>2, <3>1, <4>1, <4>2, OpRest DEF Uploading
    <3>3. CASE SendError(t, "FILE_LOCK_FAILED", "idle")
      BY <3>3, <1>2, SendOwn, OpRest
    <3> QED BY <2>1, <3>2, <3>3 DEF file_lock_acquire
  <2>2. CASE CheckDestination(t) \/ ClearTemp(t) \/ CreateTemp(t) \/ CloseTemp(t) \/ Publish(t)
    <3>1. /\ req'[t] = req[t] /\ req[t].op = "upload" /\ Silent
      BY <2>2 DEF CheckDestination, ClearTemp, CreateTemp, CloseTemp, Publish, OpInv, Uploading
    <3>2. \/ \E frame : SendError(t, frame, "cleanup")
          \/ /\ \E l \in {"clear", "create", "ready", "link", "unlink"} : Goto(t, l)
             /\ UNCHANGED answer
      BY <2>2 DEF CheckDestination, ClearTemp, CreateTemp, CloseTemp, Publish
    <3>3. CASE \E frame : SendError(t, frame, "cleanup")
      BY <3>3, <1>2, SendOwn, OpRest
    <3>4. ASSUME NEW l \in {"clear", "create", "ready", "link", "unlink"}, Goto(t, l), UNCHANGED answer
          PROVE  OpInv'
      <4>1. pc'[t] = l /\ reply'[t] = reply[t]
        BY <3>4, SendOwn DEF answer
      <4> QED BY <1>2, <3>1, <4>1, OpRest DEF Uploading
    <3> QED BY <3>2, <3>3, <3>4
  <2>3. CASE SendReady(t)
    <3>1. req'[t] = req[t] /\ req[t].op = "upload"
      BY <2>3 DEF SendReady, OpInv, Uploading
    <3>2. \/ pc'[t] = "cleanup"
          \/ pc'[t] = "recv" /\ reply'[t] = "UPLOAD_READY"
      BY <2>3, SendOwn DEF SendReady
    <3> QED BY <1>2, <3>1, <3>2, OpRest DEF Uploading
  <2>4. CASE ReceiveBlock(t) \/ StreamBlock(t)
    <3>1. pc'[t] = pc[t] /\ req'[t] = req[t] /\ reply'[t] = reply[t]
          /\ pc[t] \in {"recv", "stream"}
      BY <2>4 DEF ReceiveBlock, StreamBlock, answer
    <3> QED BY <1>2, <3>1, OpRest DEF OpInv, Uploading
  <2>5. CASE ReceiveFails(t) \/ StreamFails(t) \/ SendSuccess(t) \/ StreamEnds(t)
             \/ Cleanup(t) \/ file_lock_release(t) \/ EndList(t)
    <3>1. Ended
      BY <2>5, SendOwn DEF ReceiveFails, StreamFails, SendSuccess, StreamEnds,
         Cleanup, file_lock_release, EndList
    <3> QED BY <1>2, <3>1, OpRest
  <2>6. CASE RemoveTemp(t)
    <3>1. /\ pc'[t] = "success" /\ req'[t] = req[t] /\ reply'[t] = reply[t]
          /\ req[t].op = "upload" /\ Silent
      BY <2>6, SendOwn DEF RemoveTemp, answer, OpInv, Uploading
    <3> QED BY <1>2, <3>1, OpRest DEF Uploading
  <2>7. CASE OpenFile(t)
    <3>1. req[t].op = "download" /\ Silent
      BY <2>7 DEF OpenFile, OpInv
    <3>2. CASE \E frame : SendError(t, frame, "cleanup")
      BY <3>2, <1>2, SendOwn, OpRest
    <3>3. CASE Goto(t, "stream") /\ UNCHANGED answer
      <4>1. pc'[t] = "stream" /\ reply'[t] = reply[t]
        BY <3>3, SendOwn DEF answer
      <4>2. req'[t].op = req[t].op
        BY <2>7, Shapes DEF OpenFile, AllRequests
      <4> QED BY <1>2, <3>1, <4>1, <4>2, OpRest DEF Uploading
    <3> QED BY <2>7, <3>2, <3>3 DEF OpenFile
  <2>8. CASE BeginList(t)
    <3>1. req'[t] = req[t] /\ req[t].op = "list"
      BY <2>8 DEF BeginList, OpInv
    <3>2. \/ pc'[t] = "idle"
          \/ pc'[t] = "readdir" /\ reply'[t] = "FILE_LIST_BEGIN"
      BY <2>8, SendOwn DEF BeginList
    <3> QED BY <1>2, <3>1, <3>2, OpRest DEF Uploading
  <2>9. CASE ReadEntry(t)
    <3>1. /\ pc[t] = "readdir" /\ req'[t] = req[t] /\ req[t].op = "list" /\ Silent
          /\ \/ pc'[t] = "idle"
             \/ pc'[t] = "readdir" /\ reply'[t] = reply[t]
      BY <2>9, SendOwn DEF ReadEntry, OpInv, answer
    <3> QED BY <1>2, <3>1, OpRest DEF Uploading
  <2>10. CASE ConnectionEnd(t)
    <3>1. pc'[t] = "idle"
      BY <2>10 DEF ConnectionEnd
    <3> QED BY <1>2, <3>1, OpRest
  <2> QED BY <1>2, <2>1, <2>2, <2>3, <2>4, <2>5, <2>6, <2>7, <2>8, <2>9, <2>10 DEF Serve
<1> QED BY <1>1, <1>2

-----------------------------------------------------------------------------
(* Temporary files.                                                        *)

\* A step whose thread has no temporary file afterwards, knows of the one it
\* has, or has just failed to remove it.
LEMMA TempRest ==
  ASSUME TypeOK, TempInv, NEW t \in Threads, Arrive(t) \/ Serve(t),
         temp'[t] # None /\ t \notin leftover' =>
            /\ temp_created'[t]
            /\ pc'[t] \in {"ready", "recv", "link", "unlink", "cleanup"}
  PROVE  TempInv'
<1> SUFFICES ASSUME NEW u \in Threads, temp'[u] # None, u \notin leftover'
             PROVE  /\ temp_created'[u]
                    /\ pc'[u] \in {"ready", "recv", "link", "unlink", "cleanup"}
  BY DEF TempInv
<1>1. leftover \ {t} \subseteq leftover'
  <2>1. CASE Arrive(t)
    BY <2>1 DEF Arrive, Upload, Download, List, Refuse, Receive, disk
  <2>2. CASE Serve(t)
    BY <2>2 DEF Serve, file_lock_acquire, CheckDestination, ClearTemp, CreateTemp,
       SendReady, ReceiveBlock, ReceiveFails, CloseTemp, Publish, RemoveTemp,
       SendSuccess, Cleanup, OpenFile, StreamBlock, StreamFails, StreamEnds,
       BeginList, ReadEntry, EndList, file_lock_release, ConnectionEnd, disk
  <2> QED BY <2>1, <2>2
<1>2. CASE u = t
  BY <1>2
<1>3. CASE u # t
  BY <1>1, <1>3, ArriveAlone, ServeAlone DEF TempInv
<1> QED BY <1>2, <1>3

LEMMA TempStep ==
  ASSUME TypeOK, TempInv, NEW t \in Threads, Arrive(t) \/ Serve(t)
  PROVE  TempInv'
<1> DEFINE Live == {"ready", "recv", "link", "unlink", "cleanup"}
<1> SUFFICES ASSUME temp'[t] # None, t \notin leftover'
             PROVE  temp_created'[t] /\ pc'[t] \in Live
  BY TempRest
<1>2. temp[t] # None /\ t \notin leftover => temp_created[t] /\ pc[t] \in Live
  BY DEF TempInv
<1>3. CASE Arrive(t)
  <2>1. pc[t] = "idle" /\ temp'[t] = temp[t] /\ leftover' = leftover
    BY <1>3 DEF Arrive, Upload, Download, List, Receive, Refuse, disk
  <2> QED BY <1>2, <2>1
<1>4. CASE Serve(t)
  <2>1. CASE pc[t] \notin Live /\ temp'[t] = temp[t] /\ leftover' = leftover
    BY <1>2, <2>1
  <2>2. CASE /\ pc'[t] \in Live /\ temp'[t] = temp[t] /\ leftover' = leftover
             /\ temp_created'[t] = temp_created[t]
    BY <1>2, <2>2
  <2>3. CASE \/ file_lock_acquire(t) \/ CheckDestination(t) \/ OpenFile(t)
             \/ StreamBlock(t) \/ StreamFails(t) \/ StreamEnds(t) \/ BeginList(t)
             \/ ReadEntry(t) \/ EndList(t) \/ file_lock_release(t)
             \/ ConnectionEnd(t) \/ SendSuccess(t)
    <3>1. pc[t] \notin Live /\ temp' = temp /\ leftover' = leftover
      BY <2>3 DEF file_lock_acquire, CheckDestination, OpenFile, StreamBlock,
         StreamFails, StreamEnds, BeginList, ReadEntry, EndList,
         file_lock_release, ConnectionEnd, SendSuccess, disk
    <3> QED BY <2>1, <3>1
  <2>4. CASE ClearTemp(t)
    <3>1. pc[t] \notin Live
      BY <2>4 DEF ClearTemp
    <3>2. temp'[t] = None \/ (temp' = temp /\ leftover' = leftover)
      BY <2>4, Shapes DEF ClearTemp
    <3> QED BY <2>1, <3>1, <3>2
  <2>8. CASE CreateTemp(t)
    <3>1. CASE Goto(t, "ready") /\ temp_created' = [temp_created EXCEPT ![t] = TRUE]
      BY <3>1, SendOwn, ReportShapes
    <3>2. CASE temp' = temp
      BY <2>1, <2>8, <3>2 DEF CreateTemp
    <3> QED BY <2>8, <3>1, <3>2 DEF CreateTemp
  <2>5. CASE SendReady(t) \/ ReceiveBlock(t) \/ ReceiveFails(t) \/ CloseTemp(t) \/ Publish(t)
    <3>1. temp' = temp /\ temp_created' = temp_created /\ leftover' = leftover
      BY <2>5 DEF SendReady, ReceiveBlock, ReceiveFails, CloseTemp, Publish, disk, transfer
    <3>2. pc'[t] \in Live
      BY <2>5, SendOwn DEF SendReady, ReceiveBlock, ReceiveFails, CloseTemp, Publish
    <3> QED BY <2>2, <3>1, <3>2
  <2>6. CASE RemoveTemp(t)
    BY <2>6, Shapes DEF RemoveTemp
  <2>7. CASE Cleanup(t)
    <3>1. temp_created[t] => temp'[t] = None \/ t \in leftover'
      BY <2>7, Shapes DEF Cleanup
    <3>2. ~temp_created[t] => temp'[t] = temp[t] /\ leftover' = leftover
      BY <2>7 DEF Cleanup
    <3> QED BY <1>2, <3>1, <3>2
  <2> QED BY <1>4, <2>3, <2>4, <2>5, <2>6, <2>7, <2>8 DEF Serve
<1> QED BY <1>3, <1>4

-----------------------------------------------------------------------------
(* What happens to the disk.                                               *)

\* A shared name changes only when an upload that was about to publish links
\* its inode, or when another program adds or removes an entry.
LEMMA StorageStep ==
  ASSUME TypeOK, FileInv, NEW t \in Threads, Arrive(t) \/ Serve(t)
  PROVE  \/ storage' = storage
         \/ /\ pc[t] = "link" /\ storage[req[t].name] = None
            /\ storage' = [storage EXCEPT ![req[t].name] = req[t].num]
            /\ reply' = reply /\ pc'[t] = "unlink" /\ req' = req
<1>1. CASE Arrive(t)
  BY <1>1 DEF Arrive, Upload, Download, List, Receive, Refuse, disk
<1>2. CASE Publish(t)
  <2>1. temp[t] = req[t].num
    BY <1>2 DEF Publish, FileInv, WriteInv
  <2> QED BY <1>2, <2>1, SendOwn DEF Publish, answer
<1>3. CASE Serve(t) /\ ~Publish(t)
  BY <1>3 DEF Serve, file_lock_acquire, CheckDestination, ClearTemp, CreateTemp, SendReady,
     ReceiveBlock, ReceiveFails, CloseTemp, RemoveTemp, SendSuccess, Cleanup, OpenFile,
     StreamBlock, StreamFails, StreamEnds, BeginList, ReadEntry, EndList,
     file_lock_release, ConnectionEnd, disk
<1> QED BY <1>1, <1>2, <1>3

\* An inode that has been handed out and that no upload is writing stays as
\* it is.
LEMMA InodeStep ==
  ASSUME TypeOK, FileInv, [Next]_vars, NEW i \in Ids, i <= nreq,
         \A u \in Threads : pc[u] \in Private => i # req[u].num
  PROVE  inode'[i] = inode[i]
<1>1. ASSUME NEW t \in Threads, CreateTemp(t) PROVE inode'[i] = inode[i]
  <2>1. i # req[t].num
    BY <1>1 DEF CreateTemp, Private
  <2> QED BY <1>1, <2>1, Shapes DEF CreateTemp
<1>2. ASSUME NEW t \in Threads, ReceiveBlock(t) PROVE inode'[i] = inode[i]
  <2>1. i # file_fd[t]
    BY <1>2 DEF ReceiveBlock, FileInv, WriteInv, Private
  <2> QED BY <1>2, <2>1, Shapes DEF ReceiveBlock
<1>3. ASSUME NEW t \in Threads, Serve(t), ~CreateTemp(t), ~ReceiveBlock(t)
      PROVE  inode' = inode
  BY <1>3 DEF Serve, file_lock_acquire, CheckDestination, ClearTemp, SendReady,
       ReceiveFails, CloseTemp, Publish, RemoveTemp, SendSuccess, Cleanup, OpenFile,
       StreamBlock, StreamFails, StreamEnds, BeginList, ReadEntry, EndList,
       file_lock_release, ConnectionEnd, disk
<1>4. ASSUME NEW t \in Threads, Arrive(t) PROVE inode' = inode
  BY <1>4 DEF Arrive, Upload, Download, List, Receive, Refuse, disk
<1>5. CASE World
  <2>1. ASSUME NEW m \in Names, NEW k \in Sizes, NEW b \in BOOLEAN, OthersCreate(m, k, b)
        PROVE  inode'[i] = inode[i]
    BY <2>1, Shapes DEF OthersCreate, Ids
  <2> QED BY <1>5, <2>1 DEF World, Exit, OthersRemove, disk
<1>6. CASE UNCHANGED vars
  BY <1>6 DEF vars, disk
<1> QED BY <1>1, <1>2, <1>3, <1>4, <1>5, <1>6 DEF Next, Finished

\* A request that becomes private to a thread has a number of its own.
LEMMA PrivateStep ==
  ASSUME TypeOK, NEW t \in Threads, Arrive(t) \/ Serve(t), pc'[t] \in Private
  PROVE  \/ pc[t] \in Private /\ req'[t].num = req[t].num
         \/ req'[t].num = nreq + 1
<1>1. CASE Arrive(t)
  <2>1. CASE Refuse(t) \/ List(t)
    <3>1. pc'[t] \in {"idle", "begin"}
      BY <2>1, SendOwn DEF Refuse, List
    <3> QED BY <3>1 DEF Private
  <2>2. CASE \E n \in Names, k \in Sizes : Upload(t, n, k)
    BY <2>2, Shapes DEF Upload, Receive, Request
  <2>3. CASE \E n \in Names : Download(t, n)
    BY <2>3, Shapes DEF Download, Receive, Request
  <2> QED BY <1>1, <2>1, <2>2, <2>3 DEF Arrive
<1>2. CASE \/ file_lock_acquire(t) \/ CheckDestination(t) \/ ClearTemp(t) \/ CreateTemp(t)
           \/ SendReady(t) \/ ReceiveBlock(t) \/ ReceiveFails(t) \/ CloseTemp(t) \/ Publish(t)
  BY <1>2 DEF file_lock_acquire, CheckDestination, ClearTemp, CreateTemp, SendReady,
     ReceiveBlock, ReceiveFails, CloseTemp, Publish, Private
<1>3. CASE \/ RemoveTemp(t) \/ SendSuccess(t) \/ Cleanup(t) \/ OpenFile(t) \/ StreamBlock(t)
           \/ StreamFails(t) \/ StreamEnds(t) \/ BeginList(t) \/ ReadEntry(t) \/ EndList(t)
           \/ file_lock_release(t) \/ ConnectionEnd(t)
  <2>1. pc'[t] \notin Private
    <3>1. pc'[t] \in {"success", "cleanup", "release", "stream", "readdir", "idle"}
      BY <1>3, SendOwn DEF RemoveTemp, SendSuccess, Cleanup, OpenFile, StreamBlock,
         StreamFails, StreamEnds, BeginList, ReadEntry, EndList, file_lock_release,
         ConnectionEnd
    <3> QED BY <3>1 DEF Private
  <2> QED BY <2>1
<1> QED BY <1>1, <1>2, <1>3 DEF Serve

-----------------------------------------------------------------------------
(* The reports of uploads.                                                 *)

\* The report of a thread that does not move stays true when another thread
\* takes a step: it may only publish an inode of its own under a free name.
LEMMA ReportAlone ==
  ASSUME TypeOK, FileInv, ReportInv, NEW t \in Threads, Arrive(t) \/ Serve(t),
         NEW u \in Threads, u # t, req[u].op = "upload"
  PROVE  /\ pc[u] \in {"unlink", "success"} \/ reply[u] = "UPLOAD_SUCCESS" =>
              /\ req[u].name \in Names
              /\ removals = 0 => storage'[req[u].name] = req[u].num
         /\ reply[u] \in Errors => \A n \in Names : storage'[n] # req[u].num
<1>1. CASE storage' = storage
  BY <1>1 DEF ReportInv
<1>2. CASE /\ pc[t] = "link" /\ storage[req[t].name] = None
           /\ storage' = [storage EXCEPT ![req[t].name] = req[t].num]
  <2>1. req[t].num # req[u].num
    <3>1. req[t].num \in Ids
      BY <1>2 DEF FileInv, NumInv
    <3>2. req[t].num # 0
      BY <3>1, Shapes DEF Ids
    <3> QED BY <3>2 DEF FileInv, NumInv
  <2>2. req[u].num # None
    BY Shapes DEF AllRequests
  <2>3. pc[u] \in {"unlink", "success"} \/ reply[u] = "UPLOAD_SUCCESS" =>
          /\ req[u].name \in Names
          /\ removals = 0 => storage[req[u].name] = req[u].num
    BY DEF ReportInv
  <2>4. reply[u] \in Errors => \A n \in Names : storage[n] # req[u].num
    BY DEF ReportInv
  <2>5. \A n \in Names : storage[n] # None => storage'[n] = storage[n]
    BY <1>2, Shapes
  <2>6. \A n \in Names : storage'[n] \in {storage[n], req[t].num}
    BY <1>2, Shapes
  <2> QED BY <2>1, <2>2, <2>3, <2>4, <2>5, <2>6
<1> QED BY <1>1, <1>2, StorageStep

LEMMA ReportRest ==
  ASSUME TypeOK, FileInv, ReportInv, NEW t \in Threads, Arrive(t) \/ Serve(t),
         req'[t].op = "upload" =>
            /\ pc'[t] \in {"unlink", "success"} \/ reply'[t] = "UPLOAD_SUCCESS" =>
                  /\ req'[t].name \in Names
                  /\ removals = 0 => storage'[req'[t].name] = req'[t].num
            /\ reply'[t] \in Errors => \A n \in Names : storage'[n] # req'[t].num
  PROVE  ReportInv'
<1> SUFFICES ASSUME NEW u \in Threads, req'[u].op = "upload"
             PROVE
            /\ pc'[u] \in {"unlink", "success"} \/ reply'[u] = "UPLOAD_SUCCESS" =>
                  /\ req'[u].name \in Names
                  /\ removals' = 0 => storage'[req'[u].name] = req'[u].num
            /\ reply'[u] \in Errors => \A n \in Names : storage'[n] # req'[u].num
  BY DEF ReportInv
<1>1. removals' = removals
  BY ServeCounts
<1>2. CASE u = t
  BY <1>1, <1>2
<1>3. CASE u # t
  <2>1. pc'[u] = pc[u] /\ req'[u] = req[u] /\ reply'[u] = reply[u]
    BY <1>3, ArriveAlone, ServeAlone
  <2> QED BY <1>1, <1>3, <2>1, ReportAlone
<1> QED BY <1>2, <1>3

\* The thread does not answer and its entry stays.
LEMMA ReportSilent ==
  ASSUME TypeOK, FileInv, ReportInv, NEW t \in Threads, Arrive(t) \/ Serve(t),
         storage' = storage, req'[t] = req[t], reply'[t] = reply[t],
         pc'[t] \in {"unlink", "success"} => pc[t] \in {"unlink", "success"}
  PROVE  ReportInv'
<1>1. req'[t].op = "upload" =>
            /\ pc'[t] \in {"unlink", "success"} \/ reply'[t] = "UPLOAD_SUCCESS" =>
                  /\ req'[t].name \in Names
                  /\ removals = 0 => storage'[req'[t].name] = req'[t].num
            /\ reply'[t] \in Errors => \A n \in Names : storage'[n] # req'[t].num
  BY DEF ReportInv
<1> QED BY <1>1, ReportRest

\* An upload that has not published yet sends an error, or UPLOAD_READY.
LEMMA ReportError ==
  ASSUME TypeOK, FileInv, OpInv, ReportInv, NEW t \in Threads, Serve(t),
         pc[t] \in Private, storage' = storage, req'[t] = req[t],
         reply'[t] \in {reply[t], "UPLOAD_READY"} \union Errors,
         pc'[t] \notin {"unlink", "success"}
  PROVE  ReportInv'
<1>1. reply[t] \in {None, "UPLOAD_READY", "FILE_LIST_BEGIN"}
  BY DEF OpInv, Private
<1>2. reply'[t] # "UPLOAD_SUCCESS"
  BY <1>1, ReportShapes DEF Replies, Errors
<1>3. \A n \in Names : storage'[n] # req'[t].num
  BY DEF FileInv, FreshInv
<1> QED BY <1>2, <1>3, ReportRest

LEMMA ReportStep ==
  ASSUME TypeOK, FileInv, OpInv, ReportInv, NEW t \in Threads, Arrive(t) \/ Serve(t)
  PROVE  ReportInv'
<1>1. CASE Arrive(t)
  <2>1. CASE Refuse(t)
    <3>1. req'[t].op = "none"
      BY <2>1, Shapes DEF Refuse, NoRequest, Request
    <3> QED BY <1>1, <3>1, ReportRest
  <2>2. CASE ~Refuse(t)
    <3>1. reply'[t] = None /\ pc'[t] \in {"lock", "begin"}
      BY <1>1, <2>2, ReportShapes, SendOwn DEF Arrive, Upload, Download, List, Receive
    <3> QED BY <1>1, <3>1, ReportRest, ReportShapes DEF Replies
  <2> QED BY <2>1, <2>2
<1>2. CASE Serve(t)
  <2>1. CASE file_lock_acquire(t) \/ CheckDestination(t) \/ ClearTemp(t) \/ CreateTemp(t)
             \/ CloseTemp(t) \/ SendReady(t) \/ ReceiveBlock(t) \/ ReceiveFails(t)
    <3>1. pc[t] \in Private /\ storage' = storage /\ req' = req
      BY <2>1 DEF file_lock_acquire, CheckDestination, ClearTemp, CreateTemp, CloseTemp,
         SendReady, ReceiveBlock, ReceiveFails, Private, disk
    <3>2. pc'[t] \in {"stat", "open", "clear", "create", "ready", "recv", "link",
                       "cleanup", "idle"}
      BY <2>1, SendOwn DEF file_lock_acquire, CheckDestination, ClearTemp, CreateTemp,
         CloseTemp, SendReady, ReceiveBlock, ReceiveFails
    <3>3. \/ reply' = reply \/ Send(t, "UPLOAD_READY", 0)
          \/ \E l : Abort(t, l)
          \/ \E l : \/ SendError(t, "FILE_LOCK_FAILED", l)
                   \/ SendError(t, "FILE_ALREADY_EXISTS", l)
                   \/ SendError(t, "UPLOAD_ERROR", l)
      BY <2>1 DEF file_lock_acquire, CheckDestination, ClearTemp, CreateTemp,
         CloseTemp, SendReady, ReceiveBlock, ReceiveFails, answer
    <3>4. reply'[t] \in {reply[t], "UPLOAD_READY", "FILE_LOCK_FAILED",
                          "FILE_ALREADY_EXISTS", "UPLOAD_ERROR"}
      BY <3>3, SendOwn
    <3> QED BY <1>2, <3>1, <3>2, <3>4, ReportError DEF Errors
  <2>2. CASE Publish(t)
    <3>1. req' = req /\ pc[t] = "link"
      BY <2>2 DEF Publish
    <3>2. CASE storage' = storage /\ \E frame \in Errors : SendError(t, frame, "cleanup")
      <4>1. pc'[t] = "cleanup" /\ reply'[t] \in {reply[t]} \union Errors
        BY <3>2, SendOwn
      <4> QED BY <1>2, <3>1, <3>2, <4>1, ReportError DEF Private
    <3>3. CASE Goto(t, "unlink") /\ UNCHANGED answer
               /\ storage' = [storage EXCEPT ![req[t].name] = temp[t]]
      <4>1. pc'[t] = "unlink" /\ reply'[t] = reply[t]
        BY <3>3, SendOwn DEF answer
      <4>2. reply[t] \in {None, "UPLOAD_READY", "FILE_LIST_BEGIN"}
        BY <3>1 DEF OpInv
      <4>3. reply'[t] \notin Errors
        BY <4>1, <4>2, ReportShapes DEF Errors, Replies
      <4>4. temp[t] = req[t].num /\ req[t].name \in Names
        BY <3>1 DEF FileInv, WriteInv, PlaceInv, Private
      <4>5. storage'[req'[t].name] = req'[t].num
        BY <3>1, <3>3, <4>4, Shapes
      <4> QED BY <1>2, <3>1, <4>3, <4>4, <4>5, ReportRest
    <3> QED BY <2>2, <3>2, <3>3 DEF Publish, Errors
  <2>3. CASE RemoveTemp(t) \/ Cleanup(t) \/ StreamBlock(t) \/ StreamFails(t) \/ ReadEntry(t)
             \/ file_lock_release(t)
    <3>1. storage' = storage /\ req' = req /\ reply' = reply
      BY <2>3 DEF RemoveTemp, Cleanup, StreamBlock, StreamFails, ReadEntry,
         file_lock_release, Abort, answer, disk
    <3>2. CASE RemoveTemp(t)
      BY <1>2, <3>1, <3>2, ReportSilent DEF RemoveTemp
    <3>3. CASE ~RemoveTemp(t)
      <4>1. pc'[t] \in {"release", "stream", "cleanup", "readdir", "idle"}
        BY <2>3, <3>3, SendOwn DEF Cleanup, StreamBlock, StreamFails, ReadEntry,
           file_lock_release
      <4> QED BY <1>2, <3>1, <4>1, ReportSilent
    <3> QED BY <3>2, <3>3
  <2>4. CASE SendSuccess(t)
    <3>1. /\ storage' = storage /\ req' = req /\ pc'[t] = "cleanup" /\ pc[t] = "success"
          /\ reply'[t] \in {reply[t], "UPLOAD_SUCCESS"}
      BY <2>4, SendOwn DEF SendSuccess, disk
    <3>2. reply[t] \in {None, "UPLOAD_READY", "FILE_LIST_BEGIN"}
      BY <3>1 DEF OpInv
    <3>3. reply'[t] \notin Errors
      BY <3>1, <3>2, ReportShapes DEF Errors, Replies
    <3>4. req[t].op = "upload" => req[t].name \in Names /\ (removals = 0 => storage[req[t].name] = req[t].num)
      BY <3>1 DEF ReportInv
    <3> QED BY <1>2, <3>1, <3>3, <3>4, ReportRest
  <2>5. CASE OpenFile(t) \/ StreamEnds(t) \/ BeginList(t) \/ EndList(t) \/ ConnectionEnd(t)
    <3>1. req'[t].op # "upload"
      <4>1. CASE OpenFile(t)
        <5>1. req[t].op = "download"
          BY <4>1 DEF OpenFile, OpInv
        <5>2. req'[t].op = req[t].op
          BY <4>1, Shapes DEF OpenFile, AllRequests
        <5> QED BY <5>1, <5>2
      <4>2. CASE StreamEnds(t) \/ BeginList(t) \/ EndList(t)
        BY <4>2 DEF StreamEnds, BeginList, EndList, OpInv
      <4>3. CASE ConnectionEnd(t)
        BY <4>3, Shapes DEF ConnectionEnd, NoRequest, Request
      <4> QED BY <2>5, <4>1, <4>2, <4>3
    <3> QED BY <1>2, <3>1, ReportRest
  <2> QED BY <1>2, <2>1, <2>2, <2>3, <2>4, <2>5 DEF Serve
<1> QED BY <1>1, <1>2

-----------------------------------------------------------------------------
(* Listings.                                                               *)

\* What an entry adds to a listing on which fstatat() fails ...
LEMMA SkippedFields ==
  ASSUME TypeOK, NEW t \in Threads, NEW n \in Names
  PROVE  /\ Skipped(t, n).present = list[t].present
         /\ Skipped(t, n).seen = list[t].seen \union {n}
         /\ Skipped(t, n).errno = TRUE
         /\ Skipped(t, n).sent = list[t].sent
<1>1. list[t] \in Listings
  BY ReportShapes
<1> QED BY <1>1 DEF Skipped, Listings

\* ... and what any other adds.
LEMMA ListedFields ==
  ASSUME TypeOK, NEW t \in Threads, NEW n \in Names
  PROVE  /\ Listed(t, n).present = list[t].present
         /\ Listed(t, n).seen = list[t].seen \union {n}
         /\ n \in Present => Listed(t, n).errno = list[t].errno
         /\ n \in Present /\ inode[storage[n]].regular =>
               Listed(t, n).sent = list[t].sent \union
                  {[id |-> storage[n], size |-> inode[storage[n]].len]}
         /\ ~(n \in Present /\ inode[storage[n]].regular) =>
               Listed(t, n).sent = list[t].sent
<1> DEFINE e == [id |-> storage[n], size |-> inode[storage[n]].len]
           l == [list[t] EXCEPT !.seen = @ \union {n}]
<1>1. list[t] \in Listings
  BY ReportShapes
<1>2. /\ l \in [present : SUBSET Names, seen : SUBSET Names,
                sent : SUBSET [id : Ids, size : Sizes], errno : BOOLEAN]
      /\ l.present = list[t].present /\ l.seen = list[t].seen \union {n}
      /\ l.sent = list[t].sent /\ l.errno = list[t].errno
  BY <1>1 DEF Listings
<1>3. Listed(t, n) = IF n \notin Present THEN Skipped(t, n)
                     ELSE IF inode[storage[n]].regular
                          THEN [l EXCEPT !.sent = @ \union {e}] ELSE l
  BY DEF Listed
<1> HIDE DEF l, e
<1>4. CASE n \notin Present
  BY <1>3, <1>4, SkippedFields
<1>5. CASE n \in Present /\ inode[storage[n]].regular
  <2>1. Listed(t, n) = [l EXCEPT !.sent = @ \union {e}]
    BY <1>3, <1>5
  <2>2. /\ Listed(t, n).present = l.present /\ Listed(t, n).seen = l.seen
        /\ Listed(t, n).errno = l.errno /\ Listed(t, n).sent = l.sent \union {e}
    BY <1>2, <2>1
  <2> QED BY <1>2, <1>5, <2>2 DEF e
<1>6. CASE n \in Present /\ ~inode[storage[n]].regular
  BY <1>2, <1>3, <1>6
<1> QED BY <1>4, <1>5, <1>6

\* What a step makes of the listing of its thread.
LEMMA ListOwn ==
  ASSUME TypeOK, NEW t \in Threads, Arrive(t) \/ Serve(t)
  PROVE  \/ list'[t] = list[t] /\ pc'[t] # "readdir"
         \/ /\ list'[t] = [NoListing EXCEPT !.present = Present]
            /\ pc'[t] = "readdir" /\ reply'[t] = "FILE_LIST_BEGIN"
            /\ UNCHANGED <<storage, inode>>
         \/ /\ \E n \in Names : /\ Returned(t, n)
                               /\ \/ list'[t] = Listed(t, n)
                                  \/ list'[t] = Skipped(t, n) /\ Fault
            /\ pc[t] = "readdir" /\ pc'[t] = "readdir" /\ reply'[t] = reply[t]
            /\ UNCHANGED <<storage, inode>>
<1>1. CASE Arrive(t)
  <2>1. list' = list
    BY <1>1 DEF Arrive, Upload, Download, List, Refuse, Receive
  <2>2. pc'[t] \in {"lock", "begin", "idle"}
    BY <1>1, SendOwn DEF Arrive, Upload, Download, List, Refuse, Receive
  <2> QED BY <2>1, <2>2
<1>2. CASE BeginList(t)
  <2>1. CASE Send(t, "FILE_LIST_BEGIN", 0) /\ Goto(t, "readdir")
             /\ list' = [list EXCEPT ![t] = [NoListing EXCEPT !.present = Present]]
    BY <1>2, <2>1, SendOwn, ReportShapes DEF BeginList, disk
  <2>2. CASE list' = list /\ \E frame : Abort(t, "idle") \/ SendError(t, frame, "idle")
    <3>1. pc'[t] = "idle"
      BY <2>2, SendOwn
    <3> QED BY <2>2, <3>1
  <2> QED BY <1>2, <2>1, <2>2 DEF BeginList
<1>3. CASE ReadEntry(t)
  <2> PICK n \in Names :
         /\ Returned(t, n)
         /\ \/ /\ list' = [list EXCEPT ![t] = Listed(t, n)]
               /\ UNCHANGED <<pc, answer>>
            \/ /\ Fault /\ list' = [list EXCEPT ![t] = Skipped(t, n)]
               /\ UNCHANGED <<pc, answer>>
            \/ Abort(t, "idle") /\ list' = list
    BY <1>3 DEF ReadEntry
  <2>1. CASE list' = [list EXCEPT ![t] = Listed(t, n)] /\ UNCHANGED <<pc, answer>>
    <3>1. list'[t] = Listed(t, n)
      BY <2>1, ReportShapes
    <3> QED BY <1>3, <2>1, <3>1 DEF ReadEntry, answer, disk
  <2>2. CASE Abort(t, "idle") /\ list' = list
    <3>1. pc'[t] = "idle"
      BY <2>2, SendOwn
    <3> QED BY <2>2, <3>1
  <2>3. CASE Fault /\ list' = [list EXCEPT ![t] = Skipped(t, n)] /\ UNCHANGED <<pc, answer>>
    <3>1. list'[t] = Skipped(t, n)
      BY <2>3, ReportShapes
    <3> QED BY <1>3, <2>3, <3>1 DEF ReadEntry, answer, disk
  <2> QED BY <2>1, <2>2, <2>3
<1>4. CASE Serve(t) /\ ~BeginList(t) /\ ~ReadEntry(t)
  <2>1. list' = list
    BY <1>4 DEF Serve, file_lock_acquire, CheckDestination, ClearTemp, CreateTemp, SendReady,
     ReceiveBlock, ReceiveFails, CloseTemp, Publish, RemoveTemp, SendSuccess, Cleanup,
     OpenFile, StreamBlock, StreamFails, StreamEnds, EndList, file_lock_release, ConnectionEnd
  <2>2. CASE file_lock_acquire(t) \/ CheckDestination(t) \/ ClearTemp(t) \/ CreateTemp(t)
             \/ SendReady(t) \/ ReceiveBlock(t) \/ ReceiveFails(t) \/ CloseTemp(t) \/ Publish(t)
    <3>1. pc'[t] \in {"stat", "open", "clear", "create", "ready", "recv", "link", "unlink",
                      "cleanup", "idle"}
      BY <2>2, SendOwn DEF file_lock_acquire, CheckDestination, ClearTemp, CreateTemp,
         SendReady, ReceiveBlock, ReceiveFails, CloseTemp, Publish
    <3> QED BY <2>1, <3>1
  <2>3. CASE RemoveTemp(t) \/ SendSuccess(t) \/ Cleanup(t) \/ OpenFile(t) \/ StreamBlock(t)
             \/ StreamFails(t) \/ StreamEnds(t) \/ EndList(t) \/ file_lock_release(t)
             \/ ConnectionEnd(t)
    <3>1. pc'[t] \in {"success", "cleanup", "release", "stream", "idle"}
      BY <2>3, SendOwn DEF RemoveTemp, SendSuccess, Cleanup, OpenFile, StreamBlock,
         StreamFails, StreamEnds, EndList, file_lock_release, ConnectionEnd
    <3> QED BY <2>1, <3>1
  <2> QED BY <1>4, <2>2, <2>3 DEF Serve
<1> QED BY <1>1, <1>2, <1>3, <1>4

\* Every entry in the listing of a thread was there before the step, or is
\* one that is shared now.
LEMMA SentOwn ==
  ASSUME TypeOK, NEW t \in Threads, Arrive(t) \/ Serve(t), NEW u \in Threads,
         NEW e \in list'[u].sent
  PROVE  \/ e \in list[u].sent
         \/ \E n \in Present : /\ inode[storage[n]].regular
                               /\ e.id = storage[n] /\ e.size = inode[storage[n]].len
<1>1. CASE u # t
  BY <1>1, ArriveAlone, ServeAlone
<1>2. CASE u = t
  <2>1. CASE list'[t] = list[t]
    BY <1>2, <2>1
  <2>2. CASE list'[t] = [NoListing EXCEPT !.present = Present]
    <3>1. list'[t].sent = {}
      BY <2>2 DEF NoListing
    <3> QED BY <1>2, <3>1
  <2>3. ASSUME NEW n \in Names, list'[t] = Listed(t, n)
        PROVE  \/ e \in list[u].sent
               \/ \E m \in Present : /\ inode[storage[m]].regular
                                     /\ e.id = storage[m] /\ e.size = inode[storage[m]].len
    <3>1. CASE n \in Present /\ inode[storage[n]].regular
      <4>1. e \in list[t].sent \union {[id |-> storage[n], size |-> inode[storage[n]].len]}
        BY <1>2, <2>3, <3>1, ListedFields
      <4> QED BY <1>2, <3>1, <4>1
    <3>2. CASE ~(n \in Present /\ inode[storage[n]].regular)
      BY <1>2, <2>3, <3>2, ListedFields
    <3> QED BY <3>1, <3>2
  <2>4. ASSUME NEW n \in Names, list'[t] = Skipped(t, n) PROVE e \in list[u].sent
    BY <1>2, <2>4, SkippedFields
  <2> QED BY <2>1, <2>2, <2>3, <2>4, ListOwn
<1> QED BY <1>1, <1>2

\* A shared regular file is complete, and no upload can write to it.
LEMMA EntrySound ==
  ASSUME TypeOK, FileInv, NEW n \in Present, inode[storage[n]].regular
  PROVE  /\ storage[n] \in Ids /\ storage[n] <= nreq
         /\ inode[storage[n]] = [regular |-> TRUE, size |-> inode[storage[n]].len,
                                 len |-> inode[storage[n]].len]
         /\ \A u \in Threads : pc[u] \in Private => storage[n] # req[u].num
<1>1. n \in Names /\ storage[n] # None /\ storage[n] \in Ids
  BY Shapes DEF Present
<1>2. storage[n] <= nreq
  BY <1>1 DEF FileInv, NumInv
<1>3. \A u \in Threads : pc[u] \in Private => storage[n] # req[u].num
  BY <1>1 DEF FileInv, FreshInv
<1>4. inode[storage[n]] \in Inodes /\ inode[storage[n]].len = inode[storage[n]].size
  BY <1>1, Shapes DEF FileInv, FilesComplete
<1>5. inode[storage[n]] = [regular |-> TRUE, size |-> inode[storage[n]].len,
                           len |-> inode[storage[n]].len]
  BY <1>4 DEF Inodes
<1> QED BY <1>1, <1>2, <1>3, <1>5

LEMMA CountUp ==
  ASSUME TypeOK, [Next]_vars
  PROVE  nreq <= nreq' /\ nreq' \in Int
<1>1. nreq' \in {nreq, nreq + 1}
  <2>1. ASSUME NEW t \in Threads, Arrive(t) PROVE nreq' \in {nreq, nreq + 1}
    BY <2>1 DEF Arrive, Upload, Download, List, Refuse, Receive
  <2>2. ASSUME NEW t \in Threads, Serve(t) PROVE nreq' = nreq
    BY <2>2 DEF Serve, file_lock_acquire, CheckDestination, ClearTemp, CreateTemp,
     SendReady, ReceiveBlock, ReceiveFails, CloseTemp, Publish, RemoveTemp,
     SendSuccess, Cleanup, OpenFile, StreamBlock, StreamFails, StreamEnds,
     BeginList, ReadEntry, EndList, file_lock_release, ConnectionEnd, counters
  <2>3. World => nreq' \in {nreq, nreq + 1}
    BY DEF World, Exit, OthersCreate, OthersRemove
  <2>4. UNCHANGED vars => nreq' = nreq
    BY DEF vars, counters
  <2> QED BY <2>1, <2>2, <2>3, <2>4 DEF Next, Finished
<1> QED BY <1>1, ReportShapes

\* What a step makes of an entry that is sound before it.
LEMMA SentKept ==
  ASSUME TypeOK, FileInv, [Next]_vars, NEW i \in Ids, NEW k, i <= nreq,
         inode[i] = [regular |-> TRUE, size |-> k, len |-> k],
         \A u \in Threads : pc[u] \in Private => i # req[u].num,
         \A u \in Threads : pc'[u] \in Private =>
            \/ pc[u] \in Private /\ req'[u].num = req[u].num
            \/ req'[u].num = nreq + 1
  PROVE  /\ i <= nreq'
         /\ inode'[i] = [regular |-> TRUE, size |-> k, len |-> k]
         /\ \A u \in Threads : pc'[u] \in Private => i # req'[u].num
<1>1. inode'[i] = inode[i]
  BY InodeStep
<1>2. i <= nreq' /\ i # nreq + 1
  BY CountUp, ReportShapes DEF Ids
<1> QED BY <1>1, <1>2

LEMMA SentStep ==
  ASSUME TypeOK, FileInv, SentInv, NEW t \in Threads, Arrive(t) \/ Serve(t)
  PROVE  SentInv'
<1> SUFFICES ASSUME NEW u \in Threads, NEW e \in list'[u].sent
             PROVE  /\ e.id <= nreq'
                    /\ inode'[e.id] = [regular |-> TRUE, size |-> e.size, len |-> e.size]
                    /\ \A v \in Threads : pc'[v] \in Private => e.id # req'[v].num
  BY DEF SentInv
<1>1. Next
  BY DEF Next
<1>2. \A v \in Threads : pc'[v] \in Private =>
            \/ pc[v] \in Private /\ req'[v].num = req[v].num
            \/ req'[v].num = nreq + 1
  BY PrivateStep, ArriveAlone, ServeAlone
<1>3. /\ e.id \in Ids /\ e.id <= nreq
      /\ inode[e.id] = [regular |-> TRUE, size |-> e.size, len |-> e.size]
      /\ \A v \in Threads : pc[v] \in Private => e.id # req[v].num
  <2>1. CASE e \in list[u].sent
    <3>1. e.id \in Ids
      BY <2>1, ReportShapes DEF Listings
    <3> QED BY <2>1, <3>1 DEF SentInv
  <2>2. ASSUME NEW n \in Present, inode[storage[n]].regular, e.id = storage[n],
               e.size = inode[storage[n]].len
        PROVE  /\ e.id \in Ids /\ e.id <= nreq
               /\ inode[e.id] = [regular |-> TRUE, size |-> e.size, len |-> e.size]
               /\ \A v \in Threads : pc[v] \in Private => e.id # req[v].num
    BY <2>2, EntrySound
  <2> QED BY <2>1, <2>2, SentOwn
<1> QED BY <1>1, <1>2, <1>3, SentKept

-----------------------------------------------------------------------------
(* The end of a listing.                                                   *)

\* A step of a thread keeps every entry and what it shows.
LEMMA ShownKept ==
  ASSUME TypeOK, FileInv, NEW t \in Threads, Arrive(t) \/ Serve(t),
         NEW n \in Names, storage[n] # None
  PROVE  storage'[n] = storage[n] /\ inode'[storage[n]] = inode[storage[n]]
<1>1. inode'[storage[n]] = inode[storage[n]]
  BY KeptStep DEF Next
<1>2. storage'[n] = storage[n]
  BY StorageStep, Shapes
<1> QED BY <1>1, <1>2

\* The listing of a thread that does not move stays as complete as it was.
LEMMA ListKept ==
  ASSUME TypeOK, FileInv, ListInv, NEW u \in Threads,
         \A n \in Names : storage[n] # None =>
            storage'[n] = storage[n] /\ inode'[storage[n]] = inode[storage[n]],
         list'[u] = list[u], removals = 0
  PROVE  /\ pc[u] = "readdir" =>
              /\ \A n \in list'[u].present \union list'[u].seen : storage'[n] # None
              /\ ~list'[u].errno => \A n \in list'[u].seen : Shows(u, n)'
         /\ reply[u] = "FILE_LIST_END" =>
              \A n \in list'[u].present : storage'[n] # None /\ Shows(u, n)'
<1>1. list[u].present \subseteq Names /\ list[u].seen \subseteq Names
  BY ReportShapes DEF Listings
<1>2. ASSUME pc[u] = "readdir"
      PROVE  /\ \A n \in list'[u].present \union list'[u].seen : storage'[n] # None
             /\ ~list'[u].errno => \A n \in list'[u].seen : Shows(u, n)'
  <2>1. /\ \A n \in list[u].present \union list[u].seen : storage[n] # None
        /\ ~list[u].errno => \A n \in list[u].seen : Shows(u, n)
    BY <1>2 DEF ListInv
  <2>2. \A n \in list'[u].present \union list'[u].seen : storage'[n] # None
    BY <1>1, <2>1
  <2>3. ASSUME ~list'[u].errno PROVE \A n \in list'[u].seen : Shows(u, n)'
    BY <1>1, <2>1, <2>3 DEF Shows
  <2> QED BY <2>2, <2>3
<1>3. ASSUME reply[u] = "FILE_LIST_END"
      PROVE  \A n \in list'[u].present : storage'[n] # None /\ Shows(u, n)'
  <2>1. \A n \in list[u].present : storage[n] # None /\ Shows(u, n)
    BY <1>3 DEF ListInv
  <2> QED BY <1>1, <2>1 DEF Shows
<1> QED BY <1>2, <1>3

\* Only the end of a listing reports its end or its failure.
LEMMA EndOwn ==
  ASSUME TypeOK, NEW t \in Threads, Arrive(t) \/ Serve(t),
         reply'[t] \in {"FILE_LIST_END", "FILE_LIST_READ_FAILED"}
  PROVE  reply'[t] = reply[t] \/ EndList(t)
<1>1. CASE Arrive(t)
  <2>1. \/ reply'[t] = None \/ SendError(t, "REQUEST_REFUSED", "idle")
    BY <1>1, ReportShapes DEF Arrive, Upload, Download, List, Refuse, Receive
  <2> QED BY <2>1, SendOwn, ReportShapes DEF Replies, Errors
<1>2. CASE file_lock_acquire(t) \/ CheckDestination(t) \/ ClearTemp(t) \/ CreateTemp(t)
           \/ SendReady(t) \/ ReceiveBlock(t) \/ ReceiveFails(t) \/ CloseTemp(t) \/ Publish(t)
  <2>1. \/ reply' = reply \/ Send(t, "UPLOAD_READY", 0)
        \/ \E l : Abort(t, l)
        \/ \E l : \/ SendError(t, "FILE_LOCK_FAILED", l)
                  \/ SendError(t, "FILE_ALREADY_EXISTS", l)
                  \/ SendError(t, "UPLOAD_ERROR", l)
    BY <1>2 DEF file_lock_acquire, CheckDestination, ClearTemp, CreateTemp,
       SendReady, ReceiveBlock, ReceiveFails, CloseTemp, Publish, answer
  <2>2. reply'[t] \in {reply[t], "UPLOAD_READY", "FILE_LOCK_FAILED",
                      "FILE_ALREADY_EXISTS", "UPLOAD_ERROR"}
    BY <2>1, SendOwn
  <2> QED BY <2>2
<1>3. CASE RemoveTemp(t) \/ Cleanup(t) \/ StreamBlock(t) \/ ReadEntry(t) \/ file_lock_release(t)
           \/ StreamFails(t)
  BY <1>3 DEF RemoveTemp, Cleanup, StreamBlock, ReadEntry, file_lock_release, StreamFails,
     Abort, answer
<1>4. CASE SendSuccess(t) \/ OpenFile(t) \/ StreamEnds(t) \/ BeginList(t)
  <2>1. \/ reply' = reply
        \/ \E r \in {0, -1} : \/ Send(t, "UPLOAD_SUCCESS", r)
                              \/ Send(t, "DOWNLOAD_READY", r)
                              \/ Send(t, "FILE_LIST_BEGIN", r)
        \/ \E l : \/ Abort(t, l)
                  \/ SendError(t, "FILE_NOT_FOUND", l)
                  \/ SendError(t, "DOWNLOAD_ERROR", l)
                  \/ SendError(t, "REQUEST_REFUSED", l)
    BY <1>4 DEF SendSuccess, OpenFile, StreamEnds, BeginList, answer
  <2>2. reply'[t] \in {reply[t], "UPLOAD_SUCCESS", "DOWNLOAD_READY", "FILE_LIST_BEGIN",
                      "FILE_NOT_FOUND", "DOWNLOAD_ERROR", "REQUEST_REFUSED"}
    BY <2>1, SendOwn
  <2> QED BY <2>2
<1>5. CASE ConnectionEnd(t)
  <2>1. reply'[t] = None
    BY <1>5, ReportShapes DEF ConnectionEnd
  <2> QED BY <2>1, ReportShapes DEF Replies, Errors
<1> QED BY <1>1, <1>2, <1>3, <1>4, <1>5 DEF Serve

\* The listing of the thread that takes the step.
LEMMA ListMine ==
  ASSUME TypeOK, FileInv, OpInv, ListInv, NEW t \in Threads, Arrive(t) \/ Serve(t),
         removals = 0
  PROVE  /\ pc'[t] = "readdir" =>
              /\ \A n \in list'[t].present \union list'[t].seen : storage'[n] # None
              /\ ~list'[t].errno => \A n \in list'[t].seen : Shows(t, n)'
         /\ reply'[t] = "FILE_LIST_END" =>
              \A n \in list'[t].present : storage'[n] # None /\ Shows(t, n)'
<1>1. \A n \in Names : storage[n] # None =>
         storage'[n] = storage[n] /\ inode'[storage[n]] = inode[storage[n]]
  BY ShownKept
<1>2. ASSUME pc'[t] = "readdir"
      PROVE  /\ \A n \in list'[t].present \union list'[t].seen : storage'[n] # None
             /\ ~list'[t].errno => \A n \in list'[t].seen : Shows(t, n)'
  <2>1. CASE list'[t] = [NoListing EXCEPT !.present = Present] /\ storage' = storage
    <3>1. list'[t].present = Present /\ list'[t].seen = {}
      BY <2>1 DEF NoListing
    <3> QED BY <2>1, <3>1 DEF Present
  <2>2. ASSUME NEW n \in Names, Returned(t, n), pc[t] = "readdir",
               UNCHANGED <<storage, inode>>,
               list'[t].present = list[t].present,
               list'[t].seen = list[t].seen \union {n}
        PROVE  /\ n \in Present /\ storage[n] # None
               /\ \A m \in list'[t].present \union list'[t].seen : storage'[m] # None
    <3>1. \A m \in list[t].present \union list[t].seen : storage[m] # None
      BY <2>2 DEF ListInv
    <3>2. n \in Present
      BY <2>2, <3>1 DEF Returned, Present
    <3>3. storage[n] # None
      BY <3>2 DEF Present
    <3> QED BY <2>2, <3>1, <3>2, <3>3
  <2>3. ASSUME NEW n \in Names, Returned(t, n), list'[t] = Listed(t, n),
               pc[t] = "readdir", UNCHANGED <<storage, inode>>
        PROVE  /\ \A m \in list'[t].present \union list'[t].seen : storage'[m] # None
               /\ ~list'[t].errno => \A m \in list'[t].seen : Shows(t, m)'
    <3>1. ~list[t].errno => \A m \in list[t].seen : Shows(t, m)
      BY <2>3 DEF ListInv
    <3>2. list'[t].present = list[t].present /\ list'[t].seen = list[t].seen \union {n}
      BY <2>3, ListedFields
    <3>3. /\ n \in Present
          /\ \A m \in list'[t].present \union list'[t].seen : storage'[m] # None
      BY <2>2, <2>3, <3>2
    <3>4. list'[t].errno = list[t].errno
      BY <2>3, <3>3, ListedFields
    <3>6. list[t].sent \subseteq list'[t].sent
      BY <2>3, ListedFields
    <3>7. Shows(t, n)'
      <4>1. ASSUME inode[storage[n]].regular
            PROVE  \E e \in list'[t].sent : e.id = storage[n]
        <5>1. [id |-> storage[n], size |-> inode[storage[n]].len] \in list'[t].sent
          BY <2>3, <3>3, <4>1, ListedFields
        <5> QED BY <5>1
      <4> QED BY <2>3, <4>1 DEF Shows
    <3>8. ASSUME ~list[t].errno PROVE \A m \in list[t].seen : Shows(t, m)'
      BY <2>3, <3>1, <3>6, <3>8 DEF Shows
    <3> QED BY <3>2, <3>3, <3>4, <3>7, <3>8
  <2>4. ASSUME NEW n \in Names, Returned(t, n), list'[t] = Skipped(t, n),
               pc[t] = "readdir", UNCHANGED <<storage, inode>>
        PROVE  /\ \A m \in list'[t].present \union list'[t].seen : storage'[m] # None
               /\ list'[t].errno
    BY <2>2, <2>4, SkippedFields
  <2> QED BY <1>2, <2>1, <2>3, <2>4, ListOwn
<1>3. ASSUME reply'[t] = "FILE_LIST_END"
      PROVE  \A n \in list'[t].present : storage'[n] # None /\ Shows(t, n)'
  <2>1. CASE reply[t] = "FILE_LIST_END"
    <3>1. pc[t] \in {"idle", "cleanup", "release"}
      BY <2>1, ReportShapes DEF OpInv, Replies
    <3>2. list'[t] = list[t]
      BY <1>3, <3>1, ListOwn
    <3> QED BY <1>1, <2>1, <3>2, ListKept
  <2>2. CASE EndList(t) /\ reply[t] # "FILE_LIST_END"
    <3>1. pc[t] = "readdir" /\ list' = list /\ UNCHANGED <<storage, inode>>
      BY <2>2 DEF EndList, disk
    <3>2. AllRead(t) /\ ~list[t].errno
      <4>1. ~SendError(t, "FILE_LIST_READ_FAILED", "idle")
        BY <1>3, <2>2, SendOwn
      <4> QED BY <2>2, <4>1 DEF EndList
    <3>3. list[t].present \subseteq Names
      BY ReportShapes DEF Listings
    <3>4. \A n \in list[t].present : storage[n] # None
      BY <3>1 DEF ListInv
    <3>5. list[t].present \subseteq list[t].seen
      BY <3>2, <3>3, <3>4 DEF AllRead, Present
    <3>6. \A n \in list[t].present : Shows(t, n)
      BY <3>1, <3>2, <3>5 DEF ListInv
    <3> QED BY <3>1, <3>4, <3>6 DEF Shows
  <2> QED BY <1>3, <2>1, <2>2, EndOwn
<1> QED BY <1>2, <1>3

LEMMA ListStep ==
  ASSUME TypeOK, FileInv, OpInv, ListInv, NEW t \in Threads, Arrive(t) \/ Serve(t)
  PROVE  ListInv'
<1> SUFFICES ASSUME NEW u \in Threads, removals' = 0
             PROVE
         /\ pc'[u] = "readdir" =>
              /\ \A n \in list'[u].present \union list'[u].seen : storage'[n] # None
              /\ ~list'[u].errno => \A n \in list'[u].seen : Shows(u, n)'
         /\ reply'[u] = "FILE_LIST_END" =>
              \A n \in list'[u].present : storage'[n] # None /\ Shows(u, n)'
  BY DEF ListInv
<1>1. removals = 0
  BY ServeCounts
<1>2. CASE u = t
  BY <1>1, <1>2, ListMine
<1>3. CASE u # t
  <2>1. pc'[u] = pc[u] /\ reply'[u] = reply[u] /\ list'[u] = list[u]
    BY <1>3, ArriveAlone, ServeAlone
  <2>2. \A n \in Names : storage[n] # None =>
         storage'[n] = storage[n] /\ inode'[storage[n]] = inode[storage[n]]
    BY ShownKept
  <2> QED BY <1>1, <2>1, <2>2, ListKept
<1> QED BY <1>2, <1>3

\* A listing that fails at its end without a failed call found errno set, and
\* so an entry was removed.
LEMMA CauseStep ==
  ASSUME TypeOK, FileInv, ListInv, CauseInv, NEW t \in Threads, Arrive(t) \/ Serve(t)
  PROVE  CauseInv'
<1>1. removals' = removals /\ faults' \in {faults, faults + 1}
  BY ServeCounts
<1>2. faults \in Nat /\ (Fault => faults' > 0)
  BY ReportShapes DEF Fault
<1> SUFFICES ASSUME NEW u \in Threads, removals = 0
             PROVE  /\ pc'[u] = "readdir" /\ list'[u].errno => faults' > 0
                    /\ reply'[u] = "FILE_LIST_READ_FAILED" => faults' > 0
  BY <1>1 DEF CauseInv
<1>3. /\ pc[u] = "readdir" /\ list[u].errno => faults' > 0
      /\ reply[u] = "FILE_LIST_READ_FAILED" => faults' > 0
  BY <1>1, <1>2 DEF CauseInv
<1>4. CASE u # t
  BY <1>3, <1>4, ArriveAlone, ServeAlone
<1>5. CASE u = t
  <2>1. ASSUME pc'[t] = "readdir", list'[t].errno PROVE faults' > 0
    <3>1. CASE list'[t] = [NoListing EXCEPT !.present = Present]
      <4>1. ~list'[t].errno
        BY <3>1 DEF NoListing
      <4> QED BY <2>1, <4>1
    <3>2. ASSUME NEW n \in Names, Returned(t, n), pc[t] = "readdir",
                 list'[t] = Listed(t, n)
          PROVE  faults' > 0
      <4>1. \A m \in list[t].present : storage[m] # None
        BY <3>2 DEF ListInv
      <4>2. n \in Present
        BY <3>2, <4>1 DEF Returned, Present
      <4>3. list'[t].errno = list[t].errno
        BY <3>2, <4>2, ListedFields
      <4> QED BY <1>3, <1>5, <2>1, <3>2, <4>3
    <3> QED BY <1>2, <2>1, <3>1, <3>2, ListOwn
  <2>2. ASSUME reply'[t] = "FILE_LIST_READ_FAILED", EndList(t) PROVE faults' > 0
    <3>1. CASE list[t].errno
      BY <1>3, <1>5, <2>2, <3>1 DEF EndList
    <3>2. CASE ~Fault /\ ~list[t].errno
      <4>1. reply'[t] \in {reply[t], "FILE_LIST_END"}
        BY <2>2, <3>2, SendOwn DEF EndList
      <4> QED BY <1>3, <1>5, <2>2, <4>1
    <3> QED BY <1>2, <3>1, <3>2
  <2>3. reply'[t] = "FILE_LIST_READ_FAILED" => faults' > 0
    BY <1>3, <1>5, <2>2, EndOwn
  <2> QED BY <1>5, <2>1, <2>3
<1> QED BY <1>4, <1>5

-----------------------------------------------------------------------------
(* Exits and other programs.                                               *)

\* After an exit no thread serves a request.
LEMMA ReportsExit == TypeOK /\ Exit => ReportsInv'
<1> SUFFICES ASSUME TypeOK, Exit PROVE ReportsInv'
  OBVIOUS
<1>1. \A t \in Threads : /\ pc'[t] = "idle" /\ reply'[t] = None
                         /\ req'[t].op = "none" /\ list'[t].sent = {}
  BY DEF Exit, NoRequest, Request, NoListing
<1>2. \A t \in Threads : temp'[t] # None => t \in leftover'
  BY DEF Exit
<1>3. None # "FILE_LIST_END" /\ None # "FILE_LIST_READ_FAILED"
  BY ReportShapes DEF Replies, Errors
<1>4. OpInv' /\ TempInv'
  BY <1>1, <1>2 DEF OpInv, TempInv, Uploading
<1>5. ReportInv' /\ SentInv' /\ ListInv'
  BY <1>1, <1>3 DEF ReportInv, SentInv, ListInv
<1>6. CauseInv'
  BY <1>1, <1>3 DEF CauseInv
<1> QED BY <1>4, <1>5, <1>6 DEF ReportsInv

\* Another program adds an entry, with an inode of its own.
LEMMA ReportsCreate ==
  ASSUME TypeOK, FileInv, ReportsInv, NEW n \in Names, NEW k \in Sizes,
         NEW b \in BOOLEAN, OthersCreate(n, k, b)
  PROVE  ReportsInv'
<1>1. /\ nreq' = nreq + 1 /\ storage[n] = None
      /\ storage' = [storage EXCEPT ![n] = nreq + 1]
      /\ UNCHANGED <<temp, leftover, temp_created, pc, req, list, reply, faults, removals>>
  BY DEF OthersCreate, answer, transfer
<1>2. [Next]_vars
  BY DEF Next, World
<1>3. OpInv' /\ TempInv' /\ CauseInv'
  BY <1>1 DEF ReportsInv, OpInv, TempInv, CauseInv, Uploading
<1>4. \A m \in Names : storage[m] # None =>
         storage'[m] = storage[m] /\ inode'[storage[m]] = inode[storage[m]]
  <2>1. \A m \in Names : storage[m] # None => storage'[m] = storage[m]
    BY <1>1, Shapes
  <2> QED BY <1>2, <2>1, KeptStep
<1>5. ReportInv'
  <2> SUFFICES ASSUME NEW t \in Threads, req[t].op = "upload"
               PROVE
            /\ pc[t] \in {"unlink", "success"} \/ reply[t] = "UPLOAD_SUCCESS" =>
                  /\ req[t].name \in Names
                  /\ removals = 0 => storage'[req[t].name] = req[t].num
            /\ reply[t] \in Errors => \A m \in Names : storage'[m] # req[t].num
    BY <1>1 DEF ReportInv
  <2>1. req[t].num \in Nat /\ req[t].num # None /\ req[t].num # nreq + 1
    BY Shapes, ReportShapes DEF FileInv, NumInv, AllRequests
  <2>2. \A m \in Names : storage'[m] \in {storage[m], nreq + 1}
    BY <1>1, Shapes
  <2>3. pc[t] \in {"unlink", "success"} \/ reply[t] = "UPLOAD_SUCCESS" =>
          /\ req[t].name \in Names
          /\ removals = 0 => storage[req[t].name] = req[t].num
    BY DEF ReportsInv, ReportInv
  <2>4. reply[t] \in Errors => \A m \in Names : storage[m] # req[t].num
    BY DEF ReportsInv, ReportInv
  <2> QED BY <1>4, <2>1, <2>2, <2>3, <2>4
<1>6. SentInv'
  <2> SUFFICES ASSUME NEW t \in Threads, NEW e \in list[t].sent
               PROVE  /\ e.id <= nreq'
                      /\ inode'[e.id] = [regular |-> TRUE, size |-> e.size, len |-> e.size]
                      /\ \A u \in Threads : pc'[u] \in Private => e.id # req'[u].num
    BY <1>1 DEF SentInv
  <2>1. e.id \in Ids
    BY ReportShapes DEF Listings
  <2>2. /\ e.id <= nreq
        /\ inode[e.id] = [regular |-> TRUE, size |-> e.size, len |-> e.size]
        /\ \A u \in Threads : pc[u] \in Private => e.id # req[u].num
    BY DEF ReportsInv, SentInv
  <2> QED BY <1>1, <1>2, <2>1, <2>2, SentKept
<1>7. ListInv'
  <2>1. ListInv
    BY DEF ReportsInv
  <2>2. ASSUME NEW t \in Threads, removals = 0
        PROVE  /\ pc[t] = "readdir" =>
                  /\ \A m \in list'[t].present \union list'[t].seen : storage'[m] # None
                  /\ ~list'[t].errno => \A m \in list'[t].seen : Shows(t, m)'
               /\ reply[t] = "FILE_LIST_END" =>
                  \A m \in list'[t].present : storage'[m] # None /\ Shows(t, m)'
    BY <1>1, <1>4, <2>1, <2>2, ListKept
  <2> QED BY <1>1, <2>2 DEF ListInv
<1> QED BY <1>3, <1>5, <1>6, <1>7 DEF ReportsInv

\* Another program removes an entry.
LEMMA ReportsRemove ==
  ASSUME TypeOK, ReportsInv, NEW n \in Names, OthersRemove(n)
  PROVE  ReportsInv'
<1>1. /\ removals' = removals + 1 /\ storage' = [storage EXCEPT ![n] = None]
      /\ UNCHANGED <<temp, inode, leftover, temp_created, pc, req, list, reply, nreq, faults>>
  BY DEF OthersRemove, answer, transfer
<1>2. removals' # 0 /\ removals' > 0
  BY <1>1, ReportShapes
<1>3. OpInv' /\ TempInv' /\ SentInv'
  BY <1>1 DEF ReportsInv, OpInv, TempInv, SentInv, Uploading, Private
<1>4. ListInv' /\ CauseInv'
  BY <1>2 DEF ListInv, CauseInv
<1>5. ReportInv'
  <2>1. \A t \in Threads : req[t].num # None
    BY Shapes DEF AllRequests
  <2>2. \A m \in Names : storage'[m] \in {storage[m], None}
    BY <1>1, Shapes
  <2> QED BY <1>1, <1>2, <2>1, <2>2 DEF ReportsInv, ReportInv
<1> QED BY <1>3, <1>4, <1>5 DEF ReportsInv

-----------------------------------------------------------------------------
(* The invariant of the reports.                                           *)

LEMMA ReportsInit == Init => ReportsInv
<1> SUFFICES ASSUME Init PROVE ReportsInv
  OBVIOUS
<1>1. \A t \in Threads : /\ pc[t] = "idle" /\ reply[t] = None /\ temp[t] = None
                         /\ req[t].op = "none" /\ list[t].sent = {}
  BY DEF Init, NoRequest, Request, NoListing
<1>2. None # "FILE_LIST_END" /\ None # "FILE_LIST_READ_FAILED"
  BY NoneIsNoReply DEF Replies, Errors
<1> QED BY <1>1, <1>2 DEF ReportsInv, OpInv, TempInv, ReportInv, SentInv, ListInv,
        CauseInv, Uploading

LEMMA ReportsStep ==
  TypeOK /\ FileInv /\ ReportsInv /\ [Next]_vars => ReportsInv'
<1> SUFFICES ASSUME TypeOK, FileInv, ReportsInv, [Next]_vars PROVE ReportsInv'
  OBVIOUS
<1>1. ASSUME NEW t \in Threads, Arrive(t) \/ Serve(t) PROVE ReportsInv'
  <2>1. OpInv' /\ TempInv' /\ ReportInv'
    BY <1>1, OpStep, TempStep, ReportStep DEF ReportsInv
  <2>2. SentInv' /\ ListInv' /\ CauseInv'
    BY <1>1, SentStep, ListStep, CauseStep DEF ReportsInv
  <2> QED BY <2>1, <2>2 DEF ReportsInv
<1>2. CASE World
  BY <1>2, ReportsExit, ReportsCreate, ReportsRemove DEF World
<1>3. CASE UNCHANGED vars
  <2>1. UNCHANGED <<storage, temp, inode, leftover, pc, req, temp_created, list, reply,
                    nreq, faults, removals>>
    BY <1>3 DEF vars, disk, transfer, answer, counters
  <2>2. OpInv' /\ TempInv' /\ ReportInv'
    BY <2>1 DEF ReportsInv, OpInv, TempInv, ReportInv, Uploading
  <2>3. SentInv' /\ ListInv' /\ CauseInv'
    BY <2>1 DEF ReportsInv, SentInv, ListInv, Shows, CauseInv, Private
  <2> QED BY <2>2, <2>3 DEF ReportsInv
<1> QED BY <1>1, <1>2, <1>3 DEF Next, Finished

\* What threads report and leave behind, in every reachable state.
THEOREM ReportsInvariant == Spec => []ReportsInv
<1>1. Init => ReportsInv
  BY ReportsInit
<1>2. TypeOK /\ FileInv /\ ReportsInv /\ [Next]_vars => ReportsInv'
  BY ReportsStep
<1> QED BY <1>1, <1>2, FileInvariant, PTL DEF Spec

\* Unless removing it failed or the server ended, a temporary file belongs to
\* an upload that will still remove it, whatever other call has failed: no early
\* exit of file_manager_handle_upload leaves one behind.
THEOREM TempsAreRemoved == Spec => []TempsRemoved
<1>1. ReportsInv => TempsRemoved
  BY DEF ReportsInv, TempInv, TempsRemoved
<1> QED BY <1>1, ReportsInvariant, PTL

\* The answer to an upload says what became of its file: after UPLOAD_SUCCESS
\* it is shared until another program removes it, and after an error it never
\* is, whatever other uploads and programs do to the name.
THEOREM UploadsReported == Spec => []UploadOutcome
<1>1. ReportsInv => UploadOutcome
  BY DEF ReportsInv, ReportInv, UploadOutcome
<1> QED BY <1>1, ReportsInvariant, PTL

\* A listing, which takes no lock, sends only complete files with their sizes,
\* and when it ends with FILE_LIST_END it has missed no file that was there
\* from its beginning.
THEOREM ListingsFaithful == Spec => []ListingFaithful
<1>1. ReportsInv => ListingFaithful
  BY DEF ReportsInv, SentInv, ListInv, Shows, ListingFaithful
<1> QED BY <1>1, ReportsInvariant, PTL

\* As long as no other program removes an entry under a listing,
\* FILE_LIST_READ_FAILED is sent only after a failed call: the errno that
\* file_manager_handle_list looks at is never one from before its loop.  With
\* removals it is not so.
THEOREM ListingsFailForCause ==
  ASSUME MaxRemovals = 0
  PROVE  Spec => []ListingFailsForCause
<1>1. TypeOK => removals = 0
  BY DEF TypeOK, CounterType
<1>2. ReportsInv /\ removals = 0 => ListingFailsForCause
  BY DEF ReportsInv, CauseInv, ListingFailsForCause
<1> QED BY <1>1, <1>2, ReportsInvariant, FileTypes, PTL
=============================================================================
