----------------------------- MODULE FileManager -----------------------------
(***************************************************************************)
(* The shared files of the SyncChat server (server/file_manager.c) and     *)
(* their locks (server/file_lock.c).                                       *)
(*                                                                         *)
(* Handler threads serve uploads, downloads and listings over one storage  *)
(* directory.  An upload is written to a hidden temporary file and         *)
(* published under its name with linkat(); an open-file-description lock   *)
(* per name, exclusive for uploads and shared for downloads, orders them.  *)
(* A listing takes no lock.                                                *)
(*                                                                         *)
(* The disk is modelled down to inodes, because linkat() gives one inode   *)
(* two names: if the temporary name cannot be removed, it stays a second   *)
(* name of the published file.  Request number i creates inode i, if any.  *)
(* File contents are counted in FILE_CHUNK_SIZE blocks.                    *)
(***************************************************************************)
EXTENDS Integers, FiniteSets

CONSTANTS
    Threads,       \* handler threads; one stands for its temporary name,
                   \* .upload-<pid>-<fd>-<tid>.tmp, which later threads reuse
    Names,         \* valid shared filenames
    MaxSize,       \* bound: blocks of a file
    MaxRequests,   \* bound: requests, and files made by others
    MaxFaults,     \* bound: failing file-system calls
    MaxExits,      \* bound: exits of the server process
    MaxRemovals,   \* bound: entries removed by other programs
    Operations,    \* the requests made: a subset of OperationKinds
    None           \* no inode, no name, no frame

OperationKinds == {"upload", "download", "list", "external"}

ASSUME FileManagerAssumption ==
    /\ MaxSize \in Nat
    /\ MaxRequests \in Nat
    /\ MaxFaults \in Nat
    /\ MaxExits \in Nat
    /\ MaxRemovals \in Nat
    /\ Operations \subseteq OperationKinds
    /\ None \notin Names \union Threads \union Nat

VARIABLES
    storage,       \* storage directory: shared name -> inode, or None
    temp,          \* storage directory: temporary name -> inode, or None
    inode,         \* inode -> its type, promised size and contents
    leftover,      \* history: the temporary names that stayed because removing
                   \* them failed or the server ended
    pc,            \* where each thread is
    req,           \* the request it serves
    lock,          \* its lock on the requested name
    file_fd,       \* the inode it has open, or None
    temp_created,  \* upload: the temporary file must be removed
    write_failed,  \* upload: a write has failed
    remaining,     \* blocks still to receive or to stream
    owed,          \* client: promised blocks it has not sent yet
    list,          \* the listing in progress
    reply,         \* the last frame sent for the request, or None
    result,        \* 0, or -1 when the connection must end
    nreq,          \* requests so far: numbers requests and inodes
    faults,        \* failed file-system calls so far
    exits,         \* exits of the server so far
    removals       \* entries removed by other programs so far

disk == <<storage, temp, inode, leftover>>
transfer == <<file_fd, temp_created, write_failed, remaining, owed>>
answer == <<reply, result>>
counters == <<nreq, faults, exits, removals>>
vars == <<disk, pc, req, lock, transfer, list, answer, counters>>

-----------------------------------------------------------------------------
(* Data.                                                                   *)

Ids == 1 .. MaxRequests
Sizes == 0 .. MaxSize

\* len blocks of the size promised; regular is the answer of S_ISREG.
Inodes == [regular : BOOLEAN, size : Sizes, len : Sizes]

EmptyInode == [regular |-> TRUE, size |-> 0, len |-> 0]

Request(op, n, k, i) == [op |-> op, name |-> n, size |-> k, num |-> i]

AllRequests == [op : {"upload", "download", "list", "none"},
                name : Names \union {None}, size : Sizes, num : Nat]

NoRequest == Request("none", None, 0, 0)

\* present: the entries when the directory was opened; seen: the entries
\* readdir() has returned; sent: the entries sent, with their sizes; errno:
\* whether errno is nonzero.
Listings == [present : SUBSET Names, seen : SUBSET Names,
             sent : SUBSET [id : Ids, size : Sizes], errno : BOOLEAN]

NoListing == [present |-> {}, seen |-> {}, sent |-> {}, errno |-> FALSE]

\* UPLOAD_ERROR and DOWNLOAD_ERROR stand for the errors that report a failed
\* file-system call or an entry that is not a shareable file.
Errors == {"REQUEST_REFUSED", "FILE_LOCK_FAILED", "FILE_ALREADY_EXISTS",
           "UPLOAD_ERROR", "FILE_NOT_FOUND", "DOWNLOAD_ERROR",
           "FILE_LIST_READ_FAILED"}

Replies == Errors \union
    {"UPLOAD_READY", "UPLOAD_SUCCESS", "DOWNLOAD_READY", "FILE_LIST_BEGIN",
     "FILE_LIST_END"}

ASSUME NoneIsNoReply == None \notin Replies

Pcs == {"idle", "lock", "stat", "clear", "create", "ready", "recv", "link",
        "unlink", "success", "open", "stream", "begin", "readdir", "cleanup",
        "release"}

Present == {n \in Names : storage[n] # None}

-----------------------------------------------------------------------------
(* Steps that several requests share.                                      *)

\* A call to the file system fails.
Fault == faults < MaxFaults /\ faults' = faults + 1
NoFault == faults' = faults

Goto(t, l) == pc' = [pc EXCEPT ![t] = l]

\* client_manager_send: the frame is sent, or the send fails.
Send(t, frame, r) ==
    /\ reply' = [reply EXCEPT ![t] = IF r = 0 THEN frame ELSE @]
    /\ result' = [result EXCEPT ![t] = r]

\* result = send_error(...); then on to l.
SendError(t, frame, l) ==
    /\ \E r \in {0, -1} : Send(t, frame, r)
    /\ Goto(t, l)

\* The connection is of no more use: result = -1.
Abort(t, l) ==
    /\ result' = [result EXCEPT ![t] = -1]
    /\ reply' = reply
    /\ Goto(t, l)

\* The handler of client_handler.c receives a request.
Receive(t, r) ==
    /\ pc[t] = "idle"
    /\ result[t] = 0
    /\ nreq < MaxRequests
    /\ nreq' = nreq + 1
    /\ req' = [req EXCEPT ![t] = r]
    /\ reply' = [reply EXCEPT ![t] = None]
    /\ result' = result
    /\ UNCHANGED <<disk, lock, transfer, list, faults, exits, removals>>

\* A request is turned down before any lock: malformed metadata, a name that
\* is not valid, or storage that cannot be reached.
Refuse(t) ==
    /\ pc[t] = "idle"
    /\ result[t] = 0
    /\ nreq < MaxRequests
    /\ nreq' = nreq + 1
    /\ req' = [req EXCEPT ![t] = NoRequest]
    /\ SendError(t, "REQUEST_REFUSED", "idle")
    /\ UNCHANGED <<disk, lock, transfer, list, faults, exits, removals>>

\* The kernel grants a lock on the lock file of n.
Compatible(t, mode) ==
    \A u \in Threads \ {t} :
        req[u].name = req[t].name /\ lock[u] # "none" =>
            mode = "shared" /\ lock[u] = "shared"

\* Mutant of LockMode: uploads take a shared lock.
LockModeShared(t) == "shared"

LockMode(t) == IF req[t].op = "upload" THEN "exclusive" ELSE "shared"

\* fcntl(F_OFD_SETLKW) waits for the lock; a call that fails gives it up.
file_lock_acquire(t) ==
    /\ pc[t] = "lock"
    /\ \/ /\ Compatible(t, LockMode(t))
          /\ lock' = [lock EXCEPT ![t] = LockMode(t)]
          /\ Goto(t, IF req[t].op = "upload" THEN "stat" ELSE "open")
          /\ NoFault
          /\ UNCHANGED answer
       \/ /\ Fault
          /\ lock' = lock
          /\ SendError(t, "FILE_LOCK_FAILED", "idle")
    /\ UNCHANGED <<disk, req, transfer, list, nreq, exits, removals>>

\* Closing the lock file drops the lock even when F_UNLCK fails.
file_lock_release(t) ==
    /\ pc[t] = "release"
    /\ lock' = [lock EXCEPT ![t] = "none"]
    /\ Goto(t, "idle")
    /\ UNCHANGED <<disk, req, transfer, list, answer, counters>>

\* A negative result ends the connection; a new one takes over the
\* descriptor and thread, and so the temporary name.
ConnectionEnd(t) ==
    /\ pc[t] = "idle" /\ result[t] = -1
    /\ result' = [result EXCEPT ![t] = 0]
    /\ reply' = [reply EXCEPT ![t] = None]
    /\ owed' = [owed EXCEPT ![t] = 0]
    /\ req' = [req EXCEPT ![t] = NoRequest]
    /\ UNCHANGED <<disk, pc, lock, file_fd, temp_created, write_failed,
                   remaining, list, counters>>

-----------------------------------------------------------------------------
(* Uploads.                                                                *)

Upload(t, n, k) ==
    /\ "upload" \in Operations
    /\ Receive(t, Request("upload", n, k, nreq'))
    /\ Goto(t, "lock")

\* fstatat() of the destination, under the exclusive lock.
CheckDestination(t) ==
    /\ pc[t] = "stat"
    /\ \/ /\ storage[req[t].name] # None
          /\ SendError(t, "FILE_ALREADY_EXISTS", "cleanup")
          /\ NoFault
       \/ /\ storage[req[t].name] = None
          /\ Goto(t, "clear")
          /\ NoFault
          /\ UNCHANGED answer
       \/ /\ Fault
          /\ SendError(t, "UPLOAD_ERROR", "cleanup")
    /\ UNCHANGED <<disk, req, lock, transfer, list, nreq, exits, removals>>

\* Mutant of ClearTemp: a stale temporary file is truncated and used again.
ClearTempTruncating(t) ==
    /\ pc[t] = "clear"
    /\ IF temp[t] = None
       THEN Goto(t, "create") /\ UNCHANGED <<inode, file_fd, temp_created>>
       ELSE /\ inode' = [inode EXCEPT ![temp[t]] =
                            [regular |-> TRUE, size |-> req[t].size, len |-> 0]]
            /\ file_fd' = [file_fd EXCEPT ![t] = temp[t]]
            /\ temp_created' = [temp_created EXCEPT ![t] = TRUE]
            /\ Goto(t, "ready")
    /\ UNCHANGED <<storage, temp, leftover, req, lock, write_failed, remaining,
                   owed, list, answer, counters>>

\* unlinkat() of a stale temporary file.
ClearTemp(t) ==
    /\ pc[t] = "clear"
    /\ \/ /\ temp' = [temp EXCEPT ![t] = None]
          /\ leftover' = leftover \ {t}
          /\ Goto(t, "create")
          /\ NoFault
          /\ UNCHANGED answer
       \/ /\ Fault
          /\ UNCHANGED <<temp, leftover>>
          /\ SendError(t, "UPLOAD_ERROR", "cleanup")
    /\ UNCHANGED <<storage, inode, req, lock, transfer, list, nreq, exits,
                   removals>>

\* openat() with O_CREAT and O_EXCL: the name has just been cleared, and
\* nobody else uses it.
CreateTemp(t) ==
    /\ pc[t] = "create"
    /\ \/ /\ temp[t] = None
          /\ temp' = [temp EXCEPT ![t] = req[t].num]
          /\ inode' = [inode EXCEPT ![req[t].num] =
                          [regular |-> TRUE, size |-> req[t].size, len |-> 0]]
          /\ file_fd' = [file_fd EXCEPT ![t] = req[t].num]
          /\ temp_created' = [temp_created EXCEPT ![t] = TRUE]
          /\ Goto(t, "ready")
          /\ NoFault
          /\ UNCHANGED answer
       \/ /\ Fault
          /\ SendError(t, "UPLOAD_ERROR", "cleanup")
          /\ UNCHANGED <<temp, inode, file_fd, temp_created>>
    /\ UNCHANGED <<storage, leftover, req, lock, write_failed, remaining, owed,
                   list, nreq, exits, removals>>

\* UPLOAD_READY: from now on the client sends the promised blocks.
SendReady(t) ==
    /\ pc[t] = "ready"
    /\ \/ /\ Send(t, "UPLOAD_READY", 0)
          /\ owed' = [owed EXCEPT ![t] = req[t].size]
          /\ remaining' = [remaining EXCEPT ![t] = req[t].size]
          /\ write_failed' = [write_failed EXCEPT ![t] = FALSE]
          /\ Goto(t, "recv")
       \/ /\ Abort(t, "cleanup")
          /\ UNCHANGED <<owed, remaining, write_failed>>
    /\ UNCHANGED <<disk, req, lock, file_fd, temp_created, list, counters>>

\* Mutants of ReceiveBlock: one block too many, and a failed write that ends
\* the loop.
ReceiveBlockExtra(t) ==
    /\ pc[t] = "recv" /\ remaining[t] >= 0
    /\ remaining' = [remaining EXCEPT ![t] = @ - 1]
    /\ owed' = [owed EXCEPT ![t] = @ - 1]
    /\ inode' = [inode EXCEPT ![file_fd[t]].len = @ + 1]
    /\ UNCHANGED <<storage, temp, leftover, pc, req, lock, file_fd,
                   temp_created, write_failed, list, answer, counters>>
ReceiveBlockStopping(t) ==
    /\ pc[t] = "recv" /\ remaining[t] > 0
    /\ owed' = [owed EXCEPT ![t] = @ - 1]
    /\ \/ /\ inode' = [inode EXCEPT ![file_fd[t]].len = @ + 1]
          /\ remaining' = [remaining EXCEPT ![t] = @ - 1]
          /\ write_failed' = write_failed
          /\ NoFault
       \/ /\ Fault
          /\ inode' = inode
          /\ remaining' = [remaining EXCEPT ![t] = 0]
          /\ write_failed' = [write_failed EXCEPT ![t] = TRUE]
    /\ UNCHANGED <<storage, temp, leftover, pc, req, lock, file_fd,
                   temp_created, list, answer, nreq, exits, removals>>

\* recv_all() of a block and, unless a write has failed before,
\* write_all_file() of it.  A failed write does not stop the reception.
ReceiveBlock(t) ==
    /\ pc[t] = "recv" /\ remaining[t] > 0
    /\ remaining' = [remaining EXCEPT ![t] = @ - 1]
    /\ owed' = [owed EXCEPT ![t] = @ - 1]
    /\ \/ /\ write_failed[t]
          /\ UNCHANGED <<inode, write_failed, faults>>
       \/ /\ ~write_failed[t]
          /\ inode' = [inode EXCEPT ![file_fd[t]].len = @ + 1]
          /\ write_failed' = write_failed
          /\ NoFault
       \/ /\ ~write_failed[t]
          /\ Fault
          /\ inode' = inode
          /\ write_failed' = [write_failed EXCEPT ![t] = TRUE]
    /\ UNCHANGED <<storage, temp, leftover, pc, req, lock, file_fd,
                   temp_created, list, answer, nreq, exits, removals>>

\* recv_all() fails: the stream cannot be used any more.
ReceiveFails(t) ==
    /\ pc[t] = "recv" /\ remaining[t] > 0
    /\ Abort(t, "cleanup")
    /\ UNCHANGED <<disk, req, lock, transfer, list, counters>>

\* Mutants of CloseTemp: write_failed is not looked at; and a return that
\* skips the cleanup.
CloseTempIgnoring(t) ==
    /\ pc[t] = "recv" /\ remaining[t] = 0
    /\ file_fd' = [file_fd EXCEPT ![t] = None]
    /\ Goto(t, "link")
    /\ UNCHANGED <<disk, req, lock, temp_created, write_failed, remaining, owed,
                   list, answer, counters>>

CloseTempReturning(t) ==
    /\ pc[t] = "recv" /\ remaining[t] = 0
    /\ file_fd' = [file_fd EXCEPT ![t] = None]
    /\ \/ /\ ~write_failed[t]
          /\ Goto(t, "link")
          /\ UNCHANGED answer
       \/ /\ write_failed[t]
          /\ SendError(t, "UPLOAD_ERROR", "release")
    /\ UNCHANGED <<disk, req, lock, temp_created, write_failed, remaining, owed,
                   list, counters>>

\* fsync(), fchmod() and close() of the temporary file.
CloseTemp(t) ==
    /\ pc[t] = "recv" /\ remaining[t] = 0
    /\ file_fd' = [file_fd EXCEPT ![t] = None]
    /\ \/ /\ ~write_failed[t]
          /\ Goto(t, "link")
          /\ NoFault
          /\ UNCHANGED <<write_failed, answer>>
       \/ /\ (write_failed[t] /\ NoFault) \/ Fault
          /\ write_failed' = [write_failed EXCEPT ![t] = TRUE]
          /\ SendError(t, "UPLOAD_ERROR", "cleanup")
    /\ UNCHANGED <<disk, req, lock, temp_created, remaining, owed, list, nreq,
                   exits, removals>>

\* Mutants of Publish: rename(), which replaces, instead of linkat(); and a
\* link whose failure with EEXIST is not noticed.
PublishReplacing(t) ==
    /\ pc[t] = "link"
    /\ storage' = [storage EXCEPT ![req[t].name] = temp[t]]
    /\ temp' = [temp EXCEPT ![t] = None]
    /\ temp_created' = [temp_created EXCEPT ![t] = FALSE]
    /\ Goto(t, "success")
    /\ UNCHANGED <<inode, leftover, req, lock, file_fd, write_failed, remaining,
                   owed, list, answer, counters>>
PublishUnchecked(t) ==
    /\ pc[t] = "link"
    /\ storage' = [storage EXCEPT ![req[t].name] = IF @ = None THEN temp[t] ELSE @]
    /\ Goto(t, "unlink")
    /\ UNCHANGED <<temp, inode, leftover, req, lock, transfer, list, answer,
                   counters>>

\* linkat() of the temporary file under its final name.
Publish(t) ==
    /\ pc[t] = "link"
    /\ \/ /\ storage[req[t].name] = None
          /\ storage' = [storage EXCEPT ![req[t].name] = temp[t]]
          /\ Goto(t, "unlink")
          /\ NoFault
          /\ UNCHANGED answer
       \/ /\ storage[req[t].name] # None
          /\ SendError(t, "FILE_ALREADY_EXISTS", "cleanup")
          /\ NoFault
          /\ storage' = storage
       \/ /\ Fault
          /\ SendError(t, "UPLOAD_ERROR", "cleanup")
          /\ storage' = storage
    /\ UNCHANGED <<temp, inode, leftover, req, lock, transfer, list, nreq, exits,
                   removals>>

\* unlinkat() of the temporary name, whose failure is only logged.
RemoveTemp(t) ==
    /\ pc[t] = "unlink"
    /\ \/ /\ temp' = [temp EXCEPT ![t] = None]
          /\ temp_created' = [temp_created EXCEPT ![t] = FALSE]
          /\ leftover' = leftover
          /\ NoFault
       \/ /\ Fault
          /\ leftover' = leftover \union {t}
          /\ UNCHANGED <<temp, temp_created>>
    /\ Goto(t, "success")
    /\ UNCHANGED <<storage, inode, req, lock, file_fd, write_failed, remaining,
                   owed, list, answer, nreq, exits, removals>>

SendSuccess(t) ==
    /\ pc[t] = "success"
    /\ \E r \in {0, -1} : Send(t, "UPLOAD_SUCCESS", r)
    /\ Goto(t, "cleanup")
    /\ UNCHANGED <<disk, req, lock, transfer, list, counters>>

\* Mutant of Cleanup: it forgets the lock.
CleanupKeepingLock(t) ==
    /\ pc[t] = "cleanup"
    /\ file_fd' = [file_fd EXCEPT ![t] = None]
    /\ temp' = IF temp_created[t] THEN [temp EXCEPT ![t] = None] ELSE temp
    /\ temp_created' = [temp_created EXCEPT ![t] = FALSE]
    /\ Goto(t, IF result[t] = 0 THEN "release" ELSE "idle")
    /\ UNCHANGED <<storage, inode, leftover, req, lock, write_failed, remaining,
                   owed, list, answer, counters>>

\* upload_cleanup and download_cleanup, up to the release of the lock.
Cleanup(t) ==
    /\ pc[t] = "cleanup"
    /\ file_fd' = [file_fd EXCEPT ![t] = None]
    /\ \/ /\ temp_created[t]
          /\ temp' = [temp EXCEPT ![t] = None]
          /\ leftover' = leftover \ {t}
          /\ NoFault
       \/ /\ temp_created[t]
          /\ Fault
          /\ leftover' = leftover \union {t}
          /\ temp' = temp
       \/ /\ ~temp_created[t]
          /\ UNCHANGED <<temp, leftover, faults>>
    /\ temp_created' = [temp_created EXCEPT ![t] = FALSE]
    /\ Goto(t, "release")
    /\ UNCHANGED <<storage, inode, req, lock, write_failed, remaining, owed,
                   list, answer, nreq, exits, removals>>

-----------------------------------------------------------------------------
(* Downloads.                                                              *)

Download(t, n) ==
    /\ "download" \in Operations
    /\ Receive(t, Request("download", n, 0, nreq'))
    /\ Goto(t, "lock")

\* openat() and fstat() of the file, under the shared lock; its size goes
\* into DOWNLOAD_READY.
OpenFile(t) ==
    /\ pc[t] = "open"
    /\ \/ /\ storage[req[t].name] = None
          /\ SendError(t, "FILE_NOT_FOUND", "cleanup")
          /\ NoFault
          /\ UNCHANGED <<file_fd, remaining, req>>
       \/ /\ \/ Fault
             \/ /\ storage[req[t].name] # None
                /\ ~inode[storage[req[t].name]].regular
                /\ NoFault
          /\ SendError(t, "DOWNLOAD_ERROR", "cleanup")
          /\ UNCHANGED <<file_fd, remaining, req>>
       \/ /\ storage[req[t].name] # None
          /\ inode[storage[req[t].name]].regular
          /\ file_fd' = [file_fd EXCEPT ![t] = storage[req[t].name]]
          /\ LET k == inode[storage[req[t].name]].len IN
             /\ req' = [req EXCEPT ![t].size = k]
             /\ remaining' = [remaining EXCEPT ![t] = k]
          /\ NoFault
          /\ Goto(t, "stream")
          /\ UNCHANGED answer
    /\ UNCHANGED <<disk, lock, temp_created, write_failed, owed, list, nreq,
                   exits, removals>>

\* client_manager_send_file_stream: the next block is read and sent.  Only
\* the thread's own progress matters here; the stream of the connection is
\* modelled in ClientManager.
StreamBlock(t) ==
    /\ pc[t] = "stream" /\ remaining[t] > 0
    /\ req[t].size - remaining[t] < inode[file_fd[t]].len
    /\ remaining' = [remaining EXCEPT ![t] = @ - 1]
    /\ UNCHANGED <<disk, pc, req, lock, file_fd, temp_created, write_failed,
                   owed, list, answer, counters>>

\* A send or a read fails, or the file ends early.
StreamFails(t) ==
    /\ pc[t] = "stream"
    /\ Abort(t, "cleanup")
    /\ UNCHANGED <<disk, req, lock, transfer, list, counters>>

StreamEnds(t) ==
    /\ pc[t] = "stream" /\ remaining[t] = 0
    /\ Send(t, "DOWNLOAD_READY", 0)
    /\ Goto(t, "cleanup")
    /\ UNCHANGED <<disk, req, lock, transfer, list, counters>>

-----------------------------------------------------------------------------
(* Listings.                                                               *)

List(t) ==
    /\ "list" \in Operations
    /\ Receive(t, Request("list", None, 0, nreq'))
    /\ Goto(t, "begin")

\* Mutant of BeginList: errno is not cleared after mkdir() failed with EEXIST.
BeginListStaleErrno(t) ==
    /\ pc[t] = "begin"
    /\ Send(t, "FILE_LIST_BEGIN", 0)
    /\ list' = [list EXCEPT ![t] =
                   [NoListing EXCEPT !.present = Present, !.errno = TRUE]]
    /\ Goto(t, "readdir")
    /\ UNCHANGED <<disk, req, lock, transfer, counters>>

\* The directory is opened, FILE_LIST_BEGIN is sent and errno is cleared.
BeginList(t) ==
    /\ pc[t] = "begin"
    /\ \/ /\ Send(t, "FILE_LIST_BEGIN", 0)
          /\ list' = [list EXCEPT ![t] = [NoListing EXCEPT !.present = Present]]
          /\ Goto(t, "readdir")
          /\ NoFault
       \/ /\ Abort(t, "idle")
          /\ list' = list
          /\ NoFault
       \/ /\ Fault
          /\ SendError(t, "REQUEST_REFUSED", "idle")
          /\ list' = list
    /\ UNCHANGED <<disk, req, lock, transfer, nreq, exits, removals>>

\* readdir() may return n: it is there, or it was when the directory was
\* opened.
Returned(t, n) ==
    n \notin list[t].seen /\ (n \in Present \/ n \in list[t].present)

\* fstatat() of entry n fails: it is skipped, but errno stays set.
Skipped(t, n) == [list[t] EXCEPT !.seen = @ \union {n}, !.errno = TRUE]

\* What the loop makes of entry n, and the errno it leaves.
Listed(t, n) ==
    LET l == [list[t] EXCEPT !.seen = @ \union {n}] IN
    IF n \notin Present THEN Skipped(t, n)
    ELSE IF inode[storage[n]].regular
         THEN [l EXCEPT !.sent = @ \union
                  {[id |-> storage[n], size |-> inode[storage[n]].len]}]
         ELSE l

\* An entry is skipped, because of what fstatat() says or because it fails, or
\* its FILELIST frame is sent or fails.
ReadEntry(t) ==
    /\ pc[t] = "readdir"
    /\ \E n \in Names :
       /\ Returned(t, n)
       /\ \/ /\ list' = [list EXCEPT ![t] = Listed(t, n)]
             /\ NoFault
             /\ UNCHANGED <<pc, answer>>
          \/ /\ Fault
             /\ list' = [list EXCEPT ![t] = Skipped(t, n)]
             /\ UNCHANGED <<pc, answer>>
          \/ /\ Listed(t, n).sent # list[t].sent
             /\ Abort(t, "idle")
             /\ NoFault
             /\ list' = list
    /\ UNCHANGED <<disk, req, lock, transfer, nreq, exits, removals>>

\* Mutant of AllRead: the loop ends at the first entry that is not listed.
AllReadEarly(t) ==
    \/ \A n \in list[t].present \ list[t].seen : n \notin Present
    \/ \E n \in list[t].seen :
          n \in Present /\ ~inode[storage[n]].regular

\* readdir() has returned every entry that was there all the time.
AllRead(t) == \A n \in list[t].present \ list[t].seen : n \notin Present

\* readdir() returns NULL: errno, which it leaves alone at the end of the
\* directory, tells the end from a failure.
EndList(t) ==
    /\ pc[t] = "readdir"
    /\ \/ /\ AllRead(t) /\ ~list[t].errno
          /\ \E r \in {0, -1} : Send(t, "FILE_LIST_END", r)
          /\ Goto(t, "idle")
          /\ NoFault
       \/ /\ (AllRead(t) /\ list[t].errno /\ NoFault) \/ Fault
          /\ SendError(t, "FILE_LIST_READ_FAILED", "idle")
    /\ UNCHANGED <<disk, req, lock, transfer, list, nreq, exits, removals>>

-----------------------------------------------------------------------------
(* The rest of the world.                                                  *)

\* The server process ends in the middle of anything, and is started again:
\* descriptors are closed and locks dropped, temporary files stay.  main()
\* does this on every shutdown, since the handler threads are detached.
Exit ==
    /\ exits < MaxExits
    /\ exits' = exits + 1
    /\ pc' = [t \in Threads |-> "idle"]
    /\ req' = [t \in Threads |-> NoRequest]
    /\ lock' = [t \in Threads |-> "none"]
    /\ file_fd' = [t \in Threads |-> None]
    /\ temp_created' = [t \in Threads |-> FALSE]
    /\ write_failed' = [t \in Threads |-> FALSE]
    /\ remaining' = [t \in Threads |-> 0]
    /\ owed' = [t \in Threads |-> 0]
    /\ list' = [t \in Threads |-> NoListing]
    /\ reply' = [t \in Threads |-> None]
    /\ result' = [t \in Threads |-> 0]
    /\ leftover' = {t \in Threads : temp[t] # None}
    /\ UNCHANGED <<storage, temp, inode, nreq, faults, removals>>

\* Another program puts a file, or something that has no size, into the
\* directory ...
OthersCreate(n, k, regular) ==
    /\ "external" \in Operations
    /\ regular \/ k = 0
    /\ nreq < MaxRequests
    /\ storage[n] = None
    /\ nreq' = nreq + 1
    /\ storage' = [storage EXCEPT ![n] = nreq']
    /\ inode' = [inode EXCEPT ![nreq'] =
                    [regular |-> regular, size |-> k, len |-> k]]
    /\ UNCHANGED <<temp, leftover, pc, req, lock, transfer, list, answer, faults,
                   exits, removals>>

\* ... or removes a shared file.
OthersRemove(n) ==
    /\ removals < MaxRemovals
    /\ removals' = removals + 1
    /\ storage[n] # None
    /\ storage' = [storage EXCEPT ![n] = None]
    /\ UNCHANGED <<temp, inode, leftover, pc, req, lock, transfer, list, answer,
                   nreq, faults, exits>>

-----------------------------------------------------------------------------
Init ==
    /\ storage = [n \in Names |-> None]
    /\ temp = [t \in Threads |-> None]
    /\ inode = [i \in Ids |-> EmptyInode]
    /\ leftover = {}
    /\ pc = [t \in Threads |-> "idle"]
    /\ req = [t \in Threads |-> NoRequest]
    /\ lock = [t \in Threads |-> "none"]
    /\ file_fd = [t \in Threads |-> None]
    /\ temp_created = [t \in Threads |-> FALSE]
    /\ write_failed = [t \in Threads |-> FALSE]
    /\ remaining = [t \in Threads |-> 0]
    /\ owed = [t \in Threads |-> 0]
    /\ list = [t \in Threads |-> NoListing]
    /\ reply = [t \in Threads |-> None]
    /\ result = [t \in Threads |-> 0]
    /\ nreq = 0 /\ faults = 0 /\ exits = 0 /\ removals = 0

\* A request arrives.
Arrive(t) ==
    \/ \E n \in Names, k \in Sizes : Upload(t, n, k)
    \/ \E n \in Names : Download(t, n)
    \/ List(t)
    \/ Refuse(t)

\* The thread goes on with its request.
Serve(t) ==
    \/ file_lock_acquire(t)
    \/ CheckDestination(t)
    \/ ClearTemp(t)
    \/ CreateTemp(t)
    \/ SendReady(t)
    \/ ReceiveBlock(t)
    \/ ReceiveFails(t)
    \/ CloseTemp(t)
    \/ Publish(t)
    \/ RemoveTemp(t)
    \/ SendSuccess(t)
    \/ Cleanup(t)
    \/ OpenFile(t)
    \/ StreamBlock(t)
    \/ StreamFails(t)
    \/ StreamEnds(t)
    \/ BeginList(t)
    \/ ReadEntry(t)
    \/ EndList(t)
    \/ file_lock_release(t)
    \/ ConnectionEnd(t)

World ==
    \/ Exit
    \/ \E n \in Names, k \in Sizes, r \in BOOLEAN : OthersCreate(n, k, r)
    \/ \E n \in Names : OthersRemove(n)

\* Nobody asks for anything more: the end of a bounded behaviour.
Finished ==
    /\ nreq = MaxRequests /\ \A t \in Threads : pc[t] = "idle" /\ result[t] = 0
    /\ UNCHANGED vars

Next == (\E t \in Threads : Arrive(t) \/ Serve(t)) \/ World \/ Finished

Spec == Init /\ [][Next]_vars

\* A thread that can go on does; an upload goes on receiving because its
\* client keeps sending or its connection breaks.
Fairness == \A t \in Threads : WF_vars(Serve(t))

FairSpec == Spec /\ Fairness

-----------------------------------------------------------------------------
(* Properties.                                                             *)

DiskType ==
    /\ storage \in [Names -> Ids \union {None}]
    /\ temp \in [Threads -> Ids \union {None}]
    /\ inode \in [Ids -> Inodes]
    /\ leftover \subseteq Threads

TransferType ==
    /\ file_fd \in [Threads -> Ids \union {None}]
    /\ temp_created \in [Threads -> BOOLEAN]
    /\ write_failed \in [Threads -> BOOLEAN]
    /\ remaining \in [Threads -> Sizes]
    /\ owed \in [Threads -> Sizes]

CallType ==
    /\ pc \in [Threads -> Pcs]
    /\ req \in [Threads -> AllRequests]
    /\ lock \in [Threads -> {"none", "shared", "exclusive"}]
    /\ list \in [Threads -> Listings]
    /\ reply \in [Threads -> Replies \union {None}]
    /\ result \in [Threads -> {0, -1}]

CounterType ==
    /\ nreq \in 0 .. MaxRequests
    /\ faults \in 0 .. MaxFaults
    /\ exits \in 0 .. MaxExits
    /\ removals \in 0 .. MaxRemovals

\* Type invariant of the disk and the threads: in particular an upload never
\* writes more blocks than were promised, nor reads more than were sent.
TypeOK == DiskType /\ TransferType /\ CallType /\ CounterType

\* Every file under a shared name has all the blocks its upload promised:
\* linkat() publishes only what was received and written completely.
FilesComplete ==
    \A n \in Present : inode[storage[n]].len = inode[storage[n]].size

\* No request replaces, removes or changes a shared file: publishing never
\* overwrites an entry, and no thread writes to an inode that has a shared
\* name, although a temporary name may be left over as a second name of one.
FilesKept ==
    [][\A n \in Names : storage[n] # None =>
          /\ inode'[storage[n]] = inode[storage[n]]
          /\ pc' # pc => storage'[n] = storage[n]]_vars

\* An upload that found its destination free under the exclusive lock finds
\* it free when it publishes, unless another program interferes: the client
\* is not asked for its data in vain.
DestinationStaysFree ==
    \A t \in Threads :
        /\ "external" \notin Operations
        /\ pc[t] \in {"clear", "create", "ready", "recv", "link"}
        => storage[req[t].name] = None

\* UPLOAD_SUCCESS is sent only for a file that is shared under the requested
\* name, and an error only for one that is not.
UploadOutcome ==
    \A t \in Threads : req[t].op = "upload" =>
        /\ reply[t] = "UPLOAD_SUCCESS" /\ removals = 0 =>
              storage[req[t].name] = req[t].num
        /\ reply[t] \in Errors =>
              \A n \in Names : storage[n] # req[t].num

\* A download streams a complete regular file whose size is the one that
\* DOWNLOAD_READY announced, until its last block.
DownloadWhole ==
    \A t \in Threads : pc[t] = "stream" =>
        inode[file_fd[t]] =
            [regular |-> TRUE, size |-> req[t].size, len |-> req[t].size]

\* A handler that goes back to its receive loop has read every block that
\* its client was told to send, even if the disk failed: the next bytes of
\* the stream are a frame header.
StreamAligned ==
    \A t \in Threads : pc[t] = "idle" /\ result[t] = 0 => owed[t] = 0

\* A temporary file outlives its upload only if removing that very file failed
\* or the server ended: every early exit of the upload removes it, whatever
\* else has failed (the goto upload_cleanup of file_manager_handle_upload).
TempsRemoved ==
    \A t \in Threads : temp[t] # None =>
        \/ t \in leftover
        \/ pc[t] \in {"ready", "recv", "link", "unlink", "cleanup"}

\* A listing shows only complete files, with their sizes, and when it ends
\* with FILE_LIST_END it has shown every file that was there all the time,
\* although it takes no lock.
ListingFaithful ==
    \A t \in Threads :
        /\ \A e \in list[t].sent : inode[e.id] =
              [regular |-> TRUE, size |-> e.size, len |-> e.size]
        /\ reply[t] = "FILE_LIST_END" /\ removals = 0 =>
              \A n \in list[t].present : inode[storage[n]].regular =>
                  \E e \in list[t].sent : e.id = storage[n]

\* A listing fails only if a call failed: errno, which tells the end of the
\* directory from a failure of readdir(), is never one from before the loop,
\* and an entry that disappears between readdir() and fstatat() is skipped, as
\* the comment in the loop says.
ListingFailsForCause ==
    \A t \in Threads : reply[t] = "FILE_LIST_READ_FAILED" => faults > 0

\* The directory as clients see it, and the files that downloads have open.
Shown(i) == [id |-> i, regular |-> inode[i].regular, size |-> inode[i].size,
             len |-> inode[i].len]

DirectoryFiles ==
    [n \in Names |-> IF storage[n] = None THEN None ELSE Shown(storage[n])]

FilesRead ==
    [t \in Threads |-> IF pc[t] = "stream" THEN Shown(file_fd[t]) ELSE None]

Shared == INSTANCE SharedFiles WITH
    Readers <- Threads, files <- DirectoryFiles, reading <- FilesRead

\* The file manager implements SharedFiles: however requests, failing calls,
\* exits of the server and other programs interleave, a name gets a complete
\* file in one step and keeps it unchanged until another program removes it,
\* and a download reads one complete file that does not change under it
\* (file_manager_handle_upload, file_manager_handle_download).
ImplementsSharedFiles == Shared!Spec

\* Every file request ends: no thread waits for a lock forever, and no error
\* path keeps one.
RequestsEnd == \A t \in Threads : pc[t] # "idle" ~> pc[t] = "idle"
=============================================================================
